---------------------------- MODULE ServerLists ----------------------------
(***************************************************************************)
(* The server lists of the store: what a request or an old data file asks  *)
(* for, and the lists the runners get.  An entry is a host in some spelling *)
(* (case, blanks around it, a scheme before it) with a port, which may be  *)
(* missing; equal entries differ only in the spelling.                     *)
(***************************************************************************)
EXTENDS Naturals, Sequences, SequencesExt, Functions

CONSTANTS NoHost,    \* the empty or blank host
          Defaults   \* defaultSTUNServers, defaultHTTPServers, defaultQUICServers

IsList(s) == s \in Seq(Range(s))

ASSUME DefaultsAssumption ==
  \A kind \in {"stun", "http", "quic"} : IsList(Defaults[kind])

\* An entry is [host, spelling, port]; port 0 is missing.
SameServer(a, b) == a.host = b.host /\ a.port = b.port

WithPort(server, defaultPort) ==
  IF server.port = 0 THEN [server EXCEPT !.port = defaultPort] ELSE server

Holds(servers, server) ==
  \E n \in DOMAIN servers : SameServer(servers[n], server)

\* Variant: an entry that is there already is added all the same.
NormalizeKeepingAll(servers, defaultPort) ==
  SelectSeq([n \in DOMAIN servers |-> WithPort(servers[n], defaultPort)],
            LAMBDA server : server.host # NoHost)

\* No server is there twice.
Distinct(servers) ==
  \A i, j \in DOMAIN servers : SameServer(servers[i], servers[j]) => i = j

\* The first of equal entries stays, in its place and spelling; out[n] is what
\* the loop has kept of the first n.
NormalizeServerEndpoints(servers, defaultPort) ==
  LET entry(n) == WithPort(servers[n], defaultPort)
      out[n \in 0..Len(servers)] ==
        IF n = 0 THEN << >>
        ELSE IF servers[n].host = NoHost \/ Holds(out[n - 1], entry(n))
             THEN out[n - 1]
             ELSE Append(out[n - 1], entry(n))
  IN  out[Len(servers)]

FlattenLegacyServerGroups(groups, defaultPort) ==
  LET out[n \in 0..Len(groups)] ==
        IF n = 0 THEN << >>
        ELSE out[n - 1]
             \o NormalizeServerEndpoints(groups[n].servers, defaultPort)
  IN  NormalizeServerEndpoints(out[Len(groups)], defaultPort)

\* `quic' says whether ID or name of the group speaks of quic or udp; the
\* servers of other groups are passed over.
LegacyKeepAliveServers(groups, quic) ==
  FlattenLegacyServerGroups(
    [n \in DOMAIN groups |->
       IF groups[n].quic = quic THEN groups[n] ELSE [servers |-> << >>]],
    IF quic THEN 443 ELSE 80)

-----------------------------------------------------------------------------
OrElse(servers, others) == IF servers = << >> THEN others ELSE servers

\* Options hold lists of servers, and lists of groups of them.
OptionsOK(options) ==
  /\ \A list \in {options.stun, options.http, options.quic,
                  options.stunGroups, options.keepAliveGroups} : IsList(list)
  /\ \A groups \in {options.stunGroups, options.keepAliveGroups} :
       \A n \in DOMAIN groups : IsList(groups[n].servers)

\* The groups of an old page or file stand in for a list that is missing.
WithGroups(options) ==
  [stun |-> OrElse(options.stun,
                   FlattenLegacyServerGroups(options.stunGroups, 3478)),
   http |-> OrElse(options.http,
                   LegacyKeepAliveServers(options.keepAliveGroups, FALSE)),
   quic |-> OrElse(options.quic,
                   LegacyKeepAliveServers(options.keepAliveGroups, TRUE))]

Normalized(lists) ==
  [stun |-> NormalizeServerEndpoints(lists.stun, 3478),
   http |-> NormalizeServerEndpoints(lists.http, 80),
   quic |-> NormalizeServerEndpoints(lists.quic, 443)]

\* PUT server-groups.
UpdatedLists(request) == Normalized(WithGroups(request))

\* normalizeLocked when the data file is opened: defaults for what is left
\* empty.  Nothing is refused here.
LoadedLists(options) ==
  LET lists == WithGroups(options)
  IN  Normalized([kind \in {"stun", "http", "quic"} |->
                    OrElse(lists[kind], Defaults[kind])])

\* The lists of the store: loaded from disk, or last updated by a PUT.
StoredLists(s) ==
  IF s.loaded THEN LoadedLists(s.options) ELSE UpdatedLists(s.options)

\* The ports of a valid entry are 1-65535.
Accepted(lists) ==
  \A kind \in {"stun", "http", "quic"} :
    /\ lists[kind] # << >>
    /\ \A n \in DOMAIN lists[kind] : lists[kind][n].port \in 1..65535

\* resolveConfigLocked and keepAliveServers, stunServers: the list of the
\* group if there is one, else the server the instance names itself, with the
\* defaults of normalizeConfig and customSTUNServers for what it leaves out.
KeepAliveServers(cfg, lists) ==
  LET udp == cfg.protocol = "udp"
      group == lists[IF udp THEN "quic" ELSE "http"]
  IN  OrElse(IF cfg.keepAliveMode = "group" THEN group ELSE << >>,
             <<WithPort(cfg.server, IF udp THEN 443 ELSE 80)>>)

StunServers(cfg, lists) ==
  LET default == Last(Defaults["stun"])
      host == IF cfg.stunServer.host = NoHost THEN default.host
                                              ELSE cfg.stunServer.host
  IN  OrElse(IF cfg.stunMode = "group" THEN lists["stun"] ELSE << >>,
             <<WithPort([cfg.stunServer EXCEPT !.host = host], default.port)>>)
=============================================================================
