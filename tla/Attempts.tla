------------------------------ MODULE Attempts -----------------------------
(***************************************************************************)
(* The attempts of a runner to open, keep and rebuild its session: which   *)
(* local port each one binds and which servers it asks.  The session       *)
(* (runTCP, runUDP and their reconnect loops) and the probe goroutines it  *)
(* has started share the port preference of BindPort and the cursors of    *)
(* ServerRotation; a goroutine of an earlier session may still use both.   *)
(* A dial may succeed, fail, or find that the system refuses the port.     *)
(***************************************************************************)
EXTENDS BindPort, ServerRotation, FiniteSets

CONSTANTS Settings,     \* instances: protocol, port text, servers, and the
                        \* lists of the store, loaded from disk or from a PUT
          Probes,       \* cells for probe goroutines
          BatchSize,    \* tcpPublicProbeBatchSize, udpPublicProbeFanout
          NoServer

ASSUME BatchAssumption == BatchSize \in Nat \ {0}
ASSUME SettingsAssumption ==
  \A s \in Settings : /\ s.protocol \in {"tcp", "udp"}
                      /\ s.bindPort.randomized \in BOOLEAN
                      /\ OptionsOK(s.options)
ASSUME NoServerAssumption ==
  \A s \in Settings :
    NoServer \notin Range(KeepAliveServers(s, StoredLists(s)))

VARIABLES
  protocol, keepServers, stunServers,  \* of the instance, fixed
  place,      \* of the session
  port,       \* the port it binds, or has
  order,      \* the servers still to be dialled
  current,    \* the server of the last session
  round,      \* of reconnecting
  probe, cancelled, probePort, batch,  \* of each probe goroutine
  kept,       \* history: the port that worked and nobody has refused since
  refused,    \* history: the port the system has refused the session last
  left,       \* history: the ports given up since one worked
  gaveUp,     \* history: the server three rounds failed to reconnect
  silent,     \* history: batches begun since a STUN server answered last
  asked       \* history: the servers in them

settingVars == <<protocol, keepServers, stunServers>>
sessionVars == <<place, port, order, current, round>>
probeVars == <<probe, cancelled, probePort, batch>>
keptVars == <<kept, refused, left>>
askedVars == <<silent, asked>>
vars == <<portVars, serverCursor, settingVars, sessionVars, probeVars,
          keptVars, gaveUp, askedVars>>

NoPort == -1
MaxRounds == 3      \* reconnect rounds before the session is rebuilt

\* A list with something in it.
Listed(s) == IsList(s) /\ s # << >>

\* What NormalizeServerEndpoints and the fallbacks make of any list.
ListsInOrder ==
  /\ Listed(keepServers) /\ Listed(stunServers)
  /\ Distinct(keepServers) /\ Distinct(stunServers)

TypeOK ==
  /\ ListsInOrder
  /\ PortTypeOK
  /\ serverCursor \in [Kinds -> Nat]
  /\ place \in {"rebuild", "binding", "dialing", "open", "reconnecting"}
  /\ port \in Ports /\ round \in 0..MaxRounds
  /\ Range(order) \subseteq Range(keepServers)
  /\ current \in Range(keepServers) \cup {NoServer}
  /\ place \in {"open", "reconnecting"} => port > 0 /\ current # NoServer
  /\ place \in {"dialing", "reconnecting"} => order # << >>
  /\ probe \in [Probes -> {"idle", "ready", "asking", "blaming"}]
  /\ cancelled \in [Probes -> BOOLEAN]
  /\ probePort \in [Probes -> Ports \cup {NoPort}]
  /\ \A p \in Probes : Range(batch[p]) \subseteq Range(stunServers)
  /\ kept \in Ports \cup {NoPort}
  /\ refused \in Ports \cup {NoPort} /\ left \subseteq Ports
  /\ gaveUp \in Range(keepServers) \cup {NoServer}
  /\ silent \in 0..Len(stunServers) /\ asked \subseteq Range(stunServers)

Init ==
  /\ \E s \in Settings :
       /\ s.loaded \/ Accepted(StoredLists(s))
       /\ PortInit(s.bindPort)
       /\ protocol = s.protocol
       /\ keepServers = KeepAliveServers(s, StoredLists(s))
       /\ stunServers = StunServers(s, StoredLists(s))
  /\ CursorInit
  /\ place = "rebuild" /\ port = 0 /\ order = << >>
  /\ current = NoServer /\ round = 0
  /\ probe = [p \in Probes |-> "idle"]
  /\ cancelled = [p \in Probes |-> FALSE]
  /\ probePort = [p \in Probes |-> NoPort]
  /\ batch = [p \in Probes |-> << >>]
  /\ kept = NoPort /\ refused = NoPort /\ left = {}
  /\ gaveUp = NoServer /\ silent = 0 /\ asked = {}

-----------------------------------------------------------------------------
KeepAliveKind == IF protocol = "udp" THEN "quic" ELSE "http"

\* What a socket bound to `wanted' is bound to.
Actual(wanted) == IF wanted = 0 THEN 1..MaxPort ELSE {wanted}

Works(p) == KeepBindPort(p) /\ kept' = p /\ refused' = NoPort /\ left' = {}

\* The session finds its own port refused.
Refused ==
  /\ AdvanceBindPort
  /\ kept' = NoPort /\ refused' = port /\ UNCHANGED left

\* It has failed for another reason.
FailsOtherwise ==
  refused' = NoPort /\ UNCHANGED <<portVars, kept, left>>

\* Search the servers, all of them or those after `current' first.
Search(search) == order' = search.order /\ serverCursor' = search.cursor

\* The deferred cancelProbe; goroutines of earlier sessions were cancelled.
CancelProbes ==
  /\ cancelled' = [p \in Probes |-> probe[p] # "idle"]
  /\ UNCHANGED <<probe, probePort, batch>>

StartProbe(privatePort) ==
  \E p \in Probes :
    /\ probe[p] = "idle"
    /\ probe' = [probe EXCEPT ![p] = "ready"]
    /\ probePort' = [probePort EXCEPT ![p] = privatePort]
    /\ UNCHANGED <<cancelled, batch>>

-----------------------------------------------------------------------------
\* runTCP takes a port and dials from it; runUDP opens a socket on it first.
Attempt ==
  /\ place = "rebuild"
  /\ BindPort /\ port' = currentPort'
  /\ IF protocol = "udp"
     THEN place' = "binding" /\ UNCHANGED <<order, serverCursor>>
     ELSE /\ place' = "dialing"
          /\ Search(OrderedServerEndpoints("http", keepServers))
  /\ left' = IF advancePort THEN left \cup {port} ELSE left
  /\ UNCHANGED <<settingVars, current, round, probeVars, kept, refused,
                 gaveUp, askedVars>>

\* runUDP: the socket is there, and with it the port.
Listens ==
  /\ place = "binding" /\ place' = "dialing"
  /\ \E p \in Actual(port) : Works(p) /\ port' = p
  /\ Search(OrderedServerEndpoints("quic", keepServers))
  /\ UNCHANGED <<settingVars, current, round, probeVars, gaveUp, askedVars>>

ListenFails ==
  /\ place = "binding" /\ place' = "rebuild"
  /\ Refused \/ FailsOtherwise
  /\ UNCHANGED <<serverCursor, settingVars, port, order, current, round,
                 probeVars, gaveUp, askedVars>>

\* openTCPKeepAliveFromServers, openQUICKeepAliveFromServers: the server
\* answers the preflight request; the session is open and gets its probe.
DialSucceeds ==
  /\ place = "dialing" /\ place' = "open"
  /\ \E p \in Actual(port) :
       /\ port' = p
       /\ IF protocol = "tcp" THEN Works(p)
                              ELSE UNCHANGED <<portVars, keptVars>>
       /\ StartProbe(p)
  /\ current' = Head(order) /\ order' = << >> /\ gaveUp' = NoServer
  /\ UNCHANGED <<serverCursor, settingVars, round, askedVars>>

\* The next server of the list, or the end of the attempt.
DialFails ==
  /\ place = "dialing" /\ order' = Tail(order) /\ gaveUp' = NoServer
  /\ IF order' = << >> THEN place' = "rebuild" /\ FailsOtherwise
                       ELSE UNCHANGED <<place, portVars, keptVars>>
  /\ UNCHANGED <<serverCursor, settingVars, port, current, round, probeVars,
                 askedVars>>

\* The port is refused.  A TCP dial ends the list there; a QUIC dial counts
\* only if it is the last.
DialRefused ==
  /\ place = "dialing" /\ (protocol = "tcp" \/ Len(order) = 1)
  /\ place' = "rebuild" /\ order' = << >> /\ gaveUp' = NoServer
  /\ Refused
  /\ UNCHANGED <<serverCursor, settingVars, port, current, round, probeVars,
                 askedVars>>

-----------------------------------------------------------------------------
\* errSessionClosed: cancel the probe, reconnect from the same port.
SessionLost ==
  /\ place = "open" /\ place' = "reconnecting" /\ round' = 1
  /\ CancelProbes
  /\ Search(OrderedAfter(KeepAliveKind, keepServers, current))
  /\ UNCHANGED <<portVars, settingVars, port, current, keptVars, gaveUp,
                 askedVars>>

\* A probe starts, unless the TCP mapping that is known still answers
\* (skipTCPPublicProbeAfterReconnect).
RedialSucceeds ==
  /\ place = "reconnecting" /\ place' = "open"
  /\ current' = Head(order) /\ order' = << >> /\ round' = 0
  /\ StartProbe(port) \/ (protocol = "tcp" /\ UNCHANGED probeVars)
  /\ UNCHANGED <<portVars, serverCursor, settingVars, port, keptVars,
                 gaveUp, askedVars>>

RedialFails ==
  /\ place = "reconnecting" /\ Len(order) > 1
  /\ order' = Tail(order)
  /\ UNCHANGED <<portVars, serverCursor, settingVars, place, port, current,
                 round, probeVars, keptVars, gaveUp, askedVars>>

\* Every server has failed: another round, or give the session up.
RoundFails ==
  /\ place = "reconnecting" /\ Len(order) = 1
  /\ IF round >= MaxRounds /\ Len(keepServers) > 1
     THEN /\ place' = "rebuild" /\ round' = 0 /\ order' = << >>
          /\ gaveUp' = current /\ UNCHANGED serverCursor
     ELSE /\ Search(OrderedAfter(KeepAliveKind, keepServers, current))
          /\ round' = IF round < MaxRounds THEN round + 1 ELSE round
          /\ UNCHANGED <<place, gaveUp>>
  /\ UNCHANGED <<portVars, settingVars, port, current, probeVars, keptVars,
                 askedVars>>

\* reconnectTCPKeepAliveForProbe gives up at once.
RedialRefused ==
  /\ place = "reconnecting" /\ protocol = "tcp"
  /\ place' = "rebuild" /\ round' = 0 /\ order' = << >>
  /\ Refused
  /\ UNCHANGED <<serverCursor, settingVars, port, current, probeVars,
                 gaveUp, askedVars>>

-----------------------------------------------------------------------------
GoesTo(p, from, to) == probe[p] = from /\ probe' = [probe EXCEPT ![p] = to]

\* The cell of a goroutine that has returned.
Returns(p) ==
  /\ probe' = [probe EXCEPT ![p] = "idle"]
  /\ cancelled' = [cancelled EXCEPT ![p] = FALSE]
  /\ probePort' = [probePort EXCEPT ![p] = NoPort]
  /\ batch' = [batch EXCEPT ![p] = << >>]

ProbeUnchanged == UNCHANGED <<settingVars, sessionVars, gaveUp>>

\* tcpPublicProbe, udpPublicProbe: the next sample asks a batch of servers.
SampleBegins(p) ==
  /\ GoesTo(p, "ready", "asking")
  /\ LET search == OrderedServerEndpointBatch("stun", stunServers, BatchSize)
     IN  /\ batch' = [batch EXCEPT ![p] = search.order]
         /\ serverCursor' = search.cursor
         /\ asked' = asked \cup Range(search.order)
  /\ silent' = IF silent < Len(stunServers) THEN silent + 1 ELSE silent
  /\ UNCHANGED <<cancelled, probePort, portVars, keptVars>> /\ ProbeUnchanged

\* A server answers: the next search starts behind it.  With the last
\* confirmation the goroutine publishes and returns.
SampleAnswered(p) ==
  /\ probe[p] = "asking"
  /\ \E server \in Range(batch[p]) :
       serverCursor' = SetServerCursorAfter("stun", stunServers, server)
  /\ \/ /\ GoesTo(p, "asking", "ready")
        /\ batch' = [batch EXCEPT ![p] = << >>]
        /\ UNCHANGED <<cancelled, probePort>>
     \/ Returns(p)
  /\ silent' = 0 /\ asked' = {}
  /\ UNCHANGED <<portVars, keptVars>> /\ ProbeUnchanged

\* Nobody answers; after a pause the goroutine tries again.  If the cause is
\* the port, and its context is alive still, it is about to say so.
SampleFails(p) ==
  /\ \/ GoesTo(p, "asking", "ready")
     \/ ~cancelled[p] /\ GoesTo(p, "asking", "blaming")
  /\ batch' = [batch EXCEPT ![p] = << >>]
  /\ UNCHANGED <<cancelled, probePort, serverCursor, portVars, keptVars,
                 askedVars>> /\ ProbeUnchanged

\* advanceBindPort in a probe goroutine.  It names no port: what is refused
\* is whatever the runner prefers by now.
Blames(p) ==
  /\ GoesTo(p, "blaming", "ready")
  /\ AdvanceBindPort /\ kept' = NoPort
  /\ IF probePort[p] = currentPort /\ place \notin {"binding", "dialing"}
     THEN refused' = currentPort ELSE UNCHANGED refused
  /\ UNCHANGED <<left, cancelled, probePort, batch, serverCursor, askedVars>>
  /\ ProbeUnchanged

\* A cancelled goroutine returns at the next place where it looks.
ProbeEnds(p) ==
  /\ cancelled[p] /\ probe[p] \in {"ready", "asking"}
  /\ Returns(p)
  /\ UNCHANGED <<portVars, serverCursor, keptVars, askedVars>>
  /\ ProbeUnchanged

Next ==
  \/ Attempt \/ Listens \/ ListenFails
  \/ DialSucceeds \/ DialFails \/ DialRefused
  \/ SessionLost \/ RedialSucceeds \/ RedialFails \/ RoundFails \/ RedialRefused
  \/ \E p \in Probes : \/ SampleBegins(p) \/ SampleAnswered(p) \/ SampleFails(p)
                       \/ Blames(p) \/ ProbeEnds(p)

Spec == Init /\ [][Next]_vars

-----------------------------------------------------------------------------
(* Properties                                                              *)

\* A session does not try the port it has just been refused, if the instance
\* names more than one: NextExcept skips it, also where the sequential order
\* wraps around and also for a port the system had chosen.
NextPortIsAnother ==
  place \in {"binding", "dialing"} /\ refused # NoPort
    /\ picker.start < picker.end
  => port # refused

\* Of a sequential range no port that was given up is tried again before all
\* the others have been, although probe goroutines of earlier sessions may
\* advance the preference too.  (A range with port 0 leaves its ports to the
\* system.)
EveryPortGetsATry ==
  place \in {"binding", "dialing"} /\ port \in left
    /\ ~picker.randomized /\ picker.start > 0
  => picker.start..picker.end \subseteq left

\* A port that has worked, and that nobody has called refused since, is the
\* port of the next session: lost sessions and failed servers do not change
\* it, and neither does a goroutine whose refusal was overtaken by success.
\* The NAT mapping hangs on it.
WorkingPortIsKept ==
  place \in {"binding", "dialing"} /\ kept # NoPort => port = kept

\* A reconnect round asks every other server before the one that has just
\* failed, and that one last.
FailedServerComesLast ==
  place = "reconnecting" =>
    /\ Last(order) = current
    /\ \A n \in 1..(Len(order) - 1) : ~SameServer(order[n], current)

\* The rebuild after three failed rounds begins with another server, as its
\* log message promises: the cursor that the rounds leave behind points past
\* the failed one.  (With two servers it points at the failed one again.)
RebuildStartsElsewhere ==
  place = "dialing" /\ gaveUp # NoServer /\ Len(keepServers) > 2
  => Head(order) # gaveUp

\* While no STUN server answers, the batches go through the whole list, also
\* when several goroutines draw from the one cursor: after as many batches as
\* the list takes, every server has been asked.
BatchesCover ==
  silent * BatchSize >= Len(stunServers) => asked = Range(stunServers)
=============================================================================
