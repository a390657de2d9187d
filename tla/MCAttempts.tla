----------------------------- MODULE MCAttempts ----------------------------
(* Small instances of Attempts: what the page or an older data file asks    *)
(* for, in every way the lists and the port can be written.                 *)
EXTENDS Attempts, TLC

CONSTANTS a, b, c, d

At(host, spelling, atPort) == [host |-> host, spelling |-> spelling, port |-> atPort]
Plain(host) == At(host, "plain", 0)
NoGroups == << >>
Group(isQuic, servers) == [quic |-> isQuic, servers |-> servers]

Request(stun, http, quic, stunGroups, keepAliveGroups) ==
  [stun |-> stun, http |-> http, quic |-> quic,
   stunGroups |-> stunGroups, keepAliveGroups |-> keepAliveGroups]

\* A list with an equal entry in another spelling and a blank one.
Messy == <<Plain(a), Plain(NoHost), Plain(b), At(a, "upper", 0), Plain(c)>>
ShortLists == Request(<<Plain(a)>>, <<Plain(a)>>, <<Plain(a)>>, NoGroups, NoGroups)
LongLists ==
  Request(Append(Messy, Plain(d)), Messy, Messy, NoGroups, NoGroups)
OldLists ==
  Request(<< >>, << >>, << >>, <<[servers |-> Messy]>>,
          <<Group(FALSE, <<Plain(a), Plain(b)>>), Group(TRUE, <<Plain(b)>>),
            Group(FALSE, <<At(b, "upper", 80), Plain(c)>>)>>)
TwoLists == Request(<<Plain(a)>>, <<Plain(a), Plain(b)>>, <<Plain(a), Plain(b)>>,
                    NoGroups, NoGroups)
\* Refused: no server is left of the list.
NoLists == Request(<<Plain(NoHost)>>, <<Plain(a)>>, <<Plain(a)>>, NoGroups, NoGroups)

\* Data files: without any list, and with lists of which nothing is left.
NewFile == Request(<< >>, << >>, << >>, NoGroups, NoGroups)
BlankFile == Request(<<Plain(NoHost)>>, <<Plain(NoHost), Plain(b)>>, <<Plain(NoHost)>>,
                     NoGroups, NoGroups)
MCDefaults == [stun |-> <<At(a, "plain", 3478), At(b, "plain", 3478),
                          At(c, "plain", 19302), At(d, "plain", 3478)>>,
               http |-> <<At(a, "plain", 80), At(b, "plain", 80)>>,
               quic |-> <<At(c, "plain", 443)>>]

PortText(start, end, randomized) ==
  [start |-> start, end |-> end, randomized |-> randomized]
PortTexts == {PortText(1, 3, FALSE), PortText(0, 2, FALSE), PortText(1, 3, TRUE),
              PortText(2, 2, FALSE), PortText(0, 0, FALSE)}

Instance(kind, fromDisk, options, text, mode) ==
  [protocol |-> kind, bindPort |-> text, loaded |-> fromDisk, options |-> options,
   keepAliveMode |-> mode, stunMode |-> mode,
   server |-> Plain(c), stunServer |-> Plain(NoHost)]

\* Every port text with one server; every list with one port; two servers with
\* two ports.
InstancesOf(kind) ==
  {Instance(kind, FALSE, ShortLists, text, "custom") :
     text \in PortTexts}
  \cup {Instance(kind, FALSE, request, PortText(2, 2, FALSE), "group") :
          request \in {LongLists, OldLists, NoLists}}
  \cup {Instance(kind, TRUE, options, PortText(2, 2, FALSE), "group") :
          options \in {NewFile, BlankFile, OldLists}}
  \cup {Instance(kind, FALSE, TwoLists, PortText(1, 2, FALSE), "group")}

MCSettings == InstancesOf("tcp") \cup InstancesOf("udp")
Symmetry == Permutations(Probes)
=============================================================================
