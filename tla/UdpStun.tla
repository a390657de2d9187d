------------------------------ MODULE UdpStun ------------------------------
(***************************************************************************)
(* The UDP socket of runUDP.  The QUIC keep-alive and the STUN samples     *)
(* share it: whoever reads a packet for QUIC passes STUN answers on        *)
(* through a channel of a few slots and never waits for room.  A sample    *)
(* sends one request to each server of its batch, under ids of its own,    *)
(* resends them when its timer fires, and takes the first answer that      *)
(* bears one of its ids.  The probe goroutine of a lost session is         *)
(* cancelled but not waited for, so that two goroutines may take answers   *)
(* from the channel at once.                                               *)
(*                                                                         *)
(* The network loses, delays, duplicates and reorders packets until it is  *)
(* `calm'.  From then on a timer leaves enough time for every answer to    *)
(* come and for the goroutine to read what is in the channel.              *)
(***************************************************************************)
EXTENDS Naturals, Sequences, FiniteSets, Functions

CONSTANTS Servers,      \* the batch of a sample, at most udpPublicProbeFanout
          Addresses,    \* public addresses of the socket
          NoAddress,
          Probes,
          Samples,      \* random transaction ids; an id out of use is new
          NoSample,
          Retries,      \* udpSTUNRetries
          Capacity,     \* slots of stunResponses
          MaxInFlight   \* packets in the network at a time

ASSUME MarkersAssumption == NoAddress \notin Addresses /\ NoSample \notin Samples
ASSUME CountsAssumption == Retries \in Nat \ {0} /\ Capacity \in Nat
                             /\ MaxInFlight \in Nat

VARIABLES
  open,       \* the QUIC session is open; its transport reads the socket
  requests,   \* on their way to a server
  answers,    \* on their way back and in the receive buffer of the socket
  responses,  \* the channel stunResponses
  visible,    \* the public address of the socket now
  calm,       \* no packet is lost, late or duplicated
  place, cancelled, sample, attempt, got,  \* of each probe goroutine
  since       \* history: the addresses visible during its sample

probeVars == <<place, cancelled, sample, attempt, got, since>>
readerVars == <<open, responses>>
networkVars == <<requests, answers, visible, calm>>
vars == <<probeVars, readerVars, networkVars>>

Request == [sample : Samples, server : Servers]
StunResult == [sample : Samples, server : Servers, address : Addresses]
Working == {"sending", "waiting"}

TypeOK ==
  /\ open \in BOOLEAN /\ calm \in BOOLEAN
  /\ requests \subseteq Request /\ answers \in Seq(StunResult)
  /\ responses \in Seq(StunResult) /\ Len(responses) <= Capacity
  /\ visible \in Addresses
  /\ place \in [Probes -> Working \cup {"idle", "ready", "answered", "failed"}]
  /\ cancelled \in [Probes -> BOOLEAN]
  /\ sample \in [Probes -> Samples \cup {NoSample}]
  /\ attempt \in [Probes -> 0..Retries]
  /\ got \in [Probes -> Addresses \cup {NoAddress}]
  /\ since \in [Probes -> SUBSET Addresses]

Init ==
  /\ open = FALSE /\ calm = FALSE
  /\ requests = {} /\ answers = << >>
  /\ responses = << >>
  /\ visible \in Addresses
  /\ place = [p \in Probes |-> "idle"]
  /\ cancelled = [p \in Probes |-> TRUE]
  /\ sample = [p \in Probes |-> NoSample]
  /\ attempt = [p \in Probes |-> 0]
  /\ got = [p \in Probes |-> NoAddress]
  /\ since = [p \in Probes |-> {}]

-----------------------------------------------------------------------------
\* The session: runUDP opens one, loses it and opens another on the socket.
SessionOpens(p) ==
  /\ ~open /\ place[p] = "idle"
  /\ open' = TRUE
  /\ place' = [place EXCEPT ![p] = "ready"]
  /\ cancelled' = [cancelled EXCEPT ![p] = FALSE]
  /\ UNCHANGED <<responses, sample, attempt, got, since, networkVars>>

\* cancelProbe(); goroutines of earlier sessions were cancelled before.
SessionLost ==
  /\ open /\ open' = FALSE
  /\ cancelled' = [p \in Probes |-> TRUE]
  /\ UNCHANGED <<responses, place, sample, attempt, got, since,
                 networkVars>>

-----------------------------------------------------------------------------
\* The reader.
Reads(channel) ==
  /\ open /\ answers # << >>
  /\ answers' = Tail(answers)
  /\ responses' = channel
  /\ UNCHANGED <<open, requests, visible, calm, probeVars>>

\* Variant: the answer goes into the channel whether or not there is room.
ReadAlways == Reads(Append(responses, Head(answers)))

\* Variant: the reader waits until the channel has room.
ReadWhenRoom ==
  Len(responses) < Capacity /\ Reads(Append(responses, Head(answers)))

ReadFrom ==
  Reads(IF Len(responses) < Capacity THEN Append(responses, Head(answers))
        ELSE responses)

-----------------------------------------------------------------------------
\* The probe goroutines.
Packets == requests \cup Range(answers) \cup Range(responses)
InFlight == Cardinality(requests) + Len(answers)

Unused ==
  {i \in Samples : /\ \A q \in Probes : sample[q] # i
                   /\ \A m \in Packets : m.sample # i}

Begin(p) ==
  /\ place[p] \in {"ready", "failed"} /\ ~cancelled[p]
  /\ \E i \in Unused : sample' = [sample EXCEPT ![p] = i]
  /\ place' = [place EXCEPT ![p] = "sending"]
  /\ since' = [since EXCEPT ![p] = {visible}]
  /\ UNCHANGED <<cancelled, attempt, got, readerVars, networkVars>>

Send(p) ==
  /\ place[p] = "sending" /\ ~cancelled[p]
  /\ requests' = requests \cup
                   {[sample |-> sample[p], server |-> s] : s \in Servers}
  /\ Cardinality(requests') + Len(answers) <= MaxInFlight
  /\ place' = [place EXCEPT ![p] = "waiting"]
  /\ attempt' = [attempt EXCEPT ![p] = @ + 1]
  /\ UNCHANGED <<cancelled, sample, got, since, readerVars, answers, visible,
                 calm>>

\* The sample of p is over; its ids and counters go with it.
Ends(p, to) ==
  /\ place' = [place EXCEPT ![p] = to]
  /\ sample' = [sample EXCEPT ![p] = NoSample]
  /\ attempt' = [attempt EXCEPT ![p] = 0]

Forgets(p) ==
  /\ got' = [got EXCEPT ![p] = NoAddress]
  /\ since' = [since EXCEPT ![p] = {}]

Fails(p) == Ends(p, "failed") /\ Forgets(p)

\* Not one request could be written.
SendFails(p) ==
  /\ place[p] = "sending" /\ ~calm
  /\ Fails(p)
  /\ UNCHANGED <<cancelled, readerVars, networkVars>>

Receives(p) ==
  /\ place[p] = "waiting" /\ responses # << >>
  /\ responses' = Tail(responses)

\* Variant: the ids are not looked at.
MatchesAny(p, result) == place[p] = "waiting"

\* byTID holds the ids of this sample only.
Matches(p, result) == result.sample = sample[p]

Accept(p) ==
  /\ Receives(p) /\ Matches(p, Head(responses))
  /\ got' = [got EXCEPT ![p] = Head(responses).address]
  /\ Ends(p, "answered")
  /\ UNCHANGED <<cancelled, since, open, networkVars>>

Resend(p) ==
  IF attempt[p] < Retries
  THEN /\ place' = [place EXCEPT ![p] = "sending"]
       /\ UNCHANGED <<sample, attempt, got, since>>
  ELSE Fails(p)

\* Variant: an answer nobody asked for ends the attempt.
IgnoreAndResend(p) ==
  /\ Receives(p) /\ ~Matches(p, Head(responses))
  /\ Resend(p)
  /\ UNCHANGED <<cancelled, open, networkVars>>

Ignore(p) ==
  /\ Receives(p) /\ ~Matches(p, Head(responses))
  /\ UNCHANGED <<open, probeVars, networkVars>>

TimerFires(p) ==
  /\ place[p] = "waiting"
  /\ calm => /\ responses = << >>
             /\ \A m \in Packets : m.sample # sample[p]
  /\ Resend(p)
  /\ UNCHANGED <<cancelled, readerVars, networkVars>>

\* Variant: the timer starts anew with each answer that is ignored.
TimeoutOfSilence(p) == responses = << >> /\ TimerFires(p)

Timeout(p) == TimerFires(p)

\* The sample is counted, and another one follows ...
Count(p) ==
  /\ place[p] = "answered"
  /\ place' = [place EXCEPT ![p] = "ready"] /\ Forgets(p)
  /\ UNCHANGED <<cancelled, sample, attempt, readerVars, networkVars>>

\* ... unless the mapping is confirmed or the session is over.
Return(p) ==
  /\ place[p] = "answered" \/ (place[p] # "idle" /\ cancelled[p])
  /\ cancelled' = [cancelled EXCEPT ![p] = TRUE]
  /\ Ends(p, "idle") /\ Forgets(p)
  /\ UNCHANGED <<readerVars, networkVars>>

-----------------------------------------------------------------------------
\* The network, the servers and the router.
\* The request of a duplicated pair stays, and is answered again later.
Answer ==
  /\ \E q \in requests :
       /\ answers' = Append(answers, [sample |-> q.sample,
                         server |-> q.server, address |-> visible])
       /\ \/ requests' = requests \ {q}
          \/ ~calm /\ InFlight < MaxInFlight /\ requests' = requests
  /\ UNCHANGED <<visible, calm, probeVars, readerVars>>

\* Lost, or answered from an address the request was not sent to, which
\* stunSourceMatches refuses.
Lose ==
  /\ ~calm
  /\ \E q \in requests : requests' = requests \ {q}
  /\ UNCHANGED <<answers, visible, calm, probeVars, readerVars>>

AddressChanges ==
  /\ visible' \in Addresses \ {visible}
  /\ since' = [p \in Probes |-> IF place[p] \in Working
                                THEN since[p] \cup {visible'} ELSE since[p]]
  /\ UNCHANGED <<place, cancelled, sample, attempt, got, readerVars,
                 requests, answers, calm>>

CalmsDown ==
  /\ ~calm /\ calm' = TRUE
  /\ UNCHANGED <<requests, answers, visible, probeVars, readerVars>>

ProbeStep(p) ==
  \/ Send(p) \/ SendFails(p) \/ Accept(p) \/ Ignore(p) \/ Timeout(p)
  \/ Count(p) \/ Return(p)

Next ==
  \/ SessionLost \/ \E p \in Probes : SessionOpens(p)
  \/ ReadFrom
  \/ \E p \in Probes : Begin(p) \/ ProbeStep(p)
  \/ Answer \/ Lose \/ AddressChanges \/ CalmsDown

Spec == Init /\ [][Next]_vars

\* The reader and the probe goroutines run when they can,
\* and Go's select takes an expired timer or a cancelled context in the end;
\* servers answer.
FairSpec ==
  /\ Spec
  /\ WF_vars(ReadFrom) /\ WF_vars(Answer)
  /\ \A p \in Probes : /\ WF_vars(Begin(p) \/ ProbeStep(p))
                       /\ WF_vars(Timeout(p)) /\ WF_vars(Return(p))

-----------------------------------------------------------------------------
\* The address of a sample was the public one at some moment of that sample,
\* whatever answers of earlier samples and of other goroutines were left in the
\* channel, the socket or the network (byTID in stunUDPSharedFanout).
SampleIsFresh == \A p \in Probes : got[p] # NoAddress => got[p] \in since[p]

\* Nothing stays in the socket, where the packets for QUIC queue up as well:
\* ReadFrom drops an answer for which stunResponses has no room and never
\* waits, also when no goroutine is sampling.
SocketIsDrained == <>[](calm /\ open) => []<>(answers = << >>)

\* A sample ends although answers that are not its own never stop coming:
\* the timer of stunUDPSharedFanout runs on while they are ignored.
EverySampleEnds ==
  \A p \in Probes : place[p] \in Working ~> place[p] \notin Working

\* Once the network is calm and the session lasts, samples do not fail any
\* more: neither leftovers in the channel nor the cancelled goroutine of an
\* earlier session keeps the answers from the one that asked.
SamplesGetThrough ==
  <>[](calm /\ open) => <>[](\A p \in Probes : place[p] # "failed")
=============================================================================
