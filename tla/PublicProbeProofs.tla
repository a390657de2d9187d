------------------------- MODULE PublicProbeProofs -------------------------
(***************************************************************************)
(* Theorems about PublicProbe, for any number of goroutines, addresses,    *)
(* servers and confirmations.                                              *)
(***************************************************************************)
EXTENDS PublicProbe, TLAPS

\* The count of equal samples is what the history says it is.
CountedInARow ==
  \A p \in Probes : \A i \in 1..count[p] : window[p][i] = candidate[p]

\* The inductive invariant behind "confirmed in a row".
IInv == TypeOK /\ CountedInARow /\ ConfirmedInARow

\* The bounds of the counters are numbers, and a round has a sample.
LEMMA Bounds ==
  /\ Needed \in Nat /\ Needed >= 1 /\ WindowSize \in Nat
  /\ Needed <= WindowSize
  /\ MaxAttempts \in Nat /\ MaxAttempts >= 1
<1>1. Needed \in Nat /\ Needed >= 1 /\ WindowSize \in Nat /\ Needed <= WindowSize
  BY CountsAssumption, WindowAssumption DEF Needed, DefaultConfirmations
<1>2. \A s \in Nat : Needed * s * 2 \in Nat
  <2> TAKE s \in Nat
  <2>1. Needed * s \in Nat BY <1>1
  <2> QED BY <2>1
<1>3. CASE Needed <= 1
  <2>1. MaxAttempts = 1
    BY <1>3 DEF MaxAttempts, PublicProbeMaxAttempts
  <2> QED BY <1>1, <2>1
<1>4. CASE Needed > 1
  <2> DEFINE servers == IF EndpointCount < 1 THEN 1 ELSE EndpointCount
             attempts == Needed * servers * 2
  <2>1. attempts \in Nat BY <1>2, CountsAssumption
  <2>2. MaxAttempts = IF attempts < Needed + 2 THEN Needed + 2 ELSE attempts
    BY <1>1, <1>4 DEF MaxAttempts, PublicProbeMaxAttempts
  <2> HIDE DEF attempts
  <2> QED BY <1>1, <2>1, <2>2
<1> QED BY <1>1, <1>3, <1>4

\* It holds of a new runner.
LEMMA InitIInv == Init => IInv
<1> SUFFICES ASSUME Init PROVE IInv
  OBVIOUS
<1>1. TypeOK
  BY Bounds DEF Init, TypeOK, Places, NoSamples, NoMap, Mapping
<1>2. CountedInARow /\ ConfirmedInARow
  BY DEF Init, CountedInARow, ConfirmedInARow
<1> QED BY <1>1, <1>2 DEF IInv

\* A goroutine that returns leaves nothing behind.
LEMMA ReturnsKeeps ==
  ASSUME IInv, NEW p \in Probes, Returns(p)
  PROVE  /\ place' \in [Probes -> Places]
         /\ attempt' \in [Probes -> 0..MaxAttempts]
         /\ candidate' \in [Probes -> Publics \cup {NoPublic}]
         /\ count' \in [Probes -> 0..(Needed - 1)]
         /\ found' \in [Probes -> Publics \cup {NoPublic}]
         /\ changed' \in [Probes -> BOOLEAN]
         /\ endpoint' \in [Probes -> Privates \cup {NoPrivate}]
         /\ window' \in [Probes -> [1..WindowSize -> Publics \cup {NoPublic}]]
         /\ CountedInARow' /\ ConfirmedInARow'
<1>1. NoSamples \in [1..WindowSize -> Publics \cup {NoPublic}]
  BY DEF NoSamples
<1>2. /\ place' \in [Probes -> Places]
      /\ attempt' \in [Probes -> 0..MaxAttempts]
      /\ candidate' \in [Probes -> Publics \cup {NoPublic}]
      /\ count' \in [Probes -> 0..(Needed - 1)]
      /\ found' \in [Probes -> Publics \cup {NoPublic}]
      /\ changed' \in [Probes -> BOOLEAN]
      /\ endpoint' \in [Probes -> Privates \cup {NoPrivate}]
      /\ window' \in [Probes -> [1..WindowSize -> Publics \cup {NoPublic}]]
  BY <1>1, Bounds DEF Returns, IInv, TypeOK, Places
<1>3. CountedInARow'
  <2> SUFFICES ASSUME NEW q \in Probes, NEW i \in 1..count'[q]
               PROVE  window'[q][i] = candidate'[q]
    BY DEF CountedInARow
  <2>1. CASE q = p
    BY <2>1, <1>2 DEF Returns, IInv, TypeOK
  <2>2. CASE q # p
    BY <2>2 DEF Returns, IInv, TypeOK, CountedInARow
  <2> QED BY <2>1, <2>2
<1>4. ConfirmedInARow'
  BY DEF Returns, IInv, TypeOK, ConfirmedInARow
<1> QED BY <1>2, <1>3, <1>4

\* A step that moves a goroutine on and leaves its samples alone; only one
\* that was already confirmed counts as confirmed afterwards.
LEMMA MoveKeeps ==
  ASSUME IInv, NEW p \in Probes, NEW from \in Places, NEW to \in Places,
         Goto(p, from, to), UNCHANGED <<candidate, count, found, window>>,
         to \in {"confirmed", "publish", "report", "notify"} =>
           from \in {"confirmed", "publish", "report", "notify"}
  PROVE  /\ place' \in [Probes -> Places]
         /\ CountedInARow' /\ ConfirmedInARow'
<1>1. place' \in [Probes -> Places]
  BY DEF Goto, IInv, TypeOK
<1>2. CountedInARow'
  BY DEF IInv, CountedInARow
<1>3. ConfirmedInARow'
  BY DEF Goto, IInv, TypeOK, ConfirmedInARow
<1> QED BY <1>1, <1>2, <1>3

\* A sample extends the row, or starts a new one.
LEMMA SampleKeeps ==
  ASSUME IInv, NEW p \in Probes, Sample(p)
  PROVE  IInv'
<1>1. PICK m \in visible :
        /\ place[p] = "sample"
        /\ window' = [window EXCEPT ![p] =
                       [i \in 1..WindowSize |-> IF i = 1 THEN m ELSE window[p][i - 1]]]
        /\ IF NewCount(p, m) >= Needed
           THEN /\ place' = [place EXCEPT ![p] = "confirmed"]
                /\ candidate' = [candidate EXCEPT ![p] = NoPublic]
                /\ count' = [count EXCEPT ![p] = 0]
                /\ found' = [found EXCEPT ![p] = m]
           ELSE /\ place' = [place EXCEPT ![p] = "sampled"]
                /\ candidate' = [candidate EXCEPT ![p] = m]
                /\ count' = [count EXCEPT ![p] = NewCount(p, m)]
                /\ UNCHANGED found
        /\ UNCHANGED <<sharedVars, stopped, endpoint, attempt, changed, outputs>>
  BY DEF Sample
<1> DEFINE n == NewCount(p, m)
           w == [i \in 1..WindowSize |-> IF i = 1 THEN m ELSE window[p][i - 1]]
<1>2. TypeOK /\ CountedInARow /\ ConfirmedInARow /\ m \in Publics
  BY <1>1 DEF IInv, TypeOK
<1>3. count[p] \in 0..(Needed - 1) /\ window[p] \in [1..WindowSize -> Publics \cup {NoPublic}]
  BY <1>2 DEF TypeOK
<1>4. n \in 1..Needed /\ n <= count[p] + 1
  BY <1>3, Bounds DEF NewCount
<1>5. \A i \in 1..n : w[i] = m
  <2> TAKE i \in 1..n
  <2>1. i \in 1..WindowSize
    BY <1>4, Bounds
  <2>2. CASE i = 1
    BY <2>1, <2>2
  <2>3. CASE i # 1
    <3>1. n = count[p] + 1 /\ candidate[p] = m
      BY <2>3, <1>4, <1>3 DEF NewCount
    <3>2. i - 1 \in 1..count[p]
      BY <2>3, <3>1, <1>3
    <3>3. window[p][i - 1] = m
      BY <3>1, <3>2, <1>2 DEF CountedInARow
    <3> QED BY <2>1, <2>3, <3>3
  <2> QED BY <2>2, <2>3
<1>6. w \in [1..WindowSize -> Publics \cup {NoPublic}]
  BY <1>2, <1>3, Bounds
<1>7. window' = [window EXCEPT ![p] = w]
  BY <1>1
<1> HIDE DEF w, n
<1>8. window' \in [Probes -> [1..WindowSize -> Publics \cup {NoPublic}]]
      /\ window'[p] = w /\ \A q \in Probes \ {p} : window'[q] = window[q]
  BY <1>2, <1>6, <1>7 DEF TypeOK
<1>9. CASE n >= Needed
  <2>1. /\ place' = [place EXCEPT ![p] = "confirmed"]
        /\ candidate' = [candidate EXCEPT ![p] = NoPublic]
        /\ count' = [count EXCEPT ![p] = 0]
        /\ found' = [found EXCEPT ![p] = m]
    BY <1>1, <1>9 DEF n
  <2>2. TypeOK'
    BY <1>1, <1>2, <1>8, <2>1, Bounds DEF TypeOK, Places, sharedVars, outputs
  <2>3. CountedInARow'
    BY <1>2, <1>8, <2>1 DEF TypeOK, CountedInARow
  <2>4. n = Needed
    BY <1>4, <1>9, Bounds
  <2>5. ConfirmedInARow'
    BY <1>2, <1>5, <1>8, <2>1, <2>4 DEF TypeOK, ConfirmedInARow
  <2> QED BY <2>2, <2>3, <2>5 DEF IInv
<1>10. CASE ~(n >= Needed)
  <2>1. /\ place' = [place EXCEPT ![p] = "sampled"]
        /\ candidate' = [candidate EXCEPT ![p] = m]
        /\ count' = [count EXCEPT ![p] = n]
        /\ found' = found
    BY <1>1, <1>10 DEF n
  <2>2. n \in 0..(Needed - 1)
    BY <1>4, <1>10, Bounds
  <2>3. TypeOK'
    BY <1>1, <1>2, <1>8, <2>1, <2>2 DEF TypeOK, Places, sharedVars, outputs
  <2>4. CountedInARow'
    BY <1>2, <1>5, <1>8, <2>1 DEF TypeOK, CountedInARow
  <2>5. ConfirmedInARow'
    BY <1>2, <1>8, <2>1 DEF TypeOK, ConfirmedInARow
  <2> QED BY <2>3, <2>4, <2>5 DEF IInv
<1> QED BY <1>9, <1>10

\* Every step keeps the invariant.
LEMMA IInvStep == IInv /\ [Next]_vars => IInv'
<1> SUFFICES ASSUME IInv, [Next]_vars PROVE IInv'
  OBVIOUS
<1>t. TypeOK /\ CountedInARow /\ ConfirmedInARow
  BY DEF IInv
<1>m. ASSUME NEW p \in Probes PROVE Event(p) \in Mapping
  BY <1>t DEF Event, Mapping, TypeOK
<1>1. CASE SessionEnds \/ NetworkChanges \/ UNCHANGED vars
  BY <1>1, <1>t DEF SessionEnds, NetworkChanges, vars, IInv, TypeOK,
     CountedInARow, ConfirmedInARow, outputs
<1>2. ASSUME NEW p \in Probes, NEW from \in Privates \cup {NoPrivate},
             StartProbe(p, from), private' \in Privates \cup {NoPrivate},
             shown' \in Mapping
      PROVE  IInv'
  BY <1>2, <1>t DEF StartProbe, IInv, TypeOK, CountedInARow, ConfirmedInARow,
     Places
<1>4. ASSUME NEW p \in Probes, SessionOpens(p) PROVE IInv'
  <2>1. PICK from \in Privates :
          /\ private' = from
          /\ shown' = [shown EXCEPT !.private = from]
          /\ StartProbe(p, from)
    BY <1>4 DEF SessionOpens
  <2>2. shown' \in Mapping
    BY <1>t, <2>1 DEF TypeOK, Mapping
  <2> QED BY <1>2, <2>1, <2>2
<1>5. ASSUME NEW p \in Probes, SessionResumes(p) PROVE IInv'
  BY <1>2, <1>5, <1>t DEF SessionResumes, TypeOK
<1>3. ASSUME NEW p \in Probes, ProbeStep(p) PROVE IInv'
  <2>1. CASE StartRound(p)
    <3>1. place' \in [Probes -> Places] /\ CountedInARow' /\ ConfirmedInARow'
      BY <2>1, MoveKeeps DEF StartRound, Places
    <3> QED BY <2>1, <3>1, <1>t, Bounds
            DEF StartRound, IInv, TypeOK, sharedVars, outputs
  <2>2. CASE GivesUp(p)
    BY <2>2, <1>t, ReturnsKeeps DEF GivesUp, IInv, TypeOK, sharedVars, outputs
  <2>3. CASE Sample(p)
    BY <2>3, SampleKeeps
  <2>4. CASE RoundFails(p)
    <3>1. place' \in [Probes -> Places] /\ CountedInARow' /\ ConfirmedInARow'
      BY <2>4, MoveKeeps DEF RoundFails, Places
    <3> QED BY <2>4, <3>1, <1>t DEF RoundFails, IInv, TypeOK, sharedVars, outputs
  <2>5. CASE NextSample(p)
    <3>1. place' \in [Probes -> Places] /\ CountedInARow' /\ ConfirmedInARow'
      BY <2>5, MoveKeeps DEF NextSample, Places
    <3>2. attempt' \in [Probes -> 0..MaxAttempts]
      <4>1. CASE attempt[p] < MaxAttempts
        <5>1. attempt[p] + 1 \in 0..MaxAttempts
          BY <4>1, <1>t, Bounds DEF TypeOK
        <5> QED BY <2>5, <4>1, <5>1, <1>t DEF NextSample, TypeOK
      <4>2. CASE ~(attempt[p] < MaxAttempts)
        BY <2>5, <4>2, <1>t DEF NextSample, TypeOK
      <4> QED BY <4>1, <4>2
    <3> QED BY <2>5, <3>1, <3>2, <1>t DEF NextSample, IInv, TypeOK, sharedVars, outputs
  <2>6. CASE Retry(p)
    <3>1. place' \in [Probes -> Places] /\ CountedInARow' /\ ConfirmedInARow'
      BY <2>6, MoveKeeps DEF Retry, Places
    <3> QED BY <2>6, <3>1, <1>t DEF Retry, IInv, TypeOK, sharedVars, outputs
  <2>7. CASE Publish(p)
    <3>1. place' \in [Probes -> Places] /\ CountedInARow' /\ ConfirmedInARow'
      BY <2>7, MoveKeeps DEF Publish, Places
    <3> QED BY <2>7, <3>1, <1>t DEF Publish, IInv, TypeOK, sharedVars, outputs
  <2>8. CASE UpdateMapping(p)
    <3>1. place' \in [Probes -> Places] /\ CountedInARow' /\ ConfirmedInARow'
      BY <2>8, MoveKeeps DEF UpdateMapping, Places
    <3>2. changed' \in [Probes -> BOOLEAN]
      BY <2>8, <1>t DEF UpdateMapping, TypeOK
    <3> QED BY <2>8, <3>1, <3>2, <1>t, <1>m
            DEF UpdateMapping, IInv, TypeOK, sharedVars
  <2>9. CASE ReportMapping(p)
    <3>1. CASE changed[p]
      <4>1. Goto(p, "report", "notify")
        BY <2>9, <3>1 DEF ReportMapping, Goto
      <4>2. place' \in [Probes -> Places] /\ CountedInARow' /\ ConfirmedInARow'
        BY <2>9, <3>1, <4>1, MoveKeeps DEF ReportMapping, Places
      <4> QED BY <2>9, <3>1, <4>2, <1>t, <1>m
              DEF ReportMapping, IInv, TypeOK, sharedVars
    <3>2. CASE ~changed[p]
      <4>1. Returns(p)
        BY <2>9, <3>2 DEF ReportMapping
      <4> QED BY <2>9, <4>1, <1>t, <1>m, ReturnsKeeps
              DEF ReportMapping, IInv, TypeOK, sharedVars
    <3> QED BY <3>1, <3>2
  <2>10. CASE RunNotify(p)
    BY <2>10, <1>t, <1>m, ReturnsKeeps DEF RunNotify, IInv, TypeOK, sharedVars
  <2> QED BY <1>3, <2>1, <2>2, <2>3, <2>4, <2>5, <2>6, <2>7, <2>8, <2>9, <2>10
          DEF ProbeStep
<1> QED BY <1>1, <1>3, <1>4, <1>5 DEF Next

\* The invariant holds throughout.
LEMMA IInvHolds == Spec => []IInv
BY InitIInv, IInvStep, PTL DEF Spec

\* The counters of a round stay within their bounds (publicProbeMaxAttempts,
\* confirmPublicProbeWithProgress).
THEOREM TypeCorrect == Spec => []TypeOK
<1>1. IInv => TypeOK BY DEF IInv
<1> QED BY <1>1, IInvHolds, PTL

\* Whatever servers answer, however many rounds fail and however often the
\* address changes, a published address was confirmed Needed times in a row.
THEOREM PublishedWasConfirmed == Spec => []ConfirmedInARow
<1>1. IInv => ConfirmedInARow BY DEF IInv
<1> QED BY <1>1, IInvHolds, PTL

-----------------------------------------------------------------------------
\* One publication at a time: the goroutine of a session is gone before the
\* next one publishes.
OneGoroutine == \A p, q \in Probes : p = q

\* What runner, status and script have in common in the middle of a
\* publication; the goroutine works for the latest session, and if it has been
\* cancelled that session is over.
Agreement ==
  /\ OutputsAgree
  /\ \A p \in Probes : place[p] # "idle" => endpoint[p] = private
  /\ \A p \in Probes : stopped[p] => current # p
  /\ \A p \in Probes : place[p] = "report" =>
       lastMap = Event(p) /\ (~changed[p] => notified \in {NoMap, lastMap})
  /\ \A p \in Probes : place[p] = "notify" => shown = lastMap /\ lastMap = Event(p)

\* It holds of a new runner, wherever its first mapping comes from.
LEMMA InitAgreement == Init => Agreement
<1> SUFFICES ASSUME Init PROVE Agreement
  OBVIOUS
<1>1. shown.public \in {NoPublic, lastMap.public}
  BY DEF Init
<1>2. OutputsAgree
  BY <1>1, ProbesAssumption DEF Init, OutputsAgree
<1> QED BY <1>2 DEF Init, Agreement

\* A new goroutine, for a session whose private endpoint is on display or was
\* confirmed before.
LEMMA StartAgrees ==
  ASSUME OneGoroutine, TypeOK, Agreement, NEW p \in Probes,
         NEW from \in Privates, StartProbe(p, from), private' = from,
         \/ shown' = [shown EXCEPT !.private = from]
         \/ UNCHANGED <<private, shown>>
  PROVE  Agreement'
<1>1. /\ place[p] = "idle" /\ place'[p] = "round" /\ endpoint'[p] = from
      /\ ~stopped'[p] /\ current' = p
      /\ UNCHANGED <<lastMap, notified>>
  BY DEF StartProbe, TypeOK
<1>2. \A q \in Probes : q = p
  BY DEF OneGoroutine
<1> QED BY <1>1, <1>2 DEF Agreement, OutputsAgree, TypeOK, Mapping

\* Every step of one goroutine keeps it.
LEMMA AgreementStep ==
  ASSUME OneGoroutine, TypeOK, Agreement, [Next]_vars
  PROVE  Agreement'
<1>1. CASE SessionEnds \/ NetworkChanges \/ UNCHANGED vars
  BY <1>1 DEF SessionEnds, NetworkChanges, vars, OneGoroutine, TypeOK,
              Agreement, OutputsAgree, Event, outputs
<1>2. ASSUME NEW p \in Probes, SessionOpens(p) PROVE Agreement'
  BY <1>2, StartAgrees DEF SessionOpens
<1>3. ASSUME NEW p \in Probes, SessionResumes(p) PROVE Agreement'
  <2>1. private \in Privates /\ private' = private
    BY <1>3 DEF SessionResumes, TypeOK
  <2> QED BY <1>3, <2>1, StartAgrees DEF SessionResumes
<1>4. ASSUME NEW p \in Probes, ProbeStep(p) PROVE Agreement'
  <2> USE DEF OneGoroutine, TypeOK, Agreement, OutputsAgree, Event, outputs,
              sharedVars
  <2>1. CASE StartRound(p) \/ RoundFails(p) \/ NextSample(p) \/ Retry(p) \/ Publish(p)
    BY <2>1 DEF StartRound, RoundFails, NextSample, Retry, Publish, Goto
  <2>2. CASE Sample(p)
    BY <2>2 DEF Sample
  <2>3. CASE GivesUp(p)
    BY <2>3 DEF GivesUp, Returns
  <2>4. CASE UpdateMapping(p)
    BY <2>4 DEF UpdateMapping, Goto
  <2>5. CASE ReportMapping(p)
    BY <2>5 DEF ReportMapping, Returns
  <2>6. CASE RunNotify(p)
    BY <2>6 DEF RunNotify, Returns
  <2> QED BY <1>4, <2>1, <2>2, <2>3, <2>4, <2>5, <2>6 DEF ProbeStep
<1> QED BY <1>1, <1>2, <1>3, <1>4 DEF Next

\* If publications do not race, runner, status and last script do not
\* contradict each other, and agree once the goroutine of a session has done
\* its work, through any number of sessions (updateMappingLocked,
\* publishMapping).
THEOREM PublicationsAgree == OneGoroutine => (Spec => []OutputsAgree)
<1> SUFFICES ASSUME OneGoroutine PROVE Spec => []OutputsAgree
  OBVIOUS
<1>1. TypeOK /\ Agreement /\ [Next]_vars => Agreement'
  BY AgreementStep
<1>2. Agreement => OutputsAgree
  BY DEF Agreement
<1> QED BY <1>1, <1>2, InitAgreement, TypeCorrect, PTL DEF Spec
=============================================================================
