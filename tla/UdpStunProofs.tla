--------------------------- MODULE UdpStunProofs ---------------------------
(***************************************************************************)
(* Theorems about UdpStun, for any number of goroutines, servers, ids and  *)
(* addresses, any number of attempts and any size of the channel.          *)
(***************************************************************************)
EXTENDS UdpStun, TLAPS

\* What the two queues hold after an answer is taken off or put at their end.
LEMMA Queues ==
  ASSUME NEW S, NEW q \in Seq(S)
  PROVE  /\ Range(q) \subseteq S
         /\ \A x \in S : /\ Append(q, x) \in Seq(S)
                         /\ Len(Append(q, x)) = Len(q) + 1
                         /\ \A y \in Range(Append(q, x)) : y \in Range(q) \/ y = x
         /\ q # << >> => /\ Head(q) \in Range(q)
                         /\ Tail(q) \in Seq(S) /\ Len(Tail(q)) = Len(q) - 1
                         /\ \A y \in Range(Tail(q)) : y \in Range(q)
<1>1. Range(q) \subseteq S
  BY DEF Range
<1>2. ASSUME NEW x \in S
      PROVE  /\ Append(q, x) \in Seq(S)
             /\ Len(Append(q, x)) = Len(q) + 1
             /\ \A y \in Range(Append(q, x)) : y \in Range(q) \/ y = x
  BY DEF Range
<1>3. ASSUME q # << >>
      PROVE  /\ Head(q) \in Range(q)
             /\ Tail(q) \in Seq(S) /\ Len(Tail(q)) = Len(q) - 1
             /\ \A y \in Range(Tail(q)) : y \in Range(q)
  BY <1>3 DEF Range
<1> QED BY <1>1, <1>2, <1>3

-----------------------------------------------------------------------------
\* A sample has an id, counts its attempts from zero and never begins one too
\* many.
AttemptsCounted ==
  \A p \in Probes : /\ place[p] \in Working => sample[p] # NoSample
                    /\ place[p] \notin Working => attempt[p] = 0
                    /\ place[p] = "sending" => attempt[p] < Retries

\* An address is kept only between the answer and what becomes of it.
OnlyAnsweredHasGot ==
  \A p \in Probes : place[p] # "answered" => got[p] = NoAddress

\* While a sample is under way the address of the moment is one it has seen ...
SeesTheAddress == \A p \in Probes : place[p] \in Working => visible \in since[p]

\* ... and so is that in every answer to it, wherever the answer is.
AnswersAreFresh ==
  \A p \in Probes : place[p] \in Working =>
    \A m \in Range(answers) \cup Range(responses) :
      m.sample = sample[p] => m.address \in since[p]

\* The inductive invariant.
IInv ==
  /\ TypeOK /\ AttemptsCounted
  /\ OnlyAnsweredHasGot /\ SeesTheAddress /\ AnswersAreFresh /\ SampleIsFresh

\* It holds when the process has just been started.
LEMMA InitIInv == Init => IInv
<1> SUFFICES ASSUME Init PROVE IInv
  OBVIOUS
<1> USE CountsAssumption DEF Init, Working
<1>1. TypeOK
  <2>1. << >> \in Seq(StunResult) /\ Len(<< >>) = 0
    OBVIOUS
  <2>2. /\ answers = << >> /\ responses = << >> /\ requests = {}
        /\ visible \in Addresses /\ open \in BOOLEAN /\ calm \in BOOLEAN
    OBVIOUS
  <2>3. Len(responses) <= Capacity /\ 0 \in 0..Retries
    BY <2>1, <2>2
  <2> QED BY <2>1, <2>2, <2>3 DEF TypeOK
<1>2. AttemptsCounted
  BY DEF AttemptsCounted
<1>3. OnlyAnsweredHasGot /\ SeesTheAddress /\ AnswersAreFresh /\ SampleIsFresh
  BY DEF OnlyAnsweredHasGot, SeesTheAddress, AnswersAreFresh, SampleIsFresh
<1> QED BY <1>1, <1>2, <1>3 DEF IInv

-----------------------------------------------------------------------------
\* A step that leaves the variables of the goroutines and the address alone
\* and puts no answer where there was none keeps the invariant.
LEMMA QuietStep ==
  ASSUME IInv, probeVars' = probeVars, visible' = visible, TypeOK',
         \A m \in Range(answers') \cup Range(responses') :
           m \in Range(answers) \cup Range(responses)
  PROVE  IInv'
<1>1. /\ place' = place /\ cancelled' = cancelled /\ sample' = sample
      /\ attempt' = attempt /\ got' = got /\ since' = since
  BY DEF probeVars
<1>2. AttemptsCounted' /\ OnlyAnsweredHasGot' /\ SeesTheAddress' /\ SampleIsFresh'
  BY <1>1 DEF IInv, AttemptsCounted, OnlyAnsweredHasGot, SeesTheAddress, SampleIsFresh
<1>3. AnswersAreFresh'
  BY <1>1 DEF IInv, AnswersAreFresh
<1> QED BY <1>2, <1>3 DEF IInv

\* The end of a sample without an answer, or of what became of one.
LEMMA EndStep ==
  ASSUME IInv, NEW p \in Probes,
         NEW to \in {"idle", "ready", "failed"},
         place' = [place EXCEPT ![p] = to],
         cancelled' \in [Probes -> BOOLEAN],
         sample' \in [Probes -> Samples \cup {NoSample}],
         \A q \in Probes \ {p} : sample'[q] = sample[q],
         attempt' = [attempt EXCEPT ![p] = 0], Forgets(p),
         open' = open, networkVars' = networkVars,
         responses' \in Seq(StunResult), Len(responses') <= Capacity,
         \A m \in Range(responses') : m \in Range(responses)
  PROVE  IInv'
<1> USE CountsAssumption
<1>1. /\ got' = [got EXCEPT ![p] = NoAddress] /\ since' = [since EXCEPT ![p] = {}]
      /\ requests' = requests /\ answers' = answers /\ visible' = visible
      /\ calm' = calm
  BY DEF Forgets, networkVars
<1>2. TypeOK'
  BY <1>1 DEF IInv, TypeOK, Working
<1>3. AttemptsCounted'
  BY <1>1 DEF IInv, TypeOK, AttemptsCounted, Working
<1>4. OnlyAnsweredHasGot' /\ SeesTheAddress' /\ SampleIsFresh'
  BY <1>1 DEF IInv, TypeOK, OnlyAnsweredHasGot, SeesTheAddress, SampleIsFresh, Working
<1>5. AnswersAreFresh'
  BY <1>1 DEF IInv, TypeOK, AnswersAreFresh, Working
<1> QED BY <1>2, <1>3, <1>4, <1>5 DEF IInv

\* A failed attempt: the next one, or the end of the sample.
LEMMA ResendStep ==
  ASSUME IInv, NEW p \in Probes, place[p] = "waiting", Resend(p),
         cancelled' = cancelled, open' = open, networkVars' = networkVars,
         responses' \in Seq(StunResult), Len(responses') <= Capacity,
         \A m \in Range(responses') : m \in Range(responses)
  PROVE  IInv'
<1>1. CASE attempt[p] < Retries
  <2>1. /\ place' = [place EXCEPT ![p] = "sending"] /\ sample' = sample
        /\ attempt' = attempt /\ got' = got /\ since' = since
        /\ requests' = requests /\ answers' = answers /\ visible' = visible
        /\ calm' = calm
    BY <1>1 DEF Resend, networkVars
  <2>2. TypeOK'
    BY <2>1 DEF IInv, TypeOK, Working
  <2>3. AttemptsCounted'
    BY <1>1, <2>1 DEF IInv, TypeOK, AttemptsCounted, Working
  <2>4. OnlyAnsweredHasGot' /\ SeesTheAddress' /\ SampleIsFresh'
    BY <2>1 DEF IInv, TypeOK, OnlyAnsweredHasGot, SeesTheAddress, SampleIsFresh,
                Working
  <2>5. AnswersAreFresh'
    BY <2>1 DEF IInv, TypeOK, AnswersAreFresh, Working
  <2> QED BY <2>2, <2>3, <2>4, <2>5 DEF IInv
<1>2. CASE ~(attempt[p] < Retries)
  <2>1. Ends(p, "failed") /\ Forgets(p)
    BY <1>2 DEF Resend, Fails
  <2>2. /\ place' = [place EXCEPT ![p] = "failed"]
        /\ sample' = [sample EXCEPT ![p] = NoSample]
        /\ attempt' = [attempt EXCEPT ![p] = 0]
    BY <2>1 DEF Ends
  <2>3. /\ cancelled' \in [Probes -> BOOLEAN]
        /\ sample' \in [Probes -> Samples \cup {NoSample}]
        /\ \A q \in Probes \ {p} : sample'[q] = sample[q]
    BY <2>2 DEF IInv, TypeOK
  <2> QED BY <2>1, <2>2, <2>3, EndStep
<1> QED BY <1>1, <1>2

-----------------------------------------------------------------------------
\* Every step of the session, the goroutines and the network keeps it.
LEMMA IInvStep == IInv /\ [Next]_vars => IInv'
<1> SUFFICES ASSUME IInv, [Next]_vars PROVE IInv'
  OBVIOUS
<1> USE CountsAssumption
<1>t. /\ TypeOK
      /\ answers \in Seq(StunResult) /\ responses \in Seq(StunResult)
      /\ Len(responses) <= Capacity /\ Len(responses) \in Nat
  BY DEF IInv, TypeOK
<1>1. ASSUME NEW p \in Probes, SessionOpens(p) PROVE IInv'
  <2>1. /\ place' = [place EXCEPT ![p] = "ready"] /\ place[p] = "idle"
        /\ cancelled' = [cancelled EXCEPT ![p] = FALSE]
        /\ sample' = sample /\ attempt' = attempt /\ got' = got /\ since' = since
        /\ open' = TRUE /\ responses' = responses
        /\ requests' = requests /\ answers' = answers /\ visible' = visible
        /\ calm' = calm
    BY <1>1 DEF SessionOpens, networkVars
  <2>2. TypeOK'
    BY <2>1, <1>t DEF TypeOK, Working
  <2>3. AttemptsCounted' /\ OnlyAnsweredHasGot' /\ SeesTheAddress' /\ SampleIsFresh'
    BY <2>1, <1>t DEF IInv, TypeOK, AttemptsCounted, OnlyAnsweredHasGot,
       SeesTheAddress, SampleIsFresh, Working
  <2>4. AnswersAreFresh'
    BY <2>1, <1>t DEF IInv, TypeOK, AnswersAreFresh, Working
  <2> QED BY <2>2, <2>3, <2>4 DEF IInv
<1>2. CASE SessionLost
  <2>1. /\ cancelled' = [p \in Probes |-> TRUE] /\ open' = FALSE
        /\ place' = place
        /\ sample' = sample /\ attempt' = attempt /\ got' = got /\ since' = since
        /\ responses' = responses
        /\ requests' = requests /\ answers' = answers /\ visible' = visible
        /\ calm' = calm
    BY <1>2 DEF SessionLost, networkVars
  <2>2. TypeOK'
    BY <2>1, <1>t DEF TypeOK
  <2>3. AttemptsCounted' /\ OnlyAnsweredHasGot' /\ SeesTheAddress' /\ SampleIsFresh'
    BY <2>1 DEF IInv, AttemptsCounted, OnlyAnsweredHasGot, SeesTheAddress,
       SampleIsFresh
  <2>4. AnswersAreFresh'
    BY <2>1 DEF IInv, AnswersAreFresh
  <2> QED BY <2>2, <2>3, <2>4 DEF IInv
<1>3. CASE ReadFrom
  <2>1. /\ answers # << >> /\ answers' = Tail(answers) /\ open' = open
        /\ requests' = requests /\ visible' = visible /\ calm' = calm
        /\ probeVars' = probeVars
        /\ \/ responses' = responses
           \/ /\ Len(responses) < Capacity
              /\ responses' = Append(responses, Head(answers))
    BY <1>3 DEF ReadFrom, Reads
  <2>2. /\ answers' \in Seq(StunResult)
        /\ \A m \in Range(answers') : m \in Range(answers)
        /\ Head(answers) \in Range(answers) /\ Head(answers) \in StunResult
    BY <2>1, <1>t, Queues
  <2>3. /\ responses' \in Seq(StunResult) /\ Len(responses') <= Capacity
        /\ \A m \in Range(responses') : m \in Range(responses) \cup Range(answers)
    <3>1. CASE responses' = responses
      BY <3>1, <1>t
    <3>2. CASE Len(responses) < Capacity /\ responses' = Append(responses, Head(answers))
      <4>1. /\ Append(responses, Head(answers)) \in Seq(StunResult)
            /\ Len(Append(responses, Head(answers))) = Len(responses) + 1
            /\ \A m \in Range(Append(responses, Head(answers))) :
                 m \in Range(responses) \/ m = Head(answers)
        BY <2>2, <1>t, Queues
      <4> QED BY <3>2, <4>1, <2>2, <1>t
    <3> QED BY <2>1, <3>1, <3>2
  <2>4. TypeOK'
    BY <2>1, <2>2, <2>3, <1>t DEF TypeOK, probeVars
  <2> QED BY <2>1, <2>2, <2>3, <2>4, QuietStep
<1>4. ASSUME NEW p \in Probes, Begin(p) PROVE IInv'
  <2>1. PICK i \in Unused : sample' = [sample EXCEPT ![p] = i]
    BY <1>4 DEF Begin
  <2>2. /\ place' = [place EXCEPT ![p] = "sending"]
        /\ place[p] \in {"ready", "failed"}
        /\ since' = [since EXCEPT ![p] = {visible}]
        /\ cancelled' = cancelled /\ attempt' = attempt /\ got' = got
        /\ open' = open /\ responses' = responses
        /\ requests' = requests /\ answers' = answers /\ visible' = visible
        /\ calm' = calm
    BY <1>4 DEF Begin, readerVars, networkVars
  <2>3. /\ i \in Samples
        /\ \A m \in Range(answers) \cup Range(responses) : m.sample # i
    BY DEF Unused, Packets
  <2>4. TypeOK'
    BY <2>1, <2>2, <2>3, <1>t DEF TypeOK, Working
  <2>5. AttemptsCounted'
    BY <2>1, <2>2, <2>3, <1>t, MarkersAssumption
       DEF IInv, TypeOK, AttemptsCounted, Working
  <2>6. OnlyAnsweredHasGot' /\ SampleIsFresh'
    BY <2>2, <1>t DEF IInv, TypeOK, OnlyAnsweredHasGot, SampleIsFresh
  <2>7. SeesTheAddress'
    BY <2>2, <1>t DEF IInv, TypeOK, SeesTheAddress, Working
  <2>8. AnswersAreFresh'
    BY <2>1, <2>2, <2>3, <1>t DEF IInv, TypeOK, AnswersAreFresh, Working
  <2> QED BY <2>4, <2>5, <2>6, <2>7, <2>8 DEF IInv
<1>5. ASSUME NEW p \in Probes, Send(p) PROVE IInv'
  <2>1. /\ place[p] = "sending" /\ place' = [place EXCEPT ![p] = "waiting"]
        /\ attempt' = [attempt EXCEPT ![p] = attempt[p] + 1]
        /\ cancelled' = cancelled /\ sample' = sample /\ got' = got
        /\ since' = since /\ open' = open /\ responses' = responses
        /\ answers' = answers /\ visible' = visible /\ calm' = calm
    BY <1>5 DEF Send, readerVars
  <2>2. requests' \subseteq Request
    <3>1. sample[p] \in Samples \cup {NoSample} /\ requests \subseteq Request
      BY <1>t DEF TypeOK
    <3>2. sample[p] \in Samples
      BY <2>1, <3>1 DEF IInv, AttemptsCounted, Working
    <3> QED BY <1>5, <3>1, <3>2 DEF Send, Request
  <2>3. attempt[p] \in Nat /\ attempt[p] < Retries
    BY <2>1, <1>t DEF IInv, TypeOK, AttemptsCounted
  <2>4. TypeOK'
    BY <2>1, <2>2, <2>3, <1>t DEF TypeOK, Working
  <2>5. AttemptsCounted'
    BY <2>1, <1>t DEF IInv, TypeOK, AttemptsCounted, Working
  <2>6. OnlyAnsweredHasGot' /\ SeesTheAddress' /\ SampleIsFresh'
    BY <2>1, <1>t DEF IInv, TypeOK, OnlyAnsweredHasGot, SeesTheAddress,
       SampleIsFresh, Working
  <2>7. AnswersAreFresh'
    BY <2>1, <1>t DEF IInv, TypeOK, AnswersAreFresh, Working
  <2> QED BY <2>4, <2>5, <2>6, <2>7 DEF IInv
<1>6. ASSUME NEW p \in Probes, SendFails(p) PROVE IInv'
  <2>1. /\ Forgets(p) /\ cancelled' = cancelled /\ open' = open
        /\ networkVars' = networkVars /\ responses' = responses
        /\ place' = [place EXCEPT ![p] = "failed"]
        /\ sample' = [sample EXCEPT ![p] = NoSample]
        /\ attempt' = [attempt EXCEPT ![p] = 0]
    BY <1>6 DEF SendFails, Fails, Ends, readerVars
  <2>2. /\ cancelled' \in [Probes -> BOOLEAN]
        /\ sample' \in [Probes -> Samples \cup {NoSample}]
        /\ \A q \in Probes \ {p} : sample'[q] = sample[q]
    BY <2>1, <1>t DEF TypeOK
  <2> QED BY <2>1, <2>2, <1>t, EndStep
<1>7. ASSUME NEW p \in Probes, Accept(p) PROVE IInv'
  <2>1. /\ place[p] = "waiting" /\ responses # << >>
        /\ responses' = Tail(responses)
        /\ Head(responses).sample = sample[p]
        /\ got' = [got EXCEPT ![p] = Head(responses).address]
        /\ place' = [place EXCEPT ![p] = "answered"]
        /\ sample' = [sample EXCEPT ![p] = NoSample]
        /\ attempt' = [attempt EXCEPT ![p] = 0]
        /\ cancelled' = cancelled /\ since' = since /\ open' = open
        /\ requests' = requests /\ answers' = answers /\ visible' = visible
        /\ calm' = calm
    BY <1>7 DEF Accept, Receives, Matches, Ends, networkVars
  <2>2. /\ Head(responses) \in Range(responses) /\ Head(responses) \in StunResult
        /\ responses' \in Seq(StunResult) /\ Len(responses') <= Capacity
        /\ \A m \in Range(responses') : m \in Range(responses)
    BY <2>1, <1>t, Queues
  <2>3. Head(responses).address \in Addresses
    BY <2>2 DEF StunResult
  <2>4. Head(responses).address \in since[p]
    BY <2>1, <2>2 DEF IInv, AnswersAreFresh, Working
  <2>5. TypeOK'
    BY <2>1, <2>2, <2>3, <1>t DEF TypeOK, Working
  <2>6. AttemptsCounted' /\ OnlyAnsweredHasGot' /\ SeesTheAddress'
    BY <2>1, <1>t DEF IInv, TypeOK, AttemptsCounted, OnlyAnsweredHasGot,
       SeesTheAddress, Working
  <2>7. SampleIsFresh'
    BY <2>1, <2>4, <1>t DEF IInv, TypeOK, SampleIsFresh
  <2>8. AnswersAreFresh'
    BY <2>1, <2>2, <1>t DEF IInv, TypeOK, AnswersAreFresh, Working
  <2> QED BY <2>5, <2>6, <2>7, <2>8 DEF IInv
<1>8. ASSUME NEW p \in Probes, Ignore(p) PROVE IInv'
  <2>1. /\ responses # << >> /\ responses' = Tail(responses) /\ open' = open
        /\ probeVars' = probeVars /\ requests' = requests /\ answers' = answers
        /\ visible' = visible /\ calm' = calm
    BY <1>8 DEF Ignore, Receives, networkVars
  <2>2. /\ responses' \in Seq(StunResult) /\ Len(responses') <= Capacity
        /\ \A m \in Range(responses') : m \in Range(responses)
    BY <2>1, <1>t, Queues
  <2>3. TypeOK'
    BY <2>1, <2>2, <1>t DEF TypeOK, probeVars
  <2> QED BY <2>1, <2>2, <2>3, QuietStep
<1>9. ASSUME NEW p \in Probes, Timeout(p) PROVE IInv'
  <2>1. /\ place[p] = "waiting" /\ Resend(p) /\ cancelled' = cancelled
        /\ open' = open /\ networkVars' = networkVars /\ responses' = responses
    BY <1>9 DEF Timeout, TimerFires, readerVars
  <2> QED BY <2>1, <1>t, ResendStep
<1>10. ASSUME NEW p \in Probes, Count(p) PROVE IInv'
  <2>1. /\ Forgets(p) /\ cancelled' = cancelled /\ open' = open
        /\ networkVars' = networkVars /\ responses' = responses
        /\ place[p] = "answered" /\ place' = [place EXCEPT ![p] = "ready"]
        /\ sample' = sample /\ attempt' = attempt
    BY <1>10 DEF Count, readerVars
  <2>2. attempt' = [attempt EXCEPT ![p] = 0]
    BY <2>1, <1>t DEF IInv, TypeOK, AttemptsCounted, Working
  <2>3. /\ cancelled' \in [Probes -> BOOLEAN]
        /\ sample' \in [Probes -> Samples \cup {NoSample}]
    BY <2>1, <1>t DEF TypeOK
  <2> QED BY <2>1, <2>2, <2>3, <1>t, EndStep
<1>11. ASSUME NEW p \in Probes, Return(p) PROVE IInv'
  <2>1. /\ Forgets(p) /\ cancelled' = [cancelled EXCEPT ![p] = TRUE] /\ open' = open
        /\ networkVars' = networkVars /\ responses' = responses
        /\ place' = [place EXCEPT ![p] = "idle"]
        /\ sample' = [sample EXCEPT ![p] = NoSample]
        /\ attempt' = [attempt EXCEPT ![p] = 0]
    BY <1>11 DEF Return, Ends, readerVars
  <2>2. /\ cancelled' \in [Probes -> BOOLEAN]
        /\ sample' \in [Probes -> Samples \cup {NoSample}]
        /\ \A q \in Probes \ {p} : sample'[q] = sample[q]
    BY <2>1, <1>t DEF TypeOK
  <2> QED BY <2>1, <2>2, <1>t, EndStep
<1>12. CASE Answer
  <2>1. PICK q \in requests :
          /\ answers' = Append(answers, [sample |-> q.sample,
                            server |-> q.server, address |-> visible])
          /\ requests' = requests \ {q} \/ requests' = requests
    BY <1>12 DEF Answer
  <2> DEFINE new == [sample |-> q.sample, server |-> q.server, address |-> visible]
  <2>2. /\ place' = place /\ cancelled' = cancelled /\ sample' = sample
        /\ attempt' = attempt /\ got' = got /\ since' = since /\ open' = open
        /\ responses' = responses /\ visible' = visible /\ calm' = calm
    BY <1>12 DEF Answer, probeVars, readerVars
  <2>3. new \in StunResult /\ new.address = visible
    BY <1>t DEF TypeOK, Request, StunResult
  <2> HIDE DEF new
  <2>4. /\ answers' \in Seq(StunResult)
        /\ \A m \in Range(answers') : m \in Range(answers) \/ m = new
    BY <2>1, <2>3, <1>t, Queues DEF new
  <2>5. TypeOK'
    BY <2>1, <2>2, <2>4, <1>t DEF TypeOK
  <2>6. AttemptsCounted' /\ OnlyAnsweredHasGot' /\ SeesTheAddress' /\ SampleIsFresh'
    BY <2>2 DEF IInv, AttemptsCounted, OnlyAnsweredHasGot, SeesTheAddress,
       SampleIsFresh
  <2>7. AnswersAreFresh'
    BY <2>2, <2>3, <2>4 DEF IInv, AnswersAreFresh, SeesTheAddress
  <2> QED BY <2>5, <2>6, <2>7 DEF IInv
<1>13. CASE Lose \/ CalmsDown
  <2>1. /\ probeVars' = probeVars /\ open' = open /\ responses' = responses
        /\ answers' = answers /\ visible' = visible
        /\ requests' \subseteq requests /\ calm' \in BOOLEAN
    BY <1>13, <1>t DEF Lose, CalmsDown, readerVars, TypeOK
  <2>2. TypeOK'
    BY <2>1, <1>t DEF TypeOK, probeVars
  <2> QED BY <2>1, <2>2, QuietStep
<1>14. CASE AddressChanges
  <2>1. /\ visible' \in Addresses
        /\ place' = place /\ cancelled' = cancelled /\ sample' = sample
        /\ attempt' = attempt /\ got' = got /\ open' = open
        /\ responses' = responses /\ answers' = answers /\ requests' = requests
        /\ calm' = calm
        /\ since' = [p \in Probes |-> IF place[p] \in Working
                                      THEN since[p] \cup {visible'} ELSE since[p]]
    BY <1>14 DEF AddressChanges, readerVars
  <2>2. since' \in [Probes -> SUBSET Addresses]
    BY <2>1, <1>t DEF TypeOK
  <2>3. \A p \in Probes : /\ \A x \in since[p] : x \in since'[p]
                          /\ place[p] \in Working => visible' \in since'[p]
    BY <2>1
  <2>4. TypeOK'
    BY <2>1, <2>2, <1>t DEF TypeOK
  <2>5. AttemptsCounted' /\ OnlyAnsweredHasGot' /\ SeesTheAddress' /\ SampleIsFresh'
    BY <2>1, <2>3 DEF IInv, AttemptsCounted, OnlyAnsweredHasGot, SeesTheAddress,
       SampleIsFresh
  <2>6. AnswersAreFresh'
    BY <2>1, <2>3 DEF IInv, AnswersAreFresh
  <2> QED BY <2>4, <2>5, <2>6 DEF IInv
<1>15. CASE UNCHANGED vars
  <2>1. /\ probeVars' = probeVars /\ open' = open /\ responses' = responses
        /\ answers' = answers /\ visible' = visible
        /\ requests' = requests /\ calm' = calm
    BY <1>15 DEF vars, readerVars, networkVars
  <2>2. TypeOK'
    BY <2>1, <1>t DEF TypeOK, probeVars
  <2> QED BY <2>1, <2>2, QuietStep
<1> QED
  BY <1>1, <1>2, <1>3, <1>4, <1>5, <1>6, <1>7, <1>8, <1>9, <1>10, <1>11,
     <1>12, <1>13, <1>14, <1>15 DEF Next, ProbeStep

\* The invariant holds throughout.
LEMMA IInvHolds == Spec => []IInv
BY InitIInv, IInvStep, PTL DEF Spec

\* The channel never holds more than its slots, and no sample makes more
\* attempts than udpSTUNRetries (readFrom, stunUDPSharedFanout).
THEOREM TypeCorrect == Spec => []TypeOK
<1>1. IInv => TypeOK BY DEF IInv
<1> QED BY <1>1, IInvHolds, PTL

\* Whatever the network does to packets and however many goroutines read the
\* channel, a sample returns an address that was public while it was under way.
THEOREM SamplesAreFresh == Spec => []SampleIsFresh
<1>1. IInv => SampleIsFresh BY DEF IInv
<1> QED BY <1>1, IInvHolds, PTL
=============================================================================
