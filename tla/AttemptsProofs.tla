--------------------------- MODULE AttemptsProofs ---------------------------
(***************************************************************************)
(* Theorems about the port and the types of Attempts, for any instances,   *)
(* any range of ports and any number of probe goroutines.                  *)
(***************************************************************************)
EXTENDS RotationProofs

\* The picker stays inside its range.
PickerInRange ==
  /\ picker = [start |-> picker.start, end |-> picker.end,
               randomized |-> picker.randomized, next |-> picker.next]
  /\ picker.start \in Int /\ picker.end \in Int /\ picker.next \in Int
  /\ picker.start <= picker.next /\ picker.next <= picker.end

\* Between attempts a refused port is the one NextExcept will skip.
RefusedIsSkipped ==
  refused # NoPort /\ place \notin {"binding", "dialing"} =>
    advancePort /\ failedPort = refused /\ currentPort = refused

\* A session that has or wants a port has the preferred one; the socket of
\* runUDP has been bound before it dials.
SessionHasPort ==
  /\ protocol \in {"tcp", "udp"}
  /\ place # "rebuild" => port = currentPort
  /\ place = "dialing" /\ protocol = "udp" => port # 0 /\ refused = NoPort

\* The port that works is the preference and is not to be advanced.
KeptIsPreferred ==
  kept # NoPort => hasPort /\ ~advancePort /\ currentPort = kept

\* The inductive invariant.
IInv ==
  /\ hasPort \in BOOLEAN /\ advancePort \in BOOLEAN
  /\ PickerInRange /\ RefusedIsSkipped /\ SessionHasPort /\ KeptIsPreferred
  /\ NextPortIsAnother /\ WorkingPortIsKept

\* It holds when the runner has just been made.
LEMMA InitIInv == Init => IInv
<1> SUFFICES ASSUME Init PROVE IInv
  OBVIOUS
<1>1. PICK s \in Settings : PortInit(s.bindPort) /\ protocol = s.protocol
  BY DEF Init
<1>2. PickerInRange
  BY <1>1, MaxPortAssumption
     DEF PortInit, ValidSpec, NewPortPicker, PickerInRange, Ports
<1>3. hasPort = FALSE /\ advancePort = FALSE
  BY <1>1 DEF PortInit
<1>4. place = "rebuild" /\ kept = NoPort /\ refused = NoPort
  BY DEF Init
<1>5. protocol \in {"tcp", "udp"}
  BY <1>1, SettingsAssumption
<1> QED
  BY <1>2, <1>3, <1>4, <1>5
     DEF IInv, RefusedIsSkipped, SessionHasPort, KeptIsPreferred,
         NextPortIsAnother, WorkingPortIsKept

-----------------------------------------------------------------------------
\* The port after this one is in the range, and another one if there is one.
LEMMA AfterMoves ==
  ASSUME PickerInRange
  PROVE  /\ After(picker.next) \in Int
         /\ picker.start <= After(picker.next) /\ After(picker.next) <= picker.end
         /\ picker.start < picker.end => After(picker.next) # picker.next
         /\ picker.start <= After(After(picker.next))
         /\ After(After(picker.next)) <= picker.end
         /\ After(After(picker.next)) \in Int
BY DEF PickerInRange, After

\* NextExcept keeps the picker in its range and, if there is a choice, does
\* not hand out the port it is told to skip.
LEMMA NextExceptSkips ==
  ASSUME PickerInRange, NEW except, NEW choice \in NextExcept(except)
  PROVE  /\ choice.next \in Int
         /\ picker.start <= choice.next /\ choice.next <= picker.end
         /\ picker.start < picker.end => choice.port # except
<1>1. CASE picker.start = picker.end
  BY <1>1 DEF NextExcept, PickerInRange
<1>2. CASE picker.start # picker.end /\ picker.randomized
  <2>1. PICK q \in (picker.start..picker.end) \ {except} :
          choice = [port |-> q, next |-> picker.next]
    BY <1>2 DEF NextExcept
  <2> QED BY <2>1 DEF PickerInRange
<1>3. CASE picker.start # picker.end /\ ~picker.randomized
  <2> DEFINE port0 == IF picker.next = except THEN After(picker.next)
                                              ELSE picker.next
  <2>1. choice = [port |-> port0, next |-> After(port0)]
    BY <1>3 DEF NextExcept
  <2>2. CASE picker.next = except
    BY <1>3, <2>1, <2>2, AfterMoves DEF PickerInRange
  <2>3. CASE picker.next # except
    BY <1>3, <2>1, <2>3, AfterMoves DEF PickerInRange
  <2> QED BY <2>2, <2>3
<1> QED BY <1>1, <1>2, <1>3

\* bindPort: the preference stays, or the picker moves on.
LEMMA BindPortMoves ==
  ASSUME IInv, BindPort
  PROVE  /\ PickerInRange'
         /\ picker'.start = picker.start /\ picker'.end = picker.end
         /\ hasPort' \in BOOLEAN /\ advancePort' \in BOOLEAN
         /\ \/ hasPort /\ ~advancePort /\ UNCHANGED portVars
            \/ /\ ~hasPort \/ advancePort
               /\ hasPort' = TRUE /\ advancePort' = FALSE
               /\ picker.start < picker.end => currentPort' # failedPort
<1>1. CASE ~hasPort \/ advancePort
  <2>1. PICK choice \in NextExcept(failedPort) :
          /\ currentPort' = choice.port
          /\ picker' = [picker EXCEPT !.next = choice.next]
    BY <1>1 DEF BindPort
  <2>2. /\ choice.next \in Int
        /\ picker.start <= choice.next /\ choice.next <= picker.end
        /\ picker.start < picker.end => choice.port # failedPort
    BY NextExceptSkips DEF IInv
  <2>3. picker' = [start |-> picker.start, end |-> picker.end,
                   randomized |-> picker.randomized, next |-> choice.next]
    BY <2>1 DEF IInv, PickerInRange
  <2>4. PickerInRange' /\ picker'.start = picker.start /\ picker'.end = picker.end
    BY <2>2, <2>3 DEF IInv, PickerInRange
  <2>5. hasPort' = TRUE /\ advancePort' = FALSE
    BY <1>1 DEF BindPort
  <2> QED BY <1>1, <2>1, <2>2, <2>4, <2>5
<1>2. CASE ~(~hasPort \/ advancePort)
  <2>1. UNCHANGED portVars
    BY <1>2 DEF BindPort
  <2> QED BY <1>2, <2>1 DEF portVars, IInv, PickerInRange
<1> QED BY <1>1, <1>2

\* A step that neither starts an attempt nor touches the preference.
LEMMA OtherStep ==
  ASSUME IInv, portVars' = portVars, protocol' = protocol,
         kept' = kept, refused' \in {refused, NoPort}, port' = port,
         \/ place' = place
         \/ place' = "rebuild" /\ (refused' = NoPort \/ place = "reconnecting")
         \/ place = "open" /\ place' = "reconnecting"
         \/ place = "reconnecting" /\ place' = "open"
  PROVE  IInv'
<1>1. /\ picker' = picker /\ hasPort' = hasPort /\ currentPort' = currentPort
      /\ failedPort' = failedPort /\ advancePort' = advancePort
  BY DEF portVars
<1>2. PickerInRange'
  BY <1>1 DEF IInv, PickerInRange
<1>3. SessionHasPort' /\ KeptIsPreferred' /\ WorkingPortIsKept'
  BY <1>1 DEF IInv, SessionHasPort, KeptIsPreferred, WorkingPortIsKept
<1>4. RefusedIsSkipped' /\ NextPortIsAnother'
  BY <1>1 DEF IInv, RefusedIsSkipped, NextPortIsAnother
<1> QED BY <1>1, <1>2, <1>3, <1>4 DEF IInv

\* The session gives up because its own port is refused.
LEMMA RefusedStep ==
  ASSUME IInv, Refused, place # "rebuild", place' = "rebuild",
         protocol' = protocol
  PROVE  IInv'
<1>1. /\ picker' = picker /\ hasPort' = hasPort /\ currentPort' = currentPort
      /\ failedPort' = currentPort /\ advancePort' = TRUE
      /\ kept' = NoPort /\ refused' = port
  BY DEF Refused, AdvanceBindPort
<1>2. PickerInRange'
  BY <1>1 DEF IInv, PickerInRange
<1>3. SessionHasPort' /\ KeptIsPreferred' /\ WorkingPortIsKept' /\ NextPortIsAnother'
  BY <1>1 DEF IInv, SessionHasPort, KeptIsPreferred, WorkingPortIsKept,
              NextPortIsAnother
<1>4. RefusedIsSkipped'
  BY <1>1 DEF IInv, SessionHasPort, RefusedIsSkipped
<1> QED BY <1>1, <1>2, <1>3, <1>4 DEF IInv

\* A socket is open: its port is the preference from now on.
LEMMA WorksStep ==
  ASSUME IInv, NEW p, Works(p), port' = p, protocol' = protocol,
         place' \in {"dialing", "open"},
         place' = "dialing" => p # 0
  PROVE  IInv'
<1>1. /\ picker' = picker /\ hasPort' = TRUE /\ currentPort' = p
      /\ advancePort' = FALSE /\ kept' = p /\ refused' = NoPort
  BY DEF Works, KeepBindPort
<1>2. PickerInRange'
  BY <1>1 DEF IInv, PickerInRange
<1>3. SessionHasPort' /\ KeptIsPreferred' /\ WorkingPortIsKept'
  BY <1>1 DEF IInv, SessionHasPort, KeptIsPreferred, WorkingPortIsKept
<1>4. RefusedIsSkipped' /\ NextPortIsAnother'
  BY <1>1 DEF RefusedIsSkipped, NextPortIsAnother
<1> QED BY <1>1, <1>2, <1>3, <1>4 DEF IInv

-----------------------------------------------------------------------------
\* Every step of the session and of the probe goroutines keeps the invariant.
LEMMA IInvStep == IInv /\ [Next]_vars => IInv'
<1> SUFFICES ASSUME IInv, [Next]_vars PROVE IInv'
  OBVIOUS
<1>1. CASE Attempt
  <2>1. /\ place = "rebuild" /\ BindPort /\ port' = currentPort'
        /\ kept' = kept /\ refused' = refused /\ protocol' = protocol
        /\ place' \in {"binding", "dialing"}
        /\ protocol = "udp" => place' = "binding"
    BY <1>1 DEF Attempt, settingVars
  <2>2. /\ PickerInRange'
        /\ picker'.start = picker.start /\ picker'.end = picker.end
        /\ hasPort' \in BOOLEAN /\ advancePort' \in BOOLEAN
    BY <2>1, BindPortMoves
  <2>3. SessionHasPort' /\ RefusedIsSkipped'
    BY <2>1 DEF IInv, SessionHasPort, RefusedIsSkipped
  <2>4. CASE hasPort /\ ~advancePort /\ UNCHANGED portVars
    BY <2>1, <2>2, <2>3, <2>4
       DEF IInv, portVars, RefusedIsSkipped, KeptIsPreferred, NextPortIsAnother,
           WorkingPortIsKept
  <2>5. CASE /\ ~hasPort \/ advancePort
             /\ hasPort' = TRUE /\ advancePort' = FALSE
             /\ picker.start < picker.end => currentPort' # failedPort
    BY <2>1, <2>2, <2>3, <2>5
       DEF IInv, RefusedIsSkipped, KeptIsPreferred, NextPortIsAnother,
           WorkingPortIsKept
  <2> QED BY <2>1, <2>4, <2>5, BindPortMoves
<1>2. CASE Listens
  <2>1. PICK p \in Actual(port) : Works(p) /\ port' = p
    BY <1>2 DEF Listens
  <2>2. p # 0
    BY MaxPortAssumption DEF Actual
  <2> QED BY <1>2, <2>1, <2>2, WorksStep DEF Listens, settingVars
<1>3. CASE ListenFails
  <2>1. CASE Refused
    BY <1>3, <2>1, RefusedStep DEF ListenFails, settingVars
  <2>2. CASE FailsOtherwise
    BY <1>3, <2>2, OtherStep DEF ListenFails, FailsOtherwise, settingVars
  <2> QED BY <1>3, <2>1, <2>2 DEF ListenFails
<1>4. CASE DialSucceeds
  <2>1. PICK p \in Actual(port) :
          /\ port' = p
          /\ IF protocol = "tcp" THEN Works(p)
                                 ELSE UNCHANGED <<portVars, keptVars>>
    BY <1>4 DEF DialSucceeds
  <2>2. place = "dialing" /\ place' = "open" /\ protocol' = protocol
    BY <1>4 DEF DialSucceeds, settingVars
  <2>3. CASE protocol = "tcp"
    BY <2>1, <2>2, <2>3, WorksStep
  <2>4. CASE protocol # "tcp"
    <3>1. port # 0 /\ refused = NoPort
      BY <2>2, <2>4 DEF IInv, SessionHasPort
    <3>2. port' = port
      BY <2>1, <3>1 DEF Actual
    <3>3. /\ picker' = picker /\ hasPort' = hasPort /\ currentPort' = currentPort
          /\ failedPort' = failedPort /\ advancePort' = advancePort
          /\ kept' = kept /\ refused' = refused
      BY <2>1, <2>4 DEF portVars, keptVars
    <3>4. PickerInRange'
      BY <3>3 DEF IInv, PickerInRange
    <3>5. SessionHasPort' /\ KeptIsPreferred' /\ WorkingPortIsKept'
      BY <2>2, <3>2, <3>3 DEF IInv, SessionHasPort, KeptIsPreferred,
                              WorkingPortIsKept
    <3>6. RefusedIsSkipped' /\ NextPortIsAnother'
      BY <2>2, <3>1, <3>3 DEF RefusedIsSkipped, NextPortIsAnother
    <3> QED BY <3>3, <3>4, <3>5, <3>6 DEF IInv
  <2> QED BY <2>3, <2>4
<1>5. CASE DialFails
  BY <1>5, OtherStep DEF DialFails, FailsOtherwise, settingVars, portVars, keptVars
<1>6. CASE DialRefused
  BY <1>6, RefusedStep DEF DialRefused, settingVars
<1>7. CASE SessionLost
  BY <1>7, OtherStep DEF SessionLost, settingVars, keptVars
<1>8. CASE RedialSucceeds
  BY <1>8, OtherStep DEF RedialSucceeds, settingVars, keptVars
<1>9. CASE RedialFails
  BY <1>9, OtherStep DEF RedialFails, settingVars, keptVars
<1>10. CASE RoundFails
  BY <1>10, OtherStep DEF RoundFails, settingVars, keptVars
<1>11. CASE RedialRefused
  BY <1>11, RefusedStep DEF RedialRefused, settingVars
<1>12. ASSUME NEW p \in Probes, SampleBegins(p) \/ SampleAnswered(p)
                                \/ SampleFails(p) \/ ProbeEnds(p)
       PROVE  IInv'
  <2>1. UNCHANGED <<portVars, keptVars, settingVars, sessionVars>>
    BY <1>12 DEF SampleBegins, SampleAnswered, SampleFails, ProbeEnds,
                 ProbeUnchanged
  <2> QED BY <2>1, OtherStep DEF settingVars, sessionVars, keptVars
<1>13. ASSUME NEW p \in Probes, Blames(p) PROVE IInv'
  <2>1. /\ picker' = picker /\ hasPort' = hasPort /\ currentPort' = currentPort
        /\ failedPort' = currentPort /\ advancePort' = TRUE /\ kept' = NoPort
        /\ place' = place /\ port' = port /\ protocol' = protocol
        /\ \/ refused' = refused
           \/ refused' = currentPort /\ place \notin {"binding", "dialing"}
    BY <1>13 DEF Blames, AdvanceBindPort, ProbeUnchanged, settingVars, sessionVars
  <2>2. PickerInRange'
    BY <2>1 DEF IInv, PickerInRange
  <2>3. SessionHasPort' /\ KeptIsPreferred' /\ WorkingPortIsKept'
    BY <2>1 DEF IInv, SessionHasPort, KeptIsPreferred, WorkingPortIsKept
  <2>4. RefusedIsSkipped' /\ NextPortIsAnother'
    BY <2>1 DEF IInv, RefusedIsSkipped, NextPortIsAnother
  <2> QED BY <2>1, <2>2, <2>3, <2>4 DEF IInv
<1>14. CASE UNCHANGED vars
  BY <1>14, OtherStep DEF vars, settingVars, sessionVars, keptVars
<1> QED
  BY <1>1, <1>2, <1>3, <1>4, <1>5, <1>6, <1>7, <1>8, <1>9, <1>10, <1>11,
     <1>12, <1>13, <1>14 DEF Next

\* The invariant holds throughout.
LEMMA IInvHolds == Spec => []IInv
BY InitIInv, IInvStep, PTL DEF Spec

\* Neither lost sessions nor late probe goroutines make a runner leave a port
\* that works (keepBindPort, advanceBindPort, bindPort).
THEOREM WorkingPortHolds == Spec => []WorkingPortIsKept
<1>1. IInv => WorkingPortIsKept BY DEF IInv
<1> QED BY <1>1, IInvHolds, PTL

\* The session never tries the port again that it has just been refused, for
\* any range with more than one port (NextExcept).
THEOREM NextPortHolds == Spec => []NextPortIsAnother
<1>1. IInv => NextPortIsAnother BY DEF IInv
<1> QED BY <1>1, IInvHolds, PTL

-----------------------------------------------------------------------------
\* A sequential range whose ports the instance names itself.
Sequential == ~picker.randomized /\ picker.start > 0

PortRange == picker.start..picker.end

\* The ports from f up to the one before c, around the end of the range.
Arc(f, c) ==
  {x \in PortRange : IF f <= c THEN f <= x /\ x < c ELSE f <= x \/ x < c}

\* The picker goes around the range: what has been given up is an arc that
\* ends before the port in use, or everything.
Sweeps ==
  /\ currentPort \in PortRange /\ picker.next = After(currentPort)
  /\ failedPort \in {-1, currentPort}
  /\ left = PortRange \/ \E f \in PortRange : left = Arc(f, currentPort)

\* The inductive invariant behind EveryPortGetsATry.
SweepInv ==
  /\ port = currentPort
  /\ \/ hasPort
     \/ /\ place = "rebuild" /\ ~advancePort /\ failedPort = -1 /\ left = {}
        /\ \A p \in Probes : probe[p] = "idle"
  /\ Sequential /\ hasPort => Sweeps

\* One more port given up extends the arc, or closes it.
LEMMA ArcGrows ==
  ASSUME PickerInRange, NEW f \in PortRange, NEW c \in PortRange
  PROVE  /\ After(c) \in PortRange
         /\ Arc(c, c) = {}
         /\ \/ Arc(f, c) \cup {c} = PortRange
            \/ Arc(f, c) \cup {c} = Arc(f, After(c))
<1>1. /\ picker.start \in Int /\ picker.end \in Int /\ picker.start <= picker.end
      /\ c \in Int /\ f \in Int /\ picker.start <= c /\ c <= picker.end
      /\ picker.start <= f /\ f <= picker.end
  BY DEF PickerInRange, PortRange
<1>2. After(c) \in PortRange
  BY <1>1 DEF After, PortRange
<1>3. Arc(c, c) = {}
  BY <1>1 DEF Arc, PortRange
<1>4. CASE After(c) = f
  <2>1. ASSUME NEW x \in PortRange, x # c PROVE x \in Arc(f, c)
    BY <1>1, <1>4, <2>1 DEF Arc, After, PortRange
  <2> QED BY <1>2, <1>3, <2>1 DEF Arc
<1>5. CASE After(c) # f
  <2>1. ASSUME NEW x \in PortRange
        PROVE  x \in Arc(f, c) \/ x = c <=> x \in Arc(f, After(c))
    BY <1>1, <1>5 DEF Arc, After, PortRange
  <2> QED BY <1>2, <1>3, <2>1 DEF Arc
<1> QED BY <1>4, <1>5

\* A socket that is open has the port that was asked for, if it was a named one.
LEMMA WorksSweeps ==
  ASSUME IInv, SweepInv, hasPort, NEW p \in Actual(port), Works(p), port' = p
  PROVE  SweepInv'
<1>1. /\ picker' = picker /\ hasPort' = TRUE /\ currentPort' = p
      /\ failedPort' = -1 /\ left' = {}
  BY DEF Works, KeepBindPort
<1>2. CASE Sequential
  <2>1. Sweeps /\ port = currentPort /\ currentPort \in PortRange
    BY <1>2 DEF SweepInv, Sweeps
  <2>2. p = currentPort
    BY <1>2, <2>1 DEF IInv, PickerInRange, PortRange, Actual, Sequential
  <2>3. PickerInRange /\ Arc(p, p) = {}
    BY <2>1, <2>2, ArcGrows DEF IInv
  <2>4. Sweeps'
    BY <1>1, <2>1, <2>2, <2>3 DEF Sweeps, After, PortRange, Arc
  <2> QED BY <1>1, <2>4 DEF SweepInv
<1>3. CASE ~Sequential
  BY <1>1, <1>3 DEF SweepInv, Sequential
<1> QED BY <1>2, <1>3

\* A refusal only marks the port in use.
LEMMA AdvanceSweeps ==
  ASSUME SweepInv, hasPort, AdvanceBindPort, left' = left, port' = port
  PROVE  SweepInv'
<1>1. /\ picker' = picker /\ hasPort' = hasPort /\ currentPort' = currentPort
      /\ failedPort' = currentPort /\ left' = left
  BY DEF AdvanceBindPort
<1>2. Sequential => Sweeps'
  BY <1>1 DEF SweepInv, Sweeps, After, PortRange, Arc
<1> QED BY <1>1, <1>2 DEF SweepInv, Sequential

\* A step that leaves the preference and the ports given up alone.
LEMMA OtherSweeps ==
  ASSUME SweepInv, portVars' = portVars, left' = left, port' = port,
         hasPort \/ (place' = place /\ probe' = probe)
  PROVE  SweepInv'
<1>1. /\ picker' = picker /\ hasPort' = hasPort /\ currentPort' = currentPort
      /\ failedPort' = failedPort /\ advancePort' = advancePort
  BY DEF portVars
<1>2. Sequential /\ hasPort => Sweeps'
  BY <1>1 DEF SweepInv, Sweeps, After, PortRange, Arc
<1> QED BY <1>1, <1>2 DEF SweepInv, Sequential

\* bindPort takes the next port of the range.
LEMMA AttemptSweeps ==
  ASSUME IInv, SweepInv, Attempt
  PROVE  SweepInv'
<1>1. /\ BindPort /\ port' = currentPort' /\ hasPort \in BOOLEAN
      /\ advancePort \in BOOLEAN /\ PickerInRange /\ port = currentPort
      /\ left' = IF advancePort THEN left \cup {port} ELSE left
  BY DEF Attempt, IInv, SweepInv
<1>2. CASE hasPort /\ ~advancePort
  <2>1. UNCHANGED portVars /\ left' = left
    BY <1>1, <1>2 DEF BindPort
  <2>2. port' = port
    BY <1>1, <2>1 DEF portVars
  <2> QED BY <1>2, <2>1, <2>2, OtherSweeps
<1>3. CASE ~hasPort \/ advancePort
  <2>1. PICK choice \in NextExcept(failedPort) :
          currentPort' = choice.port /\ picker' = [picker EXCEPT !.next = choice.next]
    BY <1>1, <1>3 DEF BindPort
  <2>2. hasPort' = TRUE /\ failedPort' = -1
    BY <1>1, <1>3 DEF BindPort
  <2>3. /\ picker'.start = picker.start /\ picker'.end = picker.end
        /\ picker'.randomized = picker.randomized /\ picker'.next = choice.next
    BY <1>1, <2>1 DEF PickerInRange
  <2>4. CASE Sequential
    <3>1. /\ picker.start \in Int /\ picker.end \in Int /\ picker.next \in Int
          /\ picker.start > 0 /\ picker.start <= picker.next
          /\ picker.next <= picker.end /\ ~picker.randomized
      BY <1>1, <2>4 DEF PickerInRange, Sequential
    <3>2. picker.start < picker.end => picker.next # failedPort
      <4>1. CASE hasPort
        <5>1. picker.next = After(currentPort) /\ currentPort \in PortRange
              /\ failedPort \in {-1, currentPort}
          BY <2>4, <4>1 DEF SweepInv, Sweeps
        <5> QED BY <3>1, <5>1 DEF After, PortRange
      <4>2. CASE ~hasPort
        BY <3>1, <4>2 DEF SweepInv
      <4> QED BY <1>1, <4>1, <4>2
    <3>3. choice.port = picker.next /\ choice.next = After(picker.next)
      <4>1. CASE picker.start = picker.end
        BY <3>1, <4>1, <2>1 DEF NextExcept, After
      <4>2. CASE picker.start # picker.end
        BY <3>1, <3>2, <4>2, <2>1 DEF NextExcept
      <4> QED BY <4>1, <4>2
    <3>4. picker.next \in PortRange
      BY <3>1 DEF PortRange
    <3>5. left' = PortRange \/ \E f \in PortRange : left' = Arc(f, picker.next)
      <4>1. CASE hasPort
        <5>1. /\ currentPort \in PortRange /\ picker.next = After(currentPort)
              /\ left' = left \cup {currentPort}
              /\ left = PortRange \/ \E f \in PortRange : left = Arc(f, currentPort)
          BY <1>1, <1>3, <2>4, <4>1 DEF SweepInv, Sweeps
        <5>2. CASE left = PortRange
          BY <5>1, <5>2
        <5>3. CASE \E f \in PortRange : left = Arc(f, currentPort)
          BY <1>1, <5>1, <5>3, ArcGrows
        <5> QED BY <5>1, <5>2, <5>3
      <4>2. CASE ~hasPort
        <5>1. left' = {}
          BY <1>1, <4>2 DEF SweepInv
        <5>2. Arc(picker.next, picker.next) = {}
          BY <1>1, <3>4, ArcGrows
        <5> QED BY <3>4, <5>1, <5>2
      <4> QED BY <1>1, <4>1, <4>2
    <3>6. currentPort' \in PortRange' /\ picker'.next = After(currentPort)'
      BY <2>1, <2>3, <3>3, <3>4 DEF PortRange, After
    <3>7. left' = PortRange' \/ \E f \in PortRange' : left' = Arc(f, currentPort)'
      BY <2>1, <2>3, <3>3, <3>4, <3>5 DEF PortRange, Arc
    <3>8. Sweeps'
      BY <2>2, <3>6, <3>7 DEF Sweeps
    <3> QED BY <1>1, <2>2, <3>8 DEF SweepInv
  <2>5. CASE ~Sequential
    BY <1>1, <2>2, <2>3, <2>5 DEF SweepInv, Sequential
  <2> QED BY <2>4, <2>5
<1> QED BY <1>1, <1>2, <1>3

\* Every step keeps the sweep.
LEMMA SweepStep == IInv /\ SweepInv /\ [Next]_vars => SweepInv'
<1> SUFFICES ASSUME IInv, SweepInv, [Next]_vars PROVE SweepInv'
  OBVIOUS
<1>h. place # "rebuild" => hasPort
  BY DEF SweepInv
<1>1. CASE Attempt
  BY <1>1, AttemptSweeps
<1>2. CASE Listens
  <2>1. PICK p \in Actual(port) : Works(p) /\ port' = p
    BY <1>2 DEF Listens
  <2> QED BY <1>2, <1>h, <2>1, WorksSweeps DEF Listens
<1>3. CASE ListenFails
  <2>1. CASE Refused
    BY <1>3, <1>h, <2>1, AdvanceSweeps DEF ListenFails, Refused
  <2>2. CASE FailsOtherwise
    BY <1>3, <1>h, <2>2, OtherSweeps DEF ListenFails, FailsOtherwise
  <2> QED BY <1>3, <2>1, <2>2 DEF ListenFails
<1>4. CASE DialSucceeds
  <2>1. PICK p \in Actual(port) :
          /\ port' = p
          /\ IF protocol = "tcp" THEN Works(p)
                                 ELSE UNCHANGED <<portVars, keptVars>>
    BY <1>4 DEF DialSucceeds
  <2>2. hasPort /\ place = "dialing"
    BY <1>4, <1>h DEF DialSucceeds
  <2>3. CASE protocol = "tcp"
    BY <2>1, <2>2, <2>3, WorksSweeps
  <2>4. CASE protocol # "tcp"
    <3>1. port' = port
      BY <2>1, <2>2, <2>4 DEF IInv, SessionHasPort, Actual
    <3> QED BY <2>1, <2>2, <2>4, <3>1, OtherSweeps DEF keptVars
  <2> QED BY <2>3, <2>4
<1>5. CASE DialFails
  BY <1>5, <1>h, OtherSweeps DEF DialFails, FailsOtherwise, keptVars
<1>6. CASE DialRefused \/ RedialRefused
  BY <1>6, <1>h, AdvanceSweeps DEF DialRefused, RedialRefused, Refused
<1>7. CASE SessionLost \/ RedialSucceeds \/ RedialFails \/ RoundFails
  BY <1>7, <1>h, OtherSweeps DEF SessionLost, RedialSucceeds, RedialFails,
                                 RoundFails, keptVars
<1>8. ASSUME NEW p \in Probes, SampleBegins(p) \/ SampleAnswered(p)
                               \/ SampleFails(p) \/ ProbeEnds(p)
      PROVE  SweepInv'
  <2>1. UNCHANGED <<portVars, keptVars, sessionVars>> /\ probe[p] # "idle"
    BY <1>8 DEF SampleBegins, SampleAnswered, SampleFails, ProbeEnds, GoesTo,
                ProbeUnchanged
  <2>2. hasPort
    BY <2>1 DEF SweepInv
  <2> QED BY <2>1, <2>2, OtherSweeps DEF sessionVars, keptVars
<1>9. ASSUME NEW p \in Probes, Blames(p) PROVE SweepInv'
  <2>1. AdvanceBindPort /\ left' = left /\ port' = port /\ probe[p] # "idle"
    BY <1>9 DEF Blames, ProbeUnchanged, sessionVars, GoesTo
  <2>2. hasPort
    BY <2>1 DEF SweepInv
  <2> QED BY <2>1, <2>2, AdvanceSweeps
<1>10. CASE UNCHANGED vars
  BY <1>10, OtherSweeps DEF vars, sessionVars, probeVars, keptVars
<1> QED
  BY <1>1, <1>2, <1>3, <1>4, <1>5, <1>6, <1>7, <1>8, <1>9, <1>10 DEF Next

\* A runner with a sequential range tries every port of it before it comes
\* back to one that was refused, whatever probe goroutines report meanwhile.
THEOREM EveryPortHolds == Spec => []EveryPortGetsATry
<1>1. Init => SweepInv
  <2> SUFFICES ASSUME Init PROVE SweepInv
    OBVIOUS
  <2>1. /\ hasPort = FALSE /\ advancePort = FALSE /\ failedPort = -1
        /\ currentPort = 0 /\ port = 0 /\ place = "rebuild" /\ left = {}
        /\ \A p \in Probes : probe[p] = "idle"
    BY DEF Init, PortInit
  <2> QED BY <2>1 DEF SweepInv
<1>2. IInv /\ SweepInv => EveryPortGetsATry
  <2> SUFFICES ASSUME IInv, SweepInv, place \in {"binding", "dialing"},
                      port \in left, Sequential
               PROVE  PortRange \subseteq left
    BY DEF EveryPortGetsATry, Sequential, PortRange
  <2>1. Sweeps /\ port = currentPort
    BY DEF SweepInv
  <2>2. \A f \in PortRange : currentPort \notin Arc(f, currentPort)
    BY <2>1 DEF Arc, Sweeps, IInv, PickerInRange, PortRange
  <2> QED BY <2>1, <2>2 DEF Sweeps
<1> QED BY <1>1, <1>2, SweepStep, IInvHolds, PTL DEF Spec

-----------------------------------------------------------------------------
(* Types.  TypeOK says more than the sets the variables range over: the    *)
(* picker stays inside its range, an open session has a port and a server, *)
(* and what the searches return comes from the lists.                      *)

SessionTypes ==
  /\ place \in {"rebuild", "binding", "dialing", "open", "reconnecting"}
  /\ port \in Ports /\ round \in 0..MaxRounds
  /\ current \in Range(keepServers) \cup {NoServer}
  /\ place \in {"open", "reconnecting"} => port > 0

ProbeTypes ==
  /\ probe \in [Probes -> {"idle", "ready", "asking", "blaming"}]
  /\ cancelled \in [Probes -> BOOLEAN]
  /\ probePort \in [Probes -> Ports \cup {NoPort}]

HistoryTypes ==
  /\ kept \in Ports \cup {NoPort}
  /\ refused \in Ports \cup {NoPort} /\ left \subseteq Ports
  /\ silent \in 0..Len(stunServers)

TypeInv == PortTypeOK /\ SessionTypes /\ ProbeTypes /\ HistoryTypes

\* NextExcept returns ports of the range.
LEMMA NextExceptTypes ==
  ASSUME PortTypeOK, NEW except, NEW choice \in NextExcept(except)
  PROVE  /\ choice.port \in picker.start..picker.end
         /\ choice.next \in picker.start..picker.end
<1>1. /\ picker.start \in Int /\ picker.end \in Int
      /\ picker.next \in picker.start..picker.end
      /\ After(picker.next) \in picker.start..picker.end
      /\ After(After(picker.next)) \in picker.start..picker.end
  BY DEF PortTypeOK, Picker, Ports, After
<1>2. CASE picker.start = picker.end
  BY <1>1, <1>2 DEF NextExcept
<1>3. CASE picker.start # picker.end /\ picker.randomized
  BY <1>1, <1>3 DEF NextExcept
<1>4. CASE picker.start # picker.end /\ ~picker.randomized
  <2>1. \/ choice = [port |-> picker.next, next |-> After(picker.next)]
        \/ choice = [port |-> After(picker.next),
                     next |-> After(After(picker.next))]
    BY <1>4 DEF NextExcept
  <2> QED BY <1>1, <2>1
<1> QED BY <1>2, <1>3, <1>4

\* The port preference keeps its type in each of its four operations, and in
\* a step that is none of them.
LEMMA PreferenceTypes ==
  ASSUME PortTypeOK,
         \/ BindPort \/ AdvanceBindPort \/ UNCHANGED portVars
         \/ \E p \in Ports : KeepBindPort(p)
  PROVE  PortTypeOK'
<1>1. CASE UNCHANGED portVars
  BY <1>1 DEF PortTypeOK, portVars
<1>2. CASE AdvanceBindPort
  BY <1>2 DEF PortTypeOK, AdvanceBindPort
<1>3. ASSUME NEW p \in Ports, KeepBindPort(p) PROVE PortTypeOK'
  BY <1>3 DEF PortTypeOK, KeepBindPort
<1>4. CASE BindPort /\ ~(UNCHANGED portVars)
  <2>1. PICK choice \in NextExcept(failedPort) :
          /\ currentPort' = choice.port
          /\ picker' = [picker EXCEPT !.next = choice.next]
    BY <1>4 DEF BindPort
  <2>2. failedPort' = -1 /\ hasPort' = TRUE /\ advancePort' = FALSE
    BY <1>4 DEF BindPort
  <2>3. /\ choice.port \in picker.start..picker.end
        /\ choice.next \in picker.start..picker.end
    BY NextExceptTypes
  <2>4. picker.start \in 0..MaxPort /\ picker.end \in 0..MaxPort /\ MaxPort \in Nat
    BY MaxPortAssumption DEF PortTypeOK, Picker, Ports
  <2>5. choice.port \in Ports /\ choice.next \in Ports
    BY <2>3, <2>4 DEF Ports
  <2>6. /\ picker' \in Picker /\ picker'.start = picker.start
        /\ picker'.end = picker.end /\ picker'.next = choice.next
    BY <2>1, <2>5 DEF PortTypeOK, Picker
  <2> QED BY <2>1, <2>2, <2>3, <2>5, <2>6 DEF PortTypeOK
<1> QED BY <1>1, <1>2, <1>3, <1>4

\* A bound socket has a port above 0.
LEMMA ActualIsPort ==
  ASSUME port \in Ports, NEW p \in Actual(port)
  PROVE  p \in Ports /\ p > 0
BY MaxPortAssumption DEF Actual, Ports

\* A step of the session that leaves the probes and the STUN servers alone.
LEMMA SessionMoves ==
  ASSUME TypeInv, UNCHANGED settingVars, UNCHANGED askedVars,
         PortTypeOK', SessionTypes', ProbeTypes',
         kept' \in Ports \cup {NoPort}, refused' \in Ports \cup {NoPort},
         left' \subseteq Ports
  PROVE  TypeInv'
BY DEF TypeInv, HistoryTypes, settingVars, askedVars

\* The cell of a probe goroutine that starts.
LEMMA StartProbeTypes ==
  ASSUME ProbeTypes, NEW q \in Ports, StartProbe(q)
  PROVE  ProbeTypes'
BY DEF ProbeTypes, StartProbe

\* A step of a probe goroutine leaves the session alone.
LEMMA ProbeTypesKept ==
  ASSUME TypeInv, ProbeUnchanged, PortTypeOK', ProbeTypes',
         kept' \in Ports \cup {NoPort}, refused' \in Ports \cup {NoPort},
         left' = left, silent' \in 0..Len(stunServers)
  PROVE  TypeInv'
BY DEF TypeInv, SessionTypes, HistoryTypes, ProbeUnchanged, settingVars, sessionVars

LEMMA InitTypeInv == Init => TypeInv
<1> SUFFICES ASSUME Init PROVE TypeInv
  OBVIOUS
<1>1. PICK s \in Settings : PortInit(s.bindPort)
  BY DEF Init
<1>2. s.bindPort.randomized \in BOOLEAN
  BY SettingsAssumption
<1>3. PortTypeOK
  <2>1. /\ s.bindPort.start \in Ports /\ s.bindPort.end \in Ports
        /\ s.bindPort.start <= s.bindPort.end
    BY <1>1 DEF PortInit, ValidSpec
  <2>2. picker = NewPortPicker(s.bindPort)
    BY <1>1 DEF PortInit
  <2>3. /\ picker \in Picker /\ picker.start = s.bindPort.start
        /\ picker.end = s.bindPort.end /\ picker.next = s.bindPort.start
    BY <1>2, <2>1, <2>2 DEF NewPortPicker, Picker
  <2>4. /\ hasPort = FALSE /\ currentPort = 0
        /\ failedPort = -1 /\ advancePort = FALSE
    BY <1>1 DEF PortInit
  <2>5. 0 \in Ports
    BY MaxPortAssumption DEF Ports
  <2>6. picker.start <= picker.end /\ picker.next \in picker.start..picker.end
    BY <2>1, <2>3, MaxPortAssumption DEF Ports
  <2> QED BY <2>3, <2>4, <2>5, <2>6 DEF PortTypeOK
<1>4. SessionTypes
  <2>1. place = "rebuild" /\ port = 0 /\ current = NoServer /\ round = 0
    BY DEF Init
  <2> QED BY <2>1, MaxPortAssumption DEF SessionTypes, Ports, MaxRounds
<1>5. ProbeTypes
  BY DEF Init, ProbeTypes
<1>6. HistoryTypes
  <2>1. kept = NoPort /\ refused = NoPort /\ left = {} /\ silent = 0
    BY DEF Init
  <2>2. Len(stunServers) \in Nat
    BY InitInOrder, ListedFacts DEF ListsInOrder
  <2> QED BY <2>1, <2>2 DEF HistoryTypes
<1> QED BY <1>3, <1>4, <1>5, <1>6 DEF TypeInv

\* The steps of the session.
LEMMA SessionStepTypes ==
  ASSUME SInv, TypeInv,
         \/ Attempt \/ Listens \/ ListenFails
         \/ DialSucceeds \/ DialFails \/ DialRefused
         \/ SessionLost \/ RedialSucceeds \/ RedialFails \/ RoundFails
         \/ RedialRefused
  PROVE  TypeInv'
<1>t. /\ PortTypeOK /\ SessionTypes /\ ProbeTypes
      /\ port \in Ports /\ currentPort \in Ports
      /\ kept \in Ports \cup {NoPort} /\ refused \in Ports \cup {NoPort}
      /\ left \subseteq Ports
  BY DEF TypeInv, PortTypeOK, SessionTypes, HistoryTypes
<1>p. ASSUME UNCHANGED probeVars PROVE ProbeTypes'
  BY <1>t, <1>p DEF ProbeTypes, probeVars
<1>h. ASSUME place \in {"dialing", "reconnecting"}
      PROVE  Head(order) \in Range(keepServers)
  <2>1. order \in Seq(Range(keepServers)) /\ order # << >>
    BY <1>h DEF SInv, OrderOK
  <2> QED BY <2>1
<1>r. ASSUME Refused PROVE /\ PortTypeOK' /\ kept' \in Ports \cup {NoPort}
                           /\ refused' \in Ports \cup {NoPort}
                           /\ left' \subseteq Ports
  BY <1>t, <1>r, PreferenceTypes DEF Refused
<1>f. ASSUME FailsOtherwise PROVE /\ PortTypeOK' /\ kept' \in Ports \cup {NoPort}
                                  /\ refused' \in Ports \cup {NoPort}
                                  /\ left' \subseteq Ports
  BY <1>t, <1>f, PreferenceTypes DEF FailsOtherwise
<1>w. ASSUME NEW p \in Ports, Works(p)
      PROVE  /\ PortTypeOK' /\ kept' \in Ports \cup {NoPort}
             /\ refused' \in Ports \cup {NoPort} /\ left' \subseteq Ports
  BY <1>t, <1>w, PreferenceTypes DEF Works
<1>u. ASSUME UNCHANGED <<portVars, keptVars>>
      PROVE  /\ PortTypeOK' /\ kept' \in Ports \cup {NoPort}
             /\ refused' \in Ports \cup {NoPort} /\ left' \subseteq Ports
  BY <1>t, <1>u, PreferenceTypes DEF keptVars
<1>1. CASE Attempt
  <2>1. BindPort /\ port' = currentPort'
    BY <1>1 DEF Attempt
  <2>2. PortTypeOK' /\ port' \in Ports
    BY <1>t, <2>1, PreferenceTypes DEF PortTypeOK
  <2>3. SessionTypes'
    BY <1>t, <1>1, <2>2 DEF Attempt, SessionTypes, settingVars
  <2>4. /\ ProbeTypes' /\ kept' = kept /\ refused' = refused
        /\ left' \in {left, left \cup {port}}
        /\ UNCHANGED settingVars /\ UNCHANGED askedVars
    BY <1>1, <1>p DEF Attempt
  <2> QED BY <1>t, <2>2, <2>3, <2>4, SessionMoves
<1>2. CASE Listens
  <2>1. PICK p \in Actual(port) : Works(p) /\ port' = p
    BY <1>2 DEF Listens
  <2>2. p \in Ports
    BY <1>t, <2>1, ActualIsPort
  <2>3. SessionTypes'
    BY <1>t, <1>2, <2>1, <2>2 DEF Listens, SessionTypes, settingVars
  <2>4. ProbeTypes' /\ UNCHANGED settingVars /\ UNCHANGED askedVars
    BY <1>2, <1>p DEF Listens
  <2> QED BY <1>w, <2>1, <2>2, <2>3, <2>4, SessionMoves
<1>3. CASE ListenFails
  <2>1. SessionTypes'
    BY <1>t, <1>3 DEF ListenFails, SessionTypes, settingVars
  <2>2. ProbeTypes' /\ UNCHANGED settingVars /\ UNCHANGED askedVars
    BY <1>3, <1>p DEF ListenFails
  <2>3. Refused \/ FailsOtherwise
    BY <1>3 DEF ListenFails
  <2> QED BY <1>r, <1>f, <2>1, <2>2, <2>3, SessionMoves
<1>4. CASE DialSucceeds
  <2>1. PICK p \in Actual(port) :
          /\ port' = p
          /\ IF protocol = "tcp" THEN Works(p)
                                 ELSE UNCHANGED <<portVars, keptVars>>
          /\ StartProbe(p)
    BY <1>4 DEF DialSucceeds
  <2>2. p \in Ports /\ p > 0
    BY <1>t, <2>1, ActualIsPort
  <2>3. SessionTypes'
    BY <1>t, <1>4, <1>h, <2>1, <2>2 DEF DialSucceeds, SessionTypes, settingVars
  <2>4. ProbeTypes'
    BY <1>t, <2>1, <2>2, StartProbeTypes
  <2>5. UNCHANGED settingVars /\ UNCHANGED askedVars
    BY <1>4 DEF DialSucceeds
  <2>6. Works(p) \/ UNCHANGED <<portVars, keptVars>>
    BY <2>1
  <2> QED BY <1>w, <1>u, <2>2, <2>3, <2>4, <2>5, <2>6, SessionMoves
<1>5. CASE DialFails
  <2>1. SessionTypes'
    BY <1>t, <1>5 DEF DialFails, SessionTypes, settingVars
  <2>2. ProbeTypes' /\ UNCHANGED settingVars /\ UNCHANGED askedVars
    BY <1>5, <1>p DEF DialFails
  <2>3. FailsOtherwise \/ UNCHANGED <<portVars, keptVars>>
    BY <1>5 DEF DialFails
  <2> QED BY <1>f, <1>u, <2>1, <2>2, <2>3, SessionMoves
<1>6. CASE DialRefused
  <2>1. SessionTypes'
    BY <1>t, <1>6 DEF DialRefused, SessionTypes, settingVars
  <2>2. ProbeTypes' /\ UNCHANGED settingVars /\ UNCHANGED askedVars
    BY <1>6, <1>p DEF DialRefused
  <2>3. Refused
    BY <1>6 DEF DialRefused
  <2> QED BY <1>r, <2>1, <2>2, <2>3, SessionMoves
<1>7. CASE SessionLost
  <2>1. SessionTypes'
    BY <1>t, <1>7 DEF SessionLost, SessionTypes, settingVars, MaxRounds
  <2>2. ProbeTypes'
    BY <1>t, <1>7 DEF SessionLost, CancelProbes, ProbeTypes
  <2>3. /\ UNCHANGED settingVars /\ UNCHANGED askedVars
        /\ UNCHANGED <<portVars, keptVars>>
    BY <1>7 DEF SessionLost
  <2> QED BY <1>u, <2>1, <2>2, <2>3, SessionMoves
<1>8. CASE RedialSucceeds
  <2>1. SessionTypes'
    BY <1>t, <1>8, <1>h DEF RedialSucceeds, SessionTypes, settingVars, MaxRounds
  <2>2. ProbeTypes'
    BY <1>t, <1>8, <1>p, StartProbeTypes DEF RedialSucceeds
  <2>3. /\ UNCHANGED settingVars /\ UNCHANGED askedVars
        /\ UNCHANGED <<portVars, keptVars>>
    BY <1>8 DEF RedialSucceeds
  <2> QED BY <1>u, <2>1, <2>2, <2>3, SessionMoves
<1>9. CASE RedialFails
  <2>1. SessionTypes'
    BY <1>t, <1>9 DEF RedialFails, SessionTypes, settingVars
  <2>2. /\ ProbeTypes' /\ UNCHANGED settingVars /\ UNCHANGED askedVars
        /\ UNCHANGED <<portVars, keptVars>>
    BY <1>9, <1>p DEF RedialFails
  <2> QED BY <1>u, <2>1, <2>2, SessionMoves
<1>10. CASE RoundFails
  <2>1. round' \in 0..MaxRounds
    <3>1. round \in 0..MaxRounds
      BY <1>t DEF SessionTypes
    <3>2. \/ round' = 0
          \/ round' = IF round < MaxRounds THEN round + 1 ELSE round
      BY <1>10 DEF RoundFails
    <3> QED BY <3>1, <3>2 DEF MaxRounds
  <2>2. /\ place' \in {"rebuild", place} /\ port' = port /\ current' = current
        /\ keepServers' = keepServers
    BY <1>10 DEF RoundFails, settingVars
  <2>3. SessionTypes'
    BY <1>t, <2>1, <2>2 DEF SessionTypes
  <2>4. /\ ProbeTypes' /\ UNCHANGED settingVars /\ UNCHANGED askedVars
        /\ UNCHANGED <<portVars, keptVars>>
    BY <1>10, <1>p DEF RoundFails
  <2> QED BY <1>u, <2>3, <2>4, SessionMoves
<1>11. CASE RedialRefused
  <2>1. SessionTypes'
    BY <1>t, <1>11 DEF RedialRefused, SessionTypes, settingVars, MaxRounds
  <2>2. ProbeTypes' /\ UNCHANGED settingVars /\ UNCHANGED askedVars
    BY <1>11, <1>p DEF RedialRefused
  <2>3. Refused
    BY <1>11 DEF RedialRefused
  <2> QED BY <1>r, <2>1, <2>2, <2>3, SessionMoves
<1> QED BY <1>1, <1>2, <1>3, <1>4, <1>5, <1>6, <1>7, <1>8, <1>9, <1>10, <1>11

\* The steps of the probe goroutines.
LEMMA ProbeStepTypes ==
  ASSUME SInv, TypeInv, NEW p \in Probes,
         \/ SampleBegins(p) \/ SampleAnswered(p) \/ SampleFails(p)
         \/ Blames(p) \/ ProbeEnds(p)
  PROVE  TypeInv'
<1>t. /\ PortTypeOK /\ ProbeTypes /\ currentPort \in Ports
      /\ kept \in Ports \cup {NoPort} /\ refused \in Ports \cup {NoPort}
      /\ silent \in 0..Len(stunServers)
  BY DEF TypeInv, PortTypeOK, HistoryTypes
<1>l. Len(stunServers) \in Nat
  BY ListedFacts DEF SInv, ListsInOrder
<1>u. ASSUME UNCHANGED <<portVars, keptVars>>
      PROVE  /\ PortTypeOK' /\ kept' \in Ports \cup {NoPort}
             /\ refused' \in Ports \cup {NoPort} /\ left' = left
  BY <1>t, <1>u, PreferenceTypes DEF keptVars
<1>g. ASSUME NEW from, NEW to \in {"ready", "asking", "blaming"},
             GoesTo(p, from, to), UNCHANGED <<cancelled, probePort>>
      PROVE  ProbeTypes'
  BY <1>t, <1>g DEF ProbeTypes, GoesTo
<1>e. ASSUME Returns(p) PROVE ProbeTypes'
  BY <1>t, <1>e DEF ProbeTypes, Returns
<1>1. CASE SampleBegins(p)
  <2>1. silent' \in 0..Len(stunServers)
    BY <1>t, <1>l, <1>1 DEF SampleBegins
  <2>2. ProbeTypes'
    BY <1>1, <1>g DEF SampleBegins
  <2>3. UNCHANGED <<portVars, keptVars>> /\ ProbeUnchanged
    BY <1>1 DEF SampleBegins
  <2> QED BY <1>u, <2>1, <2>2, <2>3, ProbeTypesKept
<1>2. CASE SampleAnswered(p)
  <2>1. silent' \in 0..Len(stunServers)
    BY <1>l, <1>2 DEF SampleAnswered
  <2>2. ProbeTypes'
    BY <1>2, <1>g, <1>e DEF SampleAnswered
  <2>3. UNCHANGED <<portVars, keptVars>> /\ ProbeUnchanged
    BY <1>2 DEF SampleAnswered
  <2> QED BY <1>u, <2>1, <2>2, <2>3, ProbeTypesKept
<1>3. CASE SampleFails(p)
  <2>1. ProbeTypes'
    BY <1>3, <1>g DEF SampleFails
  <2>2. /\ UNCHANGED <<portVars, keptVars>> /\ ProbeUnchanged
        /\ silent' = silent
    BY <1>3 DEF SampleFails, askedVars
  <2> QED BY <1>t, <1>u, <2>1, <2>2, ProbeTypesKept
<1>4. CASE Blames(p)
  <2>1. ProbeTypes'
    BY <1>4, <1>g DEF Blames
  <2>2. PortTypeOK'
    BY <1>t, <1>4, PreferenceTypes DEF Blames
  <2>3. /\ kept' \in Ports \cup {NoPort} /\ refused' \in Ports \cup {NoPort}
        /\ left' = left /\ silent' = silent /\ ProbeUnchanged
    BY <1>t, <1>4 DEF Blames, askedVars
  <2> QED BY <1>t, <2>1, <2>2, <2>3, ProbeTypesKept
<1>5. CASE ProbeEnds(p)
  <2>1. ProbeTypes'
    BY <1>5, <1>e DEF ProbeEnds
  <2>2. /\ UNCHANGED <<portVars, keptVars>> /\ ProbeUnchanged
        /\ silent' = silent
    BY <1>5 DEF ProbeEnds, askedVars
  <2> QED BY <1>t, <1>u, <2>1, <2>2, ProbeTypesKept
<1> QED BY <1>1, <1>2, <1>3, <1>4, <1>5

LEMMA TypeInvStep == SInv /\ TypeInv /\ [Next]_vars => TypeInv'
<1> SUFFICES ASSUME SInv, TypeInv, [Next]_vars PROVE TypeInv'
  OBVIOUS
<1>1. CASE UNCHANGED vars
  <2>1. PortTypeOK'
    BY <1>1, PreferenceTypes DEF vars, TypeInv
  <2>2. SessionTypes' /\ ProbeTypes' /\ HistoryTypes'
    BY <1>1 DEF vars, TypeInv, SessionTypes, ProbeTypes, HistoryTypes,
                settingVars, sessionVars, probeVars, keptVars, askedVars
  <2> QED BY <2>1, <2>2 DEF TypeInv
<1> QED BY <1>1, SessionStepTypes, ProbeStepTypes DEF Next

\* Nobody mistakes a server for the mark of none.
NoServerApart == NoServer \notin Range(keepServers)

LEMMA InitNoServerApart == Init => NoServerApart
BY NoServerAssumption DEF Init, NoServerApart

LEMMA NoServerStays == NoServerApart /\ [Next]_vars => NoServerApart'
<1> SUFFICES ASSUME NoServerApart, [Next]_vars PROVE NoServerApart'
  OBVIOUS
<1>1. keepServers' = keepServers
  BY DEF Next, Attempt, Listens, ListenFails, DialSucceeds, DialFails,
         DialRefused, SessionLost, RedialSucceeds, RedialFails, RoundFails,
         RedialRefused, SampleBegins, SampleAnswered, SampleFails, Blames,
         ProbeEnds, ProbeUnchanged, settingVars, vars
<1> QED BY <1>1 DEF NoServerApart

\* The port picker stays inside its range, a session that is open has a port
\* and a server, the lists of servers are in order, and every server that is
\* dialled or asked comes from them.
THEOREM TypeCorrect ==
  Spec => []TypeOK
<1>1. SInv /\ BatchesOK /\ CInv /\ TypeInv /\ NoServerApart => TypeOK
  <2> SUFFICES ASSUME SInv, BatchesOK, CInv, TypeInv, NoServerApart
               PROVE  TypeOK
    OBVIOUS
  <2>1. ListsInOrder /\ serverCursor \in [Kinds -> Nat]
    BY DEF SInv, CursorsOK
  <2>2. order \in Seq(Range(keepServers))
    BY DEF SInv, OrderOK
  <2>3. Range(order) \subseteq Range(keepServers)
    BY <2>2 DEF Range
  <2>4. /\ place \in {"dialing", "reconnecting"} => order # << >>
        /\ place \in {"open", "reconnecting"} => current # NoServer
    BY DEF SInv, OrderOK, NoServerApart
  <2>5. gaveUp \in Range(keepServers) \cup {NoServer}
    BY DEF SInv, GaveUpIsPast
  <2> QED BY <2>1, <2>3, <2>4, <2>5
          DEF TypeInv, SessionTypes, ProbeTypes, HistoryTypes, BatchesOK, CInv,
              TypeOK
<1> QED BY <1>1, InitSInv, InitCInv, InitTypeInv, InitNoServerApart,
           SInvStep, CInvStep, TypeInvStep, NoServerStays, PTL DEF Spec
=============================================================================
