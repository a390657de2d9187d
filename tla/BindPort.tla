------------------------------ MODULE BindPort -----------------------------
(***************************************************************************)
(* The local port of a runner.  The instance names a port, a range to go   *)
(* through in turn (a-b) or a range to draw from (a~b); port 0 leaves the  *)
(* choice to the operating system.  The runner stays with a port that      *)
(* works and takes another one after the system has refused it.            *)
(***************************************************************************)
EXTENDS Integers

CONSTANT MaxPort    \* 65535

ASSUME MaxPortAssumption == MaxPort \in Nat \ {0}

VARIABLES
  picker,       \* r.picker: what newPortPicker made of the text
  hasPort, currentPort, failedPort, advancePort

portVars == <<picker, hasPort, currentPort, failedPort, advancePort>>

Ports == 0..MaxPort
Picker == [start : Ports, end : Ports, randomized : BOOLEAN, next : Ports]

\* The texts newPortPicker accepts, as ranges; a single port is a range of one.
ValidSpec(spec) ==
  /\ spec.start \in Ports /\ spec.end \in Ports /\ spec.start <= spec.end

NewPortPicker(spec) ==
  [start |-> spec.start, end |-> spec.end, randomized |-> spec.randomized,
   next |-> spec.start]

PortTypeOK ==
  /\ picker \in Picker
  /\ picker.start <= picker.end /\ picker.next \in picker.start..picker.end
  /\ hasPort \in BOOLEAN /\ advancePort \in BOOLEAN
  /\ currentPort \in Ports /\ failedPort \in Ports \cup {-1}

PortInit(spec) ==
  /\ ValidSpec(spec) /\ picker = NewPortPicker(spec)
  /\ hasPort = FALSE /\ currentPort = 0
  /\ failedPort = -1 /\ advancePort = FALSE

-----------------------------------------------------------------------------
\* Variant: the end of the range is not looked at.
AfterUnchecked(next) == IF next >= MaxPort THEN picker.start ELSE next + 1

\* Variant: the last port of a range is never handed out.
AfterButLast(next) == IF next + 1 >= picker.end THEN picker.start ELSE next + 1

After(next) == IF next + 1 > picker.end THEN picker.start ELSE next + 1

\* Variant: the refused port may be drawn again.
NextOfAll(except) ==
  IF picker.randomized
  THEN {[port |-> q, next |-> picker.next] : q \in picker.start..picker.end}
  ELSE {[port |-> picker.next, next |-> After(picker.next)]}

\* The ports NextExcept may return, each with the place the picker moves to.
NextExcept(except) ==
  IF picker.start = picker.end
  THEN {[port |-> picker.start, next |-> picker.next]}
  ELSE IF picker.randomized
  THEN {[port |-> q, next |-> picker.next] :
          q \in (picker.start..picker.end) \ {except}}
  ELSE LET port == IF picker.next = except THEN After(picker.next)
                                           ELSE picker.next
       IN  {[port |-> port, next |-> After(port)]}

BindPort ==
  IF ~hasPort \/ advancePort
  THEN /\ \E choice \in NextExcept(failedPort) :
            /\ currentPort' = choice.port
            /\ picker' = [picker EXCEPT !.next = choice.next]
       /\ failedPort' = -1 /\ hasPort' = TRUE /\ advancePort' = FALSE
  ELSE UNCHANGED portVars

AdvanceBindPort ==
  /\ failedPort' = currentPort /\ advancePort' = TRUE
  /\ UNCHANGED <<picker, currentPort, hasPort>>

\* Variant: a refusal reported before the port was taken still counts.
KeepPortOnly(actualPort) ==
  /\ currentPort' = actualPort
  /\ failedPort' = -1 /\ hasPort' = TRUE
  /\ UNCHANGED <<picker, advancePort>>

\* A socket that is open has a port above 0.
KeepBindPort(actualPort) ==
  /\ currentPort' = actualPort
  /\ failedPort' = -1 /\ hasPort' = TRUE /\ advancePort' = FALSE
  /\ UNCHANGED picker
=============================================================================
