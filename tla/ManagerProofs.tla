--------------------------- MODULE ManagerProofs ---------------------------
(***************************************************************************)
(* Theorems about Manager, for any number of runners, probes, threads,     *)
(* mappings and configurations.                                            *)
(***************************************************************************)
EXTENDS Manager, TLAPS

\* The empty mapping is a mapping, without a public address.
LEMMA NoMappingTypes == NoMapping \in Mapping /\ NoMapping.public = NoPublic
BY DEF NoMapping, Mapping

\* A merged mapping is a mapping.
LEMMA MergeTypes ==
  ASSUME status.mapping \in Mapping, NEW u, u.mapping \in Mapping
  PROVE  MergedMapping(u) \in Mapping
BY DEF MergedMapping, Given, Mapping

\* What every merge of a report preserves (Manager.report).
LEMMA ReportTypes ==
  ASSUME RuntimeTypeOK, NEW u, u.state \in States \cup {""},
         u.keepAlive \in KeepAliveStates, u.mapping \in Mapping, Report(u)
  PROVE  RuntimeTypeOK'
<1>1. MergedMapping(u) \in Mapping
  BY MergeTypes DEF RuntimeTypeOK, RuntimeStatus
<1>2. Merged(u).mapping = MergedMapping(u)
  BY DEF Merged
<1>3. Merged(u) \in RuntimeStatus
  BY <1>1 DEF RuntimeTypeOK, RuntimeStatus, Merged, MergedState,
              MergedKeepAlive, States, KeepAliveStates
<1> QED BY <1>1, <1>2, <1>3 DEF RuntimeTypeOK, Report, SaveRuntimeStatus

\* The partial updates the runner reports are records of that shape.
LEMMA UpdateTypes ==
  /\ \A s \in States : /\ StateUpdate(s).state = s
                       /\ StateUpdate(s).keepAlive = ""
                       /\ StateUpdate(s).mapping \in Mapping
  /\ \A k \in KeepAliveStates : /\ KeepAliveUpdate(k).state = ""
                                /\ KeepAliveUpdate(k).keepAlive = k
                                /\ KeepAliveUpdate(k).mapping \in Mapping
  /\ \A q \in Protocols : /\ FreshStart(q).state = "starting"
                          /\ FreshStart(q).keepAlive = ""
                          /\ FreshStart(q).mapping \in Mapping
  /\ \A e \in Privates : /\ BoundOn(e).state = "starting"
                         /\ BoundOn(e).keepAlive = ""
                         /\ BoundOn(e).mapping \in Mapping
  /\ \A m \in Mapping : /\ Published(m).state = "running"
                        /\ Published(m).keepAlive = ""
                        /\ Published(m).mapping \in Mapping
BY DEF StateUpdate, KeepAliveUpdate, FreshStart, BoundOn, Published, NoUpdate,
       NoMapping, Mapping

\* setStatusLocked keeps a status a status.
LEMMA SetStatusTypes ==
  ASSUME status \in RuntimeStatus, NEW s \in States, SetStatus(s)
  PROVE  status' \in RuntimeStatus
BY DEF SetStatus, RuntimeStatus, KeepAliveStates

-----------------------------------------------------------------------------
\* A step of a runner's goroutine: it was live, only its own place changes,
\* and the types are kept.
LEMMA RunnerStepMoves ==
  ASSUME RuntimeTypeOK, RunnerTypeOK, NEW r \in Runners, RunnerStep(r),
         Live(r) => runCfg[r] \in Config
  PROVE  /\ Live(r)
         /\ run'[r] \in Working \cup {"done"}
         /\ run' = [run EXCEPT ![r] = run'[r]]
         /\ runCfg' = runCfg
         /\ RuntimeTypeOK' /\ RunnerTypeOK'
<1> USE DEF Goto, Live, Working
<1> DEFINE Moves == /\ run[r] \in Working
                    /\ run'[r] \in Working \cup {"done"}
                    /\ run' = [run EXCEPT ![r] = run'[r]]
                    /\ run' \in [Runners -> RunStates]
<1>e. ASSUME NEW u, Emit(u), u.state \in States \cup {""},
             u.keepAlive \in KeepAliveStates, u.mapping \in Mapping,
             Moves
      PROVE  runCfg' = runCfg /\ RuntimeTypeOK' /\ RunnerTypeOK'
  <2>1. RuntimeTypeOK'
    BY <1>e, ReportTypes DEF Emit
  <2>2. RunnerTypeOK'
    BY <1>e DEF Emit, RunnerTypeOK, probeVars
  <2> QED BY <1>e, <2>1, <2>2 DEF Emit
<1>q. ASSUME Quietly, Moves
      PROVE  runCfg' = runCfg /\ RuntimeTypeOK' /\ RunnerTypeOK'
  BY <1>q DEF Quietly, RunnerTypeOK, RuntimeTypeOK, probeVars, runtimeVars
<1>g. ASSUME NEW from \in Working, NEW to \in Working \cup {"done"},
             Goto(r, from, to)
      PROVE  Moves
  BY <1>g DEF RunnerTypeOK, RunStates
<1>p. ASSUME NEW from \in Privates \cup {NoPrivate}, run[r] \in Working,
             StartProbe(r, from)
      PROVE  /\ probe' \in [Probes -> ProbeStates]
             /\ probeRunner' \in [Probes -> Runners \cup {NoRunner}]
             /\ probeStop' \in [Probes -> BOOLEAN]
             /\ probeOf' \in [Runners -> Probes \cup {NoProbe}]
             /\ probeMap' \in [Probes -> Mapping]
  <2> DEFINE m == [public |-> NoPublic, private |-> from,
                   protocol |-> runCfg[r].protocol]
  <2>1. m \in Mapping
    BY <1>p DEF Config, Mapping
  <2>2. PICK p \in Probes :
          /\ probe' = [probe EXCEPT ![p] = "probing"]
          /\ probeRunner' = [probeRunner EXCEPT ![p] = r]
          /\ probeStop' = [probeStop EXCEPT ![p] = FALSE]
          /\ probeOf' = [probeOf EXCEPT ![r] = p]
          /\ probeMap' = [probeMap EXCEPT ![p] = m]
    BY <1>p DEF StartProbe
  <2> HIDE DEF m
  <2> QED BY <2>1, <2>2 DEF RunnerTypeOK, ProbeStates
<1>c. ASSUME CancelProbe(r)
      PROVE  /\ probe' = probe /\ probeRunner' = probeRunner
             /\ probeStop' \in [Probes -> BOOLEAN]
             /\ probeOf' \in [Runners -> Probes \cup {NoProbe}]
             /\ probeMap' = probeMap
  BY <1>c DEF CancelProbe, RunnerTypeOK
<1> HIDE DEF Moves, Goto
<1> SUFFICES Moves /\ runCfg' = runCfg /\ RuntimeTypeOK' /\ RunnerTypeOK'
  BY DEF Moves
<1>1. CASE Begin(r)
  <2>1. Moves BY <1>1, <1>g DEF Begin
  <2> QED BY <1>1, <2>1 DEF Begin, Moves, RunnerTypeOK, RuntimeTypeOK,
                            probeVars, runtimeVars
<1>2. CASE ReportStarting(r)
  <2>1. Moves BY <1>2, <1>g DEF ReportStarting
  <2>2. runCfg[r].protocol \in Protocols
    BY <2>1 DEF Moves, Config
  <2> QED BY <1>2, <1>e, <2>1, <2>2, UpdateTypes
          DEF ReportStarting, States, KeepAliveStates
<1>3. CASE LoopTop(r)
  BY <1>3, <1>g, <1>q DEF LoopTop
<1>4. CASE Connect(r)
  BY <1>4, <1>g, <1>e, UpdateTypes DEF Connect, States, KeepAliveStates
<1>5. CASE ConnectFailed(r)
  BY <1>5, <1>g, <1>q DEF ConnectFailed
<1>6. CASE Bound(r)
  <2>1. Moves BY <1>6, <1>g DEF Bound
  <2>2. PICK from \in Privates :
          /\ private' = [private EXCEPT ![r] = from]
          /\ Report(BoundOn(from)) /\ StartProbe(r, from)
    BY <1>6 DEF Bound
  <2>3. RuntimeTypeOK'
    BY <2>2, ReportTypes, UpdateTypes DEF States, KeepAliveStates
  <2>4. /\ probe' \in [Probes -> ProbeStates]
        /\ probeRunner' \in [Probes -> Runners \cup {NoRunner}]
        /\ probeStop' \in [Probes -> BOOLEAN]
        /\ probeOf' \in [Runners -> Probes \cup {NoProbe}]
        /\ probeMap' \in [Probes -> Mapping]
    BY <1>p, <2>1, <2>2 DEF Moves
  <2> QED BY <1>6, <2>1, <2>2, <2>3, <2>4 DEF Bound, Moves, RunnerTypeOK
<1>7. CASE StoppedBeforeBound(r)
  BY <1>7, <1>g, <1>q DEF StoppedBeforeBound
<1>8. CASE SendKeepAlive(r)
  BY <1>8, <1>g, <1>q DEF SendKeepAlive
<1>9. CASE Answered(r)
  BY <1>9, <1>g, <1>e, UpdateTypes DEF Answered, States, KeepAliveStates
<1>10. CASE SessionLost(r)
  <2>1. Moves BY <1>10, <1>g DEF SessionLost
  <2> QED BY <1>10, <1>c, <2>1 DEF SessionLost, Moves, RunnerTypeOK,
                                   RuntimeTypeOK, runtimeVars
<1>11. CASE SessionStopped(r)
  <2>1. Moves BY <1>11, <1>g DEF SessionStopped
  <2>2. RuntimeTypeOK'
    BY <1>11, ReportTypes, UpdateTypes
       DEF SessionStopped, States, KeepAliveStates
  <2> QED BY <1>11, <1>c, <2>1, <2>2 DEF SessionStopped, Moves, RunnerTypeOK
<1>12. CASE ReportLost(r)
  BY <1>12, <1>g, <1>e, UpdateTypes DEF ReportLost, States, KeepAliveStates
<1>13. CASE RedialTop(r)
  BY <1>13, <1>g, <1>q DEF RedialTop
<1>14. CASE ReportRedial(r)
  BY <1>14, <1>g, <1>e, UpdateTypes DEF ReportRedial, States, KeepAliveStates
<1>15. CASE RedialOutcome(r)
  <2>1. CASE Goto(r, "redialing", "reconnected") /\ Emit(StateUpdate("running"))
    BY <2>1, <1>g, <1>e, UpdateTypes DEF States, KeepAliveStates
  <2>2. CASE Goto(r, "redialing", "exit") /\ Quietly
    BY <2>2, <1>g, <1>q
  <2>3. CASE Goto(r, "redialing", "reconnecting") /\ Emit(StateUpdate("starting"))
    BY <2>3, <1>g, <1>e, UpdateTypes DEF States, KeepAliveStates
  <2>4. CASE Goto(r, "redialing", "rebuild") /\ Quietly
    BY <2>4, <1>g, <1>q
  <2>5. CASE Goto(r, "redialing", "portGone") /\ Emit(StateUpdate("starting"))
    BY <2>5, <1>g, <1>e, UpdateTypes DEF States, KeepAliveStates
  <2> QED BY <1>15, <2>1, <2>2, <2>3, <2>4, <2>5 DEF RedialOutcome
<1>16. CASE PortGone(r)
  BY <1>16, <1>g, <1>q DEF PortGone
<1>17. CASE ReportReconnected(r)
  BY <1>17, <1>g, <1>e, UpdateTypes DEF ReportReconnected, States, KeepAliveStates
<1>18. CASE Resume(r)
  <2>1. Moves BY <1>18, <1>g DEF Resume
  <2>2. /\ probe' \in [Probes -> ProbeStates]
        /\ probeRunner' \in [Probes -> Runners \cup {NoRunner}]
        /\ probeStop' \in [Probes -> BOOLEAN]
        /\ probeOf' \in [Runners -> Probes \cup {NoProbe}]
        /\ probeMap' \in [Probes -> Mapping]
    <3>1. CASE StartProbe(r, private[r])
      BY <1>p, <2>1, <3>1 DEF Moves, RunnerTypeOK
    <3>2. CASE ~StartProbe(r, private[r])
      BY <1>18, <3>2 DEF Resume, RunnerTypeOK, probeVars
    <3> QED BY <3>1, <3>2
  <2> QED BY <1>18, <2>1, <2>2 DEF Resume, Moves, RunnerTypeOK, RuntimeTypeOK,
                                   runtimeVars
<1>19. CASE ReportRebuild(r)
  BY <1>19, <1>g, <1>e, UpdateTypes DEF ReportRebuild, States, KeepAliveStates
<1>20. CASE ReportError(r)
  BY <1>20, <1>g, <1>e, UpdateTypes DEF ReportError, States, KeepAliveStates
<1>21. CASE PauseOver(r)
  BY <1>21, <1>g, <1>q DEF PauseOver
<1>22. CASE RetryNow(r)
  BY <1>22, <1>g, <1>e, UpdateTypes DEF RetryNow, States, KeepAliveStates
<1>23. CASE ReportStopped(r)
  BY <1>23, <1>g, <1>e, UpdateTypes DEF ReportStopped, States, KeepAliveStates
<1>24. CASE Close(r)
  <2>1. Moves BY <1>24, <1>g DEF Close
  <2> QED BY <1>24, <2>1 DEF Close, Moves, RunnerTypeOK, RuntimeTypeOK,
                             probeVars, runtimeVars
<1> QED
  BY <1>1, <1>2, <1>3, <1>4, <1>5, <1>6, <1>7, <1>8, <1>9, <1>10, <1>11,
     <1>12, <1>13, <1>14, <1>15, <1>16, <1>17, <1>18, <1>19, <1>20, <1>21,
     <1>22, <1>23, <1>24 DEF RunnerStep

-----------------------------------------------------------------------------
\* A step of a probe goroutine moves no runner and keeps the types.
LEMMA ProbeStepTypes ==
  ASSUME RuntimeTypeOK, RunnerTypeOK, NEW p \in Probes, ProbeStep(p)
  PROVE  run' = run /\ runCfg' = runCfg /\ RuntimeTypeOK' /\ RunnerTypeOK'
<1>e. ASSUME ProbeEnds(p)
      PROVE  /\ probe' \in [Probes -> ProbeStates]
             /\ probeRunner' \in [Probes -> Runners \cup {NoRunner}]
             /\ probeStop' \in [Probes -> BOOLEAN]
             /\ probeMap' \in [Probes -> Mapping]
  BY <1>e, NoMappingTypes DEF ProbeEnds, RunnerTypeOK, ProbeStates
<1>1. CASE ProbeGivesUp(p)
  BY <1>1, <1>e DEF ProbeGivesUp, RunnerTypeOK, RuntimeTypeOK, runVars,
                    runtimeVars
<1>2. CASE ProbeConfirms(p)
  <2>1. PICK m \in Publics : probeMap' = [probeMap EXCEPT ![p].public = m]
    BY <1>2 DEF ProbeConfirms
  <2>2. [probeMap[p] EXCEPT !.public = m] \in Mapping
    <3>1. probeMap[p] \in Mapping
      BY DEF RunnerTypeOK
    <3> QED BY <3>1 DEF Mapping
  <2>3. probeMap' \in [Probes -> Mapping]
    BY <2>1, <2>2 DEF RunnerTypeOK
  <2> QED BY <1>2, <2>3 DEF ProbeConfirms, RunnerTypeOK, RuntimeTypeOK, runVars,
                            runtimeVars, ProbeStates
<1>3. CASE UpdateMapping(p)
  BY <1>3 DEF UpdateMapping, RunnerTypeOK, RuntimeTypeOK, runtimeVars, ProbeStates
<1>4. CASE Publish(p)
  <2>1. probeMap[p] \in Mapping
    BY DEF RunnerTypeOK
  <2>2. RuntimeTypeOK'
    BY <1>4, <2>1, ReportTypes, UpdateTypes DEF Publish, States, KeepAliveStates
  <2> QED BY <1>4, <1>e, <2>2 DEF Publish, RunnerTypeOK, runVars
<1> QED BY <1>1, <1>2, <1>3, <1>4 DEF ProbeStep

\* Launch fills one unused cell, and only when no runner is registered.
LEMMA LaunchFills ==
  ASSUME TypeOK, NEW cfg \in Config, Launch(cfg)
  PROVE  /\ registered = NoRunner
         /\ registered' \in Runners
         /\ run' = [run EXCEPT ![registered'] = "spawned"]
         /\ \A t \in Threads : call[t].target # registered'
         /\ runCfg' \in [Runners -> Config \cup {NoItem}]
         /\ runCfg' = [runCfg EXCEPT ![registered'] = cfg]
         /\ run' \in [Runners -> RunStates]
         /\ cancelSet' \in [Runners -> BOOLEAN]
         /\ cancelled' \in [Runners -> BOOLEAN]
         /\ lastMap' \in [Runners -> Mapping]
         /\ private' \in [Runners -> Privates \cup {NoPrivate}]
         /\ probeOf' \in [Runners -> Probes \cup {NoProbe}]
         /\ status' \in RuntimeStatus /\ status'.state = "starting"
<1>1. status' \in RuntimeStatus
  BY SetStatusTypes DEF Launch, States, TypeOK, RuntimeTypeOK
<1>2. status'.state = "starting"
  BY DEF Launch, SetStatus, TypeOK, RuntimeTypeOK, RuntimeStatus
<1>3. Seed(cfg) \in Mapping
  <2>1. status.mapping \in Mapping /\ persisted \in Mapping
    BY DEF TypeOK, RuntimeTypeOK, RuntimeStatus
  <2>2. \A m \in Mapping :
          [m EXCEPT !.protocol = Given(@, "", cfg.protocol)] \in Mapping
    BY DEF Mapping, Given, Config
  <2> QED BY <2>1, <2>2, NoMappingTypes DEF Seed
<1> QED BY <1>1, <1>2, <1>3 DEF Launch, Unused, TypeOK, RunnerTypeOK, RunStates,
                                Working

\* Proceed keeps the threads' places and locals well typed.
LEMMA ProceedTypes ==
  ASSUME TypeOK, NEW t \in Threads, NEW to \in ThreadStates, NEW c \in Calls,
         Proceed(t, to, c)
  PROVE  pc' \in [Threads -> ThreadStates] /\ call' \in [Threads -> Calls]
<1>1. NoCall \in Calls
  BY DEF NoCall, Calls, Continuations
<1> QED BY <1>1 DEF Proceed, TypeOK

\* The locals a request begins with are well typed.
LEMMA NoCallTypes ==
  /\ NoCall \in Calls
  /\ \A c \in Config : [NoCall EXCEPT !.cfg = c] \in Calls
  /\ \A b \in BOOLEAN : [NoCall EXCEPT !.wasRunning = b] \in Calls
  /\ [NoCall EXCEPT !.then = "delete"] \in Calls
BY DEF NoCall, Calls, Continuations

\* The locals change within their types, and a call never keeps a target it
\* has let go of.
LEMMA CallTypes ==
  ASSUME NEW c \in Calls
  PROVE  /\ \A r \in Runners \cup {NoRunner} : [c EXCEPT !.target = r] \in Calls
         /\ \A g \in Config \cup {NoItem} : [c EXCEPT !.cfg = g] \in Calls
         /\ c.then # "restart" =>
              AfterStop(c) \in ThreadStates \ {"drop", "stop", "startLocked"}
BY DEF Calls, AfterStop, Continuations, ThreadStates

\* ReplaceConfig leads to one of its own first steps.
LEMMA ReplaceTypes ==
  ASSUME TypeOK, NEW t \in Threads, NEW old, NEW new, NEW b \in BOOLEAN,
         Replace(t, old, new, b)
  PROVE  /\ pc' \in [Threads -> ThreadStates] /\ call' \in [Threads -> Calls]
         /\ pc'[t] \notin {"drop", "startLocked"} /\ call'[t].target = NoRunner
         /\ pc'[t] = "stop" => call'[t].then # "restart"
         /\ \A x \in Threads \ {t} : pc'[x] = pc[x] /\ call'[x] = call[x]
<1> DEFINE changed == PublicMappingConfigChanged(old, new)
           c == [NoCall EXCEPT !.changed = changed]
<1>1. changed \in BOOLEAN
  BY DEF PublicMappingConfigChanged
<1>2. /\ c \in Calls /\ c.target = NoRunner
      /\ \A s \in Continuations : /\ [c EXCEPT !.then = s] \in Calls
                                  /\ [c EXCEPT !.then = s].target = NoRunner
                                  /\ [c EXCEPT !.then = s].then = s
  BY <1>1 DEF NoCall, Calls, Continuations
<1>3. NoCall \in Calls /\ NoCall.target = NoRunner
  BY DEF NoCall, Calls, Continuations
<1>4. PICK to \in ThreadStates \ {"drop", "startLocked"}, d \in Calls :
        /\ d.target = NoRunner /\ (to = "stop" => d.then # "restart")
        /\ Proceed(t, to, d)
  <2> HIDE DEF c
  <2>1. CASE ~new.enabled /\ b
    <3>1. PICK s \in Continuations \ {"restart"} :
            Proceed(t, "stop", [c EXCEPT !.then = s])
      <4>1. CASE changed
        <5>1. Proceed(t, "stop", [c EXCEPT !.then = "clear"])
          BY <2>1, <4>1 DEF Replace, c
        <5> QED BY <5>1 DEF Continuations
      <4>2. CASE ~changed
        <5>1. Proceed(t, "stop", [c EXCEPT !.then = "return"])
          BY <2>1, <4>2 DEF Replace, c
        <5> QED BY <5>1 DEF Continuations
      <4> QED BY <4>1, <4>2
    <3> QED BY <3>1, <1>2 DEF ThreadStates, Continuations
  <2>2. CASE ~new.enabled /\ ~b
    BY <2>2, <1>3 DEF Replace, ThreadStates
  <2>3. CASE new.enabled
    <3> DEFINE to == IF b THEN "replace" ELSE IF changed THEN "clear" ELSE "start"
    <3>1. Proceed(t, to, [c EXCEPT !.then = "restart"])
      BY <2>3 DEF Replace, c
    <3>2. to \in {"replace", "clear", "start"}
      OBVIOUS
    <3> HIDE DEF to
    <3> QED BY <3>1, <3>2, <1>2 DEF ThreadStates, Continuations
  <2> QED BY <2>1, <2>2, <2>3
<1>5. /\ pc \in [Threads -> ThreadStates] /\ call \in [Threads -> Calls]
      /\ pc' = [pc EXCEPT ![t] = to]
      /\ \/ to = "idle" /\ call' = [call EXCEPT ![t] = NoCall]
         \/ call' = [call EXCEPT ![t] = d]
  BY <1>4 DEF Proceed, TypeOK
<1> HIDE DEF c
<1> QED BY <1>3, <1>4, <1>5

-----------------------------------------------------------------------------
\* Only callers that return, delete or clear afterwards go through Stop.
StopIsNotRestart ==
  \A t \in Threads : pc[t] = "stop" => call[t].then # "restart"

\* The runner a thread is about to drop has ended; its cell is not reused
\* while the thread refers to it.
DroppedHasEnded ==
  \A t \in Threads, r \in Runners :
    pc[t] = "drop" /\ call[t].target = r => ~Live(r)

\* A runner at work has a configuration, and Start is about to give it one.
WorkIsConfigured ==
  /\ \A r \in Runners : Live(r) => runCfg[r] \in Config
  /\ \A t \in Threads : pc[t] = "startLocked" => call[t].cfg \in Config

\* The inductive invariant behind "at most one worker".
IInv ==
  /\ TypeOK /\ StopIsNotRestart /\ DroppedHasEnded /\ LiveRunnerIsRegistered
  /\ WorkIsConfigured

\* It holds when the process has just been started.
LEMMA InitIInv == Init => IInv
<1> SUFFICES ASSUME Init PROVE IInv
  OBVIOUS
<1>1. RuntimeTypeOK
  <2>1. FreshStatus \in RuntimeStatus
    BY NoMappingTypes DEF FreshStatus, RuntimeStatus, States, KeepAliveStates
  <2>2. Whole \subseteq Mapping
    BY DEF Whole, Mapping
  <2> QED BY <2>1, <2>2, NoMappingTypes DEF Init, RuntimeTypeOK
<1>2. RunnerTypeOK
  BY NoMappingTypes DEF Init, RunnerInit, RunnerTypeOK, RunStates, ProbeStates
<1>3. TypeOK
  BY <1>1, <1>2, NoCallTypes DEF Init, TypeOK, ThreadStates
<1>4. /\ StopIsNotRestart /\ DroppedHasEnded /\ LiveRunnerIsRegistered
      /\ WorkIsConfigured
  BY DEF Init, RunnerInit, StopIsNotRestart, DroppedHasEnded,
         LiveRunnerIsRegistered, WorkIsConfigured, Live, Working
<1> QED BY <1>3, <1>4 DEF IInv

\* A thread that moves on without letting go of a runner's registration.
LEMMA ThreadMoves ==
  ASSUME IInv, NEW t \in Threads, NEW to \in ThreadStates \ {"drop"},
         NEW c \in Calls, to = "stop" => c.then # "restart",
         to = "startLocked" => c.cfg \in Config,
         Proceed(t, to, c), UNCHANGED <<run, runCfg, registered>>
  PROVE  /\ pc' \in [Threads -> ThreadStates] /\ call' \in [Threads -> Calls]
         /\ StopIsNotRestart' /\ DroppedHasEnded' /\ LiveRunnerIsRegistered'
         /\ WorkIsConfigured'
<1>1. pc' \in [Threads -> ThreadStates] /\ call' \in [Threads -> Calls]
  BY ProceedTypes DEF IInv
<1>2. /\ pc' = [pc EXCEPT ![t] = to] /\ pc \in [Threads -> ThreadStates]
      /\ call \in [Threads -> Calls]
      /\ \/ to = "idle" /\ call' = [call EXCEPT ![t] = NoCall]
         \/ call' = [call EXCEPT ![t] = c]
  BY DEF Proceed, IInv, TypeOK
<1>3. StopIsNotRestart' /\ DroppedHasEnded'
  BY <1>2 DEF IInv, StopIsNotRestart, DroppedHasEnded, Live
<1>4. WorkIsConfigured'
  BY <1>2 DEF IInv, WorkIsConfigured, Live
<1> QED BY <1>1, <1>3, <1>4 DEF IInv, LiveRunnerIsRegistered, Live

\* Starting a runner: none was live, the new one is the registered one.
LEMMA LaunchKeeps ==
  ASSUME IInv, NEW cfg \in Config, Launch(cfg)
  PROVE  /\ LiveRunnerIsRegistered'
         /\ \A r \in Runners : Live(r)' => runCfg'[r] \in Config
         /\ \A t \in Threads, r \in Runners :
              pc[t] = "drop" /\ call[t].target = r => ~Live(r)'
<1>1. TypeOK BY DEF IInv
<1>2. \A r \in Runners : ~Live(r)
  BY <1>1, LaunchFills, NoRunnerAssumption DEF IInv, LiveRunnerIsRegistered
<1>3. \A r \in Runners : Live(r)' => r = registered'
  BY <1>1, <1>2, LaunchFills DEF Live, TypeOK, RunnerTypeOK
<1>4. runCfg'[registered'] = cfg
  BY <1>1, LaunchFills DEF TypeOK, RunnerTypeOK
<1> QED BY <1>1, <1>3, <1>4, LaunchFills DEF LiveRunnerIsRegistered

\* A launch keeps every variable it touches within its type.
LEMMA LaunchTypes ==
  ASSUME TypeOK, NEW cfg \in Config, Launch(cfg),
         UNCHANGED <<probeVars, persisted>>
  PROVE  RuntimeTypeOK' /\ RunnerTypeOK' /\ registered' \in Runners
BY LaunchFills DEF TypeOK, RuntimeTypeOK, RunnerTypeOK, probeVars

\* A thread that replaces a configuration moves like any other.
LEMMA ReplaceMoves ==
  ASSUME IInv, NEW t \in Threads, NEW old, NEW new, NEW b \in BOOLEAN,
         Replace(t, old, new, b), UNCHANGED <<run, runCfg, registered>>
  PROVE  /\ pc' \in [Threads -> ThreadStates] /\ call' \in [Threads -> Calls]
         /\ StopIsNotRestart' /\ DroppedHasEnded' /\ LiveRunnerIsRegistered'
         /\ WorkIsConfigured'
<1>1. TypeOK BY DEF IInv
<1>2. /\ pc' \in [Threads -> ThreadStates] /\ call' \in [Threads -> Calls]
      /\ pc'[t] \notin {"drop", "startLocked"}
      /\ pc'[t] = "stop" => call'[t].then # "restart"
      /\ \A x \in Threads \ {t} : pc'[x] = pc[x] /\ call'[x] = call[x]
  BY <1>1, ReplaceTypes
<1>3. StopIsNotRestart'
  BY <1>2 DEF IInv, StopIsNotRestart
<1>4. DroppedHasEnded'
  BY <1>2 DEF IInv, DroppedHasEnded, Live
<1>5. WorkIsConfigured'
  BY <1>2 DEF IInv, WorkIsConfigured, Live
<1> QED BY <1>2, <1>3, <1>4, <1>5 DEF IInv, LiveRunnerIsRegistered, Live

\* The rest of the state when a thread leaves the runners and probes alone.
LEMMA RestTypes ==
  ASSUME TypeOK, runnerVars' = runnerVars
  PROVE  RunnerTypeOK' /\ run' = run /\ runCfg' = runCfg
BY DEF TypeOK, RunnerTypeOK, runnerVars, runVars, probeVars

\* Every step of a request keeps the invariant.
LEMMA ThreadStepKeeps ==
  ASSUME IInv, NEW t \in Threads, ThreadStep(t)
  PROVE  IInv'
<1> DEFINE Kept == /\ pc' \in [Threads -> ThreadStates]
                   /\ call' \in [Threads -> Calls]
                   /\ StopIsNotRestart' /\ DroppedHasEnded'
                   /\ LiveRunnerIsRegistered' /\ WorkIsConfigured'
<1>1. /\ TypeOK /\ RuntimeTypeOK /\ RunnerTypeOK
      /\ call[t] \in Calls /\ pc \in [Threads -> ThreadStates]
      /\ call \in [Threads -> Calls]
      /\ call[t].target \in Runners \cup {NoRunner}
      /\ call[t].cfg \in Config \cup {NoItem}
      /\ call[t].wasRunning \in BOOLEAN
      /\ registered \in Runners \cup {NoRunner} /\ item \in Config \cup {NoItem}
      /\ booted \in BOOLEAN
  BY DEF IInv, TypeOK, Calls
<1>2. ASSUME Stays PROVE /\ RuntimeTypeOK' /\ RunnerTypeOK'
                         /\ booted' \in BOOLEAN /\ item' \in Config \cup {NoItem}
                         /\ registered' \in Runners \cup {NoRunner}
                         /\ UNCHANGED <<run, runCfg, registered>>
  BY <1>1, <1>2, RestTypes DEF Stays, RuntimeTypeOK, runtimeVars
<1>3. ASSUME RuntimeTypeOK', RunnerTypeOK', booted' \in BOOLEAN,
             item' \in Config \cup {NoItem},
             registered' \in Runners \cup {NoRunner}, Kept
      PROVE  IInv'
  BY <1>3 DEF IInv, TypeOK
<1>4. ASSUME Stays, Kept PROVE IInv'
  BY <1>2, <1>3, <1>4
<1>5. /\ \A r \in Runners \cup {NoRunner} :
           /\ [call[t] EXCEPT !.target = r] \in Calls
           /\ [call[t] EXCEPT !.target = r].then = call[t].then
      /\ \A g \in Config \cup {NoItem} : [call[t] EXCEPT !.cfg = g] \in Calls
      /\ call[t].then # "restart" =>
           AfterStop(call[t]) \in ThreadStates \ {"drop", "stop", "startLocked"}
  BY <1>1, CallTypes DEF Calls
<1>6. ASSUME NEW s \in States, SetStatus(s), UNCHANGED persisted
      PROVE  RuntimeTypeOK'
  BY <1>1, <1>6, SetStatusTypes DEF RuntimeTypeOK
<1>7. ASSUME NEW to \in ThreadStates \ {"drop", "stop", "startLocked"},
             NEW c \in Calls, Proceed(t, to, c),
             UNCHANGED <<run, runCfg, registered>>
      PROVE  Kept
  BY <1>7, ThreadMoves
<1> HIDE DEF Kept
<1>11. CASE StartGet(t)
  <2>1. CASE item = NoItem
    BY <1>11, <2>1, <1>2, <1>4, <1>7, NoCallTypes DEF StartGet, ThreadStates
  <2>2. CASE item # NoItem
    <3> DEFINE c == [NoCall EXCEPT !.cfg = item]
    <3>1. c \in Calls /\ c.cfg = item /\ item \in Config
      BY <1>1, <2>2, NoCallTypes DEF NoCall
    <3>2. Proceed(t, "startLocked", c)
      BY <1>11, <2>2 DEF StartGet
    <3> HIDE DEF c
    <3>3. Kept
      BY <1>2, <1>11, <3>1, <3>2, ThreadMoves DEF StartGet, ThreadStates, Kept
    <3> QED BY <1>4, <1>11, <3>3 DEF StartGet
  <2> QED BY <2>1, <2>2
<1>14. CASE CancelTarget(t)
  <2>1. RuntimeTypeOK' /\ RunnerTypeOK'
    BY <1>14, <1>1 DEF CancelTarget, RunnerTypeOK, RuntimeTypeOK, runtimeVars,
                       probeVars
  <2> QED BY <1>14, <2>1, <1>1, <1>3, <1>7 DEF CancelTarget, ThreadStates
<1>15. CASE StopDone(t)
  <2>1. CASE call[t].then = "restart"
    <3>1. pc' = [pc EXCEPT ![t] = "drop"] /\ call' = [call EXCEPT ![t] = call[t]]
      BY <1>15, <2>1 DEF StopDone, Proceed
    <3>2. UNCHANGED <<run, runCfg, registered>>
      BY <1>15, <1>2 DEF StopDone
    <3>3. \A r \in Runners : call[t].target = r => ~Live(r)
      BY <1>15 DEF StopDone, Live, Working
    <3>4. DroppedHasEnded' /\ StopIsNotRestart' /\ WorkIsConfigured'
      BY <1>1, <3>1, <3>2, <3>3 DEF IInv, DroppedHasEnded, StopIsNotRestart,
                                    WorkIsConfigured, Live
    <3>5. pc' \in [Threads -> ThreadStates] /\ call' \in [Threads -> Calls]
      BY <1>1, <3>1 DEF ThreadStates
    <3>6. LiveRunnerIsRegistered'
      BY <3>2 DEF IInv, LiveRunnerIsRegistered, Live
    <3> QED BY <1>15, <3>4, <3>5, <3>6, <1>4 DEF StopDone, Kept
  <2>2. CASE call[t].then # "restart"
    BY <1>15, <2>2, <1>2, <1>4, <1>5, <1>7 DEF StopDone
  <2> QED BY <2>1, <2>2
<1>16. CASE StopTimeout(t)
  <2>1. CASE call[t].then = "restart"
    BY <1>16, <2>1, <1>2, <1>4, <1>7, NoCallTypes DEF StopTimeout, ThreadStates
  <2>2. CASE call[t].then # "restart"
    BY <1>16, <2>2, <1>2, <1>4, <1>5, <1>7 DEF StopTimeout
  <2> QED BY <2>1, <2>2
<1>13. CASE StopLocked(t)
  <2>1. RunnerTypeOK' /\ run' = run /\ runCfg' = runCfg
    BY <1>13, <1>1, RestTypes DEF StopLocked
  <2>2. RuntimeTypeOK'
    BY <1>13, <1>6 DEF StopLocked, States
  <2>3. Kept
    <3>1. call[t].then # "restart"
      BY <1>13 DEF StopLocked, At, IInv, StopIsNotRestart
    <3>2. CASE registered = NoRunner
      BY <1>13, <3>1, <3>2, <2>1, <1>1, <1>5, <1>7 DEF StopLocked
    <3>3. CASE registered # NoRunner
      BY <1>13, <3>3, <2>1, <1>1, <1>5, <1>7 DEF StopLocked, ThreadStates
    <3> QED BY <3>2, <3>3
  <2> QED BY <1>13, <2>1, <2>2, <2>3, <1>1, <1>3 DEF StopLocked
<1>17. CASE ReplaceLocked(t)
  <2>1. RunnerTypeOK' /\ run' = run /\ runCfg' = runCfg
    BY <1>17, <1>1, RestTypes DEF ReplaceLocked
  <2>2. RuntimeTypeOK'
    BY <1>17, <1>1, <1>6 DEF ReplaceLocked, States, RuntimeTypeOK
  <2>3. Kept
    <3>1. CASE registered = NoRunner
      <4>1. PICK to \in {"clear", "start"} : Proceed(t, to, call[t])
        BY <1>17, <3>1 DEF ReplaceLocked
      <4> QED BY <1>17, <4>1, <2>1, <1>1, <1>7 DEF ReplaceLocked, ThreadStates
    <3>2. CASE registered # NoRunner
      BY <1>17, <3>2, <2>1, <1>1, <1>5, <1>7 DEF ReplaceLocked, ThreadStates
    <3> QED BY <3>1, <3>2
  <2> QED BY <1>17, <2>1, <2>2, <2>3, <1>1, <1>3 DEF ReplaceLocked
<1>18. CASE DropRunner(t)
  <2>1. RunnerTypeOK' /\ RuntimeTypeOK' /\ run' = run /\ runCfg' = runCfg
    BY <1>18, <1>1, RestTypes DEF DropRunner, RuntimeTypeOK, runtimeVars
  <2>2. PICK to \in {"clear", "start"} :
          Proceed(t, to, [call[t] EXCEPT !.target = NoRunner])
    BY <1>18 DEF DropRunner
  <2>3. /\ pc' = [pc EXCEPT ![t] = to]
        /\ call' = [call EXCEPT ![t] = [call[t] EXCEPT !.target = NoRunner]]
    BY <2>2 DEF Proceed
  <2>4. pc' \in [Threads -> ThreadStates] /\ call' \in [Threads -> Calls]
    BY <2>3, <1>1, <1>5 DEF ThreadStates
  <2>5. StopIsNotRestart' /\ DroppedHasEnded' /\ WorkIsConfigured'
    BY <2>1, <2>3, <1>1 DEF IInv, StopIsNotRestart, DroppedHasEnded,
                            WorkIsConfigured, Live
  <2>6. LiveRunnerIsRegistered'
    <3>1. \A r \in Runners : call[t].target = r => ~Live(r)
      BY <1>18 DEF DropRunner, At, IInv, DroppedHasEnded
    <3> QED BY <1>18, <3>1, <2>1 DEF DropRunner, IInv, LiveRunnerIsRegistered, Live
  <2> QED BY <1>18, <2>1, <2>4, <2>5, <2>6, <1>1, <1>3 DEF DropRunner, Kept
<1>19. CASE ClearLocked(t)
  <2>1. RunnerTypeOK' /\ run' = run /\ runCfg' = runCfg
    BY <1>19, <1>1, RestTypes DEF ClearLocked
  <2>2. RuntimeTypeOK'
    BY <1>19, <1>1, NoMappingTypes
       DEF ClearLocked, ClearMapping, RuntimeTypeOK, RuntimeStatus
  <2> QED BY <1>19, <2>1, <2>2, <1>1, <1>3, <1>7 DEF ClearLocked, ThreadStates
<1>20. CASE ClearSaved(t)
  <2>1. RunnerTypeOK' /\ run' = run /\ runCfg' = runCfg
    BY <1>20, <1>1, RestTypes DEF ClearSaved
  <2>2. RuntimeTypeOK'
    BY <1>20, <1>1, NoMappingTypes DEF ClearSaved, ClearRuntimeStatus, RuntimeTypeOK
  <2>3. PICK to \in {"start", "idle"} : Proceed(t, to, call[t])
    BY <1>20 DEF ClearSaved
  <2> QED BY <1>20, <2>1, <2>2, <2>3, <1>1, <1>3, <1>7 DEF ClearSaved, ThreadStates
<1>12. CASE StartLocked(t)
  <2>1. CASE Launch(call[t].cfg)
    <3>0. call[t].cfg \in Config
      BY <1>12 DEF StartLocked, At, IInv, WorkIsConfigured
    <3>1. RuntimeTypeOK' /\ RunnerTypeOK' /\ registered' \in Runners
      BY <1>1, <1>12, <2>1, <3>0, LaunchTypes DEF StartLocked
    <3>2. /\ LiveRunnerIsRegistered'
          /\ \A r \in Runners : Live(r)' => runCfg'[r] \in Config
          /\ \A x \in Threads, r \in Runners :
               pc[x] = "drop" /\ call[x].target = r => ~Live(r)'
      BY <1>1, <2>1, <3>0, LaunchKeeps
    <3>3. pc' = [pc EXCEPT ![t] = "idle"] /\ call' = [call EXCEPT ![t] = NoCall]
      BY <1>12 DEF StartLocked, Proceed
    <3>4. Kept
      BY <1>1, <3>2, <3>3, NoCallTypes
         DEF Kept, IInv, StopIsNotRestart, DroppedHasEnded, WorkIsConfigured,
             ThreadStates
    <3> QED BY <1>1, <1>3, <1>12, <3>1, <3>4 DEF StartLocked
  <2>2. CASE UNCHANGED <<runVars, registered, status>>
    <3>1. RunnerTypeOK' /\ RuntimeTypeOK' /\ run' = run /\ runCfg' = runCfg
      BY <1>1, <1>12, <2>2, RestTypes
         DEF StartLocked, runnerVars, runVars, RuntimeTypeOK
    <3> QED BY <1>12, <2>2, <3>1, <1>1, <1>3, <1>7, NoCallTypes
            DEF StartLocked, ThreadStates
  <2> QED BY <1>12, <2>1, <2>2 DEF StartLocked
<1>21. CASE PutGet(t)
  <2>1. CASE item = NoItem
    BY <1>21, <2>1, <1>2, <1>4, <1>7, NoCallTypes DEF PutGet, ThreadStates
  <2>2. CASE item # NoItem
    BY <1>21, <2>2, <1>1, <1>2, <1>4, <1>5, <1>7 DEF PutGet, ThreadStates
  <2> QED BY <2>1, <2>2
<1>22. CASE PutUpdate(t)
  <2>1. /\ RunnerTypeOK' /\ run' = run /\ runCfg' = runCfg /\ RuntimeTypeOK'
        /\ booted' = booted /\ registered' = registered
    BY <1>22, <1>1, RestTypes DEF PutUpdate, RuntimeTypeOK, runtimeVars
  <2>2. CASE item = NoItem
    BY <1>22, <2>1, <2>2, <1>1, <1>3, <1>7, NoCallTypes DEF PutUpdate, ThreadStates
  <2>3. CASE item # NoItem
    <3>1. item' \in Config /\ Replace(t, call[t].cfg, item', call[t].wasRunning)
      BY <1>22, <2>3 DEF PutUpdate
    <3>2. Kept
      BY <3>1, <2>1, <1>1, ReplaceMoves DEF Kept
    <3> QED BY <3>1, <3>2, <2>1, <1>1, <1>3
  <2> QED BY <2>2, <2>3
<1>23. CASE DeleteInstance(t)
  <2>1. RunnerTypeOK' /\ run' = run /\ runCfg' = runCfg
    BY <1>23, <1>1, RestTypes DEF DeleteInstance
  <2>2. RuntimeTypeOK'
    BY <1>23, <1>1, NoMappingTypes DEF DeleteInstance, RuntimeTypeOK
  <2> QED BY <1>23, <2>1, <2>2, <1>1, <1>3, <1>7, NoCallTypes
          DEF DeleteInstance, ThreadStates
<1>24. CASE ApplyList(t)
  <2>1. CASE item # NoItem /\ item.enabled
    BY <1>24, <2>1, <1>1, <1>2, <1>4, <1>7, NoCallTypes DEF ApplyList, ThreadStates
  <2>2. CASE ~(item # NoItem /\ item.enabled)
    BY <1>24, <2>2, <1>2, <1>4, <1>7, NoCallTypes DEF ApplyList, ThreadStates
  <2> QED BY <2>1, <2>2
<1>25. CASE ApplyCheck(t)
  <2>1. CASE registered # NoRunner
    BY <1>25, <2>1, <1>2, <1>4, ReplaceMoves DEF ApplyCheck, Kept
  <2>2. CASE registered = NoRunner
    BY <1>25, <2>2, <1>2, <1>4, <1>7, NoCallTypes DEF ApplyCheck, ThreadStates
  <2> QED BY <2>1, <2>2
<1> QED
  BY <1>11, <1>12, <1>13, <1>14, <1>15, <1>16, <1>17, <1>18, <1>19, <1>20,
     <1>21, <1>22, <1>23, <1>24, <1>25 DEF ThreadStep

\* Every step of the system keeps the invariant.
LEMMA IInvStep == IInv /\ [Next]_vars => IInv'
<1> SUFFICES ASSUME IInv, [Next]_vars PROVE IInv'
  OBVIOUS
<1>t. /\ TypeOK /\ RuntimeTypeOK /\ RunnerTypeOK
      /\ call \in [Threads -> Calls] /\ pc \in [Threads -> ThreadStates]
      /\ registered \in Runners \cup {NoRunner} /\ item \in Config \cup {NoItem}
      /\ booted \in BOOLEAN
  BY DEF IInv, TypeOK
<1>1. CASE StartEnabled
  <2>1. CASE item # NoItem /\ item.enabled
    <3>1. Launch(item) BY <1>1, <2>1 DEF StartEnabled
    <3>2. RuntimeTypeOK' /\ RunnerTypeOK' /\ registered' \in Runners
      BY <1>t, <1>1, <2>1, <3>1, LaunchTypes DEF StartEnabled
    <3>3. /\ LiveRunnerIsRegistered'
          /\ \A r \in Runners : Live(r)' => runCfg'[r] \in Config
          /\ \A x \in Threads, r \in Runners :
               pc[x] = "drop" /\ call[x].target = r => ~Live(r)'
      BY <1>t, <2>1, <3>1, LaunchKeeps
    <3> QED BY <1>t, <1>1, <3>2, <3>3 DEF StartEnabled, IInv, TypeOK,
               StopIsNotRestart, DroppedHasEnded, WorkIsConfigured, callVars
  <2>2. CASE ~(item # NoItem /\ item.enabled)
    BY <1>t, <1>1, <2>2 DEF StartEnabled, IInv, TypeOK, StopIsNotRestart,
       DroppedHasEnded, LiveRunnerIsRegistered, WorkIsConfigured, Live,
       callVars, RunnerTypeOK,
       RuntimeTypeOK, runVars, probeVars
  <2> QED BY <2>1, <2>2
<1>2. CASE Crash
  <2>1. RuntimeTypeOK'
    BY <1>t, <1>2, NoMappingTypes
       DEF Crash, RuntimeTypeOK, RuntimeStatus, FreshStatus, States,
                      KeepAliveStates
  <2>2. RunnerTypeOK'
    BY <1>2, NoMappingTypes DEF Crash, RunnerTypeOK, RunStates, ProbeStates
  <2>3. pc' \in [Threads -> ThreadStates] /\ call' \in [Threads -> Calls]
    BY <1>2, NoCallTypes DEF Crash, ThreadStates
  <2>4. /\ StopIsNotRestart' /\ DroppedHasEnded' /\ LiveRunnerIsRegistered'
        /\ WorkIsConfigured'
    BY <1>2 DEF Crash, StopIsNotRestart, DroppedHasEnded, WorkIsConfigured,
                LiveRunnerIsRegistered, Live, Working
  <2> QED BY <1>t, <1>2, <2>1, <2>2, <2>3, <2>4 DEF Crash, IInv, TypeOK
<1>3. ASSUME NEW r \in Runners, WorkerStep(r) PROVE IInv'
  <2>1. /\ Live(r) /\ run' = [run EXCEPT ![r] = run'[r]]
        /\ runCfg' = runCfg /\ RuntimeTypeOK' /\ RunnerTypeOK'
    BY <1>t, <1>3, RunnerStepMoves DEF WorkerStep, IInv, WorkIsConfigured
  <2>2. \A x \in Runners : Live(x)' => Live(x)
    BY <1>t, <2>1 DEF Live, RunnerTypeOK
  <2> QED BY <1>t, <1>3, <2>1, <2>2 DEF WorkerStep, IInv, TypeOK, callVars,
             StopIsNotRestart, DroppedHasEnded, LiveRunnerIsRegistered,
             WorkIsConfigured
<1>4. ASSUME NEW r \in Runners, Retire(r) PROVE IInv'
  <2>1. run[r] = "done" /\ run' = [run EXCEPT ![r] = "free"]
    BY <1>4 DEF Retire, Goto
  <2>2. \A x \in Runners : Live(x)' => Live(x) /\ x # r
    BY <1>t, <2>1 DEF Live, RunnerTypeOK, Working
  <2>3. RunnerTypeOK'
    BY <1>t, <1>4, <2>1, NoMappingTypes
       DEF Retire, RunnerTypeOK, RunStates, probeVars
  <2>4. RuntimeTypeOK'
    BY <1>t, <1>4, SetStatusTypes DEF Retire, RuntimeTypeOK, States
  <2>5. /\ registered' \in Runners \cup {NoRunner}
        /\ registered' = registered \/ (registered = r /\ registered' = NoRunner)
    BY <1>t, <1>4 DEF Retire
  <2>6. LiveRunnerIsRegistered'
    BY <2>2, <2>5 DEF IInv, LiveRunnerIsRegistered
  <2>7. \A x \in Runners : Live(x)' => runCfg'[x] = runCfg[x] /\ Live(x)
    BY <1>t, <1>4, <2>2 DEF Retire, RunnerTypeOK
  <2> QED BY <1>t, <1>4, <2>2, <2>3, <2>4, <2>5, <2>6, <2>7
          DEF Retire, IInv, TypeOK, callVars, StopIsNotRestart, DroppedHasEnded,
              WorkIsConfigured
<1>5. ASSUME NEW p \in Probes, ProberStep(p) PROVE IInv'
  <2>1. run' = run /\ runCfg' = runCfg /\ RuntimeTypeOK' /\ RunnerTypeOK'
    BY <1>t, <1>5, ProbeStepTypes DEF ProberStep
  <2> QED BY <1>t, <1>5, <2>1 DEF ProberStep, IInv, TypeOK, callVars, Live,
             StopIsNotRestart, DroppedHasEnded, LiveRunnerIsRegistered,
             WorkIsConfigured
<1>6. ASSUME NEW t \in Threads, NewRequest(t) PROVE IInv'
  <2> DEFINE Kept == /\ pc' \in [Threads -> ThreadStates]
                     /\ call' \in [Threads -> Calls]
                     /\ StopIsNotRestart' /\ DroppedHasEnded'
                     /\ LiveRunnerIsRegistered' /\ WorkIsConfigured'
  <2>1. /\ UNCHANGED <<runtimeVars, runnerVars, booted, registered>>
        /\ item' \in Config \cup {NoItem}
    BY <1>6, <1>t DEF NewRequest, NewCall, Create, UpdateServerGroups, Stays, Config
  <2>2. RuntimeTypeOK' /\ RunnerTypeOK' /\ run' = run /\ runCfg' = runCfg
    BY <1>t, <2>1, RestTypes DEF RuntimeTypeOK, runtimeVars
  <2>3. Kept
    <3>1. CASE UNCHANGED callVars
      BY <1>t, <2>1, <2>2, <3>1 DEF callVars, IInv, StopIsNotRestart,
         DroppedHasEnded, LiveRunnerIsRegistered, WorkIsConfigured, Live
    <3>2. ASSUME NEW to \in {"start", "stop", "putGet", "apply"}, NEW c \in Calls,
                 c.then # "restart", Proceed(t, to, c)
          PROVE  Kept
      BY <2>1, <2>2, <3>2, ThreadMoves DEF ThreadStates
    <3>3. NoCall.then = "return" /\ [NoCall EXCEPT !.then = "delete"].then = "delete"
          /\ [NoCall EXCEPT !.wasRunning = registered # NoRunner].then = "return"
          /\ (registered # NoRunner) \in BOOLEAN
      BY DEF NoCall
    <3>4. PICK to \in {"start", "stop", "putGet", "apply"}, c \in Calls :
            UNCHANGED callVars \/ (c.then # "restart" /\ Proceed(t, to, c))
      <4>1. CASE NewCall(t)
        BY <4>1, <3>3, NoCallTypes DEF NewCall
      <4>2. CASE Create(t)
        BY <4>2, <3>3, NoCallTypes DEF Create
      <4>3. CASE UpdateServerGroups(t)
        BY <4>3, <3>3, NoCallTypes DEF UpdateServerGroups
      <4> QED BY <1>6, <4>1, <4>2, <4>3 DEF NewRequest
    <3> QED BY <3>1, <3>2, <3>4
  <2> QED BY <1>t, <2>1, <2>2, <2>3 DEF IInv, TypeOK
<1>7. CASE UNCHANGED vars
  <2>1. RuntimeTypeOK' /\ RunnerTypeOK' /\ run' = run /\ runCfg' = runCfg
    BY <1>t, <1>7, RestTypes DEF vars, RuntimeTypeOK, runtimeVars
  <2> QED BY <1>t, <1>7, <2>1 DEF vars, IInv, TypeOK, callVars, Live,
             StopIsNotRestart, DroppedHasEnded, LiveRunnerIsRegistered,
             WorkIsConfigured
<1> QED BY <1>1, <1>2, <1>3, <1>4, <1>5, <1>6, <1>7, ThreadStepKeeps DEF Next

\* The invariant holds throughout.
LEMMA IInvHolds == Spec => []IInv
BY InitIInv, IInvStep, PTL DEF Spec

\* Every variable keeps to its type, whatever requests and runners do.
THEOREM TypeCorrect == Spec => []TypeOK
<1>1. IInv => TypeOK BY DEF IInv
<1> QED BY <1>1, IInvHolds, PTL

\* At most one goroutine works for the instance, for any number of
\* overlapping requests (Start, Stop, ReplaceConfig, the clean-up of Start).
THEOREM AtMostOneWorker == Spec => []LiveRunnerIsRegistered
<1>1. IInv => LiveRunnerIsRegistered BY DEF IInv
<1> QED BY <1>1, IInvHolds, PTL

\* A step that takes a runner off the registry finds it ended, or is a crash.
LEMMA LeavingHasEnded ==
  ASSUME IInv, [Next]_vars,
         registered # NoRunner, registered' # registered, booted'
  PROVE  ~Live(registered)
<1>t. /\ TypeOK /\ RuntimeTypeOK /\ RunnerTypeOK
      /\ registered \in Runners /\ item \in Config \cup {NoItem}
      /\ call \in [Threads -> Calls]
  BY DEF IInv, TypeOK
<1>1. CASE StartEnabled
  BY <1>1 DEF StartEnabled, Launch
<1>2. CASE Crash
  BY <1>2 DEF Crash
<1>3. ASSUME NEW r \in Runners, WorkerStep(r) PROVE FALSE
  BY <1>3 DEF WorkerStep
<1>4. ASSUME NEW r \in Runners, Retire(r) PROVE ~Live(registered)
  BY <1>4 DEF Retire, Goto, Live, Working
<1>5. ASSUME NEW p \in Probes, ProberStep(p) PROVE FALSE
  BY <1>5 DEF ProberStep
<1>6. ASSUME NEW t \in Threads, NewRequest(t) PROVE FALSE
  BY <1>6 DEF NewRequest, NewCall, Create, UpdateServerGroups, Stays
<1>7. ASSUME NEW t \in Threads, ThreadStep(t) PROVE ~Live(registered)
  <2>1. CASE DropRunner(t)
    BY <1>t, <2>1 DEF DropRunner, At, IInv, DroppedHasEnded
  <2>2. CASE StartLocked(t)
    BY <2>2 DEF StartLocked, Launch
  <2>3. CASE StartGet(t) \/ StopDone(t) \/ StopTimeout(t) \/ PutGet(t)
             \/ ApplyList(t) \/ ApplyCheck(t)
    BY <2>3 DEF StartGet, StopDone, StopTimeout, PutGet, ApplyList, ApplyCheck, Stays
  <2>4. CASE StopLocked(t) \/ CancelTarget(t) \/ ReplaceLocked(t)
             \/ ClearLocked(t) \/ ClearSaved(t) \/ PutUpdate(t)
             \/ DeleteInstance(t)
    BY <2>4 DEF StopLocked, CancelTarget, ReplaceLocked, ClearLocked, ClearSaved,
                PutUpdate, DeleteInstance
  <2> QED BY <1>7, <2>1, <2>2, <2>3, <2>4 DEF ThreadStep
<1>8. CASE UNCHANGED vars
  BY <1>8 DEF vars
<1> QED BY <1>1, <1>2, <1>3, <1>4, <1>5, <1>6, <1>7, <1>8 DEF Next

\* No request and no late clean-up takes a working runner off the registry.
THEOREM RunnersLeaveEnded == Spec => OnlyEndedRunnersLeave
<1>1. IInv /\ [Next]_vars =>
        [registered # NoRunner /\ registered' # registered /\ booted'
           => ~Live(registered)]_vars
  BY LeavingHasEnded
<1> QED BY <1>1, IInvHolds, PTL DEF Spec, OnlyEndedRunnersLeave

-----------------------------------------------------------------------------
\* What is on display while an instance is off: setStatusLocked has cleared
\* the keep-alive, and report refuses to bring one back.
OffShowsNoKeepAlive ==
  status.state \in {"stopping", "stopped"} => status.keepAlive = ""

\* The display never contradicts the registered runner.
Honest ==
  StoppedIsHonest /\ ErrorMeansRetrying /\ ConnectedIsHonest /\ OffShowsNoKeepAlive

\* What each report of a runner does to the two fields the display shows.
LEMMA ReportShows ==
  ASSUME RuntimeTypeOK
  PROVE  /\ \A s \in States : Report(StateUpdate(s)) =>
              /\ status'.state = s
              /\ status'.keepAlive = IF s \in {"stopping", "stopped"}
                                     THEN "" ELSE status.keepAlive
         /\ \A k \in KeepAliveStates \ {""} : Report(KeepAliveUpdate(k)) =>
              /\ status'.state = status.state
              /\ status'.keepAlive = IF StateBlocksKeepAlive(status.state)
                                     THEN status.keepAlive ELSE k
         /\ \A q \in Protocols : Report(FreshStart(q)) =>
              status'.state = "starting" /\ status'.keepAlive = ""
         /\ \A e \in Privates : Report(BoundOn(e)) =>
              status'.state = "starting" /\ status'.keepAlive = status.keepAlive
         /\ \A m \in Mapping : Report(Published(m)) =>
              status'.state = "running" /\ status'.keepAlive = status.keepAlive
<1> USE DEF Report, Merged, MergedState, MergedKeepAlive, ReportClearsKeepAlive,
            StateBlocksKeepAlive, NoUpdate, States, KeepAliveStates
<1>1. ASSUME NEW s \in States, Report(StateUpdate(s))
      PROVE  /\ status'.state = s
             /\ status'.keepAlive = IF s \in {"stopping", "stopped"}
                                    THEN "" ELSE status.keepAlive
  BY <1>1 DEF StateUpdate
<1>2. ASSUME NEW k \in KeepAliveStates \ {""}, Report(KeepAliveUpdate(k))
      PROVE  /\ status'.state = status.state
             /\ status'.keepAlive = IF StateBlocksKeepAlive(status.state)
                                    THEN status.keepAlive ELSE k
  BY <1>2 DEF KeepAliveUpdate
<1>3. ASSUME NEW q \in Protocols, Report(FreshStart(q))
      PROVE  status'.state = "starting" /\ status'.keepAlive = ""
  BY <1>3 DEF FreshStart
<1>4. ASSUME NEW e \in Privates, Report(BoundOn(e))
      PROVE  status'.state = "starting" /\ status'.keepAlive = status.keepAlive
  BY <1>4 DEF BoundOn
<1>5. ASSUME NEW m \in Mapping, Report(Published(m))
      PROVE  status'.state = "running" /\ status'.keepAlive = status.keepAlive
  BY <1>5 DEF Published
<1> QED BY <1>1, <1>2, <1>3, <1>4, <1>5

\* setStatusLocked shows the state it is given and, for the three states it
\* is called with, no keep-alive.
LEMMA SetStatusShows ==
  ASSUME RuntimeTypeOK, NEW s \in {"starting", "stopping", "stopped"}, SetStatus(s)
  PROVE  status'.state = s /\ status'.keepAlive = ""
BY DEF SetStatus, RuntimeTypeOK, RuntimeStatus, StateClearsKeepAlive

\* A step of the registered runner's goroutine keeps the display honest.
LEMMA RunnerStepHonest ==
  ASSUME IInv, Honest, NEW r \in Runners, WorkerStep(r)
  PROVE  Honest'
<1> DEFINE Serving == {"bound", "serving", "replying", "lost", "resumed", "exit"}
           \* Honest, seen from the runner in a place w.
           Here(w, state, keepAlive) ==
             /\ state = "stopped" => w \in {"closing", "done"}
             /\ state = "error" => w = "retryWait"
             /\ keepAlive = "connected" => w \in Serving
             /\ state \in {"stopping", "stopped"} => keepAlive = ""
<1>1. /\ RuntimeTypeOK /\ RunnerTypeOK /\ RunnerStep(r) /\ registered' = registered
  BY DEF IInv, TypeOK, WorkerStep
<1>2. /\ Live(r) /\ registered = r /\ registered # NoRunner /\ run[r] \in Working
      /\ run' = [run EXCEPT ![r] = run'[r]]
  BY <1>1, RunnerStepMoves, NoRunnerAssumption
     DEF IInv, LiveRunnerIsRegistered, WorkIsConfigured, Live
<1>3. Here(run[r], status.state, status.keepAlive)
  BY <1>2 DEF Honest, StoppedIsHonest, ErrorMeansRetrying, ConnectedIsHonest,
              OffShowsNoKeepAlive
<1>4. Here(run'[r], status'.state, status'.keepAlive) => Honest'
  BY <1>1, <1>2 DEF Honest, StoppedIsHonest, ErrorMeansRetrying,
                    ConnectedIsHonest, OffShowsNoKeepAlive
<1>s. ASSUME NEW s \in {"starting", "running"}, NEW from \in Working,
             NEW to \in Working, Goto(r, from, to),
             from \in Serving => to \in Serving,
             \/ Report(StateUpdate(s))
             \/ s = "starting" /\ \E e \in Privates : Report(BoundOn(e))
      PROVE  Honest'
  <2>1. run[r] = from /\ run'[r] = to
    BY <1>1, <1>s DEF Goto, RunnerTypeOK
  <2>2. status'.state = s /\ status'.keepAlive = status.keepAlive
    <3>1. CASE Report(StateUpdate(s))
      BY <1>1, <3>1, ReportShows DEF States
    <3>2. CASE s = "starting" /\ \E e \in Privates : Report(BoundOn(e))
      BY <1>1, <3>2, ReportShows
    <3> QED BY <1>s, <3>1, <3>2
  <2> QED BY <1>s, <1>3, <1>4, <2>1, <2>2
<1>q. ASSUME NEW from \in Working \ {"closing", "retryWait"}, NEW to \in Working,
             Goto(r, from, to), status' = status, from \in Serving => to \in Serving
      PROVE  Honest'
  <2>1. run[r] = from /\ run'[r] = to
    BY <1>1, <1>q DEF Goto, RunnerTypeOK
  <2> QED BY <1>q, <1>3, <1>4, <2>1 DEF Working
<1>k. ASSUME NEW k \in KeepAliveStates \ {""},
             NEW from \in Working \ {"closing", "retryWait"}, NEW to \in Working,
             Goto(r, from, to), Report(KeepAliveUpdate(k)),
             k # "reconnecting" => to \in Serving
      PROVE  Honest'
  <2>1. run[r] = from /\ run'[r] = to
    BY <1>1, <1>k DEF Goto, RunnerTypeOK
  <2>2. /\ status'.state = status.state
        /\ status'.keepAlive = IF StateBlocksKeepAlive(status.state)
                               THEN status.keepAlive ELSE k
    BY <1>1, <1>k, ReportShows
  <2>3. CASE StateBlocksKeepAlive(status.state)
    BY <1>k, <1>3, <1>4, <2>1, <2>2, <2>3 DEF StateBlocksKeepAlive, Working
  <2>4. CASE ~StateBlocksKeepAlive(status.state)
    BY <1>k, <1>3, <1>4, <2>1, <2>2, <2>4 DEF StateBlocksKeepAlive, Working
  <2> QED BY <2>3, <2>4
<1>e. Emit(StateUpdate("starting")) => Report(StateUpdate("starting"))
  BY DEF Emit
<1>n. Quietly \/ UNCHANGED runtimeVars => status' = status
  BY DEF Quietly, runtimeVars
<1> USE DEF KeepAliveStates, Working
<1>5. CASE Begin(r)
  BY <1>5, <1>q DEF Begin, runtimeVars
<1>6. CASE LoopTop(r)
  BY <1>6, <1>n, <1>q DEF LoopTop
<1>7. CASE ReportStarting(r)
  <2>0. runCfg[r].protocol \in Protocols
    BY <1>2 DEF IInv, WorkIsConfigured, Config
  <2>1. status'.state = "starting" /\ status'.keepAlive = ""
    BY <1>1, <1>7, <2>0, ReportShows DEF ReportStarting, Emit
  <2> QED BY <1>4, <2>1
<1>8. CASE Connect(r)
  BY <1>8, <1>k DEF Connect, Emit
<1>9. CASE Answered(r)
  BY <1>9, <1>k DEF Answered, Emit
<1>10. CASE ReportReconnected(r)
  BY <1>10, <1>k DEF ReportReconnected, Emit
<1>11. CASE ReportError(r)
  <2>1. run[r] = "failed" /\ run'[r] = "retryWait"
    BY <1>1, <1>11 DEF ReportError, Goto, RunnerTypeOK
  <2>2. status'.state = "error" /\ status'.keepAlive = status.keepAlive
    BY <1>1, <1>11, ReportShows DEF ReportError, Emit, States
  <2> QED BY <1>3, <1>4, <2>1, <2>2
<1>12. CASE ReportStopped(r)
  <2>1. run'[r] = "closing"
    BY <1>1, <1>12 DEF ReportStopped, Goto, RunnerTypeOK
  <2>2. status'.state = "stopped" /\ status'.keepAlive = ""
    BY <1>1, <1>12, ReportShows DEF ReportStopped, Emit, States
  <2> QED BY <1>4, <2>1, <2>2
<1>13. CASE SessionStopped(r)
  BY <1>13, <1>k DEF SessionStopped
<1>14. CASE ReportLost(r)
  BY <1>14, <1>k DEF ReportLost, Emit
<1>15. CASE Bound(r)
  <2>1. Goto(r, "bound", "serving") /\ \E e \in Privates : Report(BoundOn(e))
    BY <1>15 DEF Bound
  <2> QED BY <1>s, <2>1
<1>16. CASE ReportRedial(r) \/ ReportRebuild(r) \/ RetryNow(r)
  BY <1>16, <1>e, <1>s DEF ReportRedial, ReportRebuild, RetryNow
<1>17. CASE ConnectFailed(r)
  BY <1>17, <1>n, <1>q DEF ConnectFailed
<1>18. CASE StoppedBeforeBound(r) \/ SendKeepAlive(r)
  BY <1>18, <1>n, <1>q DEF StoppedBeforeBound, SendKeepAlive
<1>19. CASE RedialTop(r) \/ PortGone(r) \/ PauseOver(r)
  BY <1>19, <1>n, <1>q DEF RedialTop, PortGone, PauseOver
<1>20. CASE RedialOutcome(r)
  <2>1. CASE Goto(r, "redialing", "reconnected") /\ Emit(StateUpdate("running"))
    BY <2>1, <1>s DEF Emit
  <2>2. CASE Goto(r, "redialing", "exit") /\ Quietly
    BY <2>2, <1>n, <1>q
  <2>3. CASE Goto(r, "redialing", "reconnecting") /\ Emit(StateUpdate("starting"))
    BY <2>3, <1>e, <1>s
  <2>4. CASE Goto(r, "redialing", "rebuild") /\ Quietly
    BY <2>4, <1>n, <1>q
  <2>5. CASE Goto(r, "redialing", "portGone") /\ Emit(StateUpdate("starting"))
    BY <2>5, <1>e, <1>s
  <2> QED BY <1>20, <2>1, <2>2, <2>3, <2>4, <2>5 DEF RedialOutcome
<1>21. CASE SessionLost(r)
  BY <1>21, <1>q DEF SessionLost, runtimeVars
<1>22. CASE Resume(r)
  BY <1>22, <1>q DEF Resume, runtimeVars
<1>23. CASE Close(r)
  <2>1. run[r] = "closing" /\ run'[r] = "done" /\ status' = status
    BY <1>1, <1>23 DEF Close, Goto, RunnerTypeOK, runtimeVars
  <2> QED BY <1>3, <1>4, <2>1
<1> QED
  BY <1>1, <1>5, <1>6, <1>7, <1>8, <1>9, <1>10, <1>11, <1>12, <1>13, <1>14,
     <1>15, <1>16, <1>17, <1>18, <1>19, <1>20, <1>21, <1>22, <1>23
     DEF RunnerStep

\* Launch replaces what is on display.
LEMMA LaunchHonest ==
  ASSUME IInv, NEW cfg \in Config \cup {NoItem}, Launch(cfg)
  PROVE  Honest'
<1>1. status'.state = "starting" /\ status'.keepAlive = ""
  BY SetStatusShows DEF Launch, IInv, TypeOK
<1> QED BY <1>1 DEF Honest, StoppedIsHonest, ErrorMeansRetrying,
                    ConnectedIsHonest, OffShowsNoKeepAlive

\* Every step of the system keeps the display honest.
LEMMA HonestStep == IInv /\ Honest /\ [Next]_vars => Honest'
<1> SUFFICES ASSUME IInv, Honest, [Next]_vars PROVE Honest'
  OBVIOUS
<1>t. /\ RuntimeTypeOK /\ RunnerTypeOK /\ item \in Config \cup {NoItem}
      /\ registered \in Runners \cup {NoRunner} /\ call \in [Threads -> Calls]
  BY DEF IInv, TypeOK
<1> USE DEF Honest, StoppedIsHonest, ErrorMeansRetrying, ConnectedIsHonest,
            OffShowsNoKeepAlive
<1>same. status' = status /\ run' = run /\ registered' = registered => Honest'
  OBVIOUS
<1>1. CASE StartEnabled
  <2>1. CASE item # NoItem /\ item.enabled
    BY <1>t, <1>1, <2>1, LaunchHonest DEF StartEnabled
  <2>2. CASE ~(item # NoItem /\ item.enabled)
    BY <1>1, <2>2, <1>same DEF StartEnabled, runVars
  <2> QED BY <2>1, <2>2
<1>2. CASE Crash
  BY <1>2 DEF Crash, FreshStatus
<1>3. ASSUME NEW r \in Runners, WorkerStep(r) PROVE Honest'
  BY <1>3, RunnerStepHonest
<1>4. ASSUME NEW r \in Runners, Retire(r) PROVE Honest'
  <2>1. run[r] = "done" /\ run' = [run EXCEPT ![r] = "free"]
    BY <1>4 DEF Retire, Goto
  <2>2. CASE registered = r
    <3>1. status.state # "error"
      BY <2>1, <2>2
    <3>2. status'.state = "stopped" /\ status'.keepAlive = "" /\ registered' = NoRunner
      BY <1>t, <1>4, <2>2, <3>1, SetStatusShows DEF Retire
    <3> QED BY <3>2
  <2>3. CASE registered # r
    BY <1>t, <1>4, <2>1, <2>3 DEF Retire, RunnerTypeOK
  <2> QED BY <2>2, <2>3
<1>5. ASSUME NEW p \in Probes, ProberStep(p) PROVE Honest'
  <2>1. run' = run /\ registered' = registered
    BY <1>t, <1>5, ProbeStepTypes DEF ProberStep
  <2>2. CASE Publish(p)
    <3>1. probeMap[p] \in Mapping /\ Report(Published(probeMap[p]))
      BY <1>t, <2>2 DEF Publish, RunnerTypeOK
    <3>2. status'.state = "running" /\ status'.keepAlive = status.keepAlive
      BY <1>t, <3>1, ReportShows
    <3> QED BY <2>1, <3>2
  <2>3. CASE ProbeGivesUp(p) \/ ProbeConfirms(p) \/ UpdateMapping(p)
    BY <2>1, <2>3, <1>same DEF ProbeGivesUp, ProbeConfirms, UpdateMapping, runtimeVars
  <2> QED BY <1>5, <2>2, <2>3 DEF ProberStep, ProbeStep
<1>6. ASSUME NEW t \in Threads, NewRequest(t) PROVE Honest'
  BY <1>6, <1>same DEF NewRequest, NewCall, Create, UpdateServerGroups, Stays,
                       runtimeVars, runnerVars, runVars
<1>7. ASSUME NEW t \in Threads, ThreadStep(t) PROVE Honest'
  <2>1. CASE StartLocked(t)
    <3>1. CASE Launch(call[t].cfg)
      <4>1. call[t].cfg \in Config \cup {NoItem}
        BY <1>t DEF Calls
      <4> QED BY <3>1, <4>1, LaunchHonest
    <3>2. CASE UNCHANGED <<runVars, registered, status>>
      BY <3>2, <1>same DEF runVars
    <3> QED BY <2>1, <3>1, <3>2 DEF StartLocked
  <2>2. CASE StopLocked(t)
    <3>1. run' = run /\ registered' = registered
      BY <2>2 DEF StopLocked, runnerVars, runVars
    <3>2. CASE registered = NoRunner
      BY <1>t, <2>2, <3>1, <3>2, SetStatusShows DEF StopLocked
    <3>3. CASE registered # NoRunner
      BY <1>t, <2>2, <3>1, <3>3, SetStatusShows DEF StopLocked
    <3> QED BY <3>2, <3>3
  <2>3. CASE ReplaceLocked(t)
    <3>1. run' = run /\ registered' = registered
      BY <2>3 DEF ReplaceLocked, runnerVars, runVars
    <3>2. CASE registered = NoRunner
      BY <2>3, <3>1, <3>2, <1>same DEF ReplaceLocked
    <3>3. CASE registered # NoRunner
      BY <1>t, <2>3, <3>1, <3>3, SetStatusShows DEF ReplaceLocked
    <3> QED BY <3>2, <3>3
  <2>4. CASE DropRunner(t)
    <3>1. run' = run /\ status' = status
      BY <2>4 DEF DropRunner, runnerVars, runVars, runtimeVars
    <3>2. CASE registered = call[t].target /\ registered # NoRunner
      <4>1. ~Live(registered)
        BY <1>t, <2>4, <3>2 DEF DropRunner, At, IInv, DroppedHasEnded
      <4> QED BY <2>4, <3>1, <3>2, <4>1 DEF DropRunner, Live, Working
    <3>3. CASE ~(registered = call[t].target /\ registered # NoRunner)
      BY <2>4, <3>1, <3>3, <1>same DEF DropRunner
    <3> QED BY <3>2, <3>3
  <2>5. CASE ClearLocked(t)
    <3>1. status'.state = status.state /\ status'.keepAlive = status.keepAlive
      BY <1>t, <2>5 DEF ClearLocked, ClearMapping, RuntimeTypeOK, RuntimeStatus
    <3> QED BY <2>5, <3>1 DEF ClearLocked, runnerVars, runVars
  <2>6. CASE StartGet(t) \/ StopDone(t) \/ StopTimeout(t) \/ PutGet(t)
             \/ ApplyList(t) \/ ApplyCheck(t)
    BY <2>6, <1>same DEF StartGet, StopDone, StopTimeout, PutGet, ApplyList,
       ApplyCheck, Stays, runtimeVars, runnerVars, runVars
  <2>7. CASE CancelTarget(t) \/ ClearSaved(t) \/ PutUpdate(t) \/ DeleteInstance(t)
    BY <2>7, <1>same DEF CancelTarget, ClearSaved, PutUpdate, DeleteInstance,
       runtimeVars, runnerVars, runVars
  <2> QED BY <1>7, <2>1, <2>2, <2>3, <2>4, <2>5, <2>6, <2>7 DEF ThreadStep
<1>8. CASE UNCHANGED vars
  BY <1>8, <1>same DEF vars, runtimeVars, runnerVars, runVars
<1> QED BY <1>1, <1>2, <1>3, <1>4, <1>5, <1>6, <1>7, <1>8 DEF Next

\* The display is honest throughout.
LEMMA HonestHolds == Spec => []Honest
<1>1. Init => Honest
  <2> SUFFICES ASSUME Init PROVE Honest
    OBVIOUS
  <2>1. /\ status.state = "stopped" /\ status.keepAlive = ""
        /\ registered = NoRunner
    BY DEF Init, FreshStatus
  <2> QED BY <2>1 DEF Honest, StoppedIsHonest, ErrorMeansRetrying,
                      ConnectedIsHonest, OffShowsNoKeepAlive
<1> QED BY <1>1, HonestStep, IInvHolds, PTL DEF Spec

\* "stopped" is shown only once the work has ended, however reports of the
\* runner and the requests interleave (Manager.report, setStatusLocked).
THEOREM StoppedHolds == Spec => []StoppedIsHonest
<1>1. Honest => StoppedIsHonest BY DEF Honest
<1> QED BY <1>1, HonestHolds, PTL

\* A record that says stopping or stopped shows no keep-alive, whatever late
\* reports arrive (Manager.report): what manager_test.go 125 asks for, without
\* the state report that may come between.
THEOREM OffHolds == Spec => []OffShowsNoKeepAlive
<1>1. Honest => OffShowsNoKeepAlive BY DEF Honest
<1> QED BY <1>1, HonestHolds, PTL

\* "error" is shown only while Run pauses before its next attempt.
THEOREM ErrorHolds == Spec => []ErrorMeansRetrying
<1>1. Honest => ErrorMeansRetrying BY DEF Honest
<1> QED BY <1>1, HonestHolds, PTL

\* A keep-alive shown as connected belongs to a session the registered runner
\* has open or has just lost.
THEOREM ConnectedHolds == Spec => []ConnectedIsHonest
<1>1. Honest => ConnectedIsHonest BY DEF Honest
<1> QED BY <1>1, HonestHolds, PTL

-----------------------------------------------------------------------------
\* What each report does to the two copies of the mapping: most leave both
\* alone, the first report of a runner and the one of a bound session change
\* only the copy on display, and a publication writes both.
LEMMA ReportCopies ==
  ASSUME RuntimeTypeOK
  PROVE  /\ \A s \in States : Report(StateUpdate(s)) =>
              status'.mapping = status.mapping /\ persisted' = persisted
         /\ \A k \in KeepAliveStates : Report(KeepAliveUpdate(k)) =>
              status'.mapping = status.mapping /\ persisted' = persisted
         /\ \A q \in Protocols : Report(FreshStart(q)) =>
              /\ status'.state = "starting" /\ persisted' = persisted
              /\ status'.mapping.public = status.mapping.public
         /\ \A e \in Privates : Report(BoundOn(e)) =>
              /\ status'.state = "starting" /\ persisted' = persisted
              /\ status'.mapping.public = status.mapping.public
         /\ \A m \in Mapping : m.public # NoPublic /\ Report(Published(m)) =>
              persisted' = status'.mapping
<1> USE DEF NoUpdate, NoMapping, Report, Merged, MergedState, MergedMapping, Given
<1>0. status.mapping = [public |-> status.mapping.public,
                        private |-> status.mapping.private,
                        protocol |-> status.mapping.protocol]
  BY DEF RuntimeTypeOK, RuntimeStatus, Mapping
<1>1. ASSUME NEW s \in States, Report(StateUpdate(s))
      PROVE  status'.mapping = status.mapping /\ persisted' = persisted
  BY <1>0, <1>1 DEF StateUpdate
<1>2. ASSUME NEW k \in KeepAliveStates, Report(KeepAliveUpdate(k))
      PROVE  status'.mapping = status.mapping /\ persisted' = persisted
  BY <1>0, <1>2 DEF KeepAliveUpdate
<1>3. ASSUME NEW q \in Protocols, Report(FreshStart(q))
      PROVE  /\ status'.state = "starting" /\ persisted' = persisted
             /\ status'.mapping.public = status.mapping.public
  BY <1>3 DEF FreshStart
<1>4. ASSUME NEW e \in Privates, Report(BoundOn(e))
      PROVE  /\ status'.state = "starting" /\ persisted' = persisted
             /\ status'.mapping.public = status.mapping.public
  BY <1>4 DEF BoundOn
<1>5. ASSUME NEW m \in Mapping, m.public # NoPublic, Report(Published(m))
      PROVE  persisted' = status'.mapping
  BY <1>5 DEF Published, SaveRuntimeStatus
<1> QED BY <1>1, <1>2, <1>3, <1>4, <1>5

\* The goroutine of a runner never reports a public address, and what else of
\* the mapping it reports goes with "starting".
LEMMA RunnerStepCopies ==
  ASSUME RuntimeTypeOK, NEW r \in Runners, RunnerStep(r),
         run[r] = "begin" => runCfg[r] \in Config
  PROVE  /\ persisted' = persisted
         /\ status'.mapping.public = status.mapping.public
         /\ status'.mapping = status.mapping \/ status'.state = "starting"
<1> USE ReportCopies DEF Emit
<1>1. CASE ReportStarting(r)
  <2>1. runCfg[r].protocol \in Protocols
    BY <1>1 DEF ReportStarting, Goto, Config
  <2> QED BY <1>1, <2>1 DEF ReportStarting
<1>2. CASE Connect(r) \/ Answered(r) \/ ReportLost(r) \/ ReportReconnected(r)
           \/ SessionStopped(r)
  BY <1>2 DEF Connect, Answered, ReportLost, ReportReconnected, SessionStopped,
              KeepAliveStates
<1>3. CASE ReportRedial(r) \/ ReportRebuild(r) \/ ReportError(r)
           \/ RetryNow(r) \/ ReportStopped(r)
  BY <1>3 DEF ReportRedial, ReportRebuild, ReportError, RetryNow, ReportStopped,
              States
<1>4. CASE RedialOutcome(r)
  BY <1>4 DEF RedialOutcome, Quietly, runtimeVars, States
<1>5. CASE Begin(r) \/ LoopTop(r) \/ ConnectFailed(r) \/ StoppedBeforeBound(r)
           \/ SendKeepAlive(r) \/ SessionLost(r) \/ RedialTop(r) \/ PortGone(r)
           \/ Resume(r) \/ PauseOver(r) \/ Close(r)
  BY <1>5 DEF Begin, LoopTop, ConnectFailed, StoppedBeforeBound, SendKeepAlive,
              SessionLost, RedialTop, PortGone, Resume, PauseOver, Close,
              Quietly, runtimeVars
<1>6. CASE Bound(r)
  BY <1>6 DEF Bound
<1> QED BY <1>1, <1>2, <1>3, <1>4, <1>5, <1>6 DEF RunnerStep

\* The manager's own changes of state leave the mapping alone.
LEMMA SetStatusCopies ==
  ASSUME RuntimeTypeOK, NEW s \in States, SetStatus(s)
  PROVE  status'.mapping = status.mapping
BY DEF SetStatus, RuntimeTypeOK, RuntimeStatus

\* A probe that has confirmed knows the public address it is to publish.
ConfirmedKnow ==
  \A p \in Probes :
    probe[p] \in {"confirmed", "updated"} => probeMap[p].public # NoPublic

\* The goroutine of a runner starts probes and cancels them, no more.
LEMMA RunnerStepProbes ==
  ASSUME NEW r \in Runners, RunnerStep(r)
  PROVE  \/ probe' = probe /\ probeMap' = probeMap
         \/ \E from \in Privates \cup {private[r]} : StartProbe(r, from)
<1>1. CASE Bound(r)
  BY <1>1 DEF Bound
<1>2. CASE Resume(r)
  BY <1>2 DEF Resume, probeVars
<1>3. CASE SessionLost(r) \/ SessionStopped(r)
  BY <1>3 DEF SessionLost, SessionStopped, CancelProbe
<1>4. CASE ReportStarting(r) \/ Connect(r) \/ Answered(r) \/ ReportLost(r)
           \/ ReportReconnected(r) \/ ReportRedial(r) \/ ReportRebuild(r)
           \/ ReportError(r) \/ RetryNow(r) \/ ReportStopped(r)
  BY <1>4 DEF ReportStarting, Connect, Answered, ReportLost, ReportReconnected,
     ReportRedial, ReportRebuild, ReportError, RetryNow, ReportStopped, Emit,
     probeVars
<1>5. CASE Begin(r) \/ LoopTop(r) \/ ConnectFailed(r) \/ StoppedBeforeBound(r)
           \/ SendKeepAlive(r) \/ RedialTop(r) \/ PortGone(r) \/ PauseOver(r)
           \/ Close(r)
  BY <1>5 DEF Begin, LoopTop, ConnectFailed, StoppedBeforeBound, SendKeepAlive,
              RedialTop, PortGone, PauseOver, Close, Quietly, probeVars
<1>6. CASE RedialOutcome(r)
  BY <1>6 DEF RedialOutcome, Quietly, Emit, probeVars
<1> QED BY <1>1, <1>2, <1>3, <1>4, <1>5, <1>6 DEF RunnerStep

\* Every step keeps it so.
LEMMA ConfirmedStep == IInv /\ ConfirmedKnow /\ [Next]_vars => ConfirmedKnow'
<1> SUFFICES ASSUME IInv, ConfirmedKnow, [Next]_vars PROVE ConfirmedKnow'
  OBVIOUS
<1>t. RunnerTypeOK
  BY DEF IInv, TypeOK
<1>same. probe' = probe /\ probeMap' = probeMap => ConfirmedKnow'
  BY DEF ConfirmedKnow
<1>1. CASE StartEnabled
  BY <1>1, <1>same DEF StartEnabled, probeVars
<1>2. CASE Crash
  BY <1>2 DEF Crash, ConfirmedKnow
<1>3. ASSUME NEW r \in Runners, WorkerStep(r) PROVE ConfirmedKnow'
  <2>1. ASSUME NEW from, StartProbe(r, from) PROVE ConfirmedKnow'
    <3>1. PICK p \in Probes :
            /\ probe' = [probe EXCEPT ![p] = "probing"]
            /\ probeMap' = [probeMap EXCEPT ![p] =
                              [public |-> NoPublic, private |-> from,
                               protocol |-> runCfg[r].protocol]]
      BY <2>1 DEF StartProbe
    <3> QED BY <1>t, <3>1 DEF ConfirmedKnow, RunnerTypeOK
  <2> QED BY <1>3, <1>same, <2>1, RunnerStepProbes DEF WorkerStep
<1>4. ASSUME NEW r \in Runners, Retire(r) PROVE ConfirmedKnow'
  BY <1>4, <1>same DEF Retire, probeVars
<1>5. ASSUME NEW p \in Probes, ProberStep(p) PROVE ConfirmedKnow'
  <2>1. CASE ProbeGivesUp(p) \/ Publish(p)
    <3>1. /\ probe' = [probe EXCEPT ![p] = "idle"]
          /\ probeMap' = [probeMap EXCEPT ![p] = NoMapping]
      BY <2>1 DEF ProbeGivesUp, Publish, ProbeEnds
    <3> QED BY <1>t, <3>1 DEF ConfirmedKnow, RunnerTypeOK
  <2>2. CASE ProbeConfirms(p)
    <3>1. PICK m \in Publics : probeMap' = [probeMap EXCEPT ![p].public = m]
      BY <2>2 DEF ProbeConfirms
    <3>2. probe' = [probe EXCEPT ![p] = "confirmed"]
      BY <2>2 DEF ProbeConfirms
    <3>3. probeMap[p] \in Mapping /\ m # NoPublic
      BY <1>t, NoPublicAssumption DEF RunnerTypeOK
    <3>4. probeMap'[p] = [probeMap[p] EXCEPT !.public = m]
      BY <1>t, <3>1 DEF RunnerTypeOK
    <3>5. probeMap'[p].public = m
      BY <3>3, <3>4 DEF Mapping
    <3>6. \A x \in Probes \ {p} : probe'[x] = probe[x] /\ probeMap'[x] = probeMap[x]
      BY <1>t, <3>1, <3>2 DEF RunnerTypeOK
    <3> QED BY <3>3, <3>5, <3>6 DEF ConfirmedKnow
  <2>3. CASE UpdateMapping(p)
    <3>1. probe[p] = "confirmed" /\ probeMap' = probeMap
          /\ probe' = [probe EXCEPT ![p] = "updated"]
      BY <2>3 DEF UpdateMapping
    <3> QED BY <1>t, <3>1 DEF ConfirmedKnow, RunnerTypeOK
  <2> QED BY <1>5, <2>1, <2>2, <2>3 DEF ProberStep, ProbeStep
<1>6. ASSUME NEW t \in Threads, NewRequest(t) PROVE ConfirmedKnow'
  BY <1>6, <1>same DEF NewRequest, NewCall, Create, UpdateServerGroups, Stays,
                       runnerVars, probeVars
<1>7. ASSUME NEW t \in Threads, ThreadStep(t) PROVE ConfirmedKnow'
  BY <1>7, <1>same DEF ThreadStep, StartGet, StartLocked, StopLocked,
     CancelTarget, StopDone, StopTimeout, ReplaceLocked, DropRunner, ClearLocked,
     ClearSaved, PutGet, PutUpdate, DeleteInstance, ApplyList, ApplyCheck, Stays,
     runnerVars, probeVars
<1>8. CASE UNCHANGED vars
  BY <1>8, <1>same DEF vars, runnerVars, probeVars
<1> QED BY <1>1, <1>2, <1>3, <1>4, <1>5, <1>6, <1>7, <1>8 DEF Next

\* A probe never publishes without a public address.
LEMMA ConfirmedHolds == Spec => []ConfirmedKnow
<1>1. Init => ConfirmedKnow
  BY DEF Init, RunnerInit, ConfirmedKnow
<1> QED BY <1>1, ConfirmedStep, IInvHolds, PTL DEF Spec

\* What a step may do to the two copies: leave them alone, change what is not
\* the address on display, make them equal, or empty one.
LEMMA HowCopiesChange ==
  ASSUME IInv, ConfirmedKnow, [Next]_vars
  PROVE  \/ persisted' = persisted /\ status'.mapping = status.mapping
         \/ /\ persisted' = persisted /\ status'.state = "starting"
            /\ status'.mapping.public = status.mapping.public
         \/ persisted' = status'.mapping
         \/ ~BothThere'
<1>t. RuntimeTypeOK /\ RunnerTypeOK
  BY DEF IInv, TypeOK
<1> DEFINE Kept == persisted' = persisted /\ status'.mapping = status.mapping
           Apart == /\ persisted' = persisted /\ status'.state = "starting"
                    /\ status'.mapping.public = status.mapping.public
           Goal == Kept \/ Apart \/ persisted' = status'.mapping \/ ~BothThere'
<1>s. \A s \in {"starting", "stopping", "stopped"} :
        SetStatus(s) => status'.mapping = status.mapping
  BY <1>t, SetStatusCopies DEF States
<1>1. CASE StartEnabled
  BY <1>1, <1>s DEF StartEnabled, Launch
<1>2. CASE Crash
  BY <1>2, NoMappingTypes DEF Crash, FreshStatus, BothThere
<1>3. ASSUME NEW r \in Runners, WorkerStep(r) PROVE Goal
  <2>1. run[r] = "begin" => runCfg[r] \in Config
    BY DEF IInv, WorkIsConfigured, Live, Working
  <2> QED BY <1>t, <1>3, <2>1, RunnerStepCopies DEF WorkerStep
<1>4. ASSUME NEW r \in Runners, Retire(r) PROVE Kept
  <2>1. persisted' = persisted
    BY <1>4 DEF Retire
  <2>2. status'.mapping = status.mapping
    BY <1>4, <1>s DEF Retire
  <2> QED BY <2>1, <2>2
<1>5. ASSUME NEW p \in Probes, ProberStep(p) PROVE Goal
  <2>1. CASE Publish(p)
    <3>1. /\ probeMap[p] \in Mapping /\ probeMap[p].public # NoPublic
          /\ Report(Published(probeMap[p]))
      BY <1>t, <2>1 DEF Publish, RunnerTypeOK, ConfirmedKnow
    <3> QED BY <1>t, <3>1, ReportCopies
  <2>2. CASE ProbeGivesUp(p) \/ ProbeConfirms(p) \/ UpdateMapping(p)
    BY <2>2 DEF ProbeGivesUp, ProbeConfirms, UpdateMapping, runtimeVars
  <2> QED BY <1>5, <2>1, <2>2 DEF ProberStep, ProbeStep
<1>6. ASSUME NEW t \in Threads, NewRequest(t) PROVE Kept
  BY <1>6 DEF NewRequest, NewCall, Create, UpdateServerGroups, Stays, runtimeVars
<1>7. ASSUME NEW t \in Threads, ThreadStep(t) PROVE Goal
  <2>1. CASE StartLocked(t) \/ StopLocked(t) \/ ReplaceLocked(t)
    <3>1. persisted' = persisted
      BY <2>1 DEF StartLocked, StopLocked, ReplaceLocked
    <3>2. status'.mapping = status.mapping
      BY <2>1, <1>s DEF StartLocked, StopLocked, ReplaceLocked, Launch
    <3> QED BY <3>1, <3>2
  <2>2. CASE ClearLocked(t)
    <3>1. status'.mapping = NoMapping
      BY <1>t, <2>2 DEF ClearLocked, ClearMapping, RuntimeTypeOK, RuntimeStatus
    <3> QED BY <3>1, NoMappingTypes DEF BothThere
  <2>3. CASE ClearSaved(t)
    BY <2>3, NoMappingTypes DEF ClearSaved, ClearRuntimeStatus, BothThere
  <2>4. CASE DeleteInstance(t)
    BY <2>4, NoMappingTypes DEF DeleteInstance, BothThere
  <2>5. CASE StartGet(t) \/ CancelTarget(t) \/ StopDone(t) \/ StopTimeout(t)
             \/ DropRunner(t) \/ PutGet(t) \/ PutUpdate(t) \/ ApplyList(t)
             \/ ApplyCheck(t)
    BY <2>5 DEF StartGet, CancelTarget, StopDone, StopTimeout, DropRunner,
       PutGet, PutUpdate, ApplyList, ApplyCheck, Stays, runtimeVars
  <2> QED BY <1>7, <2>1, <2>2, <2>3, <2>4, <2>5 DEF ThreadStep
<1>8. CASE UNCHANGED vars
  BY <1>8 DEF vars, runtimeVars
<1> QED BY <1>1, <1>2, <1>3, <1>4, <1>5, <1>6, <1>7, <1>8 DEF Next

\* The saved public address and the one on display agree or one of them is
\* empty, whichever goroutines publish while runners start, bind other ports
\* and stop and requests clear and delete (Manager.report, clearRuntime,
\* Store.DeleteInstance).
THEOREM SavedAddressHolds == Spec => []SavedAddressIsShown
<1>1. Init => SavedAddressIsShown
  <2> SUFFICES ASSUME Init PROVE SavedAddressIsShown
    OBVIOUS
  <2>1. status.mapping.public = NoPublic
    BY NoMappingTypes DEF Init, FreshStatus
  <2> QED BY <2>1 DEF SavedAddressIsShown, BothThere
<1>2. IInv /\ ConfirmedKnow /\ SavedAddressIsShown /\ [Next]_vars
        => SavedAddressIsShown'
  BY HowCopiesChange DEF SavedAddressIsShown, BothThere
<1> QED BY <1>1, <1>2, ConfirmedHolds, IInvHolds, PTL DEF Spec

\* Only a report of a runner that begins or has bound a session, which saves
\* nothing, sets agreeing copies apart: a publication saves what it shows.
THEOREM SetApartHolds == Spec => OnlyNewSessionsSetApart
<1>1. IInv /\ ConfirmedKnow /\ [Next]_vars =>
        [CopiesAgree /\ ~CopiesAgree'
           => status'.state = "starting" /\ UNCHANGED persisted]_vars
  BY HowCopiesChange DEF CopiesAgree, BothThere
<1> QED BY <1>1, ConfirmedHolds, IInvHolds, PTL DEF Spec, OnlyNewSessionsSetApart

-----------------------------------------------------------------------------
(* Manager implements SingleWorker (its safety; that a worker which has     *)
(* been told does stop needs fairness and stays with TLC).                  *)

\* The worker of the abstract specification is the one live runner, and it
\* has been told to stop when its context is cancelled.
LEMMA WorkerIsLive ==
  ASSUME IInv
  PROVE  /\ \A r \in Runners : Live(r) =>
              CurrentWorker = r /\ (ToldToStop <=> cancelled[r])
         /\ (\A r \in Runners : ~Live(r)) =>
              CurrentWorker = NoRunner /\ ToldToStop = FALSE
         /\ CurrentWorker # NoRunner =>
              CurrentWorker \in Runners /\ Live(CurrentWorker)
<1>1. ASSUME NEW r \in Runners, Live(r)
      PROVE  CurrentWorker = r /\ (ToldToStop <=> cancelled[r])
  <2>1. \A x \in Runners : Live(x) <=> x = r
    BY <1>1 DEF IInv, LiveRunnerIsRegistered
  <2>2. CurrentWorker = r
    BY <2>1 DEF CurrentWorker
  <2> QED BY <2>1, <2>2 DEF ToldToStop
<1>2. (\A r \in Runners : ~Live(r)) =>
         CurrentWorker = NoRunner /\ ToldToStop = FALSE
  BY DEF CurrentWorker, ToldToStop
<1> QED BY <1>1, <1>2

\* Of a runner's own steps only the last one, the deferred cancel of Run,
\* touches its context.
LEMMA OnlyCloseCancels ==
  ASSUME NEW r \in Runners, RunnerStep(r)
  PROVE  cancelled' = cancelled \/ Close(r)
<1> USE DEF Emit, Quietly
<1>1. CASE Begin(r) \/ ReportStarting(r) \/ LoopTop(r) \/ Connect(r)
           \/ ConnectFailed(r) \/ Bound(r) \/ StoppedBeforeBound(r)
  BY <1>1 DEF Begin, ReportStarting, LoopTop, Connect, ConnectFailed, Bound,
              StoppedBeforeBound
<1>2. CASE SendKeepAlive(r) \/ Answered(r) \/ SessionLost(r)
           \/ SessionStopped(r) \/ ReportLost(r)
  BY <1>2 DEF SendKeepAlive, Answered, SessionLost, SessionStopped, ReportLost
<1>3. CASE RedialTop(r) \/ ReportRedial(r) \/ RedialOutcome(r) \/ PortGone(r)
           \/ ReportReconnected(r) \/ Resume(r)
  BY <1>3 DEF RedialTop, ReportRedial, RedialOutcome, PortGone,
              ReportReconnected, Resume
<1>4. CASE ReportRebuild(r) \/ ReportError(r) \/ PauseOver(r) \/ RetryNow(r)
           \/ ReportStopped(r)
  BY <1>4 DEF ReportRebuild, ReportError, PauseOver, RetryNow, ReportStopped
<1> QED BY <1>1, <1>2, <1>3, <1>4 DEF RunnerStep

\* A step that moves no runner and cancels nobody is invisible.
LEMMA SameWorker ==
  ASSUME run' = run, cancelled' = cancelled
  PROVE  CurrentWorker' = CurrentWorker /\ ToldToStop' = ToldToStop
BY DEF CurrentWorker, ToldToStop, Live

\* The same facts about the next state.
LEMMA WorkerIsLiveNext ==
  ASSUME IInv'
  PROVE  /\ \A r \in Runners : Live(r)' =>
              CurrentWorker' = r /\ (ToldToStop' <=> cancelled'[r])
         /\ (\A r \in Runners : ~Live(r)') =>
              CurrentWorker' = NoRunner /\ ToldToStop' = FALSE
<1>1. ASSUME NEW r \in Runners, Live(r)'
      PROVE  CurrentWorker' = r /\ (ToldToStop' <=> cancelled'[r])
  <2>1. \A x \in Runners : Live(x)' <=> x = r
    BY <1>1 DEF IInv, LiveRunnerIsRegistered
  <2>2. CurrentWorker' = r
    BY <2>1 DEF CurrentWorker
  <2> QED BY <2>1, <2>2 DEF ToldToStop
<1>2. (\A r \in Runners : ~Live(r)') =>
         CurrentWorker' = NoRunner /\ ToldToStop' = FALSE
  BY DEF CurrentWorker, ToldToStop
<1> QED BY <1>1, <1>2

\* Launch is Start of SingleWorker: nobody worked, and the new context is
\* not cancelled.
LEMMA LaunchIsStart ==
  ASSUME IInv, IInv', NEW cfg \in Config \cup {NoItem}, Launch(cfg)
  PROVE  \E w \in Runners : Worker!Start(w)
<1>1. TypeOK BY DEF IInv
<1>2. PICK r \in Runners :
        /\ registered = NoRunner /\ registered' = r
        /\ run' = [run EXCEPT ![r] = "spawned"]
        /\ cancelled' = [cancelled EXCEPT ![r] = FALSE]
  BY DEF Launch
<1>3. CurrentWorker = NoRunner
  BY <1>2, WorkerIsLive, NoRunnerAssumption DEF IInv, LiveRunnerIsRegistered
<1>4. run'[r] = "spawned" /\ cancelled'[r] = FALSE
  BY <1>1, <1>2 DEF TypeOK, RunnerTypeOK
<1>5. Live(r)'
  BY <1>4 DEF Live, Working
<1>6. CurrentWorker' = r /\ ToldToStop' = FALSE
  <2>1. CurrentWorker' = r /\ (ToldToStop' <=> cancelled'[r])
    BY <1>5, WorkerIsLiveNext
  <2> QED BY <1>4, <2>1 DEF ToldToStop
<1> QED BY <1>3, <1>6 DEF Worker!Start

\* A cancellation reaches at most the one worker.
LEMMA CancelIsTell ==
  ASSUME IInv, IInv', run' = run, NEW t, NEW b \in BOOLEAN,
         cancelled' = [cancelled EXCEPT ![t] = @ \/ b]
  PROVE  Worker!Tell \/ UNCHANGED Worker!wvars
<1>1. cancelled \in [Runners -> BOOLEAN]
  BY DEF IInv, TypeOK, RunnerTypeOK
<1>2. CASE \A r \in Runners : ~Live(r)
  <2>1. \A r \in Runners : ~Live(r)'
    BY <1>2 DEF Live
  <2>2. /\ CurrentWorker = NoRunner /\ ToldToStop = FALSE
        /\ CurrentWorker' = NoRunner /\ ToldToStop' = FALSE
    BY <1>2, <2>1, WorkerIsLive, WorkerIsLiveNext
  <2> QED BY <2>2 DEF Worker!wvars
<1>3. ASSUME NEW r \in Runners, Live(r)
      PROVE  Worker!Tell \/ UNCHANGED Worker!wvars
  <2>1. Live(r)'
    BY <1>3 DEF Live
  <2>2. /\ CurrentWorker = r /\ (ToldToStop <=> cancelled[r])
        /\ CurrentWorker' = r /\ (ToldToStop' <=> cancelled'[r])
    BY <1>3, <2>1, WorkerIsLive, WorkerIsLiveNext
  <2>3. r # NoRunner
    BY NoRunnerAssumption
  <2>4. cancelled'[r] = cancelled[r] \/ cancelled'[r] = TRUE
    BY <1>1
  <2>5. CASE cancelled'[r] = TRUE
    <3>1. ToldToStop' = TRUE
      BY <2>2, <2>5 DEF ToldToStop
    <3> QED BY <2>2, <2>3, <3>1 DEF Worker!Tell
  <2>6. CASE cancelled'[r] = cancelled[r]
    <3>1. ToldToStop' = ToldToStop
      BY <2>2, <2>6 DEF ToldToStop
    <3> QED BY <2>2, <3>1 DEF Worker!wvars
  <2> QED BY <2>4, <2>5, <2>6
<1> QED BY <1>2, <1>3

\* When nobody works afterwards, the worker has ended, if there was one.
LEMMA NobodyIsEnd ==
  ASSUME IInv, IInv', \A r \in Runners : ~Live(r)'
  PROVE  Worker!End \/ UNCHANGED Worker!wvars
<1>1. CurrentWorker' = NoRunner /\ ToldToStop' = FALSE
  BY WorkerIsLiveNext
<1>2. CASE CurrentWorker = NoRunner
  <2>1. ToldToStop = FALSE
    BY <1>2, WorkerIsLive, NoRunnerAssumption
  <2> QED BY <1>1, <1>2, <2>1 DEF Worker!wvars
<1>3. CASE CurrentWorker # NoRunner
  BY <1>1, <1>3 DEF Worker!End
<1> QED BY <1>2, <1>3

\* Every step of Manager is a step of SingleWorker or leaves it alone.
LEMMA StepImplements ==
  IInv /\ IInv' /\ [Next]_vars => [Worker!Next]_(Worker!wvars)
<1> SUFFICES ASSUME IInv, IInv', [Next]_vars
             PROVE  Worker!Next \/ UNCHANGED Worker!wvars
  OBVIOUS
<1>t. /\ TypeOK /\ RuntimeTypeOK /\ RunnerTypeOK /\ call \in [Threads -> Calls]
      /\ cancelled \in [Runners -> BOOLEAN] /\ cancelSet \in [Runners -> BOOLEAN]
      /\ item \in Config \cup {NoItem} /\ run \in [Runners -> RunStates]
  BY DEF IInv, TypeOK, RunnerTypeOK
<1>same. run' = run /\ cancelled' = cancelled => UNCHANGED Worker!wvars
  BY SameWorker DEF Worker!wvars
<1>start. ASSUME NEW cfg \in Config \cup {NoItem}, Launch(cfg) PROVE Worker!Next
  BY <1>start, LaunchIsStart DEF Worker!Next
<1>end. (\A r \in Runners : ~Live(r)') => Worker!Next \/ UNCHANGED Worker!wvars
  BY NobodyIsEnd DEF Worker!Next
<1>1. CASE StartEnabled
  <2>1. CASE item # NoItem /\ item.enabled
    BY <1>t, <1>1, <2>1, <1>start DEF StartEnabled
  <2>2. CASE ~(item # NoItem /\ item.enabled)
    BY <1>1, <2>2, <1>same DEF StartEnabled, runVars
  <2> QED BY <2>1, <2>2
<1>2. CASE Crash
  <2>1. \A r \in Runners : ~Live(r)'
    BY <1>2 DEF Crash, Live, Working
  <2> QED BY <2>1, <1>end
<1>3. ASSUME NEW r \in Runners, WorkerStep(r)
      PROVE  Worker!Next \/ UNCHANGED Worker!wvars
  <2>1. /\ Live(r) /\ run'[r] \in Working \cup {"done"}
        /\ run' = [run EXCEPT ![r] = run'[r]]
    BY <1>t, <1>3, RunnerStepMoves DEF WorkerStep, IInv, WorkIsConfigured
  <2>2. \A x \in Runners : x # r => ~Live(x)'
    BY <1>t, <1>3, <2>1 DEF IInv, LiveRunnerIsRegistered, Live
  <2>3. CASE run'[r] = "done"
    <3>1. ~Live(r)'
      BY <2>3 DEF Live, Working
    <3> QED BY <2>2, <3>1, <1>end
  <2>4. CASE run'[r] \in Working
    <3>1. ~Close(r)
      BY <1>t, <2>4 DEF Close, Goto, Working
    <3>2. cancelled' = cancelled
      BY <1>3, <3>1, OnlyCloseCancels DEF WorkerStep
    <3>3. Live(r)'
      BY <2>4 DEF Live
    <3>4. CurrentWorker = r /\ (ToldToStop <=> cancelled[r])
      BY <2>1, WorkerIsLive
    <3>5. CurrentWorker' = r /\ (ToldToStop' <=> cancelled'[r])
      BY <3>3, WorkerIsLiveNext
    <3>6. ToldToStop' = ToldToStop
      BY <3>2, <3>4, <3>5 DEF ToldToStop
    <3> QED BY <3>4, <3>5, <3>6 DEF Worker!wvars
  <2> QED BY <2>1, <2>3, <2>4
<1>4. ASSUME NEW r \in Runners, Retire(r) PROVE UNCHANGED Worker!wvars
  <2>1. /\ run[r] = "done" /\ run' = [run EXCEPT ![r] = "free"]
        /\ cancelled' = cancelled
    BY <1>4 DEF Retire, Goto
  <2>2. \A x \in Runners : run'[x] \in Working <=> run[x] \in Working
    BY <1>t, <2>1 DEF Working
  <2> QED BY <2>1, <2>2 DEF Worker!wvars, CurrentWorker, ToldToStop, Live
<1>5. ASSUME NEW p \in Probes, ProberStep(p) PROVE UNCHANGED Worker!wvars
  <2>1. run' = run
    BY <1>t, <1>5, ProbeStepTypes DEF ProberStep
  <2>2. cancelled' = cancelled
    BY <1>5 DEF ProberStep, ProbeStep, ProbeGivesUp, ProbeConfirms,
                UpdateMapping, Publish, runVars
  <2> QED BY <2>1, <2>2, <1>same
<1>6. ASSUME NEW t \in Threads, NewRequest(t) PROVE UNCHANGED Worker!wvars
  BY <1>6, <1>same DEF NewRequest, NewCall, Create, UpdateServerGroups, Stays,
                       runnerVars, runVars
<1>7. ASSUME NEW t \in Threads, ThreadStep(t)
      PROVE  Worker!Next \/ UNCHANGED Worker!wvars
  <2>1. CASE StartLocked(t)
    <3>1. CASE Launch(call[t].cfg)
      <4>1. call[t].cfg \in Config \cup {NoItem}
        BY <1>t DEF Calls
      <4> QED BY <3>1, <4>1, <1>start
    <3>2. CASE UNCHANGED <<runVars, registered, status>>
      BY <3>2, <1>same DEF runVars
    <3> QED BY <2>1, <3>1, <3>2 DEF StartLocked
  <2>2. CASE CancelTarget(t)
    <3>1. /\ run' = run
          /\ cancelled' = [cancelled EXCEPT ![call[t].target] =
                             @ \/ cancelSet[call[t].target]]
      BY <2>2 DEF CancelTarget
    <3>2. CASE call[t].target \in Runners
      BY <1>t, <3>1, <3>2, CancelIsTell DEF Worker!Next
    <3>3. CASE call[t].target \notin Runners
      <4>1. cancelled' = cancelled
        BY <1>t, <3>1, <3>3
      <4> QED BY <3>1, <4>1, <1>same
    <3> QED BY <3>2, <3>3
  <2>3. CASE StartGet(t) \/ StopDone(t) \/ StopTimeout(t) \/ PutGet(t)
             \/ ApplyList(t) \/ ApplyCheck(t)
    BY <2>3, <1>same DEF StartGet, StopDone, StopTimeout, PutGet, ApplyList,
       ApplyCheck, Stays, runnerVars, runVars
  <2>4. CASE StopLocked(t) \/ ReplaceLocked(t) \/ DropRunner(t)
             \/ ClearLocked(t) \/ ClearSaved(t) \/ PutUpdate(t)
             \/ DeleteInstance(t)
    BY <2>4, <1>same DEF StopLocked, ReplaceLocked, DropRunner, ClearLocked,
       ClearSaved, PutUpdate, DeleteInstance, runnerVars, runVars
  <2> QED BY <1>7, <2>1, <2>2, <2>3, <2>4 DEF ThreadStep
<1>8. CASE UNCHANGED vars
  BY <1>8, <1>same DEF vars, runnerVars, runVars
<1> QED BY <1>1, <1>2, <1>3, <1>4, <1>5, <1>6, <1>7, <1>8 DEF Next

\* Seen from outside there is one worker at a time: it starts only when none
\* works, it is never un-told, and what the registry, the requests and the
\* runner's own goroutine do besides is not visible (Start, Stop,
\* ReplaceConfig, Runner.Run).
THEOREM ImplementsSingleWorker == Spec => Worker!Safety
<1>1. Init => Worker!Init
  <2> SUFFICES ASSUME Init PROVE Worker!Init
    OBVIOUS
  <2>1. \A r \in Runners : ~Live(r)
    BY DEF Init, RunnerInit, Live, Working
  <2>2. CurrentWorker = NoRunner /\ ToldToStop = FALSE
    BY <2>1, InitIInv, WorkerIsLive
  <2> QED BY <2>2 DEF Worker!Init
<1> QED BY <1>1, StepImplements, IInvHolds, PTL DEF Spec, Worker!Safety

-----------------------------------------------------------------------------
(* The stored configuration is the one that runs.  The code promises this  *)
(* for requests made one after the other, none of which gives up its wait; *)
(* with two at once Start may launch what another request has replaced.    *)

OneAtATime == (\A s, t \in Threads : s = t) /\ ~TimeoutsFire

\* The registered runner is at work.
Serving == registered # NoRunner /\ run[registered] \in Working

\* What works for the instance does so with the stored configuration, and an
\* instance that has been deleted has nothing at work.
Settled ==
  Serving => item # NoItem /\ (item.enabled => runCfg[registered] = item)

\* Where a request has not yet disturbed that, or has restored it.
Quiet == {"idle", "start", "startLocked", "stop", "putGet", "putUpdate"}

\* What the request in progress knows about the registry and its locals.
RequestOK(t) ==
  /\ pc[t] \in {"clear", "clearStore", "delete"} => ~Serving
  /\ pc[t] \in {"cancel", "wait", "drop"} =>
       registered \in {NoRunner, call[t].target}
  /\ pc[t] \in {"putGet", "putUpdate"} /\ ~call[t].wasRunning =>
       registered = NoRunner
  /\ pc[t] = "startLocked" => call[t].cfg = item /\ item # NoItem
  /\ pc[t] = "apply" => item # NoItem
  /\ pc[t] = "applyCheck" =>
       call[t].cfg = item /\ item # NoItem /\ item.enabled

ConfigInv ==
  /\ OneAtATime
  /\ ~booted => \A t \in Threads : pc[t] = "idle"
  /\ (\A t \in Threads : pc[t] \in Quiet) => Settled
  /\ \A t \in Threads : RequestOK(t)

\* What the goroutines behind a runner may do to it: end the work, retire it.
LEMMA WorkEndsKeeps ==
  ASSUME ConfigInv, UNCHANGED <<booted, item, pc, call>>,
         registered' = registered \/ registered' = NoRunner,
         Serving' => /\ Serving /\ registered' = registered
                     /\ runCfg'[registered] = runCfg[registered]
  PROVE  ConfigInv'
<1>1. Settled => Settled'
  BY DEF Settled
<1>2. ASSUME NEW t \in Threads PROVE RequestOK(t)'
  BY <1>2 DEF ConfigInv, RequestOK
<1> QED BY <1>1, <1>2 DEF ConfigInv, OneAtATime

\* The only request in progress has moved on to `to` with the locals d.
LEMMA OneRequestMoves ==
  ASSUME ConfigInv, IInv, NEW t \in Threads, NEW to \in ThreadStates,
         NEW d, Proceed(t, to, d), booted' = booted, booted \/ pc[t] # "idle",
         to \in Quiet => Settled',
         to # "idle" /\ pc'[t] = to /\ call'[t] = d => RequestOK(t)'
  PROVE  ConfigInv'
<1>1. pc \in [Threads -> ThreadStates] /\ call \in [Threads -> Calls]
  BY DEF IInv, TypeOK
<1>2. pc'[t] = to /\ (to # "idle" => call'[t] = d)
  BY <1>1 DEF Proceed
<1>3. \A x \in Threads : x = t
  BY DEF ConfigInv, OneAtATime
<1>4. booted'
  BY DEF ConfigInv
<1>5. (\A x \in Threads : pc'[x] \in Quiet) => Settled'
  BY <1>2
<1>6. RequestOK(t)'
  <2>1. CASE to = "idle"
    BY <1>2, <2>1 DEF RequestOK
  <2>2. CASE to # "idle"
    BY <1>2, <2>2
  <2> QED BY <2>1, <2>2
<1>7. \A x \in Threads : RequestOK(x)'
  BY <1>3, <1>6
<1>8. OneAtATime'
  BY DEF ConfigInv, OneAtATime
<1> QED BY <1>4, <1>5, <1>7, <1>8 DEF ConfigInv

\* What Replace leads to, by the new configuration and by whether the caller
\* found a runner.
LEMMA ReplaceLeads ==
  ASSUME NEW t, NEW old, NEW new, NEW b \in BOOLEAN, Replace(t, old, new, b)
  PROVE  \E to \in {"stop", "idle", "replace", "clear", "start"} : \E d :
           /\ Proceed(t, to, d)
           /\ new.enabled /\ b => to = "replace"
           /\ b => to \in {"stop", "replace"}
           /\ to = "stop" => ~new.enabled
<1> DEFINE c == [NoCall EXCEPT !.changed = PublicMappingConfigChanged(old, new)]
           then == IF PublicMappingConfigChanged(old, new) THEN "clear" ELSE "return"
           fresh == IF PublicMappingConfigChanged(old, new) THEN "clear" ELSE "start"
<1>1. CASE ~new.enabled /\ b
  <2>1. Proceed(t, "stop", [c EXCEPT !.then = then])
    BY <1>1 DEF Replace
  <2> QED BY <1>1, <2>1
<1>2. CASE ~new.enabled /\ ~b
  <2>1. Proceed(t, "idle", NoCall)
    BY <1>2 DEF Replace
  <2> QED BY <1>2, <2>1
<1>3. CASE new.enabled /\ b
  <2>1. Proceed(t, "replace", [c EXCEPT !.then = "restart"])
    BY <1>3 DEF Replace
  <2> QED BY <1>3, <2>1
<1>4. CASE new.enabled /\ ~b
  <2>1. Proceed(t, fresh, [c EXCEPT !.then = "restart"])
    BY <1>4 DEF Replace
  <2>2. fresh \in {"clear", "start"}
    OBVIOUS
  <2> HIDE DEF c, fresh
  <2> QED BY <1>4, <2>1, <2>2
<1> QED BY <1>1, <1>2, <1>3, <1>4

\* A launch puts the given configuration to work.
LEMMA LaunchServes ==
  ASSUME TypeOK, NEW cfg \in Config, Launch(cfg), item' = item, item = cfg
  PROVE  Settled'
<1>1. PICK r \in Runners :
        registered' = r /\ runCfg' = [runCfg EXCEPT ![r] = cfg]
  BY DEF Launch
<1>2. runCfg'[r] = cfg
  BY <1>1 DEF TypeOK, RunnerTypeOK
<1> QED BY <1>1, <1>2, NoItemAssumption DEF Settled

\* A request begins.
LEMMA NewRequestConfig ==
  ASSUME IInv, ConfigInv, NEW t \in Threads, NewRequest(t)
  PROVE  ConfigInv'
<1>1. /\ booted /\ pc[t] = "idle" /\ \A x \in Threads : x = t
      /\ UNCHANGED <<run, runCfg, registered, booted>>
  BY DEF NewRequest, NewCall, Create, UpdateServerGroups, At, Stays, ConfigInv,
         OneAtATime, runnerVars, runVars
<1>2. Settled
  BY <1>1 DEF ConfigInv, Quiet
<1>3. item' = item => Settled'
  BY <1>1, <1>2 DEF Settled, Serving
<1>4. CASE NewCall(t)
  <2>1. item' = item
    BY <1>4 DEF NewCall, Stays
  <2>2. ASSUME NEW d, Proceed(t, "start", d) \/ Proceed(t, "stop", d)
        PROVE  ConfigInv'
    <3>1. PICK to \in {"start", "stop"} : Proceed(t, to, d)
      BY <2>2
    <3> QED BY <1>1, <1>3, <2>1, <3>1, OneRequestMoves DEF ThreadStates, RequestOK
  <2>3. ASSUME Proceed(t, "putGet", [NoCall EXCEPT !.wasRunning = registered # NoRunner])
        PROVE  ConfigInv'
    <3> DEFINE d == [NoCall EXCEPT !.wasRunning = registered # NoRunner]
    <3>1. ~d.wasRunning => registered = NoRunner
      BY DEF NoCall
    <3>2. pc'[t] = "putGet" /\ call'[t] = d => RequestOK(t)'
      BY <1>1, <3>1 DEF RequestOK
    <3> HIDE DEF d
    <3>3. Proceed(t, "putGet", d)
      BY <2>3 DEF d
    <3> QED BY <1>1, <1>3, <2>1, <3>2, <3>3, OneRequestMoves DEF ThreadStates
  <2> QED BY <1>4, <2>2, <2>3 DEF NewCall
<1>5. CASE Create(t)
  <2>1. ~Serving'
    BY <1>1, <1>2, <1>5 DEF Create, Settled, Serving
  <2>2. Settled'
    BY <2>1 DEF Settled
  <2>3. CASE Proceed(t, "start", NoCall)
    BY <1>1, <2>2, <2>3, OneRequestMoves DEF ThreadStates, RequestOK
  <2>4. CASE UNCHANGED callVars
    <3>1. pc' = pc
      BY <2>4 DEF callVars
    <3>2. \A x \in Threads : RequestOK(x)'
      BY <1>1, <3>1 DEF RequestOK
    <3> QED BY <1>1, <2>2, <3>2 DEF ConfigInv, OneAtATime
  <2> QED BY <1>5, <2>3, <2>4 DEF Create
<1>6. CASE UpdateServerGroups(t)
  <2>1. PICK v \in Rests : item' = [item EXCEPT !.rest = v]
    BY <1>6 DEF UpdateServerGroups
  <2>2. item \in Config
    BY <1>6 DEF UpdateServerGroups, IInv, TypeOK
  <2>3. item' \in Config
    BY <2>1, <2>2 DEF Config
  <2>4. item' # NoItem
    BY <2>3, NoItemAssumption
  <2>5. Proceed(t, "apply", NoCall)
    BY <1>6 DEF UpdateServerGroups
  <2> QED BY <1>1, <2>4, <2>5, OneRequestMoves DEF ThreadStates, Quiet, RequestOK
<1> QED BY <1>4, <1>5, <1>6 DEF NewRequest

\* A request takes its next step.
LEMMA ThreadStepConfig ==
  ASSUME IInv, ConfigInv, NEW t \in Threads, ThreadStep(t)
  PROVE  ConfigInv'
<1>1. /\ TypeOK /\ item \in Config \cup {NoItem}
      /\ pc[t] \in ThreadStates /\ call[t] \in Calls
      /\ registered \in Runners \cup {NoRunner}
  BY DEF IInv, TypeOK
<1>2. /\ \A x \in Threads : x = t
      /\ ~TimeoutsFire /\ RequestOK(t)
      /\ pc[t] \in Quiet => Settled
  BY DEF ConfigInv, OneAtATime
<1>3. pc[t] # "idle" /\ booted' = booted
  BY DEF ThreadStep, StartGet, StartLocked, StopLocked, CancelTarget, StopDone,
         StopTimeout, ReplaceLocked, DropRunner, ClearLocked, ClearSaved,
         PutGet, PutUpdate, DeleteInstance, ApplyList, ApplyCheck, At, Stays
<1>4. ASSUME NEW to \in ThreadStates, NEW d, Proceed(t, to, d),
             to \in Quiet => Settled',
             to # "idle" /\ pc'[t] = to /\ call'[t] = d => RequestOK(t)'
      PROVE  ConfigInv'
  BY <1>3, <1>4, OneRequestMoves
<1>5. ~Serving' => Settled'
  BY DEF Settled
<1>6. Settled /\ UNCHANGED <<run, runCfg, registered, item>> => Settled'
  BY DEF Settled, Serving
<1>7. ASSUME ~Serving', NEW d,
             NEW to \in {"idle", "start", "clear", "clearStore", "delete"},
             Proceed(t, to, d)
      PROVE  ConfigInv'
  <2>1. to \in ThreadStates
    BY DEF ThreadStates
  <2> QED BY <1>4, <1>5, <1>7, <2>1 DEF RequestOK
<1>8. Stays => UNCHANGED <<run, runCfg, registered, item>>
  BY DEF Stays, runnerVars, runVars
<1>11. CASE StartGet(t)
  <2>1. Settled' /\ item' = item
    BY <1>2, <1>6, <1>8, <1>11 DEF StartGet, At, Quiet
  <2>2. CASE item = NoItem
    BY <1>4, <1>11, <2>1, <2>2 DEF StartGet, ThreadStates, RequestOK
  <2>3. CASE item # NoItem
    <3> DEFINE d == [NoCall EXCEPT !.cfg = item]
    <3>1. d.cfg = item
      BY DEF NoCall
    <3>2. Proceed(t, "startLocked", d)
      BY <1>11, <2>3 DEF StartGet
    <3> HIDE DEF d
    <3>3. pc'[t] = "startLocked" /\ call'[t] = d => RequestOK(t)'
      BY <2>1, <2>3, <3>1 DEF RequestOK
    <3> QED BY <1>4, <2>1, <3>2, <3>3 DEF ThreadStates
  <2> QED BY <2>2, <2>3
<1>12. CASE StartLocked(t)
  <2>1. call[t].cfg = item /\ item \in Config /\ item' = item /\ Settled
    BY <1>1, <1>2, <1>12 DEF StartLocked, At, RequestOK, Quiet
  <2>2. Settled'
    <3>1. CASE Launch(call[t].cfg)
      BY <1>1, <2>1, <3>1, LaunchServes
    <3>2. CASE UNCHANGED <<runVars, registered, status>>
      BY <1>6, <2>1, <3>2 DEF runVars
    <3> QED BY <1>12, <3>1, <3>2 DEF StartLocked
  <2> QED BY <1>4, <1>12, <2>2 DEF StartLocked, ThreadStates
<1>13. CASE StopLocked(t)
  <2>1. UNCHANGED <<run, runCfg, registered, item>>
    BY <1>13 DEF StopLocked, runnerVars, runVars
  <2>2. CASE registered = NoRunner
    <3>1. ~Serving'
      BY <2>1, <2>2 DEF Serving
    <3>2. AfterStop(call[t]) \in {"idle", "clear", "delete"}
      BY <1>1, <1>13 DEF StopLocked, At, IInv, StopIsNotRestart, AfterStop,
                         Calls, Continuations
    <3> QED BY <1>7, <1>13, <2>2, <3>1, <3>2 DEF StopLocked
  <2>3. CASE registered # NoRunner
    <3>1. [call[t] EXCEPT !.target = registered].target = registered
      BY <1>1 DEF Calls
    <3>2. Proceed(t, "cancel", [call[t] EXCEPT !.target = registered])
      BY <1>13, <2>3 DEF StopLocked
    <3> QED BY <1>4, <2>1, <3>1, <3>2 DEF ThreadStates, Quiet, RequestOK
  <2> QED BY <2>2, <2>3
<1>14. CASE CancelTarget(t)
  <2>1. registered' = registered /\ registered \in {NoRunner, call[t].target}
    BY <1>2, <1>14 DEF CancelTarget, At, RequestOK
  <2>2. Proceed(t, "wait", call[t])
    BY <1>14 DEF CancelTarget
  <2> QED BY <1>4, <2>1, <2>2 DEF ThreadStates, Quiet, RequestOK
<1>15. CASE StopDone(t)
  <2>1. registered \in {NoRunner, call[t].target} /\ run' = run
        /\ registered' = registered /\ run[call[t].target] \in {"done", "free"}
    BY <1>2, <1>8, <1>15 DEF StopDone, At, RequestOK
  <2>2. ~Serving'
    BY <2>1 DEF Serving, Working
  <2>3. CASE call[t].then = "restart"
    <3>1. Proceed(t, "drop", call[t])
      BY <1>15, <2>3 DEF StopDone
    <3> QED BY <1>4, <2>1, <3>1 DEF ThreadStates, Quiet, RequestOK
  <2>4. CASE call[t].then # "restart"
    <3>1. AfterStop(call[t]) \in {"idle", "clear", "delete"}
      BY <1>1, <2>4 DEF AfterStop, Calls, Continuations
    <3> QED BY <1>7, <1>15, <2>2, <2>4, <3>1 DEF StopDone
  <2> QED BY <2>3, <2>4
<1>16. CASE StopTimeout(t)
  BY <1>2, <1>16 DEF StopTimeout
<1>17. CASE ReplaceLocked(t)
  <2>1. UNCHANGED <<run, runCfg, registered, item>>
    BY <1>17 DEF ReplaceLocked, runnerVars, runVars
  <2>2. CASE registered = NoRunner
    <3>1. ~Serving'
      BY <2>1, <2>2 DEF Serving
    <3>2. PICK to \in {"clear", "start"} : Proceed(t, to, call[t])
      BY <1>17, <2>2 DEF ReplaceLocked
    <3> QED BY <1>7, <3>1, <3>2
  <2>3. CASE registered # NoRunner
    <3>1. [call[t] EXCEPT !.target = registered].target = registered
      BY <1>1 DEF Calls
    <3>2. Proceed(t, "cancel", [call[t] EXCEPT !.target = registered])
      BY <1>17, <2>3 DEF ReplaceLocked
    <3> QED BY <1>4, <2>1, <3>1, <3>2 DEF ThreadStates, Quiet, RequestOK
  <2> QED BY <2>2, <2>3
<1>18. CASE DropRunner(t)
  <2>1. registered \in {NoRunner, call[t].target}
    BY <1>2, <1>18 DEF DropRunner, At, RequestOK
  <2>2. registered' = NoRunner
    BY <1>18, <2>1 DEF DropRunner
  <2>3. ~Serving'
    BY <2>2 DEF Serving
  <2>4. PICK to \in {"clear", "start"} :
          Proceed(t, to, [call[t] EXCEPT !.target = NoRunner])
    BY <1>18 DEF DropRunner
  <2> QED BY <1>7, <2>3, <2>4
<1>19. CASE ClearLocked(t)
  <2>1. ~Serving
    BY <1>2, <1>19 DEF ClearLocked, At, RequestOK
  <2>2. ~Serving'
    BY <1>19, <2>1 DEF ClearLocked, Serving, runnerVars, runVars
  <2> QED BY <1>7, <1>19, <2>2 DEF ClearLocked
<1>20. CASE ClearSaved(t)
  <2>1. ~Serving
    BY <1>2, <1>20 DEF ClearSaved, At, RequestOK
  <2>2. ~Serving'
    BY <1>20, <2>1 DEF ClearSaved, Serving, runnerVars, runVars
  <2>3. PICK to \in {"start", "idle"} : Proceed(t, to, call[t])
    BY <1>20 DEF ClearSaved
  <2> QED BY <1>7, <2>2, <2>3
<1>21. CASE PutGet(t)
  <2>1. /\ Settled' /\ registered' = registered
        /\ ~call[t].wasRunning => registered = NoRunner
    BY <1>2, <1>6, <1>8, <1>21 DEF PutGet, At, Quiet, RequestOK
  <2>2. CASE item = NoItem
    BY <1>4, <1>21, <2>1, <2>2 DEF PutGet, ThreadStates, RequestOK
  <2>3. CASE item # NoItem
    <3>1. [call[t] EXCEPT !.cfg = item].wasRunning = call[t].wasRunning
      BY <1>1 DEF Calls
    <3>2. Proceed(t, "putUpdate", [call[t] EXCEPT !.cfg = item])
      BY <1>21, <2>3 DEF PutGet
    <3> QED BY <1>4, <2>1, <3>1, <3>2 DEF ThreadStates, RequestOK
  <2> QED BY <2>2, <2>3
<1>22. CASE PutUpdate(t)
  <2>1. /\ Settled /\ UNCHANGED <<run, runCfg, registered>>
        /\ ~call[t].wasRunning => registered = NoRunner
    BY <1>2, <1>22 DEF PutUpdate, At, Quiet, RequestOK, runnerVars, runVars
  <2>2. CASE item = NoItem
    <3>1. ~Serving'
      BY <1>22, <2>1, <2>2 DEF PutUpdate, Settled, Serving
    <3> QED BY <1>7, <1>22, <2>2, <3>1 DEF PutUpdate
  <2>3. CASE item # NoItem
    <3>1. item' \in Config /\ Replace(t, call[t].cfg, item', call[t].wasRunning)
      BY <1>22, <2>3 DEF PutUpdate
    <3>2. call[t].wasRunning \in BOOLEAN /\ item' # NoItem
      BY <1>1, <3>1, NoItemAssumption DEF Calls
    <3>3. PICK to \in {"stop", "idle", "replace", "clear", "start"} : \E d :
            /\ Proceed(t, to, d)
            /\ call[t].wasRunning => to \in {"stop", "replace"}
            /\ to = "stop" => ~item'.enabled
      BY <3>1, <3>2, ReplaceLeads
    <3>d. PICK d : Proceed(t, to, d)
      BY <3>3
    <3>4. CASE to = "stop"
      <4>1. Settled'
        BY <3>2, <3>3, <3>d, <3>4 DEF Settled
      <4> QED BY <1>4, <3>3, <3>d, <3>4, <4>1 DEF ThreadStates, RequestOK
    <3>5. CASE to = "replace"
      BY <1>4, <3>3, <3>d, <3>5 DEF ThreadStates, Quiet, RequestOK
    <3>6. CASE to \in {"idle", "clear", "start"}
      <4>1. ~Serving'
        BY <2>1, <3>3, <3>d, <3>6 DEF Serving
      <4> QED BY <1>7, <3>3, <3>d, <3>6, <4>1
    <3> QED BY <3>4, <3>5, <3>6
  <2> QED BY <2>2, <2>3
<1>23. CASE DeleteInstance(t)
  <2>1. ~Serving
    BY <1>2, <1>23 DEF DeleteInstance, At, RequestOK
  <2>2. ~Serving'
    BY <1>23, <2>1 DEF DeleteInstance, Serving, runnerVars, runVars
  <2> QED BY <1>7, <1>23, <2>2 DEF DeleteInstance
<1>24. CASE ApplyList(t)
  <2>1. item # NoItem /\ UNCHANGED <<run, runCfg, registered, item>>
    BY <1>2, <1>8, <1>24 DEF ApplyList, At, RequestOK
  <2>2. CASE item.enabled
    <3>1. [NoCall EXCEPT !.cfg = item].cfg = item
      BY DEF NoCall
    <3>2. Proceed(t, "applyCheck", [NoCall EXCEPT !.cfg = item])
      BY <1>24, <2>1, <2>2 DEF ApplyList
    <3> QED BY <1>4, <2>1, <2>2, <3>1, <3>2 DEF ThreadStates, Quiet, RequestOK
  <2>3. CASE ~item.enabled
    <3>1. Settled'
      BY <2>1, <2>3 DEF Settled
    <3> QED BY <1>4, <1>24, <2>3, <3>1 DEF ApplyList, ThreadStates, RequestOK
  <2> QED BY <2>2, <2>3
<1>25. CASE ApplyCheck(t)
  <2>1. call[t].cfg.enabled /\ UNCHANGED <<run, registered>>
    BY <1>2, <1>8, <1>25 DEF ApplyCheck, At, RequestOK
  <2>2. CASE registered # NoRunner
    <3>1. Replace(t, call[t].cfg, call[t].cfg, TRUE)
      BY <1>25, <2>2 DEF ApplyCheck
    <3>2. PICK d : Proceed(t, "replace", d)
      BY <2>1, <3>1, ReplaceLeads
    <3> QED BY <1>4, <3>2 DEF ThreadStates, Quiet, RequestOK
  <2>3. CASE registered = NoRunner
    <3>1. ~Serving'
      BY <2>1, <2>3 DEF Serving
    <3> QED BY <1>7, <1>25, <2>3, <3>1 DEF ApplyCheck
  <2> QED BY <2>2, <2>3
<1> QED
  BY <1>11, <1>12, <1>13, <1>14, <1>15, <1>16, <1>17, <1>18, <1>19, <1>20,
     <1>21, <1>22, <1>23, <1>24, <1>25 DEF ThreadStep

\* Every step of the system keeps the invariant.
LEMMA ConfigStep == IInv /\ ConfigInv /\ [Next]_vars => ConfigInv'
<1> SUFFICES ASSUME IInv, ConfigInv, [Next]_vars PROVE ConfigInv'
  OBVIOUS
<1>t. /\ TypeOK /\ RuntimeTypeOK /\ RunnerTypeOK /\ item \in Config \cup {NoItem}
  BY DEF IInv, TypeOK
<1>1. CASE StartEnabled
  <2>1. /\ UNCHANGED <<item, pc, call>> /\ booted'
        /\ \A t \in Threads : pc[t] = "idle"
    BY <1>1 DEF StartEnabled, ConfigInv, callVars
  <2>2. Settled
    BY <2>1 DEF ConfigInv, Quiet
  <2>3. Settled'
    <3>1. CASE item # NoItem /\ item.enabled
      BY <1>t, <1>1, <2>1, <3>1, LaunchServes DEF StartEnabled
    <3>2. CASE ~(item # NoItem /\ item.enabled)
      BY <1>1, <2>1, <2>2, <3>2 DEF StartEnabled, runVars, Settled, Serving
    <3> QED BY <3>1, <3>2
  <2>4. \A t \in Threads : RequestOK(t)'
    BY <2>1 DEF RequestOK
  <2> QED BY <2>1, <2>3, <2>4 DEF ConfigInv, OneAtATime
<1>2. CASE Crash
  <2>1. registered' = NoRunner /\ \A t \in Threads : pc'[t] = "idle"
    BY <1>2 DEF Crash
  <2>2. Settled' /\ \A t \in Threads : RequestOK(t)'
    BY <2>1 DEF Settled, Serving, RequestOK
  <2> QED BY <2>1, <2>2 DEF ConfigInv, OneAtATime
<1>3. ASSUME NEW r \in Runners, WorkerStep(r) PROVE ConfigInv'
  <2>1. /\ run[r] \in Working /\ run' = [run EXCEPT ![r] = run'[r]]
        /\ runCfg' = runCfg
    BY <1>t, <1>3, RunnerStepMoves DEF WorkerStep, Live, IInv, WorkIsConfigured
  <2>2. UNCHANGED <<booted, item, pc, call, registered>>
    BY <1>3 DEF WorkerStep, callVars
  <2>3. Serving' => Serving
    BY <1>t, <2>1, <2>2 DEF Serving, IInv, LiveRunnerIsRegistered, Live,
                            RunnerTypeOK
  <2> QED BY <2>1, <2>2, <2>3, WorkEndsKeeps
<1>4. ASSUME NEW r \in Runners, Retire(r) PROVE ConfigInv'
  <2>1. /\ run[r] = "done" /\ run' = [run EXCEPT ![r] = "free"]
        /\ runCfg' = [runCfg EXCEPT ![r] = NoItem]
        /\ UNCHANGED <<booted, item, pc, call>>
        /\ registered' = registered \/ registered' = NoRunner
    BY <1>4 DEF Retire, Goto, callVars
  <2>2. Serving' => /\ Serving /\ registered' = registered
                    /\ runCfg'[registered] = runCfg[registered]
    <3>1. /\ run \in [Runners -> RunStates]
          /\ runCfg \in [Runners -> Config \cup {NoItem}]
          /\ registered \in Runners \cup {NoRunner}
      BY <1>t DEF RunnerTypeOK, TypeOK
    <3> QED BY <2>1, <3>1 DEF Serving, Working
  <2> QED BY <2>1, <2>2, WorkEndsKeeps
<1>5. ASSUME NEW p \in Probes, ProberStep(p) PROVE ConfigInv'
  <2>1. run' = run /\ runCfg' = runCfg
    BY <1>t, <1>5, ProbeStepTypes DEF ProberStep
  <2>2. UNCHANGED <<booted, item, pc, call, registered>>
    BY <1>5 DEF ProberStep, callVars
  <2> QED BY <2>1, <2>2, WorkEndsKeeps DEF Serving
<1>6. ASSUME NEW t \in Threads, NewRequest(t) PROVE ConfigInv'
  BY <1>6, NewRequestConfig
<1>7. ASSUME NEW t \in Threads, ThreadStep(t) PROVE ConfigInv'
  BY <1>7, ThreadStepConfig
<1>8. CASE UNCHANGED vars
  <2>1. UNCHANGED <<run, runCfg, booted, item, pc, call, registered>>
    BY <1>8 DEF vars, runnerVars, runVars, callVars
  <2> QED BY <2>1, WorkEndsKeeps DEF Serving
<1> QED BY <1>1, <1>2, <1>3, <1>4, <1>5, <1>6, <1>7, <1>8 DEF Next

\* After any number of requests one after the other, with crashes and
\* runners that end by themselves in between, an enabled instance at work
\* uses its stored configuration (ReplaceConfig, applyServerGroups, Start).
THEOREM StoredConfigHolds == Spec /\ OneAtATime => []StoredConfigRuns
<1>1. Init /\ OneAtATime => ConfigInv
  <2> SUFFICES ASSUME Init, OneAtATime PROVE ConfigInv
    OBVIOUS
  <2>1. registered = NoRunner /\ \A t \in Threads : pc[t] = "idle"
    BY DEF Init
  <2> QED BY <2>1 DEF ConfigInv, Settled, Serving, RequestOK
<1>2. ConfigInv => StoredConfigRuns
  BY DEF ConfigInv, StoredConfigRuns, Quiet, Settled, Serving, Live
<1> QED BY <1>1, <1>2, ConfigStep, IInvHolds, PTL DEF Spec
=============================================================================
