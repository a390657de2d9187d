------------------------------ MODULE Manager ------------------------------
(***************************************************************************)
(* Manager and the HTTP handlers that drive it, for one instance id.  The  *)
(* maps of Manager are keyed by id and no operation reads another id's     *)
(* entry, so one id shows every interleaving that concerns it.             *)
(*                                                                         *)
(* Threads are the goroutines that call into the Manager: one per HTTP     *)
(* request in progress, the background goroutine that applies new server   *)
(* groups included.  A step of a thread is one critical section of m.mu or *)
(* of the store, or one wait.                                              *)
(***************************************************************************)
EXTENDS Runner

CONSTANTS Threads,
          TimeoutsFire  \* may a wait for Done() run into its 5 s or 30 s?

ASSUME TimeoutsAssumption == TimeoutsFire \in BOOLEAN

VARIABLES
  booted,      \* main has called StartEnabled and serves requests
  item,        \* the instance's entry in the store's db.Items
  registered,  \* m.runners[id]
  pc,          \* where each thread is
  call         \* its local variables

callVars == <<pc, call>>
vars == <<runtimeVars, runnerVars, booted, item, registered, callVars>>

ThreadStates == {"idle", "start", "startLocked", "stop", "cancel", "wait",
                 "drop", "clear", "clearStore", "putGet", "putUpdate",
                 "delete", "apply", "applyCheck", "replace"}

\* What remains to be done once the runner has been stopped.
Continuations == {"return", "delete", "clear", "restart"}

\* The locals: a configuration read earlier, IsRunning's answer, whether the
\* public mapping is invalidated, the runner waited for, the continuation.
Calls == [cfg : Config \cup {NoItem}, wasRunning : BOOLEAN, changed : BOOLEAN,
          target : Runners \cup {NoRunner}, then : Continuations]
NoCall == [cfg |-> NoItem, wasRunning |-> FALSE, changed |-> FALSE,
           target |-> NoRunner, then |-> "return"]

TypeOK ==
  /\ RuntimeTypeOK
  /\ RunnerTypeOK
  /\ booted \in BOOLEAN
  /\ item \in Config \cup {NoItem}
  /\ registered \in Runners \cup {NoRunner}
  /\ pc \in [Threads -> ThreadStates]
  /\ call \in [Threads -> Calls]

Init ==
  /\ RunnerInit
  /\ status = FreshStatus
  /\ booted = FALSE
  /\ item \in Config \cup {NoItem}
  /\ persisted \in IF item = NoItem THEN {NoMapping} ELSE Whole \cup {NoMapping}
  /\ registered = NoRunner
  /\ pc = [t \in Threads |-> "idle"]
  /\ call = [t \in Threads |-> NoCall]

-----------------------------------------------------------------------------
\* A cell nobody refers to any more, so that NewRunner may stand in it.
Unused(r) ==
  /\ run[r] = "free"
  /\ \A t \in Threads : call[t].target # r
  /\ \A p \in Probes : probeRunner[p] # r

\* seedRuntime takes the mapping on display if that has a public address, or
\* else the saved one.
Seed(cfg) ==
  LET st == IF status.mapping.public # NoPublic THEN status.mapping
                                                ELSE persisted
  IN  IF st.public = NoPublic
      THEN NoMapping
      ELSE [st EXCEPT !.protocol = Given(@, "", cfg.protocol)]

\* The critical section of Start for a configuration read before it: build
\* and register a runner, unless there is one, and launch its goroutine.
Launch(cfg) ==
  /\ registered = NoRunner
  /\ \E r \in Runners :
       /\ Unused(r)
       /\ run' = [run EXCEPT ![r] = "spawned"]
       /\ runCfg' = [runCfg EXCEPT ![r] = cfg]
       /\ cancelSet' = [cancelSet EXCEPT ![r] = FALSE]
       /\ cancelled' = [cancelled EXCEPT ![r] = FALSE]
       /\ lastMap' = [lastMap EXCEPT ![r] = Seed(cfg)]
       /\ private' = [private EXCEPT ![r] = NoPrivate]
       /\ probeOf' = [probeOf EXCEPT ![r] = NoProbe]
       /\ registered' = r
  /\ SetStatus("starting")

\* Variant: clean up without asking whose entry it is.
RetireAnyone(r) ==
  /\ Goto(r, "done", "free")
  /\ registered' = NoRunner
  /\ SetStatus("stopped")
  /\ UNCHANGED <<runCfg, cancelSet, cancelled, lastMap, private, probeOf,
                 probeVars, persisted, booted, item, callVars>>

\* The goroutine of Start once Run has returned: retire the runner, unless
\* ReplaceConfig has already put another in its place.  What the object holds
\* nobody reads again.
Retire(r) ==
  /\ Goto(r, "done", "free")
  /\ runCfg' = [runCfg EXCEPT ![r] = NoItem]
  /\ lastMap' = [lastMap EXCEPT ![r] = NoMapping]
  /\ private' = [private EXCEPT ![r] = NoPrivate]
  /\ IF registered = r
     THEN /\ registered' = NoRunner
          /\ IF status.state # "error" THEN SetStatus("stopped")
                                       ELSE UNCHANGED status
     ELSE UNCHANGED <<registered, status>>
  /\ UNCHANGED <<cancelSet, cancelled, probeOf, probeVars, persisted, booted,
                 item, callVars>>

\* StartEnabled, which main calls before it listens for requests.
StartEnabled ==
  /\ ~booted /\ booted' = TRUE
  /\ IF item # NoItem /\ item.enabled
     THEN Launch(item)
     ELSE UNCHANGED <<runVars, registered, status>>
  /\ UNCHANGED <<probeVars, persisted, item, callVars>>

\* The process dies; the next one finds the data file.  Nothing of the
\* Manager outlives the process.
Crash ==
  /\ booted /\ booted' = FALSE
  /\ run' = [r \in Runners |-> "free"]
  /\ runCfg' = [r \in Runners |-> NoItem]
  /\ cancelSet' = [r \in Runners |-> FALSE]
  /\ cancelled' = [r \in Runners |-> FALSE]
  /\ lastMap' = [r \in Runners |-> NoMapping]
  /\ private' = [r \in Runners |-> NoPrivate]
  /\ probeOf' = [r \in Runners |-> NoProbe]
  /\ probe' = [p \in Probes |-> "idle"]
  /\ probeRunner' = [p \in Probes |-> NoRunner]
  /\ probeStop' = [p \in Probes |-> FALSE]
  /\ probeMap' = [p \in Probes |-> NoMapping]
  /\ status' = FreshStatus
  /\ registered' = NoRunner
  /\ pc' = [t \in Threads |-> "idle"]
  /\ call' = [t \in Threads |-> NoCall]
  /\ UNCHANGED <<item, persisted>>

-----------------------------------------------------------------------------
\* Thread t moves on with the locals c; it forgets them when it returns.
Proceed(t, to, c) ==
  /\ pc' = [pc EXCEPT ![t] = to]
  /\ call' = [call EXCEPT ![t] = IF to = "idle" THEN NoCall ELSE c]

At(t, here) == pc[t] = here
Stays == UNCHANGED <<runtimeVars, runnerVars, booted, item, registered>>

\* --- Start -----------------------------------------------------------------
\* Start reads the configuration before it takes m.mu.
StartGet(t) ==
  /\ At(t, "start")
  /\ IF item = NoItem THEN Proceed(t, "idle", NoCall)
                      ELSE Proceed(t, "startLocked", [NoCall EXCEPT !.cfg = item])
  /\ Stays

StartLocked(t) ==
  /\ At(t, "startLocked")
  /\ \/ Launch(call[t].cfg)
     \/ registered # NoRunner /\ UNCHANGED <<runVars, registered, status>>
  /\ Proceed(t, "idle", NoCall)
  /\ UNCHANGED <<probeVars, persisted, booted, item>>

\* --- Stop ------------------------------------------------------------------
\* Variant: take the continuation for the place to go.
AfterStopAsIs(c) == c.then

\* Where the caller of Stop goes on: the handler returns, DELETE deletes,
\* ReplaceConfig of a disabled instance clears a mapping that is now invalid.
AfterStop(c) == IF c.then = "return" THEN "idle" ELSE c.then

StopLocked(t) ==
  /\ At(t, "stop")
  /\ IF registered = NoRunner
     THEN /\ SetStatus("stopped")
          /\ Proceed(t, AfterStop(call[t]), call[t])
     ELSE /\ SetStatus("stopping")
          /\ Proceed(t, "cancel", [call[t] EXCEPT !.target = registered])
  /\ UNCHANGED <<runnerVars, persisted, booted, item, registered>>

\* Runner.Stop: cancel the context, if Run has got round to making one.
CancelTarget(t) ==
  /\ At(t, "cancel")
  /\ cancelled' = [cancelled EXCEPT ![call[t].target] =
                     @ \/ cancelSet[call[t].target]]
  /\ Proceed(t, "wait", call[t])
  /\ UNCHANGED <<run, runCfg, cancelSet, lastMap, private, probeOf, probeVars,
                 runtimeVars, booted, item, registered>>

\* <-runner.Done()
StopDone(t) ==
  /\ At(t, "wait")
  /\ run[call[t].target] \in {"done", "free"}
  /\ IF call[t].then = "restart"
     THEN Proceed(t, "drop", call[t])
     ELSE Proceed(t, AfterStop(call[t]), [call[t] EXCEPT !.target = NoRunner])
  /\ Stays

\* Variant: after the timeout ReplaceConfig carries on with the restart.
TimeoutCarriesOn(t) ==
  /\ At(t, "wait") /\ TimeoutsFire
  /\ Proceed(t, IF call[t].then = "restart" THEN "drop" ELSE AfterStop(call[t]),
             call[t])
  /\ Stays

\* Variant: wait without a deadline.
WaitForever(t) == At(t, "wait") /\ FALSE /\ Stays

\* The wait times out: ReplaceConfig gives up, the callers of Stop go on.
StopTimeout(t) ==
  /\ At(t, "wait") /\ TimeoutsFire
  /\ IF call[t].then = "restart"
     THEN Proceed(t, "idle", NoCall)
     ELSE Proceed(t, AfterStop(call[t]), [call[t] EXCEPT !.target = NoRunner])
  /\ Stays

\* --- ReplaceConfig ---------------------------------------------------------
PublicMappingConfigChanged(old, new) ==
  old.protocol # new.protocol \/ old.bind # new.bind

\* Variant: restart only when the socket of the instance changes.
ReplaceSocketOnly(t, old, new, wasRunning) ==
  Proceed(t, IF new.enabled /\ wasRunning /\ PublicMappingConfigChanged(old, new)
             THEN "replace" ELSE "idle",
          [NoCall EXCEPT !.changed = TRUE, !.then = "restart"])

\* ReplaceConfig up to its first shared access.
Replace(t, old, new, wasRunning) ==
  LET changed == PublicMappingConfigChanged(old, new)
      c == [NoCall EXCEPT !.changed = changed]
      fresh == IF changed THEN "clear" ELSE "start"
  IN  IF ~new.enabled
      THEN IF wasRunning
           THEN Proceed(t, "stop",
                        [c EXCEPT !.then = IF changed THEN "clear" ELSE "return"])
           ELSE Proceed(t, "idle", NoCall)
      ELSE Proceed(t, IF wasRunning THEN "replace" ELSE fresh,
                   [c EXCEPT !.then = "restart"])

\* The old runner may have gone since the caller asked IsRunning.
ReplaceLocked(t) ==
  /\ At(t, "replace")
  /\ IF registered = NoRunner
     THEN /\ Proceed(t, IF call[t].changed THEN "clear" ELSE "start", call[t])
          /\ UNCHANGED status
     ELSE /\ SetStatus("stopping")
          /\ Proceed(t, "cancel", [call[t] EXCEPT !.target = registered])
  /\ UNCHANGED <<runnerVars, persisted, booted, item, registered>>

\* Variant: unregister whichever runner is there.
DropAnyRunner(t) ==
  /\ At(t, "drop")
  /\ registered' = NoRunner
  /\ Proceed(t, IF call[t].changed THEN "clear" ELSE "start",
             [call[t] EXCEPT !.target = NoRunner])
  /\ UNCHANGED <<runtimeVars, runnerVars, booted, item>>

\* Do not wait for the old runner's own goroutine to unregister it.
DropRunner(t) ==
  /\ At(t, "drop")
  /\ registered' = IF registered = call[t].target THEN NoRunner ELSE registered
  /\ Proceed(t, IF call[t].changed THEN "clear" ELSE "start",
             [call[t] EXCEPT !.target = NoRunner])
  /\ UNCHANGED <<runtimeVars, runnerVars, booted, item>>

ClearLocked(t) ==
  /\ At(t, "clear")
  /\ ClearMapping
  /\ Proceed(t, "clearStore", call[t])
  /\ UNCHANGED <<persisted, runnerVars, booted, item, registered>>

ClearSaved(t) ==
  /\ At(t, "clearStore")
  /\ ClearRuntimeStatus
  /\ Proceed(t, IF call[t].then = "restart" THEN "start" ELSE "idle", call[t])
  /\ UNCHANGED <<status, runnerVars, booted, item, registered>>

-----------------------------------------------------------------------------
\* A request arrives.  PUT asks IsRunning before anything else.
NewCall(t) ==
  /\ booted /\ At(t, "idle")
  /\ \/ Proceed(t, "start", NoCall)
     \/ Proceed(t, "stop", NoCall)
     \/ Proceed(t, "stop", [NoCall EXCEPT !.then = "delete"])
     \/ Proceed(t, "putGet", [NoCall EXCEPT !.wasRunning = registered # NoRunner])
  /\ Stays

\* POST: AddInstance, then ApplyConfig.
Create(t) ==
  /\ booted /\ At(t, "idle")
  /\ item = NoItem
  /\ item' \in Config
  /\ IF item'.enabled THEN Proceed(t, "start", NoCall) ELSE UNCHANGED callVars
  /\ UNCHANGED <<runtimeVars, runnerVars, booted, registered>>

PutGet(t) ==
  /\ At(t, "putGet")
  /\ IF item = NoItem THEN Proceed(t, "idle", NoCall)
                      ELSE Proceed(t, "putUpdate", [call[t] EXCEPT !.cfg = item])
  /\ Stays

\* UpdateInstance, then ReplaceConfig with what was read before.
PutUpdate(t) ==
  /\ At(t, "putUpdate")
  /\ IF item = NoItem
     THEN item' = item /\ Proceed(t, "idle", NoCall)
     ELSE /\ item' \in Config
          /\ Replace(t, call[t].cfg, item', call[t].wasRunning)
  /\ UNCHANGED <<runtimeVars, runnerVars, booted, registered>>

\* The last step of DELETE, whether Stop succeeded or not.
DeleteInstance(t) ==
  /\ At(t, "delete")
  /\ item' = NoItem
  /\ persisted' = IF item = NoItem THEN persisted ELSE NoMapping
  /\ Proceed(t, "idle", NoCall)
  /\ UNCHANGED <<status, runnerVars, booted, registered>>

\* PUT server-groups: the resolved configuration of an instance in group
\* mode changes under it, and a goroutine sets out to apply the new one.
UpdateServerGroups(t) ==
  /\ booted /\ At(t, "idle")
  /\ item # NoItem
  /\ \E v \in Rests : item' = [item EXCEPT !.rest = v]
  /\ Proceed(t, "apply", NoCall)
  /\ UNCHANGED <<runtimeVars, runnerVars, booted, registered>>

\* applyServerGroupsToRunningInstances: ListInstances ...
ApplyList(t) ==
  /\ At(t, "apply")
  /\ IF item # NoItem /\ item.enabled
     THEN Proceed(t, "applyCheck", [NoCall EXCEPT !.cfg = item])
     ELSE Proceed(t, "idle", NoCall)
  /\ Stays

\* ... then IsRunning, then ReplaceConfig with the listed configuration.
ApplyCheck(t) ==
  /\ At(t, "applyCheck")
  /\ IF registered # NoRunner
     THEN Replace(t, call[t].cfg, call[t].cfg, TRUE)
     ELSE Proceed(t, "idle", NoCall)
  /\ Stays

-----------------------------------------------------------------------------
\* The steps a thread takes once its request is under way.
ThreadStep(t) ==
  \/ StartGet(t) \/ StartLocked(t) \/ StopLocked(t) \/ CancelTarget(t)
  \/ StopDone(t) \/ StopTimeout(t) \/ ReplaceLocked(t) \/ DropRunner(t)
  \/ ClearLocked(t) \/ ClearSaved(t) \/ PutGet(t) \/ PutUpdate(t)
  \/ DeleteInstance(t) \/ ApplyList(t) \/ ApplyCheck(t)

NewRequest(t) == NewCall(t) \/ Create(t) \/ UpdateServerGroups(t)

\* The steps of the goroutines of a runner leave the rest alone.
WorkerStep(r) ==
  RunnerStep(r) /\ UNCHANGED <<booted, item, registered, callVars>>
ProberStep(p) ==
  ProbeStep(p) /\ UNCHANGED <<booted, item, registered, callVars>>

Next ==
  \/ StartEnabled \/ Crash
  \/ \E r \in Runners : WorkerStep(r) \/ Retire(r)
  \/ \E p \in Probes : ProberStep(p)
  \/ \E t \in Threads : ThreadStep(t) \/ NewRequest(t)

Spec == Init /\ [][Next]_vars

\* The Go scheduler runs every goroutine that can run; the waits in them end
\* because each has a deadline or watches the context.  Nothing obliges
\* requests to arrive, sessions to succeed or the process to die.
Fairness ==
  /\ \A r \in Runners : WF_vars(WorkerStep(r) \/ Retire(r))
  /\ \A p \in Probes : WF_vars(ProberStep(p))
  /\ \A t \in Threads : WF_vars(ThreadStep(t))

FairSpec == Spec /\ Fairness

-----------------------------------------------------------------------------
(* Properties                                                              *)

\* At most one goroutine works for the instance, whatever requests overlap:
\* one that has not closed its done channel is the registered one.  Two would
\* fight over the same local port.  (Start, ReplaceConfig and the goroutine
\* of Start all edit m.runners.)
LiveRunnerIsRegistered ==
  \A r \in Runners : Live(r) => registered = r

\* "stopped" on display means that nothing works for the instance any more:
\* if a runner is still registered, its Run has reported its end.
StoppedIsHonest ==
  status.state = "stopped" =>
    registered = NoRunner \/ run[registered] \in {"closing", "done"}

\* "error" on display means that the instance is being retried: its runner is
\* registered and sits in the five-second pause of Run.  In particular the
\* runner never ends in error, so the test in the goroutine of Start always
\* finds another state.
ErrorMeansRetrying ==
  status.state = "error" =>
    registered # NoRunner /\ run[registered] = "retryWait"

\* A keep-alive shown as connected belongs to a session that the registered
\* runner has open, or lost so recently that the next report will say so.
ConnectedIsHonest ==
  status.keepAlive = "connected" =>
    /\ registered # NoRunner
    /\ run[registered] \in {"bound", "serving", "replying", "lost", "resumed",
                            "exit"}

\* Both copies of the mapping have a public address.
BothThere == persisted.public # NoPublic /\ status.mapping.public # NoPublic

\* The two copies of the public address never contradict each other: the one
\* a restart would restore is the one on display, unless either is empty.
SavedAddressIsShown == BothThere => persisted.public = status.mapping.public

\* The rest of the mapping may differ, because a new runner reports its
\* protocol and a new session its local endpoint without saving them; but
\* only such a report sets the copies apart, never a publication, however
\* late, nor a request that clears, deletes or restarts.
CopiesAgree == BothThere => persisted = status.mapping
OnlyNewSessionsSetApart ==
  [][CopiesAgree /\ ~CopiesAgree'
       => status'.state = "starting" /\ UNCHANGED persisted]_vars

\* While no request is under way, an enabled instance that runs does so with
\* its stored configuration (resolved against the current server groups).
\* Holds for requests made one after the other, none of which timed out.
StoredConfigRuns ==
  /\ \A t \in Threads : pc[t] = "idle"
  /\ item # NoItem /\ item.enabled
  /\ registered # NoRunner /\ Live(registered)
  => runCfg[registered] = item

\* A runner is unregistered only after it has ended, short of a crash: neither
\* a late clean-up nor a second ReplaceConfig takes away a successor.
OnlyEndedRunnersLeave ==
  [][registered # NoRunner /\ registered' # registered /\ booted'
       => ~Live(registered)]_vars

\* Once a request has set out to stop the runner, a late keep-alive report of
\* that runner is not shown (TestManagerIgnoresLateKeepAliveAfterStop: "late
\* keepalive after stop ... want ignored").
LateKeepAliveIsIgnored ==
  \A t \in Threads : pc[t] \in {"cancel", "wait"} => status.keepAlive = ""

\* The Manager implements SingleWorker: at most one worker at a time, and no
\* pause, reconnect or rebuild of Run outlives the cancellation of its context.
CurrentWorker ==
  IF \E r \in Runners : Live(r) THEN CHOOSE r \in Runners : Live(r)
                               ELSE NoRunner
ToldToStop == \E r \in Runners : Live(r) /\ cancelled[r]

Worker == INSTANCE SingleWorker
            WITH Workers <- Runners, NoWorker <- NoRunner,
                 worker <- CurrentWorker, told <- ToldToStop
OneWorkerThatStops == Worker!Spec

\* Every request is answered, even when the runner it stops never hears of it.
EveryCallReturns == \A t \in Threads : pc[t] # "idle" ~> pc[t] = "idle"
=============================================================================
