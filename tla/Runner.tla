------------------------------- MODULE Runner -------------------------------
(***************************************************************************)
(* The goroutines behind a running instance.  Each element of Runners is a *)
(* memory cell for one Runner object together with the goroutine Start     *)
(* launches for it; Start (module Manager) fills a cell nobody refers to   *)
(* any more.  Each element of Probes is one public-probe goroutine, which  *)
(* its runner cancels but never waits for.                                 *)
(*                                                                         *)
(* A step ends where the next one could be observed: every emit is a step  *)
(* of its own (report takes m.mu), and every test of ctx.Err() is separate *)
(* from the emit that follows it.                                          *)
(***************************************************************************)
EXTENDS Runtime

CONSTANTS Runners, Probes,
          Binds, Rests,              \* parts of a resolved configuration
          NoItem,                    \* no stored configuration
          NoRunner, NoProbe,         \* no runner; the no-op cancelProbe
          SessionsBreak              \* may an open session be lost?

ASSUME SessionsBreakAssumption == SessionsBreak \in BOOLEAN
ASSUME NoRunnerAssumption == NoRunner \notin Runners
ASSUME NoProbeAssumption == NoProbe \notin Probes

\* An InstanceConfig.  `bind` is what publicMappingConfigChanged compares
\* besides the protocol; `rest` is everything else, the server lists that
\* resolveConfigLocked copies into it included.
Config == [enabled : BOOLEAN, protocol : Protocols, bind : Binds, rest : Rests]

ASSUME NoItemAssumption == NoItem \notin Config

VARIABLES
  run,         \* where the goroutine of each Runner is
  runCfg,      \* r.cfg
  cancelSet,   \* r.cancelRun # nil
  cancelled,   \* the context of Run is cancelled
  lastMap,     \* r.lastMap
  private,     \* privateIP and privatePort of runTCP/runUDP
  probeOf,     \* the probe that cancelProbe of runTCP/runUDP cancels
  probe,       \* where each probe goroutine is
  probeRunner, \* the runner whose method it runs
  probeStop,   \* its own context is cancelled
  probeMap     \* the mapping it is to confirm, or has confirmed

runVars == <<run, runCfg, cancelSet, cancelled, lastMap, private, probeOf>>
probeVars == <<probe, probeRunner, probeStop, probeMap>>
runnerVars == <<runVars, probeVars>>

Working == {"spawned", "begin", "loop", "open", "bound", "serving", "replying",
            "lost", "reconnecting", "redial", "redialing", "portGone",
            "reconnected", "resumed", "rebuild", "pause", "failed",
            "retryWait", "exit", "closing"}
RunStates == Working \cup {"free", "done"}
ProbeStates == {"idle", "probing", "confirmed", "updated"}

RunnerTypeOK ==
  /\ run \in [Runners -> RunStates]
  /\ runCfg \in [Runners -> Config \cup {NoItem}]
  /\ cancelSet \in [Runners -> BOOLEAN]
  /\ cancelled \in [Runners -> BOOLEAN]
  /\ lastMap \in [Runners -> Mapping]
  /\ private \in [Runners -> Privates \cup {NoPrivate}]
  /\ probeOf \in [Runners -> Probes \cup {NoProbe}]
  /\ probe \in [Probes -> ProbeStates]
  /\ probeRunner \in [Probes -> Runners \cup {NoRunner}]
  /\ probeStop \in [Probes -> BOOLEAN]
  /\ probeMap \in [Probes -> Mapping]

RunnerInit ==
  /\ run = [r \in Runners |-> "free"]
  /\ runCfg = [r \in Runners |-> NoItem]
  /\ cancelSet = [r \in Runners |-> FALSE]
  /\ cancelled = [r \in Runners |-> FALSE]
  /\ lastMap = [r \in Runners |-> NoMapping]
  /\ private = [r \in Runners |-> NoPrivate]
  /\ probeOf = [r \in Runners |-> NoProbe]
  /\ probe = [p \in Probes |-> "idle"]
  /\ probeRunner = [p \in Probes |-> NoRunner]
  /\ probeStop = [p \in Probes |-> FALSE]
  /\ probeMap = [p \in Probes |-> NoMapping]

\* The goroutine of r is somewhere between Start and close(r.done).
Live(r) == run[r] \in Working
\* <-r.Done() is ready.
Done(r) == run[r] = "done"

-----------------------------------------------------------------------------
Goto(r, from, to) == run[r] = from /\ run' = [run EXCEPT ![r] = to]

\* emit: one call of report, which touches nothing of the runner itself.
Emit(u) ==
  /\ Report(u)
  /\ UNCHANGED <<runCfg, cancelSet, cancelled, lastMap, private, probeOf,
                 probeVars>>

\* A step of the goroutine that only moves it on.
Quietly ==
  UNCHANGED <<runCfg, cancelSet, cancelled, lastMap, private, probeOf,
              probeVars, runtimeVars>>

\* Run: remember how to cancel.  Until then a Stop has nothing to call.
Begin(r) ==
  /\ Goto(r, "spawned", "begin")
  /\ cancelSet' = [cancelSet EXCEPT ![r] = TRUE]
  /\ UNCHANGED <<runCfg, cancelled, lastMap, private, probeOf, probeVars,
                 runtimeVars>>

ReportStarting(r) ==
  Goto(r, "begin", "loop") /\ Emit(FreshStart(runCfg[r].protocol))

LoopTop(r) == Goto(r, "loop", IF cancelled[r] THEN "exit" ELSE "open") /\ Quietly

\* runOnce up to the emitKeepAlive that follows a successful preflight.
Connect(r) == Goto(r, "open", "bound") /\ Emit(KeepAliveUpdate("connected"))

\* runOnce cannot bind or reach a server.  A first request over TCP that
\* fails is errSessionClosed like any other; a QUIC transport may hand back
\* context.Canceled of its own, which Run takes for a stop.
ConnectFailed(r) ==
  /\ \/ ~cancelled[r] /\ Goto(r, "open", "failed")
     \/ /\ ~cancelled[r] /\ Goto(r, "open", "rebuild")
        /\ runCfg[r].protocol = "tcp"
     \/ cancelled[r] /\ Goto(r, "open", "exit")
     \/ Goto(r, "open", "exit") /\ runCfg[r].protocol = "udp"
  /\ Quietly

\* startTCPPublicProbe, startUDPPublicProbe: a goroutine of its own, whose
\* context is a child of Run's, for a session on the local endpoint `from`.
StartProbe(r, from) ==
  \E p \in Probes :
    /\ probe[p] = "idle"
    /\ probe' = [probe EXCEPT ![p] = "probing"]
    /\ probeRunner' = [probeRunner EXCEPT ![p] = r]
    /\ probeStop' = [probeStop EXCEPT ![p] = FALSE]
    /\ probeOf' = [probeOf EXCEPT ![r] = p]
    /\ probeMap' = [probeMap EXCEPT ![p] =
                      [public |-> NoPublic, private |-> from,
                       protocol |-> runCfg[r].protocol]]

\* The "bound on" report, then the first probe of the session.
Bound(r) ==
  /\ Goto(r, "bound", "serving")
  /\ \E from \in Privates :
       /\ private' = [private EXCEPT ![r] = from]
       /\ Report(BoundOn(from))
       /\ StartProbe(r, from)
  /\ UNCHANGED <<runCfg, cancelSet, cancelled, lastMap>>

\* runUDP looks at the context before it reports the bound socket.
StoppedBeforeBound(r) ==
  /\ Goto(r, "bound", "exit")
  /\ runCfg[r].protocol = "udp" /\ cancelled[r]
  /\ Quietly

\* cancelProbe(): without effect when the goroutine is already gone.
CancelProbe(r) ==
  /\ probeStop' = [p \in Probes |-> \/ probeStop[p]
                                    \/ p = probeOf[r] /\ probeRunner[p] = r]
  /\ probeOf' = [probeOf EXCEPT ![r] = NoProbe]
  /\ UNCHANGED <<probe, probeRunner, probeMap>>

\* A keep-alive request goes out only after ctx.Err() was nil ...
SendKeepAlive(r) == ~cancelled[r] /\ Goto(r, "serving", "replying") /\ Quietly
\* ... and is reported when it is answered, whatever happened meanwhile.
Answered(r) == Goto(r, "replying", "serving") /\ Emit(KeepAliveUpdate("connected"))

\* errSessionClosed: the peer closed, a read or write failed or timed out.
SessionLost(r) ==
  /\ SessionsBreak /\ ~cancelled[r]
  /\ Goto(r, "serving", "lost") \/ Goto(r, "replying", "lost")
  /\ CancelProbe(r)
  /\ UNCHANGED <<runCfg, cancelSet, cancelled, lastMap, private, runtimeVars>>

\* errStopped: the keep-alive loop noticed the cancelled context.
SessionStopped(r) ==
  /\ cancelled[r]
  /\ Goto(r, "serving", "exit") \/ Goto(r, "replying", "exit")
  /\ CancelProbe(r)
  /\ Report(KeepAliveUpdate("disconnected"))
  /\ UNCHANGED <<runCfg, cancelSet, cancelled, lastMap, private>>

\* Variant: reconnect without telling anybody.
LoseSilently(r) == Goto(r, "lost", "reconnecting") /\ Quietly

ReportLost(r) ==
  Goto(r, "lost", "reconnecting") /\ Emit(KeepAliveUpdate("reconnecting"))

\* Variant: the reconnect loop does not look at the context.
RedialRegardless(r) == Goto(r, "reconnecting", "redial") /\ Quietly

\* The top of the reconnect loop, entered again after each failed attempt
\* and its one-second pause.
RedialTop(r) ==
  Goto(r, "reconnecting", IF cancelled[r] THEN "exit" ELSE "redial") /\ Quietly

ReportRedial(r) == Goto(r, "redial", "redialing") /\ Emit(StateUpdate("starting"))

RedialOutcome(r) ==
  \/ Goto(r, "redialing", "reconnected") /\ Emit(StateUpdate("running"))
  \/ cancelled[r] /\ Goto(r, "redialing", "exit") /\ Quietly
  \/ \* every server failed, and it was not yet the third round
     Goto(r, "redialing", "reconnecting") /\ Emit(StateUpdate("starting"))
  \/ \* the third failed round: errSessionClosed
     ~cancelled[r] /\ Goto(r, "redialing", "rebuild") /\ Quietly
  \/ \* the local TCP port is gone: errSessionClosed
     /\ Goto(r, "redialing", "portGone") /\ runCfg[r].protocol = "tcp"
     /\ Emit(StateUpdate("starting"))

PortGone(r) ==
  Goto(r, "portGone", IF cancelled[r] THEN "exit" ELSE "rebuild") /\ Quietly

ReportReconnected(r) ==
  Goto(r, "reconnected", "resumed") /\ Emit(KeepAliveUpdate("connected"))

\* currentTCPPublicMapping knows a mapping of this session's endpoint (the
\* code compares its port; endpoints that share a port count as one).
KnowsMapping(r) ==
  /\ runCfg[r].protocol = "tcp"
  /\ lastMap[r].public # NoPublic
  /\ lastMap[r].protocol = "tcp" /\ lastMap[r].private = private[r]

\* A new probe, unless a TCP mapping we know of still answers
\* (skipTCPPublicProbeAfterReconnect).
Resume(r) ==
  /\ Goto(r, "resumed", "serving")
  /\ \/ StartProbe(r, private[r])
     \/ /\ KnowsMapping(r)
        /\ probeOf' = [probeOf EXCEPT ![r] = NoProbe]
        /\ UNCHANGED probeVars
  /\ UNCHANGED <<runCfg, cancelSet, cancelled, lastMap, private, runtimeVars>>

ReportRebuild(r) == Goto(r, "rebuild", "pause") /\ Emit(StateUpdate("starting"))
ReportError(r) == Goto(r, "failed", "retryWait") /\ Emit(StateUpdate("error"))

\* Variant: retry without saying so.
RetrySilently(r) == Goto(r, "retryWait", "loop") /\ Quietly

\* The two pauses of Run: one second before a rebuild, five after an error.
PauseOver(r) == Goto(r, "pause", "loop") /\ Quietly
RetryNow(r) == Goto(r, "retryWait", "loop") /\ Emit(StateUpdate("starting"))

ReportStopped(r) ==
  /\ \/ Goto(r, "exit", "closing")
     \/ cancelled[r] /\ Goto(r, "pause", "closing")
     \/ cancelled[r] /\ Goto(r, "retryWait", "closing")
  /\ Emit(StateUpdate("stopped"))

\* The deferred cancel() and close(r.done).
Close(r) ==
  /\ Goto(r, "closing", "done")
  /\ cancelled' = [cancelled EXCEPT ![r] = TRUE]
  /\ UNCHANGED <<runCfg, cancelSet, lastMap, private, probeOf, probeVars,
                 runtimeVars>>
-----------------------------------------------------------------------------
ProbeCancelled(p) == probeStop[p] \/ cancelled[probeRunner[p]]

\* Retire the goroutine p.
ProbeEnds(p) ==
  /\ probe' = [probe EXCEPT ![p] = "idle"]
  /\ probeMap' = [probeMap EXCEPT ![p] = NoMapping]
  /\ probeStop' = [probeStop EXCEPT ![p] = FALSE]
  /\ probeRunner' = [probeRunner EXCEPT ![p] = NoRunner]

\* The probe goroutine notices that it is cancelled.
ProbeGivesUp(p) ==
  /\ probe[p] = "probing" /\ ProbeCancelled(p)
  /\ ProbeEnds(p)
  /\ UNCHANGED <<runVars, runtimeVars>>

\* The confirmation succeeded and the context was still live just now; what
\* follows is publishMapping, which does not look at the context again.
ProbeConfirms(p) ==
  /\ probe[p] = "probing" /\ ~ProbeCancelled(p)
  /\ \E m \in Publics : probeMap' = [probeMap EXCEPT ![p].public = m]
  /\ probe' = [probe EXCEPT ![p] = "confirmed"]
  /\ UNCHANGED <<probeRunner, probeStop, runVars, runtimeVars>>

\* updateMappingForPublish, under r.mapMu.
UpdateMapping(p) ==
  /\ probe[p] = "confirmed"
  /\ lastMap' = [lastMap EXCEPT ![probeRunner[p]] = probeMap[p]]
  /\ probe' = [probe EXCEPT ![p] = "updated"]
  /\ UNCHANGED <<run, runCfg, cancelSet, cancelled, private, probeOf,
                 probeRunner, probeStop, probeMap, runtimeVars>>

\* The report of publishMapping, after which the goroutine returns.
Publish(p) ==
  /\ probe[p] = "updated"
  /\ Report(Published(probeMap[p]))
  /\ ProbeEnds(p)
  /\ UNCHANGED runVars

-----------------------------------------------------------------------------
RunnerStep(r) ==
  \/ Begin(r) \/ ReportStarting(r) \/ LoopTop(r) \/ Connect(r)
  \/ ConnectFailed(r) \/ Bound(r) \/ StoppedBeforeBound(r) \/ SendKeepAlive(r)
  \/ Answered(r) \/ SessionLost(r) \/ SessionStopped(r) \/ ReportLost(r)
  \/ RedialTop(r) \/ ReportRedial(r) \/ RedialOutcome(r) \/ PortGone(r)
  \/ ReportReconnected(r) \/ Resume(r)
  \/ ReportRebuild(r) \/ ReportError(r) \/ PauseOver(r) \/ RetryNow(r)
  \/ ReportStopped(r) \/ Close(r)

ProbeStep(p) ==
  ProbeGivesUp(p) \/ ProbeConfirms(p) \/ UpdateMapping(p) \/ Publish(p)
=============================================================================
