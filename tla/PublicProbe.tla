---------------------------- MODULE PublicProbe ----------------------------
(***************************************************************************)
(* How a runner finds out its public mapping.  Each session of the runner  *)
(* starts a probe goroutine, which asks STUN servers in rounds of samples  *)
(* until one public address has been seen often enough in a row, publishes *)
(* it and ends.  Losing the session cancels the goroutine without waiting  *)
(* for it, so goroutines of several sessions may be under way at once.     *)
(*                                                                         *)
(* The network is the set of public addresses that a sample may show now:  *)
(* empty when no server answers, several when servers disagree.            *)
(*                                                                         *)
(* One runner, and so one protocol: a mapping is a public address and the  *)
(* local endpoint behind it.                                               *)
(***************************************************************************)
EXTENDS Integers

CONSTANTS Publics, Privates,     \* public addresses, private endpoints
          NoPublic, NoPrivate,   \* the empty fields of a mapping
          Probes, NoProbe,
          Configured,            \* the stored mappingConfirmations
          EndpointCount,         \* servers in the STUN list
          WindowSize             \* samples remembered by `window`

DefaultConfirmations == 2
\* normalizeConfig fills in a missing count.
Needed == IF Configured <= 0 THEN DefaultConfirmations ELSE Configured

ASSUME PublicsAssumption == NoPublic \notin Publics
ASSUME PrivatesAssumption == NoPrivate \notin Privates
ASSUME ProbesAssumption == NoProbe \notin Probes
ASSUME CountsAssumption ==
  Configured \in Int /\ EndpointCount \in Nat /\ WindowSize \in Nat
ASSUME WindowAssumption == Needed <= WindowSize

VARIABLES
  visible,    \* the public addresses a sample may show
  private,    \* the private endpoint of the latest session of the runner
  current,    \* the goroutine of the session, which cancelProbe cancels
  place,      \* where each goroutine is
  stopped,    \* its context is cancelled
  endpoint,   \* the private endpoint it was started with
  attempt,    \* the sample of the round, counted from 1
  candidate,  \* progress.candidate, with the local copy
  count,      \* progress.count, with the local copy
  found,      \* the address it confirmed
  changed,    \* what updateMappingForPublish answered
  lastMap,    \* r.lastMap
  shown,      \* the mapping in the status
  notified,   \* the mapping the last notification script was given
  window      \* history: the latest samples of a goroutine, newest first

vars == <<visible, private, current, place, stopped, endpoint, attempt,
          candidate, count, found, changed, lastMap, shown, notified, window>>
sharedVars == <<visible, private, current>>
outputs == <<lastMap, shown, notified>>

Mapping == [public : Publics \cup {NoPublic},
            private : Privates \cup {NoPrivate}]
NoMap == [public |-> NoPublic, private |-> NoPrivate]

Places == {"idle", "round", "sample", "sampled", "failed", "confirmed",
           "publish", "report", "notify"}
NoSamples == [i \in 1..WindowSize |-> NoPublic]

PublicProbeMaxAttempts(confirmations, endpoints) ==
  IF confirmations <= 1 THEN 1
  ELSE LET servers == IF endpoints < 1 THEN 1 ELSE endpoints
           attempts == confirmations * servers * 2
           least == confirmations + 2
       IN  IF attempts < least THEN least ELSE attempts

MaxAttempts == PublicProbeMaxAttempts(Needed, EndpointCount)

TypeOK ==
  /\ visible \subseteq Publics
  /\ private \in Privates \cup {NoPrivate}
  /\ current \in Probes \cup {NoProbe}
  /\ place \in [Probes -> Places]
  /\ stopped \in [Probes -> BOOLEAN]
  /\ endpoint \in [Probes -> Privates \cup {NoPrivate}]
  /\ attempt \in [Probes -> 0..MaxAttempts]
  /\ candidate \in [Probes -> Publics \cup {NoPublic}]
  /\ count \in [Probes -> 0..(Needed - 1)]
  /\ found \in [Probes -> Publics \cup {NoPublic}]
  /\ changed \in [Probes -> BOOLEAN]
  /\ lastMap \in Mapping /\ shown \in Mapping /\ notified \in Mapping
  /\ window \in [Probes -> [1..WindowSize -> Publics \cup {NoPublic}]]

\* A new runner.  Start seeds it with the mapping on display or, when no
\* public address is on display (the process has just been started), with the
\* saved record; in that case a private endpoint may still be on display.
Init ==
  /\ visible \in SUBSET Publics
  /\ private = NoPrivate
  /\ current = NoProbe
  /\ place = [p \in Probes |-> "idle"]
  /\ stopped = [p \in Probes |-> FALSE]
  /\ endpoint = [p \in Probes |-> NoPrivate]
  /\ attempt = [p \in Probes |-> 0]
  /\ candidate = [p \in Probes |-> NoPublic]
  /\ count = [p \in Probes |-> 0]
  /\ found = [p \in Probes |-> NoPublic]
  /\ changed = [p \in Probes |-> FALSE]
  /\ lastMap \in {NoMap} \cup [public : Publics, private : Privates]
  /\ shown \in {lastMap} \cup [public : {NoPublic},
                              private : Privates \cup {NoPrivate}]
  /\ notified = NoMap
  /\ window = [p \in Probes |-> NoSamples]

-----------------------------------------------------------------------------
Goto(p, from, to) == place[p] = from /\ place' = [place EXCEPT ![p] = to]

\* The goroutine returns; its locals go with it.
Returns(p) ==
  /\ place' = [place EXCEPT ![p] = "idle"]
  /\ attempt' = [attempt EXCEPT ![p] = 0]
  /\ candidate' = [candidate EXCEPT ![p] = NoPublic]
  /\ count' = [count EXCEPT ![p] = 0]
  /\ found' = [found EXCEPT ![p] = NoPublic]
  /\ changed' = [changed EXCEPT ![p] = FALSE]
  /\ endpoint' = [endpoint EXCEPT ![p] = NoPrivate]
  /\ window' = [window EXCEPT ![p] = NoSamples]

\* startTCPPublicProbe, startUDPPublicProbe: a goroutine with progress of its
\* own, for a session on the private endpoint `from`.
StartProbe(p, from) ==
  /\ current = NoProbe /\ place[p] = "idle"
  /\ current' = p
  /\ place' = [place EXCEPT ![p] = "round"]
  /\ stopped' = [stopped EXCEPT ![p] = FALSE]
  /\ endpoint' = [endpoint EXCEPT ![p] = from]
  /\ UNCHANGED <<visible, attempt, candidate, count, found, changed, window,
                 lastMap, notified>>

\* A socket is bound and a session open: the "bound on" report puts the
\* private endpoint into the status, and the first goroutine starts.
SessionOpens(p) ==
  \E from \in Privates :
    /\ private' = from
    /\ shown' = [shown EXCEPT !.private = from]
    /\ StartProbe(p, from)

\* The session is open again, on the socket it had.
SessionResumes(p) ==
  /\ private # NoPrivate
  /\ StartProbe(p, private)
  /\ UNCHANGED <<private, shown>>

\* The session is lost or stopped: cancelProbe.
SessionEnds ==
  /\ current # NoProbe
  /\ stopped' = [stopped EXCEPT ![current] = TRUE]
  /\ current' = NoProbe
  /\ UNCHANGED <<visible, private, place, endpoint, attempt, candidate, count,
                 found, changed, window, outputs>>

\* The router, or the servers, change their minds.
NetworkChanges ==
  /\ visible' \in SUBSET Publics
  /\ UNCHANGED <<private, current, place, stopped, endpoint, attempt,
                 candidate, count, found, changed, window, outputs>>

-----------------------------------------------------------------------------
StartRound(p) ==
  /\ ~stopped[p] /\ Goto(p, "round", "sample")
  /\ attempt' = [attempt EXCEPT ![p] = 1]
  /\ UNCHANGED <<sharedVars, stopped, endpoint, candidate, count, found,
                 changed, window, outputs>>

\* Every test of the context, and every wait that watches it.
GivesUp(p) ==
  /\ stopped[p]
  /\ place[p] \in {"round", "sample", "sampled", "failed", "confirmed"}
  /\ Returns(p)
  /\ UNCHANGED <<sharedVars, stopped, outputs>>

\* Variant: another address does not take the count back to one.
CountAnything(p, m) == count[p] + 1

\* How often the address m has now been seen in a row.
NewCount(p, m) ==
  IF count[p] = 0 \/ candidate[p] # m THEN 1 ELSE count[p] + 1

\* A sample of the round is answered, even when the goroutine has just been
\* cancelled.  Enough equal ones confirm the address and clear the progress.
Sample(p) ==
  \E m \in visible :
    /\ place[p] = "sample"
    /\ window' = [window EXCEPT ![p] =
                    [i \in 1..WindowSize |-> IF i = 1 THEN m ELSE @[i - 1]]]
    /\ IF NewCount(p, m) >= Needed
       THEN /\ place' = [place EXCEPT ![p] = "confirmed"]
            /\ candidate' = [candidate EXCEPT ![p] = NoPublic]
            /\ count' = [count EXCEPT ![p] = 0]
            /\ found' = [found EXCEPT ![p] = m]
       ELSE /\ place' = [place EXCEPT ![p] = "sampled"]
            /\ candidate' = [candidate EXCEPT ![p] = m]
            /\ count' = [count EXCEPT ![p] = NewCount(p, m)]
            /\ UNCHANGED found
    /\ UNCHANGED <<sharedVars, stopped, endpoint, attempt, changed, outputs>>

\* errPublicProbeRoundFailed: no server answered; the progress is kept.
RoundFails(p) ==
  /\ visible = {}
  /\ Goto(p, "sample", "failed")
  /\ UNCHANGED <<sharedVars, stopped, endpoint, attempt, candidate, count,
                 found, changed, window, outputs>>

\* Variant: one sample more than the round allows.
OneSampleMore(p) ==
  /\ ~stopped[p]
  /\ IF attempt[p] <= MaxAttempts
     THEN /\ Goto(p, "sampled", "sample")
          /\ attempt' = [attempt EXCEPT ![p] = @ + 1]
     ELSE /\ Goto(p, "sampled", "failed")
          /\ UNCHANGED attempt
  /\ UNCHANGED <<sharedVars, stopped, endpoint, candidate, count, found,
                 changed, window, outputs>>

\* Half a second later, unless the round has used up its samples.
NextSample(p) ==
  /\ ~stopped[p]
  /\ IF attempt[p] < MaxAttempts
     THEN /\ Goto(p, "sampled", "sample")
          /\ attempt' = [attempt EXCEPT ![p] = @ + 1]
     ELSE /\ Goto(p, "sampled", "failed")
          /\ UNCHANGED attempt
  /\ UNCHANGED <<sharedVars, stopped, endpoint, candidate, count, found,
                 changed, window, outputs>>

\* Variant: one round is all it gets.
GiveUpAfterRound(p) ==
  /\ place[p] = "failed" /\ ~stopped[p]
  /\ Returns(p)
  /\ UNCHANGED <<sharedVars, stopped, outputs>>

\* Five seconds later, another round with the progress made so far.
Retry(p) ==
  /\ ~stopped[p] /\ Goto(p, "failed", "round")
  /\ UNCHANGED <<sharedVars, stopped, endpoint, attempt, candidate, count,
                 found, changed, window, outputs>>

\* The context is looked at for the last time; then publishMapping.
Publish(p) ==
  /\ ~stopped[p] /\ Goto(p, "confirmed", "publish")
  /\ UNCHANGED <<sharedVars, stopped, endpoint, attempt, candidate, count,
                 found, changed, window, outputs>>

Event(p) == [public |-> found[p], private |-> endpoint[p]]

\* Variant: an unchanged public address is not stored again.
UpdatePublicOnly(p) ==
  /\ Goto(p, "publish", "report")
  /\ changed' = [changed EXCEPT ![p] = lastMap.public # found[p]]
  /\ lastMap' = IF lastMap.public # found[p] THEN Event(p) ELSE lastMap
  /\ UNCHANGED <<sharedVars, stopped, endpoint, attempt, candidate, count,
                 found, window, shown, notified>>

\* updateMappingLocked, under r.mapMu.
UpdateMapping(p) ==
  /\ Goto(p, "publish", "report")
  /\ changed' = [changed EXCEPT ![p] = lastMap # Event(p)]
  /\ lastMap' = Event(p)
  /\ UNCHANGED <<sharedVars, stopped, endpoint, attempt, candidate, count,
                 found, window, shown, notified>>

\* The report of publishMapping; without a change it is the end.
ReportMapping(p) ==
  /\ place[p] = "report"
  /\ shown' = Event(p)
  /\ IF changed[p]
     THEN /\ place' = [place EXCEPT ![p] = "notify"]
          /\ UNCHANGED <<endpoint, attempt, candidate, count, found, changed,
                         window>>
     ELSE Returns(p)
  /\ UNCHANGED <<sharedVars, stopped, lastMap, notified>>

\* runNotify starts the script.
RunNotify(p) ==
  /\ place[p] = "notify"
  /\ notified' = Event(p)
  /\ Returns(p)
  /\ UNCHANGED <<sharedVars, stopped, lastMap, shown>>

-----------------------------------------------------------------------------
ProbeStep(p) ==
  \/ StartRound(p) \/ GivesUp(p) \/ Sample(p) \/ RoundFails(p) \/ NextSample(p)
  \/ Retry(p) \/ Publish(p) \/ UpdateMapping(p) \/ ReportMapping(p)
  \/ RunNotify(p)

Next ==
  \/ SessionEnds \/ NetworkChanges
  \/ \E p \in Probes : SessionOpens(p) \/ SessionResumes(p) \/ ProbeStep(p)

Spec == Init /\ [][Next]_vars

\* The scheduler runs the goroutines, and their timers fire.
FairSpec == Spec /\ \A p \in Probes : WF_vars(ProbeStep(p))

-----------------------------------------------------------------------------
(* Properties                                                              *)

\* What is published was shown by each of the last Needed samples of the
\* goroutine, across failed rounds and retries (confirmPublicProbeWithProgress).
ConfirmedInARow ==
  \A p \in Probes :
    place[p] \in {"confirmed", "publish", "report", "notify"} =>
      \A i \in 1..Needed : window[p][i] = found[p]

\* With one goroutine at a time: while no publication is under way, the
\* runner, the status and the last script do not contradict each other.  The
\* status may still lack the public address the runner was seeded with, and
\* show the private endpoint of a session whose mapping is not confirmed yet;
\* no script has run for a mapping the runner was seeded with.  A session
\* whose goroutine has done its work has all three outputs as it left them,
\* for the endpoint of that session.
OutputsAgree ==
  (\A p \in Probes : place[p] \notin {"report", "notify"}) =>
    /\ shown.public \in {NoPublic, lastMap.public}
    /\ private # NoPrivate => shown.private \in {lastMap.private, private}
    /\ notified # NoMap =>
         notified = lastMap /\ shown.public = notified.public
    /\ current # NoProbe /\ place[current] = "idle" =>
         shown = lastMap /\ lastMap.private = private

\* A goroutine that is left alone while every server shows one address gets
\* to show that address, wherever it was in its rounds.
SettledAddressIsShown ==
  \A p \in Probes, m \in Publics :
    []( (place[p] \in {"round", "sample", "sampled", "failed"}
         /\ [](visible = {m} /\ ~stopped[p]))
        => <>(shown.public = m) )

\* "Notification scripts run only when the confirmed public mapping changes."
OnlyPublicChangesNotify ==
  [][notified' # notified => notified'.public # notified.public]_vars
=============================================================================
