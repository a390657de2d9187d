# A TLA+ model of NATCat

NATCat keeps "hole-punched" public mappings open: for every configured instance
one goroutine (a *runner*) binds a local port, keeps a keep-alive session to
some server open from that port, asks STUN servers for the public address of
the port, and publishes it (status page, saved record, notification script).
A small HTTP server with a JSON data file manages the instances.

The source is under `src/` of the repository root; `internal/core` and
`internal/server` hold the logic.

## 1. Inventory

| part | state | operations | talks to |
|---|---|---|---|
| `Manager` (manager.go) | `runners`, `status`, `subscribers` under `mu` | Start, Stop, ReplaceConfig, ApplyConfig, StopAll, report, clearRuntime, SubscribeRuntime | calls Store and Runner; Runner calls back `report` |
| `Runner` (runner.go) | `cancelRun`, `done`, `lastMap`, port preference, server cursors, UDP query counter, tracked connections | Run (runTCP / runUDP, reconnect, rebuild, retry), Stop, probe goroutines | report callback; sockets; notification script |
| public probe (runner.go 543-620, 1326-1480) | confirmation progress of one goroutine | confirm, publish, retry after 5 s | Runner, STUN |
| bind port (runner.go 1985-2060, port.go) | last and preferred port | bindPort, advanceBindPort, keepBindPort | OS |
| server rotation (runner.go 1179-1235) | one cursor per kind | orderedServerEndpoints, setServerCursorAfter | - |
| UDP STUN (runner.go 863-946, 1480-1680) | shared socket, channel of 8 responses | reader goroutine, fan-out with retries | STUN servers |
| `Store` (store.go) | `db` under `mu`, the data file | Add/Update/DeleteInstance, server groups, runtime records, admin | file system |
| HTTP server (server.go) | none of its own | login, instances, start/stop, server groups, event stream | Manager, Store, sessions |
| sessions (sessions.go) | token -> expiry | create, valid (extends), clear | - |
| validation (validate.go) | none | defaults and checks of a configuration | - |
| auth, stun, port_check, tcp_rtt, socket_options | none | pure functions or one system call | OS |
| main (cmd/natcat) | none | start-up, `natcat password` | Store, Manager |
| Web UI (web/dist) | one page's copy of the snapshots | fetch, event stream, rendering | HTTP server |

### How they interact

* Every HTTP request is a goroutine that calls into the Manager. The Manager
  never holds `mu` while it waits: Stop waits up to 5 s and ReplaceConfig up to
  30 s for the runner's `Done()`, and each then takes the lock again.
* A runner reports through `Manager.report`, one critical section per report.
  It tests its context between reports, never together with one.
* A probe goroutine is cancelled with its session but nobody waits for it.
* When `Run` returns, the goroutine of Start takes the lock once more to
  unregister the runner.

### What is hard, and what makes each part correct

* Manager: overlapping Start, Stop, PUT, DELETE and server-group changes, late
  clean-up, timeouts. Correct when there is never a second worker for an
  instance, the registry never loses a successor, the status on display is
  true, requests return, and what runs is what is stored.
* Runner: reports in flight when the instance is stopped; losing a session at
  any moment. Correct when a worker that has been cancelled ends, and the
  keep-alive shown as connected has a session behind it.
* Public probe: two probe goroutines at once, rounds that fail half-way, late
  publications. Correct when only an address seen often enough *in a row* is
  published, and a change is notified once.
* Bind port, server rotation: wrap-around, ranges of one, stale goroutines.
* UDP STUN: lost, late, duplicated responses of one socket shared by all probes.
* Store: crash between writing and renaming; two processes; a failed save.
* Events: a full queue. Sessions: the expiry boundary.

The full list, each hazard with the line where it bites and the properties
that cover it, is `hazards` in `PROJECT.json`.

## 2. Plan

Done in this version (in this order):

1. `Runtime` - the runtime record of an instance and the merge of a report.
2. `Runner` - the goroutines of runners and probes, on top of `Runtime`.
3. `Manager` - the registry and the request handlers, on top of `Runner`:
   the whole composed system, with its properties.
4. `SingleWorker` - the abstract promise, implemented by `Manager`.
5. `ManagerProofs` - type correctness, "at most one worker", "runners leave
   ended", for all values of the constants.

6. `PublicProbe` - confirmation, progress across rounds, retry, publish,
   notify; `PublicProbeProofs` - its types and "confirmed in a row".

7. `DataFile` - memory, temporary file, data file, two processes, crashes;
   `AtomicFile` - what readers of the file may rely on; `DataFileProofs` -
   confirmed saves survive, and `DataFile` implements `AtomicFile`.

8. `BindPort`, `ServerLists` and `ServerRotation`, composed in `Attempts`: the
   port an attempt binds and the servers it asks; `ServerListsProofs` - what
   becomes of a list; `RotationProofs` - the three properties of the servers;
   `AttemptsProofs` - the three of the port, and the types.

9. `UdpStun` - the shared socket, requests, retries and stale answers;
   `UdpStunProofs` - its types and "samples are fresh".

10. `Sessions` and `RuntimeEvents`, composed in `WebPage` with the page that
    reads them; `WebPageProofs` - types, current queues, ended sessions.

11. `ManagerProofs` also proves that what is on display is true, that the saved
    public address agrees with it and what may set the rest apart,
    `PublicProbeProofs` that the outputs of a publication agree.

12. `ManagerProofs` proves the safety part of the refinement `Manager =>
    SingleWorker`, and `StoredConfigRuns` for requests made one after the other.

Left, in order of importance:

13. What else `StoredConfigRuns` holds for: requests that give up their wait.

How the modules depend on each other:

    Runtime <- Runner <- Manager (implements SingleWorker)
    AtomicFile <- DataFile (implements it)
    PublicProbe
    UdpStun
    BindPort, ServerLists <- ServerRotation: both in Attempts
    Sessions, RuntimeEvents <- WebPage

Each module whose name begins with MC makes an instance of one of them for TLC.

## 3. The modules

### Runtime

`status` is `m.status[id]`, `persisted` is `db.Runtime[id]`. Of the record
only the state, the state of the keep-alive report and the mapping are kept. The
mapping has three parts, which the code reports and merges apart: `public` (the
`Public*` fields, which only ever come together), `private` (`PrivateAddress` and
`PrivatePort`) and the protocol. The first report of a runner fills in the
protocol (`FreshStart`), that of a bound session the local endpoint (`BoundOn`), a
publication all three; only an update with a public address is saved, and then
the whole merged mapping is. `Report(u)`
is the whole critical section of `Manager.report`, the save included; the merge
order (state, mapping, keep-alive) is that of the code, because the keep-alive
is accepted or refused by the state that has just been merged. `SetStatus` is
`setStatusLocked`; `ClearMapping` and `ClearRuntimeStatus` are the two halves of
`clearRuntime`, separate because the code lets go of the lock between them.

### Runner

`run[r]` is the place of the goroutine of runner `r`. A step ends where another
goroutine could look: at each report and at each test of the context.

| places | code |
|---|---|
| spawned, begin | Run up to storing `cancelRun`; its first report |
| loop, open, bound | top of Run's loop; runTCP/runUDP until the first session is open |
| serving, replying | the keep-alive loop, between and during requests |
| lost, reconnecting, redial, redialing, portGone, reconnected, resumed | a lost session and the reconnect loop |
| rebuild, pause | errSessionClosed: report, one second, again |
| failed, retryWait | any other error: report, five seconds, again |
| exit, closing, done | the "stopped" report, the deferred calls |

Sockets are nondeterministic: a connect, a request or a reconnect may succeed
or fail in each way the code distinguishes (a first TCP request that fails is
`errSessionClosed` and leads to a rebuild, like a lost session). `private[r]` is
the local endpoint of the runner's session, chosen anew each time a session is
bound, reported before the first probe goroutine starts, and kept across
reconnects. `KnowsMapping` is `currentTCPPublicMapping`; the code compares only
the port of the endpoint, so that endpoints are told apart by their port. Elements of `Runners` and `Probes`
are memory cells: Start takes a cell nobody refers to. A Start that finds no
free cell waits in the model; that only removes behaviours in which yet more
objects pile up.

### Manager

One instance id. `registered` is `m.runners[id]`, `item` the stored entry of
the instance, `pc`/`call` the place and the locals of each request goroutine,
and one action is one critical section, one store access or one wait.
`call[t].then` is what the caller does once the runner has stopped, so that
Stop, DELETE, the disabling PUT and the restarting PUT share the actions
StopLocked, CancelTarget, StopDone and StopTimeout.

`Crash` ends the process at any point and keeps what is saved; `StartEnabled`
is the next start. `Seed` is what Start hands to seedRuntime: the mapping on
display if it has a public address, or else the saved one. `Retire` forgets what
the unregistered runner held, since nobody reads it again. A read of the context that a handler cannot act on is left
out, and saving is taken to succeed (a failed save is for module DataFile).

### PublicProbe

The part of a runner that `Runner` shows as two steps (ProbeConfirms, Publish)
in full: rounds of samples, the count of equal answers, its survival across
failed rounds, the retry every five seconds, and the three outputs (`lastMap`,
the status, the script). TCP and UDP probes differ only in how a sample is
taken, so one module stands for both. `visible` is the environment: the public
addresses the next sample may show. `window` is a history variable, the
latest samples of a goroutine, and `private` the endpoint of the session; the
properties compare the outputs with them.

There is one runner, hence one protocol, so that a mapping is a public address
and the endpoint behind it. `Init` is a runner that Start has just made: its
`lastMap` comes from the display or, after a restart of the process, from the
saved record, with no public address on display (perhaps an endpoint, that of a
session of an earlier runner). `SessionOpens` includes the bound report, which
shows the new endpoint at once; `SessionResumes` is a session that is open again
on the socket it had.

### DataFile and AtomicFile

`saveLocked` step by step - refresh the credential from disk, create or empty the
temporary file, write it, rename it - for two processes, the server and
`natcat password`. `path` and `tmp` are the two names and `fd` the open files;
all lead to inodes, so that a rename moves what the *other* process is writing
if that is what the name leads to. Between any two steps a process may fail
(`SaveFails`: the server keeps its change in memory, as the code does) or die
(`Die`). Everything under `s.mu` is one process's save; the requests of the
server only differ in what they do to `data`. (SaveRuntimeStatus and
ClearRuntimeStatus return without a save when there is nothing to change in
memory, store.go 173 and 188: no step. Their callers drop the result, so it
reports nothing as saved to anybody.) Credentials are numbered in the
order they were chosen and carry the `LastPassword` stamp the code compares.
`acked` and `tried` are history: what users were told is saved, and which
settings were asked for since. `AtomicFile` is the promise to a reader: one
whole value, replaced at once, by new settings or by a newer password.

### SingleWorker

The promise in four lines: nobody or one worker; it can be told to stop; one
that was told does stop. The refinement maps the worker to the runner that has
not ended and `told` to "its context is cancelled".

### BindPort, ServerLists, ServerRotation and Attempts

`BindPort` has the picker of a port text (`a`, `a-b`, `a~b`, 0 for a port of the
system's choice) and the four fields of the preference. `NextExcept(except)` is
the set of results `NextExcept` may return; for a sequential range it has one
element. `ServerLists` is what happens to the lists of servers before a runner
sees them: entries without a host and repeated ones are dropped, old group lists
are merged, defaults are filled in when a file is read (`LoadedLists`), and a
request whose lists come out empty is refused (`Accepted`). A data file edited
by hand may leave a group empty; the runner then falls back to the custom server
of the instance. The two loops are recursive functions whose n-th value is the
list after n rounds; `StoredLists` takes the options of a file or of a request
through all of it, so that `Attempts` starts from what a user has written. `ServerRotation` has one cursor per kind and the orders that
come from it; positions count from 0 as in the code.

`Attempts` is who uses them. `place` is where runTCP or runUDP is:

| place | code |
|---|---|
| rebuild | top of Run's loop: the next step takes a port |
| binding | runUDP opens its socket (runTCP binds with each dial) |
| dialing | the servers of `order`, one after the other |
| open | the session |
| reconnecting | the rounds after a lost session, from the same port |

TCP keeps a port when a dial succeeds, UDP when the socket is open, and neither
when it reconnects. `probe` are the probe goroutines of this and of earlier
sessions. They draw batches from the STUN cursor, and one that is about to call
its port refused (`blaming`) has already looked at its context for the last
time: `Blames` names no port, so it gives up whatever port the runner prefers by
then. The next session may therefore leave a port untried that nobody has tried
(it counts as given up in `left`), but never binds one out of turn. A reconnect
that finds the mapping it knows still there starts no probe; whether it does is
a free choice of `RedialSucceeds`. The context of the runner is not in this
module (see `Runner`): an attempt that is cancelled is a prefix of one that is
not.

### UdpStun

`requests` and `answers` are what is in the network and in the receive buffer,
`responses` the channel of `sharedUDPConn`. A sample has one id for all its
requests (the code draws one per server and keeps them in `byTID`). `ReadFrom` is
the goroutine of the QUIC transport, which reads only while a session is `open`
(dialling included). `Begin`, `Send`, `Accept`, `Ignore`, `Timeout` are the
places of `stunUDPSharedFanout`, `Count` and `Return` those of its caller. An
answer from a server the request was not sent to is refused by
`stunSourceMatches`; it is as good as lost, so `Lose` stands for it too.
`stunUDPShared` is called by nobody and left out. `since` is a history variable:
the addresses the socket had while the sample was under way.

### Sessions, RuntimeEvents and WebPage

`items` counts the ticks a token has left; an accepted request winds it up again,
a tick counts it down, and `ended` remembers the tokens that came to their end.
The cookie is counted apart, because the code renews the session and not the
cookie: a browser may forget a session that still lives on the server.
`RuntimeEvents` numbers the changes of all statuses, so that "current" has a
meaning; `Offer` is `notifyStatusLocked` for one queue, with the step in which
the handler takes an event just before the full queue is made to drop one.

`WebPage` is the page (`mode`, `shown`, `source`), the handlers of `/api/events`
(`stream`) and the requests in flight (`call`): each is sent, authorised, served
in two critical sections (the list of items, then the statuses), answered, and
arrives, unless it is lost on the way or the server restarts. `ListArrives` and
`Delivers` merge a list and an event as `loadInstances` and `applyRuntimeEvent`
do. A logout whose request is lost shows the login form while the session lives
on, as in the code. The queue stands for the wire as well: an event that has
left the server and not arrived counts as waiting. A full queue may drop the
last event of *another* instance; the poller makes up for it, which is what
`PageCatchesUp` says.

## 4. The runs

The runs of module `MCManager` have two runner cells (a runner and its
successor) and one instance. Requests, lost sessions, crashes and probes are
unlimited in number; every state space is exhausted.

| run | instance | shows |
|---|---|---|
| overlapping_requests | 2 requests at a time, timeouts, lost sessions, no public addresses | `LiveRunnerIsRegistered`, `StoppedIsHonest`, `ErrorMeansRetrying`, `ConnectedIsHonest`, `OnlyEndedRunnersLeave` |
| late_probes | 1 request at a time, 2 probes, 2 public addresses, 2 local endpoints, no timeouts | `TypeOK`, `SavedAddressIsShown`, `OnlyNewSessionsSetApart` |
| stored_config | 1 request at a time, 8 configurations, no timeouts | `StoredConfigRuns` |
| calls_return | fairness, lost sessions | `EveryCallReturns`, `OneWorkerThatStops` |
| late_keepalive | 1 request at a time, lost sessions | a violation: `LateKeepAliveIsIgnored` |

Bounds, by name: `Threads` (requests at a time), `Runners`, `Probes` (goroutines
alive at a time), `Publics`, `Privates`, `Protocols` (values of the parts of a
mapping), `Binds`, `Rests` (values of the other parts of a configuration), `TimeoutsFire` and `SessionsBreak` (whether waits may time
out and open sessions be lost). Two runners suffice for a runner and its
successor, since `LiveRunnerIsRegistered`, which is proved for any number, shows
that there is no third at work. `StoredConfigRuns` excludes timeouts because
after one the code has told the caller that the restart failed.

In `late_probes` two local endpoints let a session open on another one than the
last; no session is lost there, so that its sessions follow stops, restarts and
replacements. The same run with lost sessions is too large; a session that is
lost and opens again on its old endpoint, with or without a new goroutine, is
checked in `PublicProbe`, and the theorems cover all of it for `Manager`.

The saved public address and the one on display never contradict each other. The
rest of the two copies may: a session that is rebuilt on another port puts its
endpoint on display next to the public address of the earlier one, and saves
nothing until its own address is confirmed (runner.go 240, manager.go 360). A
restart then restores the endpoint of the earlier session. Such a report is
the only thing that sets the copies apart, which is what
`OnlyNewSessionsSetApart` says.

Module `MCPublicProbe`, with sessions, changes of the network and rounds
unlimited in number:

| run | instance | shows |
|---|---|---|
| confirmation | fairness, 2 addresses, 2 private endpoints, 3 confirmations | `TypeOK`, `ConfirmedInARow`, `OutputsAgree`, `SettledAddressIsShown` |
| private_change | 1 address, 2 private endpoints | a violation: `OnlyPublicChangesNotify` |

`Configured` is the stored confirmation count and `EndpointCount` the length of
the STUN list: with one server and three confirmations a round has six samples,
so that a row of equal answers can end in one round and be completed in the
next. `WindowSize` bounds the history and must hold a whole row
(`WindowAssumption`).

`Probes` has one cell, so that one goroutine follows the other: their counts are
independent (and `PublishedWasConfirmed` is proved for any number of them), and
racing publications may end in either order, so that nothing is said of them.

`OutputsAgree` allows what the code allows while no publication is under way: the
status may still lack the public address a restarted runner was seeded with, and
show the endpoint of a session whose mapping is not confirmed yet. Once the
goroutine of the session has done its work, runner and status hold the same
mapping, for the endpoint of that session, and the last script had it too (if
one has run).

`private_change` shows a place where the program does not do what its README
says: a rebuilt session with another local port runs the notification script
for an unchanged public mapping. Another is a plain constant, `DefaultConfirmations`:
the confirmation count defaults to 2, not to the 3 of the README.

Module `MCDataFile`, with saves, failures and deaths of processes unlimited in
number:

| run | instance | shows |
|---|---|---|
| atomic_saves | 2 settings, 2 passwords | `TypeOK`, `AcknowledgedIsOnDisk`, `LoginKnowsNewPassword`, `SavesAreAtomic` |
| command_during_save | as atomic_saves, `Overlap` | a violation: `NewPasswordWorks` |

`MaxPasswords` bounds the password changes; three inodes are the data file, the
temporary file and one to create. The code has no lock between the processes:
`Overlap = FALSE` is the discipline of an operator who changes the password while
the server is not saving, and `ClockSteady` a clock that is never set back. The
passing run and the theorems say what holds under both. `command_during_save`
shows what happens without the first: a password change reported as done is
overwritten by the save it overlapped. With `ClockSteady = FALSE` the same
property fails even when the processes take turns, because the command puts the
older credential back if its stamp is later. An overlap may also rename a file
the other process has just emptied, and a torn file stops the server for good,
so the run does not look for deadlock.

`late_keepalive` shows a disagreement between code and test suite: the test
sends a keep-alive report after the stop and wants it ignored, but a state
report already on its way when Stop sets "stopping" sets the state back, and the
keep-alive report after it is accepted.

Module `MCUdpStun`, with sessions, samples, lost and repeated packets and changes
of the address unlimited in number:

| run | instance | shows |
|---|---|---|
| shared_socket | fairness, 2 goroutines, 2 ids, 2 addresses, 1 server | `TypeOK`, `SampleIsFresh`, `SocketIsDrained`, `EverySampleEnds`, `SamplesGetThrough` |

`MaxInFlight` bounds the packets under way, `Capacity` the channel: with one slot
it is full as soon as an answer nobody waits for lies in it, which with eight
takes eight of them. `Retries` is 2, so that an answer to the first attempt
arrives in the second. An id out of use may be drawn again, once no packet bears
it. With two goroutines one is the cancelled one of an earlier session. One
server is enough for the interleavings: the answers of two servers to one
sample differ from a duplicated one only in the server, which nothing reads but
the rotation of `Attempts`.

Module `MCAttempts`, with attempts, refusals, lost sessions, rounds and samples
unlimited in number:

| run | instance | shows |
|---|---|---|
| attempts | 2 probe goroutines, batches of 2, 24 instances | `TypeOK`, `NextPortIsAnother`, `EveryPortGetsATry`, `WorkingPortIsKept`, `FailedServerComesLast`, `BatchesCover`, `RebuildStartsElsewhere` |

The instances, TCP and UDP, are: each kind of port text (1-3, 1~3, 0-2, 2, 0)
with one server; one port with lists of one to four servers, written with
repeated, blank and differently spelled entries, as old groups, or missing from
the file; two ports with two servers. `MaxPort` stands for 65535.

`RebuildStartsElsewhere` is stated for more than two servers. With exactly two
the session that has failed three rounds is "rebuilt with another server"
(runner.go 436 and 1074) and starts with the same one: each round leaves the
cursor one past its first server, which for two servers is the failed one.

Module `MCWebPage`, with logins, requests and connections unlimited in number:

| run | instance | shows |
|---|---|---|
| open_page | fairness, 2 instances, 2 requests in flight, 1 stream, a queue of 1 | `TypeOK`, `QueueIsCurrent`, `EndedSessionsStayEnded`, `PageCatchesUp`, `StreamsEndWithSessions` |

`MaxChanges` bounds the changes of statuses and configurations, restarts
included: two are the least with which a late reply is out of date and an event
is dropped. A session lives one tick, so every interleaving of a request with
its end is there. Two more bounds: one token at a time, and no second login or
logout while one is under way (`NoneUnderWay`). A queue of one is full with every event, so each further one
drops the oldest; a longer queue makes the run too large, and the order inside
it, with the event overtaken by a later one of the same instance, is left to
`QueueHolds`, which is for any capacity. `QueueIsCurrent` and `EndedSessionsStayEnded` are proved for any queue
and any lifetime.

### Fairness

`FairSpec` asks for weak fairness of each runner's goroutine, of each probe
goroutine and of each request under way: the Go scheduler runs what can run,
and every wait in them has a deadline or watches the context. Nothing is assumed
of requests arriving, crashes, or the start-up, nor that a session ever
succeeds or a wait ever times out rather than being answered.

In `PublicProbe` each goroutine is weakly fair: its timers fire and a sample
ends in an answer or a timeout. That the network settles is a premise of
`SettledAddressIsShown`, not an assumption of fairness.

In `UdpStun` the reader, the servers and each goroutine are weakly fair, and so
are `Timeout` and `Return` alone: Go's `select` picks among the ready cases at
random, so that an expired timer or a cancelled context is taken in the end
although answers keep coming. That the network becomes `calm` is a premise of
`SocketIsDrained` and `SamplesGetThrough`; a calm network leaves a timer longer
than an answer takes.

In `WebPage` the poller, the handlers and the server are weakly fair.
`Authorized` and `Arrives` are strongly fair: a request may be lost each time,
but not for ever. Nothing is assumed of users, of the clock, or of an event
stream ever being opened.

`Attempts` has no fairness: its liveness is that of `Runner` and `PublicProbe`.

## 5. What is proved

Module `ManagerProofs`, with no bound on any constant (only the named
assumptions that the markers `NoRunner`, `NoProbe`, `NoPublic`, `NoPrivate` and `NoItem` are
not ordinary values).

* `TypeCorrect`: `Spec => []TypeOK`.
* `AtMostOneWorker`: `Spec => []LiveRunnerIsRegistered`.
* `RunnersLeaveEnded`: `Spec => OnlyEndedRunnersLeave`.
* `StoppedHolds`, `ErrorHolds`, `ConnectedHolds`: `Spec => []StoppedIsHonest`,
  `[]ErrorMeansRetrying`, `[]ConnectedIsHonest`.
* `SavedAddressHolds`: `Spec => []SavedAddressIsShown`.
* `SetApartHolds`: `Spec => OnlyNewSessionsSetApart`.

`LiveRunnerIsRegistered` is not inductive alone. DropRunner unregisters the
runner a thread has waited for, so one must know that it has ended
(`DroppedHasEnded`), and that no new runner has been built in its cell
(`Unused` in `Launch`). A caller of Stop never gets to DropRunner
(`StopIsNotRestart`), which keeps the continuation of StopLocked and StopTimeout
apart from ReplaceConfig's. `IInv` is the conjunction. `RunnerStepMoves` shows
once, for all 24 actions of a runner, that a step moves only its own goroutine
and only while it is live; the other lemmas treat the actions of a thread one
by one.

The three properties of the display are proved together (`Honest`), on top of
`IInv`, which says that only the registered runner reports. They need
`OffShowsNoKeepAlive`: a record that says stopping or stopped shows no
keep-alive, so that the state report which lifts it from there brings none back.
`OffHolds` states that part by itself (`Spec => []OffShowsNoKeepAlive`): it is what
holds of the claim that run `late_keepalive` refutes.

`SavedAddressIsShown` is inductive on top of `IInv`: only the report of a
publication writes a public address, and it writes both copies (`ReportCopies`,
`RunnerStepCopies`, `SetStatusCopies`). `HowCopiesChange` lists what a step may do
to the two: leave both alone, report "starting" without touching the address,
make them equal, or empty one; both theorems follow from it. That a publication
always carries a public address, and so is saved, is `ConfirmedKnow`.
`WorkIsConfigured`, a part of `IInv`, says that whatever is at work has a
configuration, hence a protocol to report.

* `ImplementsSingleWorker`: `Spec => Worker!Safety`, the refinement of
  `SingleWorker` without its fairness.
* `StoredConfigHolds`: `Spec /\ OneAtATime => []StoredConfigRuns`.

For the refinement, `IInv` makes the abstract worker unique: it is the registered
runner while that lives, and nobody otherwise (`WorkerIsLive`). `StepImplements`
goes through the actions: a Launch is `Start` (`LaunchIsStart`), the cancelling
of a live runner `Tell` (`CancelIsTell`), the step in which a goroutine ends, and
a crash, `End` (`NobodyIsEnd`); in all others the worker is the same and stays
told (`OnlyCloseCancels`, `SameWorker`).

`OneAtATime` says that there is one request at a time and that no wait times out,
the conditions of run `stored_config`: with two requests Start may launch a
configuration it has read before the other replaced it, and a request that gives
up its wait leaves the old runner at work. In `ConfigInv`, whatever is at work has
the stored configuration (`Settled`) as long as the request is at a point where it
has not yet disturbed that, or has restored it (`Quiet`). For the other points
`RequestOK` says what the request knows: that nothing is at work, that the runner
it waits for is the registered one, or that the configuration it carries is the
stored one. `ReplaceLeads` says where a replacement goes from there,
`LaunchServes` that a Launch with the stored configuration restores `Settled`.

Module `PublicProbeProofs`, for any number of goroutines, addresses, servers and
confirmations:

* `TypeCorrect`: `Spec => []TypeOK`, the bounds of the counters included.
* `PublishedWasConfirmed`: `Spec => []ConfirmedInARow`.
* `PublicationsAgree`: `OneGoroutine => (Spec => []OutputsAgree)`, where
  `OneGoroutine` says that there is one cell for probe goroutines (as in the run):
  two that publish at once may leave the outputs apart. From any seed and through
  any bound reports.

The second needs `CountedInARow`: the last `count[p]` samples of a goroutine were
all its candidate. `Bounds` shows that a round has at least one sample, whatever
the configuration, `SampleKeeps` that a sample extends the row or starts one.
The third needs `Agreement`, what the outputs have in common in the middle of a
publication.

Module `DataFileProofs`, for any settings, inodes and number of passwords, under
`~Overlap` and `ClockSteady` as hypotheses of each theorem:

* `SavesSurvive`: `Spec => []AcknowledgedIsOnDisk`.
* `LoginsAreCurrent`: `Spec => []LoginKnowsNewPassword`.
* `TypeCorrect`: `Spec => []TypeOK`.
* `ImplementsAtomicFile`: `Spec => SavesAreAtomic`, the refinement.

The invariant says who is at work (`Turns`), what the temporary file holds at
each place of a save (`Temporary`), that stamps order passwords (`Stamped`), how
the password in memory compares with the one in the file (`Passwords`) and where
the settings in the file come from (`Settings`). `Refreshed` is the lemma about
refreshAdminFromDiskLocked that needs the order of the stamps. For the
refinement, `OnlyRenameChanges` and `RenameIsASave` show that a rename is one
abstract save and every other step a stutter.

Module `UdpStunProofs`, for any servers, addresses, goroutines, ids, retries and
capacity:

* `TypeCorrect`: `Spec => []TypeOK`.
* `SamplesAreFresh`: `Spec => []SampleIsFresh`.

`AnswersAreFresh` is the strengthening: any answer in the network or the channel
that bears the id of a sample under way carries an address from its `since`.
`Begin` establishes it because an id drawn is borne by no packet, and a server
that answers puts in the address of the moment, which `SeesTheAddress` has in
`since`.

Module `ServerListsProofs`, for lists and groups of any length; assumed are only
that lists are sequences (`DefaultsAssumption`, `OptionsOK`):

* `KeepsTheFirst`: `NormalizeServerEndpoints` returns the first of equal servers,
  those with a host, in the order given, and leaves none of them out (`Firsts`).
* `StoredInOrder`: no list in the store holds a server twice, whether it comes
  from a file of any version or from a request.
* `InstancesInOrder`: the two lists an instance uses are neither empty nor hold
  a server twice.

These are facts about loops, and so inductions. The provers cannot instantiate
an induction theorem that takes an operator, but they can use the one that takes
a set (`WFMin`: a set of numbers has a least element); `Induction` is made of it.
`LoopHasValues` shows by induction that a loop whose body is a function on a set
has a value after each round; with it a recursive function is shown to satisfy its
equation (`LoopRuns`, `FlatIsList`). `Firsts` is then the invariant of the loop: it
carries the place in the input from which each server of the output comes;
`NothingAdded` and `ServerAdded` are the two ways a round can go.

Module `RotationProofs`, for lists of any length, batches of any size
(`BatchAssumption`: at least one) and any number of probe goroutines:

* `LastComesTheFailed`: `Spec => []FailedServerComesLast`.
* `RebuildMovesOn`: `Spec => []RebuildStartsElsewhere`.
* `EveryServerIsAsked`: `Spec => []BatchesCover`.

That the lists are in order (`ListsInOrder`) is a part of the invariant; it holds
at the start by `InstancesInOrder`, and no step changes a list. `AroundAfter` is
the arithmetic of the circle: from the position after i one comes
to i with the last step and not before. `AfterShows` makes of it what a reconnect
round asks, and that with more than two servers the cursor it leaves does not
point at the failed one. That stays so (`GaveUpIsPast`, in the invariant `SInv`)
until the attempt after the third round, because no other list moves the cursor
of this kind. For `EveryServerIsAsked`, `CInv` says that the servers at most
`silent * BatchSize` behind the cursor have been asked; `BatchExtendsArc` is its
step.

Module `AttemptsProofs`, for any instances, port ranges and server lists and any
number of probe goroutines:

* `WorkingPortHolds`: `Spec => []WorkingPortIsKept`.
* `NextPortHolds`: `Spec => []NextPortIsAnother`.
* `EveryPortHolds`: `Spec => []EveryPortGetsATry`.
* `TypeCorrect`: `Spec => []TypeOK`.

The first two need that a kept port is the preferred one (`KeptIsPreferred`) and
that a refused port is still marked as failed when the next one is picked
(`RefusedIsSkipped`). For the third, `Sweeps` describes the ports given up as an
arc of the range (`Arc`) that ends before the port in use, or as all of it; each
step of the picker lengthens the arc or closes the circle, also where it wraps
around and where a late goroutine gives up a port the session has not tried.
The types join the invariants of `RotationProofs` with `TypeInv`, which bounds
what those leave open (the picker, the places, the rounds); `NoServerAssumption`
keeps the mark of no server apart from the servers.

Module `WebPageProofs`, for any tokens, instances, streams and requests, any
lifetime and any capacity:

* `TypeCorrect`: `Spec => []TypeOK`.
* `QueueHolds`: `Spec => []QueueIsCurrent`.
* `EndedHolds`: `Spec => []EndedSessionsStayEnded`.

The invariant has one part for each of the sessions, the queues, the streams and
the requests. An entry of a queue is current unless a later one is about the
same instance; a new event is about the instance whose status has changed, and
what is dropped is never the last entry, whichever step the handler got in
between.

Only model-checked is everything with fairness, liveness being out of the
prover's reach: `EveryCallReturns`, the liveness of `SingleWorker`
(`OneWorkerThatStops`), `SettledAddressIsShown`, `SocketIsDrained`,
`EverySampleEnds`, `SamplesGetThrough`, `PageCatchesUp` and
`StreamsEndWithSessions`. Every safety property of a passing run has its theorem,
under the conditions named above.

## 6. What is not modelled

* The decoding of STUN messages, HTTP and QUIC bytes, RTT, socket options and
  the port check: byte-level decoding or single system calls without state.
* The password hash: cryptography. Which password counts is in `DataFile`.
* The checks of single fields of a configuration (validate.go), the parsing of a
  port text (its results are the inputs of `BindPort`), the migration of the
  oldest file format, apart from its lists of servers.
* `skipTCPPublicProbeAfterReconnect`, apart from its two outcomes.
* The command line of the notification script, and the script itself.
* In the page: forms, rendering, boot and reload, a login in
  another tab, and events that only carry the age of a keep-alive.
* Log entries, ages and wording; loss of power, as nothing is synced.
