--------------------------- MODULE RuntimeEvents ---------------------------
(***************************************************************************)
(* The runtime statuses of the instances and the subscriptions to their    *)
(* changes: one queue per open event stream, which loses its oldest event  *)
(* when it is full, whichever instance that is about.  A status is known   *)
(* by the number of its last change.                                       *)
(***************************************************************************)
EXTENDS Naturals, Sequences, SequencesExt

CONSTANTS Instances, Streams,
          Capacity,   \* 64 in SubscribeRuntime
          MaxChanges  \* bound: of the changes counted

ASSUME CapacityAssumption == Capacity \in Nat \ {0}
ASSUME MaxChangesAssumption == MaxChanges \in Nat

VARIABLES
  changes,
  stored,       \* the instances in the store
  status,       \* m.status
  subscribers,  \* m.subscribers: the streams that have a queue
  queue

eventVars == <<changes, stored, status, subscribers, queue>>

EventsTypeOK ==
  /\ changes \in 0..MaxChanges /\ stored \subseteq Instances
  /\ status \in [Instances -> 0..MaxChanges]
  /\ subscribers \subseteq Streams
  /\ \A s \in Streams : Len(queue[s]) <= Capacity
  /\ \A s \in Streams \ subscribers : queue[s] = << >>

EventsInit ==
  /\ changes = 0 /\ stored = Instances /\ status = [i \in Instances |-> 0]
  /\ subscribers = {} /\ queue = [s \in Streams |-> << >>]

-----------------------------------------------------------------------------
SubscribeRuntime(s) ==
  /\ s \notin subscribers /\ subscribers' = subscribers \cup {s}
  /\ UNCHANGED queue

\* Variant: the queue outlives its subscription.
UnsubscribeOnly(s) == subscribers' = subscribers \ {s} /\ UNCHANGED queue

Unsubscribe(s) ==
  /\ subscribers' = subscribers \ {s}
  /\ queue' = [queue EXCEPT ![s] = << >>]

\* Variant: a full queue refuses the new event.
KeepOldest(events, event, overtaken) ==
  IF Len(events) < Capacity THEN Append(events, event) ELSE events

\* What notifyStatusLocked makes of one queue.  The handler does not wait for
\* m.mu: it may take an event after the queue was found full, and one more is
\* dropped all the same.
Offer(events, event, overtaken) ==
  IF Len(events) = Capacity
     \/ (overtaken /\ Len(events) = Capacity - 1 /\ events # << >>)
  THEN Append(Tail(events), event)
  ELSE Append(events, event)

NotifyStatus(i, st) ==
  \E overtaken \in SUBSET subscribers :
    queue' = [s \in Streams |->
                IF s \in subscribers
                THEN Offer(queue[s], [id |-> i, runtime |-> st], s \in overtaken)
                ELSE queue[s]]

Count == changes < MaxChanges /\ changes' = changes + 1

\* report, setStatusLocked: under m.mu.
StatusChanges(i) ==
  /\ Count /\ status' = [status EXCEPT ![i] = changes']
  /\ NotifyStatus(i, changes')
  /\ UNCHANGED <<stored, subscribers>>

\* A configuration is added or deleted, by this page or another client.
StoreChanges(i) ==
  /\ Count
  /\ stored' = IF i \in stored THEN stored \ {i} ELSE stored \cup {i}
  /\ UNCHANGED <<status, subscribers, queue>>

\* The last event of an instance that waits in a queue is its status: a full
\* queue never loses the news and keeps what is out of date.
QueueIsCurrent ==
  \A s \in subscribers : \A n \in DOMAIN queue[s] :
    LET event == queue[s][n]
    IN  (\A k \in (n + 1)..Len(queue[s]) : queue[s][k].id # event.id)
          => event.runtime = status[event.id]
=============================================================================
