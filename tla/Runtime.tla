------------------------------ MODULE Runtime ------------------------------
(***************************************************************************)
(* The runtime record of one instance: what Manager keeps in m.status[id]  *)
(* and what Store keeps in db.Runtime[id].  Every operator below is the    *)
(* body of one critical section under m.mu; the store's own lock s.mu is   *)
(* only ever taken inside it or alone, so each is one atomic step.         *)
(*                                                                         *)
(* Of RuntimeStatus only the fields the properties tell apart are kept:    *)
(* the state, the state of the keep-alive report, and the mapping, whose   *)
(* three parts are reported apart: `public` (the Public* fields, which     *)
(* only ever come together), `private` (PrivateAddress, PrivatePort) and   *)
(* the protocol.                                                           *)
(***************************************************************************)

CONSTANTS Publics,     \* confirmed public addresses
          Privates,    \* local endpoints of sessions
          Protocols,
          NoPublic,    \* the Public* fields are empty
          NoPrivate    \* the Private* fields are empty

ASSUME NoPublicAssumption == NoPublic \notin Publics
ASSUME NoPrivateAssumption == NoPrivate \notin Privates
ASSUME ProtocolsAssumption == Protocols \subseteq {"tcp", "udp"}

VARIABLES status,     \* m.status[id]
          persisted   \* the store's db.Runtime[id]

runtimeVars == <<status, persisted>>

States == {"stopped", "starting", "running", "stopping", "error"}
KeepAliveStates == {"", "connected", "reconnecting", "disconnected"}
Mapping == [public : Publics \cup {NoPublic},
            private : Privates \cup {NoPrivate},
            protocol : Protocols \cup {""}]
NoMapping == [public |-> NoPublic, private |-> NoPrivate, protocol |-> ""]

\* What a publication fills in.
Whole == [public : Publics, private : Privates, protocol : Protocols]

RuntimeStatus == [state : States, keepAlive : KeepAliveStates,
                  mapping : Mapping]

RuntimeTypeOK == status \in RuntimeStatus /\ persisted \in Mapping

\* statusForLocked: an instance nobody has touched since the process began.
FreshStatus == [state |-> "stopped", keepAlive |-> "", mapping |-> NoMapping]

-----------------------------------------------------------------------------
StateClearsKeepAlive(s) == s \in {"starting", "stopping", "stopped"}
StateBlocksKeepAlive(s) == s \in {"stopping", "stopped"}

\* setStatusLocked: the manager itself moves the instance to state s.
SetStatus(s) ==
  status' = [status EXCEPT
               !.state = s,
               !.keepAlive = IF StateClearsKeepAlive(s) THEN "" ELSE @]

\* What a runner hands to report(): a partial RuntimeStatus, of which only
\* the fields it fills in are merged.  `fresh` is StartedAt # nil.
NoUpdate == [state |-> "", fresh |-> FALSE, keepAlive |-> "",
             mapping |-> NoMapping]
StateUpdate(s) == [NoUpdate EXCEPT !.state = s]
KeepAliveUpdate(k) == [NoUpdate EXCEPT !.keepAlive = k]
FreshStart(protocol) ==
  [NoUpdate EXCEPT !.state = "starting", !.fresh = TRUE,
                   !.mapping.protocol = protocol]
BoundOn(endpoint) ==
  [NoUpdate EXCEPT !.state = "starting", !.mapping.private = endpoint]
Published(m) == [NoUpdate EXCEPT !.state = "running", !.mapping = m]

ReportClearsKeepAlive(u) ==
  \/ u.state \in {"stopping", "stopped"}
  \/ u.state = "starting" /\ u.fresh

\* report merges in this order: the state, then the mapping, then the
\* keep-alive, which the merged state may refuse.
MergedState(u) == IF u.state = "" THEN status.state ELSE u.state

MergedKeepAlive(u) ==
  IF u.keepAlive # "" /\ ~StateBlocksKeepAlive(MergedState(u))
  THEN u.keepAlive
  ELSE IF ReportClearsKeepAlive(u) THEN "" ELSE status.keepAlive

Given(new, none, old) == IF new = none THEN old ELSE new

MergedMapping(u) ==
  [public   |-> Given(u.mapping.public, NoPublic, status.mapping.public),
   private  |-> Given(u.mapping.private, NoPrivate, status.mapping.private),
   protocol |-> Given(u.mapping.protocol, "", status.mapping.protocol)]

Merged(u) == [state |-> MergedState(u), keepAlive |-> MergedKeepAlive(u),
              mapping |-> MergedMapping(u)]

\* Variant: never overwrite a saved mapping.
SaveOnlyOnce(m) == persisted' = IF persisted = NoMapping THEN m ELSE persisted

\* Variant: save only a new public address.
SaveNewPublic(m) ==
  persisted' = IF m.public \in {NoPublic, persisted.public} THEN persisted ELSE m

\* SaveRuntimeStatus: a record without a public address is not saved.
SaveRuntimeStatus(m) ==
  persisted' = IF m.public = NoPublic THEN persisted ELSE m

\* report: merge, and save all of the mapping when the update carried the
\* public part.
Report(u) ==
  /\ status' = Merged(u)
  /\ IF u.mapping.public # NoPublic THEN SaveRuntimeStatus(Merged(u).mapping)
                                     ELSE UNCHANGED persisted

\* clearRuntime empties the mapping under m.mu and forgets the saved one
\* only after it has let go of the lock: two steps.
ClearMapping == status' = [status EXCEPT !.mapping = NoMapping]
ClearRuntimeStatus == persisted' = NoMapping
=============================================================================
