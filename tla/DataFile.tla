----------------------------- MODULE DataFile -----------------------------
(***************************************************************************)
(* The JSON data file, written by the server and by `natcat password`,     *)
(* two processes that share nothing but the directory.  A save writes      *)
(* <path>.tmp and renames it to <path>; either process may fail or die     *)
(* after every step.                                                       *)
(*                                                                         *)
(* A file name leads to an inode, and a process that has a file open holds *)
(* the inode, not the name: both names and all open files are modelled.    *)
(* The admin credential is the number of its password and its LastPassword *)
(* time; everything else in the database is one value, `data`.             *)
(***************************************************************************)
EXTENDS Integers

CONSTANTS Data, Torn, NoFile, NoDb,
          Inodes,
          Server, Command,    \* the processes
          MaxPasswords,       \* bound on the passwords ever set
          Overlap,            \* may a command run during a server save?
          ClockSteady         \* does the wall clock never step back?

Writers == {Server, Command}

ASSUME WritersAssumption == Server # Command
ASSUME MarkersAssumption == NoFile \notin Inodes
ASSUME PasswordsAssumption == MaxPasswords \in Nat

\* LastPassword is 0 in a file that has none.
Database == [password : 0..MaxPasswords, lastPassword : 0..(MaxPasswords + 1),
             data : Data]

ASSUME ContentsAssumption == Torn \notin Database /\ NoDb \notin Database

VARIABLES
  disk,      \* the contents of each inode
  path, tmp, \* the inode each name leads to
  at,        \* where each process is
  db,        \* its database in memory
  fd,        \* the temporary file it has open
  newest,    \* the number of the last password chosen
  acked,     \* history: the password and data last confirmed to a user
  tried      \* history: data asked for since then

vars == <<disk, path, tmp, at, db, fd, newest, acked, tried>>
files == <<disk, path, tmp>>
history == <<acked, tried>>

Saving == {"refresh", "open", "write", "rename", "saved"}
Places == {"down", "up", "idle", "hash"} \cup Saving

Content == IF path = NoFile THEN Torn ELSE disk[path]
Readable == Content # Torn

TypeOK ==
  /\ disk \in [Inodes -> Database \cup {Torn}]
  /\ path \in Inodes \cup {NoFile} /\ tmp \in Inodes \cup {NoFile}
  /\ at \in [Writers -> Places]
  /\ db \in [Writers -> Database \cup {NoDb}]
  /\ fd \in [Writers -> Inodes \cup {NoFile}]
  /\ newest \in 0..MaxPasswords
  /\ acked \in [password : 0..MaxPasswords, data : Data]
  /\ tried \in SUBSET Data
  /\ tmp # NoFile => tmp # path
  /\ \A w \in Writers : at[w] \in Saving \cup {"up", "hash"} => db[w] # NoDb
  /\ \A w \in Writers : at[w] \in {"write", "rename"} => fd[w] # NoFile

Init ==
  /\ path \in Inodes \cup {NoFile} /\ tmp = NoFile
  /\ \E d \in Data :
       /\ acked = [password |-> 0, data |-> d]
       /\ disk = [i \in Inodes |->
                    IF i = path
                    THEN [password |-> 0, lastPassword |-> 0, data |-> d]
                    ELSE Torn]
  /\ at = [w \in Writers |-> IF w = Server THEN "down" ELSE "idle"]
  /\ db = [w \in Writers |-> NoDb]
  /\ fd = [w \in Writers |-> NoFile]
  /\ newest = 0
  /\ tried = {}

-----------------------------------------------------------------------------
\* Whether one process stays clear of the other.
ServerTurn == Overlap \/ at[Command] = "idle"
CommandTurn == Overlap \/ at[Server] \in {"down", "up"}

Goto(w, to) == at' = [at EXCEPT ![w] = to]

\* The save is over: the server goes on, the command exits.
Finish(w) ==
  IF w = Server THEN Goto(w, "up") /\ UNCHANGED db
                ELSE Goto(w, "idle") /\ db' = [db EXCEPT ![w] = NoDb]

\* The times of day a new credential may be stamped with; the one the server
\* makes on its first run is number 0 with time 1.
Stamps == IF ClockSteady THEN {newest + 2} ELSE 1..(newest + 2)

(* saveLocked                                                              *)

\* Variant: the credential in memory is the one that counts.
KeepAdmin(w) == db[w]

\* refreshAdminFromDiskLocked: a newer credential on disk replaces mine.
RefreshAdmin(w) ==
  IF Readable /\ (db[w].lastPassword = 0
                  \/ Content.lastPassword > db[w].lastPassword)
  THEN [Content EXCEPT !.data = db[w].data]
  ELSE db[w]

Refresh(w) ==
  /\ at[w] = "refresh" /\ Goto(w, "open")
  /\ db' = [db EXCEPT ![w] = RefreshAdmin(w)]
  /\ UNCHANGED <<files, fd, newest, history>>

\* Variant: write the data file itself.
OpenInPlace(w) ==
  /\ at[w] = "open" /\ Goto(w, "write")
  /\ path # NoFile
  /\ disk' = [disk EXCEPT ![path] = Torn]
  /\ fd' = [fd EXCEPT ![w] = path] /\ tmp' = path
  /\ UNCHANGED <<path, db, newest, history>>

\* os.WriteFile creates the temporary file, or empties the one that is there.
Open(w) ==
  /\ at[w] = "open" /\ Goto(w, "write")
  /\ \E i \in Inodes :
       /\ IF tmp # NoFile THEN i = tmp
          ELSE i # path /\ \A v \in Writers : fd[v] # i
       /\ tmp' = i
       /\ disk' = [disk EXCEPT ![i] = Torn]
       /\ fd' = [fd EXCEPT ![w] = i]
  /\ UNCHANGED <<path, db, newest, history>>

\* The contents arrive; over what another process has written to the same
\* inode they may leave a mixture.
Write(w) ==
  /\ at[w] = "write" /\ Goto(w, "rename")
  /\ \E c \in {db[w], Torn} :
       /\ disk[fd[w]] = Torn => c = db[w]
       /\ disk' = [disk EXCEPT ![fd[w]] = c]
  /\ UNCHANGED <<path, tmp, db, fd, newest, history>>

\* Variant: a link keeps the temporary name.
RenameAsLink(w) ==
  /\ at[w] = "rename" /\ tmp # NoFile
  /\ Goto(w, "saved")
  /\ path' = tmp
  /\ fd' = [fd EXCEPT ![w] = NoFile]
  /\ UNCHANGED <<disk, tmp, db, newest, history>>

\* os.Rename moves whatever the temporary name leads to by now.
Rename(w) ==
  /\ at[w] = "rename" /\ tmp # NoFile
  /\ Goto(w, "saved")
  /\ path' = tmp /\ tmp' = NoFile
  /\ fd' = [fd EXCEPT ![w] = NoFile]
  /\ UNCHANGED <<disk, db, newest, history>>

\* Variant: nobody looks at the error.
FailSilently(w) ==
  /\ at[w] \in {"open", "write", "rename"}
  /\ Goto(w, "saved")
  /\ fd' = [fd EXCEPT ![w] = NoFile]
  /\ UNCHANGED <<files, db, newest, history>>

\* An error of any of these.  The memory of the server keeps the change; a
\* server that could not save its first file gives up (log.Fatalf).
SaveFails(w) ==
  /\ at[w] \in {"open", "write", "rename"}
  /\ IF path = NoFile
     THEN Goto(w, "down") /\ db' = [db EXCEPT ![w] = NoDb]
     ELSE Finish(w)
  /\ fd' = [fd EXCEPT ![w] = NoFile]
  /\ UNCHANGED <<files, newest, history>>

\* The save has succeeded and its caller is told.
Acknowledge(w) ==
  /\ at[w] = "saved" /\ Finish(w)
  /\ IF w = Server
     THEN acked' = [acked EXCEPT !.data = db[w].data] /\ tried' = {}
     ELSE acked' = [acked EXCEPT !.password = newest] /\ UNCHANGED tried
  /\ UNCHANGED <<files, fd, newest>>

-----------------------------------------------------------------------------
(* The server                                                              *)

\* OpenStore reads the file; it gives up on one it cannot parse.
LoadStore ==
  /\ at[Server] = "down" /\ ServerTurn
  /\ Readable
  /\ Goto(Server, "up")
  /\ db' = [db EXCEPT ![Server] = Content]
  /\ UNCHANGED <<files, fd, newest, history>>

\* OpenStore without a file: a first password, and a save.
CreateStore ==
  /\ at[Server] = "down" /\ ServerTurn
  /\ path = NoFile
  /\ Goto(Server, "refresh")
  /\ \E d \in Data :
       /\ db' = [db EXCEPT ![Server] =
                   [password |-> 0, lastPassword |-> 1, data |-> d]]
       /\ tried' = tried \cup {d}
  /\ UNCHANGED <<files, fd, newest, acked>>

\* AddInstance, UpdateInstance, DeleteInstance, UpdateServerGroups,
\* SaveRuntimeStatus and ClearRuntimeStatus, all under s.mu.  (The last two
\* return without a save when there is nothing to change in memory: no step.
\* Their callers drop the result, so that nobody is told anything.)
Change ==
  /\ at[Server] = "up" /\ ServerTurn
  /\ Goto(Server, "refresh")
  /\ \E d \in Data :
       /\ db' = [db EXCEPT ![Server].data = d]
       /\ tried' = tried \cup {d}
  /\ UNCHANGED <<files, fd, newest, acked>>

\* Admin(): the credential a login is checked against.
Admin ==
  /\ at[Server] = "up"
  /\ db' = [db EXCEPT ![Server] = RefreshAdmin(Server)]
  /\ UNCHANGED <<files, at, fd, newest, history>>

-----------------------------------------------------------------------------
(* natcat password                                                         *)

\* ChangeAdminPassword reads the file, which must be there and whole.
ReadDatabase ==
  /\ at[Command] = "idle" /\ CommandTurn
  /\ Readable /\ newest < MaxPasswords
  /\ Goto(Command, "hash")
  /\ db' = [db EXCEPT ![Command] = Content]
  /\ UNCHANGED <<files, fd, newest, history>>

NewCredential ==
  /\ at[Command] = "hash" /\ Goto(Command, "refresh")
  /\ newest' = newest + 1
  /\ \E t \in Stamps :
       db' = [db EXCEPT ![Command] =
                [password |-> newest', lastPassword |-> t, data |-> @.data]]
  /\ UNCHANGED <<files, fd, history>>

-----------------------------------------------------------------------------
\* A process is killed, or its machine resets it.
Die(w) ==
  /\ at[w] \notin {"down", "idle"}
  /\ Goto(w, IF w = Server THEN "down" ELSE "idle")
  /\ db' = [db EXCEPT ![w] = NoDb]
  /\ fd' = [fd EXCEPT ![w] = NoFile]
  /\ UNCHANGED <<files, newest, history>>

Save(w) ==
  \/ Refresh(w) \/ Open(w) \/ Write(w) \/ Rename(w) \/ SaveFails(w)
  \/ Acknowledge(w)

Next ==
  \/ LoadStore \/ CreateStore \/ Change \/ Admin
  \/ ReadDatabase \/ NewCredential
  \/ \E w \in Writers : Save(w) \/ Die(w)

Spec == Init /\ [][Next]_vars

-----------------------------------------------------------------------------
(* Properties                                                              *)

\* What a user was told is saved is in the file; settings may also be those
\* of a later attempt that failed or died before it could answer.
AcknowledgedIsOnDisk ==
  path # NoFile =>
    /\ Readable
    /\ Content.password >= acked.password
    /\ Content.data \in {acked.data} \cup tried

\* "new password does not work" (TestChangeAdminPassword): a password change
\* that was reported as done is the one in the file.
NewPasswordWorks == path # NoFile /\ Readable => Content.password >= acked.password

\* Whatever the server has in memory, a login is checked against the newest
\* password reported as changed, or a newer one.
LoginKnowsNewPassword ==
  at[Server] = "up" => RefreshAdmin(Server).password >= acked.password

\* To a reader, saves are atomic: the file implements AtomicFile.
Atomic == INSTANCE AtomicFile WITH
            Contents <- Database, Absent <- NoFile,
            file <- IF path = NoFile THEN NoFile ELSE disk[path]
SavesAreAtomic == Atomic!Spec
=============================================================================
