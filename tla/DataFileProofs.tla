-------------------------- MODULE DataFileProofs --------------------------
(***************************************************************************)
(* Theorems about DataFile when its two processes take turns on a machine  *)
(* whose clock does not step back, for any settings, any number of         *)
(* passwords and any number of inodes.                                     *)
(***************************************************************************)
EXTENDS DataFile, TLAPS

\* Which places a process can be at, and that the two take turns.
Turns ==
  /\ at[Server] \in {"down", "up"} \cup Saving
  /\ at[Command] \in {"idle", "hash"} \cup Saving
  /\ at[Command] = "idle" \/ at[Server] \in {"down", "up"}

\* A process in the middle of a save holds the temporary file.
Temporary ==
  \A w \in Writers :
    /\ at[w] \in {"write", "rename"} => fd[w] = tmp /\ tmp # NoFile
    /\ at[w] = "write" => disk[tmp] = Torn
    /\ at[w] = "rename" => disk[tmp] = db[w]
    /\ at[w] = "saved" => path # NoFile /\ Content = db[w]

\* A steady clock orders the passwords.
Steady(c) ==
  c.lastPassword = c.password + 1 \/ (c.password = 0 /\ c.lastPassword = 0)

Stamped ==
  /\ path # NoFile => Content \in Database /\ Steady(Content)
  /\ \A w \in Writers :
       at[w] \in {"up"} \cup Saving => db[w] \in Database /\ Steady(db[w])

\* How the password in the file relates to those in memory.
Passwords ==
  /\ acked.password <= newest
  /\ path = NoFile =>
       /\ newest = 0 /\ at[Command] = "idle" /\ at[Server] # "up"
       /\ at[Server] \in Saving => db[Server].password = 0
  /\ path # NoFile =>
       /\ acked.password <= Content.password /\ Content.password <= newest
       /\ at[Server] \in {"up", "refresh"} =>
            db[Server].password <= Content.password
       /\ at[Server] \in {"open", "write", "rename"} =>
            db[Server].password = Content.password
       /\ at[Command] = "hash" =>
            db[Command] = Content /\ newest < MaxPasswords
       /\ at[Command] \in {"refresh", "open", "write", "rename"} =>
            /\ db[Command].password = newest /\ Content.password < newest
            /\ db[Command].data = Content.data
       /\ at[Command] = "saved" => db[Command].password = newest

\* Where the settings in the file come from.
Settings ==
  /\ path # NoFile => Content.data \in {acked.data} \cup tried
  /\ at[Server] \in Saving => db[Server].data \in tried

\* The inductive invariant.
IInv == TypeOK /\ Turns /\ Temporary /\ Stamped /\ Passwords /\ Settings

\* The fields of a record.
LEMMA Fields ==
  \A c \in Database : /\ c.password \in 0..MaxPasswords
                      /\ c.lastPassword \in 0..(MaxPasswords + 1)
                      /\ c.data \in Data
BY DEF Database

\* A record with other settings.
LEMMA WithData ==
  \A c \in Database, d \in Data :
    /\ [c EXCEPT !.data = d] \in Database
    /\ [c EXCEPT !.data = d].password = c.password
    /\ [c EXCEPT !.data = d].lastPassword = c.lastPassword
    /\ [c EXCEPT !.data = d].data = d
BY DEF Database

\* The later of two stamps belongs to the later password.
LEMMA StampsOrder ==
  ASSUME NEW c \in Database, NEW e \in Database, Steady(c), Steady(e)
  PROVE  /\ e.lastPassword # 0 /\ ~(c.lastPassword > e.lastPassword)
              => c.password <= e.password
         /\ e.lastPassword = 0 \/ c.lastPassword > e.lastPassword
              => c.password >= e.password
BY PasswordsAssumption, Fields DEF Steady

\* It holds at the start.
LEMMA InitIInv == Init => IInv
<1> SUFFICES ASSUME Init PROVE IInv
  OBVIOUS
<1> USE WritersAssumption, MarkersAssumption, PasswordsAssumption, ContentsAssumption
<1>1. TypeOK
  BY DEF Init, TypeOK, Writers, Database, Places, Saving
<1>2. Turns /\ Temporary
  BY DEF Init, Turns, Temporary, Writers, Saving
<1>3. Stamped
  BY DEF Init, Stamped, Steady, Writers, Saving, Content, Database
<1>4. PICK d \in Data :
        /\ acked = [password |-> 0, data |-> d]
        /\ path # NoFile =>
             Content = [password |-> 0, lastPassword |-> 0, data |-> d]
  BY DEF Init, Content
<1>5. at[Server] = "down" /\ at[Command] = "idle" /\ newest = 0
  BY DEF Init, Writers
<1>6. Passwords
  BY <1>4, <1>5 DEF Passwords, Saving
<1>7. Settings
  BY <1>4, <1>5 DEF Settings, Saving
<1> QED BY <1>1, <1>2, <1>3, <1>6, <1>7 DEF IInv

\* What refreshAdminFromDiskLocked leaves in memory.
LEMMA Refreshed ==
  ASSUME IInv, NEW w \in Writers, at[w] \in {"up", "refresh"}
  PROVE  /\ RefreshAdmin(w) \in Database /\ Steady(RefreshAdmin(w))
         /\ RefreshAdmin(w).data = db[w].data
         /\ RefreshAdmin(w).password = db[w].password
            \/ (path # NoFile /\ RefreshAdmin(w).password = Content.password)
         /\ path # NoFile => Content.password <= RefreshAdmin(w).password
         /\ db[w].password <= RefreshAdmin(w).password
<1> USE ContentsAssumption, PasswordsAssumption
<1>1. db[w] \in Database /\ Steady(db[w])
  BY DEF IInv, Stamped, Saving
<1>2. path # NoFile => Content \in Database /\ Steady(Content) /\ Readable
  BY DEF IInv, Stamped, Readable
<1>3. path = NoFile => ~Readable
  BY DEF Content, Readable
<1>4. CASE Readable /\ (db[w].lastPassword = 0
                       \/ Content.lastPassword > db[w].lastPassword)
  <2>1. RefreshAdmin(w) = [Content EXCEPT !.data = db[w].data]
    BY <1>4 DEF RefreshAdmin
  <2> HIDE DEF RefreshAdmin
  <2>2. path # NoFile /\ Content \in Database /\ Steady(Content)
    BY <1>2, <1>3, <1>4
  <2> HIDE DEF Content
  <2>3. /\ RefreshAdmin(w) \in Database
        /\ RefreshAdmin(w).password = Content.password
        /\ RefreshAdmin(w).lastPassword = Content.lastPassword
        /\ RefreshAdmin(w).data = db[w].data
    BY <1>1, <2>1, <2>2, Fields, WithData
  <2>4. db[w].password <= Content.password
    BY <1>1, <1>4, <2>2, StampsOrder
  <2> QED BY <1>1, <2>2, <2>3, <2>4, Fields DEF Steady
<1>5. CASE ~(Readable /\ (db[w].lastPassword = 0
                         \/ Content.lastPassword > db[w].lastPassword))
  <2>1. RefreshAdmin(w) = db[w]
    BY <1>5 DEF RefreshAdmin
  <2>2. ASSUME path # NoFile PROVE Content.password <= db[w].password
    BY <2>2, <1>1, <1>2, <1>5, StampsOrder
  <2>3. db[w].password \in Int
    BY <1>1, PasswordsAssumption, Fields
  <2>4. db[w].password <= RefreshAdmin(w).password
    BY <2>1, <2>3
  <2> QED BY <1>1, <2>1, <2>2, <2>4
<1> QED BY <1>4, <1>5

\* The credential of a save is the newer one.
LEMMA RefreshKeeps ==
  ASSUME ~Overlap, ClockSteady, IInv, NEW w \in Writers, Refresh(w)
  PROVE  IInv'
<1> USE WritersAssumption, MarkersAssumption, PasswordsAssumption, ContentsAssumption
<1>0. /\ RefreshAdmin(w) \in Database /\ Steady(RefreshAdmin(w))
      /\ RefreshAdmin(w).data = db[w].data
      /\ RefreshAdmin(w).password = db[w].password
         \/ (path # NoFile /\ RefreshAdmin(w).password = Content.password)
      /\ path # NoFile => Content.password <= RefreshAdmin(w).password
      /\ db[w].password <= RefreshAdmin(w).password
  BY Refreshed DEF Refresh
<1>1. TypeOK'
  BY <1>0 DEF Refresh, Goto, IInv, Turns, Temporary, Stamped, TypeOK, Writers, Places,
     Saving, files, history
<1>2. Turns'
  BY <1>0 DEF Refresh, Goto, IInv, TypeOK, Turns, Writers, Saving
<1>3. Temporary'
  BY <1>0 DEF Refresh, Goto, IInv, TypeOK, Turns, Temporary, Writers, Saving, Content, files
<1>4. Stamped'
  BY <1>0 DEF Refresh, Goto, IInv, TypeOK, Turns, Temporary, Stamped, Writers, Saving,
     Content, files
<1>5. Passwords'
  BY <1>0 DEF Refresh, Goto, IInv, TypeOK, Turns, Temporary, Stamped, Steady, Passwords,
     Writers, Saving, Content, Database, files, history
<1>6. Settings'
  BY <1>0 DEF Refresh, Goto, IInv, TypeOK, Turns, Temporary, Stamped, Passwords, Settings,
     Writers, Saving, Content, files, history
<1> QED BY <1>1, <1>2, <1>3, <1>4, <1>5, <1>6 DEF IInv

\* The temporary file is not the data file.
LEMMA OpenKeeps ==
  ASSUME ~Overlap, ClockSteady, IInv, NEW w \in Writers, Open(w)
  PROVE  IInv'
<1> USE WritersAssumption, MarkersAssumption, PasswordsAssumption, ContentsAssumption
<1>1. TypeOK'
  BY DEF Open, Goto, IInv, Turns, Temporary, Stamped, TypeOK, Writers, Places,
     Saving, files, history
<1>2. Turns'
  BY DEF Open, Goto, IInv, TypeOK, Turns, Writers, Saving
<1>3. Temporary'
  BY DEF Open, Goto, IInv, TypeOK, Turns, Temporary, Writers, Saving, Content, files
<1>4. Stamped'
  BY DEF Open, Goto, IInv, TypeOK, Turns, Temporary, Stamped, Writers, Saving,
     Content, files
<1>5. Passwords'
  BY DEF Open, Goto, IInv, TypeOK, Turns, Temporary, Stamped, Steady, Passwords,
     Writers, Saving, Content, Database, files, history
<1>6. Settings'
  BY DEF Open, Goto, IInv, TypeOK, Turns, Temporary, Stamped, Passwords, Settings,
     Writers, Saving, Content, files, history
<1> QED BY <1>1, <1>2, <1>3, <1>4, <1>5, <1>6 DEF IInv

\* Alone, a process writes what it has in memory.
LEMMA WriteKeeps ==
  ASSUME ~Overlap, ClockSteady, IInv, NEW w \in Writers, Write(w)
  PROVE  IInv'
<1> USE WritersAssumption, MarkersAssumption, PasswordsAssumption, ContentsAssumption
<1>1. TypeOK'
  BY DEF Write, Goto, IInv, Turns, Temporary, Stamped, TypeOK, Writers, Places,
     Saving, files, history
<1>2. Turns'
  BY DEF Write, Goto, IInv, TypeOK, Turns, Writers, Saving
<1>3. Temporary'
  BY DEF Write, Goto, IInv, TypeOK, Turns, Temporary, Writers, Saving, Content, files
<1>4. Stamped'
  BY DEF Write, Goto, IInv, TypeOK, Turns, Temporary, Stamped, Writers, Saving,
     Content, files
<1>5. Passwords'
  BY DEF Write, Goto, IInv, TypeOK, Turns, Temporary, Stamped, Steady, Passwords,
     Writers, Saving, Content, Database, files, history
<1>6. Settings'
  BY DEF Write, Goto, IInv, TypeOK, Turns, Temporary, Stamped, Passwords, Settings,
     Writers, Saving, Content, files, history
<1> QED BY <1>1, <1>2, <1>3, <1>4, <1>5, <1>6 DEF IInv

\* The data file becomes what the process wrote.
LEMMA RenameKeeps ==
  ASSUME ~Overlap, ClockSteady, IInv, NEW w \in Writers, Rename(w)
  PROVE  IInv'
<1> USE WritersAssumption, MarkersAssumption, PasswordsAssumption, ContentsAssumption
<1>1. TypeOK'
  BY DEF Rename, Goto, IInv, Turns, Temporary, Stamped, TypeOK, Writers, Places,
     Saving, files, history
<1>2. Turns'
  BY DEF Rename, Goto, IInv, TypeOK, Turns, Writers, Saving
<1>3. Temporary'
  BY DEF Rename, Goto, IInv, TypeOK, Turns, Temporary, Writers, Saving, Content, files
<1>4. Stamped'
  BY DEF Rename, Goto, IInv, TypeOK, Turns, Temporary, Stamped, Writers, Saving,
     Content, files
<1>5. Passwords'
  BY DEF Rename, Goto, IInv, TypeOK, Turns, Temporary, Stamped, Steady, Passwords,
     Writers, Saving, Content, Database, files, history
<1>6. Settings'
  BY DEF Rename, Goto, IInv, TypeOK, Turns, Temporary, Stamped, Passwords, Settings,
     Writers, Saving, Content, files, history
<1> QED BY <1>1, <1>2, <1>3, <1>4, <1>5, <1>6 DEF IInv

\* A failed save leaves the data file alone.
LEMMA FailKeeps ==
  ASSUME ~Overlap, ClockSteady, IInv, NEW w \in Writers, SaveFails(w)
  PROVE  IInv'
<1> USE WritersAssumption, MarkersAssumption, PasswordsAssumption, ContentsAssumption
<1>1. TypeOK'
  BY DEF SaveFails, Goto, Finish, Passwords, IInv, Turns, Temporary, Stamped, TypeOK, Writers, Places,
     Saving, files, history
<1>2. Turns'
  BY DEF SaveFails, Goto, Finish, Passwords, IInv, TypeOK, Turns, Writers, Saving
<1>3. Temporary'
  BY DEF SaveFails, Goto, Finish, Passwords, IInv, TypeOK, Turns, Temporary, Writers, Saving, Content, files
<1>4. Stamped'
  BY DEF SaveFails, Goto, Finish, Passwords, IInv, TypeOK, Turns, Temporary, Stamped, Writers, Saving,
     Content, files
<1>5. Passwords'
  BY DEF SaveFails, Goto, Finish, IInv, TypeOK, Turns, Temporary, Stamped, Steady, Passwords,
     Writers, Saving, Content, Database, files, history
<1>6. Settings'
  BY DEF SaveFails, Goto, Finish, IInv, TypeOK, Turns, Temporary, Stamped, Passwords, Settings,
     Writers, Saving, Content, files, history
<1> QED BY <1>1, <1>2, <1>3, <1>4, <1>5, <1>6 DEF IInv

\* What is confirmed is in the file.
LEMMA AcknowledgeKeeps ==
  ASSUME ~Overlap, ClockSteady, IInv, NEW w \in Writers, Acknowledge(w)
  PROVE  IInv'
<1> USE WritersAssumption, MarkersAssumption, PasswordsAssumption, ContentsAssumption
<1>0. db[w] \in Database /\ db[w].data \in Data
  BY Fields DEF Acknowledge, IInv, Stamped, Saving
<1>1. TypeOK'
  BY <1>0 DEF Acknowledge, Goto, Finish, IInv, Turns, Temporary, Stamped, TypeOK, Writers, Places,
     Saving, files, history
<1>2. Turns'
  BY <1>0 DEF Acknowledge, Goto, Finish, IInv, TypeOK, Turns, Writers, Saving
<1>3. Temporary'
  BY <1>0 DEF Acknowledge, Goto, Finish, IInv, TypeOK, Turns, Temporary, Writers, Saving, Content, files
<1>4. Stamped'
  BY <1>0 DEF Acknowledge, Goto, Finish, IInv, TypeOK, Turns, Temporary, Stamped, Writers, Saving,
     Content, files
<1>5. Passwords'
  BY <1>0 DEF Acknowledge, Goto, Finish, IInv, TypeOK, Turns, Temporary, Stamped, Steady, Passwords,
     Writers, Saving, Content, Database, files, history
<1>6. Settings'
  BY <1>0 DEF Acknowledge, Goto, Finish, IInv, TypeOK, Turns, Temporary, Stamped, Passwords, Settings,
     Writers, Saving, Content, files, history
<1> QED BY <1>1, <1>2, <1>3, <1>4, <1>5, <1>6 DEF IInv

\* A start takes over the file.
LEMMA LoadKeeps ==
  ASSUME ~Overlap, ClockSteady, IInv, LoadStore
  PROVE  IInv'
<1> USE WritersAssumption, MarkersAssumption, PasswordsAssumption, ContentsAssumption
<1>0. path # NoFile /\ Content \in Database /\ Steady(Content)
  BY DEF LoadStore, Readable, Content, IInv, Stamped
<1>1. TypeOK'
  BY <1>0 DEF LoadStore, Goto, Readable, ServerTurn, IInv, Turns, Temporary, Stamped, TypeOK, Writers, Places,
     Saving, files, history
<1>2. Turns'
  BY <1>0 DEF LoadStore, Goto, Readable, ServerTurn, IInv, TypeOK, Turns, Writers, Saving
<1>3. Temporary'
  BY <1>0 DEF LoadStore, Goto, Readable, ServerTurn, IInv, TypeOK, Turns, Temporary, Writers, Saving, Content, files
<1>4. Stamped'
  BY <1>0 DEF LoadStore, Goto, Readable, ServerTurn, IInv, TypeOK, Turns, Temporary, Stamped, Writers, Saving,
     Content, files
<1>5. Passwords'
  BY <1>0 DEF LoadStore, Goto, Readable, ServerTurn, IInv, TypeOK, Turns, Temporary, Stamped, Steady, Passwords,
     Writers, Saving, Content, Database, files, history
<1>6. Settings'
  BY <1>0 DEF LoadStore, Goto, Readable, ServerTurn, IInv, TypeOK, Turns, Temporary, Stamped, Passwords, Settings,
     Writers, Saving, Content, files, history
<1> QED BY <1>1, <1>2, <1>3, <1>4, <1>5, <1>6 DEF IInv

\* The first file.
LEMMA CreateKeeps ==
  ASSUME ~Overlap, ClockSteady, IInv, CreateStore
  PROVE  IInv'
<1> USE WritersAssumption, MarkersAssumption, PasswordsAssumption, ContentsAssumption
<1>0. \A d \in Data :
        LET c == [password |-> 0, lastPassword |-> 1, data |-> d]
        IN  c \in Database /\ Steady(c)
  BY DEF Database, Steady
<1>1. TypeOK'
  BY <1>0 DEF CreateStore, Goto, ServerTurn, IInv, Turns, Temporary, Stamped, TypeOK, Writers, Places,
     Saving, files, history
<1>2. Turns'
  BY <1>0 DEF CreateStore, Goto, ServerTurn, IInv, TypeOK, Turns, Writers, Saving
<1>3. Temporary'
  BY <1>0 DEF CreateStore, Goto, ServerTurn, IInv, TypeOK, Turns, Temporary, Writers, Saving, Content, files
<1>4. Stamped'
  BY <1>0 DEF CreateStore, Goto, ServerTurn, IInv, TypeOK, Turns, Temporary, Stamped, Writers, Saving,
     Content, files
<1>5. Passwords'
  BY <1>0 DEF CreateStore, Goto, ServerTurn, IInv, TypeOK, Turns, Temporary, Stamped, Steady, Passwords,
     Writers, Saving, Content, Database, files, history
<1>6. Settings'
  BY <1>0 DEF CreateStore, Goto, ServerTurn, IInv, TypeOK, Turns, Temporary, Stamped, Passwords, Settings,
     Writers, Saving, Content, files, history
<1> QED BY <1>1, <1>2, <1>3, <1>4, <1>5, <1>6 DEF IInv

\* New settings, the same credential.
LEMMA ChangeKeeps ==
  ASSUME ~Overlap, ClockSteady, IInv, Change
  PROVE  IInv'
<1> USE WritersAssumption, MarkersAssumption, PasswordsAssumption, ContentsAssumption
<1>0. db[Server] \in Database /\ Steady(db[Server]) /\ Server \in Writers
  BY DEF Change, IInv, Stamped, Writers
<1>a. PICK d \in Data :
        /\ db' = [db EXCEPT ![Server].data = d] /\ tried' = tried \cup {d}
  BY DEF Change
<1>b. /\ db'[Server] \in Database /\ Steady(db'[Server])
      /\ db'[Server].password = db[Server].password /\ db'[Server].data = d
      /\ db'[Command] = db[Command] /\ db' \in [Writers -> Database \cup {NoDb}]
  BY <1>0, <1>a, WithData DEF Steady, Writers, IInv, TypeOK
<1>1. TypeOK'
  BY <1>a, <1>b DEF Change, Goto, ServerTurn, IInv, Turns, Temporary, Stamped, TypeOK, Writers, Places,
     Saving, files, history
<1>2. Turns'
  BY <1>a, <1>b DEF Change, Goto, ServerTurn, IInv, TypeOK, Turns, Writers, Saving
<1>3. Temporary'
  BY <1>a, <1>b DEF Change, Goto, ServerTurn, IInv, TypeOK, Turns, Temporary, Writers, Saving, Content, files
<1>4. Stamped'
  BY <1>a, <1>b DEF Change, Goto, ServerTurn, IInv, TypeOK, Turns, Temporary, Stamped, Writers, Saving,
     Content, files
<1>5. Passwords'
  BY <1>a, <1>b DEF Change, Goto, ServerTurn, IInv, TypeOK, Turns, Temporary, Stamped, Steady, Passwords,
     Writers, Saving, Content, Database, files, history
<1>6. Settings'
  BY <1>a, <1>b DEF Change, Goto, ServerTurn, IInv, TypeOK, Turns, Temporary, Stamped, Passwords, Settings,
     Writers, Saving, Content, files, history
<1> QED BY <1>1, <1>2, <1>3, <1>4, <1>5, <1>6 DEF IInv

\* A login only brings the credential up to date.
LEMMA AdminKeeps ==
  ASSUME ~Overlap, ClockSteady, IInv, Admin
  PROVE  IInv'
<1> USE WritersAssumption, MarkersAssumption, PasswordsAssumption, ContentsAssumption
<1>0. /\ RefreshAdmin(Server) \in Database /\ Steady(RefreshAdmin(Server))
      /\ RefreshAdmin(Server).data = db[Server].data
      /\ RefreshAdmin(Server).password = db[Server].password
         \/ (path # NoFile /\ RefreshAdmin(Server).password = Content.password)
      /\ path # NoFile => Content.password <= RefreshAdmin(Server).password
      /\ Server \in Writers
  BY Refreshed DEF Admin, Writers
<1>1. TypeOK'
  BY <1>0 DEF Admin, IInv, Turns, Temporary, Stamped, TypeOK, Writers, Places,
     Saving, files, history
<1>2. Turns'
  BY <1>0 DEF Admin, IInv, TypeOK, Turns, Writers, Saving
<1>3. Temporary'
  BY <1>0 DEF Admin, IInv, TypeOK, Turns, Temporary, Writers, Saving, Content, files
<1>4. Stamped'
  BY <1>0 DEF Admin, IInv, TypeOK, Turns, Temporary, Stamped, Writers, Saving,
     Content, files
<1>5. Passwords'
  BY <1>0 DEF Admin, IInv, TypeOK, Turns, Temporary, Stamped, Steady, Passwords,
     Writers, Saving, Content, Database, files, history
<1>6. Settings'
  BY <1>0 DEF Admin, IInv, TypeOK, Turns, Temporary, Stamped, Passwords, Settings,
     Writers, Saving, Content, files, history
<1> QED BY <1>1, <1>2, <1>3, <1>4, <1>5, <1>6 DEF IInv

\* The command starts from the file.
LEMMA ReadKeeps ==
  ASSUME ~Overlap, ClockSteady, IInv, ReadDatabase
  PROVE  IInv'
<1> USE WritersAssumption, MarkersAssumption, PasswordsAssumption, ContentsAssumption
<1>0. path # NoFile /\ Content \in Database /\ Steady(Content)
  BY DEF ReadDatabase, Readable, Content, IInv, Stamped
<1>1. TypeOK'
  BY <1>0 DEF ReadDatabase, Goto, Readable, CommandTurn, IInv, Turns, Temporary, Stamped, TypeOK, Writers, Places,
     Saving, files, history
<1>2. Turns'
  BY <1>0 DEF ReadDatabase, Goto, Readable, CommandTurn, IInv, TypeOK, Turns, Writers, Saving
<1>3. Temporary'
  BY <1>0 DEF ReadDatabase, Goto, Readable, CommandTurn, IInv, TypeOK, Turns, Temporary, Writers, Saving, Content, files
<1>4. Stamped'
  BY <1>0 DEF ReadDatabase, Goto, Readable, CommandTurn, IInv, TypeOK, Turns, Temporary, Stamped, Writers, Saving,
     Content, files
<1>5. Passwords'
  BY <1>0 DEF ReadDatabase, Goto, Readable, CommandTurn, IInv, TypeOK, Turns, Temporary, Stamped, Steady, Passwords,
     Writers, Saving, Content, Database, files, history
<1>6. Settings'
  BY <1>0 DEF ReadDatabase, Goto, Readable, CommandTurn, IInv, TypeOK, Turns, Temporary, Stamped, Passwords, Settings,
     Writers, Saving, Content, files, history
<1> QED BY <1>1, <1>2, <1>3, <1>4, <1>5, <1>6 DEF IInv

\* A new password is newer than the one in the file.
LEMMA CredentialKeeps ==
  ASSUME ~Overlap, ClockSteady, IInv, NewCredential
  PROVE  IInv'
<1> USE WritersAssumption, MarkersAssumption, PasswordsAssumption, ContentsAssumption
<1>0. PICK t \in Stamps :
        db' = [db EXCEPT ![Command] =
                 [password |-> newest', lastPassword |-> t,
                  data |-> db[Command].data]]
  BY DEF NewCredential
<1>b. /\ db[Command] \in Database /\ newest' \in 0..MaxPasswords
      /\ t \in 0..(MaxPasswords + 1) /\ t = newest' + 1
      /\ Command \in Writers /\ db \in [Writers -> Database \cup {NoDb}]
  BY <1>0 DEF NewCredential, Stamps, IInv, TypeOK, Writers, Passwords, Stamped
<1>a. /\ db'[Command] \in Database /\ Steady(db'[Command])
      /\ db'[Command].password = newest' /\ db'[Command].data = db[Command].data
      /\ db'[Server] = db[Server] /\ db' \in [Writers -> Database \cup {NoDb}]
  <2>1. [password |-> newest', lastPassword |-> t, data |-> db[Command].data]
          \in Database
    BY <1>b, Fields DEF Database
  <2> QED BY <1>0, <1>b, <2>1 DEF Steady, Writers
<1>1. TypeOK'
  BY <1>a, <1>b DEF NewCredential, Goto, Stamps, IInv, Turns, Temporary, Stamped, TypeOK, Writers, Places,
     Saving, files, history
<1>2. Turns'
  BY <1>a, <1>b DEF NewCredential, Goto, Stamps, IInv, TypeOK, Turns, Writers, Saving
<1>3. Temporary'
  BY <1>a, <1>b DEF NewCredential, Goto, Stamps, IInv, TypeOK, Turns, Temporary, Writers, Saving, Content, files
<1>4. Stamped'
  BY <1>a, <1>b DEF NewCredential, Goto, Stamps, IInv, TypeOK, Turns, Temporary, Stamped, Writers, Saving,
     Content, files
<1>5. Passwords'
  BY <1>a, <1>b DEF NewCredential, Goto, Stamps, IInv, TypeOK, Turns, Temporary, Stamped, Steady, Passwords,
     Writers, Saving, Content, Database, files, history
<1>6. Settings'
  BY <1>a, <1>b DEF NewCredential, Goto, Stamps, IInv, TypeOK, Turns, Temporary, Stamped, Passwords, Settings,
     Writers, Saving, Content, files, history
<1> QED BY <1>1, <1>2, <1>3, <1>4, <1>5, <1>6 DEF IInv

\* A process dies between any two steps.
LEMMA DieKeeps ==
  ASSUME ~Overlap, ClockSteady, IInv, NEW w \in Writers, Die(w)
  PROVE  IInv'
<1> USE WritersAssumption, MarkersAssumption, PasswordsAssumption, ContentsAssumption
<1>1. TypeOK'
  BY DEF Die, Goto, IInv, Turns, Temporary, Stamped, TypeOK, Writers, Places,
     Saving, files, history
<1>2. Turns'
  BY DEF Die, Goto, IInv, TypeOK, Turns, Writers, Saving
<1>3. Temporary'
  BY DEF Die, Goto, IInv, TypeOK, Turns, Temporary, Writers, Saving, Content, files
<1>4. Stamped'
  BY DEF Die, Goto, IInv, TypeOK, Turns, Temporary, Stamped, Writers, Saving,
     Content, files
<1>5. Passwords'
  BY DEF Die, Goto, IInv, TypeOK, Turns, Temporary, Stamped, Steady, Passwords,
     Writers, Saving, Content, Database, files, history
<1>6. Settings'
  BY DEF Die, Goto, IInv, TypeOK, Turns, Temporary, Stamped, Passwords, Settings,
     Writers, Saving, Content, files, history
<1> QED BY <1>1, <1>2, <1>3, <1>4, <1>5, <1>6 DEF IInv

\* Every step keeps the invariant.
LEMMA IInvStep ==
  ASSUME ~Overlap, ClockSteady, IInv, [Next]_vars
  PROVE  IInv'
<1>1. CASE UNCHANGED vars
  BY <1>1 DEF vars, IInv, TypeOK, Turns, Temporary, Stamped, Passwords,
     Settings, Content
<1>2. CASE LoadStore
  BY <1>2, LoadKeeps
<1>3. CASE CreateStore
  BY <1>3, CreateKeeps
<1>4. CASE Change
  BY <1>4, ChangeKeeps
<1>5. CASE Admin
  BY <1>5, AdminKeeps
<1>6. CASE ReadDatabase
  BY <1>6, ReadKeeps
<1>7. CASE NewCredential
  BY <1>7, CredentialKeeps
<1>8. ASSUME NEW w \in Writers, Save(w) PROVE IInv'
  BY <1>8, RefreshKeeps, OpenKeeps, WriteKeeps, RenameKeeps, FailKeeps,
     AcknowledgeKeeps DEF Save
<1>9. ASSUME NEW w \in Writers, Die(w) PROVE IInv'
  BY <1>9, DieKeeps
<1> QED BY <1>1, <1>2, <1>3, <1>4, <1>5, <1>6, <1>7, <1>8, <1>9 DEF Next

\* The invariant holds throughout.
LEMMA IInvHolds ==
  ASSUME ~Overlap, ClockSteady PROVE Spec => []IInv
<1>1. IInv /\ [Next]_vars => IInv'
  BY IInvStep
<1> QED BY <1>1, InitIInv, PTL DEF Spec

\* When server and command take turns and the clock is steady: what a user was
\* told is saved is in the file, after any number of failed saves and crashes
\* (saveLocked, ChangeAdminPassword).
THEOREM SavesSurvive ==
  ASSUME ~Overlap, ClockSteady PROVE Spec => []AcknowledgedIsOnDisk
<1>1. IInv => AcknowledgedIsOnDisk
  BY ContentsAssumption DEF IInv, Stamped, Passwords, Settings, Readable,
     AcknowledgedIsOnDisk
<1> QED BY <1>1, IInvHolds, PTL

\* Under the same conditions a login is checked against the newest password
\* reported as changed, whatever the server has kept in memory.
THEOREM LoginsAreCurrent ==
  ASSUME ~Overlap, ClockSteady PROVE Spec => []LoginKnowsNewPassword
<1>1. IInv => LoginKnowsNewPassword
  <2> SUFFICES ASSUME IInv, at[Server] = "up"
               PROVE  RefreshAdmin(Server).password >= acked.password
    BY DEF LoginKnowsNewPassword
  <2>1. path # NoFile /\ acked.password <= Content.password
    BY DEF IInv, Passwords
  <2>2. /\ RefreshAdmin(Server) \in Database /\ Content \in Database
        /\ Content.password <= RefreshAdmin(Server).password
    BY <2>1, Refreshed DEF IInv, Stamped, Writers
  <2>3. acked.password \in Int
    BY PasswordsAssumption DEF IInv, TypeOK
  <2> QED BY <2>1, <2>2, <2>3, Fields
<1> QED BY <1>1, IInvHolds, PTL

\* Under the same conditions every variable keeps to its type, and a process in
\* the middle of a save holds a temporary file that is not the data file.
THEOREM TypeCorrect ==
  ASSUME ~Overlap, ClockSteady PROVE Spec => []TypeOK
<1>1. IInv => TypeOK
  BY DEF IInv
<1> QED BY <1>1, IInvHolds, PTL

\* The file as its readers see it.
TheFile == IF path = NoFile THEN NoFile ELSE disk[path]

\* Only a rename changes it.
LEMMA OnlyRenameChanges ==
  ASSUME ~Overlap, ClockSteady, IInv, [Next]_vars,
         ~(\E w \in Writers : Rename(w))
  PROVE  UNCHANGED TheFile
<1> USE DEF TheFile
<1>1. CASE UNCHANGED files
  BY <1>1 DEF files
<1>2. ASSUME NEW w \in Writers, Open(w) PROVE UNCHANGED TheFile
  BY <1>2, MarkersAssumption DEF Open, IInv, TypeOK
<1>3. ASSUME NEW w \in Writers, Write(w) PROVE UNCHANGED TheFile
  BY <1>3, MarkersAssumption DEF Write, IInv, TypeOK, Temporary
<1>4. CASE UNCHANGED vars
  BY <1>4, <1>1 DEF vars, files
<1>5. ASSUME NEW w \in Writers, Save(w) PROVE UNCHANGED TheFile
  BY <1>5, <1>1, <1>2, <1>3 DEF Save, Refresh, SaveFails, Acknowledge
<1>6. CASE LoadStore \/ CreateStore \/ Change \/ Admin \/ ReadDatabase
             \/ NewCredential \/ \E w \in Writers : Die(w)
  BY <1>6, <1>1 DEF LoadStore, CreateStore, Change, Admin, ReadDatabase,
     NewCredential, Die
<1> QED BY <1>4, <1>5, <1>6 DEF Next

\* A rename is a save of the abstract file.
LEMMA RenameIsASave ==
  ASSUME ~Overlap, ClockSteady, IInv, NEW w \in Writers, Rename(w)
  PROVE  Atomic!Next
<1> USE DEF TheFile
<1>1. /\ path # NoFile => TheFile \in Database /\ TheFile = Content
      /\ path = NoFile => TheFile = NoFile
      /\ TheFile' = db[w] /\ db[w] \in Database
  BY MarkersAssumption DEF IInv, TypeOK, Stamped, Temporary, Rename, Content, Saving
<1>2. CASE path = NoFile
  BY <1>1, <1>2 DEF Atomic!Next, Atomic!FirstSave
<1>3. CASE path # NoFile /\ w = Server
  <2>1. db[w].password = Content.password
    BY <1>3 DEF IInv, Passwords, Rename
  <2> QED BY <1>1, <1>3, <2>1 DEF Atomic!Next, Atomic!SaveSettings
<1>4. CASE path # NoFile /\ w = Command
  <2>1. db[w].password > Content.password /\ db[w].data = Content.data
    BY <1>4 DEF IInv, Passwords, Rename
  <2> QED BY <1>1, <1>4, <2>1 DEF Atomic!Next, Atomic!SavePassword
<1> QED BY <1>2, <1>3, <1>4 DEF Writers

\* When server and command take turns and the clock is steady, the file
\* implements AtomicFile: no reader sees half a save, no save loses the other
\* process's, and an old password does not return.
THEOREM ImplementsAtomicFile ==
  ASSUME ~Overlap, ClockSteady PROVE Spec => SavesAreAtomic
<1>1. Init => Atomic!Init
  BY InitIInv DEF Atomic!Init, IInv, Stamped, Content
<1>2. IInv /\ [Next]_vars => [Atomic!Next]_TheFile
  BY OnlyRenameChanges, RenameIsASave
<1> QED BY <1>1, <1>2, IInvHolds, PTL DEF Spec, SavesAreAtomic, Atomic!Spec, TheFile
=============================================================================
