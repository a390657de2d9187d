---------------------------- MODULE AtomicFile ----------------------------
(***************************************************************************)
(* What the data file promises when the processes that write it take       *)
(* turns: it is there or not, it is always whole, a save changes either    *)
(* the settings or the password, and a replaced password does not return.  *)
(***************************************************************************)
EXTENDS Integers

CONSTANTS Contents,   \* records with a password number and data
          Absent

VARIABLE file

FirstSave == file = Absent /\ file' \in Contents

SaveSettings ==
  /\ file \in Contents /\ file' \in Contents
  /\ file'.password = file.password

SavePassword ==
  /\ file \in Contents /\ file' \in Contents
  /\ file'.data = file.data /\ file'.password > file.password

Init == file \in Contents \cup {Absent}

Next == FirstSave \/ SaveSettings \/ SavePassword

Spec == Init /\ [][Next]_file
=============================================================================
