\* The command runs during a save of the server.
SPECIFICATION Spec
\* A server that finds a torn file gives up for good.
CHECK_DEADLOCK FALSE
CONSTANTS
  Torn = Torn
  NoFile = NoFile
  NoDb = NoDb
  Server = Server
  Command = Command
  Data = {d1, d2}
  Inodes = {i1, i2, i3, i4}
  MaxPasswords = 2
  Overlap = TRUE
  ClockSteady = TRUE
INVARIANTS
  NewPasswordWorks
