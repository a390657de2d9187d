\* Server and command take turns; crashes and failing saves.
SPECIFICATION Spec
CONSTANTS
  Torn = Torn
  NoFile = NoFile
  NoDb = NoDb
  Server = Server
  Command = Command
  Data = {d1, d2}
  Inodes = {i1, i2, i3}
  MaxPasswords = 2
  Overlap = FALSE
  ClockSteady = TRUE
INVARIANTS
  TypeOK
  AcknowledgedIsOnDisk
  LoginKnowsNewPassword
PROPERTIES
  SavesAreAtomic
