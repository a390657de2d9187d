\* One request at a time, none of which times out; two probe goroutines, two
\* public addresses and two local endpoints.
SPECIFICATION Spec
CONSTANTS
  NoPublic = NoPublic NoPrivate = NoPrivate
  NoRunner = NoRunner NoProbe = NoProbe NoItem = NoItem
  Threads = {t1}
  Runners = {r1, r2}
  Probes = {p1, p2}
  Publics = {a, b}
  Privates = {x, y}
  Protocols = {"tcp"}
  Binds = {b1}
  Rests = {v1}
  TimeoutsFire = FALSE
  SessionsBreak = FALSE
SYMMETRY Symmetry
INVARIANTS
  TypeOK
  SavedAddressIsShown
PROPERTIES
  OnlyNewSessionsSetApart
