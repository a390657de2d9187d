\* Two requests at a time; no public mapping is ever confirmed.
SPECIFICATION Spec
CONSTANTS
  NoPublic = NoPublic NoPrivate = NoPrivate
  NoRunner = NoRunner NoProbe = NoProbe NoItem = NoItem
  Threads = {t1, t2}
  Runners = {r1, r2}
  Probes = {p1}
  Publics = {}
  Privates = {x}
  Protocols = {"tcp"}
  Binds = {b1}
  Rests = {v1}
  TimeoutsFire = TRUE
  SessionsBreak = TRUE
SYMMETRY Symmetry
INVARIANTS
  LiveRunnerIsRegistered
  StoppedIsHonest
  ErrorMeansRetrying
  ConnectedIsHonest
PROPERTIES
  OnlyEndedRunnersLeave
