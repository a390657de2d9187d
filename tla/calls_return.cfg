\* Fairness; one request at a time.
SPECIFICATION FairSpec
CONSTANTS
  NoPublic = NoPublic NoPrivate = NoPrivate
  NoRunner = NoRunner NoProbe = NoProbe NoItem = NoItem
  Threads = {t1}
  Runners = {r1, r2}
  Probes = {p1}
  Publics = {}
  Privates = {x}
  Protocols = {"tcp"}
  Binds = {b1}
  Rests = {v1}
  TimeoutsFire = TRUE
  SessionsBreak = TRUE
PROPERTIES
  EveryCallReturns
  OneWorkerThatStops
