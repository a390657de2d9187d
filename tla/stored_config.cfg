\* One request at a time, and no wait times out; eight configurations.
SPECIFICATION Spec
CONSTANTS
  NoPublic = NoPublic NoPrivate = NoPrivate
  NoRunner = NoRunner NoProbe = NoProbe NoItem = NoItem
  Threads = {t1}
  Runners = {r1, r2}
  Probes = {p1}
  Publics = {}
  Privates = {x}
  Protocols = {"tcp", "udp"}
  Binds = {b1}
  Rests = {v1, v2}
  TimeoutsFire = FALSE
  SessionsBreak = FALSE
SYMMETRY Symmetry
INVARIANTS
  StoredConfigRuns
