\* One request at a time; a stopped runner is still reporting.
SPECIFICATION Spec
CONSTANTS
  NoPublic = NoPublic NoPrivate = NoPrivate
  NoRunner = NoRunner NoProbe = NoProbe NoItem = NoItem
  Threads = {t1}
  Runners = {r1, r2}
  Probes = {p1}
  Publics = {a}
  Privates = {x}
  Protocols = {"tcp"}
  Binds = {b1}
  Rests = {v1}
  TimeoutsFire = TRUE
  SessionsBreak = TRUE
SYMMETRY Symmetry
INVARIANT LateKeepAliveIsIgnored
