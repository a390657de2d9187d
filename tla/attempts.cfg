\* Every kind of port text with one server, lists of three and four servers
\* with one port, two of each; two probe goroutines, batches of two.
SPECIFICATION Spec
CONSTANTS
  NoHost = NoHost NoServer = NoServer
  a = a b = b c = c d = d
  MaxPort = 3
  Settings <- MCSettings
  Defaults <- MCDefaults
  Probes = {p1, p2}
  BatchSize = 2
SYMMETRY Symmetry
INVARIANTS
  TypeOK
  NextPortIsAnother
  EveryPortGetsATry
  WorkingPortIsKept
  FailedServerComesLast
  BatchesCover
  RebuildStartsElsewhere
