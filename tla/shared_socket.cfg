\* Two goroutines, two transaction ids and one server on one socket.
SPECIFICATION FairSpec
CONSTANTS
  NoAddress = NoAddress NoSample = NoSample
  Servers = {s1}
  Addresses = {a, b}
  Probes = {p1, p2}
  Samples = {1, 2}
  Retries = 2
  Capacity = 1
  MaxInFlight = 2
INVARIANTS
  TypeOK
  SampleIsFresh
PROPERTIES
  SocketIsDrained
  EverySampleEnds
  SamplesGetThrough
