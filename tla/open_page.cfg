\* One page, two instances, a queue of one event, two requests in flight, one
\* token at a time.
SPECIFICATION FairSpec
CONSTANTS
  NoToken = NoToken
  Tokens = {k1}
  Lifetime = 1
  Instances = {i1, i2}
  Streams = {s1}
  Capacity = 1
  MaxChanges = 2
  Calls = {c1, c2}
INVARIANTS
  TypeOK
  QueueIsCurrent
  EndedSessionsStayEnded
PROPERTIES
  PageCatchesUp
  StreamsEndWithSessions
