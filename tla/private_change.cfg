\* One goroutine at a time, sessions with two private endpoints.
SPECIFICATION FairSpec
CONSTANTS
  NoPublic = NoPublic
  NoPrivate = NoPrivate
  NoProbe = NoProbe
  Probes = {p1}
  Publics = {a}
  Privates = {x, y}
  Configured = 2
  EndpointCount = 1
  WindowSize = 2
PROPERTIES
  OnlyPublicChangesNotify
