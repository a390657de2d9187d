\* One goroutine after the other, sessions with two private endpoints;
\* three confirmations, servers that may disagree, fairness of the goroutines.
SPECIFICATION FairSpec
CONSTANTS
  NoPublic = NoPublic
  NoPrivate = NoPrivate
  NoProbe = NoProbe
  Probes = {p1}
  Publics = {a, b}
  Privates = {x, y}
  Configured = 3
  EndpointCount = 1
  WindowSize = 3
INVARIANTS
  TypeOK
  ConfirmedInARow
  OutputsAgree
PROPERTIES
  SettledAddressIsShown
