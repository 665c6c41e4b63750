SPECIFICATION Spec
CONSTANTS
  db = db
  cache = cache
  app = app
  NoRole = NoRole
  Role <- ThreeRoles
  Templates <- SomeTemplates
  ReadyTimeout = 3
  PollInterval = 2
CHECK_DEADLOCK FALSE
INVARIANTS
  TypeOK
  DependencyReady
  ReturnsReady
  WaitBound
  TimeoutDeserved
PROPERTY
  Returns
