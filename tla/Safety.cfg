SPECIFICATION Spec
CONSTANTS
  e1 = e1
  e2 = e2
  w1 = w1
  w2 = w2
  NoJob = NoJob
  Env <- OneEnv
  Worker <- Workers
  NRoles = 1
  AgeCap = 2
  BuildBound = 1
  Grace = 2
  PendingTimeout = 1
  ProvisioningTimeout = 2
  StoppingTimeout = 1
  Ttl = 1
  ProvisionRetries = 1
  TeardownRetries = 0
  MaxDeletes = 1
  MaxCrashes = 1
  MaxFaults = 0
SYMMETRY WorkerSymmetry
INVARIANTS
  TypeOK
  BuilderUndisturbed
  RunningStackIntact
  OneBuilderPerEnv
  StaleMeansDead
  OneAttemptChain
  RunningIsSettled
  
  OwnershipInv
PROPERTIES
  JoinsOwnNetwork
  ServesNewest
  ImplementsOwnership
