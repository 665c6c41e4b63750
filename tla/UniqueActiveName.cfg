SPECIFICATION Spec
CONSTANTS
  a1 = a1
  a2 = a2
  a3 = a3
  a4 = a4
  b1 = b1
  alice = alice
  bob = bob
  x = x
  y = y
  Request <- Requests
  Owner <- Owners
  OwnerOf <- Sender
  Name <- Names
  MaxEnvs = 2
  MaxInFlight = 1
INVARIANTS
  UniqueActiveName
\* Every request is answered once and every row may have ended: it may stop.
CHECK_DEADLOCK FALSE
