SPECIFICATION Spec
CONSTANTS
  k1 = k1
  k2 = k2
  weak = weak
  alice = alice
  bob = bob
  r1 = r1
  r2 = r2
  r3 = r3
  NoPrincipal = NoPrincipal
  Key <- Keys
  ShortKey = {weak}
  Principal <- Principals
  Raws <- SomeRaws
  Row <- ThreeRows
  Limit = 1
  MaxMoves = 2
  MaxChanges = 1
SYMMETRY RowSymmetry
CHECK_DEADLOCK FALSE
INVARIANTS
  TypeOK
  NoEntryOverridden
  PagingMisses
  TotalConsistent
