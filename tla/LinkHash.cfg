SPECIFICATION Spec
CONSTANTS
  k1 = k1
  k2 = k2
  k3 = k3
  k4 = k4
  Key <- MCKey4
  HashValues <- MCHashes
  InitSize = 1
  MaxSize = 8
INVARIANTS
  TypeOK
  ListMatchesSlots
  LookupFindsListed
  InsertTerminates
PROPERTY ImplementsOrderedTable
