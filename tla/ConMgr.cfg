SPECIFICATION FairSpec
CONSTANTS
  Con = {c1, c2, c3}
  NoCon = NoCon
  MaxDepth = 4
  Programs <- MCPrograms
INVARIANTS TypeOK SingleOwner NoOrphan NoDangling
PROPERTIES Reclaimed LifeSpec
\* After undefined behaviour, the death of the manager or the last connection
\* nothing is left to happen.
CHECK_DEADLOCK FALSE
