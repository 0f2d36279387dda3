SPECIFICATION Spec
CONSTANTS
  Con = {c1, c2}
  NoCon = NoCon
  MaxDepth = 4
  Programs <- MCPosting
INVARIANTS AllOwned
