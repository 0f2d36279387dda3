SPECIFICATION Spec
CONSTANTS
  W = 4
  Rate = 4
INVARIANTS TypeOK IdsUnique
\* The run ends at the age of W seconds.
CHECK_DEADLOCK FALSE
