\* A card with two engine groups of the same type.
CONSTANTS
  Nodes = {1, 2, 3, 4}
  World <- MediaCard
  KindOrder <- EngineOnly
  Symbols <- Functions
  MaxChanges = 0
SPECIFICATION Spec
INVARIANTS UniqueSeries
\* A source that is not available stays so.
CHECK_DEADLOCK FALSE
