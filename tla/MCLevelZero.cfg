\* Two drivers with a device each; one node may come or go while Open runs.
CONSTANTS
  Nodes = {1, 2, 3, 4, 5, 6, 7}
  World <- TwoCards
  KindOrder <- PowerAndEngine
  Symbols <- Functions
  MaxChanges = 1
SPECIFICATION Spec
INVARIANTS TypeOK HandlesAreReal OthersAreFound IndexedSeriesKeepTheirHandle
\* A source that is not available stays so.
CHECK_DEADLOCK FALSE
