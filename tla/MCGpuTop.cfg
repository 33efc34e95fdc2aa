\* Every kind of output a child may produce, two overlapping scrapes.
CONSTANTS
  Updaters = {u1, u2}
  MaxObjects = 3
  PipeCap = 3
  Says <- Anything
SPECIFICATION FairSpec
INVARIANTS TypeOK ExitIsLast
PROPERTIES ServedInOrder GoneChildForgotten SampleReachesCache PipesKeepMoving
\* The system stops when the child is gone and the goroutines have ended.
CHECK_DEADLOCK FALSE
