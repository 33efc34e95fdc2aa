\* A child that may die, or be killed, in the middle of an object.
CONSTANTS
  Updaters = {u1}
  MaxObjects = 2
  PipeCap = 3
  Says = {"part"}
SPECIFICATION FairSpec
PROPERTIES GoneChildNotServed
\* The system stops when the child is gone and the goroutines have ended.
CHECK_DEADLOCK FALSE
