\* One process may open the device twice while its engine runs.
CONSTANTS
  Pids = {1}
  s1 = s1
  s2 = s2
  Slots = {s1, s2}
  Drivers = {"xe"}
  Shows <- XeShowsBoth
  MaxUse = 2
  MaxSteps = 0
  TopN = 1
SPECIFICATION Spec
INVARIANTS TotalIsElapsed
