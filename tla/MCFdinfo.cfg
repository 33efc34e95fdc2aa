\* Two processes with two descriptors each and one place for them; one
\* process does something while the scan runs.
CONSTANTS
  Pids = {1, 2}
  s1 = s1
  s2 = s2
  Slots = {s1, s2}
  Drivers = {"i915", "xe", "other"}
  Shows <- XeShowsBoth
  MaxUse = 2
  MaxSteps = 1
  TopN = 1
SPECIFICATION Spec
SYMMETRY SlotSymmetry
INVARIANTS TypeOK SteadyIsPublished SteadyIsCurrent CapIsDetermined CapIsByEngineTime
