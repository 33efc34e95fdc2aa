\* A busy xe process, which shows cycles only, against an idle i915 one.
CONSTANTS
  Pids = {1, 2}
  s1 = s1
  s2 = s2
  Slots = {s1}
  Drivers = {"i915", "xe"}
  Shows <- XeShowsCycles
  MaxUse = 1
  MaxSteps = 0
  TopN = 1
SPECIFICATION Spec
INVARIANTS BusiestAreKept
