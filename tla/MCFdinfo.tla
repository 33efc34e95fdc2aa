------------------------------ MODULE MCFdinfo ------------------------------
(* Instances of Fdinfo for TLC: the configurations differ in the drivers   *)
(* and descriptors that are present, in the keys an xe descriptor has, and *)
(* in the properties.                                                      *)
EXTENDS Fdinfo, TLC

CONSTANTS s1, s2

(* Both kinds of xe descriptor that testdata has: fdinfo_xe.txt shows time *)
(* and cycles, fdinfo_xe_cycles.txt cycles only.                           *)
XeShowsBoth   == [d \in Intel |-> IF d = "i915" THEN {"engine"} ELSE {"engine", "cycles", "total"}]
XeShowsCycles == [d \in Intel |-> IF d = "i915" THEN {"engine"} ELSE {"cycles", "total"}]

(* Descriptor numbers only tell the descriptors of a process apart.        *)
SlotSymmetry == Permutations(Slots)
=============================================================================
