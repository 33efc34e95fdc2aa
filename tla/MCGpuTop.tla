------------------------------ MODULE MCGpuTop ------------------------------
(* Instances of GpuTop for TLC; the configurations differ in what the      *)
(* child may write to its pipes.                                           *)
EXTENDS GpuTop

Anything == {"mistyped", "garbage", "part", "other", "longline"}
=============================================================================
