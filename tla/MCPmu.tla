------------------------------- MODULE MCPmu -------------------------------
(* An instance of Pmu for TLC: fewer descriptors than events and other     *)
(* files together want, so that numbers are reused at once.                *)
EXTENDS Pmu
=============================================================================
