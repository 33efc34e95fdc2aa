------------------------------ MODULE MCSysfs ------------------------------
(* An instance of Sysfs for TLC: an integrated GPU with two GTs (i915), an *)
(* Arc card with one that either driver takes, and a card of another       *)
(* vendor.  Under xe the Arc card shows two tiles whose GTs are numbered   *)
(* on, as the kernel does.  An i915 bind may number its hwmon directories  *)
(* differently from one time to the next.                                  *)
EXTENDS Sysfs, TLC

MCDevices == {"igpu", "arc", "nv"}
MCDrivers == [d \in MCDevices |-> CASE d = "igpu" -> {"i915"} [] d = "arc" -> {"i915", "xe"}
                                    [] OTHER -> {"nouveau"}]
NoTiles == [t \in {} |-> {}]
MCHw == [d \in MCDevices |->
  CASE d = "igpu" -> [gts |-> {0, 1}, engines |-> {"rcs0"}, lmem |-> FALSE, tiles |-> NoTiles]
    [] d = "arc"  -> [gts |-> {}, engines |-> {"rcs0", "bcs0"}, lmem |-> TRUE,
                      tiles |-> 0 :> {0} @@ 1 :> {1}]
    [] OTHER      -> [gts |-> {}, engines |-> {}, lmem |-> FALSE, tiles |-> NoTiles]]
MCLayouts == [drv \in {"i915", "xe", "nouveau"} |->
  CASE drv = "i915" -> {1 :> "i915" @@ 2 :> "i915_gt0", 2 :> "i915" @@ 3 :> "i915_gt0"}
    [] drv = "xe"   -> {4 :> "xe"}
    [] OTHER        -> {NoHwmon}]
MCReleases == {Unparsed, V(6, 1), V(6, 8), V(7, 0)}
=============================================================================
