----------------------------- MODULE KernelInfo -----------------------------
(***************************************************************************)
(* What the exporter expects of the running kernel (internal/kernelinfo):  *)
(* the kernel's version, the matrix of features with the driver each one   *)
(* needs and the version it came with, and which of them are announced at  *)
(* start-up.  Pure operators; Sysfs uses them.                             *)
(***************************************************************************)
EXTENDS Naturals

V(major, minor) == [major |-> major, minor |-> minor]
Version == [major : Nat, minor : Nat]

(* The patch level does not count. *)
AtLeast(v, w) ==
  IF v.major # w.major THEN v.major > w.major ELSE v.minor >= w.minor

-----------------------------------------------------------------------------
(* Detection.  A release text is what verRe makes of it: its version, or   *)
(* Unparsed; Unreadable is a file that cannot be read.                     *)

Unparsed   == V(0, 0)
Unreadable == [unreadable |-> TRUE]

(* /proc/sys/kernel/osrelease, then /proc/version. *)
Detect(osrelease, version) ==
  IF osrelease # Unreadable THEN osrelease
  ELSE IF version # Unreadable THEN version ELSE Unparsed

-----------------------------------------------------------------------------
Feature(id, driver, major, minor) == [id |-> id, driver |-> driver, since |-> V(major, minor)]

Matrix ==
  {Feature("i915.pmu",            "i915", 4, 16),
   Feature("i915.sysfs.freq",     "i915", 4, 0),
   Feature("i915.sysfs.rc6",      "i915", 4, 0),
   Feature("i915.hwmon.power",    "i915", 6, 2),
   Feature("i915.hwmon.fan",      "i915", 6, 12),
   Feature("i915.hwmon.temp",     "i915", 6, 13),
   Feature("i915.fdinfo.engine",  "i915", 5, 19),
   Feature("i915.fdinfo.memory",  "i915", 6, 8),
   Feature("xe.driver",           "xe",   6, 8),
   Feature("xe.sysfs.freq",       "xe",   6, 8),
   Feature("xe.sysfs.throttle",   "xe",   6, 10),
   Feature("xe.hwmon.power",      "xe",   6, 8),
   Feature("xe.hwmon.fan",        "xe",   6, 12),
   Feature("xe.hwmon.temp",       "xe",   6, 13),
   Feature("xe.hwmon.temp_extras", "xe",  6, 20),
   Feature("xe.fdinfo.engine",    "xe",   6, 8),
   Feature("xe.fdinfo.memory",    "xe",   6, 10),
   Feature("xe.pmu",              "xe",   6, 14)}

(* The features announced as available on kernel k with these drivers. *)
Evaluate(k, drivers) ==
  {f \in Matrix : /\ f.driver \in drivers \cup {"any"}
                  /\ AtLeast(k, f.since)}
=============================================================================
