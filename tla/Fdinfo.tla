------------------------------- MODULE Fdinfo -------------------------------
(***************************************************************************)
(* One Update of the fdinfo source (internal/collector/fdinfo.go): a scan  *)
(* of /proc that adds up the DRM statistics of each process's file         *)
(* descriptors, and keeps the top N.  /proc is no snapshot: processes      *)
(* open and close descriptors, exec, exit and use the GPU meanwhile.       *)
(*                                                                         *)
(* One engine stands for all of them (the six maps of procData are filled  *)
(* in the same way).  A descriptor shows its use as time (drm-engine-), as *)
(* busy cycles (drm-cycles-) or both, and may show the cycles the engine   *)
(* itself has run (drm-total-cycles-): which of them is up to its driver.  *)
(***************************************************************************)
EXTENDS Naturals, FiniteSetsExt

CONSTANTS
  Pids,     \* process ids, numbered in their order as strings
  Slots,    \* descriptor numbers of a process
  Drivers,  \* drivers whose descriptors processes hold
  Shows,    \* which of the keys "engine", "cycles", "total" each GPU driver writes
  MaxUse,   \* bound: GPU use of one descriptor, and of the engine's clock
  MaxSteps, \* bound: what processes do while the scan runs
  TopN      \* -collector.fdinfo.top-n; 0 is no cap

Intel == {"i915", "xe"}

ASSUME FdinfoAssumption ==
  /\ Pids \subseteq Nat /\ IsFiniteSet(Pids) /\ IsFiniteSet(Slots)
  /\ Drivers \subseteq Intel \cup {"other"}
  /\ Shows \in [Intel -> SUBSET {"engine", "cycles", "total"}]
  /\ MaxUse \in Nat /\ MaxSteps \in Nat /\ TopN \in Nat

VARIABLES
  comm,     \* the name of each process (a number, in string order)
  files,    \* its open descriptors: [slot -> driver and use], or Closed
  clock,    \* cycles the engine has run
  steps,    \* how often processes have done something during a scan
  phase,    \* Update: "idle", "pids", "list", "fds" or "emit"
  pids,     \* directory entries of /proc it has still to visit
  cur,      \* the process it is at, with the comm it read
  slots,    \* entries of that process's fdinfo it has still to read
  procs,    \* what it has added up, per key
  kept,     \* the keys topNByActivity returned
  before,   \* history: use per key when the scan began
  changed   \* history: processes that changed descriptors or name meanwhile

system == <<comm, files, clock, steps>>
scan   == <<phase, pids, cur, slots, procs, kept>>
vars   == <<system, scan, before, changed>>

Closed == [drv |-> "none", use |-> 0]
File   == [drv : Drivers, use : 0..MaxUse] \cup {Closed}
Names  == {0, 1}
Key    == [pid : Pids, comm : Names, drv : Intel]    \* procKey; a device each
Nothing == [fds |-> 0, engine |-> 0, cycles |-> 0, total |-> 0]

Held(k) == {s \in Slots : files[k.pid][s].drv = k.drv}
Use(k)  == IF comm[k.pid] # k.comm THEN 0
           ELSE SumFunctionOnSet([s \in Slots |-> files[k.pid][s].use], Held(k))
Found   == {k \in Key : procs[k].fds > 0}
Shown(k) == Shows[k.drv] \cap {"engine", "cycles"}   \* the counters of its use
Value(k, c) == IF c = "engine" THEN procs[k].engine ELSE procs[k].cycles

(* The exporter finds any processes that have used the engine; the first   *)
(* scan is like every other one, as Update keeps nothing.                  *)
Init ==
  /\ comm = [p \in Pids |-> 0] /\ clock \in 0..MaxUse /\ steps = 0
  /\ files \in [Pids -> [Slots -> File]]
  /\ \A p \in Pids, s \in Slots : files[p][s].use <= clock
  /\ phase = "idle" /\ pids = {} /\ slots = {} /\ cur = [pid |-> 0, comm |-> 0]
  /\ procs = [k \in Key |-> Nothing] /\ before = [k \in Key |-> 0]
  /\ changed = {} /\ kept = {}

-----------------------------------------------------------------------------
(* The processes of the machine.  A process without descriptors stands for *)
(* one that does not exist: its fdinfo directory has nothing to read.      *)

During == phase # "idle" /\ steps < MaxSteps /\ steps' = steps + 1

OpenFile(p) ==
  /\ During
  /\ \E s \in Slots, d \in Drivers :
       /\ files[p][s] = Closed
       /\ files' = [files EXCEPT ![p][s] = [drv |-> d, use |-> 0]]
  /\ changed' = changed \cup {p}
  /\ UNCHANGED <<comm, clock, scan, before>>

CloseFile(p) ==
  /\ During
  /\ \E s \in Slots : files[p][s] # Closed /\ files' = [files EXCEPT ![p][s] = Closed]
  /\ changed' = changed \cup {p}
  /\ UNCHANGED <<comm, clock, scan, before>>

Rename(p) ==      \* exec, prctl, or the pid goes to another process
  /\ During
  /\ comm' = [comm EXCEPT ![p] = 1 - @]
  /\ changed' = changed \cup {p}
  /\ UNCHANGED <<files, clock, scan, before>>

UseGpu(p) ==      \* the engine runs for the client behind a descriptor
  /\ During /\ clock < MaxUse
  /\ \E s \in Slots : files[p][s] # Closed /\ files' = [files EXCEPT ![p][s].use = @ + 1]
  /\ clock' = clock + 1
  /\ UNCHANGED <<comm, scan, before, changed>>

-----------------------------------------------------------------------------
(* Update.                                                                 *)

MutReadProc ==    \* mutant: the map outlives its scan
  /\ phase = "idle"
  /\ phase' = "pids" /\ pids' = Pids
  /\ before' = [k \in Key |-> Use(k)] /\ changed' = {}
  /\ UNCHANGED <<system, cur, slots, procs, kept>>

ReadProc ==       \* os.ReadDir(procRoot), which changes nothing when it fails
  /\ phase = "idle"
  /\ phase' = "pids" /\ pids' = Pids
  /\ procs' = [k \in Key |-> Nothing]
  /\ before' = [k \in Key |-> Use(k)] /\ changed' = {}
  /\ UNCHANGED <<system, cur, slots, kept>>

ReadComm ==       \* readComm of the next process
  /\ phase = "pids"
  /\ \E p \in pids : cur' = [pid |-> p, comm |-> comm[p]] /\ pids' = pids \ {p}
  /\ phase' = "list"
  /\ UNCHANGED <<system, slots, procs, kept, before, changed>>

ReadFdinfoDir ==  \* os.ReadDir(fdinfoDir)
  /\ phase = "list"
  /\ slots' = {s \in Slots : files[cur.pid][s] # Closed}
  /\ phase' = "fds"
  /\ UNCHANGED <<system, pids, cur, procs, kept, before, changed>>

KeyOf(f) == [pid |-> cur.pid, comm |-> cur.comm, drv |-> f.drv]

MutAdded(d, f) == \* mutant: the prefix drm-total-cycles- is taken for drm-cycles-
  [fds    |-> d.fds + 1,
   engine |-> d.engine + (IF "engine" \in Shows[f.drv] THEN f.use ELSE 0),
   cycles |-> d.cycles + (IF "cycles" \in Shows[f.drv] THEN f.use ELSE 0)
                       + (IF "total" \in Shows[f.drv] THEN clock ELSE 0),
   total  |-> d.total]

Added(d, f) ==    \* the switch over the prefixes of the keys of one fdinfo file
  [fds    |-> d.fds + 1,
   engine |-> d.engine + (IF "engine" \in Shows[f.drv] THEN f.use ELSE 0),
   cycles |-> d.cycles + (IF "cycles" \in Shows[f.drv] THEN f.use ELSE 0),
   total  |-> d.total + (IF "total" \in Shows[f.drv] THEN clock ELSE 0)]

ParseFdinfo ==    \* of a file that may be gone, or another one, by now
  /\ phase = "fds"
  /\ \E s \in slots :
       LET f == files[cur.pid][s] IN
       /\ slots' = slots \ {s}
       /\ procs' = IF f.drv \in Intel THEN [procs EXCEPT ![KeyOf(f)] = Added(@, f)] ELSE procs
  /\ UNCHANGED <<system, phase, pids, cur, kept, before, changed>>

MutNextProcess == \* mutant: break for continue, an empty fdinfo ends the scan
  /\ phase = "fds" /\ slots = {}
  /\ phase' = "pids"
  /\ pids' = IF \A s \in Slots : files[cur.pid][s] = Closed THEN {} ELSE pids
  /\ UNCHANGED <<system, cur, slots, procs, kept, before, changed>>

NextProcess ==
  /\ phase = "fds" /\ slots = {}
  /\ phase' = "pids"
  /\ UNCHANGED <<system, pids, cur, slots, procs, kept, before, changed>>

ByName(a, b) ==   \* pid, comm, driver (then pci), as strings
  \/ a.pid < b.pid
  \/ a.pid = b.pid /\ a.comm < b.comm
  \/ a.pid = b.pid /\ a.comm = b.comm /\ a.drv = "i915" /\ b.drv = "xe"

MutBeforeTies(a, b) == procs[a].engine > procs[b].engine
                   \* mutant: ties are in no order
MutBefore(a, b) ==
  procs[a].engine < procs[b].engine \/ (procs[a].engine = procs[b].engine /\ ByName(a, b))
                   \* mutant: ascending
Before(a, b) ==   \* the comparison that topNByActivity sorts by
  procs[a].engine > procs[b].engine \/ (procs[a].engine = procs[b].engine /\ ByName(a, b))

(* What keys[:n] can be: the first n of any order of the map's keys that   *)
(* the sort may leave; all of them, unsorted, when there are no more.      *)
Caps == IF TopN = 0 \/ Cardinality(Found) <= TopN THEN {Found}
        ELSE {K \in kSubset(TopN, Found) : \A k \in K, d \in Found \ K : ~Before(d, k)}

EndScan ==        \* topNByActivity
  /\ phase = "pids" /\ pids = {}
  /\ kept' \in Caps
  /\ phase' = "emit"
  /\ UNCHANGED <<system, pids, cur, slots, procs, before, changed>>

Emit ==           \* the metrics of the kept keys are sent; return nil
  /\ phase = "emit"
  /\ phase' = "idle" /\ kept' = {}
  /\ UNCHANGED <<system, pids, cur, slots, procs, before, changed>>

-----------------------------------------------------------------------------
Environment(p) == OpenFile(p) \/ CloseFile(p) \/ Rename(p) \/ UseGpu(p)
Scan == ReadProc \/ ReadComm \/ ReadFdinfoDir \/ ParseFdinfo \/ NextProcess \/ EndScan \/ Emit
Next == Scan \/ \E p \in Pids : Environment(p)
Spec == Init /\ [][Next]_vars

-----------------------------------------------------------------------------
(* Properties.                                                             *)

(* Types; no file is added up twice in one scan. *)
TypeOK ==
  /\ comm \in [Pids -> Names] /\ files \in [Pids -> [Slots -> File]]
  /\ clock \in 0..MaxUse /\ steps \in 0..MaxSteps
  /\ phase \in {"idle", "pids", "list", "fds", "emit"}
  /\ pids \subseteq Pids /\ slots \subseteq Slots /\ changed \subseteq Pids
  /\ cur \in [pid : Pids \cup {0}, comm : Names]
  /\ procs \in [Key -> [fds : 0..Cardinality(Slots), engine : Nat, cycles : Nat, total : Nat]]
  /\ kept \subseteq Found

(* Although other processes come, go and change their names during the     *)
(* scan, a process that keeps its name and its descriptors is published    *)
(* under its own keys, and no key it does not have is published for it.    *)
SteadyIsPublished ==
  phase = "emit" =>
    \A k \in Key : k.pid \notin changed =>
      (k \in Found <=> comm[k.pid] = k.comm /\ Held(k) # {})

(* Each counter of its use that its descriptors show is a use it had       *)
(* during the scan: no less than when the scan began and no more than now, *)
(* without a rest of an earlier scan, an entry added twice, a share of     *)
(* another process or the value of another counter.                        *)
SteadyIsCurrent ==
  phase = "emit" =>
    \A k \in Key : k.pid \notin changed =>
      \A c \in Shown(k) : before[k] <= Value(k, c) /\ Value(k, c) <= Use(k)

(* Which keys are kept depends on what was found only: when keys tie at    *)
(* the cap, not on the order in which Go's map and its sort leave them, so *)
(* that equal scans do not publish series that come and go.                *)
CapIsDetermined == phase = "emit" => Caps = {kept}

(* No dropped key has more engine time than a kept one (the help of        *)
(* -collector.fdinfo.top-n: "by aggregate engine time").                   *)
CapIsByEngineTime ==
  phase = "emit" => \A k \in kept, d \in Found \ kept : procs[k].engine >= procs[d].engine

(* No key that is dropped used the GPU more than one that is kept, by the  *)
(* time or else the cycles it shows (docs/metrics.md: "busiest             *)
(* processes").                                                            *)
Busy(k) == Value(k, IF "engine" \in Shown(k) THEN "engine" ELSE "cycles")
BusiestAreKept ==
  phase = "emit" => \A k \in kept, d \in Found \ kept : Busy(k) >= Busy(d)

(* engine_total_cycles_total is the number of cycles the engine has run,   *)
(* so never more than its clock ("Cumulative GPU engine cycles elapsed").  *)
TotalIsElapsed == phase = "emit" => \A k \in kept : procs[k].total <= clock
=============================================================================
