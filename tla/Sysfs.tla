------------------------------- MODULE Sysfs -------------------------------
(***************************************************************************)
(* Discovery at start-up (internal/discovery), the feature summary and the *)
(* choice of active sources, then the sources that read sysfs at every     *)
(* scrape (info, i915_sysfs, xe_sysfs, hwmon, pcie, memory, engines) and   *)
(* /health, while the kernel binds and unbinds drivers.                    *)
(*                                                                         *)
(* Discover runs once; the paths it finds are used until the program ends. *)
(* A path below the PCI device (DevicePath) always leads to that device,   *)
(* one below /sys/class/drm/cardN (DRMPath) to the device that holds card  *)
(* number N at the time of the read.                                       *)
(*                                                                         *)
(* The sources of a scrape, and /health, run concurrently but share        *)
(* nothing except the kernel's files: one of them runs at a time here,     *)
(* any of them, against a kernel that moves between any two of its reads.  *)
(* A family stands for all metrics whose files lie side by side.           *)
(***************************************************************************)
EXTENDS Integers, Sequences, FiniteSets, KernelInfo

CONSTANTS
  Devices,    \* the display devices of the machine, by PCI address
  Intel,      \* those with vendor 0x8086
  Drivers,    \* Drivers[d]: the DRM drivers that can bind device d
  Hw,         \* Hw[d]: its GT directories, tiles, engines and local memory
  Layouts,    \* Layouts[drv]: the hwmon directories a bind may create, number to name
  Channels,   \* the sensors of a hwmon directory
  Cards,      \* bound: card numbers
  Releases,   \* what a file with the kernel's release may say
  MaxChanges  \* bound: binds and unbinds while the exporter runs

AllDrivers == UNION {Drivers[d] : d \in Devices}
NoCard     == -1
NoGPU      == [card |-> NoCard]
NoHwmon    == [n \in {} |-> ""]

Numbers(S) == S \subseteq Nat /\ IsFiniteSet(S)

(* A hwmon directory has a sensor; those of one device have different names. *)
ASSUME SysfsAssumption ==
  /\ Intel \subseteq Devices /\ Cards \subseteq 0..9    \* sorted as text
  /\ "none" \notin AllDrivers /\ MaxChanges \in Nat
  /\ Releases \subseteq Version /\ Channels # {}
  /\ \A d \in Devices :
       /\ Numbers(Hw[d].gts) /\ Numbers(DOMAIN Hw[d].tiles)
       /\ \A t \in DOMAIN Hw[d].tiles : Numbers(Hw[d].tiles[t])
  /\ \A drv \in AllDrivers : \A layout \in Layouts[drv] :
       \A m, n \in DOMAIN layout : layout[m] = layout[n] => m = n

VARIABLES
  bound, card, hwmon,  \* kernel: driver, card number, hwmon directories of a device
  changes,             \* kernel: binds and unbinds so far
  phase,               \* main: how far start-up has come
  todo, cur, gpus,     \* Discover: cards still to look at, the one at hand, result
  features, active,    \* the announced features, the active sysfs sources
  job, i, reads,       \* the Update or /health that runs, its GPU, reads to come
  out, twice,          \* the samples it sent, devices with a series sent twice
  verdict,             \* what /health answers
  moved, moving        \* history: devices (un)bound since start, since job began

kernel == <<bound, card, hwmon, changes, moved>>
found  == <<todo, cur, gpus>>
config == <<features, active>>
run    == <<job, i, reads, out, twice, verdict, moving>>
vars   == <<kernel, phase, found, config, run>>

-----------------------------------------------------------------------------
(* The kernel's files (external).                                          *)

Held == {card[d] : d \in Devices} \ {NoCard}

CardFiles(d) ==        \* below /sys/class/drm/cardN
  IF bound[d] # "i915" THEN {}
  ELSE {<<"freq">>, <<"rc6">>} \cup {<<"gt", n>> : n \in Hw[d].gts}
         \cup {<<"engine", e>> : e \in Hw[d].engines}
         \cup (IF Hw[d].lmem THEN {<<"lmem">>} ELSE {})

DeviceFiles(d) ==      \* below the PCI device
  {<<"id">>, <<"link">>} \cup {<<"hwmon", n>> : n \in DOMAIN hwmon[d]}
    \cup IF bound[d] # "xe" THEN {}
         ELSE {<<"vram", t>> : t \in DOMAIN Hw[d].tiles}
                \cup UNION {{<<"freq0", t, n>> : n \in Hw[d].tiles[t]} : t \in DOMAIN Hw[d].tiles}

Change(d) ==
  /\ changes < MaxChanges /\ changes' = changes + 1
  /\ moved' = moved \cup {d} /\ moving' = moving \cup {d}

(* A driver that binds registers a DRM device, which gets the lowest free  *)
(* card number, and hwmon devices, whose numbers are anybody's guess.      *)
Bind(d, drv) ==
  /\ bound[d] = "none" /\ drv \in Drivers[d]
  /\ Change(d)
  /\ bound' = [bound EXCEPT ![d] = drv]
  /\ \E c \in Cards \ Held :
       /\ \A other \in Cards \ Held : c <= other
       /\ card' = [card EXCEPT ![d] = c]
  /\ \E layout \in Layouts[drv] : hwmon' = [hwmon EXCEPT ![d] = layout]
  /\ UNCHANGED <<phase, found, config, job, i, reads, out, twice, verdict>>

Unbind(d) ==
  /\ bound[d] # "none"
  /\ Change(d)
  /\ bound' = [bound EXCEPT ![d] = "none"]
  /\ card'  = [card EXCEPT ![d] = NoCard]
  /\ hwmon' = [hwmon EXCEPT ![d] = NoHwmon]
  /\ UNCHANGED <<phase, found, config, job, i, reads, out, twice, verdict>>

-----------------------------------------------------------------------------
(* Discover.                                                               *)

Init ==      \* devices have been bound in any order before
  /\ bound \in [Devices -> AllDrivers \cup {"none"}]
  /\ card \in [Devices -> Cards \cup {NoCard}]
  /\ hwmon \in [Devices -> {NoHwmon} \cup UNION {Layouts[drv] : drv \in AllDrivers}]
  /\ \A d \in Devices :
       /\ bound[d] \in Drivers[d] \cup {"none"}
       /\ (card[d] = NoCard) <=> (bound[d] = "none")
       /\ hwmon[d] \in IF bound[d] = "none" THEN {NoHwmon} ELSE Layouts[bound[d]]
       /\ \A e \in Devices \ {d} : card[d] = card[e] => card[d] = NoCard
  /\ changes = 0 /\ phase = "start"
  /\ todo = {} /\ cur = NoGPU /\ gpus = <<>> /\ features = {} /\ active = {}
  /\ job = "none" /\ i = 0 /\ reads = {} /\ out = {} /\ twice = {} /\ verdict = "none"
  /\ moved = {} /\ moving = {}

ReadDir ==       \* the names card0, card1, ... as they are now
  /\ phase = "start"
  /\ phase' = "discover" /\ todo' = Held
  /\ UNCHANGED <<kernel, cur, gpus, config, run>>

MutAnyVendor(c) == \* mutant: the vendor is not looked at
  /\ phase = "discover" /\ cur = NoGPU
  /\ c \in todo /\ \A o \in todo : c <= o
  /\ todo' = todo \ {c}
  /\ IF c \in Held THEN cur' = [card |-> c, dev |-> CHOOSE d \in Devices : card[d] = c]
     ELSE UNCHANGED cur
  /\ UNCHANGED <<kernel, phase, gpus, config, run>>

MutResolve(c) == \* mutant: a card that has vanished ends the walk
  /\ phase = "discover" /\ cur = NoGPU
  /\ c \in todo /\ \A o \in todo : c <= o
  /\ IF \E d \in Intel : card[d] = c
     THEN todo' = todo \ {c} /\ cur' = [card |-> c, dev |-> CHOOSE d \in Intel : card[d] = c]
     ELSE UNCHANGED cur /\ todo' = (IF c \in Held THEN todo \ {c} ELSE {})
  /\ UNCHANGED <<kernel, phase, gpus, config, run>>

Resolve(c) ==    \* EvalSymlinks of cardN/device, then the vendor
  /\ phase = "discover" /\ cur = NoGPU
  /\ c \in todo /\ \A o \in todo : c <= o
  /\ todo' = todo \ {c}
  /\ IF \E d \in Intel : card[d] = c
     THEN cur' = [card |-> c, dev |-> CHOOSE d \in Intel : card[d] = c]
     ELSE UNCHANGED cur
  /\ UNCHANGED <<kernel, phase, gpus, config, run>>

DriverOf(d) == IF bound[d] \in {"i915", "xe"} THEN bound[d] ELSE "unknown"

DetectDriver ==  \* readlink of driver
  /\ cur # NoGPU /\ "driver" \notin DOMAIN cur
  /\ cur' = [card |-> cur.card, dev |-> cur.dev, driver |-> DriverOf(cur.dev)]
  /\ UNCHANGED <<kernel, phase, todo, gpus, config, run>>

(* Tiles found below a device: for xe, its tile directories with their GT  *)
(* directories; otherwise one made-up tile, which is the device itself.    *)
TilesOf(g) ==
  IF g.driver = "xe" THEN IF bound[g.dev] = "xe" THEN Hw[g.dev].tiles ELSE NoHwmon
  ELSE NoHwmon

ListParts ==     \* findHwmon, discoverTiles; append
  /\ cur # NoGPU /\ "driver" \in DOMAIN cur
  /\ gpus' = Append(gpus, [card |-> cur.card, dev |-> cur.dev, driver |-> cur.driver,
                           hwmons |-> DOMAIN hwmon[cur.dev], tiles |-> TilesOf(cur)])
  /\ cur' = NoGPU
  /\ UNCHANGED <<kernel, phase, todo, config, run>>

EndDiscover ==   \* no Intel GPU: os.Exit(1)
  /\ phase = "discover" /\ todo = {} /\ cur = NoGPU
  /\ phase' = IF gpus = <<>> THEN "exited" ELSE "evaluate"
  /\ UNCHANGED <<kernel, found, config, run>>

-----------------------------------------------------------------------------
(* Start-up between discovery and the server.                              *)

DriversFound == {gpus[k].driver : k \in DOMAIN gpus}

EvaluateFeatures ==
  /\ phase = "evaluate" /\ phase' = "register"
  /\ \E os, ver \in Releases \cup {Unreadable} :
       features' = Evaluate(Detect(os, ver), DriversFound)
  /\ UNCHANGED <<kernel, found, active, run>>

MutAvailable(s) ==     \* mutant: the first GPU speaks for all
  CASE s = "i915_sysfs" \/ s = "engines" -> gpus[1].driver = "i915"
    [] s = "xe_sysfs" -> gpus[1].driver = "xe"
    [] OTHER -> TRUE

(* Source.Available of the sysfs sources.                                  *)
Available(s) ==
  CASE s = "i915_sysfs" \/ s = "engines" -> "i915" \in DriversFound
    [] s = "xe_sysfs" -> "xe" \in DriversFound
    [] s = "hwmon" -> \E k \in DOMAIN gpus : gpus[k].hwmons # {}
    [] OTHER -> TRUE      \* info, pcie, memory: a GPU is enough

Sources == {"info", "i915_sysfs", "xe_sysfs", "hwmon", "pcie", "memory", "engines"}

RegisterSources ==     \* NewRegistry
  /\ phase = "register" /\ phase' = "listen"
  /\ active' = {s \in Sources : Available(s)}
  /\ UNCHANGED <<kernel, found, features, run>>

Listen ==              \* the features have been logged, nothing else uses them
  /\ phase = "listen" /\ phase' = "serve"
  /\ features' = {}
  /\ UNCHANGED <<kernel, found, active, run>>

-----------------------------------------------------------------------------
(* Update of a source.  A read is what it looks for: a file, below the     *)
(* card or the device, and the labels its sample will carry.               *)

Rank(n, S) == Cardinality({m \in S : m < n})     \* position in the sorted list

(* The names of a kind that a listing of the GPU's card directory finds.   *)
Listed(g, kind) ==
  {f \in UNION {CardFiles(d) : d \in {e \in Devices : card[e] = g.card}} : f[1] = kind}

MutReached(g, r) ==   \* mutant: device files are looked for through the card's link
  {d \in Devices : card[d] = g.card /\ r.file \in CardFiles(d) \cup DeviceFiles(d)}

(* The device whose file read r of GPU g reaches now, if any.              *)
Reached(g, r) ==
  {d \in Devices : IF r.root = "device" THEN d = g.dev /\ r.file \in DeviceFiles(d)
                   ELSE card[d] = g.card /\ r.file \in CardFiles(d)}

Read(fam, root, file, lab) == [fam |-> fam, root |-> root, file |-> file, lab |-> lab]

MutI915Reads(g) ==       \* mutant: the legacy files are read as well
  {Read("i915_freq", "card", <<"freq">>, <<0>>), Read("i915_rc6", "card", <<"rc6">>, <<>>)}
    \cup {Read("i915_freq", "card", f, <<f[2]>>) : f \in Listed(g, "gt")}

(* The GT directories now, by position; without any, the legacy files.     *)
I915Reads(g) ==
  LET gts == {f[2] : f \in Listed(g, "gt")}
  IN {Read("i915_rc6", "card", <<"rc6">>, <<>>)}
       \cup IF gts = {} THEN {Read("i915_freq", "card", <<"freq">>, <<0>>)}
            ELSE {Read("i915_freq", "card", <<"gt", n>>, <<Rank(n, gts)>>) : n \in gts}

(* The tiles and GTs of start-up, by position.                             *)
XeReads(g) ==
  UNION {{Read("xe_freq", "device", <<"freq0", t, n>>,
               <<Rank(t, DOMAIN g.tiles), Rank(n, g.tiles[t])>>) : n \in g.tiles[t]}
           : t \in DOMAIN g.tiles}

MemoryReads(g) ==
  {Read("lmem", "card", <<"lmem">>, <<>>)}
    \cup {Read("vram", "device", <<"vram", t>>, <<Rank(t, DOMAIN g.tiles)>>)
            : t \in DOMAIN g.tiles}

EngineReads(g) ==        \* the directory as it is now; name falls back to the entry
  UNION {{Read(fam, "card", f, <<f[2]>>) : fam \in {"engine_info", "engine"}}
           : f \in Listed(g, "engine")}

HwmonReads(g) == {Read("hwmon_name", "device", <<"hwmon", n>>, <<>>) : n \in g.hwmons}

(* What source s looks for on the GPU at hand.                             *)
ReadsOf(s, g) ==
  CASE s = "info"       -> {Read("info", "device", <<"id">>, <<>>)}
    [] s = "i915_sysfs" -> IF g.driver = "i915" THEN I915Reads(g) ELSE {}
    [] s = "xe_sysfs"   -> IF g.driver = "xe" THEN XeReads(g) ELSE {}
    [] s = "hwmon"      -> HwmonReads(g)
    [] s = "pcie"       -> {Read("pcie", "device", <<"link">>, <<>>)}
    [] s = "memory"     -> MemoryReads(g)
    [] OTHER            -> IF g.driver = "i915" THEN EngineReads(g) ELSE {}

-----------------------------------------------------------------------------
(* A scrape's Update of one source, and /health.                           *)

Finished == job \in Sources /\ i = Len(gpus) /\ reads = {}
Idle     == job = "none" \/ Finished \/ verdict # "none"

Begin(j) ==
  /\ phase = "serve" /\ Idle
  /\ job' = j /\ i' = 0 /\ reads' = {} /\ out' = {} /\ twice' = {}
  /\ verdict' = "none" /\ moving' = {}
  /\ UNCHANGED <<kernel, phase, found, config>>

BeginUpdate(s) == s \in active /\ Begin(s)
BeginHealth    == Begin("health")

MutNextGPU ==          \* mutant: a GPU whose directory is gone ends the Update
  /\ job \in Sources /\ reads = {} /\ i < Len(gpus)
  /\ LET r == ReadsOf(job, gpus[i + 1]) IN
       /\ reads' = r
       /\ i' = IF r = {} /\ job = "engines" THEN Len(gpus) ELSE i + 1
  /\ UNCHANGED <<kernel, phase, found, config, job, out, twice, verdict, moving>>

NextGPU ==             \* skip it for its driver, or list what it has
  /\ job \in Sources /\ reads = {} /\ i < Len(gpus)
  /\ i' = i + 1 /\ reads' = ReadsOf(job, gpus[i + 1])
  /\ UNCHANGED <<kernel, phase, found, config, job, out, twice, verdict, moving>>

ReadHwmonName(r) ==    \* "" when it cannot be read
  /\ r \in reads /\ r.fam = "hwmon_name"
  /\ LET d    == gpus[i].dev
         name == IF r.file[2] \in DOMAIN hwmon[d] THEN hwmon[d][r.file[2]] ELSE ""
     IN reads' = (reads \ {r}) \cup {Read("hwmon_dir", "device", r.file, <<name>>)}
  /\ UNCHANGED <<kernel, phase, found, config, job, i, out, twice, verdict, moving>>

GlobHwmon(r) ==
  /\ r \in reads /\ r.fam = "hwmon_dir"
  /\ reads' = (reads \ {r}) \cup
       IF Reached(gpus[i], r) = {} THEN {}
       ELSE {Read("hwmon", "device", r.file, <<r.lab[1], ch>>) : ch \in Channels}
  /\ UNCHANGED <<kernel, phase, found, config, job, i, out, twice, verdict, moving>>

Sample(g, r) == [fam |-> r.fam, card |-> g.card, pci |-> g.dev, lab |-> r.lab,
                 file |-> r.file, own |-> Reached(g, r)]
Series(x) == <<x.fam, x.card, x.pci, x.lab>>

(* A file that cannot be read is passed over; the info families are sent   *)
(* whatever the reads of their labels found.                               *)
ReadFile(r) ==
  /\ r \in reads /\ r.fam \notin {"hwmon_name", "hwmon_dir"}
  /\ reads' = reads \ {r}
  /\ LET x == Sample(gpus[i], r) IN
       IF x.own = {} /\ r.fam \notin {"info", "engine_info"} THEN UNCHANGED <<out, twice>>
       ELSE /\ out' = out \cup {x}
            /\ twice' = twice \cup {x.pci : o \in {y \in out : Series(y) = Series(x)}}
  /\ UNCHANGED <<kernel, phase, found, config, job, i, verdict, moving>>

MutHealthStat ==       \* mutant: the first GPU decides
  /\ job = "health" /\ verdict = "none" /\ i' = 1
  /\ verdict' = IF gpus[1].card \in Held THEN "up" ELSE "degraded"
  /\ UNCHANGED <<kernel, phase, found, config, job, reads, out, twice, moving>>

HealthStat ==          \* os.Stat of the next DRMPath
  /\ job = "health" /\ verdict = "none" /\ i < Len(gpus)
  /\ i' = i + 1
  /\ verdict' = IF gpus[i + 1].card \in Held THEN "up" ELSE "none"
  /\ UNCHANGED <<kernel, phase, found, config, job, reads, out, twice, moving>>

HealthEnd ==
  /\ job = "health" /\ verdict = "none" /\ i = Len(gpus)
  /\ verdict' = "degraded"
  /\ UNCHANGED <<kernel, phase, found, config, job, i, reads, out, twice, moving>>

-----------------------------------------------------------------------------
Kernel == \E d \in Devices : Unbind(d) \/ \E drv \in Drivers[d] : Bind(d, drv)

Startup ==
  \/ ReadDir \/ DetectDriver \/ ListParts \/ EndDiscover
  \/ EvaluateFeatures \/ RegisterSources \/ Listen
  \/ \E c \in Cards : Resolve(c)

Serve ==
  \/ BeginHealth \/ HealthStat \/ HealthEnd \/ NextGPU
  \/ \E s \in Sources : BeginUpdate(s)
  \/ \E r \in reads : ReadHwmonName(r) \/ GlobHwmon(r) \/ ReadFile(r)

Next == Kernel \/ Startup \/ Serve

Spec == Init /\ [][Next]_vars

-----------------------------------------------------------------------------
(* Properties.                                                             *)

(* Every variable has its type.                                            *)
TypeOK ==
  /\ bound \in [Devices -> AllDrivers \cup {"none"}]
  /\ card \in [Devices -> Cards \cup {NoCard}]
  /\ changes \in 0..MaxChanges /\ moved \subseteq Devices /\ moving \subseteq moved
  /\ phase \in {"start", "discover", "exited", "evaluate", "register", "listen", "serve"}
  /\ todo \subseteq Cards
  /\ \A k \in DOMAIN gpus : gpus[k].card \in Cards /\ gpus[k].dev \in Intel
  /\ features \subseteq Matrix /\ active \subseteq Sources
  /\ job \in Sources \cup {"none", "health"} /\ i \in 0..Len(gpus)
  /\ twice \subseteq Intel /\ verdict \in {"none", "up", "degraded"}

(* Driven by an Intel GPU since the exporter started.                      *)
Steady == {d \in Intel : bound[d] # "none" /\ d \notin moved}

(* However the others come and go during the walk, a GPU that stays bound  *)
(* is found, once, with its card, driver, sensors and tiles; the exporter  *)
(* only gives up when there is no such GPU.                                *)
SteadyIsFound ==
  phase \notin {"start", "discover"} =>
    \A d \in Steady :
      \E k \in DOMAIN gpus :
        /\ gpus[k] = [card |-> card[d], dev |-> d, driver |-> DriverOf(d),
                      hwmons |-> DOMAIN hwmon[d],
                      tiles |-> IF bound[d] = "xe" THEN Hw[d].tiles ELSE NoHwmon]
        /\ \A l \in DOMAIN gpus : gpus[l].dev = d => l = k

(* No scrape sends a series twice, which would fail all of it, but while   *)
(* that very device is being rebound.                                      *)
NoSeriesTwice == twice \subseteq moving

(* A sample carries the PCI address of the device its value was read from; *)
(* only files below a card number can belong to another one, and only when *)
(* the device has lost that number since.                                  *)
ValueOfItsDevice ==
  \A x \in out :
    x.own \subseteq {x.pci} \/ (x.fam \in {"i915_freq", "i915_rc6", "lmem", "engine", "engine_info"}
                                 /\ x.pci \in moved)

(* The kinds of files each source publishes.                               *)
Concern(s) ==
  CASE s = "info" -> {"id"}          [] s = "i915_sysfs" -> {"freq", "rc6", "gt"}
    [] s = "xe_sysfs" -> {"freq0"}   [] s = "hwmon" -> {"hwmon"}
    [] s = "pcie" -> {"link"}        [] s = "memory" -> {"lmem", "vram"}
    [] OTHER -> {"engine"}

(* The files of GPU d that source s is there to publish.  The legacy       *)
(* frequency files only count where there are no GT directories.           *)
Due(d, s) == {f \in CardFiles(d) \cup DeviceFiles(d) :
                f[1] \in Concern(s) /\ ~(f[1] = "freq" /\ Hw[d].gts # {})}

(* Start-up leaves nothing out, on any mix of GPUs found by a walk that is *)
(* no snapshot.  Of the features, every one is announced whose driver a    *)
(* steady GPU has, unless the kernel is older than the feature: no feature *)
(* that needs a kernel at least as new is announced then either.  And no   *)
(* source stays inactive for which a steady GPU has a file.                *)
NothingIsLeftOut ==
  /\ phase = "listen" =>
       \A f \in features, x \in Matrix :
         AtLeast(f.since, x.since) /\ (\E d \in Steady : DriverOf(d) = x.driver) => x \in features
  /\ phase \in {"listen", "serve"} =>
       \A s \in Sources \ active, d \in Steady : Due(d, s) = {}

(* A GPU that stays bound is published whole by every Update, whatever     *)
(* happens to the GPUs listed before and after it meanwhile.               *)
SteadyIsWhole ==
  Finished =>
    \A d \in Steady : Due(d, job) \subseteq {x.file : x \in {y \in out : y.own = {d} /\ y.pci = d}}

(* /health answers "degraded" only after every GPU has been unbound since  *)
(* the exporter started (not necessarily all at the same time).            *)
DegradedIsLost ==
  verdict = "degraded" => \A k \in DOMAIN gpus : gpus[k].dev \in moved
=============================================================================
