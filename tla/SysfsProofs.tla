----------------------------- MODULE SysfsProofs -----------------------------
(* Proofs about Sysfs and the operators of KernelInfo, for any devices,    *)
(* drivers, layouts of their files and any number of binds and unbinds.    *)
EXTENDS Sysfs, FiniteSetTheorems, SequenceTheorems, TLAPS

(* What the variables hold, in more detail than TypeOK says. *)
HwmonDirs == {NoHwmon} \cup UNION {Layouts[drv] : drv \in AllDrivers}
GPU == [card : Cards, dev : Intel, driver : {"i915", "xe", "unknown"},
        hwmons : {DOMAIN h : h \in HwmonDirs},
        tiles : {NoHwmon} \cup {Hw[d].tiles : d \in Devices}]

(* The GPU Discover has at hand: none yet, resolved, or with its driver. *)
Resolved == {[card |-> c, dev |-> d] : c \in Cards, d \in Intel}
WithDriver == {[card |-> c, dev |-> d, driver |-> v] :
                 c \in Cards, d \in Intel, v \in {"i915", "xe", "unknown"}}

Types ==
  /\ bound \in [Devices -> AllDrivers \cup {"none"}]
  /\ card \in [Devices -> Cards \cup {NoCard}]
  /\ hwmon \in [Devices -> HwmonDirs]
  /\ changes \in 0..MaxChanges /\ moved \subseteq Devices /\ moving \subseteq moved
  /\ phase \in {"start", "discover", "exited", "evaluate", "register", "listen", "serve"}
  /\ todo \subseteq Cards /\ cur \in {NoGPU} \cup Resolved \cup WithDriver
  /\ gpus \in Seq(GPU)
  /\ features \subseteq Matrix /\ active \subseteq Sources
  /\ job \in Sources \cup {"none", "health"} /\ i \in 0..Len(gpus)
  /\ twice \subseteq Intel /\ verdict \in {"none", "up", "degraded"}

(* The parts of the program run one after the other. *)
Phases ==
  /\ cur # NoGPU => phase = "discover"
  /\ phase = "start" => gpus = <<>> /\ todo = {}
  /\ job # "none" => phase = "serve"
  /\ reads # {} => job \in Sources /\ i # 0
  /\ verdict # "none" => job = "health"

(* Two devices never hold the same card number, and a bound device holds one. *)
OwnCards ==
  /\ \A d, e \in Devices : card[d] = card[e] /\ card[d] # NoCard => d = e
  /\ \A d \in Devices : card[d] = NoCard <=> bound[d] = "none"

(* A GPU that was found has the number it was found under until it is unbound. *)
KeepsItsCard ==
  /\ cur # NoGPU => cur.dev \in moved \/ card[cur.dev] = cur.card
  /\ \A k \in 1..Len(gpus) : gpus[k].dev \in moved \/ card[gpus[k].dev] = gpus[k].card

(* Files looked for below a card number are those of five families. *)
CardFamilies == {"i915_freq", "i915_rc6", "lmem", "engine", "engine_info"}
Rooted(r) == r.root = "device" \/ (r.root = "card" /\ r.fam \in CardFamilies)
ReadsRooted == \A r \in reads : Rooted(r)

(* /health has only passed GPUs that were unbound. *)
HealthSoFar == job = "health" /\ verdict = "none" => \A k \in 1..i : gpus[k].dev \in moved

IInv ==
  /\ Types /\ Phases /\ OwnCards /\ KeepsItsCard /\ ReadsRooted
  /\ ValueOfItsDevice /\ HealthSoFar /\ DegradedIsLost

-----------------------------------------------------------------------------
(* The kernel's version and the feature matrix.                            *)

(* AtLeast orders the versions. *)
LEMMA AtLeastOrder ==
  /\ \A u \in Version : AtLeast(u, u)
  /\ \A u, v \in Version : AtLeast(u, v) \/ AtLeast(v, u)
  /\ \A u, v, w \in Version : AtLeast(u, v) /\ AtLeast(v, w) => AtLeast(u, w)
  /\ \A u, v \in Version : AtLeast(u, v) /\ AtLeast(v, u) => u = v
  BY DEF Version, AtLeast

(* Whatever can be read, a version is detected. *)
LEMMA DetectVersion ==
  ASSUME NEW os \in Version \cup {Unreadable}, NEW ver \in Version \cup {Unreadable}
  PROVE  Detect(os, ver) \in Version
  <1>1. Unparsed \in Version
    BY DEF Unparsed, V, Version
  <1> QED BY <1>1 DEF Detect

(* The versions of the matrix are versions. *)
LEMMA MatrixFacts == \A f \in Matrix : f.since \in Version
  BY DEF Matrix, Feature, V, Version
-----------------------------------------------------------------------------
(* Records.                                                                *)

LEMMA Constants ==
  /\ NoCard \notin Cards /\ Cards \subseteq Nat /\ Intel \subseteq Devices
  /\ "none" \notin AllDrivers /\ MaxChanges \in Nat
  BY SysfsAssumption DEF SysfsAssumption, NoCard

(* What cur can be, and what it says. *)
LEMMA CurFacts ==
  /\ \A c \in Resolved : c.card \in Cards /\ c.dev \in Intel /\ c # NoGPU /\ "driver" \notin DOMAIN c
  /\ \A c \in WithDriver : /\ c.card \in Cards /\ c.dev \in Intel /\ c # NoGPU
                            /\ c.driver \in {"i915", "xe", "unknown"} /\ "driver" \in DOMAIN c
  /\ "driver" \notin DOMAIN NoGPU
  <1>1. ASSUME NEW c \in Resolved
        PROVE  c.card \in Cards /\ c.dev \in Intel /\ "driver" \notin DOMAIN c
    BY DEF Resolved
  <1>2. ASSUME NEW c \in WithDriver
        PROVE  /\ c.card \in Cards /\ c.dev \in Intel
               /\ c.driver \in {"i915", "xe", "unknown"} /\ "driver" \in DOMAIN c
    BY DEF WithDriver
  <1>3. NoGPU.card = NoCard /\ "driver" \notin DOMAIN NoGPU
    BY DEF NoGPU
  <1> QED BY <1>1, <1>2, <1>3, Constants

LEMMA GPUFacts ==
  ASSUME NEW g \in GPU
  PROVE  g.card \in Cards /\ g.dev \in Intel
  BY DEF GPU

LEMMA InitTypes == Init => Types
  <1> SUFFICES ASSUME Init PROVE Types
    OBVIOUS
  <1>1. hwmon \in [Devices -> HwmonDirs]
    BY DEF Init, HwmonDirs
  <1>2. gpus \in Seq(GPU) /\ i \in 0..Len(gpus) /\ changes \in 0..MaxChanges
    BY Constants DEF Init
  <1> QED BY <1>1, <1>2 DEF Init, Types

LEMMA InitRest == Init => Phases /\ OwnCards /\ KeepsItsCard /\ ReadsRooted
                            /\ ValueOfItsDevice /\ HealthSoFar /\ DegradedIsLost
  <1> SUFFICES ASSUME Init PROVE Phases /\ OwnCards /\ KeepsItsCard /\ ReadsRooted
                            /\ ValueOfItsDevice /\ HealthSoFar /\ DegradedIsLost
    OBVIOUS
  <1>1. Phases
    BY DEF Init, Phases
  <1>2. OwnCards
    BY DEF Init, OwnCards
  <1>3. Len(gpus) = 0 /\ DOMAIN gpus = {}
    BY DEF Init
  <1>4. KeepsItsCard
    BY <1>3 DEF Init, KeepsItsCard
  <1>5. ReadsRooted /\ ValueOfItsDevice /\ HealthSoFar /\ DegradedIsLost
    BY DEF Init, ReadsRooted, ValueOfItsDevice, HealthSoFar, DegradedIsLost
  <1> QED BY <1>1, <1>2, <1>4, <1>5

-----------------------------------------------------------------------------
(* The kernel.                                                             *)

(* What a bind or an unbind of a device does to the cards. *)
LEMMA BindCards ==
  ASSUME Types, OwnCards, NEW d \in Devices, NEW drv \in Drivers[d], Bind(d, drv)
  PROVE  /\ bound' \in [Devices -> AllDrivers \cup {"none"}]
         /\ card' \in [Devices -> Cards \cup {NoCard}]
         /\ hwmon' \in [Devices -> HwmonDirs]
         /\ OwnCards'
         /\ \A e \in Devices \ {d} : card'[e] = card[e]
  <1>1. drv \in AllDrivers
    BY DEF AllDrivers
  <1>2. PICK c \in Cards \ Held : card' = [card EXCEPT ![d] = c]
    BY DEF Bind
  <1>3. PICK layout \in Layouts[drv] : hwmon' = [hwmon EXCEPT ![d] = layout]
    BY DEF Bind
  <1>4. layout \in HwmonDirs
    BY <1>1 DEF HwmonDirs
  <1>5. /\ bound' \in [Devices -> AllDrivers \cup {"none"}]
        /\ card' \in [Devices -> Cards \cup {NoCard}]
        /\ hwmon' \in [Devices -> HwmonDirs]
    BY <1>1, <1>2, <1>3, <1>4 DEF Bind, Types
  <1>6. /\ card'[d] = c /\ bound'[d] = drv
        /\ \A e \in Devices \ {d} : card'[e] = card[e] /\ bound'[e] = bound[e]
    BY <1>2 DEF Bind, Types
  <1>7. c # NoCard /\ drv # "none" /\ \A e \in Devices : card[e] # c
    BY <1>1, <1>2, Constants DEF Held
  <1>8. OwnCards'
    BY <1>6, <1>7 DEF OwnCards
  <1> QED BY <1>5, <1>6, <1>8

LEMMA UnbindCards ==
  ASSUME Types, OwnCards, NEW d \in Devices, Unbind(d)
  PROVE  /\ bound' \in [Devices -> AllDrivers \cup {"none"}]
         /\ card' \in [Devices -> Cards \cup {NoCard}]
         /\ hwmon' \in [Devices -> HwmonDirs]
         /\ OwnCards'
         /\ \A e \in Devices \ {d} : card'[e] = card[e]
  <1>1. NoHwmon \in HwmonDirs
    BY DEF HwmonDirs
  <1>2. /\ bound' \in [Devices -> AllDrivers \cup {"none"}]
        /\ card' \in [Devices -> Cards \cup {NoCard}]
        /\ hwmon' \in [Devices -> HwmonDirs]
    BY <1>1 DEF Unbind, Types
  <1>3. /\ card'[d] = NoCard /\ bound'[d] = "none"
        /\ \A e \in Devices \ {d} : card'[e] = card[e] /\ bound'[e] = bound[e]
    BY DEF Unbind, Types
  <1>4. OwnCards'
    BY <1>3 DEF OwnCards
  <1> QED BY <1>2, <1>3, <1>4

(* Every step of the kernel keeps the invariant. *)
LEMMA KernelStep ==
  ASSUME IInv, Kernel
  PROVE  IInv'
  <1>1. PICK d \in Devices : Unbind(d) \/ \E drv \in Drivers[d] : Bind(d, drv)
    BY DEF Kernel
  <1>2. /\ bound' \in [Devices -> AllDrivers \cup {"none"}]
        /\ card' \in [Devices -> Cards \cup {NoCard}]
        /\ hwmon' \in [Devices -> HwmonDirs]
        /\ OwnCards'
        /\ \A e \in Devices \ {d} : card'[e] = card[e]
    BY <1>1, BindCards, UnbindCards DEF IInv
  <1>3. Change(d) /\ UNCHANGED <<phase, found, config, job, i, reads, out, twice, verdict>>
    BY <1>1 DEF Bind, Unbind
  <1>4. changes' \in 0..MaxChanges
    BY <1>3, Constants DEF Change, IInv, Types
  <1>5. Types'
    BY <1>2, <1>3, <1>4 DEF Change, found, config, IInv, Types
  <1>6. Phases'
    BY <1>3 DEF found, config, IInv, Phases
  <1>7. moved' = moved \cup {d} /\ cur' = cur /\ gpus' = gpus
    BY <1>3 DEF Change, found
  <1>8. KeepsItsCard'
    <2>1. cur # NoGPU => cur.dev \in moved' \/ card'[cur.dev] = cur.card
      BY <1>2, <1>7, CurFacts, Constants DEF IInv, Types, KeepsItsCard
    <2>2. ASSUME NEW k \in 1..Len(gpus)
          PROVE  gpus[k].dev \in moved' \/ card'[gpus[k].dev] = gpus[k].card
      <3>1. gpus[k].dev \in Devices
        BY GPUFacts, Constants DEF IInv, Types
      <3> QED BY <3>1, <1>2, <1>7 DEF IInv, KeepsItsCard
    <2> QED BY <2>1, <2>2, <1>7 DEF KeepsItsCard
  <1>9. ReadsRooted' /\ ValueOfItsDevice'
    BY <1>3, <1>7 DEF IInv, ReadsRooted, ValueOfItsDevice
  <1>10. HealthSoFar' /\ DegradedIsLost'
    BY <1>3, <1>7 DEF IInv, HealthSoFar, DegradedIsLost
  <1> QED BY <1>2, <1>5, <1>6, <1>8, <1>9, <1>10 DEF IInv
-----------------------------------------------------------------------------
(* Start-up.                                                               *)

(* The device Resolve finds under a number. *)
LEMMA Chosen ==
  ASSUME NEW c, \E d \in Intel : card[d] = c
  PROVE  (CHOOSE d \in Intel : card[d] = c) \in Intel /\ card[CHOOSE d \in Intel : card[d] = c] = c
  OBVIOUS

LEMMA ResolveStep ==
  ASSUME IInv, NEW c \in Cards, Resolve(c)
  PROVE  IInv'
  <1>1. UNCHANGED <<kernel, phase, gpus, config, run>> /\ phase = "discover"
    BY DEF Resolve
  <1>2. todo' \subseteq Cards
    BY DEF Resolve, IInv, Types
  <1>3. cur' = NoGPU \/ (cur' \in Resolved /\ card[cur'.dev] = cur'.card)
    <2>1. CASE \E d \in Intel : card[d] = c
      <3>1. PICK e \in Intel : card[e] = c /\ cur' = [card |-> c, dev |-> e]
        BY <2>1, Chosen DEF Resolve
      <3> QED BY <3>1 DEF Resolved
    <2>2. CASE ~(\E d \in Intel : card[d] = c)
      BY <2>2 DEF Resolve
    <2> QED BY <2>1, <2>2
  <1>4. Types'
    BY <1>1, <1>2, <1>3 DEF IInv, Types, kernel, config, run
  <1>5. Phases'
    BY <1>1 DEF IInv, Phases, run
  <1>6. OwnCards' /\ ReadsRooted' /\ ValueOfItsDevice' /\ HealthSoFar' /\ DegradedIsLost'
    BY <1>1 DEF IInv, OwnCards, ReadsRooted, ValueOfItsDevice, HealthSoFar, DegradedIsLost, kernel, run
  <1>7. KeepsItsCard'
    BY <1>1, <1>3 DEF IInv, KeepsItsCard, kernel
  <1> QED BY <1>4, <1>5, <1>6, <1>7 DEF IInv

LEMMA DetectStep ==
  ASSUME IInv, DetectDriver
  PROVE  IInv' /\ cur' \in WithDriver /\ cur'.card = cur.card /\ cur'.dev = cur.dev
               /\ cur'.driver = DriverOf(cur.dev)
  <1>1. UNCHANGED <<kernel, phase, todo, gpus, config, run>>
        /\ cur' = [card |-> cur.card, dev |-> cur.dev, driver |-> DriverOf(cur.dev)]
    BY DEF DetectDriver
  <1>2. cur.card \in Cards /\ cur.dev \in Intel /\ cur # NoGPU
    BY CurFacts DEF DetectDriver, IInv, Types
  <1>3. DriverOf(cur.dev) \in {"i915", "xe", "unknown"}
    BY DEF DriverOf
  <1>4. cur' \in WithDriver /\ cur'.card = cur.card /\ cur'.dev = cur.dev
        /\ cur'.driver = DriverOf(cur.dev)
    BY <1>1, <1>2, <1>3 DEF WithDriver
  <1>5. Types'
    BY <1>1, <1>4 DEF IInv, Types, kernel, config, run
  <1>6. Phases'
    BY <1>1, <1>2 DEF IInv, Phases, run
  <1>7. OwnCards' /\ ReadsRooted' /\ ValueOfItsDevice' /\ HealthSoFar' /\ DegradedIsLost'
    BY <1>1 DEF IInv, OwnCards, ReadsRooted, ValueOfItsDevice, HealthSoFar, DegradedIsLost, kernel, run
  <1>8. KeepsItsCard'
    BY <1>1, <1>2, <1>4 DEF IInv, KeepsItsCard, kernel
  <1> QED BY <1>4, <1>5, <1>6, <1>7, <1>8 DEF IInv

(* What ListParts appends. *)
Entry == [card |-> cur.card, dev |-> cur.dev, driver |-> cur.driver,
          hwmons |-> DOMAIN hwmon[cur.dev], tiles |-> TilesOf(cur)]

LEMMA EntryFacts ==
  ASSUME IInv, ListParts
  PROVE  /\ Entry \in GPU /\ gpus' = Append(gpus, Entry) /\ cur' = NoGPU
         /\ Entry.card = cur.card /\ Entry.dev = cur.dev
         /\ gpus' \in Seq(GPU) /\ Len(gpus') = Len(gpus) + 1 /\ gpus'[Len(gpus) + 1] = Entry
         /\ \A k \in 1..Len(gpus) : gpus'[k] = gpus[k]
  <1>1. cur \in WithDriver
    BY CurFacts DEF ListParts, IInv, Types
  <1>2. /\ cur.card \in Cards /\ cur.dev \in Intel /\ cur.dev \in Devices
        /\ cur.driver \in {"i915", "xe", "unknown"}
    BY <1>1, CurFacts, Constants
  <1>3. DOMAIN hwmon[cur.dev] \in {DOMAIN h : h \in HwmonDirs}
    BY <1>2 DEF IInv, Types
  <1>4. TilesOf(cur) \in {NoHwmon} \cup {Hw[d].tiles : d \in Devices}
    BY <1>2 DEF TilesOf
  <1>5. Entry \in GPU
    BY <1>2, <1>3, <1>4 DEF Entry, GPU
  <1>6. gpus' = Append(gpus, Entry) /\ cur' = NoGPU
    BY DEF ListParts, Entry
  <1>7. Entry.card = cur.card /\ Entry.dev = cur.dev
    BY DEF Entry
  <1>8. gpus \in Seq(GPU)
    BY DEF IInv, Types
  <1> QED BY <1>5, <1>6, <1>7, <1>8, AppendProperties

LEMMA ListStep ==
  ASSUME IInv, ListParts
  PROVE  IInv'
  <1>1. UNCHANGED <<kernel, phase, todo, config, run>> /\ cur # NoGPU
    BY DEF ListParts
  <1>2. phase = "discover" /\ job = "none" /\ verdict = "none" /\ reads = {}
    BY <1>1 DEF IInv, Phases, Sources
  <1>3. Len(gpus) \in Nat /\ Len(gpus') = Len(gpus) + 1
    BY EntryFacts DEF IInv, Types
  <1>4. Types'
    <2>1. i' \in 0..Len(gpus')
      BY <1>1, <1>3 DEF IInv, Types, run
    <2> QED BY <1>1, <2>1, EntryFacts DEF IInv, Types, kernel, config, run
  <1>5. Phases'
    BY <1>1, <1>2, EntryFacts DEF IInv, Phases, run
  <1>6. OwnCards' /\ ReadsRooted' /\ ValueOfItsDevice' /\ HealthSoFar' /\ DegradedIsLost'
    BY <1>1, <1>2 DEF IInv, OwnCards, ReadsRooted, ValueOfItsDevice, HealthSoFar, DegradedIsLost, kernel, run
  <1>7. KeepsItsCard'
    <2>1. ASSUME NEW k \in 1..Len(gpus')
          PROVE  gpus'[k].dev \in moved \/ card[gpus'[k].dev] = gpus'[k].card
      <3>1. CASE k \in 1..Len(gpus)
        BY <3>1, EntryFacts DEF IInv, KeepsItsCard
      <3>2. CASE k = Len(gpus) + 1
        BY <1>1, <3>2, EntryFacts DEF IInv, KeepsItsCard
      <3> QED BY <1>3, <3>1, <3>2
    <2> QED BY <1>1, <2>1, EntryFacts DEF KeepsItsCard, kernel
  <1> QED BY <1>4, <1>5, <1>6, <1>7 DEF IInv

(* The steps of start-up that change neither what was found nor the kernel. *)
LEMMA MainStep ==
  ASSUME IInv, UNCHANGED <<kernel, cur, gpus, run>>, cur = NoGPU, job = "none",
         phase' \in {"discover", "exited", "evaluate", "register", "listen", "serve"},
         todo' \subseteq Cards, features' \subseteq Matrix, active' \subseteq Sources
  PROVE  IInv'
  <1>1. Types'
    BY DEF IInv, Types, kernel, run
  <1>2. Phases'
    BY DEF IInv, Phases, run
  <1>3. OwnCards' /\ KeepsItsCard' /\ ReadsRooted' /\ ValueOfItsDevice' /\ HealthSoFar' /\ DegradedIsLost'
    BY DEF IInv, OwnCards, KeepsItsCard, ReadsRooted, ValueOfItsDevice, HealthSoFar, DegradedIsLost,
           kernel, run
  <1> QED BY <1>1, <1>2, <1>3 DEF IInv

LEMMA StartupStep ==
  ASSUME IInv, Startup
  PROVE  IInv'
  <1>1. phase # "discover" => cur = NoGPU
    BY DEF IInv, Phases
  <1>2. phase # "serve" => job = "none"
    BY DEF IInv, Phases
  <1>3. todo \subseteq Cards /\ features \subseteq Matrix /\ active \subseteq Sources
    BY DEF IInv, Types
  <1>4. CASE ReadDir
    <2>1. Held \subseteq Cards
      BY DEF Held, IInv, Types
    <2> QED BY <1>1, <1>2, <1>3, <1>4, <2>1, MainStep DEF ReadDir, config
  <1>5. CASE DetectDriver
    BY <1>5, DetectStep
  <1>6. CASE ListParts
    BY <1>6, ListStep
  <1>7. CASE EndDiscover
    BY <1>2, <1>3, <1>7, MainStep DEF EndDiscover, found, config
  <1>8. CASE EvaluateFeatures
    <2>1. features' \subseteq Matrix
      BY <1>8 DEF EvaluateFeatures, Evaluate
    <2> QED BY <1>1, <1>2, <1>3, <1>8, <2>1, MainStep DEF EvaluateFeatures, found
  <1>9. CASE RegisterSources
    BY <1>1, <1>2, <1>3, <1>9, MainStep DEF RegisterSources, found
  <1>10. CASE Listen
    BY <1>1, <1>2, <1>3, <1>10, MainStep DEF Listen, found
  <1>11. ASSUME NEW c \in Cards, Resolve(c)
         PROVE  IInv'
    BY <1>11, ResolveStep
  <1> QED BY <1>4, <1>5, <1>6, <1>7, <1>8, <1>9, <1>10, <1>11 DEF Startup
-----------------------------------------------------------------------------
(* Scrapes and /health.                                                    *)

LEMMA ReadFields ==
  ASSUME NEW fam, NEW root, NEW file, NEW lab
  PROVE  LET r == Read(fam, root, file, lab)
         IN r.fam = fam /\ r.root = root /\ r.file = file /\ r.lab = lab
  BY DEF Read

(* Whatever a source looks for below a card is of the five families. *)
LEMMA ReadsOfRooted ==
  ASSUME NEW s \in Sources, NEW g, NEW r \in ReadsOf(s, g)
  PROVE  Rooted(r)
  <1>1. ASSUME NEW x, NEW file, NEW lab, NEW fam, x = Read(fam, "device", file, lab)
        PROVE  Rooted(x)
    BY <1>1, ReadFields DEF Rooted
  <1>2. ASSUME NEW x, NEW file, NEW lab, NEW fam \in CardFamilies, x = Read(fam, "card", file, lab)
        PROVE  Rooted(x)
    BY <1>2, ReadFields DEF Rooted
  <1>3. CASE s \in {"info", "pcie"}
    <2>1. \E fam, file : r = Read(fam, "device", file, <<>>)
      BY <1>3 DEF ReadsOf
    <2> QED BY <2>1, <1>1
  <1>4. CASE s = "i915_sysfs"
    <2>1. r \in I915Reads(g)
      BY <1>4 DEF ReadsOf
    <2>2. \E file, lab : r = Read("i915_rc6", "card", file, lab) \/ r = Read("i915_freq", "card", file, lab)
      BY <2>1 DEF I915Reads
    <2> QED BY <2>2, <1>2 DEF CardFamilies
  <1>5. CASE s = "xe_sysfs"
    <2>1. r \in XeReads(g)
      BY <1>5 DEF ReadsOf
    <2>2. \E file, lab : r = Read("xe_freq", "device", file, lab)
      BY <2>1 DEF XeReads
    <2> QED BY <2>2, <1>1
  <1>6. CASE s = "hwmon"
    <2>1. \E file, lab : r = Read("hwmon_name", "device", file, lab)
      BY <1>6 DEF ReadsOf, HwmonReads
    <2> QED BY <2>1, <1>1
  <1>7. CASE s = "memory"
    <2>1. r \in MemoryReads(g)
      BY <1>7 DEF ReadsOf
    <2>2. \E file, lab : r = Read("lmem", "card", file, lab) \/ r = Read("vram", "device", file, lab)
      BY <2>1 DEF MemoryReads
    <2> QED BY <2>2, <1>1, <1>2 DEF CardFamilies
  <1>8. CASE s = "engines"
    <2>1. r \in EngineReads(g)
      BY <1>8 DEF ReadsOf
    <2>2. \E fam \in {"engine_info", "engine"} : \E file, lab : r = Read(fam, "card", file, lab)
      BY <2>1 DEF EngineReads
    <2> QED BY <2>2, <1>2 DEF CardFamilies
  <1> QED BY <1>3, <1>4, <1>5, <1>6, <1>7, <1>8 DEF Sources

(* A read below the PCI device reaches that device or nothing; so does one *)
(* below the card number of a device that was not unbound.                 *)
LEMMA ReachedIsOwn ==
  ASSUME IInv, NEW k \in 1..Len(gpus), NEW r, Rooted(r)
  PROVE  \/ Reached(gpus[k], r) \subseteq {gpus[k].dev}
         \/ r.fam \in CardFamilies /\ gpus[k].dev \in moved
  <1>1. gpus[k].dev \in Devices /\ gpus[k].card \in Cards /\ gpus[k].card # NoCard
    BY GPUFacts, Constants DEF IInv, Types
  <1>2. CASE r.root = "device"
    BY <1>2 DEF Reached
  <1>3. CASE r.root # "device" /\ gpus[k].dev \notin moved
    <2>1. card[gpus[k].dev] = gpus[k].card
      BY <1>3 DEF IInv, KeepsItsCard
    <2>2. \A d \in Devices : card[d] = gpus[k].card => d = gpus[k].dev
      BY <1>1, <2>1 DEF IInv, OwnCards
    <2> QED BY <1>3, <2>2 DEF Reached
  <1> QED BY <1>2, <1>3 DEF Rooted

(* The steps of a job change nothing of the kernel and of what was found. *)
LEMMA JobStep ==
  ASSUME IInv, UNCHANGED <<kernel, phase, found, config>>
  PROVE  OwnCards' /\ KeepsItsCard'
         /\ (job' \in Sources \cup {"none", "health"} /\ i' \in 0..Len(gpus) /\ twice' \subseteq Intel
              /\ verdict' \in {"none", "up", "degraded"} /\ moving' \subseteq moved => Types')
  BY DEF IInv, OwnCards, KeepsItsCard, Types, kernel, found, config

LEMMA BeginStep ==
  ASSUME IInv, NEW j \in Sources \cup {"health"}, Begin(j)
  PROVE  IInv'
  <1>1. Len(gpus) \in Nat
    BY DEF IInv, Types
  <1>2. Types' /\ OwnCards' /\ KeepsItsCard'
    BY <1>1, JobStep DEF Begin
  <1>3. Phases'
    BY DEF Begin, found, kernel, IInv, Phases
  <1>4. ReadsRooted' /\ ValueOfItsDevice' /\ HealthSoFar' /\ DegradedIsLost'
    BY DEF Begin, ReadsRooted, ValueOfItsDevice, HealthSoFar, DegradedIsLost
  <1> QED BY <1>2, <1>3, <1>4 DEF IInv

LEMMA UpdateStep ==
  ASSUME IInv, NextGPU \/ \E r \in reads : ReadHwmonName(r) \/ GlobHwmon(r) \/ ReadFile(r)
  PROVE  IInv'
  <1>1. /\ UNCHANGED <<kernel, phase, found, config>>
        /\ UNCHANGED <<job, verdict, moving>> /\ job \in Sources
    BY DEF NextGPU, ReadHwmonName, GlobHwmon, ReadFile, IInv, Phases
  <1>2. job # "health" /\ job # "none" /\ verdict = "none"
    BY <1>1 DEF Sources, IInv, Phases
  <1>3. HealthSoFar' /\ DegradedIsLost'
    BY <1>1, <1>2 DEF HealthSoFar, DegradedIsLost
  <1>4. Len(gpus) \in Nat /\ i \in 0..Len(gpus) /\ twice \subseteq Intel /\ moving \subseteq moved
        /\ verdict \in {"none", "up", "degraded"}
    BY DEF IInv, Types
  <1>5. CASE NextGPU
    <2>1. i' = i + 1 /\ i' \in 0..Len(gpus) /\ i' # 0 /\ UNCHANGED <<out, twice>>
          /\ reads' = ReadsOf(job, gpus[i + 1])
      BY <1>4, <1>5 DEF NextGPU
    <2>2. Types' /\ OwnCards' /\ KeepsItsCard'
      BY <1>1, <1>4, <2>1, JobStep
    <2>3. Phases'
      BY <1>1, <2>1 DEF found, kernel, IInv, Phases
    <2>4. ReadsRooted'
      BY <1>1, <2>1, ReadsOfRooted DEF ReadsRooted
    <2>5. ValueOfItsDevice'
      BY <1>1, <2>1 DEF IInv, ValueOfItsDevice, kernel
    <2> QED BY <1>3, <2>2, <2>3, <2>4, <2>5 DEF IInv
  <1>6. ASSUME NEW r \in reads, ReadHwmonName(r) \/ GlobHwmon(r)
        PROVE  IInv'
    <2>1. UNCHANGED <<i, out, twice>> /\ i # 0
      BY <1>6 DEF ReadHwmonName, GlobHwmon, IInv, Phases
    <2>2. Types' /\ OwnCards' /\ KeepsItsCard'
      BY <1>1, <1>4, <2>1, JobStep
    <2>3. Phases'
      BY <1>1, <2>1 DEF found, kernel, IInv, Phases
    <2>4. \A x \in reads' : x \in reads \/ \E fam, lab : x = Read(fam, "device", r.file, lab)
      <3>1. CASE ReadHwmonName(r)
        <4>1. PICK name : reads' = (reads \ {r}) \cup {Read("hwmon_dir", "device", r.file, <<name>>)}
          BY <3>1 DEF ReadHwmonName
        <4> QED BY <4>1
      <3>2. CASE GlobHwmon(r)
        <4>1. reads' \subseteq reads \cup {Read("hwmon", "device", r.file, <<r.lab[1], ch>>) : ch \in Channels}
          BY <3>2 DEF GlobHwmon
        <4> QED BY <4>1
      <3> QED BY <1>6, <3>1, <3>2
    <2>5. ReadsRooted'
      BY <2>4, ReadFields DEF IInv, ReadsRooted, Rooted
    <2>6. ValueOfItsDevice'
      BY <1>1, <2>1 DEF IInv, ValueOfItsDevice, kernel
    <2> QED BY <1>3, <2>2, <2>3, <2>5, <2>6 DEF IInv
  <1>7. ASSUME NEW r \in reads, ReadFile(r)
        PROVE  IInv'
    <2> DEFINE x == Sample(gpus[i], r)
    <2>1. i' = i /\ i # 0 /\ reads' = reads \ {r}
      BY <1>7 DEF ReadFile, IInv, Phases
    <2>2. /\ out' \subseteq out \cup {x}
          /\ twice' \subseteq twice \cup {x.pci}
      BY <1>7 DEF ReadFile
    <2>3. x.own = Reached(gpus[i], r) /\ x.pci = gpus[i].dev /\ x.fam = r.fam
      BY DEF Sample
    <2>4. i \in 1..Len(gpus)
      BY <1>4, <2>1
    <2>5. x.pci \in Intel
      BY <2>3, <2>4, GPUFacts DEF IInv, Types
    <2>6. Types' /\ OwnCards' /\ KeepsItsCard'
      BY <1>1, <1>4, <2>1, <2>2, <2>5, JobStep
    <2>7. Phases'
      BY <1>1, <2>1 DEF found, kernel, IInv, Phases
    <2>8. ReadsRooted'
      BY <2>1 DEF IInv, ReadsRooted
    <2>9. x.own \subseteq {x.pci} \/ (x.fam \in CardFamilies /\ x.pci \in moved)
      BY <2>3, <2>4, ReachedIsOwn DEF IInv, ReadsRooted
    <2>10. ValueOfItsDevice'
      BY <1>1, <2>2, <2>9 DEF IInv, ValueOfItsDevice, CardFamilies, kernel
    <2> QED BY <1>3, <2>6, <2>7, <2>8, <2>10 DEF IInv
  <1> QED BY <1>5, <1>6, <1>7

LEMMA HealthStep ==
  ASSUME IInv, HealthStat \/ HealthEnd
  PROVE  IInv'
  <1>1. /\ UNCHANGED <<kernel, phase, found, config>>
        /\ UNCHANGED <<job, reads, out, twice, moving>> /\ job = "health"
        /\ verdict = "none" /\ verdict' \in {"none", "up", "degraded"}
    BY DEF HealthStat, HealthEnd
  <1>2. Len(gpus) \in Nat /\ i \in 0..Len(gpus) /\ twice \subseteq Intel /\ moving \subseteq moved
    BY DEF IInv, Types
  <1>3. i' \in 0..Len(gpus) /\ (i' = i + 1 \/ i' = i)
    BY <1>2 DEF HealthStat, HealthEnd
  <1>4. Types' /\ OwnCards' /\ KeepsItsCard'
    BY <1>1, <1>2, <1>3, JobStep
  <1>5. Phases'
    BY <1>1 DEF found, kernel, IInv, Phases, Sources
  <1>6. ReadsRooted' /\ ValueOfItsDevice'
    BY <1>1 DEF IInv, ReadsRooted, ValueOfItsDevice, kernel
  <1>7. \A k \in 1..i : gpus[k].dev \in moved
    BY <1>1 DEF IInv, HealthSoFar
  <1>8. CASE HealthStat      \* a number nobody holds was lost
    <2>1. i + 1 \in 1..Len(gpus) /\ i' = i + 1
      BY <1>2, <1>8 DEF HealthStat
    <2>2. ASSUME gpus[i + 1].card \notin Held
          PROVE  gpus[i + 1].dev \in moved
      <3>1. gpus[i + 1].dev \in Devices /\ gpus[i + 1].card # NoCard
        BY <2>1, GPUFacts, Constants DEF IInv, Types
      <3>2. card[gpus[i + 1].dev] # gpus[i + 1].card
        BY <2>2, <3>1 DEF Held
      <3> QED BY <2>1, <3>2 DEF IInv, KeepsItsCard
    <2>3. HealthSoFar'
      <3>1. ASSUME verdict' = "none", NEW k \in 1..(i + 1)
            PROVE  gpus[k].dev \in moved
        <4>1. gpus[i + 1].card \notin Held
          BY <1>8, <3>1 DEF HealthStat
        <4>2. k \in 1..i \/ k = i + 1
          BY <1>2
        <4> QED BY <1>7, <2>2, <4>1, <4>2
      <3> QED BY <1>1, <2>1, <3>1 DEF HealthSoFar, found, kernel
    <2>4. DegradedIsLost'
      BY <1>8 DEF HealthStat, DegradedIsLost
    <2> QED BY <1>4, <1>5, <1>6, <2>3, <2>4 DEF IInv
  <1>9. CASE HealthEnd
    <2>1. \A k \in DOMAIN gpus : gpus[k].dev \in moved
      BY <1>7, <1>9 DEF HealthEnd, IInv, Types
    <2>2. HealthSoFar' /\ DegradedIsLost'
      BY <1>1, <1>9, <2>1 DEF HealthEnd, HealthSoFar, DegradedIsLost, found, kernel
    <2> QED BY <1>4, <1>5, <1>6, <2>2 DEF IInv
  <1> QED BY <1>8, <1>9

-----------------------------------------------------------------------------
LEMMA IInvStep == IInv /\ [Next]_vars => IInv'
  <1> SUFFICES ASSUME IInv, [Next]_vars PROVE IInv'
    OBVIOUS
  <1>1. CASE Kernel
    BY <1>1, KernelStep
  <1>2. CASE Startup
    BY <1>2, StartupStep
  <1>3. CASE Serve
    <2>1. CASE HealthStat \/ HealthEnd
      BY <2>1, HealthStep
    <2>2. CASE BeginHealth \/ \E s \in Sources : BeginUpdate(s)
      BY <2>2, BeginStep DEF BeginHealth, BeginUpdate
    <2> QED BY <1>3, <2>1, <2>2, UpdateStep DEF Serve
  <1>4. CASE UNCHANGED vars
    <2>1. UNCHANGED <<kernel, phase, found, config, run>>
      BY <1>4 DEF vars
    <2>2. Types' /\ OwnCards' /\ KeepsItsCard'
      BY <2>1, JobStep DEF IInv, Types, run
    <2>3. Phases'
      BY <2>1 DEF IInv, Phases, found, run
    <2>4. ReadsRooted' /\ ValueOfItsDevice' /\ HealthSoFar' /\ DegradedIsLost'
      BY <2>1 DEF IInv, ReadsRooted, ValueOfItsDevice, HealthSoFar, DegradedIsLost, kernel, found, run
    <2> QED BY <2>2, <2>3, <2>4 DEF IInv
  <1> QED BY <1>1, <1>2, <1>3, <1>4 DEF Next

THEOREM InductiveInvariant == Spec => []IInv
  <1>1. Init => IInv
    BY InitTypes, InitRest DEF IInv
  <1> QED BY <1>1, IInvStep, PTL DEF Spec

(* Every variable keeps its type. *)
THEOREM TypeCorrect == Spec => []TypeOK
  <1>1. IInv => TypeOK
    BY GPUFacts DEF IInv, Types, TypeOK
  <1> QED BY InductiveInvariant, <1>1, PTL

(* No sample carries the address of one GPU and the value of another,      *)
(* unless its file lies below a card number and its GPU was unbound.       *)
THEOREM ValuesAreOwn == Spec => []ValueOfItsDevice
  <1>1. IInv => ValueOfItsDevice
    BY DEF IInv
  <1> QED BY InductiveInvariant, <1>1, PTL

(* /health never calls a machine degraded that kept one of its GPUs. *)
THEOREM NeverDegradedTooSoon == Spec => []DegradedIsLost
  <1>1. IInv => DegradedIsLost
    BY DEF IInv
  <1> QED BY InductiveInvariant, <1>1, PTL
-----------------------------------------------------------------------------
(* A GPU that stays bound is found.                                        *)

(* What Discover should say of device d. *)
Expected(d) == [card |-> card[d], dev |-> d, driver |-> DriverOf(d), hwmons |-> DOMAIN hwmon[d],
                tiles |-> IF bound[d] = "xe" THEN Hw[d].tiles ELSE NoHwmon]

Ahead(d)  == card[d] \in todo
AtHand(d) == cur # NoGPU /\ cur.dev = d
Found(d)  == \E k \in 1..Len(gpus) :
               gpus[k] = Expected(d) /\ \A l \in 1..Len(gpus) : gpus[l].dev = d => l = k
Absent(d) == \A k \in 1..Len(gpus) : gpus[k].dev # d

(* Exactly one of the three, as far as the walk has come. *)
Walked(d) ==
  /\ \/ Ahead(d) /\ ~AtHand(d) /\ Absent(d)
     \/ ~Ahead(d) /\ AtHand(d) /\ Absent(d)
     \/ ~Ahead(d) /\ ~AtHand(d) /\ Found(d)
  /\ AtHand(d) /\ "driver" \in DOMAIN cur => cur.driver = DriverOf(d)

WalkedAll ==
  /\ phase # "start" => \A d \in Steady : Walked(d)
  /\ phase \notin {"start", "discover"} => todo = {}

(* The state Walked is about. *)
LEMMA WalkedUnchanged ==
  ASSUME NEW d \in Devices, Walked(d), UNCHANGED <<cur, todo, gpus>>,
         card'[d] = card[d], bound'[d] = bound[d], hwmon'[d] = hwmon[d]
  PROVE  Walked(d)'
  BY DEF Walked, Ahead, AtHand, Found, Absent, Expected, DriverOf

LEMMA WalkedIdle ==
  ASSUME WalkedAll, UNCHANGED <<kernel, cur, todo, gpus>>, phase # "start", phase' # "start",
         phase' \notin {"start", "discover"} => todo = {}
  PROVE  WalkedAll'
  <1>1. \A d \in Steady : d \in Devices
    BY Constants DEF Steady
  <1>2. Steady' = Steady
    BY DEF Steady, kernel
  <1>3. \A d \in Steady : Walked(d)'
    BY <1>1, WalkedUnchanged DEF WalkedAll, kernel
  <1> QED BY <1>2, <1>3 DEF WalkedAll

LEMMA WalkedKernel ==
  ASSUME IInv, WalkedAll, Kernel
  PROVE  WalkedAll'
  <1>1. PICK d \in Devices : Unbind(d) \/ \E drv \in Drivers[d] : Bind(d, drv)
    BY DEF Kernel
  <1>2. UNCHANGED <<phase, cur, todo, gpus>> /\ moved' = moved \cup {d}
    BY <1>1 DEF Bind, Unbind, Change, found
  <1>3. \A e \in Devices \ {d} : card'[e] = card[e] /\ bound'[e] = bound[e] /\ hwmon'[e] = hwmon[e]
    BY <1>1 DEF Bind, Unbind, IInv, Types
  <1>4. \A e \in Steady' : e \in Steady /\ e \in Devices \ {d}
    BY <1>2, <1>3, Constants DEF Steady
  <1>5. \A e \in Steady' : phase # "start" => Walked(e)'
    BY <1>2, <1>3, <1>4, WalkedUnchanged DEF WalkedAll
  <1> QED BY <1>2, <1>5 DEF WalkedAll

LEMMA SteadyFacts ==
  ASSUME IInv, NEW d \in Steady
  PROVE  /\ d \in Devices /\ d \in Intel /\ card[d] \in Cards /\ card[d] # NoCard /\ d \notin moved
         /\ \A e \in Devices : card[e] = card[d] => e = d
  <1>1. d \in Devices /\ d \in Intel /\ bound[d] # "none" /\ d \notin moved
    BY Constants DEF Steady
  <1>2. card[d] # NoCard /\ card[d] \in Cards \cup {NoCard}
    BY <1>1 DEF IInv, OwnCards, Types
  <1> QED BY <1>1, <1>2 DEF IInv, OwnCards

LEMMA WalkedReadDir ==
  ASSUME IInv, WalkedAll, ReadDir
  PROVE  WalkedAll'
  <1>1. Steady' = Steady /\ UNCHANGED <<card, gpus, cur>>
    BY DEF ReadDir, Steady, kernel
  <1>2. ASSUME NEW d \in Steady PROVE Walked(d)'
    <2>1. Ahead(d)'
      BY <1>1, SteadyFacts DEF ReadDir, Ahead, Held
    <2>2. cur = NoGPU /\ Len(gpus) = 0
      BY DEF ReadDir, IInv, Phases
    <2>3. ~AtHand(d)' /\ Absent(d)'
      BY <1>1, <2>2 DEF AtHand, Absent
    <2> QED BY <2>1, <2>3 DEF Walked
  <1> QED BY <1>1, <1>2 DEF WalkedAll, ReadDir

LEMMA WalkedResolve ==
  ASSUME IInv, WalkedAll, NEW c \in Cards, Resolve(c)
  PROVE  WalkedAll'
  <1>1. /\ Steady' = Steady /\ UNCHANGED <<kernel, gpus>> /\ phase = "discover" /\ phase' = "discover"
        /\ c \in todo /\ todo' = todo \ {c} /\ cur = NoGPU
    BY DEF Resolve, Steady, kernel
  <1>2. c # NoCard
    BY Constants
  <1>3. ASSUME NEW d \in Steady PROVE Walked(d)'
    <2>1. /\ d \in Devices /\ d \in Intel
          /\ \A e \in Devices : card[e] = card[d] => e = d
      BY SteadyFacts
    <2>2. Walked(d) /\ ~AtHand(d)
      BY <1>1, <1>3 DEF WalkedAll, AtHand
    <2>3. Absent(d)' = Absent(d) /\ Found(d)' = Found(d) /\ Expected(d)' = Expected(d)
          /\ Ahead(d)' = (Ahead(d) /\ card[d] # c)
      BY <1>1 DEF Absent, Found, Expected, DriverOf, Ahead, kernel
    <2>4. CASE c = card[d]
      <3>1. Ahead(d) /\ Absent(d)
        BY <1>1, <2>2, <2>4 DEF Walked, Ahead
      <3>2. PICK e \in Intel : card[e] = c /\ cur' = [card |-> c, dev |-> e]
        BY <2>1, <2>4, Chosen DEF Resolve
      <3>3. e = d
        BY <2>1, <2>4, <3>2, Constants
      <3>4. cur'.dev = d /\ cur'.card = c /\ "driver" \notin DOMAIN cur'
        BY <3>2, <3>3
      <3>5. cur' # NoGPU
        BY <1>2, <3>4 DEF NoGPU
      <3>6. AtHand(d)'
        BY <3>4, <3>5 DEF AtHand
      <3> QED BY <2>3, <2>4, <3>1, <3>4, <3>6 DEF Walked
    <2>5. CASE c # card[d]
      <3>1. ~AtHand(d)'
        <4>1. CASE \E e \in Intel : card[e] = c
          <5>1. PICK e \in Intel : card[e] = c /\ cur' = [card |-> c, dev |-> e]
            BY <4>1, Chosen DEF Resolve
          <5>2. cur'.dev = e /\ e # d
            BY <2>5, <5>1
          <5> QED BY <5>2 DEF AtHand
        <4>2. CASE ~(\E e \in Intel : card[e] = c)
          BY <1>1, <4>2 DEF Resolve, AtHand
        <4> QED BY <4>1, <4>2
      <3> QED BY <2>2, <2>3, <2>5, <3>1 DEF Walked
    <2> QED BY <2>4, <2>5
  <1> QED BY <1>1, <1>3 DEF WalkedAll

LEMMA WalkedDetect ==
  ASSUME IInv, WalkedAll, DetectDriver
  PROVE  WalkedAll'
  <1>1. /\ Steady' = Steady /\ UNCHANGED <<kernel, todo, gpus, phase>> /\ cur # NoGPU
    BY DEF DetectDriver, Steady, kernel
  <1>2. phase = "discover"
    BY <1>1 DEF IInv, Phases
  <1>3. cur' # NoGPU /\ cur'.dev = cur.dev /\ cur'.driver = DriverOf(cur.dev)
    BY DetectStep, CurFacts
  <1>4. ASSUME NEW d \in Steady PROVE Walked(d)'
    <2>1. Walked(d)
      BY <1>2, <1>4 DEF WalkedAll
    <2>2. /\ Ahead(d)' = Ahead(d) /\ Absent(d)' = Absent(d) /\ Found(d)' = Found(d)
          /\ DriverOf(d)' = DriverOf(d)
      BY <1>1 DEF Ahead, Absent, Found, Expected, DriverOf, kernel
    <2>3. AtHand(d)' = AtHand(d)
      BY <1>1, <1>3 DEF AtHand
    <2>4. AtHand(d)' => cur'.driver = DriverOf(d)'
      BY <1>3, <2>2 DEF AtHand
    <2> QED BY <2>1, <2>2, <2>3, <2>4 DEF Walked
  <1> QED BY <1>1, <1>2, <1>4 DEF WalkedAll

LEMMA WalkedList ==
  ASSUME IInv, WalkedAll, ListParts
  PROVE  WalkedAll'
  <1>1. /\ Steady' = Steady /\ UNCHANGED <<kernel, todo, phase>> /\ cur # NoGPU
        /\ "driver" \in DOMAIN cur
    BY DEF ListParts, Steady, kernel
  <1>2. phase = "discover"
    BY <1>1 DEF IInv, Phases
  <1>3. Len(gpus) \in Nat
    BY DEF IInv, Types
  <1>4. ASSUME NEW d \in Steady PROVE Walked(d)'
    <2>1. Walked(d)
      BY <1>2, <1>4 DEF WalkedAll
    <2>2. Ahead(d)' = Ahead(d) /\ Expected(d)' = Expected(d) /\ ~AtHand(d)'
      BY <1>1, EntryFacts DEF Ahead, Expected, DriverOf, AtHand, kernel
    <2>3. CASE AtHand(d)
      <3>1. cur.dev = d /\ cur.driver = DriverOf(d) /\ ~Ahead(d) /\ Absent(d)
        BY <1>1, <2>1, <2>3 DEF Walked, AtHand
      <3>2. cur.card = card[d]
        BY <1>1, <3>1, SteadyFacts DEF IInv, KeepsItsCard
      <3>3. TilesOf(cur) = IF bound[d] = "xe" THEN Hw[d].tiles ELSE NoHwmon
        BY <3>1 DEF TilesOf, DriverOf
      <3>4. Entry = Expected(d)
        BY <3>1, <3>2, <3>3 DEF Entry, Expected
      <3>5. gpus'[Len(gpus) + 1] = Expected(d) /\ Len(gpus') = Len(gpus) + 1
        BY <3>4, EntryFacts
      <3>6. \A l \in 1..Len(gpus') : gpus'[l].dev = d => l = Len(gpus) + 1
        BY <1>3, <3>1, EntryFacts DEF Absent
      <3>7. Found(d)'
        BY <1>3, <2>2, <3>5, <3>6 DEF Found
      <3> QED BY <2>2, <3>1, <3>7 DEF Walked
    <2>4. CASE ~AtHand(d)
      <3>1. gpus'[Len(gpus) + 1].dev # d
        BY <1>1, <2>4, EntryFacts DEF AtHand
      <3>2. Absent(d) => Absent(d)'
        BY <1>3, <3>1, EntryFacts DEF Absent
      <3>3. Found(d) => Found(d)'
        <4> SUFFICES ASSUME Found(d) PROVE Found(d)'
          OBVIOUS
        <4>1. PICK k \in 1..Len(gpus) :
                gpus[k] = Expected(d) /\ \A l \in 1..Len(gpus) : gpus[l].dev = d => l = k
          BY DEF Found
        <4>2. k \in 1..Len(gpus') /\ gpus'[k] = Expected(d)'
          BY <1>3, <2>2, <4>1, EntryFacts
        <4>3. \A l \in 1..Len(gpus') : gpus'[l].dev = d => l = k
          BY <1>3, <3>1, <4>1, EntryFacts
        <4> QED BY <4>2, <4>3 DEF Found
      <3> QED BY <2>1, <2>2, <2>4, <3>2, <3>3 DEF Walked
    <2> QED BY <2>3, <2>4
  <1> QED BY <1>1, <1>2, <1>4 DEF WalkedAll

LEMMA WalkedStep == IInv /\ WalkedAll /\ [Next]_vars => WalkedAll'
  <1> SUFFICES ASSUME IInv, WalkedAll, [Next]_vars PROVE WalkedAll'
    OBVIOUS
  <1>1. phase \notin {"start", "discover"} => todo = {}
    BY DEF WalkedAll
  <1>2. CASE Kernel
    BY <1>2, WalkedKernel
  <1>3. CASE EndDiscover \/ EvaluateFeatures \/ RegisterSources \/ Listen
    BY <1>1, <1>3, WalkedIdle DEF EndDiscover, EvaluateFeatures, RegisterSources, Listen, found
  <1>4. CASE ReadDir
    BY <1>4, WalkedReadDir
  <1>5. CASE DetectDriver
    BY <1>5, WalkedDetect
  <1>6. CASE ListParts
    BY <1>6, WalkedList
  <1>7. ASSUME NEW c \in Cards, Resolve(c)
        PROVE  WalkedAll'
    BY <1>7, WalkedResolve
  <1>8. CASE Serve
    <2>1. UNCHANGED <<kernel, phase, found>>
      BY <1>8 DEF Serve, BeginHealth, BeginUpdate, Begin, HealthStat, HealthEnd, NextGPU,
                  ReadHwmonName, GlobHwmon, ReadFile
    <2>2. phase = "serve"
      BY <1>8 DEF Serve, BeginHealth, BeginUpdate, Begin, HealthStat, HealthEnd, NextGPU, Sources,
                  ReadHwmonName, GlobHwmon, ReadFile, IInv, Phases
    <2> QED BY <1>1, <2>1, <2>2, WalkedIdle DEF found
  <1>9. CASE UNCHANGED vars
    <2>1. UNCHANGED <<kernel, phase, cur, todo, gpus>>
      BY <1>9 DEF vars, found
    <2>2. CASE phase = "start"
      BY <2>1, <2>2 DEF WalkedAll
    <2>3. CASE phase # "start"
      BY <1>1, <2>1, <2>3, WalkedIdle
    <2> QED BY <2>2, <2>3
  <1> QED BY <1>2, <1>3, <1>4, <1>5, <1>6, <1>7, <1>8, <1>9 DEF Next, Startup

(* However other GPUs come and go during the walk over the cards, one that *)
(* stays bound is in the result, once, with what belongs to it.            *)
THEOREM SteadyAreFound == Spec => []SteadyIsFound
  <1>1. Init => WalkedAll
    BY DEF Init, WalkedAll
  <1>2. IInv /\ WalkedAll => SteadyIsFound
    <2> SUFFICES ASSUME IInv, WalkedAll, phase \notin {"start", "discover"}, NEW d \in Steady
                 PROVE  \E k \in DOMAIN gpus :
                          gpus[k] = Expected(d) /\ \A l \in DOMAIN gpus : gpus[l].dev = d => l = k
      BY DEF SteadyIsFound, Expected
    <2>1. todo = {} /\ cur = NoGPU /\ Walked(d)
      BY DEF WalkedAll, IInv, Phases
    <2>2. Found(d)
      BY <2>1 DEF Walked, Ahead, AtHand
    <2>3. DOMAIN gpus = 1..Len(gpus)
      BY DEF IInv, Types
    <2> QED BY <2>2, <2>3 DEF Found
  <1> QED BY <1>1, <1>2, WalkedStep, InductiveInvariant, PTL DEF Spec
-----------------------------------------------------------------------------
(* No series is sent twice.                                                *)

(* The GPUs have different card numbers: the walk visits a number once. *)
CardsApart ==
  /\ \A k, l \in 1..Len(gpus) : gpus[k].card = gpus[l].card => k = l
  /\ \A k \in 1..Len(gpus) : gpus[k].card \notin todo /\ (cur # NoGPU => gpus[k].card # cur.card)
  /\ cur # NoGPU => cur.card \notin todo

LEMMA CardsApartStep == IInv /\ CardsApart /\ [Next]_vars => CardsApart'
  <1> SUFFICES ASSUME IInv, CardsApart, [Next]_vars PROVE CardsApart'
    OBVIOUS
  <1>1. ASSUME UNCHANGED <<todo, cur, gpus>> PROVE CardsApart'
    BY <1>1 DEF CardsApart
  <1>2. CASE Kernel \/ Serve
    BY <1>1, <1>2
       DEF Kernel, Bind, Unbind, Serve, BeginHealth, BeginUpdate, Begin, HealthStat, HealthEnd, NextGPU,
           ReadHwmonName, GlobHwmon, ReadFile, found
  <1>3. CASE EndDiscover \/ EvaluateFeatures \/ RegisterSources \/ Listen
    BY <1>1, <1>3 DEF EndDiscover, EvaluateFeatures, RegisterSources, Listen, found
  <1>4. CASE ReadDir
    <2>1. Len(gpus) = 0 /\ cur = NoGPU /\ UNCHANGED <<cur, gpus>>
      BY <1>4 DEF ReadDir, IInv, Phases
    <2> QED BY <2>1 DEF CardsApart
  <1>5. ASSUME NEW c \in Cards, Resolve(c)
        PROVE  CardsApart'
    <2>1. c \in todo /\ todo' = todo \ {c} /\ gpus' = gpus /\ cur = NoGPU
      BY <1>5 DEF Resolve
    <2>2. cur' # NoGPU => cur'.card = c
      BY <1>5, <2>1 DEF Resolve
    <2> QED BY <2>1, <2>2 DEF CardsApart
  <1>6. CASE DetectDriver
    <2>1. UNCHANGED <<todo, gpus>> /\ cur # NoGPU
      BY <1>6 DEF DetectDriver
    <2>2. cur'.card = cur.card
      BY <1>6, DetectStep
    <2> QED BY <2>1, <2>2 DEF CardsApart
  <1>7. CASE ListParts
    <2>1. todo' = todo /\ cur # NoGPU /\ cur' = NoGPU /\ Len(gpus) \in Nat
      BY <1>7, EntryFacts DEF ListParts, IInv, Types
    <2>2. /\ Len(gpus') = Len(gpus) + 1 /\ gpus'[Len(gpus) + 1].card = cur.card
          /\ \A k \in 1..Len(gpus) : gpus'[k] = gpus[k]
      BY <1>7, EntryFacts
    <2>3. ASSUME NEW k \in 1..Len(gpus')
          PROVE  k \in 1..Len(gpus) \/ k = Len(gpus) + 1
      BY <2>1, <2>2
    <2>4. \A k \in 1..Len(gpus') : gpus'[k].card \notin todo
      BY <2>1, <2>2, <2>3 DEF CardsApart
    <2>5. \A k, l \in 1..Len(gpus') : gpus'[k].card = gpus'[l].card => k = l
      BY <2>1, <2>2, <2>3 DEF CardsApart
    <2> QED BY <2>1, <2>4, <2>5 DEF CardsApart
  <1>8. CASE UNCHANGED vars
    BY <1>1, <1>8 DEF vars, found
  <1> QED BY <1>2, <1>3, <1>4, <1>5, <1>6, <1>7, <1>8 DEF Next, Startup

(* A position in a sorted list says which element it is. *)
LEMMA RankInjective ==
  ASSUME NEW S, Numbers(S), NEW m \in S, NEW n \in S, Rank(m, S) = Rank(n, S)
  PROVE  m = n
  <1>1. ASSUME NEW a \in S, NEW b \in S, a < b
        PROVE  Rank(a, S) # Rank(b, S)
    <2> DEFINE A == {x \in S : x < a}
               B == {x \in S : x < b}
    <2>1. IsFiniteSet(B) /\ B \subseteq S
      BY FS_Subset DEF Numbers
    <2>2. A \subseteq B /\ A # B
      <3>1. a \in Nat /\ b \in Nat /\ \A x \in S : x \in Nat
        BY DEF Numbers
      <3>2. \A x \in S : x < a => x < b
        BY <1>1, <3>1
      <3>3. a \in B /\ a \notin A
        BY <1>1, <3>1
      <3> QED BY <3>2, <3>3
    <2>3. Cardinality(A) < Cardinality(B)
      <3> HIDE DEF A, B
      <3>1. IsFiniteSet(A) /\ Cardinality(A) \in Nat /\ Cardinality(B) \in Nat
        BY <2>1, <2>2, FS_Subset, FS_CardinalityType
      <3> QED BY <2>1, <2>2, <3>1, FS_Subset
    <2>4. Cardinality(A) \in Nat /\ Cardinality(B) \in Nat
      <3> HIDE DEF A, B
      <3> QED BY <2>1, <2>2, FS_Subset, FS_CardinalityType
    <2> QED BY <2>3, <2>4 DEF Rank
  <1>2. m \in Nat /\ n \in Nat
    BY DEF Numbers
  <1> QED BY <1>1, <1>2

(* The files of a card, by their kind. *)
LEMMA CardFileKinds ==
  ASSUME NEW d, NEW f \in CardFiles(d)
  PROVE  /\ bound[d] = "i915"
         /\ f[1] \in {"freq", "rc6", "gt", "engine", "lmem"}
         /\ f[1] = "freq" => f = <<"freq">>
         /\ f[1] = "rc6" => f = <<"rc6">>
         /\ f[1] = "lmem" => f = <<"lmem">>
         /\ f[1] = "gt" => \E n \in Hw[d].gts : f = <<"gt", n>>
         /\ f[1] = "engine" => \E e \in Hw[d].engines : f = <<"engine", e>>
  BY DEF CardFiles

LEMMA DeviceFileKinds ==
  ASSUME NEW d, NEW f \in DeviceFiles(d)
  PROVE  /\ f[1] \in {"id", "link", "hwmon", "vram", "freq0"}
         /\ f[1] = "id" => f = <<"id">>
         /\ f[1] = "link" => f = <<"link">>
         /\ f[1] = "hwmon" => \E n \in DOMAIN hwmon[d] : f = <<"hwmon", n>>
         /\ f[1] = "vram" => bound[d] = "xe" /\ \E t \in DOMAIN Hw[d].tiles : f = <<"vram", t>>
         /\ f[1] = "freq0" => bound[d] = "xe" /\ \E t \in DOMAIN Hw[d].tiles :
                                \E n \in Hw[d].tiles[t] : f = <<"freq0", t, n>>
  BY DEF DeviceFiles

LEMMA Parts ==
  /\ Channels # {}
  /\ \A d \in Devices : /\ Numbers(Hw[d].gts) /\ Numbers(DOMAIN Hw[d].tiles)
                        /\ \A t \in DOMAIN Hw[d].tiles : Numbers(Hw[d].tiles[t])
  /\ \A h \in HwmonDirs : \A m, n \in DOMAIN h : h[m] = h[n] => m = n
  <1>1. Channels # {} /\ \A d \in Devices :
          /\ Numbers(Hw[d].gts) /\ Numbers(DOMAIN Hw[d].tiles)
          /\ \A t \in DOMAIN Hw[d].tiles : Numbers(Hw[d].tiles[t])
    BY SysfsAssumption DEF SysfsAssumption
  <1>2. ASSUME NEW h \in HwmonDirs, NEW m \in DOMAIN h, NEW n \in DOMAIN h, h[m] = h[n]
        PROVE  m = n
    <2>1. CASE h = NoHwmon
      BY <1>2, <2>1 DEF NoHwmon
    <2>2. CASE h # NoHwmon
      <3>1. PICK drv \in AllDrivers : h \in Layouts[drv]
        BY <2>2 DEF HwmonDirs
      <3> QED BY <1>2, <3>1, SysfsAssumption DEF SysfsAssumption
    <2> QED BY <2>1, <2>2
  <1> QED BY <1>1, <1>2

(* The tiles that were found are numbered. *)
LEMMA TilesNumbered ==
  ASSUME NEW g \in GPU
  PROVE  Numbers(DOMAIN g.tiles) /\ \A t \in DOMAIN g.tiles : Numbers(g.tiles[t])
  <1>1. g.tiles = NoHwmon \/ \E d \in Devices : g.tiles = Hw[d].tiles
    BY DEF GPU
  <1>2. CASE g.tiles = NoHwmon
    <2>1. DOMAIN g.tiles = {}
      BY <1>2 DEF NoHwmon
    <2> QED BY <2>1, FS_EmptySet DEF Numbers
  <1> QED BY <1>1, <1>2, Parts

(* The GT directories listed now are those of one device. *)
LEMMA GtsNumbered ==
  ASSUME IInv, NEW g \in GPU
  PROVE  Numbers({f[2] : f \in Listed(g, "gt")}) /\ \A f \in Listed(g, "gt") : f = <<"gt", f[2]>>
  <1> DEFINE gts == {f[2] : f \in Listed(g, "gt")}
  <1>1. g.card # NoCard
    BY GPUFacts, Constants
  <1>2. ASSUME NEW f \in Listed(g, "gt")
        PROVE  \E d \in Devices : card[d] = g.card /\ f[2] \in Hw[d].gts /\ f = <<"gt", f[2]>>
    <2>1. PICK d \in Devices : card[d] = g.card /\ f \in CardFiles(d) /\ f[1] = "gt"
      BY DEF Listed
    <2> QED BY <2>1, CardFileKinds
  <1>3. CASE \E d \in Devices : card[d] = g.card
    <2>1. PICK d \in Devices : card[d] = g.card
      BY <1>3
    <2>2. \A e \in Devices : card[e] = g.card => e = d
      BY <1>1, <2>1 DEF IInv, OwnCards
    <2>3. gts \subseteq Hw[d].gts
      BY <1>2, <2>2
    <2>4. IsFiniteSet(gts) /\ gts \subseteq Nat
      <3> HIDE DEF gts
      <3> QED BY <2>3, Parts, FS_Subset DEF Numbers
    <2> QED BY <1>2, <2>4 DEF Numbers
  <1>4. CASE ~(\E d \in Devices : card[d] = g.card)
    <2>1. gts = {}
      BY <1>2, <1>4
    <2> QED BY <1>2, <2>1, FS_EmptySet DEF Numbers
  <1> QED BY <1>3, <1>4

(* What a source looks for on one GPU: different files, different series.  *)
Offered(r) ==
  /\ r.fam \notin {"hwmon_dir", "hwmon"}
  /\ r.fam = "hwmon_name" => r.file = <<"hwmon", r.file[2]>>

LEMMA ReadsOfApart ==
  ASSUME IInv, NEW g \in GPU, NEW s \in Sources
  PROVE  /\ \A r \in ReadsOf(s, g) : Offered(r)
         /\ \A r, q \in ReadsOf(s, g) :
              /\ r.fam # "hwmon_name" /\ r.fam = q.fam /\ r.lab = q.lab => r = q
              /\ r.fam = "hwmon_name" /\ r.file = q.file => r = q
  <1> DEFINE Good(R) == /\ \A r \in R : Offered(r)
                        /\ \A r, q \in R :
                             /\ r.fam # "hwmon_name" /\ r.fam = q.fam /\ r.lab = q.lab => r = q
                             /\ r.fam = "hwmon_name" /\ r.file = q.file => r = q
  <1>0. Good({})
    OBVIOUS
  <1>1. CASE s \in {"info", "pcie"}
    <2>1. \E fam \in {"info", "pcie"} : \E file : ReadsOf(s, g) = {Read(fam, "device", file, <<>>)}
      BY <1>1 DEF ReadsOf
    <2>2. \A fam \in {"info", "pcie"} : \A file : Good({Read(fam, "device", file, <<>>)})
      BY ReadFields DEF Offered
    <2> QED BY <2>1, <2>2
  <1>2. CASE s = "i915_sysfs"
    <2> DEFINE gts == {f[2] : f \in Listed(g, "gt")}
    <2>1. Numbers(gts)
      BY GtsNumbered
    <2> HIDE DEF gts
    <2> DEFINE A == Read("i915_rc6", "card", <<"rc6">>, <<>>)
               B == Read("i915_freq", "card", <<"freq">>, <<0>>)
               R(n) == Read("i915_freq", "card", <<"gt", n>>, <<Rank(n, gts)>>)
    <2>2. \A r \in I915Reads(g) : r = A \/ (gts = {} /\ r = B) \/ \E n \in gts : r = R(n)
      BY DEF I915Reads, gts
    <2>3. /\ A.fam = "i915_rc6" /\ B.fam = "i915_freq"
          /\ \A n \in gts : R(n).fam = "i915_freq" /\ R(n).lab = <<Rank(n, gts)>>
      BY ReadFields
    <2> HIDE DEF A, B, R
    <2>4. \A m, n \in gts : R(m).lab = R(n).lab => R(m) = R(n)
      <3> SUFFICES ASSUME NEW m \in gts, NEW n \in gts, R(m).lab = R(n).lab
                   PROVE  R(m) = R(n)
        OBVIOUS
      <3>1. <<Rank(m, gts)>> = <<Rank(n, gts)>>
        BY <2>3
      <3>2. Rank(m, gts) = Rank(n, gts)
        BY <3>1
      <3>3. m = n
        BY <2>1, <3>2, RankInjective
      <3> QED BY <3>3
    <2>5. Good(I915Reads(g))
      BY <2>2, <2>3, <2>4 DEF Offered
    <2> QED BY <1>0, <1>2, <2>5 DEF ReadsOf
  <1>3. CASE s = "xe_sysfs"
    <2> DEFINE T == DOMAIN g.tiles
               R(t, n) == Read("xe_freq", "device", <<"freq0", t, n>>,
                               <<Rank(t, T), Rank(n, g.tiles[t])>>)
    <2>1. ASSUME NEW r \in XeReads(g)
          PROVE  r.fam = "xe_freq" /\ \E t \in T : \E n \in g.tiles[t] : r = R(t, n)
      <3>1. \E t \in T : \E n \in g.tiles[t] : r = R(t, n)
        BY DEF XeReads
      <3> QED BY <3>1, ReadFields
    <2>2. ASSUME NEW r \in XeReads(g), NEW q \in XeReads(g), r.lab = q.lab
          PROVE  r = q
      <3>1. PICK t \in T : \E n \in g.tiles[t] : r = R(t, n)
        BY <2>1
      <3>2. PICK n \in g.tiles[t] : r = R(t, n)
        BY <3>1
      <3>3. PICK u \in T : \E m \in g.tiles[u] : q = R(u, m)
        BY <2>1
      <3>4. PICK m \in g.tiles[u] : q = R(u, m)
        BY <3>3
      <3>5. <<Rank(t, T), Rank(n, g.tiles[t])>> = <<Rank(u, T), Rank(m, g.tiles[u])>>
        BY <2>2, <3>2, <3>4, ReadFields
      <3>6. Rank(t, T) = Rank(u, T) /\ Rank(n, g.tiles[t]) = Rank(m, g.tiles[u])
        BY <3>5
      <3>7. t = u
        BY <3>6, TilesNumbered, RankInjective
      <3>8. n = m
        BY <3>6, <3>7, TilesNumbered, RankInjective
      <3> QED BY <3>2, <3>4, <3>7, <3>8
    <2>3. Good(XeReads(g))
      BY <2>1, <2>2 DEF Offered
    <2> QED BY <1>0, <1>3, <2>3 DEF ReadsOf
  <1>4. CASE s = "hwmon"
    <2>1. ASSUME NEW r \in HwmonReads(g)
          PROVE  /\ r.fam = "hwmon_name" /\ r = Read("hwmon_name", "device", r.file, <<>>)
                 /\ r.file = <<"hwmon", r.file[2]>>
      <3>1. PICK n \in g.hwmons : r = Read("hwmon_name", "device", <<"hwmon", n>>, <<>>)
        BY DEF HwmonReads
      <3>2. r.fam = "hwmon_name" /\ r.file = <<"hwmon", n>>
        BY <3>1, ReadFields
      <3> QED BY <3>1, <3>2
    <2>2. \A r, q \in HwmonReads(g) : r.file = q.file => r = q
      <3> SUFFICES ASSUME NEW r \in HwmonReads(g), NEW q \in HwmonReads(g), r.file = q.file
                   PROVE  r = q
        OBVIOUS
      <3>1. /\ r = Read("hwmon_name", "device", r.file, <<>>)
            /\ q = Read("hwmon_name", "device", q.file, <<>>)
        BY <2>1
      <3> QED BY <3>1
    <2>3. \A r \in HwmonReads(g) : Offered(r) /\ r.fam = "hwmon_name"
      BY <2>1 DEF Offered
    <2>4. Good(HwmonReads(g))
      BY <2>2, <2>3
    <2> QED BY <1>4, <2>4 DEF ReadsOf
  <1>5. CASE s = "memory"
    <2> DEFINE T == DOMAIN g.tiles
               R(t) == Read("vram", "device", <<"vram", t>>, <<Rank(t, T)>>)
    <2>1. ASSUME NEW r \in MemoryReads(g)
          PROVE  r = Read("lmem", "card", <<"lmem">>, <<>>) \/ \E t \in T : r = R(t)
      BY DEF MemoryReads
    <2>2. \A t, u \in T : R(t).lab = R(u).lab => t = u
      <3> SUFFICES ASSUME NEW t \in T, NEW u \in T, R(t).lab = R(u).lab PROVE t = u
        OBVIOUS
      <3>1. <<Rank(t, T)>> = <<Rank(u, T)>>
        BY ReadFields
      <3>2. Rank(t, T) = Rank(u, T)
        BY <3>1
      <3> QED BY <3>2, TilesNumbered, RankInjective
    <2>3. \A t \in T : R(t).fam = "vram"
      BY ReadFields
    <2> HIDE DEF R
    <2>4. Good(MemoryReads(g))
      BY <2>1, <2>2, <2>3, ReadFields DEF Offered
    <2> QED BY <1>5, <2>4 DEF ReadsOf
  <1>6. CASE s = "engines"
    <2>1. ASSUME NEW r \in EngineReads(g)
          PROVE  /\ r.fam \in {"engine_info", "engine"}
                 /\ r = Read(r.fam, "card", <<"engine", r.lab[1]>>, r.lab)
      <3>1. PICK f \in Listed(g, "engine"), fam \in {"engine_info", "engine"} :
              r = Read(fam, "card", f, <<f[2]>>)
        BY DEF EngineReads
      <3>2. PICK d \in Devices : f \in CardFiles(d) /\ f[1] = "engine"
        BY DEF Listed
      <3>3. f = <<"engine", f[2]>>
        BY <3>2, CardFileKinds
      <3>4. r.fam = fam /\ r.file = f /\ r.lab = <<f[2]>>
        BY <3>1, ReadFields
      <3> QED BY <3>1, <3>3, <3>4
    <2>2. Good(EngineReads(g))
      BY <2>1 DEF Offered
    <2> QED BY <1>0, <1>6, <2>2 DEF ReadsOf
  <1> QED BY <1>1, <1>2, <1>3, <1>4, <1>5, <1>6 DEF Sources

(* Samples are of the GPUs the job has come to. *)
OutKnown ==
  /\ \A x \in out : \E k \in 1..i : x.card = gpus[k].card
  /\ job \notin Sources => out = {}

(* What has still to be read for the GPU at hand has not been sent, and    *)
(* will not be sent twice.                                                 *)
Fresh(r) ==
  /\ \A q \in reads : q.fam = r.fam /\ q.lab = r.lab => q = r
  /\ \A x \in out : x.card = gpus[i].card => ~(x.fam = r.fam /\ x.lab = r.lab)
Unsent == \A r \in reads : r.fam \notin {"hwmon_name", "hwmon_dir", "hwmon"} => Fresh(r)

(* The same of sensors, which are labelled by the name of their directory, *)
(* as long as the device is not rebound.                                   *)
Tagged(r, d) ==
  /\ r.file = <<"hwmon", r.file[2]>> /\ r.file[2] \in DOMAIN hwmon[d]
  /\ r.lab[1] = hwmon[d][r.file[2]]
Untouched(r) ==
  /\ \A q \in reads : q.file = r.file => q = r
  /\ \A x \in out : x.card = gpus[i].card => x.file # r.file
SensorsOf(d) ==
  /\ \A r \in reads :
       /\ r.fam \in {"hwmon_name", "hwmon_dir"} => Untouched(r) /\ r.file = <<"hwmon", r.file[2]>>
       /\ r.fam = "hwmon_dir" => r.file[2] \notin DOMAIN hwmon[d] \/ Tagged(r, d)
       /\ r.fam = "hwmon" => Tagged(r, d) /\ Fresh(r)
  /\ \A x \in out : x.card = gpus[i].card /\ x.fam = "hwmon" => Tagged(x, d)
Sensors == i # 0 /\ gpus[i].dev \notin moving => SensorsOf(gpus[i].dev)

Apart == OutKnown /\ Unsent /\ Sensors /\ NoSeriesTwice

LEMMA AtHandFacts ==
  ASSUME IInv, i # 0
  PROVE  i \in 1..Len(gpus) /\ gpus[i] \in GPU /\ gpus[i].dev \in Devices /\ hwmon[gpus[i].dev] \in HwmonDirs
  <1>1. i \in 1..Len(gpus)
    BY DEF IInv, Types
  <1>2. gpus[i] \in GPU /\ gpus[i].dev \in Devices
    BY <1>1, GPUFacts, Constants DEF IInv, Types
  <1> QED BY <1>1, <1>2 DEF IInv, Types

(* A step in which no job runs, or one begins. *)
LEMMA ApartIdle ==
  ASSUME IInv, reads' = {}, out' = {}, twice' = {}
  PROVE  Apart'
  BY DEF Apart, OutKnown, Unsent, Sensors, SensorsOf, NoSeriesTwice

LEMMA ApartKernel ==
  ASSUME IInv, Apart, Kernel
  PROVE  Apart'
  <1>1. PICK d \in Devices : Unbind(d) \/ \E drv \in Drivers[d] : Bind(d, drv)
    BY DEF Kernel
  <1>2. UNCHANGED <<gpus, job, i, reads, out, twice>> /\ moving' = moving \cup {d}
    BY <1>1 DEF Bind, Unbind, Change, found
  <1>3. \A e \in Devices \ {d} : hwmon'[e] = hwmon[e]
    BY <1>1 DEF Bind, Unbind, IInv, Types
  <1>4. OutKnown' /\ Unsent' /\ NoSeriesTwice'
    BY <1>2 DEF Apart, OutKnown, Unsent, Fresh, NoSeriesTwice
  <1>5. Sensors'
    <2> SUFFICES ASSUME i # 0, gpus[i].dev \notin moving'
                 PROVE  SensorsOf(gpus[i].dev)'
      BY <1>2 DEF Sensors
    <2>1. PICK e \in Devices : e = gpus[i].dev
      BY AtHandFacts
    <2>2. hwmon'[e] = hwmon[e] /\ SensorsOf(e)
      BY <1>2, <1>3, <2>1 DEF Apart, Sensors
    <2>3. \A r : Tagged(r, e)' = Tagged(r, e)
      BY <2>2 DEF Tagged
    <2>4. SensorsOf(e)'
      BY <1>2, <2>2, <2>3 DEF SensorsOf, Fresh, Untouched
    <2> QED BY <1>2, <2>1, <2>4
  <1> QED BY <1>4, <1>5 DEF Apart

LEMMA ApartNextGPU ==
  ASSUME IInv, CardsApart, Apart, NextGPU
  PROVE  Apart'
  <1>1. /\ job \in Sources /\ reads = {} /\ i < Len(gpus) /\ i' = i + 1
        /\ reads' = ReadsOf(job, gpus[i + 1])
        /\ UNCHANGED <<gpus, job, out, twice, moving, hwmon>>
    BY DEF NextGPU, found, kernel
  <1>2. i \in Nat /\ i + 1 \in 1..Len(gpus) /\ gpus[i + 1] \in GPU
    BY <1>1 DEF IInv, Types
  <1>3. \A x \in out : x.card # gpus[i + 1].card
    <2> SUFFICES ASSUME NEW x \in out, x.card = gpus[i + 1].card PROVE FALSE
      OBVIOUS
    <2>1. PICK k \in 1..i : x.card = gpus[k].card
      BY DEF Apart, OutKnown
    <2>2. k \in 1..Len(gpus) /\ k # i + 1
      BY <1>1, <1>2, <2>1
    <2> QED BY <1>2, <2>1, <2>2 DEF CardsApart
  <1>4. OutKnown' /\ NoSeriesTwice'
    <2>1. 1..i \subseteq 1..(i + 1)
      BY <1>2
    <2> QED BY <1>1, <2>1 DEF Apart, OutKnown, NoSeriesTwice
  <1>5. /\ \A r \in reads' : Offered(r)
        /\ \A r, q \in reads' :
             /\ r.fam # "hwmon_name" /\ r.fam = q.fam /\ r.lab = q.lab => r = q
             /\ r.fam = "hwmon_name" /\ r.file = q.file => r = q
    BY <1>1, <1>2, ReadsOfApart
  <1>6. Unsent'
    BY <1>1, <1>3, <1>5 DEF Unsent, Fresh
  <1>7. Sensors'
    <2> QED BY <1>1, <1>3, <1>5 DEF Sensors, SensorsOf, Untouched, Offered
  <1> QED BY <1>4, <1>6, <1>7 DEF Apart

LEMMA ApartReadHwmonName ==
  ASSUME IInv, Apart, NEW r \in reads, ReadHwmonName(r)
  PROVE  Apart'
  <1>1. /\ r.fam = "hwmon_name" /\ UNCHANGED <<gpus, job, i, out, twice, moving, hwmon>>
        /\ i # 0
    BY DEF ReadHwmonName, found, kernel, IInv, Phases
  <1>2. PICK d \in Devices : d = gpus[i].dev
    BY <1>1, AtHandFacts
  <1>3. PICK name : /\ r.file[2] \in DOMAIN hwmon[d] => name = hwmon[d][r.file[2]]
                    /\ reads' = (reads \ {r}) \cup {Read("hwmon_dir", "device", r.file, <<name>>)}
    BY <1>2 DEF ReadHwmonName
  <1>4. PICK new : new = Read("hwmon_dir", "device", r.file, <<name>>)
    OBVIOUS
  <1>5. /\ reads' = (reads \ {r}) \cup {new}
        /\ new.fam = "hwmon_dir" /\ new.file = r.file /\ new.lab[1] = name
    BY <1>3, <1>4, ReadFields
  <1>6. \A q : q.fam # "hwmon_dir" /\ Fresh(q) => Fresh(q)'
    BY <1>1, <1>5 DEF Fresh
  <1>7. OutKnown' /\ NoSeriesTwice'
    BY <1>1 DEF Apart, OutKnown, NoSeriesTwice
  <1>8. Unsent'
    BY <1>5, <1>6 DEF Apart, Unsent
  <1>9. Sensors'
    <2> SUFFICES ASSUME d \notin moving PROVE SensorsOf(d)'
      BY <1>1, <1>2 DEF Sensors
    <2>1. SensorsOf(d)
      BY <1>1, <1>2 DEF Apart, Sensors
    <2>2. \A q : Tagged(q, d)' = Tagged(q, d)
      BY <1>1 DEF Tagged
    <2>3. Untouched(r) /\ r.file = <<"hwmon", r.file[2]>>
      BY <1>1, <2>1 DEF SensorsOf
    <2>4. \A q \in reads \ {r} : Untouched(q) => Untouched(q)'
      BY <1>1, <1>5 DEF Untouched
    <2>5. Untouched(new)' /\ new.file = <<"hwmon", new.file[2]>>
      BY <1>1, <1>5, <2>3 DEF Untouched
    <2>6. new.file[2] \notin DOMAIN hwmon[d] \/ Tagged(new, d)
      BY <1>3, <1>5, <2>3 DEF Tagged
    <2>7. ASSUME NEW q \in reads'
          PROVE  /\ q.fam \in {"hwmon_name", "hwmon_dir"} => Untouched(q)' /\ q.file = <<"hwmon", q.file[2]>>
                 /\ q.fam = "hwmon_dir" => q.file[2] \notin DOMAIN hwmon[d] \/ Tagged(q, d)
                 /\ q.fam = "hwmon" => Tagged(q, d) /\ Fresh(q)'
      <3>1. CASE q = new
        BY <1>5, <2>5, <2>6, <3>1
      <3>2. CASE q \in reads \ {r}
        BY <1>6, <2>1, <2>4, <3>2 DEF SensorsOf
      <3> QED BY <1>5, <3>1, <3>2
    <2>8. \A x \in out : x.card = gpus[i].card /\ x.fam = "hwmon" => Tagged(x, d)
      BY <2>1 DEF SensorsOf
    <2> QED BY <1>1, <2>2, <2>7, <2>8 DEF SensorsOf
  <1> QED BY <1>7, <1>8, <1>9 DEF Apart

LEMMA ApartGlobHwmon ==
  ASSUME IInv, Apart, NEW r \in reads, GlobHwmon(r)
  PROVE  Apart'
  <1>1. /\ r.fam = "hwmon_dir" /\ UNCHANGED <<gpus, job, i, out, twice, moving, hwmon>>
        /\ i # 0
    BY DEF GlobHwmon, found, kernel, IInv, Phases
  <1>2. PICK d \in Devices : d = gpus[i].dev
    BY <1>1, AtHandFacts
  <1> DEFINE R(ch) == Read("hwmon", "device", r.file, <<r.lab[1], ch>>)
             new == IF Reached(gpus[i], r) = {} THEN {} ELSE {R(ch) : ch \in Channels}
  <1>3. reads' = (reads \ {r}) \cup new
    BY DEF GlobHwmon
  <1>4. ASSUME NEW q \in new
        PROVE  /\ q.fam = "hwmon" /\ q.file = r.file /\ q.lab[1] = r.lab[1]
               /\ \A p \in new : p.lab = q.lab => p = q
               /\ Reached(gpus[i], r) # {}
    <2>1. PICK ch \in Channels : q = R(ch)
      OBVIOUS
    <2>2. ASSUME NEW p \in new, p.lab = q.lab PROVE p = q
      <3>1. PICK c \in Channels : p = R(c)
        OBVIOUS
      <3>2. <<r.lab[1], c>> = <<r.lab[1], ch>>
        BY <2>1, <2>2, <3>1, ReadFields
      <3>3. c = ch
        BY <3>2
      <3> QED BY <2>1, <3>1, <3>3
    <2>3. q.fam = "hwmon" /\ q.file = r.file /\ q.lab = <<r.lab[1], ch>>
      BY <2>1, ReadFields
    <2>4. Reached(gpus[i], r) # {}
      OBVIOUS
    <2> QED BY <2>2, <2>3, <2>4
  <1> HIDE DEF new, R
  <1>5. \A q : q.fam # "hwmon" /\ Fresh(q) => Fresh(q)'
    BY <1>1, <1>3, <1>4 DEF Fresh
  <1>6. OutKnown' /\ NoSeriesTwice'
    BY <1>1 DEF Apart, OutKnown, NoSeriesTwice
  <1>7. Unsent'
    BY <1>3, <1>4, <1>5 DEF Apart, Unsent
  <1>8. Sensors'
    <2> SUFFICES ASSUME d \notin moving PROVE SensorsOf(d)'
      BY <1>1, <1>2 DEF Sensors
    <2>1. SensorsOf(d)
      BY <1>1, <1>2 DEF Apart, Sensors
    <2>2. \A q : Tagged(q, d)' = Tagged(q, d)
      BY <1>1 DEF Tagged
    <2>3. Untouched(r) /\ r.file = <<"hwmon", r.file[2]>> /\ (r.file[2] \notin DOMAIN hwmon[d] \/ Tagged(r, d))
      BY <1>1, <2>1 DEF SensorsOf
    <2>4. new # {} => Tagged(r, d)
      <3> SUFFICES ASSUME new # {} PROVE r.file[2] \in DOMAIN hwmon[d]
        BY <2>3
      <3>1. Reached(gpus[i], r) # {}
        BY <1>4
      <3>2. r.root = "device"
        BY <1>1 DEF IInv, ReadsRooted, Rooted, CardFamilies
      <3>3. r.file \in DeviceFiles(d) /\ r.file[1] = "hwmon"
        BY <1>2, <2>3, <3>1, <3>2 DEF Reached
      <3>4. PICK n \in DOMAIN hwmon[d] : r.file = <<"hwmon", n>>
        BY <3>3, DeviceFileKinds
      <3> QED BY <3>4
    <2>5. \A q \in reads \ {r} : Untouched(q) => Untouched(q)'
      BY <1>1, <1>3, <1>4, <2>3 DEF Untouched
    <2>6. \A q \in new : Tagged(q, d)
      BY <1>4, <2>4 DEF Tagged
    <2>7. \A m, n \in DOMAIN hwmon[d] : hwmon[d][m] = hwmon[d][n] => m = n
      BY <1>1, <1>2, AtHandFacts, Parts
    <2>8. \A p, q : Tagged(p, d) /\ Tagged(q, d) /\ p.lab = q.lab => p.file = q.file
      BY <2>7 DEF Tagged
    <2>9. \A q \in new : Fresh(q)'       \* the name tells the directories apart
      <3> SUFFICES ASSUME NEW q \in new PROVE Fresh(q)'
        OBVIOUS
      <3>1. q.fam = "hwmon" /\ q.file = r.file /\ Tagged(q, d)
        BY <1>4, <2>6
      <3>2. ASSUME NEW p \in reads', p.fam = q.fam, p.lab = q.lab PROVE p = q
        <4>1. CASE p \in new
          BY <1>4, <3>2, <4>1
        <4>2. CASE p \in reads \ {r}
          <5>1. Tagged(p, d)
            BY <2>1, <3>1, <3>2, <4>2 DEF SensorsOf
          <5>2. p.file = r.file
            BY <2>8, <3>1, <3>2, <5>1
          <5> QED BY <2>3, <4>2, <5>2 DEF Untouched
        <4> QED BY <1>3, <4>1, <4>2
      <3>3. ASSUME NEW x \in out, x.card = gpus[i].card, x.fam = q.fam, x.lab = q.lab PROVE FALSE
        <4>1. Tagged(x, d)
          BY <2>1, <3>1, <3>3 DEF SensorsOf
        <4>2. x.file = r.file
          BY <2>8, <3>1, <3>3, <4>1
        <4> QED BY <2>3, <3>3, <4>2 DEF Untouched
      <3> QED BY <1>1, <3>2, <3>3 DEF Fresh
    <2>10. \A q \in reads \ {r} : q.fam = "hwmon" => Tagged(q, d) /\ Fresh(q)'
      <3> SUFFICES ASSUME NEW q \in reads \ {r}, q.fam = "hwmon" PROVE Tagged(q, d) /\ Fresh(q)'
        OBVIOUS
      <3>1. Tagged(q, d) /\ Fresh(q)
        BY <2>1 DEF SensorsOf
      <3>2. ASSUME NEW p \in new, p.lab = q.lab PROVE p = q
        <4>1. p.file = q.file /\ p.file = r.file
          BY <1>4, <2>6, <2>8, <3>1, <3>2
        <4> QED BY <2>3, <4>1 DEF Untouched
      <3> QED BY <1>1, <1>3, <3>1, <3>2 DEF Fresh
    <2>11. ASSUME NEW q \in reads'
           PROVE  /\ q.fam \in {"hwmon_name", "hwmon_dir"} => Untouched(q)' /\ q.file = <<"hwmon", q.file[2]>>
                  /\ q.fam = "hwmon_dir" => q.file[2] \notin DOMAIN hwmon[d] \/ Tagged(q, d)
                  /\ q.fam = "hwmon" => Tagged(q, d) /\ Fresh(q)'
      <3>1. CASE q \in new
        BY <1>4, <2>6, <2>9, <3>1
      <3>2. CASE q \in reads \ {r}
        BY <2>1, <2>5, <2>10, <3>2 DEF SensorsOf
      <3> QED BY <1>3, <3>1, <3>2
    <2>12. \A x \in out : x.card = gpus[i].card /\ x.fam = "hwmon" => Tagged(x, d)
      BY <2>1 DEF SensorsOf
    <2> QED BY <1>1, <2>2, <2>11, <2>12 DEF SensorsOf
  <1> QED BY <1>6, <1>7, <1>8 DEF Apart

LEMMA ApartReadFile ==
  ASSUME IInv, Apart, NEW r \in reads, ReadFile(r)
  PROVE  Apart'
  <1> DEFINE s == Sample(gpus[i], r)
  <1>1. /\ r.fam \notin {"hwmon_name", "hwmon_dir"} /\ reads' = reads \ {r} /\ i # 0
        /\ UNCHANGED <<gpus, job, i, moving, hwmon>>
    BY DEF ReadFile, found, kernel, IInv, Phases
  <1>2. \/ UNCHANGED <<out, twice>>
        \/ /\ out' = out \cup {s}
           /\ twice' = twice \cup {s.pci : o \in {y \in out : Series(y) = Series(s)}}
    BY DEF ReadFile
  <1>3. /\ s.fam = r.fam /\ s.card = gpus[i].card /\ s.pci = gpus[i].dev /\ s.lab = r.lab
        /\ s.file = r.file
    BY DEF Sample
  <1>4. PICK d \in Devices : d = gpus[i].dev
    BY <1>1, AtHandFacts
  <1>5. d \notin moving => SensorsOf(d)
    BY <1>1, <1>4 DEF Apart, Sensors
  <1> HIDE DEF s
  <1>6. r.fam # "hwmon" \/ d \notin moving => Fresh(r)
    BY <1>1, <1>5 DEF Apart, Unsent, SensorsOf
  <1>7. NoSeriesTwice'
    <2>1. ASSUME NEW y \in out, Series(y) = Series(s) PROVE s.pci \in moving
      <3>1. y.card = gpus[i].card /\ y.fam = r.fam /\ y.lab = r.lab
        BY <1>3, <2>1 DEF Series
      <3>2. ~Fresh(r)
        BY <3>1 DEF Fresh
      <3> QED BY <1>3, <1>4, <1>6, <3>2
    <2>2. twice' \subseteq twice \cup moving
      BY <1>2, <2>1
    <2> QED BY <1>1, <2>2 DEF Apart, NoSeriesTwice
  <1>8. OutKnown'
    <2>1. job \in Sources /\ i \in 1..i
      BY <1>1, AtHandFacts DEF IInv, Phases, Types
    <2> QED BY <1>1, <1>2, <1>3, <2>1 DEF Apart, OutKnown
  <1>9. ASSUME NEW q \in reads', Fresh(q)
        PROVE  Fresh(q)'
    BY <1>1, <1>2, <1>3, <1>9 DEF Fresh
  <1>10. Unsent'
    BY <1>1, <1>9 DEF Apart, Unsent
  <1>11. Sensors'
    <2> SUFFICES ASSUME d \notin moving PROVE SensorsOf(d)'
      BY <1>1, <1>4 DEF Sensors
    <2>1. SensorsOf(d)
      BY <1>5
    <2>2. \A q : Tagged(q, d)' = Tagged(q, d)
      BY <1>1 DEF Tagged
    <2>3. \A q \in reads' : Untouched(q) => Untouched(q)'
      BY <1>1, <1>2, <1>3 DEF Untouched
    <2>4. r.fam = "hwmon" => Tagged(s, d)
      BY <1>3, <2>1 DEF SensorsOf, Tagged
    <2>5. ASSUME NEW q \in reads'
          PROVE  /\ q.fam \in {"hwmon_name", "hwmon_dir"} => Untouched(q)' /\ q.file = <<"hwmon", q.file[2]>>
                 /\ q.fam = "hwmon_dir" => q.file[2] \notin DOMAIN hwmon[d] \/ Tagged(q, d)
                 /\ q.fam = "hwmon" => Tagged(q, d) /\ Fresh(q)'
      BY <1>1, <1>9, <2>1, <2>3 DEF SensorsOf
    <2>6. \A x \in out' : x.card = gpus[i].card /\ x.fam = "hwmon" => Tagged(x, d)
      BY <1>2, <1>3, <2>1, <2>4 DEF SensorsOf
    <2> QED BY <1>1, <2>2, <2>5, <2>6 DEF SensorsOf
  <1> QED BY <1>7, <1>8, <1>10, <1>11 DEF Apart

LEMMA ApartStep == IInv /\ CardsApart /\ Apart /\ [Next]_vars => Apart'
  <1> SUFFICES ASSUME IInv, CardsApart, Apart, [Next]_vars PROVE Apart'
    OBVIOUS
  <1>1. CASE Kernel
    BY <1>1, ApartKernel
  <1>2. CASE Startup
    <2>1. UNCHANGED run /\ job = "none"
      BY <1>2 DEF Startup, ReadDir, DetectDriver, ListParts, EndDiscover, EvaluateFeatures,
                  RegisterSources, Listen, Resolve, IInv, Phases
    <2>2. out = {} /\ reads = {}
      BY <2>1 DEF Apart, OutKnown, Sources, IInv, Phases
    <2> QED BY <2>1, <2>2
        DEF run, Apart, OutKnown, Unsent, Sensors, SensorsOf, NoSeriesTwice
  <1>3. CASE Serve
    <2>1. CASE HealthStat \/ HealthEnd
      <3>1. UNCHANGED <<job, reads, out, twice, moving>> /\ job = "health"
        BY <2>1 DEF HealthStat, HealthEnd
      <3>2. out = {} /\ reads = {}
        BY <3>1 DEF Apart, OutKnown, Sources, IInv, Phases
      <3> QED BY <3>1, <3>2 DEF Apart, OutKnown, Unsent, Sensors, SensorsOf, NoSeriesTwice
    <2>2. CASE BeginHealth \/ \E s \in Sources : BeginUpdate(s)
      BY <2>2, ApartIdle DEF BeginHealth, BeginUpdate, Begin
    <2> QED BY <1>3, <2>1, <2>2, ApartNextGPU, ApartReadHwmonName, ApartGlobHwmon, ApartReadFile
        DEF Serve
  <1>4. CASE UNCHANGED vars
    BY <1>4 DEF vars, kernel, found, run, Apart, OutKnown, Unsent, Fresh, Sensors, SensorsOf, Tagged,
                Untouched, NoSeriesTwice
  <1> QED BY <1>1, <1>2, <1>3, <1>4 DEF Next

(* A scrape sends no series twice, however cards and sensors are numbered, *)
(* unless the device is rebound under it.                                  *)
THEOREM SeriesAreSentOnce == Spec => []NoSeriesTwice
  <1>1. Init => CardsApart /\ Apart
    <2> SUFFICES ASSUME Init PROVE CardsApart /\ Apart
      OBVIOUS
    <2>1. Len(gpus) = 0 /\ cur = NoGPU /\ i = 0
      BY DEF Init
    <2> QED BY <2>1 DEF Init, CardsApart, Apart, OutKnown, Unsent, Sensors, NoSeriesTwice
  <1>2. Apart => NoSeriesTwice
    BY DEF Apart
  <1> QED BY <1>1, <1>2, CardsApartStep, ApartStep, InductiveInvariant, PTL DEF Spec
-----------------------------------------------------------------------------
(* Start-up leaves nothing out.                                            *)

(* What the features and the active sources were made from. *)
Configured ==
  /\ phase \in {"register", "listen"} => \E k \in Version : features = Evaluate(k, DriversFound)
  /\ phase \in {"listen", "serve"} => active = {s \in Sources : Available(s)}

LEMMA ConfiguredStep == IInv /\ Configured /\ [Next]_vars => Configured'
  <1> SUFFICES ASSUME IInv, Configured, [Next]_vars PROVE Configured'
    OBVIOUS
  <1>1. ASSUME UNCHANGED gpus
        PROVE  DriversFound' = DriversFound /\ \A s : Available(s)' = Available(s)
    <2>1. DriversFound' = DriversFound
      BY <1>1 DEF DriversFound
    <2> QED BY <1>1, <2>1 DEF Available
  <1>2. ASSUME UNCHANGED <<phase, features, active, gpus>> PROVE Configured'
    BY <1>1, <1>2 DEF Configured
  <1>3. CASE Kernel \/ Serve
    BY <1>2, <1>3
       DEF Kernel, Bind, Unbind, Serve, BeginHealth, BeginUpdate, Begin, HealthStat, HealthEnd, NextGPU,
           ReadHwmonName, GlobHwmon, ReadFile, found, config
  <1>4. CASE Startup
    <2>1. CASE ReadDir \/ DetectDriver \/ ListParts \/ EndDiscover \/ \E c \in Cards : Resolve(c)
      <3>1. phase' \notin {"register", "listen", "serve"}
        BY <2>1 DEF ReadDir, DetectDriver, ListParts, EndDiscover, Resolve, IInv, Phases
      <3> QED BY <3>1 DEF Configured
    <2>2. CASE EvaluateFeatures
      <3>1. PICK os \in Releases \cup {Unreadable}, ver \in Releases \cup {Unreadable} :
              features' = Evaluate(Detect(os, ver), DriversFound)
        BY <2>2 DEF EvaluateFeatures
      <3>2. Detect(os, ver) \in Version
        BY DetectVersion, SysfsAssumption DEF SysfsAssumption
      <3>3. DriversFound' = DriversFound /\ phase' = "register"
        BY <1>1, <2>2 DEF EvaluateFeatures, found
      <3> QED BY <3>1, <3>2, <3>3 DEF Configured
    <2>3. CASE RegisterSources
      <3>1. phase = "register" /\ phase' = "listen" /\ UNCHANGED <<features, gpus>>
            /\ active' = {s \in Sources : Available(s)}
        BY <2>3 DEF RegisterSources, found
      <3> QED BY <1>1, <3>1 DEF Configured
    <2>4. CASE Listen
      <3>1. phase = "listen" /\ phase' = "serve" /\ UNCHANGED <<active, gpus>>
        BY <2>4 DEF Listen, found
      <3> QED BY <1>1, <3>1 DEF Configured
    <2> QED BY <1>4, <2>1, <2>2, <2>3, <2>4 DEF Startup
  <1>5. CASE UNCHANGED vars
    BY <1>2, <1>5 DEF vars, found, config
  <1> QED BY <1>3, <1>4, <1>5 DEF Next

(* The result of the walk says of a GPU that stays bound what it is. *)
LEMMA SteadyEntry ==
  ASSUME IInv, WalkedAll, phase \in {"listen", "serve"}, NEW d \in Steady
  PROVE  /\ \E k \in DOMAIN gpus : gpus[k] = Expected(d)
         /\ DriverOf(d) \in DriversFound
         /\ DOMAIN hwmon[d] # {} => \E k \in DOMAIN gpus : gpus[k].hwmons # {}
  <1>1. todo = {} /\ cur = NoGPU /\ Walked(d)
    BY DEF WalkedAll, IInv, Phases
  <1>2. Found(d)
    BY <1>1 DEF Walked, Ahead, AtHand
  <1>3. DOMAIN gpus = 1..Len(gpus)
    BY DEF IInv, Types
  <1>4. PICK k \in DOMAIN gpus : gpus[k] = Expected(d)
    BY <1>2, <1>3 DEF Found
  <1>5. gpus[k].driver = DriverOf(d) /\ gpus[k].hwmons = DOMAIN hwmon[d]
    BY <1>4 DEF Expected
  <1> QED BY <1>4, <1>5 DEF DriversFound

(* A file only exists when its driver, or its hwmon directory, does. *)
LEMMA DueNeeds ==
  ASSUME NEW d \in Devices, NEW s \in Sources, Due(d, s) # {}
  PROVE  /\ s \in {"i915_sysfs", "engines"} => bound[d] = "i915"
         /\ s = "xe_sysfs" => bound[d] = "xe"
         /\ s = "hwmon" => DOMAIN hwmon[d] # {}
  <1>1. PICK f \in CardFiles(d) \cup DeviceFiles(d) : f[1] \in Concern(s)
    BY DEF Due
  <1>2. f \in CardFiles(d) => bound[d] = "i915"
    BY DEF CardFiles
  <1>3. f \in CardFiles(d) => f[1] \in {"freq", "rc6", "gt", "engine", "lmem"}
    BY CardFileKinds
  <1>4. f \in DeviceFiles(d) => f[1] \in {"id", "link", "hwmon", "vram", "freq0"}
    BY DeviceFileKinds
  <1>5. f \in DeviceFiles(d) /\ f[1] = "freq0" => bound[d] = "xe"
    BY DEF DeviceFiles
  <1>6. f \in DeviceFiles(d) /\ f[1] = "hwmon" => DOMAIN hwmon[d] # {}
    BY DEF DeviceFiles
  <1> QED BY <1>1, <1>2, <1>3, <1>4, <1>5, <1>6 DEF Concern, Sources

(* Start-up leaves out no feature and no source that a GPU which stays     *)
(* bound has, on every kernel and every mix of drivers, however the others *)
(* are bound and unbound during the walk.                                  *)
THEOREM NothingLeftOut == Spec => []NothingIsLeftOut
  <1>1. Init => WalkedAll /\ Configured
    BY DEF Init, WalkedAll, Configured
  <1>2. IInv /\ WalkedAll /\ Configured => NothingIsLeftOut
    <2> SUFFICES ASSUME IInv, WalkedAll, Configured PROVE NothingIsLeftOut
      OBVIOUS
    <2>1. ASSUME phase = "listen", NEW f \in features, NEW x \in Matrix,
                 AtLeast(f.since, x.since), NEW d \in Steady, DriverOf(d) = x.driver
          PROVE  x \in features
      <3>1. PICK k \in Version : features = Evaluate(k, DriversFound)
        BY <2>1 DEF Configured
      <3>2. f \in Matrix /\ AtLeast(k, f.since)
        BY <2>1, <3>1 DEF Evaluate
      <3>3. AtLeast(k, x.since)
        BY <2>1, <3>2, AtLeastOrder, MatrixFacts
      <3>4. x.driver \in DriversFound
        BY <2>1, SteadyEntry
      <3> QED BY <2>1, <3>1, <3>3, <3>4 DEF Evaluate
    <2>2. ASSUME phase \in {"listen", "serve"}, NEW s \in Sources \ active, NEW d \in Steady,
                 Due(d, s) # {}
          PROVE  FALSE
      <3>1. ~Available(s)
        BY <2>2 DEF Configured
      <3>2. d \in Devices
        BY Constants DEF Steady
      <3>3. bound[d] \in {"i915", "xe"} => DriverOf(d) = bound[d]
        BY DEF DriverOf
      <3>4. s \in {"i915_sysfs", "engines", "xe_sysfs", "hwmon"}
        BY <2>2, <3>1 DEF Available, Sources
      <3>5. CASE s \in {"i915_sysfs", "engines"}
        BY <2>2, <3>1, <3>2, <3>3, <3>5, DueNeeds, SteadyEntry DEF Available
      <3>6. CASE s = "xe_sysfs"
        BY <2>2, <3>1, <3>2, <3>3, <3>6, DueNeeds, SteadyEntry DEF Available
      <3>7. CASE s = "hwmon"
        BY <2>2, <3>1, <3>2, <3>7, DueNeeds, SteadyEntry DEF Available
      <3> QED BY <3>4, <3>5, <3>6, <3>7
    <2> QED BY <2>1, <2>2 DEF NothingIsLeftOut
  <1> QED BY <1>1, <1>2, WalkedStep, ConfiguredStep, InductiveInvariant, PTL DEF Spec
-----------------------------------------------------------------------------
(* A GPU that stays bound is published whole.                              *)

(* The files of d that have been sent, and the reads that lead to one.     *)
Sent(d) == {x.file : x \in {y \in out : y.own = {d} /\ y.pci = d}}
Leads(r, d, f) ==
  /\ r.file = f
  /\ (r.root = "device" /\ f \in DeviceFiles(d)) \/ (r.root = "card" /\ f \in CardFiles(d))

(* Of a GPU that was passed all has been sent; of the one at hand what has *)
(* not been sent is still to be read.                                      *)
WholeSoFar(d, k) ==
  \A f \in Due(d, job) : f \in Sent(d) \/ (k = i /\ \E r \in reads : Leads(r, d, f))
Whole ==
  job \in Sources =>
    \A d \in Steady : \A k \in 1..i : gpus[k].dev = d => WholeSoFar(d, k)

LEMMA SteadyIsListed ==
  ASSUME IInv, WalkedAll, job # "none", NEW d \in Steady
  PROVE  Found(d)
  <1>1. phase = "serve"
    BY DEF IInv, Phases
  <1>2. todo = {} /\ cur = NoGPU /\ Walked(d)
    BY <1>1 DEF WalkedAll, IInv, Phases
  <1> QED BY <1>2 DEF Walked, Ahead, AtHand

(* The card of a GPU that stays bound lists what is below that GPU. *)
LEMMA ListedOfSteady ==
  ASSUME IInv, NEW d \in Steady, NEW kind
  PROVE  Listed(Expected(d), kind) = {f \in CardFiles(d) : f[1] = kind}
  <1>1. Expected(d).card = card[d] /\ d \in Devices /\ \A e \in Devices : card[e] = card[d] => e = d
    BY SteadyFacts DEF Expected
  <1> QED BY <1>1 DEF Listed

LEMMA ExpectedFields ==
  ASSUME NEW d
  PROVE  LET g == Expected(d)
         IN /\ g.card = card[d] /\ g.dev = d /\ g.driver = DriverOf(d) /\ g.hwmons = DOMAIN hwmon[d]
            /\ g.tiles = IF bound[d] = "xe" THEN Hw[d].tiles ELSE NoHwmon
  BY DEF Expected

LEMMA LeadingReads ==
  ASSUME NEW d, NEW f, NEW fam, NEW lab
  PROVE  /\ f \in CardFiles(d) => Leads(Read(fam, "card", f, lab), d, f)
         /\ f \in DeviceFiles(d) => Leads(Read(fam, "device", f, lab), d, f)
  BY ReadFields DEF Leads

(* What a source looks for on a GPU that was found as it is leads to all   *)
(* it has to publish of it.                                                *)
LEMMA ReadsComplete ==
  ASSUME IInv, NEW d \in Steady, NEW s \in Sources, NEW f \in Due(d, s)
  PROVE  \E r \in ReadsOf(s, Expected(d)) : Leads(r, d, f)
  <1> DEFINE g == Expected(d)
  <1>1. /\ f \in CardFiles(d) \/ f \in DeviceFiles(d)
        /\ f[1] \in Concern(s) /\ ~(f[1] = "freq" /\ Hw[d].gts # {})
    BY DEF Due
  <1>2. /\ g.dev = d /\ g.driver = DriverOf(d) /\ g.hwmons = DOMAIN hwmon[d]
        /\ bound[d] = "xe" => g.tiles = Hw[d].tiles
    BY ExpectedFields
  <1>3. \A kind : Listed(g, kind) = {x \in CardFiles(d) : x[1] = kind}
    BY ListedOfSteady
  <1>4. bound[d] = "i915" => g.driver = "i915"
    BY <1>2 DEF DriverOf
  <1>5. bound[d] = "xe" => g.driver = "xe"
    BY <1>2 DEF DriverOf
  <1> HIDE DEF g
  <1>6. CASE s = "info"
    <2>1. f \in DeviceFiles(d) /\ f = <<"id">>
      BY <1>1, <1>6, CardFileKinds, DeviceFileKinds DEF Concern
    <2>2. Read("info", "device", <<"id">>, <<>>) \in ReadsOf(s, g)
      BY <1>6 DEF ReadsOf
    <2> QED BY <2>1, <2>2, LeadingReads DEF g
  <1>7. CASE s = "pcie"
    <2>1. f \in DeviceFiles(d) /\ f = <<"link">>
      BY <1>1, <1>7, CardFileKinds, DeviceFileKinds DEF Concern
    <2>2. Read("pcie", "device", <<"link">>, <<>>) \in ReadsOf(s, g)
      BY <1>7 DEF ReadsOf
    <2> QED BY <2>1, <2>2, LeadingReads DEF g
  <1>8. CASE s = "i915_sysfs"
    <2>1. f \in CardFiles(d) /\ f[1] \in {"freq", "rc6", "gt"}
      BY <1>1, <1>8, DeviceFileKinds DEF Concern
    <2>2. ReadsOf(s, g) = I915Reads(g)
      BY <1>4, <1>8, <2>1, CardFileKinds DEF ReadsOf
    <2> DEFINE gts == {x[2] : x \in Listed(g, "gt")}
    <2>3. CASE f[1] = "rc6"
      <3>1. Read("i915_rc6", "card", <<"rc6">>, <<>>) \in I915Reads(g)
        BY DEF I915Reads
      <3> QED BY <2>1, <2>2, <2>3, <3>1, CardFileKinds, LeadingReads DEF g
    <2>4. CASE f[1] = "freq"
      <3>1. gts = {}
        BY <1>1, <1>3, <2>4, CardFileKinds
      <3>2. Read("i915_freq", "card", <<"freq">>, <<0>>) \in I915Reads(g)
        BY <3>1 DEF I915Reads
      <3> QED BY <2>1, <2>2, <2>4, <3>2, CardFileKinds, LeadingReads DEF g
    <2>5. CASE f[1] = "gt"
      <3>1. f = <<"gt", f[2]>>
        BY <2>1, <2>5, CardFileKinds
      <3>2. f[2] \in gts
        BY <1>3, <2>1, <2>5
      <3>3. Read("i915_freq", "card", <<"gt", f[2]>>, <<Rank(f[2], gts)>>) \in I915Reads(g)
        BY <3>2 DEF I915Reads
      <3> QED BY <2>1, <2>2, <3>1, <3>3, LeadingReads DEF g
    <2> QED BY <2>1, <2>3, <2>4, <2>5
  <1>9. CASE s = "xe_sysfs"
    <2>1. f \in DeviceFiles(d) /\ f[1] = "freq0"
      BY <1>1, <1>9, CardFileKinds DEF Concern
    <2>2. PICK t \in DOMAIN Hw[d].tiles : \E n \in Hw[d].tiles[t] : f = <<"freq0", t, n>>
      BY <2>1, DeviceFileKinds
    <2>3. PICK n \in Hw[d].tiles[t] : f = <<"freq0", t, n>>
      BY <2>2
    <2>4. ReadsOf(s, g) = XeReads(g) /\ g.tiles = Hw[d].tiles
      BY <1>2, <1>5, <1>9, <2>1, DeviceFileKinds DEF ReadsOf
    <2>5. Read("xe_freq", "device", f, <<Rank(t, DOMAIN g.tiles), Rank(n, g.tiles[t])>>) \in XeReads(g)
      BY <2>3, <2>4 DEF XeReads
    <2> QED BY <2>1, <2>4, <2>5, LeadingReads DEF g
  <1>10. CASE s = "hwmon"
    <2>1. f \in DeviceFiles(d) /\ f[1] = "hwmon"
      BY <1>1, <1>10, CardFileKinds DEF Concern
    <2>2. PICK n \in g.hwmons : f = <<"hwmon", n>>
      BY <1>2, <2>1, DeviceFileKinds
    <2>3. Read("hwmon_name", "device", f, <<>>) \in ReadsOf(s, g)
      BY <1>10, <2>2 DEF ReadsOf, HwmonReads
    <2> QED BY <2>1, <2>3, LeadingReads DEF g
  <1>11. CASE s = "memory"
    <2>1. ReadsOf(s, g) = MemoryReads(g)
      BY <1>11 DEF ReadsOf
    <2>2. CASE f \in CardFiles(d)
      <3>1. f = <<"lmem">>
        BY <1>1, <1>11, <2>2, CardFileKinds DEF Concern
      <3>2. Read("lmem", "card", <<"lmem">>, <<>>) \in MemoryReads(g)
        BY DEF MemoryReads
      <3> QED BY <2>1, <2>2, <3>1, <3>2, LeadingReads DEF g
    <2>3. CASE f \in DeviceFiles(d)
      <3>1. f[1] = "vram"
        BY <1>1, <1>11, <2>3, DeviceFileKinds DEF Concern
      <3>2. PICK t \in DOMAIN g.tiles : f = <<"vram", t>>
        BY <1>2, <2>3, <3>1, DeviceFileKinds
      <3>3. Read("vram", "device", f, <<Rank(t, DOMAIN g.tiles)>>) \in MemoryReads(g)
        BY <3>2 DEF MemoryReads
      <3> QED BY <2>1, <2>3, <3>3, LeadingReads DEF g
    <2> QED BY <1>1, <2>2, <2>3
  <1>12. CASE s = "engines"
    <2>1. f \in CardFiles(d) /\ f[1] = "engine"
      BY <1>1, <1>12, DeviceFileKinds DEF Concern
    <2>2. ReadsOf(s, g) = EngineReads(g)
      BY <1>4, <1>12, <2>1, CardFileKinds DEF ReadsOf
    <2>3. f \in Listed(g, "engine")
      BY <1>3, <2>1
    <2>4. Read("engine", "card", f, <<f[2]>>) \in EngineReads(g)
      BY <2>3 DEF EngineReads
    <2> QED BY <2>1, <2>2, <2>4, LeadingReads DEF g
  <1> QED BY <1>6, <1>7, <1>8, <1>9, <1>10, <1>11, <1>12 DEF Sources

(* The files of a device depend on its own driver and sensors. *)
LEMMA FilesUnchanged ==
  ASSUME NEW d, bound'[d] = bound[d], hwmon'[d] = hwmon[d]
  PROVE  /\ \A s : Due(d, s)' = Due(d, s)
         /\ \A r, f : Leads(r, d, f)' = Leads(r, d, f)
  <1>1. CardFiles(d)' = CardFiles(d) /\ DeviceFiles(d)' = DeviceFiles(d)
    BY DEF CardFiles, DeviceFiles
  <1> QED BY <1>1 DEF Due, Leads

LEMMA WholeKernel ==
  ASSUME IInv, Whole, Kernel
  PROVE  Whole'
  <1>1. PICK d \in Devices : Unbind(d) \/ \E drv \in Drivers[d] : Bind(d, drv)
    BY DEF Kernel
  <1>2. UNCHANGED <<gpus, job, i, reads, out>> /\ moved' = moved \cup {d}
    BY <1>1 DEF Bind, Unbind, Change, found
  <1>3. \A e \in Devices \ {d} : bound'[e] = bound[e] /\ hwmon'[e] = hwmon[e]
    BY <1>1 DEF Bind, Unbind, IInv, Types
  <1>4. ASSUME NEW e \in Steady', job \in Sources, NEW k \in 1..i, gpus[k].dev = e
        PROVE  WholeSoFar(e, k)'
    <2>1. e \in Devices \ {d} /\ e \in Steady
      BY <1>2, <1>3, Constants DEF Steady
    <2>2. WholeSoFar(e, k)
      BY <1>4, <2>1 DEF Whole
    <2>3. Due(e, job)' = Due(e, job) /\ \A r, f : Leads(r, e, f)' = Leads(r, e, f)
      BY <1>2, <1>3, <2>1, FilesUnchanged
    <2> QED BY <1>2, <2>2, <2>3 DEF WholeSoFar, Sent
  <1> QED BY <1>2, <1>4 DEF Whole

(* A step of a job that leaves the files, the devices and the samples so   *)
(* far as they are keeps the GPUs that were passed whole.                  *)
LEMMA WholeJob ==
  ASSUME IInv, Whole, UNCHANGED <<kernel, gpus, job, i>>, out \subseteq out', job \in Sources,
         \A d \in Steady : \A f : (\E r \in reads : Leads(r, d, f)) /\ gpus[i].dev = d /\ i # 0
                                => f \in Sent(d)' \/ \E r \in reads' : Leads(r, d, f)
  PROVE  Whole'
  <1>1. Steady' = Steady /\ bound' = bound /\ hwmon' = hwmon
    BY DEF Steady, kernel
  <1>2. ASSUME NEW d \in Steady, NEW k \in 1..i, gpus[k].dev = d
        PROVE  WholeSoFar(d, k)'
    <2>1. WholeSoFar(d, k)
      BY <1>2 DEF Whole
    <2>2. Due(d, job)' = Due(d, job) /\ \A r, f : Leads(r, d, f)' = Leads(r, d, f)
      BY <1>1, FilesUnchanged
    <2>3. Sent(d) \subseteq Sent(d)'
      BY DEF Sent
    <2>4. k # 0
      BY <1>2 DEF IInv, Types
    <2>5. ASSUME NEW f \in Due(d, job)
          PROVE  f \in Sent(d)' \/ (k = i /\ \E r \in reads' : Leads(r, d, f))
      <3>1. f \in Sent(d) \/ (k = i /\ \E r \in reads : Leads(r, d, f))
        BY <2>1, <2>5 DEF WholeSoFar
      <3> QED BY <1>2, <2>3, <2>4, <3>1
    <2> QED BY <2>2, <2>5 DEF WholeSoFar
  <1> QED BY <1>1, <1>2 DEF Whole

LEMMA WholeNextGPU ==
  ASSUME IInv, WalkedAll, Whole, NextGPU
  PROVE  Whole'
  <1>1. /\ job \in Sources /\ reads = {} /\ i < Len(gpus) /\ i' = i + 1
        /\ reads' = ReadsOf(job, gpus[i + 1]) /\ UNCHANGED <<kernel, gpus, job, out>>
    BY DEF NextGPU, found
  <1>2. i \in Nat /\ i + 1 \in 1..Len(gpus)
    BY <1>1 DEF IInv, Types
  <1>3. Steady' = Steady /\ bound' = bound /\ hwmon' = hwmon
    BY <1>1 DEF Steady, kernel
  <1>4. ASSUME NEW d \in Steady, NEW k \in 1..(i + 1), gpus[k].dev = d
        PROVE  WholeSoFar(d, k)'
    <2>1. Due(d, job)' = Due(d, job) /\ \A r, f : Leads(r, d, f)' = Leads(r, d, f)
      BY <1>1, <1>3, FilesUnchanged
    <2>2. Sent(d)' = Sent(d)
      BY <1>1 DEF Sent
    <2>3. CASE k \in 1..i
      <3>1. \A f \in Due(d, job) : f \in Sent(d)
        BY <1>1, <1>4, <2>3 DEF Whole, WholeSoFar
      <3> QED BY <2>1, <2>2, <3>1, <1>1 DEF WholeSoFar
    <2>4. CASE k = i + 1
      <3>1. job # "none"
        BY <1>1 DEF Sources
      <3>2. gpus[k] = Expected(d)
        BY <1>2, <1>4, <2>4, <3>1, SteadyIsListed DEF Found
      <3>3. \A f \in Due(d, job) : \E r \in reads' : Leads(r, d, f)
        BY <1>1, <2>4, <3>2, ReadsComplete
      <3> QED BY <1>1, <2>1, <2>4, <3>3 DEF WholeSoFar
    <2> QED BY <1>2, <1>4, <2>3, <2>4
  <1> QED BY <1>1, <1>3, <1>4 DEF Whole

LEMMA WholeReadHwmonName ==
  ASSUME IInv, Whole, NEW r \in reads, ReadHwmonName(r)
  PROVE  Whole'
  <1>1. /\ r.fam = "hwmon_name" /\ UNCHANGED <<kernel, gpus, job, i, out>> /\ job \in Sources
    BY DEF ReadHwmonName, found, IInv, Phases
  <1>2. PICK name : reads' = (reads \ {r}) \cup {Read("hwmon_dir", "device", r.file, <<name>>)}
    BY DEF ReadHwmonName
  <1>3. PICK new : new = Read("hwmon_dir", "device", r.file, <<name>>)
    OBVIOUS
  <1>4. new \in reads' /\ new.root = "device" /\ new.file = r.file /\ reads \ {r} \subseteq reads'
    BY <1>2, <1>3, ReadFields
  <1>5. r.root = "device"
    BY <1>1 DEF IInv, ReadsRooted, Rooted, CardFamilies
  <1>6. \A d, f : Leads(r, d, f) => Leads(new, d, f)
    BY <1>4, <1>5 DEF Leads
  <1>7. \A d, f : (\E q \in reads : Leads(q, d, f)) => \E q \in reads' : Leads(q, d, f)
    BY <1>4, <1>6
  <1> QED BY <1>1, <1>7, WholeJob

LEMMA WholeGlobHwmon ==
  ASSUME IInv, Whole, NEW r \in reads, GlobHwmon(r)
  PROVE  Whole'
  <1>1. /\ r.fam = "hwmon_dir" /\ UNCHANGED <<kernel, gpus, job, i, out>> /\ job \in Sources
    BY DEF GlobHwmon, found, IInv, Phases
  <1>2. r.root = "device" /\ reads \ {r} \subseteq reads'
    BY <1>1 DEF GlobHwmon, IInv, ReadsRooted, Rooted, CardFamilies
  <1>3. ASSUME NEW d \in Steady, NEW f, Leads(r, d, f), gpus[i].dev = d
        PROVE  \E q \in reads' : Leads(q, d, f)
    <2>1. r.file = f /\ f \in DeviceFiles(d) /\ d \in Devices
      BY <1>2, <1>3, SteadyFacts DEF Leads
    <2>2. d \in Reached(gpus[i], r)
      BY <1>2, <1>3, <2>1 DEF Reached
    <2>3. PICK ch \in Channels : TRUE
      BY Parts
    <2>4. Read("hwmon", "device", r.file, <<r.lab[1], ch>>) \in reads'
      BY <2>2, <2>3 DEF GlobHwmon
    <2> QED BY <2>1, <2>4, LeadingReads
  <1>4. \A d \in Steady : \A f : (\E q \in reads : Leads(q, d, f)) /\ gpus[i].dev = d
                                => \E q \in reads' : Leads(q, d, f)
    BY <1>2, <1>3
  <1> QED BY <1>1, <1>4, WholeJob

LEMMA WholeReadFile ==
  ASSUME IInv, Whole, NEW r \in reads, ReadFile(r)
  PROVE  Whole'
  <1>1. /\ UNCHANGED <<kernel, gpus, job, i>> /\ job \in Sources /\ reads' = reads \ {r} /\ i # 0
    BY DEF ReadFile, found, IInv, Phases
  <1>2. out \subseteq out'
    BY DEF ReadFile
  <1>3. ASSUME NEW d \in Steady, NEW f, Leads(r, d, f), gpus[i].dev = d
        PROVE  f \in Sent(d)'
    <2>1. r.file = f /\ d \in Devices /\ d \notin moved /\ \A e \in Devices : card[e] = card[d] => e = d
      BY <1>3, SteadyFacts DEF Leads
    <2>2. i \in 1..Len(gpus)
      BY <1>1, AtHandFacts
    <2>3. gpus[i].card = card[d]
      BY <1>3, <2>1, <2>2 DEF IInv, KeepsItsCard
    <2>4. Reached(gpus[i], r) = {d}
      BY <1>3, <2>1, <2>3 DEF Leads, Reached
    <2>5. PICK x : x = Sample(gpus[i], r)
      OBVIOUS
    <2>6. x.own = {d} /\ x.pci = d /\ x.file = f
      BY <1>3, <2>1, <2>4, <2>5 DEF Sample
    <2>7. out' = out \cup {x}
      BY <2>5, <2>6 DEF ReadFile
    <2> QED BY <2>6, <2>7 DEF Sent
  <1>4. \A d \in Steady : \A f : (\E q \in reads : Leads(q, d, f)) /\ gpus[i].dev = d
                                => f \in Sent(d)' \/ \E q \in reads' : Leads(q, d, f)
    BY <1>1, <1>3
  <1> QED BY <1>1, <1>2, <1>4, WholeJob

LEMMA WholeStep == IInv /\ WalkedAll /\ Whole /\ [Next]_vars => Whole'
  <1> SUFFICES ASSUME IInv, WalkedAll, Whole, [Next]_vars PROVE Whole'
    OBVIOUS
  <1>1. CASE Kernel
    BY <1>1, WholeKernel
  <1>2. CASE Startup
    <2>1. UNCHANGED run /\ job = "none"
      BY <1>2 DEF Startup, ReadDir, DetectDriver, ListParts, EndDiscover, EvaluateFeatures,
                  RegisterSources, Listen, Resolve, IInv, Phases
    <2> QED BY <2>1 DEF run, Whole, Sources
  <1>3. CASE Serve
    <2>1. CASE HealthStat \/ HealthEnd
      BY <2>1 DEF HealthStat, HealthEnd, Whole, Sources
    <2>2. CASE BeginHealth \/ \E s \in Sources : BeginUpdate(s)
      <3>1. i' = 0
        BY <2>2 DEF BeginHealth, BeginUpdate, Begin
      <3> QED BY <3>1 DEF Whole
    <2> QED BY <1>3, <2>1, <2>2, WholeNextGPU, WholeReadHwmonName, WholeGlobHwmon, WholeReadFile
        DEF Serve
  <1>4. CASE UNCHANGED vars
    BY <1>4 DEF vars, kernel, found, run, Whole, WholeSoFar, Steady, Due, Sent, Leads, CardFiles,
                DeviceFiles
  <1> QED BY <1>1, <1>2, <1>3, <1>4 DEF Next

(* An Update publishes every GPU that stays bound whole, although others   *)
(* lose their files, their cards and their sensors meanwhile.              *)
THEOREM SteadyArePublished == Spec => []SteadyIsWhole
  <1>1. Init => WalkedAll /\ Whole
    BY DEF Init, WalkedAll, Whole, Sources
  <1>2. IInv /\ WalkedAll /\ Whole => SteadyIsWhole
    <2> SUFFICES ASSUME IInv, WalkedAll, Whole, Finished, NEW d \in Steady
                 PROVE  Due(d, job) \subseteq Sent(d)
      BY DEF SteadyIsWhole, Due, Sent
    <2>1. job \in Sources /\ i = Len(gpus) /\ reads = {} /\ job # "none"
      BY DEF Finished, Sources
    <2>2. PICK k \in 1..Len(gpus) : gpus[k] = Expected(d)
      BY <2>1, SteadyIsListed DEF Found
    <2>3. WholeSoFar(d, k)
      BY <2>1, <2>2, ExpectedFields DEF Whole
    <2> QED BY <2>1, <2>3 DEF WholeSoFar
  <1> QED BY <1>1, <1>2, WalkedStep, WholeStep, InductiveInvariant, PTL DEF Spec
=============================================================================
