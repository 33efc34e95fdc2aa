--------------------------- MODULE LevelZeroProofs ---------------------------
(* Proofs about LevelZero, for any drivers, devices and handles, any kinds, *)
(* any lists that fail, shrink or grow while Open runs, and any scrapes.    *)
EXTENDS LevelZero, FiniteSetTheorems, SequenceTheorems, TLAPS

(* What Open can have to call, and what it keeps of a handle. *)
Calls == {List(0, "driver")} \cup {List(p, "device") : p \in Drivers}
           \cup {Device(d) : d \in Devices} \cup {List(d, k) : d \in Devices, k \in Kinds}
           \cup {Props(h) : h \in Handles}
Kept  == {Entry(h, ok) : h \in Handles, ok \in BOOLEAN}

Types ==
  /\ here \subseteq Nodes /\ changes \in 0..MaxChanges
  /\ bound \subseteq {Symbols[i] : i \in DOMAIN Symbols}
  /\ pc \in {"load", "init", "open", "ready", "off"}
  /\ work \in Seq(Calls) /\ asked \in 0..Cardinality(Nodes)
  /\ devs \in Seq(Devices) /\ pci \in [Devices -> Devices \cup {0}]
  /\ ents \in [Devices -> [Kinds -> Seq(Kept)]]

(* The parts of the source run one after the other. *)
Phases ==
  /\ pc = "ready" => work = <<>>
  /\ pc # "ready" => todo = {} /\ meaning = {}
  /\ asked # 0 => work # <<>> /\ Head(work).op = "list"

(* The calls on the way to a device or a handle, and whether it was kept. *)
Things == Devices \cup Handles
WayTo(d) == {List(0, "driver"), List(World[d].parent, "device"), Device(d)}
Way(n) == IF n \in Devices THEN WayTo(n)
          ELSE WayTo(World[n].parent) \cup {List(World[n].parent, World[n].kind), Props(n)}
Taken(n) == IF n \in Devices THEN \E i \in DOMAIN devs : devs[i] = n
            ELSE LET e == ents[World[n].parent][World[n].kind]
                 IN \E i \in DOMAIN e : e[i].node = n

(* Open has at most one call to make on the way to anything, and none to   *)
(* what it has kept.                                                       *)
Once ==
  \A n \in Things :
    /\ \A i, j \in DOMAIN work : work[i] \in Way(n) /\ work[j] \in Way(n) => i = j
    /\ Taken(n) => \A i \in DOMAIN work : work[i] \notin Way(n)

(* What hangs on lists that neither failed nor changed was kept, or there  *)
(* is a call to make on the way to it.                                     *)
Safe(n) == n \in here /\ Path(n) \subseteq here /\ ListsOf(n) \cap (failed \cup touched) = {}
Reach == \A n \in Things : Safe(n) => Taken(n) \/ \E i \in DOMAIN work : work[i] \in Way(n)

(* A list that was counted and has not changed since is as long as that. *)
Counted ==
  asked # 0 /\ Head(work) \notin touched => asked = Cardinality(Children(Head(work)))

(* What was sent is about the handle at the position it was sent for. *)
OwnAddress == \A d \in Devices : pci[d] \in {0, d}
Positioned ==
  \A m \in meaning : \E d \in Devices, k \in Kinds : \E i \in DOMAIN ents[d][k] :
    /\ m.series.kind = k /\ m.series.pci = pci[d] /\ m.node = ents[d][k][i].node
    /\ k \in Indexed => m.series.key = i
ToRead == todo \subseteq Positions

IInv == Types /\ Phases /\ HandlesAreReal /\ Once /\ Reach /\ Counted
          /\ OwnAddress /\ Positioned /\ ToRead

-----------------------------------------------------------------------------
(* Constants and calls.                                                    *)

LEMMA Constants ==
  /\ Nodes \subseteq Nat \ {0} /\ IsFiniteSet(Nodes) /\ MaxChanges \in Nat
  /\ KindOrder \in Seq(Kinds) /\ Distinct(KindOrder) /\ Symbols \in Seq(STRING)
  /\ "driver" \notin Kinds /\ "device" \notin Kinds
  /\ Cardinality(Nodes) \in Nat
  <1>1. \A k \in DOMAIN KindOrder : KindOrder[k] \in STRING \ {"driver", "device"}
    BY LevelZeroAssumption DEF LevelZeroAssumption
  <1>2. KindOrder \in Seq(Kinds)
    BY LevelZeroAssumption, SeqDef DEF LevelZeroAssumption, Kinds
  <1> QED BY <1>1, <1>2, FS_CardinalityType, LevelZeroAssumption DEF LevelZeroAssumption, Kinds

LEMMA Hierarchy ==
  /\ Nodes = Drivers \cup Devices \cup Handles /\ 0 \notin Nodes
  /\ \A p \in Drivers : World[p].parent = 0 /\ World[p].kind = "driver"
                          /\ p \notin Devices /\ p \notin Handles
  /\ \A d \in Devices : World[d].parent \in Drivers /\ World[d].kind = "device" /\ d \notin Handles
  /\ \A h \in Handles : World[h].parent \in Devices /\ World[h].kind \in Kinds /\ h \notin Devices
  BY Constants, LevelZeroAssumption DEF LevelZeroAssumption, Drivers, Devices, Handles

LEMMA CallFields ==
  /\ \A p, k : List(p, k).op = "list" /\ List(p, k).of = p /\ List(p, k).kind = k
  /\ \A d : Device(d).op = "device" /\ Device(d).of = d
  /\ \A h : Props(h).op = "props" /\ Props(h).of = h
  BY DEF List, Device, Props

(* What a call is, by its op. *)
LEMMA CallForms ==
  ASSUME NEW x \in Calls
  PROVE  /\ x.op = "list" => \/ x = List(0, "driver")
                             \/ \E p \in Drivers : x = List(p, "device")
                             \/ \E d \in Devices, k \in Kinds : x = List(d, k)
         /\ x.op = "device" => x.of \in Devices /\ x = Device(x.of)
         /\ x.op = "props"  => x.of \in Handles /\ x = Props(x.of)
  BY CallFields DEF Calls

(* On the way to what a call is. *)
LEMMA Ways ==
  /\ \A n \in Things : List(0, "driver") \in Way(n)
  /\ \A p \in Drivers, n \in Things :
       List(p, "device") \in Way(n) <=> p \in Path(n)
  /\ \A d \in Devices, n \in Things : Device(d) \in Way(n) <=> d \in Path(n)
  /\ \A d \in Devices, k \in Kinds, n \in Things :
       List(d, k) \in Way(n) <=> n \in Handles /\ World[n].parent = d /\ World[n].kind = k
  /\ \A h \in Handles, n \in Things : Props(h) \in Way(n) <=> h = n
  <1>1. ASSUME NEW n \in Devices
        PROVE  /\ Way(n) = {List(0, "driver"), List(World[n].parent, "device"), Device(n)}
               /\ Path(n) = {n, World[n].parent} /\ World[n].parent \in Drivers
    BY Hierarchy DEF Way, WayTo, Path, Parent
  <1>2. ASSUME NEW n \in Handles
        PROVE  LET d == World[n].parent IN
               /\ Way(n) = {List(0, "driver"), List(World[d].parent, "device"), Device(d),
                            List(d, World[n].kind), Props(n)}
               /\ Path(n) = {n, d, World[d].parent} /\ d \in Devices /\ World[d].parent \in Drivers
    BY Hierarchy DEF Way, WayTo, Path, Parent
  <1>3. ASSUME NEW n \in Things
        PROVE  List(0, "driver") \in Way(n)
    BY <1>1, <1>2 DEF Things
  <1>4. ASSUME NEW p \in Drivers, NEW n \in Things
        PROVE  List(p, "device") \in Way(n) <=> p \in Path(n)
    BY <1>1, <1>2, Hierarchy, Constants, CallFields DEF Things
  <1>5. ASSUME NEW d \in Devices, NEW n \in Things
        PROVE  Device(d) \in Way(n) <=> d \in Path(n)
    BY <1>1, <1>2, Hierarchy, Constants, CallFields DEF Things
  <1>6. ASSUME NEW d \in Devices, NEW k \in Kinds, NEW n \in Things
        PROVE  List(d, k) \in Way(n) <=> n \in Handles /\ World[n].parent = d /\ World[n].kind = k
    BY <1>1, <1>2, Hierarchy, Constants, CallFields DEF Things
  <1>7. ASSUME NEW h \in Handles, NEW n \in Things
        PROVE  Props(h) \in Way(n) <=> h = n
    BY <1>1, <1>2, Hierarchy, Constants, CallFields DEF Things
  <1> QED BY <1>3, <1>4, <1>5, <1>6, <1>7

(* The lists on which a device or a handle hangs. *)
LEMMA Hangs ==
  ASSUME NEW n \in Things
  PROVE  /\ List(0, "driver") \in ListsOf(n)
         /\ \A p \in Drivers : p \in Path(n) => List(p, "device") \in ListsOf(n)
         /\ n \in Handles => List(World[n].parent, World[n].kind) \in ListsOf(n)
         /\ \E p \in Drivers : p \in Path(n)
         /\ \A p \in Drivers : p \in Path(n) =>
              \E d \in Devices : d \in Path(n) /\ World[d].parent = p
  <1>1. CASE n \in Devices
    <2>1. Path(n) = {n, World[n].parent} /\ World[n].parent \in Drivers
      BY <1>1, Hierarchy DEF Path, Parent
    <2>2. Parent(n) = World[n].parent /\ Parent(World[n].parent) = 0
      BY <1>1, Hierarchy DEF Parent
    <2> QED BY <1>1, <2>1, <2>2, Hierarchy DEF ListsOf
  <1>2. CASE n \in Handles
    <2> DEFINE d == World[n].parent
               p == World[d].parent
    <2>1. Path(n) = {n, d, p} /\ d \in Devices /\ p \in Drivers
      BY <1>2, Hierarchy DEF Path, Parent
    <2>2. Parent(n) = d /\ Parent(d) = p /\ Parent(p) = 0
      BY <1>2, Hierarchy DEF Parent
    <2> HIDE DEF d, p
    <2>3. World[n].parent = d /\ World[d].parent = p
      BY DEF d, p
    <2> QED BY <1>2, <2>1, <2>2, <2>3, Hierarchy DEF ListsOf
  <1> QED BY <1>1, <1>2 DEF Things

-----------------------------------------------------------------------------
(* What the library lists.                                                 *)

LEMMA ChildrenFinite ==
  ASSUME Types, NEW x
  PROVE  /\ IsFiniteSet(Children(x)) /\ Children(x) \subseteq Nodes
         /\ Cardinality(Children(x)) \in 0..Cardinality(Nodes)
         /\ Cardinality(Children(x)) = 0 <=> Children(x) = {}
  <1>1. Children(x) \subseteq Nodes
    BY DEF Children, Types
  <1>2. IsFiniteSet(Children(x)) /\ Cardinality(Children(x)) <= Cardinality(Nodes)
    BY <1>1, Constants, FS_Subset
  <1> QED BY <1>1, <1>2, Constants, FS_CardinalityType, FS_EmptySet

(* A list of the right length is filled with everything there is. *)
LEMMA FillingFacts ==
  ASSUME Types, NEW x, NEW n \in Nat, NEW hs \in Fillings(x, n)
  PROVE  /\ hs \in Seq(Children(x)) /\ Distinct(hs)
         /\ n = Cardinality(Children(x)) =>
              \A c \in Children(x) : \E i \in DOMAIN hs : hs[i] = c
  <1> DEFINE C == Children(x)
             m == IF Cardinality(C) < n THEN Cardinality(C) ELSE n
  <1>1. m \in Nat /\ IsFiniteSet(C) /\ Cardinality(C) \in Nat
    BY ChildrenFinite
  <1>2. hs \in [1..m -> C] /\ Distinct(hs)
    BY DEF Fillings
  <1>3. ASSUME n = Cardinality(C)
        PROVE  \A c \in C : \E i \in DOMAIN hs : hs[i] = c
    <2>1. m = Cardinality(C)
      BY <1>1, <1>3
    <2>2. hs \in Injection(1..m, C)
      BY <1>2 DEF Distinct, Injection, IsInjective
    <2>3. Cardinality(1..m) = m
      <3>1. \A k \in Nat : Cardinality(1..k) = k
        BY FS_Interval
      <3> QED BY <1>1, <3>1
    <2>4. hs \in Surjection(1..m, C)
      BY <1>1, <2>1, <2>2, <2>3, FS_Injection
    <2> QED BY <2>4, <1>2 DEF Surjection
  <1> HIDE DEF m
  <1> QED BY <1>1, <1>2, <1>3, SeqDef

-----------------------------------------------------------------------------
(* One call is made and what it leads to takes its place.                  *)

LEMMA Replaced ==
  ASSUME work \in Seq(Calls), work # <<>>, NEW B \in Seq(Calls), work' = B \o Tail(work)
  PROVE  /\ work' \in Seq(Calls) /\ Head(work) \in Calls /\ Head(work) = work[1] /\ 1 \in DOMAIN work
         /\ \A i \in DOMAIN work' : \/ i \in DOMAIN B /\ work'[i] = B[i]
                                    \/ /\ i \notin DOMAIN B
                                       /\ i - Len(B) + 1 \in DOMAIN work \ {1}
                                       /\ work'[i] = work[i - Len(B) + 1]
         /\ \A i \in DOMAIN B : i \in DOMAIN work' /\ work'[i] = B[i]
         /\ \A i \in DOMAIN work \ {1} :
              Len(B) + i - 1 \in DOMAIN work' /\ work'[Len(B) + i - 1] = work[i]
  <1>1. /\ Tail(work) \in Seq(Calls) /\ Len(Tail(work)) = Len(work) - 1
        /\ \A i \in 1..Len(Tail(work)) : Tail(work)[i] = work[i + 1]
        /\ Len(work) \in Nat \ {0} /\ Head(work) = work[1]
    BY HeadTailProperties
  <1>2. /\ work' \in Seq(Calls) /\ Len(work') = Len(B) + Len(work) - 1
        /\ \A i \in 1..Len(work') :
             work'[i] = IF i <= Len(B) THEN B[i] ELSE Tail(work)[i - Len(B)]
    BY <1>1, ConcatProperties
  <1>3. /\ DOMAIN B = 1..Len(B) /\ Len(B) \in Nat /\ DOMAIN work = 1..Len(work)
        /\ DOMAIN work' = 1..Len(work')
    BY <1>2
  <1>4. Head(work) \in Calls
    BY <1>1, <1>3
  <1>5. ASSUME NEW i \in DOMAIN work'
        PROVE  \/ i \in DOMAIN B /\ work'[i] = B[i]
               \/ /\ i \notin DOMAIN B
                  /\ i - Len(B) + 1 \in DOMAIN work \ {1}
                  /\ work'[i] = work[i - Len(B) + 1]
    <2>1. CASE i <= Len(B)
      BY <2>1, <1>2, <1>3
    <2>2. CASE i > Len(B)
      <3>1. i - Len(B) \in 1..Len(Tail(work)) /\ i - Len(B) + 1 \in DOMAIN work \ {1}
        BY <2>2, <1>1, <1>2, <1>3
      <3> QED BY <2>2, <3>1, <1>1, <1>2, <1>3
    <2> QED BY <2>1, <2>2, <1>3
  <1>6. ASSUME NEW i \in DOMAIN work \ {1}
        PROVE  Len(B) + i - 1 \in DOMAIN work' /\ work'[Len(B) + i - 1] = work[i]
    <2>1. i - 1 \in 1..Len(Tail(work)) /\ Len(B) + i - 1 \in 1..Len(work')
      BY <1>1, <1>2, <1>3
    <2>2. Tail(work)[i - 1] = work[i]
      BY <1>1, <2>1
    <2> QED BY <1>2, <1>3, <2>1, <2>2
  <1>7. \A i \in DOMAIN B : i \in DOMAIN work' /\ work'[i] = B[i]
    BY <1>1, <1>2, <1>3
  <1> QED BY <1>1, <1>2, <1>3, <1>4, <1>5, <1>6, <1>7

(* Once is kept when the new calls lead where the old one did, each to     *)
(* something else, and only what it led to is kept.                        *)
LEMMA OnceStep ==
  ASSUME Once, work \in Seq(Calls), work # <<>>, NEW B \in Seq(Calls), work' = B \o Tail(work),
         \A n \in Things : \A i \in DOMAIN B : B[i] \in Way(n) => Head(work) \in Way(n),
         \A n \in Things : \A i, j \in DOMAIN B : B[i] \in Way(n) /\ B[j] \in Way(n) => i = j,
         \A n \in Things : Taken(n)' => Taken(n) \/ ( Head(work) \in Way(n)
                                                       /\ \A i \in DOMAIN B : B[i] \notin Way(n) )
  PROVE  Once'
  <1> SUFFICES ASSUME NEW n \in Things
               PROVE  /\ \A i, j \in DOMAIN work' : work'[i] \in Way(n) /\ work'[j] \in Way(n) => i = j
                      /\ Taken(n)' => \A i \in DOMAIN work' : work'[i] \notin Way(n)
    BY DEF Once, Things, Way, WayTo
  <1>1. /\ \A i, j \in DOMAIN work : work[i] \in Way(n) /\ work[j] \in Way(n) => i = j
        /\ Taken(n) => \A i \in DOMAIN work : work[i] \notin Way(n)
    BY DEF Once
  <1>2. ASSUME NEW i \in DOMAIN work', NEW j \in DOMAIN work',
               work'[i] \in Way(n), work'[j] \in Way(n)
        PROVE  i = j
    <2>1. CASE i \in DOMAIN B /\ j \in DOMAIN B
      BY <1>2, <2>1, Replaced
    <2>2. CASE i \in DOMAIN B /\ j \notin DOMAIN B
      BY <1>1, <1>2, <2>2, Replaced
    <2>3. CASE i \notin DOMAIN B /\ j \in DOMAIN B
      BY <1>1, <1>2, <2>3, Replaced
    <2>4. CASE i \notin DOMAIN B /\ j \notin DOMAIN B
      <3>1. i - Len(B) + 1 = j - Len(B) + 1
        BY <1>1, <1>2, <2>4, Replaced
      <3> QED BY <3>1, Replaced
    <2> QED BY <2>1, <2>2, <2>3, <2>4
  <1>3. ASSUME Taken(n)', NEW i \in DOMAIN work', work'[i] \in Way(n)
        PROVE  FALSE
    <2>1. CASE Taken(n)
      BY <1>1, <1>3, <2>1, Replaced
    <2>2. CASE Head(work) \in Way(n) /\ \A k \in DOMAIN B : B[k] \notin Way(n)
      BY <1>1, <1>3, <2>2, Replaced
    <2> QED BY <1>3, <2>1, <2>2
  <1> QED BY <1>2, <1>3

(* Reach is kept when what the old call led to is kept, or a new call       *)
(* leads to it.                                                             *)
LEMMA ReachStep ==
  ASSUME Reach, work \in Seq(Calls), work # <<>>, NEW B \in Seq(Calls), work' = B \o Tail(work),
         UNCHANGED machine, failed \subseteq failed',
         \A n \in Things : Taken(n) => Taken(n)',
         \A n \in Things : Safe(n)' /\ Head(work) \in Way(n) =>
                             Taken(n)' \/ \E i \in DOMAIN B : B[i] \in Way(n)
  PROVE  Reach'
  <1> SUFFICES ASSUME NEW n \in Things, Safe(n)'
               PROVE  Taken(n)' \/ \E i \in DOMAIN work' : work'[i] \in Way(n)
    BY DEF Reach, Things, Way, WayTo
  <1>1. Safe(n)
    BY DEF Safe, machine, Path, Parent, ListsOf, List
  <1>2. CASE Taken(n)
    BY <1>2
  <1>3. ASSUME NEW i \in DOMAIN work, work[i] \in Way(n)
        PROVE  Taken(n)' \/ \E j \in DOMAIN work' : work'[j] \in Way(n)
    <2>1. CASE i = 1
      <3>1. Taken(n)' \/ \E j \in DOMAIN B : B[j] \in Way(n)
        BY <1>3, <2>1, Replaced
      <3> QED BY <3>1, Replaced
    <2>2. CASE i # 1
      <3>1. i \in DOMAIN work \ {1}
        BY <2>2
      <3> QED BY <1>3, <3>1, Replaced
    <2> QED BY <2>1, <2>2
  <1> QED BY <1>1, <1>2, <1>3 DEF Reach

-----------------------------------------------------------------------------
(* The steps of Open.                                                      *)

(* A step that changes neither what is kept nor the machine. *)
LEMMA SameTaken ==
  ASSUME UNCHANGED <<devs, ents>>
  PROVE  \A n : Taken(n)' = Taken(n)
  BY DEF Taken

(* What a call that Open has made leads to is reached. *)
LEMMA BelowFacts ==
  ASSUME Types, Counted, work # <<>>, NEW x \in Calls, x = Head(work), x.op = "list",
         NEW hs \in Fillings(x, asked), asked # 0
  PROVE  LET B == Below(x, hs) IN
         /\ B \in Seq(Calls)
         /\ \A n \in Things : \A i \in DOMAIN B : B[i] \in Way(n) => x \in Way(n)
         /\ \A n \in Things : \A i, j \in DOMAIN B : B[i] \in Way(n) /\ B[j] \in Way(n) => i = j
         /\ \A n \in Things : Safe(n) /\ x \in Way(n) => \E i \in DOMAIN B : B[i] \in Way(n)
  <1> DEFINE B == Below(x, hs)
  <1>0. asked \in Nat
    BY Constants DEF Types
  <1>1. /\ hs \in Seq(Children(x)) /\ Distinct(hs)
        /\ x \notin touched => \A c \in Children(x) : \E i \in DOMAIN hs : hs[i] = c
    BY <1>0, FillingFacts DEF Counted
  <1>2. DOMAIN B = DOMAIN hs /\ DOMAIN hs = 1..Len(hs) /\ Len(hs) \in Nat
    BY <1>1 DEF Below
  <1>3. \A i \in DOMAIN hs : hs[i] \in Nodes /\ World[hs[i]].parent = x.of /\ World[hs[i]].kind = x.kind
    BY <1>1 DEF Children, Types
  <1>4. ASSUME NEW n \in Things, Safe(n), x \in ListsOf(n), NEW c \in Path(n),
               World[c].parent = x.of, World[c].kind = x.kind
        PROVE  \E i \in DOMAIN hs : hs[i] = c
    <2>1. c \in Children(x) /\ x \notin touched
      BY <1>4 DEF Safe, Children
    <2> QED BY <1>1, <2>1
  <1>5. CASE x = List(0, "driver")
    <2>1. \A i \in DOMAIN hs : hs[i] \in Drivers /\ B[i] = List(hs[i], "device")
      BY <1>2, <1>3, <1>5, CallFields DEF Below, Drivers
    <2>2. B \in Seq(Calls)
      BY <1>2, <2>1, SeqDef DEF Calls, Below
    <2>3. ASSUME NEW n \in Things, NEW i \in DOMAIN B, NEW j \in DOMAIN B,
                 B[i] \in Way(n), B[j] \in Way(n)
          PROVE  i = j
      <3>1. hs[i] \in Path(n) /\ hs[j] \in Path(n) /\ hs[i] \in Drivers /\ hs[j] \in Drivers
        BY <1>2, <2>1, <2>3, Ways
      <3>2. hs[i] = hs[j]
        BY <3>1, Hierarchy DEF Path, Parent, Things
      <3> QED BY <1>1, <1>2, <3>2 DEF Distinct
    <2>4. ASSUME NEW n \in Things, Safe(n)
          PROVE  \E i \in DOMAIN B : B[i] \in Way(n)
      <3>1. PICK p \in Drivers : p \in Path(n)
        BY Hangs
      <3>2. World[p].parent = x.of /\ World[p].kind = x.kind /\ x \in ListsOf(n)
        BY <1>5, Hierarchy, CallFields, Hangs
      <3>3. PICK i \in DOMAIN hs : hs[i] = p
        BY <1>4, <2>4, <3>1, <3>2
      <3> QED BY <1>2, <2>1, <3>1, <3>3, Ways
    <2> QED BY <1>5, <2>2, <2>3, <2>4, Ways
  <1>6. ASSUME NEW p \in Drivers, x = List(p, "device")
        PROVE  /\ B \in Seq(Calls)
               /\ \A n \in Things : \A i \in DOMAIN B : B[i] \in Way(n) => x \in Way(n)
               /\ \A n \in Things : \A i, j \in DOMAIN B : B[i] \in Way(n) /\ B[j] \in Way(n) => i = j
               /\ \A n \in Things : Safe(n) /\ x \in Way(n) => \E i \in DOMAIN B : B[i] \in Way(n)
    <2>1. \A i \in DOMAIN hs : /\ hs[i] \in Devices /\ World[hs[i]].parent = p
                                /\ B[i] = Device(hs[i])
      BY <1>2, <1>3, <1>6, CallFields DEF Below, Devices
    <2>2. B \in Seq(Calls)
      BY <1>2, <2>1, SeqDef DEF Calls, Below
    <2>3. ASSUME NEW n \in Things, NEW i \in DOMAIN B, NEW j \in DOMAIN B,
                 B[i] \in Way(n), B[j] \in Way(n)
          PROVE  i = j /\ x \in Way(n)
      <3>1. hs[i] \in Path(n) /\ hs[j] \in Path(n) /\ hs[i] \in Devices /\ hs[j] \in Devices
        BY <1>2, <2>1, <2>3, Ways
      <3>2. hs[i] = hs[j] /\ p \in Path(n)
        BY <1>2, <2>1, <3>1, Hierarchy DEF Path, Parent, Things
      <3> QED BY <1>1, <1>2, <1>6, <3>2, Ways DEF Distinct
    <2>4. ASSUME NEW n \in Things, Safe(n), x \in Way(n)
          PROVE  \E i \in DOMAIN B : B[i] \in Way(n)
      <3>1. p \in Path(n)
        BY <1>6, <2>4, Ways
      <3>2. PICK d \in Devices : d \in Path(n) /\ World[d].parent = p
        BY <3>1, Hangs
      <3>3. World[d].parent = x.of /\ World[d].kind = x.kind /\ x \in ListsOf(n)
        BY <1>6, <3>1, <3>2, Hierarchy, CallFields, Hangs
      <3>4. PICK i \in DOMAIN hs : hs[i] = d
        BY <1>4, <2>4, <3>2, <3>3
      <3> QED BY <1>2, <2>1, <3>2, <3>4, Ways
    <2> QED BY <2>2, <2>3, <2>4
  <1>7. ASSUME NEW d \in Devices, NEW k \in Kinds, x = List(d, k)
        PROVE  /\ B \in Seq(Calls)
               /\ \A n \in Things : \A i \in DOMAIN B : B[i] \in Way(n) => x \in Way(n)
               /\ \A n \in Things : \A i, j \in DOMAIN B : B[i] \in Way(n) /\ B[j] \in Way(n) => i = j
               /\ \A n \in Things : Safe(n) /\ x \in Way(n) => \E i \in DOMAIN B : B[i] \in Way(n)
    <2>1. \A i \in DOMAIN hs : /\ hs[i] \in Handles /\ World[hs[i]].parent = d /\ World[hs[i]].kind = k
                                /\ B[i] = Props(hs[i])
      <3>1. k # "driver" /\ k # "device"
        BY Constants
      <3> QED BY <1>2, <1>3, <1>7, <3>1, CallFields DEF Below, Handles
    <2>2. B \in Seq(Calls)
      BY <1>2, <2>1, SeqDef DEF Calls, Below
    <2>3. ASSUME NEW n \in Things, NEW i \in DOMAIN B, NEW j \in DOMAIN B,
                 B[i] \in Way(n), B[j] \in Way(n)
          PROVE  i = j /\ x \in Way(n)
      <3>1. hs[i] = n /\ hs[j] = n /\ n \in Handles
        BY <1>2, <2>1, <2>3, Ways
      <3> QED BY <1>1, <1>2, <1>7, <2>1, <3>1, Ways DEF Distinct
    <2>4. ASSUME NEW n \in Things, Safe(n), x \in Way(n)
          PROVE  \E i \in DOMAIN B : B[i] \in Way(n)
      <3>1. n \in Handles /\ World[n].parent = d /\ World[n].kind = k
        BY <1>7, <2>4, Ways
      <3>2. World[n].parent = x.of /\ World[n].kind = x.kind /\ x \in ListsOf(n)
        BY <1>7, <3>1, CallFields, Hangs
      <3>3. n \in Path(n)
        BY Hierarchy DEF Path, Things
      <3>4. PICK i \in DOMAIN hs : hs[i] = n
        BY <1>4, <2>4, <3>2, <3>3
      <3> QED BY <1>2, <2>1, <3>1, <3>4, Ways
    <2> QED BY <2>2, <2>3, <2>4
  <1> QED BY <1>5, <1>6, <1>7, CallForms

LEMMA InitInv == Init => IInv
  <1> SUFFICES ASSUME Init PROVE IInv
    OBVIOUS
  <1>1. List(0, "driver") \in Calls
    BY DEF Calls
  <1>2. /\ work = <<List(0, "driver")>> /\ work \in Seq(Calls) /\ DOMAIN work = {1}
        /\ work[1] = List(0, "driver")
    BY <1>1 DEF Init
  <1>3. /\ devs = <<>> /\ devs \in Seq(Devices) /\ DOMAIN devs = {}
        /\ ents \in [Devices -> [Kinds -> Seq(Kept)]]
        /\ \A d \in Devices, k \in Kinds : ents[d][k] = <<>> /\ DOMAIN ents[d][k] = {}
    <2>1. <<>> \in Seq(Kept) /\ <<>> \in Seq(Devices)
      OBVIOUS
    <2> QED BY <2>1 DEF Init
  <1>4. Types
    BY <1>2, <1>3, Constants DEF Init, Types
  <1>5. Phases /\ Counted /\ OwnAddress /\ Positioned /\ ToRead
    BY DEF Init, Phases, Counted, OwnAddress, Positioned, ToRead
  <1>6. HandlesAreReal
    BY <1>3 DEF HandlesAreReal, Distinct
  <1>7. \A n \in Things : ~Taken(n)
    BY <1>3, Hierarchy DEF Taken, Things
  <1>8. Once
    BY <1>2, <1>7 DEF Once
  <1>9. Reach
    BY <1>2, Ways DEF Reach
  <1> QED BY <1>4, <1>5, <1>6, <1>8, <1>9 DEF IInv

(* Nothing that Open found changes when the machine does; a list that did  *)
(* has been touched.                                                       *)
LEMMA ChangeStep ==
  ASSUME IInv, NEW c \in Nodes, Change(c)
  PROVE  IInv'
  <1>1. UNCHANGED <<bound, pc, work, asked, client, update>> /\ pc = "open" /\ changes < MaxChanges
        /\ changes' = changes + 1
        /\ touched' = touched \cup {List(World[c].parent, World[c].kind)}
    BY DEF Change
  <1>2. here' \subseteq Nodes /\ \A n \in Nodes \ {c} : n \in here' <=> n \in here
    BY DEF Change, IInv, Types
  <1>3. Types'
    BY <1>1, <1>2, Constants DEF IInv, Types, client
  <1>4. Phases' /\ HandlesAreReal' /\ OwnAddress' /\ Positioned'
    BY <1>1 DEF IInv, Phases, HandlesAreReal, Distinct, OwnAddress, Positioned, client, update
  <1>5. ToRead'
    BY <1>1 DEF IInv, ToRead, Positions, client, update
  <1>6. \A n : Taken(n)' = Taken(n)
    BY <1>1, SameTaken DEF client
  <1>7. Once'
    BY <1>1, <1>6 DEF IInv, Once
  <1>8. Reach'
    <2>1. ASSUME NEW n \in Things, Safe(n)'
          PROVE  Safe(n)
      <3>1. n \in Nodes /\ Path(n) \subseteq Nodes
        BY Hierarchy DEF Things, Path, Parent
      <3>2. ASSUME NEW m \in Path(n) \cup {n}
            PROVE  m # c
        <4>1. List(Parent(m), World[m].kind) \in ListsOf(n)
          BY <3>1, Hierarchy DEF ListsOf, Path
        <4>2. m # c \/ Parent(m) # World[c].parent
          BY <4>1, <1>1, <2>1 DEF Safe
        <4> QED BY <4>2, <3>1, Hierarchy DEF Parent
      <3> QED BY <1>1, <1>2, <2>1, <3>1, <3>2 DEF Safe, client
    <2> QED BY <1>1, <1>6, <2>1 DEF IInv, Reach
  <1>9. Counted'
    <2>1. ASSUME asked # 0, Head(work) \notin touched'
          PROVE  Children(Head(work))' = Children(Head(work))
      <3>1. Head(work) \in Calls /\ Head(work).op = "list"
        BY <2>1, HeadTailProperties DEF IInv, Phases, Types
      <3>2. Head(work) = List(Head(work).of, Head(work).kind)
        BY <3>1, CallForms, CallFields
      <3>3. ~(World[c].parent = Head(work).of /\ World[c].kind = Head(work).kind)
        BY <1>1, <2>1, <3>2
      <3>4. \A n \in Nodes : World[n].parent = Head(work).of /\ World[n].kind = Head(work).kind
                               => (n \in here' <=> n \in here)
        BY <1>2, <3>3
      <3> QED BY <1>1, <1>2, <3>4 DEF Children, IInv, Types
    <2> QED BY <1>1, <2>1 DEF IInv, Counted
  <1> QED BY <1>3, <1>4, <1>5, <1>7, <1>8, <1>9 DEF IInv

(* While Open runs nothing has been sent. *)
LEMMA NothingSent ==
  ASSUME IInv, pc = "open", UNCHANGED update
  PROVE  Positioned' /\ ToRead' /\ todo' = {} /\ meaning' = {}
  BY DEF IInv, Phases, Positioned, ToRead, update

(* A step that replaces the next call and keeps nothing. *)
LEMMA CallStep ==
  ASSUME IInv, pc = "open", work # <<>>, pc' = pc, NEW B \in Seq(Calls), work' = B \o Tail(work),
         UNCHANGED <<machine, bound, devs, pci, ents, update>>, failed \subseteq failed', asked' = 0,
         \A n \in Things : \A i \in DOMAIN B : B[i] \in Way(n) => Head(work) \in Way(n),
         \A n \in Things : \A i, j \in DOMAIN B : B[i] \in Way(n) /\ B[j] \in Way(n) => i = j,
         \A n \in Things : Safe(n)' /\ Head(work) \in Way(n) => \E i \in DOMAIN B : B[i] \in Way(n)
  PROVE  IInv'
  <1>1. work \in Seq(Calls) /\ work' \in Seq(Calls)
    BY Replaced DEF IInv, Types
  <1>2. Types'
    BY <1>1, Constants DEF IInv, Types, machine
  <1>3. Phases' /\ Counted'
    BY NothingSent DEF Phases, Counted
  <1>4. HandlesAreReal' /\ OwnAddress'
    BY DEF IInv, HandlesAreReal, Distinct, OwnAddress
  <1>5. \A n : Taken(n)' = Taken(n)
    BY SameTaken
  <1>6. Once'
    BY <1>1, <1>5, OnceStep DEF IInv
  <1>7. Reach'
    BY <1>1, <1>5, ReachStep DEF IInv
  <1> QED BY <1>2, <1>3, <1>4, <1>6, <1>7, NothingSent DEF IInv

LEMMA EmptyWork ==
  ASSUME work \in Seq(Calls), work # <<>>
  PROVE  <<>> \in Seq(Calls) /\ <<>> \o Tail(work) = Tail(work) /\ DOMAIN <<>> = {}
  <1>1. Tail(work) \in Seq(Calls)
    BY HeadTailProperties
  <1> QED BY <1>1, ConcatEmptySeq

LEMMA CountStep ==
  ASSUME IInv, Count
  PROVE  IInv'
  <1> DEFINE x == Head(work)
  <1>1. /\ pc = "open" /\ work # <<>> /\ x.op = "list" /\ asked = 0
        /\ UNCHANGED <<machine, bound, pc, client, update>>
    BY DEF Count, Listing
  <1>2. Types /\ work \in Seq(Calls) /\ x \in Calls
    BY <1>1, HeadTailProperties DEF IInv, Types
  <1>3. CASE Cardinality(Children(x)) = 0
    <2>1. work' = <<>> \o Tail(work) /\ asked' = 0 /\ <<>> \in Seq(Calls) /\ DOMAIN <<>> = {}
      BY <1>1, <1>2, <1>3, EmptyWork DEF Count
    <2>2. Children(x) = {}
      BY <1>2, <1>3, ChildrenFinite
    <2>3. ASSUME NEW n \in Things, Safe(n), x \in Way(n)
          PROVE  FALSE
      <3>1. \E c \in Path(n) : World[c].parent = x.of /\ World[c].kind = x.kind
        <4>1. CASE x = List(0, "driver")
          BY <4>1, Hangs, Hierarchy, CallFields
        <4>2. ASSUME NEW p \in Drivers, x = List(p, "device")
              PROVE  \E c \in Path(n) : World[c].parent = x.of /\ World[c].kind = x.kind
          BY <2>3, <4>2, Ways, Hangs, Hierarchy, CallFields
        <4>3. ASSUME NEW d \in Devices, NEW k \in Kinds, x = List(d, k)
              PROVE  \E c \in Path(n) : World[c].parent = x.of /\ World[c].kind = x.kind
          <5>1. n \in Path(n)
            BY Hierarchy DEF Path, Things
          <5> QED BY <2>3, <4>3, <5>1, Ways, CallFields
        <4> QED BY <1>1, <1>2, <4>1, <4>2, <4>3, CallForms
      <3> QED BY <2>2, <2>3, <3>1 DEF Safe, Children
    <2>4. \A n : Safe(n)' = Safe(n)
      BY <1>1 DEF Safe, machine, client, Path, Parent, ListsOf, List
    <2> QED BY <1>1, <2>1, <2>3, <2>4, CallStep DEF client
  <1>4. CASE Cardinality(Children(x)) # 0
    <2>1. asked' = Cardinality(Children(x)) /\ work' = work
      BY <1>1, <1>4 DEF Count
    <2>2. asked' \in 0..Cardinality(Nodes) /\ Children(x)' = Children(x)
      BY <1>1, <1>2, <2>1, ChildrenFinite DEF Children, machine
    <2>3. Types'
      BY <1>1, <1>2, <2>1, <2>2 DEF Types, machine, client
    <2>4. Phases' /\ Counted'
      BY <1>1, <2>1, <2>2, NothingSent DEF Phases, Counted
    <2>5. HandlesAreReal' /\ OwnAddress'
      BY <1>1 DEF IInv, HandlesAreReal, Distinct, OwnAddress, client
    <2>6. \A n : Taken(n)' = Taken(n)
      BY <1>1, SameTaken DEF client
    <2>7. Once'
      BY <2>1, <2>6 DEF IInv, Once
    <2>8. Reach'
      <3>1. \A n : Safe(n)' = Safe(n)
        BY <1>1 DEF Safe, machine, client, Path, Parent, ListsOf, List
      <3> QED BY <2>1, <2>6, <3>1 DEF IInv, Reach
    <2> QED BY <1>1, <2>3, <2>4, <2>5, <2>7, <2>8, NothingSent DEF IInv
  <1> QED BY <1>3, <1>4

LEMMA FillStep ==
  ASSUME IInv, Fill
  PROVE  IInv'
  <1>1. /\ pc = "open" /\ work # <<>> /\ Head(work).op = "list" /\ asked # 0 /\ asked' = 0
        /\ UNCHANGED <<machine, bound, pc, client, update>>
    BY DEF Fill, Listing
  <1>2. PICK hs \in Fillings(Head(work), asked) : work' = Below(Head(work), hs) \o Tail(work)
    BY DEF Fill
  <1>3. Types /\ Counted /\ Head(work) \in Calls
    BY <1>1, HeadTailProperties DEF IInv, Types
  <1>4. \A n : Safe(n)' = Safe(n)
    BY <1>1 DEF Safe, machine, client, Path, Parent, ListsOf, List
  <1> DEFINE B == Below(Head(work), hs)
  <1>5. /\ B \in Seq(Calls)
        /\ \A n \in Things : \A i \in DOMAIN B : B[i] \in Way(n) => Head(work) \in Way(n)
        /\ \A n \in Things : \A i, j \in DOMAIN B : B[i] \in Way(n) /\ B[j] \in Way(n) => i = j
        /\ \A n \in Things : Safe(n)' /\ Head(work) \in Way(n) => \E i \in DOMAIN B : B[i] \in Way(n)
    BY <1>1, <1>3, <1>4, BelowFacts
  <1> HIDE DEF B
  <1>6. work' = B \o Tail(work)
    BY <1>2 DEF B
  <1> QED BY <1>1, <1>5, <1>6, CallStep DEF client

LEMMA ListFailsStep ==
  ASSUME IInv, ListFails
  PROVE  IInv'
  <1> DEFINE x == Head(work)
  <1>1. /\ pc = "open" /\ work # <<>> /\ x.op = "list" /\ asked' = 0 /\ failed' = failed \cup {x}
        /\ UNCHANGED <<machine, bound, devs, pci, ents, update>>
    BY DEF ListFails, Listing
  <1>2. work \in Seq(Calls) /\ x \in Calls
    BY <1>1, HeadTailProperties DEF IInv, Types
  <1>3. \A n \in Things : x \in Way(n) => ~Safe(n)'     \* the list has failed
    <2>1. ASSUME NEW n \in Things, x \in Way(n)
          PROVE  x \in ListsOf(n)
      <3>1. ASSUME NEW p \in Drivers, x = List(p, "device")
            PROVE  x \in ListsOf(n)
        BY <2>1, <3>1, Ways, Hangs
      <3>2. ASSUME NEW d \in Devices, NEW k \in Kinds, x = List(d, k)
            PROVE  x \in ListsOf(n)
        BY <2>1, <3>2, Ways, Hangs
      <3> QED BY <1>1, <1>2, <3>1, <3>2, Hangs, CallForms
    <2>2. \A n : ListsOf(n)' = ListsOf(n)
      BY DEF ListsOf, Path, Parent, List
    <2> QED BY <1>1, <2>1, <2>2 DEF Safe
  <1>4. CASE x.kind # "driver"
    <2>1. work' = <<>> \o Tail(work) /\ <<>> \in Seq(Calls) /\ DOMAIN <<>> = {} /\ pc' = pc
      BY <1>1, <1>2, <1>4, EmptyWork DEF ListFails
    <2> QED BY <1>1, <1>3, <2>1, CallStep
  <1>5. CASE x.kind = "driver"
    <2>1. work' = work /\ pc' = "off"
      BY <1>5 DEF ListFails
    <2>2. Types' /\ Phases' /\ Counted'
      BY <1>1, <2>1, Constants, NothingSent DEF IInv, Types, Phases, Counted, machine
    <2>3. HandlesAreReal' /\ OwnAddress'
      BY <1>1 DEF IInv, HandlesAreReal, Distinct, OwnAddress
    <2>4. \A n : Taken(n)' = Taken(n)
      BY <1>1, SameTaken
    <2>5. Once'
      BY <2>1, <2>4 DEF IInv, Once
    <2>6. Reach'
      <3>1. \A n : Safe(n)' => Safe(n)
        BY <1>1 DEF Safe, machine, Path, Parent, ListsOf, List
      <3> QED BY <2>1, <2>4, <3>1 DEF IInv, Reach
    <2> QED BY <1>1, <2>2, <2>3, <2>5, <2>6, NothingSent DEF IInv
  <1> QED BY <1>4, <1>5

-----------------------------------------------------------------------------
(* What Open keeps.                                                        *)

LEMMA EnumerateStep ==
  ASSUME IInv, EnumerateDevice
  PROVE  IInv'
  <1> DEFINE d == Head(work).of
             B == [k \in DOMAIN KindOrder |-> List(d, KindOrder[k])]
  <1>1. /\ pc = "open" /\ work # <<>> /\ Head(work).op = "device"
        /\ devs' = Append(devs, d) /\ \E p \in {0, d} : pci' = [pci EXCEPT ![d] = p]
        /\ UNCHANGED <<machine, bound, pc, asked, ents, failed, update>>
    BY DEF EnumerateDevice
  <1>2. work' = B \o Tail(work)
    BY DEF EnumerateDevice
  <1>3. work \in Seq(Calls) /\ Head(work) \in Calls /\ devs \in Seq(Devices)
    BY <1>1, HeadTailProperties DEF IInv, Types
  <1>4. d \in Devices /\ Head(work) = Device(d) /\ d \in Things
    BY <1>1, <1>3, CallForms DEF Things
  <1>5. /\ B \in Seq(Calls) /\ DOMAIN B = DOMAIN KindOrder
        /\ \A k \in DOMAIN B : KindOrder[k] \in Kinds /\ B[k] = List(d, KindOrder[k])
    <2>1. /\ DOMAIN KindOrder = 1..Len(KindOrder) /\ Len(KindOrder) \in Nat
          /\ \A k \in DOMAIN KindOrder : KindOrder[k] \in Kinds
      BY Constants
    <2>2. \A k \in DOMAIN KindOrder : List(d, KindOrder[k]) \in Calls
      BY <1>4, <2>1 DEF Calls
    <2> QED BY <2>1, <2>2, SeqDef
  <1> HIDE DEF B
  <1>6. asked = 0
    BY <1>1 DEF IInv, Phases
  <1>7. \A n \in Things : Device(d) \in Way(n) <=> d \in Path(n)
    BY <1>4, Ways
  <1>8. ~Taken(d)
    <2>1. d \in Path(d) /\ work[1] = Device(d) /\ 1 \in DOMAIN work
      BY <1>2, <1>3, <1>4, <1>5, <1>1, Replaced, Hierarchy DEF Path
    <2> QED BY <1>4, <1>7, <2>1 DEF IInv, Once
  <1>9. /\ devs' \in Seq(Devices) /\ DOMAIN devs' = DOMAIN devs \cup {Len(devs) + 1}
        /\ Len(devs) + 1 \notin DOMAIN devs /\ devs'[Len(devs) + 1] = d
        /\ \A i \in DOMAIN devs : devs'[i] = devs[i]
    BY <1>1, <1>3, <1>4, AppendProperties
  <1>10. Types'
    <2>1. pci' \in [Devices -> Devices \cup {0}]
      BY <1>1, <1>4 DEF IInv, Types
    <2>2. work' \in Seq(Calls)
      BY <1>1, <1>2, <1>3, <1>5, Replaced
    <2> QED BY <1>1, <1>9, <2>1, <2>2 DEF IInv, Types, machine
  <1>11. Phases' /\ Counted'
    BY <1>1, <1>6, NothingSent DEF Phases, Counted
  <1>12. HandlesAreReal'
    <2>1. \A i \in DOMAIN devs : devs[i] # d
      BY <1>4, <1>8 DEF Taken
    <2>2. Distinct(devs')
      BY <1>9, <2>1 DEF IInv, HandlesAreReal, Distinct
    <2> QED BY <1>1, <2>2 DEF IInv, HandlesAreReal
  <1>13. OwnAddress'
    BY <1>1, <1>4 DEF IInv, OwnAddress, Types
  <1>14. \A n \in Things : Taken(n)' <=> Taken(n) \/ n = d
    <2>1. ASSUME NEW n \in Devices
          PROVE  Taken(n)' <=> Taken(n) \/ n = d
      BY <1>9, <2>1 DEF Taken
    <2>2. ASSUME NEW n \in Handles
          PROVE  Taken(n)' = Taken(n) /\ n # d
      BY <1>1, <1>4, <2>2, Hierarchy DEF Taken
    <2> QED BY <2>1, <2>2 DEF Things
  <1>15. \A n \in Things : \A k \in DOMAIN B :
           B[k] \in Way(n) <=> n \in Handles /\ World[n].parent = d /\ World[n].kind = KindOrder[k]
    BY <1>4, <1>5, Ways
  <1>16. \A n \in Things : n \in Handles /\ World[n].parent = d => d \in Path(n)
    BY <1>4, Hierarchy, Constants DEF Path, Parent
  <1>17. Once'
    <2>1. \A n \in Things : \A i \in DOMAIN B : B[i] \in Way(n) => Head(work) \in Way(n)
      BY <1>4, <1>7, <1>15, <1>16
    <2>2. \A n \in Things : \A i, j \in DOMAIN B : B[i] \in Way(n) /\ B[j] \in Way(n) => i = j
      BY <1>5, <1>15, Constants DEF Distinct
    <2>3. Head(work) \in Way(d) /\ \A i \in DOMAIN B : B[i] \notin Way(d)
      <3>1. d \in Path(d) /\ d \notin Handles
        BY <1>4, Hierarchy, Constants DEF Path
      <3> QED BY <1>4, <1>7, <1>15, <3>1
    <2>4. \A n \in Things : Taken(n)' => Taken(n) \/ ( Head(work) \in Way(n)
                                                        /\ \A i \in DOMAIN B : B[i] \notin Way(n) )
      BY <1>14, <2>3
    <2> QED BY <1>1, <1>2, <1>3, <1>5, <2>1, <2>2, <2>4, OnceStep DEF IInv
  <1>18. Reach'
    <2>1. ASSUME NEW n \in Things, Head(work) \in Way(n)
          PROVE  Taken(n)' \/ \E k \in DOMAIN B : B[k] \in Way(n)
      <3>1. d \in Path(n)
        BY <1>4, <1>7, <2>1
      <3>2. CASE n \in Devices
        BY <1>4, <1>14, <3>1, <3>2, Hierarchy DEF Path, Parent
      <3>3. CASE n \in Handles
        <4>1. World[n].parent = d /\ World[n].kind \in Kinds
          BY <1>4, <3>1, <3>3, Hierarchy DEF Path, Parent
        <4>2. \E k \in DOMAIN KindOrder : KindOrder[k] = World[n].kind
          BY <4>1 DEF Kinds
        <4> QED BY <1>5, <1>15, <3>3, <4>1, <4>2
      <3> QED BY <3>2, <3>3 DEF Things
    <2>2. \A n \in Things : Taken(n) => Taken(n)'
      BY <1>14
    <2> QED BY <1>1, <1>2, <1>3, <1>5, <2>1, <2>2, ReachStep DEF IInv
  <1> QED BY <1>1, <1>10, <1>11, <1>12, <1>13, <1>17, <1>18, NothingSent DEF IInv

LEMMA PropertiesStep ==
  ASSUME IInv, Properties
  PROVE  IInv'
  <1> DEFINE h == Head(work).of
             d == World[h].parent
             k == World[h].kind
             e == ents[d][k]
  <1>1. /\ pc = "open" /\ work # <<>> /\ Head(work).op = "props" /\ work' = Tail(work)
        /\ UNCHANGED <<machine, bound, pc, asked, devs, pci, failed, update>>
    BY DEF Properties
  <1>2. PICK ok \in BOOLEAN : ents' = [ents EXCEPT ![d][k] = Append(e, Entry(h, ok))]
    BY DEF Properties
  <1>3. work \in Seq(Calls) /\ Head(work) \in Calls
    BY <1>1, HeadTailProperties DEF IInv, Types
  <1>4. h \in Handles /\ Head(work) = Props(h) /\ d \in Devices /\ k \in Kinds /\ h \in Things
        /\ h \notin Devices
    BY <1>1, <1>3, CallForms, Hierarchy DEF Things
  <1>5. asked = 0
    BY <1>1 DEF IInv, Phases
  <1>6. <<>> \in Seq(Calls) /\ work' = <<>> \o Tail(work) /\ DOMAIN <<>> = {}
    BY <1>1, <1>3, EmptyWork
  <1>7. ~Taken(h)
    <2>1. work[1] = Props(h) /\ 1 \in DOMAIN work /\ Props(h) \in Way(h)
      BY <1>1, <1>3, <1>4, <1>6, Replaced, Ways
    <2> QED BY <1>4, <2>1 DEF IInv, Once
  <1> DEFINE new == ents'[d][k]
  <1>8. ents \in [Devices -> [Kinds -> Seq(Kept)]]
    BY DEF IInv, Types
  <1>9. Entry(h, ok) \in Kept /\ Entry(h, ok).node = h
    BY <1>4 DEF Kept, Entry
  <1>10. /\ new = Append(e, Entry(h, ok)) /\ ents' \in [Devices -> [Kinds -> Seq(Kept)]]
         /\ \A dd \in Devices, kk \in Kinds : ~(dd = d /\ kk = k) => ents'[dd][kk] = ents[dd][kk]
    <2>1. e \in Seq(Kept) /\ Append(e, Entry(h, ok)) \in Seq(Kept)
      BY <1>4, <1>8, <1>9, AppendProperties
    <2> HIDE DEF e, d, k, h
    <2> QED BY <1>2, <1>4, <1>8, <2>1
  <1>11. /\ DOMAIN new = DOMAIN e \cup {Len(e) + 1} /\ Len(e) + 1 \notin DOMAIN e
         /\ new[Len(e) + 1].node = h /\ \A i \in DOMAIN e : new[i] = e[i]
    <2>1. e \in Seq(Kept) /\ new = Append(e, Entry(h, ok))
      BY <1>4, <1>8, <1>10
    <2> HIDE DEF e, new
    <2>2. /\ Len(new) = Len(e) + 1 /\ new[Len(e) + 1] = Entry(h, ok)
          /\ \A i \in 1..Len(e) : new[i] = e[i]
          /\ DOMAIN new = 1..Len(new) /\ DOMAIN e = 1..Len(e) /\ Len(e) \in Nat
      BY <1>9, <2>1, AppendProperties
    <2> QED BY <1>9, <2>2
  <1> HIDE DEF e, new
  <1>12. Types'
    BY <1>1, <1>3, <1>6, <1>10, Replaced DEF IInv, Types, machine
  <1>13. Phases' /\ Counted'
    BY <1>1, <1>5, NothingSent DEF Phases, Counted
  <1>14. HandlesAreReal'
    <2>1. \A i \in DOMAIN e : e[i].node # h
      BY <1>4, <1>7 DEF Taken, e
    <2>2. /\ \A i, j \in DOMAIN e : e[i].node = e[j].node => i = j
          /\ \A i \in DOMAIN e : World[e[i].node].parent = d /\ World[e[i].node].kind = k
      BY <1>4 DEF IInv, HandlesAreReal, e
    <2>3. /\ \A i, j \in DOMAIN new : new[i].node = new[j].node => i = j
          /\ \A i \in DOMAIN new : World[new[i].node].parent = d /\ World[new[i].node].kind = k
      BY <1>11, <2>1, <2>2
    <2>4. ASSUME NEW dd \in Devices, NEW kk \in Kinds
          PROVE  LET x == ents'[dd][kk] IN
                 /\ \A i, j \in DOMAIN x : x[i].node = x[j].node => i = j
                 /\ \A i \in DOMAIN x : World[x[i].node].parent = dd /\ World[x[i].node].kind = kk
      <3>1. CASE dd = d /\ kk = k
        BY <2>3, <3>1 DEF new
      <3>2. CASE ~(dd = d /\ kk = k)
        <4> DEFINE y == ents[dd][kk]
        <4>1. ents'[dd][kk] = y
          BY <1>10, <3>2
        <4>2. /\ \A i, j \in DOMAIN y : y[i].node = y[j].node => i = j
              /\ \A i \in DOMAIN y : World[y[i].node].parent = dd /\ World[y[i].node].kind = kk
          BY DEF IInv, HandlesAreReal
        <4> HIDE DEF y
        <4> QED BY <4>1, <4>2
      <3> QED BY <3>1, <3>2
    <2> QED BY <1>1, <2>4 DEF IInv, HandlesAreReal, Distinct
  <1>15. OwnAddress'
    BY <1>1 DEF IInv, OwnAddress
  <1>16. \A n \in Things : Taken(n)' <=> Taken(n) \/ n = h
    <2>1. ASSUME NEW n \in Devices
          PROVE  Taken(n)' = Taken(n) /\ n # h
      BY <1>1, <1>4 DEF Taken
    <2>2. ASSUME NEW n \in Handles
          PROVE  Taken(n)' <=> Taken(n) \/ n = h
      <3>1. World[n].parent \in Devices /\ World[n].kind \in Kinds /\ n \notin Devices
        BY Hierarchy
      <3>2. CASE World[n].parent = d /\ World[n].kind = k
        <4>1. Taken(n) <=> \E i \in DOMAIN e : e[i].node = n
          BY <3>1, <3>2 DEF Taken, e
        <4>2. Taken(n)' <=> \E i \in DOMAIN new : new[i].node = n
          BY <3>1, <3>2 DEF Taken, new
        <4> QED BY <1>11, <4>1, <4>2
      <3>3. CASE ~(World[n].parent = d /\ World[n].kind = k)
        BY <1>10, <3>1, <3>3 DEF Taken
      <3> QED BY <3>2, <3>3
    <2> QED BY <2>1, <2>2 DEF Things
  <1>17. \A n \in Things : Head(work) \in Way(n) <=> h = n
    BY <1>4, Ways
  <1>18. Once'
    BY <1>1, <1>3, <1>6, <1>16, <1>17, OnceStep DEF IInv
  <1>19. Reach'
    BY <1>1, <1>3, <1>6, <1>16, <1>17, ReachStep DEF IInv
  <1> QED BY <1>1, <1>12, <1>13, <1>14, <1>15, <1>18, <1>19, NothingSent DEF IInv

-----------------------------------------------------------------------------
(* Before and after Open.                                                  *)

(* A step that leaves alone what Open has to do and has found. *)
LEMMA OutsideStep ==
  ASSUME IInv, UNCHANGED <<machine, work, asked, client>>
  PROVE  /\ HandlesAreReal' /\ Once' /\ Reach' /\ Counted' /\ OwnAddress'
         /\ Positions' = Positions
         /\ \A m : (m \in meaning => \E d \in Devices, k \in Kinds : \E i \in DOMAIN ents[d][k] :
                     /\ m.series.kind = k /\ m.series.pci = pci[d] /\ m.node = ents[d][k][i].node
                     /\ k \in Indexed => m.series.key = i)
  <1>1. \A n : Taken(n)' = Taken(n)
    BY SameTaken DEF client
  <1>2. \A n : Safe(n)' = Safe(n)
    BY DEF Safe, machine, client, Path, Parent, ListsOf, List
  <1>3. Once' /\ Reach'
    BY <1>1, <1>2 DEF IInv, Once, Reach
  <1>4. Positions' = Positions
    BY DEF Positions, client
  <1>5. HandlesAreReal' /\ OwnAddress'
    BY DEF IInv, HandlesAreReal, Distinct, OwnAddress, client
  <1>6. Counted'
    BY DEF IInv, Counted, Children, machine
  <1> QED BY <1>3, <1>4, <1>5, <1>6 DEF IInv, Positioned

LEMMA StartStep ==
  ASSUME IInv, Load \/ ZesInit \/ Opened
  PROVE  IInv'
  <1>1. UNCHANGED <<machine, work, asked, client, update>> /\ pc # "ready"
    BY DEF Load, ZesInit, Opened
  <1>2. pc' \in {"load", "init", "open", "ready", "off"} /\ (pc' = "ready" => work = <<>>)
    BY DEF Load, ZesInit, Opened
  <1>3. bound' \subseteq {Symbols[i] : i \in DOMAIN Symbols}
    <2>1. \A n \in 0..Len(Symbols) : 1..n \subseteq DOMAIN Symbols
      BY Constants
    <2> QED BY <2>1 DEF Load, ZesInit, Opened, IInv, Types
  <1>4. Types'
    BY <1>1, <1>2, <1>3 DEF IInv, Types, machine, client
  <1>5. Phases'
    BY <1>1, <1>2 DEF IInv, Phases, update
  <1>6. meaning' = {} /\ todo' = {}
    BY <1>1 DEF IInv, Phases, update
  <1> QED BY <1>1, <1>4, <1>5, <1>6, OutsideStep DEF IInv, Positioned, ToRead

(* What a position stands for. *)
LEMMA PositionFacts ==
  ASSUME IInv, NEW p \in Positions
  PROVE  /\ devs[p.dev] \in Devices /\ KindOrder[p.kind] \in Kinds
         /\ p.pos \in DOMAIN ents[devs[p.dev]][KindOrder[p.kind]]
  <1>1. PICK d \in DOMAIN devs, k \in DOMAIN KindOrder :
          \E i \in DOMAIN ents[devs[d]][KindOrder[k]] : p = [dev |-> d, kind |-> k, pos |-> i]
    BY DEF Positions
  <1>2. devs[d] \in Devices /\ KindOrder[k] \in Kinds
    BY Constants DEF IInv, Types
  <1> QED BY <1>1, <1>2

LEMMA UpdateStep ==
  ASSUME IInv, StartUpdate \/ \E p \in todo : Read(p) \/ ReadFails(p)
  PROVE  IInv'
  <1>1. UNCHANGED <<machine, bound, pc, work, asked, client>> /\ pc = "ready"
    BY DEF StartUpdate, Read, ReadFails, AtHand
  <1>2. Types' /\ Phases'
    BY <1>1 DEF IInv, Types, Phases, machine, client
  <1>3. ToRead'
    BY <1>1, OutsideStep DEF IInv, ToRead, StartUpdate, Read, ReadFails
  <1>4. Positioned'
    <2>1. CASE meaning' = meaning
      BY <1>1, <2>1 DEF IInv, Positioned, client
    <2>2. ASSUME NEW p \in todo, Read(p)
          PROVE  Positioned'
      <3> DEFINE m == [series |-> Series(p), node |-> EntryAt(p).node]
      <3>1. meaning' = meaning \cup {m} /\ p \in Positions
        BY <2>2 DEF Read, IInv, ToRead
      <3>2. /\ m.node = ents[devs[p.dev]][KindOrder[p.kind]][p.pos].node
            /\ m.series.kind = KindOrder[p.kind] /\ m.series.pci = pci[devs[p.dev]]
            /\ KindOrder[p.kind] \in Indexed => m.series.key = p.pos
        BY DEF Series, EntryAt
      <3> HIDE DEF m
      <3>3. \E d \in Devices, k \in Kinds : \E i \in DOMAIN ents[d][k] :
              /\ m.series.kind = k /\ m.series.pci = pci[d] /\ m.node = ents[d][k][i].node
              /\ k \in Indexed => m.series.key = i
        BY <3>1, <3>2, PositionFacts
      <3> QED BY <1>1, <3>1, <3>3 DEF IInv, Positioned, client
    <2> QED BY <2>1, <2>2 DEF StartUpdate, ReadFails
  <1> QED BY <1>1, <1>2, <1>3, <1>4, OutsideStep DEF IInv

-----------------------------------------------------------------------------
LEMMA IInvStep == IInv /\ [Next]_vars => IInv'
  <1> SUFFICES ASSUME IInv, [Next]_vars PROVE IInv'
    OBVIOUS
  <1>1. CASE UNCHANGED vars
    <2>1. UNCHANGED <<machine, bound, pc, work, asked, client, update>>
      BY <1>1 DEF vars
    <2>2. Types' /\ Phases'
      BY <2>1 DEF IInv, Types, Phases, machine, client, update
    <2>3. Positioned' /\ ToRead'
      BY <2>1, OutsideStep DEF IInv, Positioned, ToRead, update, client
    <2> QED BY <2>1, <2>2, <2>3, OutsideStep DEF IInv
  <1>2. CASE Next
    BY <1>2, StartStep, CountStep, FillStep, ListFailsStep, EnumerateStep, PropertiesStep,
       UpdateStep, ChangeStep DEF Next
  <1> QED BY <1>1, <1>2

(* The invariant from which the others follow: Open has at most one call   *)
(* to make on the way to anything, none to what it keeps, and one at least *)
(* to what it must still find.                                             *)
THEOREM InductiveInvariant == Spec => []IInv
  BY InitInv, IInvStep, PTL DEF Spec

(* Every variable keeps its type: no null handle is ever kept. *)
THEOREM TypeCorrect == Spec => []TypeOK
  <1>1. IInv => TypeOK
    <2> SUFFICES ASSUME IInv PROVE TypeOK
      OBVIOUS
    <2>1. ASSUME NEW d \in Devices, NEW k \in Kinds, NEW i \in DOMAIN ents[d][k]
          PROVE  ents[d][k][i].node \in Nodes
      <3>1. ents[d][k][i] \in Kept
        BY DEF IInv, Types
      <3> QED BY <3>1 DEF Kept, Entry, Handles
    <2> QED BY <2>1 DEF IInv, Types, TypeOK
  <1> QED BY InductiveInvariant, <1>1, PTL

(* No device or handle is taken twice, and each handle is kept where it    *)
(* belongs, however lists fail, shrink and grow.                           *)
THEOREM HandlesStayReal == Spec => []HandlesAreReal
  <1>1. IInv => HandlesAreReal
    BY DEF IInv
  <1> QED BY InductiveInvariant, <1>1, PTL

(* Everything that exists and hangs on lists that neither failed nor       *)
(* changed is served, whatever became of its neighbours.                   *)
THEOREM FailuresAreLocal == Spec => []OthersAreFound
  <1>1. IInv => OthersAreFound
    <2> SUFFICES ASSUME IInv, pc = "ready", NEW n \in here, Path(n) \subseteq here,
                        ListsOf(n) \cap (failed \cup touched) = {}
                 PROVE  CASE World[n].kind = "driver" -> TRUE
                          [] World[n].kind = "device" -> \E i \in DOMAIN devs : devs[i] = n
                          [] OTHER -> LET e == ents[World[n].parent][World[n].kind]
                                      IN \E i \in DOMAIN e : e[i].node = n
      BY DEF OthersAreFound
    <2>1. n \in Nodes /\ DOMAIN work = {}
      BY DEF IInv, Types, Phases
    <2>2. n \in Things => Taken(n)
      BY <2>1 DEF IInv, Reach, Safe
    <2>3. World[n].kind = "driver" <=> n \in Drivers
      BY <2>1 DEF Drivers
    <2>4. World[n].kind = "device" <=> n \in Devices
      BY <2>1 DEF Devices
    <2> QED BY <2>1, <2>2, <2>3, <2>4, Hierarchy DEF Taken, Things
  <1> QED BY InductiveInvariant, <1>1, PTL

(* A series labelled by position means the same handle in every scrape. *)
THEOREM PositionsKeepTheirMeaning == Spec => []IndexedSeriesKeepTheirHandle
  <1>1. IInv => IndexedSeriesKeepTheirHandle
    <2> SUFFICES ASSUME IInv, NEW a \in meaning, NEW b \in meaning, a.series = b.series,
                        a.series.kind \in Indexed, a.series.pci # 0
                 PROVE  a.node = b.node
      BY DEF IndexedSeriesKeepTheirHandle
    <2>1. PICK d \in Devices, k \in Kinds : \E i \in DOMAIN ents[d][k] :
            /\ a.series.kind = k /\ a.series.pci = pci[d] /\ a.node = ents[d][k][i].node
            /\ k \in Indexed => a.series.key = i
      BY DEF IInv, Positioned
    <2>2. PICK f \in Devices, l \in Kinds : \E i \in DOMAIN ents[f][l] :
            /\ b.series.kind = l /\ b.series.pci = pci[f] /\ b.node = ents[f][l][i].node
            /\ l \in Indexed => b.series.key = i
      BY DEF IInv, Positioned
    <2>3. k = l /\ d = f
      BY <2>1, <2>2 DEF IInv, OwnAddress
    <2> QED BY <2>1, <2>2, <2>3
  <1> QED BY InductiveInvariant, <1>1, PTL

-----------------------------------------------------------------------------
(* UniqueSeries is violated by a card with two groups of one type.  Such a *)
(* card is all it takes: with types that tell handles apart it holds.      *)
TypesApart ==
  \A g, h \in Handles :
    /\ World[g].parent = World[h].parent /\ World[g].kind = World[h].kind
    /\ World[g].sub = World[h].sub /\ World[g].type = World[h].type
    /\ World[g].kind \notin Indexed
    => g = h

(* What an Update has sent is about positions it has passed, each once. *)
Message(p) == [series |-> Series(p), node |-> EntryAt(p).node]
SentOnce ==
  /\ pc # "ready" => sent = <<>>
  /\ sent \in Seq({Message(p) : p \in Positions})
  /\ \A i \in DOMAIN sent : \E p \in Positions \ todo : sent[i] = Message(p)
  /\ \A i, j \in DOMAIN sent : sent[i].node = sent[j].node => i = j

LEMMA EntryFacts ==
  ASSUME IInv, NEW p \in Positions
  PROVE  /\ EntryAt(p) \in Kept
         /\ World[EntryAt(p).node].parent = devs[p.dev]
         /\ World[EntryAt(p).node].kind = KindOrder[p.kind]
  <1> DEFINE d == devs[p.dev]
             k == KindOrder[p.kind]
  <1>1. d \in Devices /\ k \in Kinds /\ p.pos \in DOMAIN ents[d][k]
    BY PositionFacts
  <1>2. ents[d][k] \in Seq(Kept) /\ EntryAt(p) = ents[d][k][p.pos]
    BY <1>1 DEF IInv, Types, EntryAt
  <1> HIDE DEF d, k
  <1>3. \A i \in DOMAIN ents[d][k] : World[ents[d][k][i].node].parent = d
                                      /\ World[ents[d][k][i].node].kind = k
    BY <1>1 DEF IInv, HandlesAreReal
  <1>4. /\ EntryAt(p) \in Kept
        /\ World[EntryAt(p).node].parent = d /\ World[EntryAt(p).node].kind = k
    <2> DEFINE e == ents[d][k]
    <2>1. e \in Seq(Kept) /\ p.pos \in DOMAIN e /\ EntryAt(p) = e[p.pos]
      BY <1>1, <1>2
    <2>2. World[e[p.pos].node].parent = d /\ World[e[p.pos].node].kind = k
      BY <1>1, <1>3
    <2> HIDE DEF e
    <2> QED BY <2>1, <2>2
  <1> QED BY <1>4 DEF d, k

LEMMA PlacesApart ==
  ASSUME IInv, NEW p \in Positions, NEW q \in Positions, EntryAt(p).node = EntryAt(q).node
  PROVE  p = q
  <1>1. devs[p.dev] = devs[q.dev] /\ KindOrder[p.kind] = KindOrder[q.kind]
    BY EntryFacts
  <1>2. \A r \in Positions : /\ r.dev \in DOMAIN devs /\ r.kind \in DOMAIN KindOrder
                             /\ r = [dev |-> r.dev, kind |-> r.kind, pos |-> r.pos]
    BY DEF Positions
  <1>3. p.dev = q.dev /\ p.kind = q.kind
    BY <1>1, <1>2, Constants DEF IInv, HandlesAreReal, Distinct
  <1>4. p.pos = q.pos
    <2> DEFINE d == devs[p.dev]
               k == KindOrder[p.kind]
    <2>1. /\ d \in Devices /\ k \in Kinds
          /\ p.pos \in DOMAIN ents[d][k] /\ q.pos \in DOMAIN ents[d][k]
          /\ ents[d][k][p.pos].node = ents[d][k][q.pos].node
      BY <1>1, PositionFacts DEF EntryAt
    <2> HIDE DEF d, k
    <2> QED BY <2>1 DEF IInv, HandlesAreReal
  <1> QED BY <1>2, <1>3, <1>4

LEMMA SentNothing ==
  ASSUME SentOnce, pc # "ready", UNCHANGED update
  PROVE  SentOnce'
  BY DEF SentOnce, update

LEMMA SentOnceStep == IInv /\ SentOnce /\ [Next]_vars => SentOnce'
  <1> SUFFICES ASSUME IInv, SentOnce, [Next]_vars PROVE SentOnce'
    OBVIOUS
  <1>1. CASE UNCHANGED vars
    <2>1. UNCHANGED <<pc, client, update>>
      BY <1>1 DEF vars
    <2>2. Positions' = Positions /\ \A p : Message(p)' = Message(p)
      BY <2>1 DEF Positions, Message, Series, EntryAt, client
    <2> QED BY <2>1, <2>2 DEF SentOnce, update
  <1>2. CASE \/ Load \/ ZesInit \/ Count \/ Fill \/ ListFails \/ EnumerateDevice
             \/ Properties \/ Opened \/ \E n \in Nodes : Change(n)
    <2>1. pc # "ready" /\ UNCHANGED update
      BY <1>2 DEF Load, ZesInit, Count, Fill, ListFails, EnumerateDevice, Properties,
                  Opened, Change, Listing
    <2> QED BY <2>1, SentNothing
  <1>3. CASE StartUpdate \/ \E p \in todo : Read(p) \/ ReadFails(p)
    <2> DEFINE M == {Message(p) : p \in Positions}
    <2>1. UNCHANGED <<pc, client>> /\ pc = "ready"
      BY <1>3 DEF StartUpdate, Read, ReadFails, AtHand
    <2>2. Positions' = Positions /\ \A p : Message(p)' = Message(p)
      BY <2>1 DEF Positions, Message, Series, EntryAt, client
    <2>4. CASE StartUpdate
      <3>1. sent' = <<>>
        BY <2>4 DEF StartUpdate
      <3> QED BY <3>1 DEF SentOnce
    <2>5. ASSUME NEW p \in todo, ReadFails(p) PROVE SentOnce'
      BY <2>1, <2>2, <2>5 DEF SentOnce, ReadFails
    <2>6. ASSUME NEW p \in todo, Read(p) PROVE SentOnce'
      <3>1. p \in Positions /\ sent' = Append(sent, Message(p)) /\ todo' = todo \ {p}
        BY <2>6 DEF Read, Message, IInv, ToRead
      <3>2. \A i \in DOMAIN sent : sent[i].node # EntryAt(p).node
        BY <3>1, PlacesApart DEF SentOnce, Message
      <3> HIDE DEF M
      <3>3. sent \in Seq(M) /\ Message(p) \in M
        BY <3>1 DEF SentOnce, M
      <3>4. /\ sent' \in Seq(M) /\ DOMAIN sent' = 1..(Len(sent) + 1) /\ DOMAIN sent = 1..Len(sent)
            /\ Len(sent) \in Nat /\ sent'[Len(sent) + 1] = Message(p)
            /\ \A i \in DOMAIN sent : sent'[i] = sent[i]
        BY <3>1, <3>3
      <3>5. \A i \in DOMAIN sent' : \E q \in Positions \ todo' : sent'[i] = Message(q)
        BY <3>1, <3>4 DEF SentOnce
      <3>6. \A i, j \in DOMAIN sent' : sent'[i].node = sent'[j].node => i = j
        <4>1. Message(p).node = EntryAt(p).node
          BY DEF Message
        <4> QED BY <3>2, <3>4, <4>1 DEF SentOnce
      <3>7. pc' # "ready" => sent' = <<>>
        BY <2>1
      <3> QED BY <2>2, <3>4, <3>5, <3>6, <3>7 DEF SentOnce, M
    <2> QED BY <1>3, <2>4, <2>5, <2>6
  <1> QED BY <1>1, <1>2, <1>3 DEF Next

(* No Update sends a series twice, whatever failed while Open ran, unless  *)
(* two handles of a device differ neither in subdevice nor in type.        *)
THEOREM OnlyEqualTypesCollide == Spec => [](TypesApart => UniqueSeries)
  <1>1. Init => SentOnce
    BY DEF Init, SentOnce
  <1>2. IInv /\ SentOnce => (TypesApart => UniqueSeries)
    <2> SUFFICES ASSUME IInv, SentOnce, TypesApart, NEW i \in DOMAIN sent, NEW j \in DOMAIN sent,
                        sent[i].series = sent[j].series, sent[i].series.pci # 0,
                        sent[i].series.key # "unknown"
                 PROVE  i = j
      BY DEF UniqueSeries
    <2>1. PICK p \in Positions : sent[i] = Message(p)
      BY DEF SentOnce
    <2>2. PICK q \in Positions : sent[j] = Message(q)
      BY DEF SentOnce
    <2>3. Series(p) = Series(q) /\ Series(p).pci # 0 /\ Series(p).key # "unknown"
      BY <2>1, <2>2 DEF Message
    <2>4. devs[p.dev] = devs[q.dev] /\ KindOrder[p.kind] = KindOrder[q.kind]
      BY <2>3, PositionFacts DEF Series, IInv, OwnAddress
    <2>5. EntryAt(p).node = EntryAt(q).node
      <3>1. CASE KindOrder[p.kind] \in Indexed
        BY <2>3, <2>4, <3>1 DEF Series, EntryAt
      <3>2. CASE KindOrder[p.kind] \notin Indexed
        <4>1. EntryAt(p).type = EntryAt(q).type /\ EntryAt(p).type # "unknown"
                /\ EntryAt(p).sub = EntryAt(q).sub
          BY <2>3, <2>4, <3>2 DEF Series
        <4>2. \A r \in Positions : /\ EntryAt(r) \in Kept
                                   /\ World[EntryAt(r).node].parent = devs[r.dev]
                                   /\ World[EntryAt(r).node].kind = KindOrder[r.kind]
          BY EntryFacts
        <4>3. \A r \in Positions : EntryAt(r).type # "unknown" =>
                /\ EntryAt(r).node \in Handles
                /\ EntryAt(r).sub = World[EntryAt(r).node].sub
                /\ EntryAt(r).type = World[EntryAt(r).node].type
          BY <4>2 DEF Kept, Entry
        <4> QED BY <2>4, <3>2, <4>1, <4>2, <4>3 DEF TypesApart
      <3> QED BY <3>1, <3>2
    <2> QED BY <2>1, <2>2, <2>5 DEF SentOnce, Message
  <1> QED BY InductiveInvariant, SentOnceStep, <1>1, <1>2, PTL DEF Spec
=============================================================================
