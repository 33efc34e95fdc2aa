---------------------------- MODULE FdinfoProofs ----------------------------
(***************************************************************************)
(* Proofs about Fdinfo, for any processes, descriptors and cap: a scan     *)
(* lists the right processes, what it adds up for them is a use they had   *)
(* meanwhile, and the cap keeps those with most engine time, the same ones *)
(* in whatever order a map and a sort may leave them.                      *)
(***************************************************************************)
EXTENDS Fdinfo, FiniteSetTheorems, TLAPS

Sum == [fds : Nat, engine : Nat, cycles : Nat, total : Nat]

(* Types, and the clock as a bound of every use. *)
Types ==
  /\ comm \in [Pids -> Names] /\ files \in [Pids -> [Slots -> File]]
  /\ clock \in 0..MaxUse /\ steps \in 0..MaxSteps
  /\ \A p \in Pids, s \in Slots : files[p][s].use <= clock
  /\ phase \in {"idle", "pids", "list", "fds", "emit"}
  /\ pids \subseteq Pids /\ slots \subseteq Slots /\ changed \subseteq Pids
  /\ cur \in [pid : Pids \cup {0}, comm : Names]
  /\ procs \in [Key -> Sum]

(* Where the scan is: the process at hand is not among those to come, of   *)
(* which nothing is added up yet; no file of it is added up twice.         *)
Place ==
  /\ phase \in {"list", "fds"} => cur.pid \in Pids \ pids
  /\ phase # "idle" => \A k \in Key : k.pid \in pids => procs[k].fds = 0
  /\ phase = "list" => \A k \in Key : k.pid = cur.pid => procs[k].fds = 0
  /\ phase = "emit" => pids = {}

Counted ==
  \A k \in Key : procs[k].fds + (IF phase = "fds" /\ k.pid = cur.pid THEN Cardinality(slots) ELSE 0)
                   <= Cardinality(Slots)

(* What has been added up of the processes that stay as they are: one that *)
(* was visited has its keys, the one at hand those of the files read.      *)
Visited(p) == p \notin pids /\ (phase \in {"list", "fds"} => p # cur.pid)
Listed ==
  phase # "idle" =>
    \A k \in Key : k.pid \notin changed =>
      /\ Visited(k.pid) => (k \in Found <=> comm[k.pid] = k.comm /\ Held(k) # {})
      /\ phase \in {"list", "fds"} /\ k.pid = cur.pid => cur.comm = comm[k.pid]
      /\ phase = "fds" /\ k.pid = cur.pid =>
           /\ slots \subseteq {s \in Slots : files[k.pid][s] # Closed}
           /\ k \in Found <=> cur.comm = k.comm /\ Held(k) \ slots # {}

IInv == Types /\ Place /\ Counted /\ Listed

(* What is published is a result that topNByActivity can have.             *)
Capped == IF phase = "emit" THEN kept \in Caps ELSE kept = {}

-----------------------------------------------------------------------------
(* Sums over a set.  A sum is a recursive function of the subsets of the   *)
(* set: there is one, and no other (by their smallest counterexample).     *)
Any(t) == CHOOSE x \in t : TRUE
Adds(g, w, S) == g = [t \in SUBSET S |-> IF t = {} THEN 0 ELSE w[Any(t)] + g[t \ {Any(t)}]]

LEMMA Smallest ==
  ASSUME NEW S, IsFiniteSet(S), NEW T, T \subseteq SUBSET S, T # {}
  PROVE  \E x \in T : \A y \in T : y \subseteq x => y = x
  <1>1. IsWellFoundedOn(StrictSubsetOrdering(S), SUBSET S)
    BY FS_StrictSubsetOrderingWellFounded, FS_FiniteSubsetsOfFinite
  <1>2. PICK x \in T : \A y \in T : <<y, x>> \notin StrictSubsetOrdering(S)
    BY <1>1, WFMin
  <1> QED BY <1>2 DEF StrictSubsetOrdering

LEMMA AnyFacts ==
  ASSUME NEW t, t # {}
  PROVE  Any(t) \in t /\ t \ {Any(t)} \subseteq t /\ t \ {Any(t)} # t
  BY DEF Any

LEMMA AddsFacts ==
  ASSUME NEW g, NEW w, NEW S, Adds(g, w, S), NEW t, t \subseteq S
  PROVE  g[t] = IF t = {} THEN 0 ELSE w[Any(t)] + g[t \ {Any(t)}]
  <1>1. t \in SUBSET S
    OBVIOUS
  <1>2. g = [u \in SUBSET S |-> IF u = {} THEN 0 ELSE w[Any(u)] + g[u \ {Any(u)}]]
    BY DEF Adds
  <1> QED BY <1>1, <1>2, Zenon

LEMMA AddsAgree ==
  ASSUME NEW w, NEW S, IsFiniteSet(S), NEW T, NEW g, Adds(g, w, S), NEW h, Adds(h, w, T)
  PROVE  \A t : t \subseteq S /\ t \subseteq T => g[t] = h[t]
  <1> DEFINE Bad == {t \in SUBSET S : t \subseteq T /\ g[t] # h[t]}
  <1> SUFFICES ASSUME Bad # {} PROVE FALSE
    OBVIOUS
  <1>1. PICK t \in Bad : \A u \in Bad : u \subseteq t => u = t
    <2>1. Bad \subseteq SUBSET S
      OBVIOUS
    <2> HIDE DEF Bad
    <2> QED BY <2>1, Smallest
  <1>2. t \subseteq S /\ t \subseteq T /\ g[t] # h[t]
    OBVIOUS
  <1>3. /\ g[t] = IF t = {} THEN 0 ELSE w[Any(t)] + g[t \ {Any(t)}]
        /\ h[t] = IF t = {} THEN 0 ELSE w[Any(t)] + h[t \ {Any(t)}]
    BY <1>2, AddsFacts
  <1>4. t # {}
    BY <1>2, <1>3
  <1>5. t \ {Any(t)} \notin Bad
    BY <1>1, <1>4, AnyFacts
  <1>6. g[t \ {Any(t)}] = h[t \ {Any(t)}]
    BY <1>2, <1>5
  <1> QED BY <1>2, <1>3, <1>6

LEMMA AddsExists ==
  ASSUME NEW w, NEW S, IsFiniteSet(S)
  PROVE  \E g : Adds(g, w, S)
  <1> DEFINE Bad == {t \in SUBSET S : ~ \E g : Adds(g, w, t)}
  <1> SUFFICES ASSUME Bad # {} PROVE FALSE
    OBVIOUS
  <1>1. PICK s \in Bad : \A u \in Bad : u \subseteq s => u = s
    <2>1. Bad \subseteq SUBSET S
      OBVIOUS
    <2> HIDE DEF Bad
    <2> QED BY <2>1, Smallest
  <1>2. s \subseteq S /\ ~ \E g : Adds(g, w, s)
    OBVIOUS
  <1>3. ASSUME NEW t, t \subseteq s, t # s
        PROVE  IsFiniteSet(t) /\ \E g : Adds(g, w, t)
    BY <1>1, <1>2, <1>3, FS_Subset
  <1> HIDE DEF Bad
  <1> DEFINE F(t) == CHOOSE g : Adds(g, w, t)
             G    == [t \in SUBSET s |-> IF t = {} THEN 0
                                         ELSE w[Any(t)] + F(t \ {Any(t)})[t \ {Any(t)}]]
  <1>4. ASSUME NEW t, t \subseteq s, t # s
        PROVE  IsFiniteSet(t) /\ Adds(F(t), w, t)
    BY <1>3, <1>4
  <1> HIDE DEF F
  <1>5. ASSUME NEW u, u \subseteq s, u # s
        PROVE  G[u] = F(u)[u]
    <2>1. Adds(F(u), w, u) /\ IsFiniteSet(u) /\ u \in SUBSET s
      BY <1>4, <1>5
    <2>2. G[u] = IF u = {} THEN 0 ELSE w[Any(u)] + F(u \ {Any(u)})[u \ {Any(u)}]
      BY <2>1
    <2>3. F(u)[u] = IF u = {} THEN 0 ELSE w[Any(u)] + F(u)[u \ {Any(u)}]
      BY <2>1, AddsFacts
    <2>4. ASSUME u # {} PROVE F(u)[u \ {Any(u)}] = F(u \ {Any(u)})[u \ {Any(u)}]
      <3>1. u \ {Any(u)} \subseteq u /\ u \ {Any(u)} # s /\ u \ {Any(u)} \subseteq s
        BY <1>5, <2>4, AnyFacts
      <3>2. Adds(F(u \ {Any(u)}), w, u \ {Any(u)})
        BY <1>4, <3>1
      <3> QED BY <2>1, <3>1, <3>2, AddsAgree
    <2> QED BY <2>2, <2>3, <2>4
  <1>6. \A t \in SUBSET s : t # {} => G[t \ {Any(t)}] = F(t \ {Any(t)})[t \ {Any(t)}]
    <2> SUFFICES ASSUME NEW t \in SUBSET s, t # {}
                 PROVE  G[t \ {Any(t)}] = F(t \ {Any(t)})[t \ {Any(t)}]
      OBVIOUS
    <2>1. t \ {Any(t)} \subseteq s /\ t \ {Any(t)} # s
      BY AnyFacts
    <2> QED BY <1>5, <2>1
  <1>7. Adds(G, w, s)
    <2> DEFINE H == [t \in SUBSET s |-> IF t = {} THEN 0 ELSE w[Any(t)] + G[t \ {Any(t)}]]
    <2>1. \A t \in SUBSET s : G[t] = H[t]
      BY <1>6
    <2>2. G = H
      BY <2>1
    <2> QED BY <2>2 DEF Adds
  <1> QED BY <1>2, <1>7

(* What is left of the sum without one of its elements. *)
LEMMA SumUnfolds ==
  ASSUME NEW w, NEW S, IsFiniteSet(S)
  PROVE  SumFunctionOnSet(w, S) =
           IF S = {} THEN 0 ELSE w[Any(S)] + SumFunctionOnSet(w, S \ {Any(S)})
  <1> DEFINE F(t) == CHOOSE g : Adds(g, w, t)
  <1>1. \A t : SumFunctionOnSet(w, t) = F(t)[t]
    BY DEF SumFunctionOnSet, FoldFunctionOnSet, MapThenFoldSet, Adds, Any
  <1>2. ASSUME NEW t, IsFiniteSet(t) PROVE Adds(F(t), w, t)
    BY <1>2, AddsExists
  <1> HIDE DEF F
  <1>3. F(S)[S] = IF S = {} THEN 0 ELSE w[Any(S)] + F(S)[S \ {Any(S)}]
    BY <1>2, AddsFacts
  <1>4. S # {} => F(S)[S \ {Any(S)}] = F(S \ {Any(S)})[S \ {Any(S)}]
    <2> SUFFICES ASSUME S # {} PROVE F(S)[S \ {Any(S)}] = F(S \ {Any(S)})[S \ {Any(S)}]
      OBVIOUS
    <2>1. PICK R : R = S \ {Any(S)}
      OBVIOUS
    <2>2. R \subseteq S /\ IsFiniteSet(R)
      BY <2>1, AnyFacts, FS_Subset
    <2>3. Adds(F(S), w, S) /\ Adds(F(R), w, R)
      BY <1>2, <2>2
    <2>4. F(S)[R] = F(R)[R]
      BY <2>2, <2>3, AddsAgree
    <2> QED BY <2>1, <2>4
  <1> QED BY <1>1, <1>3, <1>4

LEMMA SumOfNothing ==
  ASSUME NEW w
  PROVE  SumFunctionOnSet(w, {}) = 0
  BY FS_EmptySet, SumUnfolds

LEMMA SumType ==
  ASSUME NEW S, IsFiniteSet(S), NEW w, \A s \in S : w[s] \in Nat
  PROVE  \A t : t \subseteq S => SumFunctionOnSet(w, t) \in Nat
  <1> DEFINE Bad == {t \in SUBSET S : SumFunctionOnSet(w, t) \notin Nat}
  <1> SUFFICES ASSUME Bad # {} PROVE FALSE
    OBVIOUS
  <1>1. PICK t \in Bad : \A u \in Bad : u \subseteq t => u = t
    <2>1. Bad \subseteq SUBSET S
      OBVIOUS
    <2> HIDE DEF Bad
    <2> QED BY <2>1, Smallest
  <1>2. t \subseteq S /\ IsFiniteSet(t) /\ SumFunctionOnSet(w, t) \notin Nat
    BY FS_Subset
  <1>3. t # {}
    BY <1>2, SumOfNothing
  <1>4. w[Any(t)] \in Nat /\ SumFunctionOnSet(w, t \ {Any(t)}) \in Nat
    BY <1>1, <1>2, <1>3, AnyFacts
  <1> QED BY <1>2, <1>3, <1>4, SumUnfolds

(* Any element can be taken out of a sum. *)
LEMMA SumTakes ==
  ASSUME NEW S, IsFiniteSet(S), NEW w, \A s \in S : w[s] \in Nat
  PROVE  \A t : t \subseteq S => \A c \in t :
           SumFunctionOnSet(w, t) = w[c] + SumFunctionOnSet(w, t \ {c})
  <1> DEFINE Good(t) == \A c \in t : SumFunctionOnSet(w, t) = w[c] + SumFunctionOnSet(w, t \ {c})
             Bad == {t \in SUBSET S : ~Good(t)}
  <1> SUFFICES ASSUME Bad # {} PROVE FALSE
    OBVIOUS
  <1>1. PICK t \in Bad : \A u \in Bad : u \subseteq t => u = t
    <2>1. Bad \subseteq SUBSET S
      OBVIOUS
    <2> HIDE DEF Bad
    <2> QED BY <2>1, Smallest
  <1>2. t \subseteq S /\ IsFiniteSet(t) /\ ~Good(t)
    BY FS_Subset
  <1>3. PICK c \in t : SumFunctionOnSet(w, t) # w[c] + SumFunctionOnSet(w, t \ {c})
    BY <1>2
  <1>4. \A u : u \subseteq t /\ u # t => Good(u)
    BY <1>1, <1>2
  <1> HIDE DEF Bad
  <1>5. PICK a \in t : a = Any(t)
    BY AnyFacts
  <1>6. SumFunctionOnSet(w, t) = w[a] + SumFunctionOnSet(w, t \ {a}) /\ a # c
    BY <1>2, <1>3, <1>5, SumUnfolds
  <1>7. /\ SumFunctionOnSet(w, t \ {a}) = w[c] + SumFunctionOnSet(w, (t \ {a}) \ {c})
        /\ SumFunctionOnSet(w, t \ {c}) = w[a] + SumFunctionOnSet(w, (t \ {c}) \ {a})
    <2>1. /\ t \ {a} \subseteq t /\ t \ {a} # t /\ c \in t \ {a}
          /\ t \ {c} \subseteq t /\ t \ {c} # t /\ a \in t \ {c}
      BY <1>6
    <2>2. Good(t \ {a}) /\ Good(t \ {c})
      BY <1>4, <2>1
    <2> QED BY <2>1, <2>2
  <1>8. (t \ {a}) \ {c} = (t \ {c}) \ {a}
    OBVIOUS
  <1>9. w[a] \in Nat /\ w[c] \in Nat /\ SumFunctionOnSet(w, (t \ {a}) \ {c}) \in Nat
    <2>1. (t \ {a}) \ {c} \subseteq S
      BY <1>2
    <2> QED BY <1>2, <2>1, SumType
  <1> HIDE DEF Good
  <1>10. SumFunctionOnSet(w, t) = w[c] + SumFunctionOnSet(w, t \ {c})
    BY <1>6, <1>7, <1>8, <1>9
  <1> QED BY <1>3, <1>10

LEMMA SumGrows ==
  ASSUME NEW S, IsFiniteSet(S), NEW v, NEW w,
         \A s \in S : v[s] \in Nat /\ w[s] \in Nat /\ v[s] <= w[s]
  PROVE  \A t : t \subseteq S => SumFunctionOnSet(v, t) <= SumFunctionOnSet(w, t)
  <1> DEFINE Bad == {t \in SUBSET S : ~(SumFunctionOnSet(v, t) <= SumFunctionOnSet(w, t))}
  <1> SUFFICES ASSUME Bad # {} PROVE FALSE
    OBVIOUS
  <1>1. PICK t \in Bad : \A u \in Bad : u \subseteq t => u = t
    <2>1. Bad \subseteq SUBSET S
      OBVIOUS
    <2> HIDE DEF Bad
    <2> QED BY <2>1, Smallest
  <1>2. t \subseteq S /\ IsFiniteSet(t) /\ ~(SumFunctionOnSet(v, t) <= SumFunctionOnSet(w, t))
    BY FS_Subset
  <1>3. t # {}
    BY <1>2, SumOfNothing
  <1>4. PICK c \in t : c = Any(t)
    BY <1>3, AnyFacts
  <1>5. SumFunctionOnSet(v, t \ {c}) <= SumFunctionOnSet(w, t \ {c})
    BY <1>1, <1>2
  <1>6. /\ SumFunctionOnSet(v, t) = v[c] + SumFunctionOnSet(v, t \ {c})
        /\ SumFunctionOnSet(w, t) = w[c] + SumFunctionOnSet(w, t \ {c})
    BY <1>2, <1>3, <1>4, SumUnfolds
  <1>7. SumFunctionOnSet(v, t \ {c}) \in Nat /\ SumFunctionOnSet(w, t \ {c}) \in Nat
    <2>1. t \ {c} \subseteq S
      BY <1>2
    <2>2. (\A s \in S : v[s] \in Nat) /\ (\A s \in S : w[s] \in Nat)
      OBVIOUS
    <2> QED BY <2>1, <2>2, SumType
  <1>8. v[c] \in Nat /\ w[c] \in Nat /\ v[c] <= w[c]
    BY <1>2
  <1> HIDE DEF Bad
  <1> QED BY <1>2, <1>5, <1>6, <1>7, <1>8

-----------------------------------------------------------------------------
(* The order of the cap.                                                   *)

LEMMA KeyType ==
  ASSUME NEW k \in Key
  PROVE  k.pid \in Pids /\ k.pid \in Nat /\ k.comm \in {0, 1} /\ k.drv \in {"i915", "xe"}
  BY FdinfoAssumption DEF Key, Names, Intel

LEMMA KeysDiffer ==
  ASSUME NEW a \in Key, NEW b \in Key, a.pid = b.pid, a.comm = b.comm, a.drv = b.drv
  PROVE  a = b
  BY DEF Key

LEMMA ByNameOrder ==
  ASSUME NEW a \in Key, NEW b \in Key
  PROVE  /\ ~ByName(a, a)
         /\ a # b => ByName(a, b) \/ ByName(b, a)
         /\ \A c \in Key : ByName(a, b) /\ ByName(b, c) => ByName(a, c)
  <1>1. \A c \in Key : c.pid \in Nat /\ c.comm \in {0, 1} /\ c.drv \in {"i915", "xe"}
    BY KeyType
  <1>2. ~ByName(a, a)
    BY <1>1 DEF ByName
  <1>3. a # b => ByName(a, b) \/ ByName(b, a)
    <2>1. a # b => a.pid # b.pid \/ a.comm # b.comm \/ a.drv # b.drv
      BY KeysDiffer
    <2> QED BY <1>1, <2>1 DEF ByName
  <1>4. \A c \in Key : ByName(a, b) /\ ByName(b, c) => ByName(a, c)
    BY <1>1 DEF ByName
  <1> QED BY <1>2, <1>3, <1>4

LEMMA BeforeOrder ==
  ASSUME Types, NEW a \in Key, NEW b \in Key
  PROVE  /\ ~Before(a, a)
         /\ a # b => Before(a, b) \/ Before(b, a)
         /\ \A c \in Key : Before(a, b) /\ Before(b, c) => Before(a, c)
  <1>1. \A c \in Key : procs[c].engine \in Nat
    BY DEF Types, Sum
  <1>2. ~Before(a, a)
    BY <1>1, ByNameOrder DEF Before
  <1>3. a # b => Before(a, b) \/ Before(b, a)
    BY <1>1, ByNameOrder DEF Before
  <1>4. ASSUME NEW c \in Key, Before(a, b), Before(b, c) PROVE Before(a, c)
    <2>1. ByName(a, b) /\ ByName(b, c) => ByName(a, c)
      BY ByNameOrder
    <2> QED BY <1>1, <1>4, <2>1 DEF Before
  <1> QED BY <1>2, <1>3, <1>4

-----------------------------------------------------------------------------
(* The cap.                                                                *)

LEMMA KeysAreFinite == IsFiniteSet(Key)
  <1>1. IsFiniteSet({0, 1}) /\ IsFiniteSet(Intel)
    <2>1. {0, 1} = {0} \cup {1} /\ Intel = {"i915"} \cup {"xe"}
      BY DEF Intel
    <2>2. IsFiniteSet({0}) /\ IsFiniteSet({"i915"})
      BY FS_Singleton
    <2>3. IsFiniteSet({0} \cup {1}) /\ IsFiniteSet({"i915"} \cup {"xe"})
      BY <2>2, FS_AddElement
    <2> QED BY <2>1, <2>3
  <1>2. IsFiniteSet(Pids \X {0, 1}) /\ IsFiniteSet((Pids \X {0, 1}) \X Intel)
    BY <1>1, FdinfoAssumption, FS_Product
  <1> DEFINE f == [k \in Key |-> <<<<k.pid, k.comm>>, k.drv>>]
  <1>3. f \in Injection(Key, (Pids \X {0, 1}) \X Intel)
    <2>1. f \in [Key -> (Pids \X {0, 1}) \X Intel]
      BY DEF Key, Names
    <2>2. \A a, b \in Key : f[a] = f[b] => a = b
      BY KeysDiffer
    <2> QED BY <2>1, <2>2 DEF Injection, IsInjective
  <1> QED BY <1>2, <1>3, FS_Injection

LEMMA CapFacts ==
  ASSUME NEW K \in Caps
  PROVE  /\ K \subseteq Found /\ Found \subseteq Key /\ IsFiniteSet(Found) /\ IsFiniteSet(K)
         /\ \A k \in K, d \in Found \ K : ~Before(d, k)
  <1>1. Found \subseteq Key /\ IsFiniteSet(Found)
    BY KeysAreFinite, FS_Subset DEF Found
  <1>2. K \subseteq Found /\ \A k \in K, d \in Found \ K : ~Before(d, k)
    BY DEF Caps, kSubset
  <1> QED BY <1>1, <1>2, FS_Subset

(* The comparison is total, so that keys[:n] does not depend on the order  *)
(* the keys were in: of two results of one size, each would have a key     *)
(* that the other lacks, and one of the two keys is before the other.      *)
LEMMA CapIsUnique ==
  ASSUME Types, NEW K \in Caps, NEW L \in Caps
  PROVE  K = L
  <1>1. CASE TopN = 0 \/ Cardinality(Found) <= TopN
    BY <1>1 DEF Caps
  <1>2. CASE ~(TopN = 0 \/ Cardinality(Found) <= TopN)
    <2>1. Cardinality(K) = TopN /\ Cardinality(L) = TopN
      BY <1>2 DEF Caps, kSubset
    <2>2. SUFFICES ASSUME K # L PROVE FALSE
      OBVIOUS
    <2>3. ~(K \subseteq L) /\ ~(L \subseteq K)
      BY <2>1, <2>2, CapFacts, FS_Subset
    <2>4. PICK a, b : a \in K \ L /\ b \in L \ K
      BY <2>3
    <2>5. a \in Key /\ b \in Key /\ ~Before(a, b) /\ ~Before(b, a)
      BY <2>4, CapFacts
    <2> QED BY <2>4, <2>5, BeforeOrder
  <1> QED BY <1>1, <1>2

LEMMA ByTime == Types /\ Capped => CapIsByEngineTime
  <1> SUFFICES ASSUME Types, Capped, phase = "emit", NEW k \in kept, NEW d \in Found \ kept
               PROVE  procs[k].engine >= procs[d].engine
    BY DEF CapIsByEngineTime
  <1>1. k \in Key /\ d \in Key /\ ~Before(d, k)
    BY CapFacts DEF Capped
  <1>2. procs[k].engine \in Nat /\ procs[d].engine \in Nat
    BY <1>1 DEF Types, Sum
  <1> QED BY <1>1, <1>2 DEF Before

-----------------------------------------------------------------------------
(* The environment and the scan, one action at a time.                     *)

LEMMA FileFacts ==
  /\ Closed.drv = "none" /\ Closed.use = 0 /\ Closed \in File
  /\ \A f \in File : f.use \in 0..MaxUse
  /\ \A d \in Drivers : [drv |-> d, use |-> 0] \in File
  /\ \A f \in File : f = Closed \/ f.drv \in Drivers
  BY FdinfoAssumption DEF Closed, File

LEMMA Start == Init => IInv
  <1> SUFFICES ASSUME Init PROVE IInv
    OBVIOUS
  <1>1. Types
    <2>1. procs \in [Key -> Sum]
      BY DEF Init, Sum, Nothing
    <2> QED BY <2>1, FdinfoAssumption DEF Init, Types, Names
  <1>2. \A k \in Key : procs[k].fds = 0
    BY DEF Init, Nothing
  <1>3. Place /\ Listed
    BY DEF Init, Place, Listed
  <1>4. Counted
    <2>1. Cardinality(Slots) \in Nat
      BY FdinfoAssumption, FS_CardinalityType
    <2> QED BY <1>2, <2>1 DEF Init, Counted
  <1> QED BY <1>1, <1>3, <1>4 DEF IInv

LEMMA OpenOrClose ==
  ASSUME IInv, NEW p \in Pids, OpenFile(p) \/ CloseFile(p)
  PROVE  IInv'
  <1> USE DEF scan
  <1>1. /\ comm' = comm /\ clock' = clock /\ UNCHANGED <<phase, pids, cur, slots, procs>>
        /\ changed' = changed \cup {p} /\ steps' \in 0..MaxSteps
    BY FdinfoAssumption DEF OpenFile, CloseFile, During, IInv, Types
  <1>2. \E s \in Slots, f \in File : files' = [files EXCEPT ![p][s] = f] /\ f.use = 0
    BY FileFacts DEF OpenFile, CloseFile
  <1>3. PICK s \in Slots, f \in File : files' = [files EXCEPT ![p][s] = f] /\ f.use = 0
    BY <1>2
  <1>4. files \in [Pids -> [Slots -> File]]
    BY DEF IInv, Types
  <1>5. /\ files' \in [Pids -> [Slots -> File]]
        /\ \A q \in Pids : q # p => files'[q] = files[q]
        /\ \A r \in Slots : files'[p][r] = IF r = s THEN f ELSE files[p][r]
    BY <1>3, <1>4
  <1>6. Types'
    <2>1. \A q \in Pids, r \in Slots : files'[q][r].use <= clock
      BY <1>3, <1>5 DEF IInv, Types
    <2> QED BY <1>1, <1>5, <2>1 DEF IInv, Types
  <1>7. Place' /\ Counted'
    BY <1>1 DEF IInv, Place, Counted
  <1>8. Listed'
    <2>1. \A k \in Key : k.pid \notin changed' => k.pid \in Pids /\ k.pid # p /\ k.pid \notin changed
      BY <1>1, KeyType
    <2>2. \A k \in Key : k.pid \notin changed' => Held(k)' = Held(k) /\ files'[k.pid] = files[k.pid]
      BY <1>5, <2>1 DEF Held
    <2>3. Found' = Found
      BY <1>1 DEF Found
    <2> QED BY <1>1, <2>1, <2>2, <2>3 DEF IInv, Listed, Visited
  <1> QED BY <1>6, <1>7, <1>8 DEF IInv

LEMMA RenameStep ==
  ASSUME IInv, NEW p \in Pids, Rename(p)
  PROVE  IInv'
  <1> USE DEF scan
  <1>1. /\ UNCHANGED <<files, clock, phase, pids, cur, slots, procs>>
        /\ comm' = [comm EXCEPT ![p] = 1 - @]
        /\ changed' = changed \cup {p} /\ steps' \in 0..MaxSteps
    BY FdinfoAssumption DEF Rename, During, IInv, Types
  <1>2. comm' \in [Pids -> Names] /\ \A q \in Pids : q # p => comm'[q] = comm[q]
    BY <1>1 DEF IInv, Types, Names
  <1>3. Types'
    BY <1>1, <1>2 DEF IInv, Types
  <1>4. Place' /\ Counted'
    BY <1>1 DEF IInv, Place, Counted
  <1>5. Listed'
    <2>1. \A k \in Key : k.pid \notin changed' => comm'[k.pid] = comm[k.pid] /\ k.pid \notin changed
      BY <1>1, <1>2, KeyType
    <2>2. Found' = Found /\ \A k : Held(k)' = Held(k)
      BY <1>1 DEF Found, Held
    <2> QED BY <1>1, <2>1, <2>2 DEF IInv, Listed, Visited
  <1> QED BY <1>3, <1>4, <1>5 DEF IInv

LEMMA UseStep ==
  ASSUME IInv, NEW p \in Pids, UseGpu(p)
  PROVE  IInv'
  <1> USE DEF scan
  <1>1. /\ UNCHANGED <<comm, phase, pids, cur, slots, procs, changed>>
        /\ clock' = clock + 1 /\ clock' \in 0..MaxUse /\ steps' \in 0..MaxSteps
    BY FdinfoAssumption DEF UseGpu, During, IInv, Types
  <1>2. PICK s \in Slots : files[p][s] # Closed /\ files' = [files EXCEPT ![p][s].use = @ + 1]
    BY DEF UseGpu
  <1>3. files \in [Pids -> [Slots -> File]] /\ files[p][s] \in File
    BY DEF IInv, Types
  <1> DEFINE f == [files[p][s] EXCEPT !.use = @ + 1]
  <1>4. files[p][s] \in [drv : Drivers, use : 0..MaxUse]
    BY <1>2, <1>3 DEF File
  <1>5. files[p][s].use + 1 \in 0..MaxUse /\ files[p][s].use + 1 <= clock'
    <2>1. files[p][s].use \in Nat /\ clock \in 0..MaxUse /\ MaxUse \in Nat
      BY <1>4, FdinfoAssumption DEF IInv, Types
    <2>2. files[p][s].use <= clock
      BY DEF IInv, Types
    <2> QED BY <1>1, <2>1, <2>2
  <1>6. f \in [drv : Drivers, use : 0..MaxUse] /\ f.drv = files[p][s].drv /\ f.use = files[p][s].use + 1
    BY <1>4, <1>5
  <1>7. f \in File /\ f # Closed
    BY <1>4, <1>6, FileFacts, FdinfoAssumption DEF File
  <1>8. files' = [files EXCEPT ![p][s] = f]
    BY <1>2
  <1> HIDE DEF f
  <1>9. /\ files' \in [Pids -> [Slots -> File]]
        /\ \A q \in Pids, r \in Slots : files'[q][r] = IF q = p /\ r = s THEN f ELSE files[q][r]
    BY <1>3, <1>7, <1>8
  <1>10. Types'
    <2>1. \A q \in Pids, r \in Slots : files[q][r].use \in Nat /\ files[q][r].use <= clock
      BY <1>3, FileFacts DEF IInv, Types
    <2>2. \A q \in Pids, r \in Slots : files'[q][r].use <= clock'
      BY <1>1, <1>5, <1>6, <1>9, <2>1 DEF IInv, Types
    <2> QED BY <1>1, <1>9, <2>2 DEF IInv, Types
  <1>11. Place' /\ Counted'
    BY <1>1 DEF IInv, Place, Counted
  <1>12. Listed'
    <2>1. \A q \in Pids, r \in Slots : /\ files'[q][r].drv = files[q][r].drv
                                       /\ files'[q][r] = Closed <=> files[q][r] = Closed
      BY <1>2, <1>6, <1>7, <1>9
    <2>2. ASSUME NEW k \in Key PROVE Held(k)' = Held(k)
      <3>0. k.pid \in Pids
        BY KeyType
      <3>1. \A r \in Slots : files'[k.pid][r].drv = files[k.pid][r].drv
        BY <2>1, <3>0
      <3> QED BY <3>1 DEF Held
    <2>3. Found' = Found
      BY <1>1 DEF Found
    <2>4. ASSUME NEW k \in Key
          PROVE  {r \in Slots : files'[k.pid][r] # Closed} = {r \in Slots : files[k.pid][r] # Closed}
      <3>0. k.pid \in Pids
        BY KeyType
      <3>1. \A r \in Slots : files'[k.pid][r] = Closed <=> files[k.pid][r] = Closed
        BY <2>1, <3>0
      <3> QED BY <3>1
    <2> QED BY <1>1, <2>2, <2>3, <2>4 DEF IInv, Listed, Visited
  <1> QED BY <1>10, <1>11, <1>12 DEF IInv

LEMMA ReadProcStep ==
  ASSUME IInv, ReadProc
  PROVE  IInv'
  <1> USE DEF system
  <1>1. /\ UNCHANGED <<comm, files, clock, steps, cur, slots>> /\ phase' = "pids" /\ pids' = Pids
        /\ procs' = [k \in Key |-> Nothing] /\ changed' = {}
    BY DEF ReadProc
  <1>2. procs' \in [Key -> Sum] /\ \A k \in Key : procs'[k].fds = 0
    BY <1>1 DEF Nothing, Sum
  <1>3. Types'
    BY <1>1, <1>2 DEF IInv, Types
  <1>4. Place'
    BY <1>1, <1>2 DEF Place
  <1>5. Counted'
    <2>1. Cardinality(Slots) \in Nat
      BY FdinfoAssumption, FS_CardinalityType
    <2> QED BY <1>1, <1>2, <2>1 DEF Counted
  <1>6. Listed'
    <2>1. \A k \in Key : k.pid \in pids'
      BY <1>1, KeyType
    <2> QED BY <1>1, <2>1 DEF Listed, Visited
  <1> QED BY <1>3, <1>4, <1>5, <1>6 DEF IInv

LEMMA ReadCommStep ==
  ASSUME IInv, ReadComm
  PROVE  IInv'
  <1> USE DEF system
  <1>1. PICK p \in pids : cur' = [pid |-> p, comm |-> comm[p]] /\ pids' = pids \ {p}
    BY DEF ReadComm
  <1>2. UNCHANGED <<comm, files, clock, steps, slots, procs, changed>> /\ phase = "pids" /\ phase' = "list"
    BY DEF ReadComm
  <1>3. p \in Pids /\ cur'.pid = p /\ cur'.comm = comm[p]
    BY <1>1 DEF IInv, Types
  <1>4. cur' \in [pid : Pids \cup {0}, comm : Names]
    BY <1>1, <1>3 DEF IInv, Types
  <1>5. Types'
    BY <1>1, <1>2, <1>4 DEF IInv, Types
  <1>6. Place' /\ Counted'
    BY <1>1, <1>2, <1>3 DEF IInv, Place, Counted
  <1>7. Listed'
    <2>1. Found' = Found /\ \A k : Held(k)' = Held(k)
      BY <1>2 DEF Found, Held
    <2>2. \A q : Visited(q)' => Visited(q)
      BY <1>1, <1>2, <1>3 DEF Visited
    <2> QED BY <1>2, <1>3, <2>1, <2>2 DEF IInv, Listed
  <1> QED BY <1>5, <1>6, <1>7 DEF IInv

LEMMA ListStep ==
  ASSUME IInv, ReadFdinfoDir
  PROVE  IInv'
  <1> USE DEF system
  <1>1. /\ UNCHANGED <<comm, files, clock, steps, pids, cur, procs, changed>>
        /\ phase = "list" /\ phase' = "fds" /\ slots' = {s \in Slots : files[cur.pid][s] # Closed}
    BY DEF ReadFdinfoDir
  <1>2. Types'
    BY <1>1 DEF IInv, Types
  <1>3. Place'
    BY <1>1 DEF IInv, Place
  <1>4. Counted'
    <2>1. Cardinality(Slots) \in Nat /\ Cardinality(slots') \in Nat /\ Cardinality(slots') <= Cardinality(Slots)
      BY <1>1, FdinfoAssumption, FS_Subset, FS_CardinalityType
    <2>2. \A k \in Key : k.pid = cur.pid => procs[k].fds = 0
      BY <1>1 DEF IInv, Place
    <2>3. \A k \in Key : procs[k].fds \in Nat /\ procs[k].fds + 0 <= Cardinality(Slots)
      BY <1>1 DEF IInv, Types, Counted, Sum
    <2> QED BY <1>1, <2>1, <2>2, <2>3 DEF Counted
  <1>5. Listed'
    <2>1. Found' = Found /\ \A k : Held(k)' = Held(k)
      BY <1>1 DEF Found, Held
    <2>2. \A k \in Key : k.pid = cur.pid => Held(k) \subseteq slots'
      BY <1>1, KeyType, FileFacts DEF Held
    <2>3. \A k \in Key : k.pid = cur.pid => k \notin Found
      BY <1>1 DEF IInv, Place, Found
    <2> QED BY <1>1, <2>1, <2>2, <2>3 DEF IInv, Listed, Visited
  <1> QED BY <1>2, <1>3, <1>4, <1>5 DEF IInv

LEMMA ParseStep ==
  ASSUME IInv, ParseFdinfo
  PROVE  IInv'
  <1> USE DEF system
  <1>1. UNCHANGED <<comm, files, clock, steps, phase, pids, cur, changed>> /\ phase = "fds"
    BY DEF ParseFdinfo
  <1>2. PICK s \in slots :
          LET f == files[cur.pid][s] IN
          /\ slots' = slots \ {s}
          /\ procs' = IF f.drv \in Intel THEN [procs EXCEPT ![KeyOf(f)] = Added(@, f)] ELSE procs
    BY DEF ParseFdinfo
  <1> DEFINE f == files[cur.pid][s]
             own == KeyOf(f)
  <1>3. cur.pid \in Pids /\ cur.pid \notin pids /\ cur.comm \in Names /\ s \in Slots /\ slots \subseteq Slots
    BY <1>1 DEF IInv, Types, Place
  <1>4. f \in File /\ f.use \in Nat
    <2>1. f \in File
      BY <1>3 DEF IInv, Types
    <2> QED BY <2>1, FileFacts
  <1>5. f.drv \in Intel => own \in Key /\ own.pid = cur.pid /\ own.comm = cur.comm /\ own.drv = f.drv
    BY <1>3 DEF KeyOf, Key
  <1>6. \A k \in Key : k = own <=> f.drv = k.drv /\ k.pid = cur.pid /\ k.comm = cur.comm
    BY <1>5, KeyType, KeysDiffer DEF KeyOf, Key
  <1>7. procs \in [Key -> Sum] /\ clock \in Nat
    BY DEF IInv, Types
  <1> HIDE DEF f, own
  <1>8. procs' = IF f.drv \in Intel THEN [procs EXCEPT ![own] = Added(@, f)] ELSE procs
    BY <1>2 DEF f, own
  <1>9. \A k \in Key : procs'[k] = IF f.drv \in Intel /\ k = own THEN Added(procs[k], f) ELSE procs[k]
    BY <1>5, <1>7, <1>8
  <1>10. \A k \in Key : Added(procs[k], f) \in Sum /\ Added(procs[k], f).fds = procs[k].fds + 1
    <2>1. ASSUME NEW x \in Sum
          PROVE  Added(x, f) \in Sum /\ Added(x, f).fds = x.fds + 1
      <3>1. x.fds \in Nat /\ x.engine \in Nat /\ x.cycles \in Nat /\ x.total \in Nat
        BY DEF Sum
      <3> QED BY <1>4, <1>7, <3>1 DEF Added, Sum
    <2> QED BY <1>7, <2>1
  <1>11. procs' \in [Key -> Sum]
    BY <1>5, <1>7, <1>8, <1>10
  <1>12. Types'
    <2>1. slots' \subseteq Slots
      BY <1>2, <1>3
    <2> QED BY <1>1, <1>11, <2>1 DEF IInv, Types
  <1>13. \A k \in Key : k.pid # cur.pid => procs'[k] = procs[k]
    BY <1>5, <1>9
  <1>14. Place'
    <2>1. \A k \in Key : k.pid \in pids => procs'[k].fds = 0
      BY <1>1, <1>3, <1>13 DEF IInv, Place
    <2> QED BY <1>1, <2>1 DEF IInv, Place
  <1>15. Counted'
    <2>1. IsFiniteSet(slots)
      BY <1>3, FdinfoAssumption, FS_Subset
    <2>2. Cardinality(slots') = Cardinality(slots) - 1 /\ Cardinality(slots) \in Nat /\ Cardinality(Slots) \in Nat
      BY <1>2, <2>1, FdinfoAssumption, FS_RemoveElement, FS_CardinalityType
    <2>3. ASSUME NEW k \in Key
          PROVE  procs'[k].fds + (IF k.pid = cur.pid THEN Cardinality(slots') ELSE 0) <= Cardinality(Slots)
      <3>1. procs[k].fds \in Nat
        BY <1>7 DEF Sum
      <3>2. procs[k].fds + (IF k.pid = cur.pid THEN Cardinality(slots) ELSE 0) <= Cardinality(Slots)
        BY <1>1 DEF IInv, Counted
      <3>3. procs'[k].fds = procs[k].fds \/ (k.pid = cur.pid /\ procs'[k].fds = procs[k].fds + 1)
        BY <1>5, <1>9, <1>10
      <3> QED BY <2>2, <3>1, <3>2, <3>3
    <2> QED BY <1>1, <2>3 DEF Counted
  <1>16. Listed'
    <2>1. \A k : Held(k)' = Held(k)
      BY <1>1 DEF Held
    <2>2. \A k \in Key : k \in Found' <=> k \in Found \/ (f.drv \in Intel /\ k = own)
      <3>1. \A k \in Key : procs[k].fds \in Nat
        BY <1>7 DEF Sum
      <3> QED BY <1>9, <1>10, <3>1 DEF Found
    <2>3. ASSUME NEW k \in Key, k.pid \notin changed, k.pid = cur.pid
          PROVE  k \in Found' <=> cur.comm = k.comm /\ Held(k) \ slots' # {}
      <3>1. k \in Found <=> cur.comm = k.comm /\ Held(k) \ slots # {}
        BY <1>1, <2>3 DEF IInv, Listed
      <3>2. s \in Held(k) <=> f.drv = k.drv
        BY <1>3, <2>3 DEF Held, f
      <3>3. Held(k) \ slots' # {} <=> Held(k) \ slots # {} \/ s \in Held(k)
        BY <1>2
      <3>4. (f.drv \in Intel /\ k = own) <=> f.drv = k.drv /\ k.comm = cur.comm
        BY <1>6, <2>3, KeyType DEF Intel
      <3> QED BY <2>2, <3>1, <3>2, <3>3, <3>4
    <2>4. \A k \in Key : k.pid # cur.pid => (k \in Found' <=> k \in Found)
      BY <1>5, <2>2
    <2>5. slots' \subseteq slots /\ \A q : Visited(q)' <=> Visited(q)
      BY <1>1, <1>2 DEF Visited
    <2> QED BY <1>1, <2>1, <2>3, <2>4, <2>5 DEF IInv, Listed, Visited
  <1> QED BY <1>12, <1>14, <1>15, <1>16 DEF IInv

LEMMA RestStep ==
  ASSUME IInv, NextProcess \/ EndScan \/ Emit \/ UNCHANGED vars
  PROVE  IInv'
  <1> USE DEF system, scan, vars
  <1>1. UNCHANGED <<comm, files, clock, steps, pids, cur, slots, procs, changed>>
    BY DEF NextProcess, EndScan, Emit
  <1>2. \/ phase' = phase
        \/ phase = "fds" /\ slots = {} /\ phase' = "pids"
        \/ phase = "pids" /\ pids = {} /\ phase' = "emit"
        \/ phase = "emit" /\ phase' = "idle"
    BY DEF NextProcess, EndScan, Emit
  <1>3. Types'
    BY <1>1, <1>2 DEF IInv, Types
  <1>4. Place'
    BY <1>1, <1>2 DEF IInv, Place
  <1>5. Counted'
    <2>1. slots = {} => Cardinality(slots) = 0
      BY FS_EmptySet
    <2>2. CASE phase' = phase
      BY <1>1, <2>2 DEF IInv, Counted
    <2>3. CASE phase' # phase
      <3>1. phase' # "fds" /\ (phase = "fds" => Cardinality(slots) = 0)
        BY <1>2, <2>1, <2>3
      <3> QED BY <1>1, <3>1 DEF IInv, Counted
    <2> QED BY <2>2, <2>3
  <1>6. Listed'
    <2>1. Found' = Found /\ \A k : Held(k)' = Held(k)
      BY <1>1 DEF Found, Held
    <2>2. CASE phase' = phase
      BY <1>1, <2>1, <2>2 DEF IInv, Listed, Visited
    <2>3. CASE phase = "fds" /\ slots = {} /\ phase' = "pids"
      <3>1. \A k \in Key : Held(k) \ slots = Held(k)
        BY <2>3
      <3> QED BY <1>1, <2>1, <2>3, <3>1 DEF IInv, Listed, Visited, Place
    <2>4. CASE phase = "pids" /\ pids = {} /\ phase' = "emit"
      BY <1>1, <2>1, <2>4 DEF IInv, Listed, Visited
    <2>5. CASE phase' = "idle"
      BY <2>5 DEF Listed
    <2> QED BY <1>2, <2>2, <2>3, <2>4, <2>5
  <1> QED BY <1>3, <1>4, <1>5, <1>6 DEF IInv

LEMMA InvarianceStep == IInv /\ [Next]_vars => IInv'
  BY OpenOrClose, RenameStep, UseStep, ReadProcStep, ReadCommStep, ListStep, ParseStep, RestStep
     DEF Next, Scan, Environment

LEMMA CappedStep == IInv /\ Capped /\ [Next]_vars => Capped'
  <1> SUFFICES ASSUME Capped, [Next]_vars PROVE Capped'
    OBVIOUS
  <1>1. CASE UNCHANGED <<phase, procs, kept>>
    BY <1>1 DEF Capped, Caps, Before, Found
  <1>2. CASE EndScan
    BY <1>2 DEF EndScan, Capped, Caps, Before, Found
  <1>3. CASE Emit
    BY <1>3 DEF Emit, Capped
  <1>4. CASE phase # "emit" /\ phase' # "emit" /\ kept' = kept
    BY <1>4 DEF Capped
  <1> QED BY <1>1, <1>2, <1>3, <1>4
          DEF Next, Scan, Environment, OpenFile, CloseFile, Rename, UseGpu, ReadProc, ReadComm,
              ReadFdinfoDir, ParseFdinfo, NextProcess, scan, vars

LEMMA Invariance == Spec => [](IInv /\ Capped)
  <1>1. Init => Capped
    BY DEF Init, Capped
  <1> QED BY <1>1, Start, InvarianceStep, CappedStep, PTL DEF Spec

-----------------------------------------------------------------------------
(* Every variable keeps its type, and no file is added up twice. *)
THEOREM TypeCorrect == Spec => []TypeOK
  <1>1. ASSUME IInv, Capped PROVE TypeOK
    <2>1. Cardinality(Slots) \in Nat /\ Cardinality(slots) \in Nat
      BY <1>1, FdinfoAssumption, FS_Subset, FS_CardinalityType DEF IInv, Types
    <2>2. \A k \in Key : procs[k].fds \in Nat
      BY <1>1 DEF IInv, Types, Sum
    <2>3. \A k \in Key : procs[k].fds \in 0..Cardinality(Slots)
      BY <1>1, <2>1, <2>2 DEF IInv, Counted
    <2>4. procs \in [Key -> [fds : 0..Cardinality(Slots), engine : Nat, cycles : Nat, total : Nat]]
      BY <1>1, <2>3 DEF IInv, Types, Sum
    <2>5. kept \subseteq Found
      BY <1>1, CapFacts DEF Capped
    <2> QED BY <1>1, <2>4, <2>5 DEF IInv, Types, TypeOK
  <1> QED BY <1>1, Invariance, PTL

(* The scan lists exactly the keys of every process that stays as it is,   *)
(* whatever the others do meanwhile (Update in fdinfo.go).                 *)
THEOREM SteadyIsListed == Spec => []SteadyIsPublished
  <1>1. IInv => SteadyIsPublished
    BY DEF IInv, Listed, Place, Visited, SteadyIsPublished
  <1> QED BY <1>1, Invariance, PTL

(* The same keys are kept in whatever order the map and the sort leave     *)
(* those that tie (topNByActivity).                                        *)
THEOREM KeepsTheSame == Spec => []CapIsDetermined
  <1>1. IInv /\ Capped => CapIsDetermined
    <2> SUFFICES ASSUME IInv, kept \in Caps PROVE Caps = {kept}
      BY DEF CapIsDetermined, Capped
    <2> QED BY CapIsUnique DEF IInv
  <1> QED BY <1>1, Invariance, PTL

(* No key is dropped for one with less engine time (topNByActivity). *)
THEOREM KeepsTheBusiest == Spec => []CapIsByEngineTime
  <1>1. IInv /\ Capped => CapIsByEngineTime
    BY ByTime DEF IInv
  <1> QED BY <1>1, Invariance, PTL

-----------------------------------------------------------------------------
(* The value of a process that stays as it is lies between its use when    *)
(* the scan began and its use now.                                         *)

Uses(p) == [s \in Slots |-> files[p][s].use]

(* The files of a key that the scan has still to read. *)
Left(k) == IF Visited(k.pid) THEN {}
           ELSE IF phase = "fds" /\ k.pid = cur.pid THEN Held(k) \cap slots ELSE Held(k)

(* A counter of what it has read of a key is no more than those files show *)
(* now, and with what the others show no less than the key had used at the *)
(* start.                                                                  *)
Bounded(k, c) ==
  IF comm[k.pid] = k.comm
  THEN /\ before[k] <= Value(k, c) + SumFunctionOnSet(Uses(k.pid), Left(k))
       /\ Value(k, c) <= SumFunctionOnSet(Uses(k.pid), Held(k) \ Left(k))
  ELSE before[k] = 0 /\ Value(k, c) = 0

Current ==
  /\ before \in [Key -> Nat]
  /\ phase # "idle" => \A k \in Key : k.pid \notin changed => \A c \in Shown(k) : Bounded(k, c)

LEMMA UsesFacts ==
  ASSUME Types, NEW k \in Key
  PROVE  /\ \A s \in Slots : Uses(k.pid)[s] = files[k.pid][s].use /\ Uses(k.pid)[s] \in Nat
         /\ Held(k) \subseteq Slots /\ IsFiniteSet(Slots)
         /\ \A c : Value(k, c) \in Nat
         /\ \A A : A \subseteq Slots => SumFunctionOnSet(Uses(k.pid), A) \in Nat
  <1>1. k.pid \in Pids /\ IsFiniteSet(Slots)
    BY KeyType, FdinfoAssumption
  <1>2. \A s \in Slots : files[k.pid][s] \in File
    BY <1>1 DEF Types
  <1>3. \A s \in Slots : Uses(k.pid)[s] = files[k.pid][s].use /\ Uses(k.pid)[s] \in Nat
    BY <1>2, FileFacts DEF Uses
  <1>4. \A A : A \subseteq Slots => SumFunctionOnSet(Uses(k.pid), A) \in Nat
    BY <1>1, <1>3, SumType
  <1>5. \A c : Value(k, c) \in Nat
    BY DEF Types, Sum, Value
  <1> QED BY <1>1, <1>3, <1>4, <1>5 DEF Held

(* Steps that do not touch what a key has used and what is left of it. *)
LEMMA BoundedStays ==
  ASSUME NEW k \in Key, NEW c, Bounded(k, c), comm'[k.pid] = comm[k.pid], files'[k.pid] = files[k.pid],
         procs'[k] = procs[k], before'[k] = before[k], Left(k)' = Left(k)
  PROVE  Bounded(k, c)'
  <1>1. Uses(k.pid)' = Uses(k.pid) /\ Held(k)' = Held(k) /\ Value(k, c)' = Value(k, c)
    BY DEF Uses, Held, Value
  <1> QED BY <1>1 DEF Bounded

(* A process that changes something is no longer one that stays as it is. *)
LEMMA CurrentChange ==
  ASSUME IInv, Current, NEW p \in Pids, OpenFile(p) \/ CloseFile(p) \/ Rename(p)
  PROVE  Current'
  <1> USE DEF scan
  <1>1. /\ UNCHANGED <<phase, pids, cur, slots, procs, before>> /\ changed' = changed \cup {p}
        /\ \A q \in Pids : q # p => files'[q] = files[q] /\ comm'[q] = comm[q]
    BY DEF OpenFile, CloseFile, Rename, IInv, Types
  <1>2. ASSUME NEW k \in Key, k.pid \notin changed', phase # "idle", NEW c \in Shown(k)
        PROVE  Bounded(k, c)'
    <2>1. k.pid \in Pids /\ k.pid # p /\ k.pid \notin changed
      BY <1>1, <1>2, KeyType
    <2>2. Left(k)' = Left(k)
      BY <1>1, <2>1 DEF Left, Visited, Held
    <2> QED BY <1>1, <1>2, <2>1, <2>2, BoundedStays DEF Current
  <1> QED BY <1>1, <1>2 DEF Current, Shown

LEMMA CurrentUse ==
  ASSUME IInv, IInv', Current, NEW p \in Pids, UseGpu(p)
  PROVE  Current'
  <1> USE DEF scan
  <1>1. UNCHANGED <<comm, phase, pids, cur, slots, procs, before, changed>>
    BY DEF UseGpu
  <1>2. PICK t \in Slots : files[p][t] # Closed /\ files' = [files EXCEPT ![p][t].use = @ + 1]
    BY DEF UseGpu
  <1>3. files \in [Pids -> [Slots -> File]] /\ files[p][t] \in [drv : Drivers, use : 0..MaxUse]
    BY <1>2 DEF IInv, Types, File
  <1>4. \A q \in Pids, s \in Slots :
          files'[q][s].drv = files[q][s].drv /\ files[q][s].use <= files'[q][s].use
    <2>1. files'[p][t].drv = files[p][t].drv /\ files'[p][t].use = files[p][t].use + 1
      BY <1>2, <1>3
    <2>2. \A q \in Pids, s \in Slots : q # p \/ s # t => files'[q][s] = files[q][s]
      BY <1>2, <1>3
    <2>3. \A q \in Pids, s \in Slots : files[q][s].use \in Nat
      BY <1>3, FileFacts
    <2> QED BY <2>1, <2>2, <2>3
  <1>5. ASSUME NEW k \in Key, NEW c, Bounded(k, c)
        PROVE  Bounded(k, c)'
    <2>1. k.pid \in Pids
      BY KeyType
    <2>2. Held(k)' = Held(k)
      <3>1. \A s \in Slots : files'[k.pid][s].drv = files[k.pid][s].drv
        BY <1>4, <2>1
      <3> QED BY <3>1 DEF Held
    <2>3. Left(k)' = Left(k) /\ Value(k, c)' = Value(k, c)
      BY <1>1, <2>2 DEF Left, Visited, Value
    <2>4. PICK v, w : v = Uses(k.pid) /\ w = Uses(k.pid)'
      OBVIOUS
    <2>5. Left(k) \subseteq Slots /\ Held(k) \ Left(k) \subseteq Slots
      BY DEF Left, Held
    <2>6. \A s \in Slots : v[s] \in Nat /\ w[s] \in Nat /\ v[s] <= w[s]
      <3>1. \A s \in Slots : v[s] = files[k.pid][s].use /\ v[s] \in Nat
        BY <2>4, UsesFacts DEF IInv
      <3>2. \A s \in Slots : w[s] = files'[k.pid][s].use /\ w[s] \in Nat
        <4>1. Types'
          BY DEF IInv
        <4>2. \A s \in Slots : files'[k.pid][s] \in File
          BY <2>1, <4>1 DEF Types
        <4> QED BY <2>4, <4>2, FileFacts DEF Uses
      <3> QED BY <1>4, <2>1, <3>1, <3>2
    <2>7. \A A : A \subseteq Slots => /\ SumFunctionOnSet(v, A) \in Nat /\ SumFunctionOnSet(w, A) \in Nat
                                      /\ SumFunctionOnSet(v, A) <= SumFunctionOnSet(w, A)
      <3>1. IsFiniteSet(Slots)
        BY FdinfoAssumption
      <3>2. (\A s \in Slots : v[s] \in Nat) /\ (\A s \in Slots : w[s] \in Nat)
        BY <2>6
      <3> QED BY <2>6, <3>1, <3>2, SumType, SumGrows
    <2>8. before[k] \in Nat /\ Value(k, c) \in Nat
      BY UsesFacts DEF IInv, Current
    <2>9. /\ SumFunctionOnSet(v, Left(k)) \in Nat /\ SumFunctionOnSet(w, Left(k)) \in Nat
          /\ SumFunctionOnSet(v, Left(k)) <= SumFunctionOnSet(w, Left(k))
          /\ SumFunctionOnSet(v, Held(k) \ Left(k)) \in Nat /\ SumFunctionOnSet(w, Held(k) \ Left(k)) \in Nat
          /\ SumFunctionOnSet(v, Held(k) \ Left(k)) <= SumFunctionOnSet(w, Held(k) \ Left(k))
      BY <2>5, <2>7
    <2>10. CASE comm[k.pid] = k.comm
      <3>1. /\ before[k] <= Value(k, c) + SumFunctionOnSet(v, Left(k))
            /\ Value(k, c) <= SumFunctionOnSet(v, Held(k) \ Left(k))
        BY <1>5, <2>4, <2>10 DEF Bounded
      <3>2. /\ before[k] <= Value(k, c) + SumFunctionOnSet(w, Left(k))
            /\ Value(k, c) <= SumFunctionOnSet(w, Held(k) \ Left(k))
        BY <2>8, <2>9, <3>1
      <3> QED BY <1>1, <2>2, <2>3, <2>4, <2>10, <3>2 DEF Bounded
    <2>11. CASE comm[k.pid] # k.comm
      BY <1>1, <1>5, <2>3, <2>11 DEF Bounded
    <2> QED BY <2>10, <2>11
  <1> QED BY <1>1, <1>5 DEF Current, Shown

LEMMA CurrentReadProc ==
  ASSUME IInv, ReadProc
  PROVE  Current'
  <1> USE DEF system
  <1>1. /\ UNCHANGED <<comm, files>> /\ phase' = "pids" /\ pids' = Pids
        /\ procs' = [k \in Key |-> Nothing] /\ before' = [k \in Key |-> Use(k)]
    BY DEF ReadProc
  <1>2. ASSUME NEW k \in Key
        PROVE  Use(k) \in Nat /\ \A c : Bounded(k, c)'
    <2>1. /\ Use(k) = IF comm[k.pid] # k.comm THEN 0 ELSE SumFunctionOnSet(Uses(k.pid), Held(k))
          /\ SumFunctionOnSet(Uses(k.pid), Held(k)) \in Nat
      BY UsesFacts DEF Use, Uses, IInv
    <2>2. Left(k)' = Held(k) /\ Held(k)' = Held(k) /\ Uses(k.pid)' = Uses(k.pid)
      BY <1>1, KeyType DEF Left, Visited, Held, Uses
    <2>3. (\A c : Value(k, c)' = 0) /\ before'[k] = Use(k)
      BY <1>1 DEF Value, Nothing
    <2>4. SumFunctionOnSet(Uses(k.pid), Held(k) \ Held(k)) = 0
      BY SumOfNothing
    <2> QED BY <1>1, <2>1, <2>2, <2>3, <2>4 DEF Bounded
  <1> QED BY <1>1, <1>2 DEF Current, Shown

LEMMA CurrentMoves ==
  ASSUME IInv, IInv', Current, ReadComm \/ ReadFdinfoDir \/ NextProcess \/ EndScan
  PROVE  Current'
  <1> USE DEF system
  <1>1. UNCHANGED <<comm, files, procs, before, changed>> /\ phase # "idle"
    BY DEF ReadComm, ReadFdinfoDir, NextProcess, EndScan
  <1>2. ASSUME NEW k \in Key
        PROVE  Left(k)' = Left(k)
    <2>1. Held(k)' = Held(k)
      BY <1>1 DEF Held
    <2>2. CASE ReadComm
      <3>1. PICK p \in pids : cur' = [pid |-> p, comm |-> comm[p]] /\ pids' = pids \ {p}
        BY <2>2 DEF ReadComm
      <3>2. phase = "pids" /\ phase' = "list" /\ cur'.pid = p
        BY <2>2, <3>1 DEF ReadComm
      <3> QED BY <2>1, <3>1, <3>2 DEF Left, Visited
    <2>3. CASE ReadFdinfoDir
      <3>1. /\ phase = "list" /\ phase' = "fds" /\ UNCHANGED <<pids, cur>>
            /\ slots' = {s \in Slots : files[cur.pid][s] # Closed}
        BY <2>3 DEF ReadFdinfoDir
      <3>2. k.pid = cur.pid => Held(k) \cap slots' = Held(k)
        BY <3>1, KeyType, FileFacts DEF Held
      <3> QED BY <2>1, <3>1, <3>2 DEF Left, Visited
    <2>4. CASE NextProcess
      <3>1. phase = "fds" /\ phase' = "pids" /\ slots = {} /\ UNCHANGED <<pids, cur>>
        BY <2>4 DEF NextProcess
      <3>2. cur.pid \notin pids
        BY <3>1 DEF IInv, Place
      <3> QED BY <2>1, <3>1, <3>2 DEF Left, Visited
    <2>5. CASE EndScan
      BY <2>1, <2>5 DEF EndScan, Left, Visited
    <2> QED BY <2>2, <2>3, <2>4, <2>5
  <1> QED BY <1>1, <1>2, BoundedStays DEF Current, Shown

LEMMA CurrentParse ==
  ASSUME IInv, Current, ParseFdinfo
  PROVE  Current'
  <1> USE DEF system
  <1>1. UNCHANGED <<comm, files, phase, pids, cur, before, changed>> /\ phase = "fds"
    BY DEF ParseFdinfo
  <1>2. PICK s \in slots :
          LET f == files[cur.pid][s] IN
          /\ slots' = slots \ {s}
          /\ procs' = IF f.drv \in Intel THEN [procs EXCEPT ![KeyOf(f)] = Added(@, f)] ELSE procs
    BY DEF ParseFdinfo
  <1>3. PICK f : f = files[cur.pid][s]
    OBVIOUS
  <1>4. /\ slots' = slots \ {s} /\ s \in Slots
        /\ procs' = IF f.drv \in Intel THEN [procs EXCEPT ![KeyOf(f)] = Added(@, f)] ELSE procs
    BY <1>2, <1>3 DEF IInv, Types
  <1>5. cur.pid \in Pids /\ cur.pid \notin pids /\ cur.comm \in Names /\ procs \in [Key -> Sum]
    BY <1>1 DEF IInv, Types, Place
  <1>6. f \in File /\ f.use \in Nat
    <2>1. f \in File
      BY <1>3, <1>4, <1>5 DEF IInv, Types
    <2> QED BY <2>1, FileFacts
  <1>7. ASSUME NEW k \in Key, NEW c \in Shown(k)
        PROVE  IF f.drv = k.drv /\ k.pid = cur.pid /\ k.comm = cur.comm
               THEN Value(k, c)' = Value(k, c) + f.use ELSE Value(k, c)' = Value(k, c)
    <2>1. /\ KeyOf(f).pid = cur.pid /\ KeyOf(f).comm = cur.comm /\ KeyOf(f).drv = f.drv
          /\ f.drv \in Intel => KeyOf(f) \in Key
      BY <1>5 DEF KeyOf, Key
    <2>2. f.drv \in Intel /\ k = KeyOf(f) <=> f.drv = k.drv /\ k.pid = cur.pid /\ k.comm = cur.comm
      BY <2>1, KeyType, KeysDiffer DEF Intel
    <2>3. procs'[k] = IF f.drv \in Intel /\ k = KeyOf(f) THEN Added(procs[k], f) ELSE procs[k]
      BY <1>4, <1>5, <2>1
    <2>4. PICK x \in Sum : x = procs[k]
      BY <1>5
    <2>5. /\ "engine" \in Shows[f.drv] => Added(x, f).engine = x.engine + f.use
          /\ "cycles" \in Shows[f.drv] => Added(x, f).cycles = x.cycles + f.use
      BY DEF Added, Sum
    <2>6. c \in Shows[k.drv] /\ (c = "engine" \/ c = "cycles")
      BY DEF Shown
    <2> QED BY <2>2, <2>3, <2>4, <2>5, <2>6 DEF Value
  <1>8. ASSUME NEW k \in Key, k.pid \notin changed, NEW c \in Shown(k), Bounded(k, c)
        PROVE  Bounded(k, c)'
    <2>1. /\ Uses(k.pid)' = Uses(k.pid) /\ Held(k)' = Held(k) /\ (Visited(k.pid)' <=> Visited(k.pid))
          /\ comm'[k.pid] = comm[k.pid] /\ before'[k] = before[k]
      BY <1>1 DEF Uses, Held, Visited
    <2>2. k.pid = cur.pid => cur.comm = comm[k.pid] /\ ~Visited(k.pid)
      BY <1>1, <1>8 DEF IInv, Listed, Visited
    <2>3. CASE k.pid # cur.pid
      <3>1. Left(k)' = Left(k) /\ Value(k, c)' = Value(k, c)
        BY <1>1, <1>7, <2>1, <2>3 DEF Left
      <3> QED BY <1>8, <2>1, <3>1 DEF Bounded
    <2>4. CASE k.pid = cur.pid /\ comm[k.pid] # k.comm
      <3>1. Value(k, c)' = Value(k, c)
        BY <1>7, <2>2, <2>4
      <3> QED BY <1>8, <2>1, <2>4, <3>1 DEF Bounded
    <2>5. CASE k.pid = cur.pid /\ comm[k.pid] = k.comm
      <3>1. Left(k) = Held(k) \cap slots /\ Left(k)' = Left(k) \ {s}
        BY <1>1, <1>4, <2>1, <2>2, <2>5 DEF Left
      <3>2. s \in Held(k) <=> f.drv = k.drv
        BY <1>3, <1>4, <2>5 DEF Held
      <3>3. CASE f.drv # k.drv
        <4>1. Left(k)' = Left(k) /\ Value(k, c)' = Value(k, c)
          BY <1>7, <3>1, <3>2, <3>3
        <4> QED BY <1>8, <2>1, <4>1 DEF Bounded
      <3>4. CASE f.drv = k.drv
        <4>1. Value(k, c)' = Value(k, c) + f.use
          BY <1>7, <2>2, <2>5, <3>4
        <4>2. s \in Left(k) /\ Left(k) \subseteq Slots
          BY <1>2, <3>1, <3>2, <3>4 DEF Held
        <4> DEFINE A == Held(k) \ Left(k)
                   B == Held(k) \ (Left(k) \ {s})
        <4>3. A \subseteq Slots /\ B \subseteq Slots /\ s \in B /\ B \ {s} = A
          BY <3>1, <4>2 DEF Held
        <4> HIDE DEF A, B
        <4>4. PICK w : w = Uses(k.pid)
          OBVIOUS
        <4>5. w[s] = f.use /\ IsFiniteSet(Slots) /\ (\A r \in Slots : w[r] \in Nat)
          BY <1>3, <1>4, <2>5, <4>4, UsesFacts DEF IInv
        <4>6. /\ SumFunctionOnSet(w, Left(k)) = f.use + SumFunctionOnSet(w, Left(k) \ {s})
              /\ SumFunctionOnSet(w, B) = f.use + SumFunctionOnSet(w, A)
          BY <4>2, <4>3, <4>5, SumTakes
        <4>7. /\ SumFunctionOnSet(w, Left(k) \ {s}) \in Nat
              /\ SumFunctionOnSet(w, A) \in Nat /\ Value(k, c) \in Nat /\ before[k] \in Nat
          <5>1. Left(k) \ {s} \subseteq Slots
            BY <4>2
          <5> QED BY <4>3, <4>5, <5>1, SumType, UsesFacts DEF IInv, Current
        <4>8. /\ before[k] <= Value(k, c) + SumFunctionOnSet(w, Left(k))
              /\ Value(k, c) <= SumFunctionOnSet(w, A)
          BY <1>8, <2>5, <4>4 DEF Bounded, A
        <4>9. /\ before[k] <= (Value(k, c) + f.use) + SumFunctionOnSet(w, Left(k) \ {s})
              /\ Value(k, c) + f.use <= SumFunctionOnSet(w, B)
          BY <1>6, <4>6, <4>7, <4>8
        <4> QED BY <2>1, <2>5, <3>1, <4>1, <4>4, <4>9 DEF Bounded, B
      <3> QED BY <3>3, <3>4
    <2> QED BY <2>3, <2>4, <2>5
  <1> QED BY <1>1, <1>8 DEF Current, Shown

LEMMA CurrentStep == IInv /\ Current /\ [Next]_vars => Current'
  <1> SUFFICES ASSUME IInv, Current, [Next]_vars PROVE Current'
    OBVIOUS
  <1>1. IInv'
    BY InvarianceStep
  <1>2. CASE Emit
    BY <1>2 DEF Emit, Current
  <1>3. CASE UNCHANGED vars
    <2>1. /\ UNCHANGED <<comm, files, phase, procs, before, changed>>
          /\ \A k : Left(k)' = Left(k) /\ Shown(k)' = Shown(k)
      BY <1>3 DEF vars, system, scan, Left, Visited, Held, Shown
    <2> QED BY <2>1, BoundedStays DEF Current
  <1> QED BY <1>1, <1>2, <1>3, CurrentChange, CurrentUse, CurrentReadProc, CurrentMoves, CurrentParse
          DEF Next, Scan, Environment

(* What a scan publishes for a process that keeps its name and its         *)
(* descriptors is a use it had during that scan, whatever it and others    *)
(* add meanwhile (Update in fdinfo.go).                                    *)
THEOREM ValuesAreCurrent == Spec => []SteadyIsCurrent
  <1>1. Init => Current
    BY DEF Init, Current
  <1>2. IInv /\ Current => SteadyIsCurrent
    <2> SUFFICES ASSUME IInv, Current, phase = "emit", NEW k \in Key, k.pid \notin changed,
                        NEW c \in Shown(k)
                 PROVE  before[k] <= Value(k, c) /\ Value(k, c) <= Use(k)
      BY DEF SteadyIsCurrent
    <2>1. Bounded(k, c) /\ Left(k) = {} /\ Held(k) \ Left(k) = Held(k)
      BY DEF Current, Left, Visited, IInv, Place
    <2>2. Use(k) = IF comm[k.pid] # k.comm THEN 0 ELSE SumFunctionOnSet(Uses(k.pid), Held(k))
      BY DEF Use, Uses
    <2>3. SumFunctionOnSet(Uses(k.pid), {}) = 0 /\ Value(k, c) \in Nat
      BY SumOfNothing, UsesFacts DEF IInv
    <2> QED BY <2>1, <2>2, <2>3 DEF Bounded
  <1> QED BY <1>1, <1>2, CurrentStep, Invariance, PTL DEF Spec

-----------------------------------------------------------------------------
(* TotalIsElapsed is violated by a process that opens an xe device twice:  *)
(* the clock is added once for each descriptor.  Never more often, so that *)
(* it holds when every key has one descriptor.                             *)
OncePerFile == \A k \in Key : procs[k].total <= procs[k].fds * clock

LEMMA Products ==
  ASSUME NEW n \in Nat, NEW c \in Nat
  PROVE  /\ n * c \in Nat /\ (n + 1) * c = n * c + c
         /\ n * c <= n * (c + 1) /\ 1 * c = c
  OBVIOUS

LEMMA OncePerFileStep == IInv /\ OncePerFile /\ [Next]_vars => OncePerFile'
  <1> SUFFICES ASSUME IInv, OncePerFile, [Next]_vars PROVE OncePerFile'
    OBVIOUS
  <1>1. \A k \in Key : procs[k] \in Sum /\ procs[k].fds \in Nat /\ procs[k].total \in Nat
    BY DEF IInv, Types, Sum
  <1>2. clock \in Nat
    BY DEF IInv, Types
  <1>3. CASE UNCHANGED <<procs, clock>>
    BY <1>3 DEF OncePerFile
  <1>4. CASE ReadProc
    <2>1. /\ clock' = clock /\ 0 <= 0 * clock
          /\ \A k \in Key : procs'[k].fds = 0 /\ procs'[k].total = 0
      BY <1>2, <1>4 DEF ReadProc, system, Nothing
    <2> QED BY <2>1 DEF OncePerFile
  <1>5. CASE procs' = procs /\ clock' = clock + 1
    <2>1. ASSUME NEW k \in Key PROVE procs[k].total <= procs[k].fds * (clock + 1)
      <3>1. procs[k].fds * clock \in Nat /\ procs[k].fds * (clock + 1) \in Nat
              /\ procs[k].fds * clock <= procs[k].fds * (clock + 1)
        BY <1>1, <1>2, Products
      <3> QED BY <1>1, <3>1 DEF OncePerFile
    <2> QED BY <1>5, <2>1 DEF OncePerFile
  <1>6. CASE ParseFdinfo
    <2>1. PICK s \in slots :
            LET f == files[cur.pid][s] IN
            procs' = IF f.drv \in Intel THEN [procs EXCEPT ![KeyOf(f)] = Added(@, f)] ELSE procs
      BY <1>6 DEF ParseFdinfo
    <2> DEFINE f == files[cur.pid][s]
    <2>2. clock' = clock /\ procs \in [Key -> Sum]
      BY <1>6 DEF ParseFdinfo, system, IInv, Types
    <2>3. \A k \in Key : /\ Added(procs[k], f).fds = procs[k].fds + 1
                         /\ \/ Added(procs[k], f).total = procs[k].total
                            \/ Added(procs[k], f).total = procs[k].total + clock
      BY <1>1, <1>2 DEF Added, Sum
    <2> HIDE DEF f
    <2>4. \A k \in Key : procs'[k] = procs[k] \/ procs'[k] = Added(procs[k], f)
      BY <2>1, <2>2 DEF f
    <2>5. ASSUME NEW k \in Key PROVE procs'[k].total <= procs'[k].fds * clock
      <3>1. /\ procs[k].fds * clock \in Nat
            /\ (procs[k].fds + 1) * clock = procs[k].fds * clock + clock
        BY <1>1, <1>2, Products
      <3>2. procs[k].total <= procs[k].fds * clock
        BY DEF OncePerFile
      <3> QED BY <1>1, <1>2, <2>3, <2>4, <3>1, <3>2
    <2> QED BY <2>2, <2>5 DEF OncePerFile
  <1> QED BY <1>3, <1>4, <1>5, <1>6
          DEF Next, Scan, Environment, OpenFile, CloseFile, Rename, UseGpu, ReadComm,
              ReadFdinfoDir, NextProcess, EndScan, Emit, system, scan, vars

(* A published total is at most one clock for each descriptor of its key,  *)
(* so it is right for every process that has opened the device once        *)
(* (Update in fdinfo.go).                                                  *)
THEOREM OneDescriptorIsRight ==
  Spec => []((\A k \in kept : procs[k].fds = 1) => TotalIsElapsed)
  <1>1. Init => OncePerFile
    BY Products, FdinfoAssumption DEF Init, OncePerFile, Nothing, FdinfoAssumption
  <1>2. IInv /\ Capped /\ OncePerFile => ((\A k \in kept : procs[k].fds = 1) => TotalIsElapsed)
    <2> SUFFICES ASSUME IInv, Capped, OncePerFile, phase = "emit", NEW k \in kept, procs[k].fds = 1
                 PROVE  procs[k].total <= clock
      BY DEF TotalIsElapsed
    <2>1. k \in Key /\ clock \in Nat
      BY CapFacts DEF Capped, IInv, Types
    <2> QED BY <2>1, Products DEF OncePerFile
  <1> QED BY <1>1, <1>2, OncePerFileStep, Invariance, PTL DEF Spec

(* BusiestAreKept is violated by clients that show cycles only and so have *)
(* no engine time; among clients that show their time the cap does keep    *)
(* the busiest (topNByActivity).                                           *)
THEOREM BusiestByTime ==
  Spec => []((\A k \in Found : "engine" \in Shown(k)) => BusiestAreKept)
  <1>1. IInv /\ Capped => ((\A k \in Found : "engine" \in Shown(k)) => BusiestAreKept)
    <2> SUFFICES ASSUME IInv, Capped, \A k \in Found : "engine" \in Shown(k), phase = "emit",
                        NEW k \in kept, NEW d \in Found \ kept
                 PROVE  Busy(k) >= Busy(d)
      BY DEF BusiestAreKept
    <2>1. k \in Found
      BY CapFacts DEF Capped
    <2>2. Busy(k) = procs[k].engine /\ Busy(d) = procs[d].engine
      BY <2>1 DEF Busy, Value
    <2>3. procs[k].engine >= procs[d].engine
      BY ByTime DEF CapIsByEngineTime, IInv
    <2> QED BY <2>2, <2>3
  <1> QED BY <1>1, Invariance, PTL
=============================================================================
