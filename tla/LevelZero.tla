----------------------------- MODULE LevelZero -----------------------------
(***************************************************************************)
(* The Level Zero client and source (internal/levelzero/, internal/        *)
(* collector/levelzero.go).  The loader library is opened and bound once;  *)
(* Open walks drivers, devices and the handles of each kind, every list in *)
(* two calls (how many? fill this many) between which the hardware may     *)
(* change; Update then reads the cached handles, scrape after scrape.  Any *)
(* call into the library may fail.                                         *)
(*                                                                         *)
(* Open is a walk over nested loops: work is what it still has to call, in *)
(* order.  Several Updates may overlap, but they share only what Open has  *)
(* built and nobody changes, so one at a time shows all they can do.       *)
(***************************************************************************)
EXTENDS Naturals, Sequences, FiniteSets

CONSTANTS
  Nodes,      \* drivers, devices and handles that may exist (numbers from 1)
  World,      \* [node -> its parent (0 for a driver), kind, subdevice, type]
  KindOrder,  \* the kinds of handles, in the order they are enumerated
  Symbols,    \* the functions loadLibrary binds, in order
  MaxChanges  \* bound: nodes that come or go while Open runs

Kinds   == {KindOrder[k] : k \in DOMAIN KindOrder}
Indexed == {"power", "freq", "mem"}    \* labelled by position; others by type
Drivers == {n \in Nodes : World[n].kind = "driver"}
Devices == {n \in Nodes : World[n].kind = "device"}
Handles == {n \in Nodes : World[n].kind \in Kinds}

Distinct(s) == \A i, j \in DOMAIN s : s[i] = s[j] => i = j

(* A driver has devices, a device has handles. *)
ASSUME LevelZeroAssumption ==
  /\ Nodes \subseteq Nat \ {0} /\ IsFiniteSet(Nodes) /\ MaxChanges \in Nat
  /\ KindOrder \in Seq(STRING \ {"driver", "device"}) /\ Distinct(KindOrder)
  /\ Symbols \in Seq(STRING)
  /\ Nodes = Drivers \cup Devices \cup Handles
  /\ \A n \in Drivers : World[n].parent = 0
  /\ \A n \in Devices : World[n].parent \in Drivers
  /\ \A n \in Handles : World[n].parent \in Devices

VARIABLES
  here,     \* nodes that exist
  changes,  \* how many have come or gone
  touched,  \* history: the lists they have come or gone from
  bound,    \* functions of fns that are bound
  pc,       \* "load", "init", "open", "ready" or "off" (not available)
  work,     \* Open: the calls it still has to make
  asked,    \* list: the count of its first call, or 0 before it
  devs,     \* c.devices, by node
  pci,      \* PCIBus: the device itself, or 0 for the empty string
  ents,     \* the handles of each device and kind, with their labels
  failed,   \* history: lists that failed
  todo,     \* Update: the positions it has still to read
  sent,     \* Update: what it has sent, as series and the node it is about
  meaning   \* history: what any Update has sent

machine == <<here, changes, touched>>
client  == <<devs, pci, ents, failed>>
update  == <<todo, sent, meaning>>
vars    == <<machine, bound, pc, work, asked, client, update>>

List(p, k) == [op |-> "list", of |-> p, kind |-> k]
Device(d)  == [op |-> "device", of |-> d, kind |-> "device"]
Props(h)   == [op |-> "props", of |-> h, kind |-> World[h].kind]

(* What the library lists, and the ways it may fill a list of n places. *)
Children(l) == {n \in here : World[n].parent = l.of /\ World[n].kind = l.kind}
Fillings(l, n) ==
  LET c == Cardinality(Children(l))
  IN {hs \in [1..(IF c < n THEN c ELSE n) -> Children(l)] : Distinct(hs)}

Init ==
  /\ here \in {S \in SUBSET Nodes : Cardinality(Nodes \ S) <= MaxChanges}
  /\ changes = 0 /\ touched = {} /\ bound = {} /\ pc = "load"
  /\ work = <<List(0, "driver")>> /\ asked = 0
  /\ devs = <<>> /\ pci = [d \in Devices |-> 0]
  /\ ents = [d \in Devices |-> [k \in Kinds |-> <<>>]] /\ failed = {}
  /\ todo = {} /\ sent = <<>> /\ meaning = {}

-----------------------------------------------------------------------------
(* A driver is loaded or unloaded, a device or one of its parts comes or   *)
(* goes, while Open runs.                                                  *)
Change(n) ==
  /\ pc = "open" /\ changes < MaxChanges
  /\ here' = IF n \in here THEN here \ {n} ELSE here \cup {n}
  /\ changes' = changes + 1
  /\ touched' = touched \cup {List(World[n].parent, World[n].kind)}
  /\ UNCHANGED <<bound, pc, work, asked, client, update>>

-----------------------------------------------------------------------------
(* loadLibrary and the beginning of Open.                                  *)

Load ==            \* dlopen may fail; bind stops at the first missing symbol
  /\ pc = "load"
  /\ \E n \in 0..Len(Symbols) : bound' = {Symbols[i] : i \in 1..n}
  /\ pc' = IF bound' = {Symbols[i] : i \in DOMAIN Symbols} THEN "init" ELSE "off"
  /\ UNCHANGED <<machine, work, asked, client, update>>

ZesInit ==
  /\ pc = "init"
  /\ pc' \in {"open", "off"}
  /\ UNCHANGED <<machine, bound, work, asked, client, update>>

-----------------------------------------------------------------------------
(* list, for every level of the walk.                                      *)

MutBelow(l, hs) ==   \* mutant: the closure sees the first driver only
  [i \in DOMAIN hs |-> CASE l.kind = "driver" -> List(hs[1], "device")
                         [] l.kind = "device" -> Device(hs[i])
                         [] OTHER -> Props(hs[i])]

(* What Open goes on with once list has returned hs for l. *)
Below(l, hs) ==
  [i \in DOMAIN hs |-> CASE l.kind = "driver" -> List(hs[i], "device")
                         [] l.kind = "device" -> Device(hs[i])
                         [] OTHER -> Props(hs[i])]

Listing == pc = "open" /\ work # <<>> /\ Head(work).op = "list"

Count ==           \* the first call; a count of zero needs no second one
  /\ Listing /\ asked = 0
  /\ LET n == Cardinality(Children(Head(work))) IN
       IF n = 0 THEN work' = Tail(work) /\ UNCHANGED asked
                ELSE asked' = n /\ UNCHANGED work
  /\ UNCHANGED <<machine, bound, pc, client, update>>

MutFill ==         \* mutant: out instead of out[:count], for devices
  /\ Listing /\ asked # 0
  /\ \E hs \in Fillings(Head(work), asked) :
       LET out == [i \in 1..asked |-> IF i \in DOMAIN hs THEN hs[i] ELSE 0]
       IN work' = Below(Head(work), IF Head(work).kind = "device" THEN out ELSE hs) \o Tail(work)
  /\ asked' = 0
  /\ UNCHANGED <<machine, bound, pc, client, update>>

Fill ==            \* the second call; it may return fewer than were counted
  /\ Listing /\ asked # 0
  /\ \E hs \in Fillings(Head(work), asked) : work' = Below(Head(work), hs) \o Tail(work)
  /\ asked' = 0
  /\ UNCHANGED <<machine, bound, pc, client, update>>

MutListFails ==    \* mutant: Open gives up at the first device list that fails
  /\ Listing
  /\ failed' = failed \cup {Head(work)} /\ asked' = 0
  /\ IF Head(work).kind = "driver" THEN pc' = "off" /\ UNCHANGED work
     ELSE work' = <<>> /\ UNCHANGED pc
  /\ UNCHANGED <<machine, bound, devs, pci, ents, update>>

ListFails ==       \* either call: Open ends at the drivers, else goes on
  /\ Listing
  /\ failed' = failed \cup {Head(work)} /\ asked' = 0
  /\ IF Head(work).kind = "driver" THEN pc' = "off" /\ UNCHANGED work
     ELSE work' = Tail(work) /\ UNCHANGED pc
  /\ UNCHANGED <<machine, bound, devs, pci, ents, update>>

-----------------------------------------------------------------------------
(* enumerateDevice: properties, each of which may be refused.              *)

EnumerateDevice == \* its address, then a list of each kind
  /\ pc = "open" /\ work # <<>> /\ Head(work).op = "device"
  /\ LET d == Head(work).of IN
       /\ devs' = Append(devs, d)
       /\ \E p \in {0, d} : pci' = [pci EXCEPT ![d] = p]
       /\ work' = [k \in DOMAIN KindOrder |-> List(d, KindOrder[k])] \o Tail(work)
  /\ UNCHANGED <<machine, bound, pc, asked, ents, failed, update>>

Entry(h, ok) == [node |-> h, sub |-> IF ok THEN World[h].sub ELSE "root",
                 type |-> IF ok THEN World[h].type ELSE "unknown"]

Properties ==      \* without its properties a handle is still read
  /\ pc = "open" /\ work # <<>> /\ Head(work).op = "props"
  /\ LET h == Head(work).of IN
       \E ok \in BOOLEAN :
         ents' = [ents EXCEPT ![World[h].parent][World[h].kind] = Append(@, Entry(h, ok))]
  /\ work' = Tail(work)
  /\ UNCHANGED <<machine, bound, pc, asked, devs, pci, failed, update>>

Opened ==          \* the source is available when there is a device
  /\ pc = "open" /\ work = <<>>
  /\ pc' = IF devs = <<>> THEN "off" ELSE "ready"
  /\ UNCHANGED <<machine, bound, work, asked, client, update>>

-----------------------------------------------------------------------------
(* Update.                                                                 *)

(* Places in devs, in KindOrder and in a list of handles, and their order. *)
Positions ==
  UNION {{[dev |-> d, kind |-> k, pos |-> i] : i \in DOMAIN ents[devs[d]][KindOrder[k]]}
           : d \in DOMAIN devs, k \in DOMAIN KindOrder}
Before(p, q) ==
  \/ p.dev < q.dev
  \/ p.dev = q.dev /\ p.kind < q.kind
  \/ p.dev = q.dev /\ p.kind = q.kind /\ p.pos < q.pos

EntryAt(p) == ents[devs[p.dev]][KindOrder[p.kind]][p.pos]

MutSeries(p) ==    \* mutant: positions are counted over what could be read
  LET k == KindOrder[p.kind]
  IN [kind |-> k, pci |-> pci[devs[p.dev]], sub |-> EntryAt(p).sub,
      key |-> IF k \in Indexed THEN Len(sent) ELSE EntryAt(p).type]

(* The labels of the series of one handle (its families share them). *)
Series(p) ==
  LET k == KindOrder[p.kind]
  IN [kind |-> k, pci |-> pci[devs[p.dev]], sub |-> EntryAt(p).sub,
      key |-> IF k \in Indexed THEN p.pos ELSE EntryAt(p).type]

StartUpdate ==     \* of the next scrape
  /\ pc = "ready" /\ todo = {}
  /\ todo' = Positions /\ sent' = <<>>
  /\ UNCHANGED <<machine, bound, pc, work, asked, client, meaning>>

AtHand(p) == pc = "ready" /\ p \in todo /\ \A q \in todo \ {p} : Before(p, q)

Read(p) ==
  /\ AtHand(p)
  /\ LET m == [series |-> Series(p), node |-> EntryAt(p).node]
     IN sent' = Append(sent, m) /\ meaning' = meaning \cup {m}
  /\ todo' = todo \ {p}
  /\ UNCHANGED <<machine, bound, pc, work, asked, client>>

ReadFails(p) ==    \* the handle is passed over
  /\ AtHand(p)
  /\ todo' = todo \ {p}
  /\ UNCHANGED <<machine, bound, pc, work, asked, client, sent, meaning>>

-----------------------------------------------------------------------------
Next ==
  \/ Load \/ ZesInit \/ Count \/ Fill \/ ListFails
  \/ EnumerateDevice \/ Properties \/ Opened
  \/ StartUpdate \/ \E p \in todo : Read(p) \/ ReadFails(p)
  \/ \E n \in Nodes : Change(n)

Spec == Init /\ [][Next]_vars

-----------------------------------------------------------------------------
(* Properties.                                                             *)

(* Every variable has its type; in particular no handle is the null        *)
(* pointer of a place in a list that was counted but not filled.           *)
TypeOK ==
  /\ here \subseteq Nodes /\ changes \in 0..MaxChanges
  /\ bound \subseteq {Symbols[i] : i \in DOMAIN Symbols} /\ pc \in {"load", "init", "open", "ready", "off"}
  /\ asked \in 0..Cardinality(Nodes)
  /\ devs \in Seq(Devices) /\ pci \in [Devices -> Devices \cup {0}]
  /\ \A d \in Devices, k \in Kinds : \A i \in DOMAIN ents[d][k] : ents[d][k][i].node \in Nodes

(* However lists fail, shrink and grow, no device or handle is taken twice *)
(* and each handle is kept under the device and the kind it belongs to.    *)
HandlesAreReal ==
  /\ Distinct(devs)
  /\ \A d \in Devices, k \in Kinds :
       LET e == ents[d][k] IN
       /\ \A i, j \in DOMAIN e : e[i].node = e[j].node => i = j
       /\ \A i \in DOMAIN e : World[e[i].node].parent = d /\ World[e[i].node].kind = k

Parent(n)  == IF n = 0 THEN 0 ELSE World[n].parent
Path(n)    == {n, Parent(n), Parent(Parent(n))} \ {0}
ListsOf(n) == {List(Parent(m), World[m].kind) : m \in Path(n)}

(* One list that fails costs only what it lists: everything that exists    *)
(* and hangs on lists that neither failed nor changed while Open ran is    *)
(* served, whatever became of its neighbours.                              *)
OthersAreFound ==
  pc = "ready" =>
    \A n \in here : Path(n) \subseteq here /\ ListsOf(n) \cap (failed \cup touched) = {} =>
      CASE World[n].kind = "driver" -> TRUE
        [] World[n].kind = "device" -> \E i \in DOMAIN devs : devs[i] = n
        [] OTHER -> LET e == ents[World[n].parent][World[n].kind]
                    IN \E i \in DOMAIN e : e[i].node = n

(* A series labelled by position is about the same handle in every scrape, *)
(* also when handles before it could not be read, and no two handles share *)
(* one, as long as the device has told its PCI address.                    *)
IndexedSeriesKeepTheirHandle ==
  \A a, b \in meaning :
    a.series = b.series /\ a.series.kind \in Indexed /\ a.series.pci # 0 => a.node = b.node

(* One Update never sends the same series twice, which would make Gather   *)
(* refuse the whole scrape, when the library has told the address and the  *)
(* type: docs/levelzero.md promises engine times "per group".              *)
UniqueSeries ==
  \A i, j \in DOMAIN sent :
    sent[i].series = sent[j].series /\ sent[i].series.pci # 0
      /\ sent[i].series.key # "unknown" => i = j
=============================================================================
