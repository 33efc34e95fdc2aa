----------------------------- MODULE PmuProofs -----------------------------
(***************************************************************************)
(* Proofs about Pmu, for any events, descriptor table and number of        *)
(* concurrent Updates.                                                     *)
(***************************************************************************)
EXTENDS Pmu, TLAPS

(* What the lock protects: open and Close are never under way together,    *)
(* Close works through p.events, and open has one descriptor in its hands. *)
LockInv ==
  /\ owner # "open" => cur = {}
  /\ owner # "close" => closing = {}
  /\ closing \subseteq events
  /\ \A h, k \in cur : h = k

(* open never meets an event twice.                                        *)
TodoInv ==
  /\ owner = "open" => \A h \in events \cup cur : h.ev \notin todo
  /\ \A h \in events, k \in cur : h.ev # k.ev

IInv == TypeOK /\ LockInv /\ TodoInv /\ OwnsItsDescriptors /\ OneHandlePerEvent

-----------------------------------------------------------------------------
LEMMA InitIInv == Init => IInv
  BY PmuAssumption
  DEF Init, IInv, TypeOK, LockInv, TodoInv, OwnsItsDescriptors, OneHandlePerEvent, Owned, Handle

LEMMA StepIInv == IInv /\ [Next]_vars => IInv'
<1> SUFFICES ASSUME IInv, [Next]_vars PROVE IInv'  OBVIOUS
<1> USE PmuAssumption DEF IInv, TypeOK, LockInv, TodoInv, OwnsItsDescriptors,
                          OneHandlePerEvent, Owned, Handle, Free, Lowest,
                          opening, reading
<1>1. CASE Available
  <2>1. TypeOK'  BY <1>1 DEF Available
  <2>2. LockInv'  BY <1>1 DEF Available
  <2>3. TodoInv'  BY <1>1 DEF Available
  <2>4. OwnsItsDescriptors'  BY <1>1 DEF Available
  <2>5. OneHandlePerEvent'  BY <1>1 DEF Available
  <2> QED  BY <2>1, <2>2, <2>3, <2>4, <2>5
<1>2. CASE PerfEventOpen
  <2>1. TypeOK'  BY <1>2 DEF PerfEventOpen
  <2>2. LockInv'  BY <1>2 DEF PerfEventOpen
  <2>3. TodoInv'  BY <1>2 DEF PerfEventOpen
  <2>4. OwnsItsDescriptors'
    <3>1. CASE UNCHANGED <<table, cur>>  BY <1>2, <3>1 DEF PerfEventOpen
    <3>2. ASSUME NEW e \in todo, NEW f \in Fds, Lowest(f),
                 table' = [table EXCEPT ![f] = e], cur' = {[ev |-> e, fd |-> f]}
          PROVE  OwnsItsDescriptors'
      <4>1. Owned = events /\ Owned' = events \cup {[ev |-> e, fd |-> f]}
        BY <1>2, <3>2 DEF PerfEventOpen
      <4>2. \A h \in events : h.fd # f /\ h.fd \in Fds /\ table[h.fd] = h.ev
        BY <3>2, <4>1
      <4>3. \A h \in Owned' : table'[h.fd] = h.ev  BY <3>2, <4>1, <4>2
      <4>4. \A i \in Fds : table'[i] \in Events =>
                             [ev |-> table'[i], fd |-> i] \in Owned'
        BY <3>2, <4>1
      <4> QED  BY <4>3, <4>4
    <3> QED  BY <1>2, <3>1, <3>2 DEF PerfEventOpen
  <2>5. OneHandlePerEvent'  BY <1>2 DEF PerfEventOpen
  <2> QED  BY <2>1, <2>2, <2>3, <2>4, <2>5
<1>3. CASE Ioctl
  <2>1. TypeOK'  BY <1>3 DEF Ioctl
  <2>2. LockInv'  BY <1>3 DEF Ioctl
  <2>3. TodoInv'  BY <1>3 DEF Ioctl
  <2>4. OwnsItsDescriptors'
    <3>1. CASE UNCHANGED <<table, cur>>  BY <1>3, <3>1 DEF Ioctl
    <3>2. ASSUME NEW h \in cur, table' = [table EXCEPT ![h.fd] = "free"], cur' = {}
          PROVE  OwnsItsDescriptors'
      <4>1. Owned = events \cup {h} /\ Owned' = events  BY <1>3, <3>2 DEF Ioctl
      <4>2. \A k \in events : k.fd # h.fd /\ k.fd \in Fds /\ table[k.fd] = k.ev
        BY <3>2, <4>1
      <4>3. \A k \in Owned' : table'[k.fd] = k.ev  BY <3>2, <4>1, <4>2
      <4>4. \A i \in Fds : table'[i] \in Events =>
                             [ev |-> table'[i], fd |-> i] \in Owned'
        BY <3>2, <4>1
      <4> QED  BY <4>3, <4>4
    <3> QED  BY <1>3, <3>1, <3>2 DEF Ioctl
  <2>5. OneHandlePerEvent'  BY <1>3 DEF Ioctl
  <2> QED  BY <2>1, <2>2, <2>3, <2>4, <2>5
<1>4. CASE AppendEvent
  <2>1. TypeOK'  BY <1>4 DEF AppendEvent
  <2>2. LockInv'  BY <1>4 DEF AppendEvent
  <2>3. TodoInv'  BY <1>4 DEF AppendEvent
  <2>4. OwnsItsDescriptors'  BY <1>4 DEF AppendEvent
  <2>5. OneHandlePerEvent'  BY <1>4 DEF AppendEvent
  <2> QED  BY <2>1, <2>2, <2>3, <2>4, <2>5
<1>5. CASE EndOpen
  <2>1. TypeOK'  BY <1>5 DEF EndOpen
  <2>2. LockInv'  BY <1>5 DEF EndOpen
  <2>3. TodoInv'  BY <1>5 DEF EndOpen
  <2>4. OwnsItsDescriptors'  BY <1>5 DEF EndOpen
  <2>5. OneHandlePerEvent'  BY <1>5 DEF EndOpen
  <2> QED  BY <2>1, <2>2, <2>3, <2>4, <2>5
<1>6. CASE Close
  <2>1. TypeOK'  BY <1>6 DEF Close
  <2>2. LockInv'  BY <1>6 DEF Close
  <2>3. TodoInv'  BY <1>6 DEF Close
  <2>4. OwnsItsDescriptors'  BY <1>6 DEF Close
  <2>5. OneHandlePerEvent'  BY <1>6 DEF Close
  <2> QED  BY <2>1, <2>2, <2>3, <2>4, <2>5
<1>7. CASE CloseFd
  <2>1. TypeOK'  BY <1>7 DEF CloseFd
  <2>2. LockInv'  BY <1>7 DEF CloseFd
  <2>3. TodoInv'  BY <1>7 DEF CloseFd
  <2>4. OwnsItsDescriptors'  BY <1>7 DEF CloseFd
  <2>5. OneHandlePerEvent'  BY <1>7 DEF CloseFd
  <2> QED  BY <2>1, <2>2, <2>3, <2>4, <2>5
<1>8. CASE EndClose
  <2>1. TypeOK'  BY <1>8 DEF EndClose
  <2>2. LockInv'  BY <1>8 DEF EndClose
  <2>3. TodoInv'  BY <1>8 DEF EndClose
  <2>4. OwnsItsDescriptors'  BY <1>8 DEF EndClose
  <2>5. OneHandlePerEvent'  BY <1>8 DEF EndClose
  <2> QED  BY <2>1, <2>2, <2>3, <2>4, <2>5
<1>9. CASE OtherOpen
  <2>1. TypeOK'  BY <1>9 DEF OtherOpen
  <2>2. LockInv'  BY <1>9 DEF OtherOpen
  <2>3. TodoInv'  BY <1>9 DEF OtherOpen
  <2>4. OwnsItsDescriptors'  BY <1>9 DEF OtherOpen
  <2>5. OneHandlePerEvent'  BY <1>9 DEF OtherOpen
  <2> QED  BY <2>1, <2>2, <2>3, <2>4, <2>5
<1>10. CASE OtherClose
  <2>1. TypeOK'  BY <1>10 DEF OtherClose
  <2>2. LockInv'  BY <1>10 DEF OtherClose
  <2>3. TodoInv'  BY <1>10 DEF OtherClose
  <2>4. OwnsItsDescriptors'  BY <1>10 DEF OtherClose
  <2>5. OneHandlePerEvent'  BY <1>10 DEF OtherClose
  <2> QED  BY <2>1, <2>2, <2>3, <2>4, <2>5
<1>11. ASSUME NEW u \in Updaters, UpdateCopy(u) PROVE IInv'  BY <1>11 DEF UpdateCopy
<1>12. ASSUME NEW u \in Updaters, UpdateRead(u) PROVE IInv'  BY <1>12 DEF UpdateRead
<1>13. ASSUME NEW u \in Updaters, UpdateEnd(u) PROVE IInv'  BY <1>13 DEF UpdateEnd
<1>14. CASE UNCHANGED vars  BY <1>14 DEF vars
<1> QED  BY <1>1, <1>2, <1>3, <1>4, <1>5, <1>6, <1>7, <1>8, <1>9, <1>10, <1>11, <1>12, <1>13, <1>14
     DEF Next, Open, Shut, Update

-----------------------------------------------------------------------------
(* In every execution IInv holds in every state.                           *)
THEOREM InductiveInvariant == Spec => []IInv
<1> QED  BY InitIInv, StepIInv, PTL DEF Spec

(* Every variable of the PMU source keeps its type.                        *)
THEOREM TypeCorrect == Spec => []TypeOK
<1>1. IInv => TypeOK  BY DEF IInv
<1> QED  BY <1>1, InductiveInvariant, PTL

(* The source leaks no perf descriptor and holds none that is not its own. *)
THEOREM DescriptorsOwned == Spec => []OwnsItsDescriptors
<1>1. IInv => OwnsItsDescriptors  BY DEF IInv
<1> QED  BY <1>1, InductiveInvariant, PTL

(* No event is open twice.                                                 *)
THEOREM HandlesDistinct == Spec => []OneHandlePerEvent
<1>1. IInv => OneHandlePerEvent  BY DEF IInv
<1> QED  BY <1>1, InductiveInvariant, PTL

(* No step of open, of an Update or of the rest of the process takes a     *)
(* descriptor from an Update: a copy begins with what the source owns,     *)
(* and from then on only its owners free it.                               *)
LEMMA CopyStep ==
  ASSUME IInv, [Next]_vars, NEW u \in Updaters, NEW h \in copied'[u],
         h \notin copied[u] \/ table[h.fd] = h.ev
  PROVE  table'[h.fd] = h.ev \/ h \in closing \cup cur
<1> USE PmuAssumption DEF IInv, TypeOK, LockInv, OwnsItsDescriptors, Owned, Handle
<1>1. ASSUME UNCHANGED reading PROVE h \in Handle /\ table[h.fd] = h.ev
  <2>1. copied'[u] = copied[u]  BY <1>1 DEF reading
  <2> QED  BY <2>1
<1>2. CASE UNCHANGED <<table, reading>>
  <2> QED  BY <1>1, <1>2
<1>3. CASE PerfEventOpen \/ OtherOpen
  <2>1. UNCHANGED reading  BY <1>3 DEF PerfEventOpen, OtherOpen
  <2>2. h \in Handle /\ table[h.fd] = h.ev  BY <1>1, <2>1
  <2>3. CASE UNCHANGED table  BY <2>2, <2>3
  <2>4. ASSUME NEW f \in Fds, NEW v, Lowest(f), table' = [table EXCEPT ![f] = v]
        PROVE  table'[h.fd] = h.ev
    <3>1. table[f] = "free"  BY <2>4 DEF Lowest, Free
    <3>2. h.fd # f  BY <2>2, <3>1
    <3> QED  BY <2>2, <2>4, <3>2
  <2> QED  BY <1>3, <2>3, <2>4 DEF PerfEventOpen, OtherOpen
<1>4. CASE Ioctl \/ CloseFd
  <2>1. UNCHANGED reading  BY <1>4 DEF Ioctl, CloseFd
  <2>2. h \in Handle /\ table[h.fd] = h.ev  BY <1>1, <2>1
  <2>3. CASE UNCHANGED table  BY <2>2, <2>3
  <2>4. ASSUME NEW k \in closing \cup cur, table' = [table EXCEPT ![k.fd] = "free"]
        PROVE  table'[h.fd] = h.ev \/ h \in closing \cup cur
    <3>1. CASE h.fd # k.fd  BY <2>2, <2>4, <3>1
    <3>2. CASE h.fd = k.fd
      <4>1. k \in Owned
        BY <2>4
      <4>2. table[k.fd] = k.ev  BY <4>1
      <4>3. k \in Handle  BY <2>4
      <4>4. h = k  BY <2>2, <3>2, <4>2, <4>3
      <4> QED  BY <2>4, <4>4
    <3> QED  BY <3>1, <3>2
  <2> QED  BY <1>4, <2>3, <2>4 DEF Ioctl, CloseFd
<1>5. CASE OtherClose
  <2>1. UNCHANGED reading  BY <1>5 DEF OtherClose
  <2>2. h \in Handle /\ table[h.fd] = h.ev  BY <1>1, <2>1
  <2> QED  BY <1>5, <2>2 DEF OtherClose
<1>6. ASSUME NEW v \in Updaters, UpdateCopy(v) PROVE table'[h.fd] = h.ev
  <2>1. CASE h \in copied[u]  BY <1>6, <2>1 DEF UpdateCopy
  <2>2. CASE h \notin copied[u]
    <3>1. h \in events  BY <1>6, <2>2 DEF UpdateCopy
    <3> QED  BY <1>6, <3>1 DEF UpdateCopy
  <2> QED  BY <2>1, <2>2
<1>7. ASSUME NEW v \in Updaters, UpdateRead(v) \/ UpdateEnd(v) PROVE table'[h.fd] = h.ev
  <2>1. copied'[u] \subseteq copied[u]  BY <1>7 DEF UpdateRead, UpdateEnd
  <2>2. UNCHANGED table  BY <1>7 DEF UpdateRead, UpdateEnd
  <2> QED  BY <2>1, <2>2
<1>8. Available \/ AppendEvent \/ EndOpen \/ Close \/ EndClose \/ UNCHANGED vars
        => UNCHANGED <<table, reading>>
  BY DEF Available, AppendEvent, EndOpen, Close, EndClose, vars
<1> QED  BY <1>2, <1>3, <1>4, <1>5, <1>6, <1>7, <1>8 DEF Next, Open, Shut, Update

(* Update reads without the lock, yet only a Close can take from it what   *)
(* it copied.                                                              *)
THEOREM CopiesStayOpen == Spec => OpenUntilClosed
<1>1. IInv /\ [Next]_vars =>
        [\A u \in Updaters : \A h \in copied'[u] :
           h \notin copied[u] \/ table[h.fd] = h.ev =>
             table'[h.fd] = h.ev \/ h \in closing \cup cur]_vars
  BY CopyStep
<1> QED  BY <1>1, InductiveInvariant, PTL DEF Spec, OpenUntilClosed
=============================================================================
