--------------------------- MODULE ExporterProofs ---------------------------
(***************************************************************************)
(* Proofs about Exporter, for any number of scrapes, any timeouts and any  *)
(* grace.  Why a foreign value needs a late deadline: the PMU is closed    *)
(* when Shutdown has returned, which it does when nothing collects or when *)
(* the grace is over; and what collects then has its deadline still ahead. *)
(***************************************************************************)
EXTENDS Exporter, TLAPS

(* main is past Shutdown, on the way that the defers take.                 *)
Past == main \in {"stop", "close", "return"} \/ (main = "exited" /\ code = 0)

(* The PMU is closed last, and only then can a read go astray.             *)
ClosedLast ==
  /\ fds \in {"closed", "reused"} => main \in {"return", "exited"}
  /\ \A r \in Requests : upd[r] = "foreign" => fds = "reused"

(* Nothing connects any more once Shutdown has been called.                *)
Deaf == main = "shutdown" \/ Past => listener \in {"failed", "closed"}

(* Before the server starts, and after an early end, there are no scrapes. *)
NoServer ==
  /\ code # 0 => main = "exited"
  /\ main \in {"discover", "registry", "start"} \/ code = 1 =>
       listener = "off" /\ \A r \in Requests : req[r] = "none"

(* What Shutdown waited for.                                               *)
Waited == Past /\ ~grace => Quiescent

(* The shutdown context expires after the grace, and deadlines are heeded. *)
GraceIsLate ==
  grace => main \notin {"discover", "registry", "start", "serve"} /\ now >= down + Grace
Punctual == \A r \in Requests : req[r] = "collect" => now <= Deadline(r)

(* A published value is that of a request that was read.                   *)
WasRead == \A r \in Requests : published[r] # "none" => req[r] \notin {"none", "conn"}

(* Inductive: every part is needed by the one after it.                    *)
IInv ==
  /\ TypeOK /\ ClosedLast /\ Deaf /\ NoServer /\ Waited /\ GraceIsLate /\ Punctual
  /\ WasRead /\ NoForeignValue

-----------------------------------------------------------------------------
LEMMA InitIInv == Init => IInv
<1> SUFFICES ASSUME Init PROVE IInv  OBVIOUS
<1> USE DEF Init
<1>1. TypeOK  BY DEF TypeOK, Values, Killed
<1>2. ClosedLast /\ Deaf /\ NoServer /\ Waited
  BY DEF ClosedLast, Deaf, NoServer, Waited, Past, Quiescent, Killed
<1>3. GraceIsLate /\ Punctual /\ WasRead /\ NoForeignValue
  BY DEF GraceIsLate, Punctual, WasRead, NoForeignValue
<1> QED  BY <1>1, <1>2, <1>3 DEF IInv

LEMMA StepIInv == IInv /\ [Next]_vars => IInv'
<1> SUFFICES ASSUME IInv, [Next]_vars PROVE IInv'  OBVIOUS
<1> timeout \in Nat /\ Grace \in Nat  BY ExporterAssumption DEF IInv, TypeOK
<1> USE DEF IInv, TypeOK, ClosedLast, Deaf, NoServer, Waited, Past, Quiescent, GraceIsLate,
            Punctual, WasRead, NoForeignValue, Values, Killed, Deadline, program, server, pmu,
            clock, Alive
<1>1. CASE Discover  BY <1>1 DEF Discover
<1>2. CASE NewRegistry  BY <1>2 DEF NewRegistry
<1>3. CASE StartTop  BY <1>3 DEF StartTop
<1>4. CASE Shutdown  BY <1>4 DEF Shutdown
<1>5. CASE ShutdownReturns
  <2>1. Waited'  BY <1>5 DEF ShutdownReturns   \* it returned for one of the two reasons
  <2>2. GraceIsLate' /\ NoForeignValue'  BY <1>5 DEF ShutdownReturns
  <2> QED  BY <1>5, <2>1, <2>2 DEF ShutdownReturns
<1>6. CASE StopTop  BY <1>6 DEF StopTop
<1>7. CASE ClosePMU
  <2>1. ClosedLast'  BY <1>7 DEF ClosePMU   \* nobody has read a foreign value yet
  <2>2. Waited'  BY <1>7 DEF ClosePMU
  <2> QED  BY <1>7, <2>1, <2>2 DEF ClosePMU
<1>8. CASE Exit  BY <1>8 DEF Exit
<1>9. CASE Signal  BY <1>9 DEF Signal, Caught
<1>10. CASE Kill  BY <1>10 DEF Kill, Caught
<1>11. CASE GraceOver
  <2>1. GraceIsLate'  BY <1>11 DEF GraceOver
  <2>2. NoForeignValue'  BY <1>11 DEF GraceOver
  <2> QED  BY <1>11, <2>1, <2>2 DEF GraceOver
<1>12. CASE Listen  BY <1>12 DEF Listen
<1>13. CASE KillTop  BY <1>13 DEF KillTop
<1>14. CASE TopDies  BY <1>14 DEF TopDies
<1>15. CASE ReuseFd  BY <1>15 DEF ReuseFd
<1>16. CASE Tick
  <2>1. TypeOK'  BY <1>16 DEF Tick
  <2>2. Punctual'  BY <1>16 DEF Tick      \* no deadline is passed over
  <2>3. GraceIsLate'  BY <1>16 DEF Tick
  <2>4. NoForeignValue'  BY <1>16 DEF Tick
  <2> QED  BY <1>16, <2>1, <2>2, <2>3, <2>4 DEF Tick
<1>17. ASSUME NEW r \in Requests, Connect(r) PROVE IInv'
  <2>1. ~Past  BY <1>17 DEF Connect          \* the server listens, or main still serves
  <2>2. WasRead'  BY <1>17 DEF Connect
  <2> QED  BY <1>17, <2>1, <2>2 DEF Connect
<1>18. ASSUME NEW r \in Requests, Begin(r) PROVE IInv'
  <2>1. published[r] = "none"  BY <1>18 DEF Begin
  <2>2. Punctual'  BY <1>18 DEF Begin
  <2>3. NoForeignValue'  BY <1>18, <2>1 DEF Begin
  <2>4. Waited'  BY <1>18 DEF Begin        \* a connection was open, so the grace is over
  <2> QED  BY <1>18, <2>1, <2>2, <2>3, <2>4 DEF Begin
<1>19. ASSUME NEW r \in Requests, CloseIdle(r) PROVE IInv'  BY <1>19 DEF CloseIdle
<1>20. ASSUME NEW r \in Requests, CopyEvents(r) PROVE IInv'  BY <1>20 DEF CopyEvents
<1>21. ASSUME NEW r \in Requests, ReadEvent(r) PROVE IInv'  BY <1>21 DEF ReadEvent
<1>22. ASSUME NEW r \in Requests, SendValue(r) PROVE IInv'
  <2>1. NoForeignValue'
    <3>1. SUFFICES ASSUME req[r] = "collect", upd[r] = "foreign"
                   PROVE  grace /\ Deadline(r) >= down + Grace
      BY <1>22 DEF SendValue
    <3>2. Past  BY <1>22, <3>1 DEF SendValue   \* the descriptor is closed, and main alive
    <3>3. grace  BY <3>1, <3>2     \* not everybody had been answered
    <3>4. now >= down + Grace /\ now <= Deadline(r)  BY <3>1, <3>3
    <3> QED  BY <3>3, <3>4
  <2>2. WasRead'  BY <1>22 DEF SendValue
  <2> QED  BY <1>22, <2>1, <2>2 DEF SendValue
<1>23. ASSUME NEW r \in Requests, CollectReturns(r) PROVE IInv'  BY <1>23 DEF CollectReturns
<1>24. ASSUME NEW r \in Requests, Respond(r) PROVE IInv'  BY <1>24 DEF Respond
<1>25. CASE UNCHANGED vars  BY <1>25 DEF vars
<1> QED
  BY <1>1, <1>2, <1>3, <1>4, <1>5, <1>6, <1>7, <1>8, <1>9, <1>10, <1>11, <1>12,
     <1>13, <1>14, <1>15, <1>16, <1>17, <1>18, <1>19, <1>20, <1>21, <1>22, <1>23, <1>24, <1>25 DEF Next, Main

-----------------------------------------------------------------------------
LEMMA Invariance == Spec => []IInv
<1>1. Init => IInv  BY InitIInv
<1>2. IInv /\ [Next]_vars => IInv'  BY StepIInv
<1> QED  BY <1>1, <1>2, PTL DEF Spec

(* Every variable has its type; an active PMU source did open.             *)
THEOREM TypeCorrect == Spec => []TypeOK
<1>1. IInv => TypeOK  BY DEF IInv
<1> QED  BY <1>1, Invariance, PTL

(* A scrape publishes a value read from a descriptor that Close had given  *)
(* back only if its deadline reaches to the end of the grace, whatever the *)
(* timeout and the grace are and whenever it begins.                       *)
THEOREM NoForeignValues == Spec => []NoForeignValue
<1>1. IInv => NoForeignValue  BY DEF IInv
<1> QED  BY <1>1, Invariance, PTL

(* A regular exit within the grace leaves no request that was read         *)
(* unanswered.                                                             *)
THEOREM AcceptedAreAnswered == Spec => []AcceptedIsAnswered
<1>1. IInv => AcceptedIsAnswered
  BY DEF IInv, TypeOK, Waited, NoServer, Past, Quiescent, AcceptedIsAnswered, Killed
<1> QED  BY <1>1, Invariance, PTL
=============================================================================
