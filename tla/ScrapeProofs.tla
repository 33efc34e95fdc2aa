---------------------------- MODULE ScrapeProofs ----------------------------
(***************************************************************************)
(* Proofs about Scrape, for any set of sources, any number of metrics and  *)
(* any capacity of ch.  The safety properties are not inductive: the       *)
(* strengthening IInv follows each source's forwarder through its program  *)
(* and says at every statement what ch has carried of the source so far.   *)
(***************************************************************************)
EXTENDS Scrape, FiniteSetTheorems, TLAPS

(* How many of the updater's sends have been received.                     *)
Received(s) == IF g[s].upd = "send" THEN g[s].sent - 1 ELSE g[s].sent

(* wg counts the forwarders that run; Collect and Gather wait for them.    *)
WaitInv ==
  /\ \A s \in Sources : s \in wg <=> g[s].fwd \notin {"none", "done"}
  /\ cpc # "spawn" => \A s \in Sources : g[s].fwd # "none"
  /\ cpc = "returned" => wg = {}
  /\ outClosed => cpc = "returned"

(* The updater lives and fills errc before sch is seen closed; only a      *)
(* forwarder that has given up leaves sch to a drainer.                    *)
UpdaterInv(s) ==
  /\ g[s].fwd = "none" => g[s].upd = "none" /\ g[s].sent = 0
  /\ g[s].upd = "send" => g[s].sent > 0
  /\ g[s].fwd \in {"select", "forward"} /\ g[s].upd \in {"close", "done"}
       => g[s].errc # "empty"
  /\ g[s].drn # "none" =>
       g[s].fwd \in {"duration", "success", "done"} /\ g[s].err = "err"

(* What ch has carried of the metrics of the source.                       *)
MetricInv(s) ==
  /\ g[s].fwd = "select" =>
       \A n \in 1..Received(s) : Metric(s, n) \in Delivered
  /\ g[s].fwd = "forward" =>
       /\ g[s].m = Received(s) /\ g[s].m > 0
       /\ \A n \in 1..(g[s].m - 1) : Metric(s, n) \in Delivered
  /\ g[s].fwd \in {"duration", "success", "done"} /\ g[s].err = "nil" =>
       /\ g[s].upd = "done"
       /\ \A n \in 1..g[s].sent : Metric(s, n) \in Delivered

(* What ch has carried of the verdict on the source.                       *)
VerdictInv(s) ==
  /\ g[s].fwd # "done" => \A b \in {0, 1} : Success(s, b) \notin Delivered
  /\ g[s].fwd \in {"success", "done"} => Duration(s) \in Delivered
  /\ g[s].fwd = "done" =>
       \A b \in {0, 1} : Success(s, b) \in Delivered <=> b = Verdict(s)

SourceInv(s) == UpdaterInv(s) /\ MetricInv(s) /\ VerdictInv(s)

IInv == TypeOK /\ WaitInv /\ \A s \in Sources : SourceInv(s)

-----------------------------------------------------------------------------
LEMMA InitIInv == Init => IInv
<1> SUFFICES ASSUME Init PROVE IInv  OBVIOUS
<1>1. TypeOK  BY DEF Init, TypeOK, Goroutines
<1>2. WaitInv  BY DEF Init, WaitInv
<1>3. ASSUME NEW s \in Sources PROVE SourceInv(s)
  <2> Delivered = {}  BY DEF Init, Delivered
  <2> QED  BY DEF Init, SourceInv, UpdaterInv, MetricInv, VerdictInv, Received
<1> QED  BY <1>1, <1>2, <1>3 DEF IInv

-----------------------------------------------------------------------------
(* The channel and its messages.                                           *)

LEMMA PutDelivers ==
  ASSUME NEW m, Put(m)
  PROVE  Delivered' = Delivered \cup {m} /\ outClosed' = outClosed
  BY DEF Put, Delivered

LEMMA QuietChannel ==
  ASSUME UNCHANGED ch
  PROVE  Delivered' = Delivered /\ outClosed' = outClosed
  BY DEF ch, Delivered

LEMMA MessagesInType ==
  ASSUME NEW s \in Sources, NEW n \in Nat
  PROVE  {Metric(s, n), Duration(s), Success(s, n)} \subseteq Message
  BY DEF Metric, Duration, Success, Message

LEMMA PutTypes ==
  ASSUME NEW m \in Message, Put(m), out \subseteq Message, got \subseteq Message
  PROVE  out' \subseteq Message /\ got' \subseteq Message
  BY DEF Put

-----------------------------------------------------------------------------
LEMMA TypeStep == IInv /\ [Next]_vars => TypeOK'
<1> SUFFICES ASSUME IInv, [Next]_vars PROVE TypeOK'  OBVIOUS
<1> USE DEF TypeOK, Goroutines, ch
<1>0. TypeOK  BY DEF IInv
<1>1. CASE EndSpawn  BY <1>0, <1>1 DEF EndSpawn
<1>2. CASE Return  BY <1>0, <1>2 DEF Return
<1>3. CASE Timeout  BY <1>0, <1>3 DEF Timeout
<1>4. CASE GatherReceive  BY <1>0, <1>4 DEF GatherReceive
<1>5. CASE GatherClose  BY <1>0, <1>5 DEF GatherClose
<1>6. ASSUME NEW t \in Sources, Spawn(t) PROVE TypeOK'
  <2>1. g[t] \in Goroutines  BY <1>0
  <2>2. g' \in [Sources -> Goroutines]  BY <1>0, <1>6, <2>1 DEF Spawn
  <2> QED  BY <1>0, <1>6, <2>2 DEF Spawn
<1>7. ASSUME NEW t \in Sources, Receive(t) PROVE TypeOK'  BY <1>0, <1>7 DEF Receive
<1>8. ASSUME NEW t \in Sources, Forward(t) PROVE TypeOK'
  <2>1. Metric(t, g[t].m) \in Message  BY <1>0, MessagesInType DEF Verdict
  <2>2. out' \subseteq Message /\ got' \subseteq Message
    BY <1>0, <1>8, <2>1, PutTypes DEF Forward
  <2> QED  BY <1>0, <1>8, <2>2 DEF Forward, Put
<1>9. ASSUME NEW t \in Sources, SourceEnded(t) PROVE TypeOK'
  <2>1. g[t].errc \in {"nil", "err"}  BY <1>0, <1>9 DEF IInv, SourceInv, UpdaterInv, SourceEnded
  <2> QED  BY <1>0, <1>9, <2>1 DEF SourceEnded
<1>10. ASSUME NEW t \in Sources, Deadline(t) PROVE TypeOK'
  <2>1. g[t] \in Goroutines  BY <1>0
  <2>2. g' \in [Sources -> Goroutines]  BY <1>0, <1>10, <2>1 DEF Deadline
  <2> QED  BY <1>0, <1>10, <2>2 DEF Deadline
<1>11. ASSUME NEW t \in Sources, SendDuration(t) PROVE TypeOK'
  <2>1. Duration(t) \in Message  BY <1>0, MessagesInType DEF Verdict
  <2>2. out' \subseteq Message /\ got' \subseteq Message
    BY <1>0, <1>11, <2>1, PutTypes DEF SendDuration
  <2> QED  BY <1>0, <1>11, <2>2 DEF SendDuration, Put
<1>12. ASSUME NEW t \in Sources, SendSuccess(t) PROVE TypeOK'
  <2>1. Success(t, Verdict(t)) \in Message  BY <1>0, MessagesInType DEF Verdict
  <2>2. out' \subseteq Message /\ got' \subseteq Message
    BY <1>0, <1>12, <2>1, PutTypes DEF SendSuccess
  <2> QED  BY <1>0, <1>12, <2>2 DEF SendSuccess, Put
<1>13. ASSUME NEW t \in Sources, Drain(t) PROVE TypeOK'  BY <1>0, <1>13 DEF Drain
<1>14. ASSUME NEW t \in Sources, DrainEnd(t) PROVE TypeOK'  BY <1>0, <1>14 DEF DrainEnd
<1>15. ASSUME NEW t \in Sources, UpdateSend(t) PROVE TypeOK'  BY <1>0, <1>15 DEF UpdateSend
<1>16. ASSUME NEW t \in Sources, UpdateReturn(t) PROVE TypeOK'
  <2>1. g[t] \in Goroutines  BY <1>0
  <2>2. PICK e \in {"nil", "err"} :
               g' = [g EXCEPT ![t].upd = "close", ![t].errc = e]
    BY <1>16 DEF UpdateReturn
  <2>3. g' \in [Sources -> Goroutines]  BY <1>0, <2>1, <2>2
  <2> QED  BY <1>0, <1>16, <2>3 DEF UpdateReturn
<1>17. ASSUME NEW t \in Sources, UpdateClose(t) PROVE TypeOK'  BY <1>0, <1>17 DEF UpdateClose
<1>18. CASE UNCHANGED vars  BY <1>0, <1>18 DEF vars
<1> QED  BY <1>1, <1>2, <1>3, <1>4, <1>5, <1>6, <1>7, <1>8, <1>9, <1>10, <1>11, <1>12, <1>13, <1>14, <1>15, <1>16, <1>17, <1>18
     DEF Next, Forwarder, Drainer, Gather

-----------------------------------------------------------------------------
LEMMA WaitStep == IInv /\ [Next]_vars => WaitInv'
<1> SUFFICES ASSUME IInv, [Next]_vars PROVE WaitInv'  OBVIOUS
<1> USE DEF TypeOK, WaitInv, ch, Goroutines
<1>0. TypeOK /\ WaitInv  BY DEF IInv
<1>1. CASE EndSpawn  BY <1>0, <1>1 DEF EndSpawn
<1>2. CASE Return  BY <1>0, <1>2 DEF Return
<1>3. CASE Timeout  BY <1>0, <1>3 DEF Timeout
<1>4. CASE GatherReceive  BY <1>0, <1>4 DEF GatherReceive
<1>5. CASE GatherClose  BY <1>0, <1>5 DEF GatherClose
<1>6. ASSUME NEW t \in Sources, Spawn(t) PROVE WaitInv'  BY <1>0, <1>6 DEF Spawn
<1>7. ASSUME NEW t \in Sources, Receive(t) PROVE WaitInv'  BY <1>0, <1>7 DEF Receive
<1>8. ASSUME NEW t \in Sources, Forward(t) PROVE WaitInv'  BY <1>0, <1>8 DEF Forward, Put
<1>9. ASSUME NEW t \in Sources, SourceEnded(t) PROVE WaitInv'  BY <1>0, <1>9 DEF SourceEnded
<1>10. ASSUME NEW t \in Sources, Deadline(t) PROVE WaitInv'  BY <1>0, <1>10 DEF Deadline
<1>11. ASSUME NEW t \in Sources, SendDuration(t) PROVE WaitInv'  BY <1>0, <1>11 DEF SendDuration, Put
<1>12. ASSUME NEW t \in Sources, SendSuccess(t) PROVE WaitInv'  BY <1>0, <1>12 DEF SendSuccess, Put
<1>13. ASSUME NEW t \in Sources, Drain(t) PROVE WaitInv'  BY <1>0, <1>13 DEF Drain
<1>14. ASSUME NEW t \in Sources, DrainEnd(t) PROVE WaitInv'  BY <1>0, <1>14 DEF DrainEnd
<1>15. ASSUME NEW t \in Sources, UpdateSend(t) PROVE WaitInv'  BY <1>0, <1>15 DEF UpdateSend
<1>16. ASSUME NEW t \in Sources, UpdateReturn(t) PROVE WaitInv'  BY <1>0, <1>16 DEF UpdateReturn
<1>17. ASSUME NEW t \in Sources, UpdateClose(t) PROVE WaitInv'  BY <1>0, <1>17 DEF UpdateClose
<1>18. CASE UNCHANGED vars  BY <1>0, <1>18 DEF vars
<1> QED  BY <1>1, <1>2, <1>3, <1>4, <1>5, <1>6, <1>7, <1>8, <1>9, <1>10, <1>11, <1>12, <1>13, <1>14, <1>15, <1>16, <1>17, <1>18
     DEF Next, Forwarder, Drainer, Gather

-----------------------------------------------------------------------------
LEMMA SourceStep ==
  ASSUME IInv, [Next]_vars, NEW s \in Sources
  PROVE  SourceInv(s)'
<1> USE DEF TypeOK, Goroutines, SourceInv, UpdaterInv, MetricInv, VerdictInv, Received,
            Verdict
<1>0. TypeOK /\ SourceInv(s)  BY DEF IInv
<1>1. CASE EndSpawn
  <2>1. Delivered' = Delivered  BY <1>1 DEF EndSpawn, ch, Delivered
  <2> QED  BY <1>0, <1>1, <2>1 DEF EndSpawn
<1>2. CASE Return
  <2>1. Delivered' = Delivered  BY <1>2 DEF Return, ch, Delivered
  <2> QED  BY <1>0, <1>2, <2>1 DEF Return
<1>3. CASE Timeout
  <2>1. Delivered' = Delivered  BY <1>3 DEF Timeout, ch, Delivered
  <2> QED  BY <1>0, <1>3, <2>1 DEF Timeout
<1>4. CASE GatherClose
  <2>1. Delivered' = Delivered  BY <1>4 DEF GatherClose, ch, Delivered
  <2> QED  BY <1>0, <1>4, <2>1 DEF GatherClose
<1>5. CASE GatherReceive
  <2>1. Delivered' = Delivered  BY <1>5 DEF GatherReceive, Delivered
  <2> QED  BY <1>0, <1>5, <2>1 DEF GatherReceive
<1>6. ASSUME NEW t \in Sources, Spawn(t) PROVE SourceInv(s)'
  <2>1. Delivered' = Delivered  BY <1>6, QuietChannel DEF Spawn
  <2> QED  BY <1>0, <1>6, <2>1 DEF Spawn
<1>7. ASSUME NEW t \in Sources, Receive(t) PROVE SourceInv(s)'
  <2>1. Delivered' = Delivered  BY <1>7, QuietChannel DEF Receive
  <2> QED  BY <1>0, <1>7, <2>1 DEF Receive
<1>8. ASSUME NEW t \in Sources, Forward(t) PROVE SourceInv(s)'
  <2>1. Delivered' = Delivered \cup {Metric(t, g[t].m)}  BY <1>8, PutDelivers DEF Forward
  <2> QED  BY <1>0, <1>8, <2>1 DEF Forward, Metric, Duration, Success
<1>9. ASSUME NEW t \in Sources, SourceEnded(t) PROVE SourceInv(s)'
  <2>1. Delivered' = Delivered  BY <1>9, QuietChannel DEF SourceEnded
  <2> QED  BY <1>0, <1>9, <2>1 DEF SourceEnded
<1>10. ASSUME NEW t \in Sources, Deadline(t) PROVE SourceInv(s)'
  <2>1. Delivered' = Delivered  BY <1>10, QuietChannel DEF Deadline
  <2> QED  BY <1>0, <1>10, <2>1 DEF Deadline
<1>11. ASSUME NEW t \in Sources, SendDuration(t) PROVE SourceInv(s)'
  <2>1. Delivered' = Delivered \cup {Duration(t)}  BY <1>11, PutDelivers DEF SendDuration
  <2> QED  BY <1>0, <1>11, <2>1 DEF SendDuration, Metric, Duration, Success
<1>12. ASSUME NEW t \in Sources, SendSuccess(t) PROVE SourceInv(s)'
  <2>1. Delivered' = Delivered \cup {Success(t, Verdict(t))}  BY <1>12, PutDelivers DEF SendSuccess
  <2> QED  BY <1>0, <1>12, <2>1 DEF SendSuccess, Metric, Duration, Success
<1>13. ASSUME NEW t \in Sources, Drain(t) PROVE SourceInv(s)'
  <2>1. Delivered' = Delivered  BY <1>13, QuietChannel DEF Drain
  <2> QED  BY <1>0, <1>13, <2>1 DEF Drain
<1>14. ASSUME NEW t \in Sources, DrainEnd(t) PROVE SourceInv(s)'
  <2>1. Delivered' = Delivered  BY <1>14, QuietChannel DEF DrainEnd
  <2> QED  BY <1>0, <1>14, <2>1 DEF DrainEnd
<1>15. ASSUME NEW t \in Sources, UpdateSend(t) PROVE SourceInv(s)'
  <2>1. Delivered' = Delivered  BY <1>15, QuietChannel DEF UpdateSend
  <2> QED  BY <1>0, <1>15, <2>1 DEF UpdateSend
<1>16. ASSUME NEW t \in Sources, UpdateReturn(t) PROVE SourceInv(s)'
  <2>1. Delivered' = Delivered  BY <1>16, QuietChannel DEF UpdateReturn
  <2> QED  BY <1>0, <1>16, <2>1 DEF UpdateReturn
<1>17. ASSUME NEW t \in Sources, UpdateClose(t) PROVE SourceInv(s)'
  <2>1. Delivered' = Delivered  BY <1>17, QuietChannel DEF UpdateClose
  <2> QED  BY <1>0, <1>17, <2>1 DEF UpdateClose
<1>18. CASE UNCHANGED vars
  <2>1. Delivered' = Delivered  BY <1>18 DEF vars, ch, Delivered
  <2> QED  BY <1>0, <1>18, <2>1 DEF vars
<1> QED  BY <1>1, <1>2, <1>3, <1>4, <1>5, <1>6, <1>7, <1>8, <1>9, <1>10, <1>11, <1>12, <1>13, <1>14, <1>15, <1>16, <1>17, <1>18
     DEF Next, Forwarder, Drainer, Gather

-----------------------------------------------------------------------------
(* In every execution, for all constants, IInv holds in every state.       *)
THEOREM InductiveInvariant == Spec => []IInv
<1>1. IInv /\ [Next]_vars => IInv'  BY TypeStep, WaitStep, SourceStep DEF IInv
<1> QED  BY InitIInv, <1>1, PTL DEF Spec

(* Every variable of the scrape keeps its type.                            *)
THEOREM TypeCorrect == Spec => []TypeOK
<1>1. IInv => TypeOK  BY DEF IInv
<1> QED  BY <1>1, InductiveInvariant, PTL

(* No goroutine of the scrape ever sends on the channel Gather has closed: *)
(* the wait group holds Collect until the last forwarder has sent its      *)
(* verdict, and neither updaters nor drainers touch ch.                    *)
THEOREM NoPanic == Spec => []NoSendOnClosed
<1>1. IInv => NoSendOnClosed  BY DEF IInv, WaitInv, NoSendOnClosed
<1> QED  BY <1>1, InductiveInvariant, PTL

(* A source reported successful has ended, and ch has carried everything   *)
(* it sent.                                                                *)
THEOREM SuccessMeansComplete == Spec => []SuccessIsComplete
<1>1. ASSUME IInv, NEW s \in Sources, Success(s, 1) \in Delivered
      PROVE  g[s].upd = "done" /\ \A n \in 1..g[s].sent : Metric(s, n) \in Delivered
  <2>1. VerdictInv(s) /\ MetricInv(s)  BY <1>1 DEF IInv, SourceInv
  <2>2. g[s].fwd = "done"  BY <1>1, <2>1 DEF VerdictInv
  <2>3. g[s].err = "nil"  BY <1>1, <2>1, <2>2 DEF VerdictInv, Verdict
  <2> QED  BY <2>1, <2>2, <2>3 DEF MetricInv
<1>2. IInv => SuccessIsComplete  BY <1>1 DEF SuccessIsComplete
<1> QED  BY <1>2, InductiveInvariant, PTL

(* A scrape that has returned has published one duration and exactly one   *)
(* success value for every source.                                         *)
THEOREM OneVerdict == Spec => []OneVerdictEach
<1>1. ASSUME IInv, cpc = "returned", NEW s \in Sources
      PROVE  /\ Duration(s) \in Delivered
             /\ Cardinality({b \in {0, 1} : Success(s, b) \in Delivered}) = 1
  <2>1. g[s].fwd = "done"  BY <1>1 DEF IInv, TypeOK, WaitInv
  <2>2. VerdictInv(s)  BY <1>1 DEF IInv, SourceInv
  <2>3. Verdict(s) \in {0, 1}  BY DEF Verdict
  <2>4. {b \in {0, 1} : Success(s, b) \in Delivered} = {Verdict(s)}
    BY <2>1, <2>2, <2>3 DEF VerdictInv
  <2> QED  BY <2>1, <2>2, <2>4, FS_Singleton DEF VerdictInv
<1>2. IInv => OneVerdictEach  BY <1>1 DEF OneVerdictEach
<1> QED  BY <1>2, InductiveInvariant, PTL

------------------------------------------------------------------------------
(***************************************************************************)
(* Proof that Scrape implements ScrapeSpec, but for its liveness, which    *)
(* TLC checks: a scrape with its goroutines and channels starts as the     *)
(* abstract one, and its every step is a step of the abstract one or is    *)
(* not seen there.  IInv says what ch has carried at least; Justified says *)
(* what it has carried at most, and where a verdict comes from.            *)
(***************************************************************************)
Ended == {"duration", "success", "done"}     \* the forwarder has left its loop

Justified(s) ==
  /\ g[s].sent <= MaxMetrics[s]
  /\ \A n \in Nat : Metric(s, n) \in Delivered => n \in 1..g[s].sent
  /\ g[s].fwd \in Ended /\ g[s].err = "nil" => g[s].errc = "empty"
  /\ g[s].fwd \in Ended /\ g[s].err = "err" =>
       ctxDone \/ (g[s].upd = "done" /\ g[s].errc = "empty")

JInv == IInv /\ \A s \in Sources : Justified(s)

-----------------------------------------------------------------------------
LEMMA JInvInit == Init => JInv
<1> SUFFICES ASSUME Init PROVE JInv  OBVIOUS
<1>1. IInv  BY InitIInv
<1>2. Delivered = {}  BY DEF Init, Delivered
<1>3. ASSUME NEW s \in Sources PROVE Justified(s)
  <2>1. g[s].fwd = "none" /\ g[s].sent = 0  BY DEF Init
  <2>2. MaxMetrics[s] \in Nat  BY ConstAssumption
  <2> QED  BY <1>2, <2>1, <2>2 DEF Justified, Ended
<1> QED  BY <1>1, <1>3 DEF JInv

LEMMA JustifiedStep ==
  ASSUME JInv, [Next]_vars, NEW s \in Sources
  PROVE  Justified(s)'
<1> USE DEF TypeOK, Goroutines, Justified, Ended
<1>0. TypeOK /\ SourceInv(s) /\ Justified(s) /\ MaxMetrics[s] \in Nat
  BY ConstAssumption DEF JInv, IInv
<1>1. CASE EndSpawn
  <2>1. Delivered' = Delivered  BY <1>1, QuietChannel DEF EndSpawn
  <2> QED  BY <1>0, <1>1, <2>1 DEF EndSpawn
<1>2. CASE Return
  <2>1. Delivered' = Delivered  BY <1>2, QuietChannel DEF Return
  <2> QED  BY <1>0, <1>2, <2>1 DEF Return
<1>3. CASE Timeout
  <2>1. Delivered' = Delivered  BY <1>3, QuietChannel DEF Timeout
  <2> QED  BY <1>0, <1>3, <2>1 DEF Timeout
<1>4. CASE Gather
  <2>1. Delivered' = Delivered /\ g' = g /\ ctxDone' = ctxDone
    BY <1>4 DEF Gather, GatherReceive, GatherClose, Delivered
  <2> QED  BY <1>0, <2>1
<1>6. ASSUME NEW t \in Sources, Spawn(t) PROVE Justified(s)'
  <2>1. Delivered' = Delivered  BY <1>6, QuietChannel DEF Spawn
  <2> QED  BY <1>0, <1>6, <2>1 DEF Spawn
<1>7. ASSUME NEW t \in Sources, Receive(t) PROVE Justified(s)'
  <2>1. Delivered' = Delivered  BY <1>7, QuietChannel DEF Receive
  <2> QED  BY <1>0, <1>7, <2>1 DEF Receive
<1>8. ASSUME NEW t \in Sources, Forward(t) PROVE Justified(s)'
  <2>1. Delivered' = Delivered \cup {Metric(t, g[t].m)}  BY <1>8, PutDelivers DEF Forward
  <2>2. g[t].m \in 1..g[t].sent
    <3>1. g[t].fwd = "forward" /\ MetricInv(t)  BY <1>8 DEF Forward, JInv, IInv, SourceInv
    <3> QED  BY <1>0, <3>1 DEF MetricInv, Received
  <2>3. \A n \in Nat : Metric(s, n) = Metric(t, g[t].m) => s = t /\ n = g[t].m  BY DEF Metric
  <2> QED  BY <1>0, <1>8, <2>1, <2>2, <2>3 DEF Forward
<1>9. ASSUME NEW t \in Sources, SourceEnded(t) PROVE Justified(s)'
  <2>1. Delivered' = Delivered  BY <1>9, QuietChannel DEF SourceEnded
  <2> QED  BY <1>0, <1>9, <2>1 DEF SourceEnded
<1>10. ASSUME NEW t \in Sources, Deadline(t) PROVE Justified(s)'
  <2>1. Delivered' = Delivered  BY <1>10, QuietChannel DEF Deadline
  <2> QED  BY <1>0, <1>10, <2>1 DEF Deadline
<1>11. ASSUME NEW t \in Sources, SendDuration(t) PROVE Justified(s)'
  <2>1. Delivered' = Delivered \cup {Duration(t)}  BY <1>11, PutDelivers DEF SendDuration
  <2>2. \A n \in Nat : Metric(s, n) # Duration(t)  BY DEF Metric, Duration
  <2> QED  BY <1>0, <1>11, <2>1, <2>2 DEF SendDuration
<1>12. ASSUME NEW t \in Sources, SendSuccess(t) PROVE Justified(s)'
  <2>1. Delivered' = Delivered \cup {Success(t, Verdict(t))}  BY <1>12, PutDelivers DEF SendSuccess
  <2>2. \A n \in Nat : Metric(s, n) # Success(t, Verdict(t))  BY DEF Metric, Success
  <2> QED  BY <1>0, <1>12, <2>1, <2>2 DEF SendSuccess
<1>13. ASSUME NEW t \in Sources, Drainer(t) PROVE Justified(s)'
  <2>1. Delivered' = Delivered  BY <1>13, QuietChannel DEF Drainer, Drain, DrainEnd
  <2> QED  BY <1>0, <1>13, <2>1 DEF Drainer, Drain, DrainEnd
<1>15. ASSUME NEW t \in Sources, UpdateSend(t) PROVE Justified(s)'
  <2>1. Delivered' = Delivered  BY <1>15, QuietChannel DEF UpdateSend
  <2> QED  BY <1>0, <1>15, <2>1 DEF UpdateSend
<1>16. ASSUME NEW t \in Sources, UpdateReturn(t) PROVE Justified(s)'
  <2>1. Delivered' = Delivered  BY <1>16, QuietChannel DEF UpdateReturn
  <2>2. ~(g[t].fwd \in Ended /\ g[t].err = "nil")
    BY <1>0, <1>16 DEF UpdateReturn, JInv, IInv, SourceInv, MetricInv
  <2> QED  BY <1>0, <1>16, <2>1, <2>2 DEF UpdateReturn
<1>17. ASSUME NEW t \in Sources, UpdateClose(t) PROVE Justified(s)'
  <2>1. Delivered' = Delivered  BY <1>17, QuietChannel DEF UpdateClose
  <2> QED  BY <1>0, <1>17, <2>1 DEF UpdateClose
<1>18. CASE UNCHANGED vars
  <2>1. Delivered' = Delivered  BY <1>18, QuietChannel DEF vars
  <2> QED  BY <1>0, <1>18, <2>1 DEF vars
<1> QED  BY <1>1, <1>2, <1>3, <1>4, <1>6, <1>7, <1>8, <1>9, <1>10, <1>11, <1>12, <1>13, <1>15, <1>16, <1>17, <1>18
     DEF Next, Forwarder

LEMMA Invariant == Spec => []JInv
<1>1. JInv /\ [Next]_vars => JInv'
  <2> SUFFICES ASSUME JInv, [Next]_vars PROVE JInv'  OBVIOUS
  <2>1. IInv'  BY TypeStep, WaitStep, SourceStep DEF IInv, JInv
  <2> QED  BY <2>1, JustifiedStep DEF JInv
<1> QED  BY JInvInit, <1>1, PTL DEF Spec

-----------------------------------------------------------------------------
(* What the abstract scrape sees of a step.                                *)

LEMMA UnseenOnChannel ==
  ASSUME Delivered' = Delivered
  PROVE  Published' = Published /\ Given' = Given
  BY DEF Published, Given

(* The source s of these lemmas is the one whose goroutines take the step. *)
Seen == <<Offered, Result, Published, Given>>

LEMMA UnseenBy ==
  ASSUME JInv, NEW s \in Sources,
         Receive(s) \/ Deadline(s) \/ SourceEnded(s) \/ Drainer(s) \/ UpdateClose(s) \/ Spawn(s)
  PROVE  UNCHANGED <<Seen, ctxDone>> /\ ((cpc' = "returned") <=> (cpc = "returned"))
<1> USE DEF Spawn, Receive, Deadline, SourceEnded, Drainer, Drain, DrainEnd, UpdateClose
<1>1. Delivered' = Delivered  BY QuietChannel
<1>2. TypeOK /\ SourceInv(s)  BY DEF JInv, IInv
<1>3. Offered' = Offered  BY <1>2 DEF Offered, TypeOK, Goroutines
<1>4. Result' = Result
  BY <1>2 DEF Result, TypeOK, Goroutines, SourceInv, UpdaterInv
<1> QED  BY <1>1, <1>3, <1>4, UnseenOnChannel DEF Seen

LEMMA OfferStep ==
  ASSUME JInv, NEW s \in Sources, UpdateSend(s)
  PROVE  Abstract!Offer(s)
<1>1. TypeOK  BY DEF JInv, IInv
<1>2. Delivered' = Delivered  BY QuietChannel DEF UpdateSend
<1>3. Result' = Result /\ Result[s] = "running"
  BY <1>1 DEF Result, UpdateSend, TypeOK, Goroutines
<1>4. Offered' = [Offered EXCEPT ![s] = @ + 1] /\ Offered[s] < MaxMetrics[s]
  BY <1>1 DEF Offered, UpdateSend, TypeOK, Goroutines
<1> QED  BY <1>2, <1>3, <1>4, UnseenOnChannel DEF Abstract!Offer, UpdateSend

LEMMA FinishStep ==
  ASSUME JInv, NEW s \in Sources, UpdateReturn(s)
  PROVE  Abstract!Finish(s)
<1>1. TypeOK  BY DEF JInv, IInv
<1>2. Delivered' = Delivered  BY QuietChannel DEF UpdateReturn
<1>3. PICK e \in {"nil", "err"} : g' = [g EXCEPT ![s].upd = "close", ![s].errc = e]
  BY DEF UpdateReturn
<1>4. Offered' = Offered  BY <1>1, <1>3 DEF Offered, TypeOK, Goroutines
<1>5. Result[s] = "running" /\ Result' = [Result EXCEPT ![s] = e]
  BY <1>1, <1>3 DEF Result, UpdateReturn, TypeOK, Goroutines
<1> QED  BY <1>2, <1>4, <1>5, UnseenOnChannel DEF Abstract!Finish, UpdateReturn

(* Sending on ch changes nothing but what is published.                    *)
LEMMA SendingLeaves ==
  ASSUME JInv, NEW s \in Sources, Forward(s) \/ SendDuration(s) \/ SendSuccess(s)
  PROVE  UNCHANGED <<Offered, Result, ctxDone, cpc>>
<1>1. TypeOK  BY DEF JInv, IInv
<1> QED  BY <1>1 DEF Offered, Result, TypeOK, Goroutines, Forward, SendDuration, SendSuccess

(* Nothing of a source is published after its verdict.                     *)
LEMMA PublishStep ==
  ASSUME JInv, NEW s \in Sources, Forward(s)
  PROVE  Abstract!Publish(s) \/ UNCHANGED Abstract!vars
<1> DEFINE n == g[s].m
<1>1. Delivered' = Delivered \cup {Metric(s, n)}  BY PutDelivers DEF Forward
<1>2. TypeOK /\ SourceInv(s) /\ Justified(s) /\ g[s].fwd = "forward" /\ MaxMetrics[s] \in Nat
  BY ConstAssumption DEF JInv, IInv, Forward
<1>3. n \in 1..g[s].sent /\ n \in 1..MaxMetrics[s]
  BY <1>2 DEF SourceInv, MetricInv, Received, Justified, TypeOK, Goroutines
<1>4. \A t \in Sources, l \in Nat : Metric(t, l) = Metric(s, n) <=> t = s /\ l = n
  BY DEF Metric
<1>5. Given' = Given
  <2>1. \A t \in Sources, b \in {0, 1} : Success(t, b) # Metric(s, n)  BY DEF Success, Metric
  <2> QED  BY <1>1, <2>1 DEF Given
<1>6. Given[s] = "none"  BY <1>2 DEF Given, SourceInv, VerdictInv
<1>7. Published' = [Published EXCEPT ![s] = @ \cup {n}]
  <2>1. \A t \in Sources : {l \in 1..MaxMetrics[t] : Metric(t, l) \in Delivered'} =
          IF t = s THEN Published[s] \cup {n} ELSE Published[t]
    BY <1>1, <1>3, <1>4 DEF Published
  <2> QED  BY <2>1 DEF Published
<1>8. UNCHANGED <<Offered, Result, ctxDone, cpc>>  BY SendingLeaves
<1>9. CASE n \in Published[s]
  <2>1. Published' = Published  BY <1>7, <1>9 DEF Published
  <2> QED  BY <1>5, <1>8, <2>1 DEF Abstract!vars
<1>10. CASE n \notin Published[s]
  <2>1. n \in (1..Offered[s]) \ Published[s]  BY <1>3, <1>10 DEF Offered
  <2> QED  BY <1>5, <1>6, <1>7, <1>8, <2>1 DEF Abstract!Publish
<1> QED  BY <1>9, <1>10

LEMMA DurationStep ==
  ASSUME JInv, NEW s \in Sources, SendDuration(s)
  PROVE  UNCHANGED Abstract!vars
<1>1. Delivered' = Delivered \cup {Duration(s)}  BY PutDelivers DEF SendDuration
<1>2. Published' = Published
  <2>1. \A t \in Sources, l \in Nat : Metric(t, l) # Duration(s)  BY DEF Duration, Metric
  <2> QED  BY <1>1, <2>1 DEF Published
<1>3. Given' = Given
  <2>1. \A t \in Sources, b \in {0, 1} : Success(t, b) # Duration(s)  BY DEF Duration, Success
  <2> QED  BY <1>1, <2>1 DEF Given
<1> QED  BY <1>2, <1>3, SendingLeaves DEF Abstract!vars

(* The verdict is "ok" only with everything the source offered, "fail"     *)
(* only after an error or the deadline.                                    *)
LEMMA DecideStep ==
  ASSUME JInv, NEW s \in Sources, SendSuccess(s)
  PROVE  Abstract!Decide(s)
<1>1. Delivered' = Delivered \cup {Success(s, Verdict(s))}  BY PutDelivers DEF SendSuccess
<1>2. TypeOK /\ SourceInv(s) /\ Justified(s) /\ g[s].fwd = "success" /\ g[s].err \in {"nil", "err"}
  BY DEF JInv, IInv, SendSuccess, TypeOK, Goroutines
<1>3. Published' = Published
  <2>1. \A t \in Sources, l \in Nat : Metric(t, l) # Success(s, Verdict(s))  BY DEF Success, Metric
  <2> QED  BY <1>1, <2>1 DEF Published
<1>4. Given[s] = "none" /\ Success(s, 0) \notin Delivered /\ Success(s, 1) \notin Delivered
  BY <1>2 DEF Given, SourceInv, VerdictInv
<1>5. \A t \in Sources, b \in {0, 1} : Success(t, b) = Success(s, Verdict(s)) <=> t = s /\ b = Verdict(s)
  BY DEF Success
<1>6. Given' = [Given EXCEPT ![s] = IF g[s].err = "nil" THEN "ok" ELSE "fail"]
  <2> DEFINE gives(t) == IF Success(t, 1) \in Delivered' THEN "ok"
                         ELSE IF Success(t, 0) \in Delivered' THEN "fail" ELSE "none"
  <2>1. \A t \in Sources \ {s} : gives(t) = Given[t]
    BY <1>1, <1>5 DEF Given
  <2>2. gives(s) = IF Verdict(s) = 1 THEN "ok" ELSE "fail"
    BY <1>1, <1>4, <1>5 DEF Verdict
  <2>3. gives(s) = IF g[s].err = "nil" THEN "ok" ELSE "fail"
    BY <2>2 DEF Verdict
  <2>4. Given' = [t \in Sources |-> gives(t)]
    BY DEF Given
  <2> HIDE DEF gives
  <2> QED  BY <2>1, <2>3, <2>4 DEF Given
<1>7. UNCHANGED <<Offered, Result, ctxDone, cpc>>  BY SendingLeaves
<1>8. CASE g[s].err = "nil"
  <2>1. Result[s] = "nil"
    BY <1>2, <1>8 DEF Result, SourceInv, MetricInv, Justified, Ended
  <2>2. Published[s] = 1..g[s].sent
    <3>1. \A n \in 1..g[s].sent : Metric(s, n) \in Delivered
      BY <1>2, <1>8 DEF SourceInv, MetricInv
    <3>2. 1..g[s].sent \subseteq 1..MaxMetrics[s]
      BY <1>2, ConstAssumption DEF Justified, TypeOK, Goroutines
    <3>3. \A n \in 1..MaxMetrics[s] : Metric(s, n) \in Delivered => n \in 1..g[s].sent
      BY <1>2 DEF Justified
    <3> QED  BY <3>1, <3>2, <3>3 DEF Published
  <2> QED  BY <1>3, <1>4, <1>6, <1>7, <1>8, <2>1, <2>2 DEF Abstract!Decide, Abstract!DecideOk, Offered
<1>9. CASE g[s].err = "err"
  <2>1. Result[s] = "err" \/ ctxDone
    BY <1>2, <1>9 DEF Result, Justified, Ended
  <2> QED  BY <1>3, <1>4, <1>6, <1>7, <1>9, <2>1 DEF Abstract!Decide, Abstract!DecideFail
<1> QED  BY <1>2, <1>8, <1>9

(* Collect returns when every source has its verdict.                      *)
LEMMA ReturnStep ==
  ASSUME JInv, Return
  PROVE  Abstract!Return
<1>1. Delivered' = Delivered /\ UNCHANGED <<Offered, Result>>
  BY QuietChannel DEF Return, Offered, Result
<1>2. ASSUME NEW s \in Sources PROVE Given[s] # "none"
  <2>1. g[s].fwd = "done" /\ VerdictInv(s)
    BY DEF JInv, IInv, WaitInv, SourceInv, Return, TypeOK, Goroutines
  <2>2. Success(s, 0) \in Delivered \/ Success(s, 1) \in Delivered
    BY <2>1 DEF VerdictInv, Verdict
  <2> QED  BY <2>2 DEF Given
<1> QED  BY <1>1, <1>2, UnseenOnChannel DEF Abstract!Return, Return

(* The steps no source takes. *)
LEMMA OtherStep ==
  ASSUME JInv, EndSpawn \/ Timeout \/ Gather \/ UNCHANGED vars
  PROVE  [Abstract!Next]_(Abstract!vars)
<1>1. Delivered' = Delivered
  BY DEF EndSpawn, Timeout, Gather, GatherReceive, GatherClose, vars, ch, Delivered
<1>2. g' = g  BY DEF EndSpawn, Timeout, Gather, GatherReceive, GatherClose, vars
<1>3. UNCHANGED <<Offered, Result, Published, Given>>
  BY <1>1, <1>2, UnseenOnChannel DEF Offered, Result
<1>4. (cpc' = "returned") = (cpc = "returned")
  BY DEF EndSpawn, Timeout, Gather, GatherReceive, GatherClose, vars
<1>5. CASE Timeout  BY <1>3, <1>4, <1>5 DEF Timeout, Abstract!Next, Abstract!Expire
<1>6. CASE ~Timeout
  <2>1. ctxDone' = ctxDone  BY <1>6 DEF EndSpawn, Gather, GatherReceive, GatherClose, vars
  <2> QED  BY <1>3, <1>4, <2>1 DEF Abstract!vars
<1> QED  BY <1>5, <1>6

-----------------------------------------------------------------------------
(* A scrape does what ScrapeSpec allows, for any sources, any metrics and  *)
(* any capacity of ch: every source gets one verdict, justified by what    *)
(* its Update returned and what was published, or by the deadline, and     *)
(* nothing of it is published after that (Collect in collector.go).        *)
THEOREM Implements == Spec => Abstract!Spec
<1>1. Init => Abstract!Init
  BY DEF Init, Abstract!Init, Offered, Result, Published, Given, Delivered
<1>2. JInv /\ [Next]_vars => [Abstract!Next]_(Abstract!vars)
  <2> SUFFICES ASSUME JInv, [Next]_vars PROVE [Abstract!Next]_(Abstract!vars)  OBVIOUS
  <2>1. CASE EndSpawn \/ Timeout \/ Gather \/ UNCHANGED vars  BY <2>1, OtherStep
  <2>2. CASE Return  BY <2>2, ReturnStep DEF Abstract!Next
  <2>3. ASSUME NEW s \in Sources,
               Receive(s) \/ Deadline(s) \/ SourceEnded(s) \/ Drainer(s) \/ UpdateClose(s) \/ Spawn(s)
        PROVE  [Abstract!Next]_(Abstract!vars)
    BY <2>3, UnseenBy DEF Seen, Abstract!vars
  <2>4. ASSUME NEW s \in Sources, UpdateSend(s) PROVE [Abstract!Next]_(Abstract!vars)
    BY <2>4, OfferStep DEF Abstract!Next
  <2>5. ASSUME NEW s \in Sources, UpdateReturn(s) PROVE [Abstract!Next]_(Abstract!vars)
    BY <2>5, FinishStep DEF Abstract!Next
  <2>6. ASSUME NEW s \in Sources, Forward(s) PROVE [Abstract!Next]_(Abstract!vars)
    BY <2>6, PublishStep DEF Abstract!Next
  <2>7. ASSUME NEW s \in Sources, SendDuration(s) PROVE [Abstract!Next]_(Abstract!vars)
    BY <2>7, DurationStep
  <2>8. ASSUME NEW s \in Sources, SendSuccess(s) PROVE [Abstract!Next]_(Abstract!vars)
    BY <2>8, DecideStep DEF Abstract!Next
  <2> QED  BY <2>1, <2>2, <2>3, <2>4, <2>5, <2>6, <2>7, <2>8 DEF Next, Forwarder
<1> QED  BY <1>1, <1>2, Invariant, PTL DEF Spec, Abstract!Spec
=============================================================================
