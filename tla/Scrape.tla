------------------------------- MODULE Scrape -------------------------------
(***************************************************************************)
(* One call of Registry.Collect (internal/collector/collector.go), with    *)
(* the goroutines it starts and the Gather call that consumes its channel. *)
(*                                                                         *)
(* For every source Collect starts a forwarder goroutine, which starts an  *)
(* updater goroutine (the source's Update) and, when the scrape deadline   *)
(* passes first, a drainer goroutine.  The updater hands its metrics over  *)
(* the unbuffered channel sch; the forwarder passes them on to ch, the     *)
(* bounded channel that Gather reads and closes once Collect has returned. *)
(***************************************************************************)
EXTENDS Naturals, FiniteSets

CONSTANTS
  Sources,      \* the active sources of the registry
  MaxMetrics,   \* bound: MaxMetrics[s] is the number of metrics an Update of s sends
  OutCap        \* capacity of ch (Gather makes it with room for 1000)

ASSUME ConstAssumption == MaxMetrics \in [Sources -> Nat] /\ OutCap \in Nat \ {0}

VARIABLES
  cpc,       \* Collect: "spawn", "wait" (in wg.Wait) or "returned"
  wg,        \* the sources whose forwarder has not called wg.Done
  ctxDone,   \* the scrape's context: deadline passed or cancelled
  g,         \* the goroutines of each source, see Goroutines
  out,       \* messages in ch
  got,       \* messages Gather has taken from ch
  outClosed  \* Gather has closed ch

ch   == <<out, got, outClosed>>
vars == <<cpc, wg, ctxDone, g, ch>>

Goroutines ==
  [fwd  : {"none", "select", "forward", "duration", "success", "done"},
   err  : {"nil", "err"},             \* forwarder's err
   m    : Nat,                        \* number of the metric it received last
   upd  : {"none", "run", "send", "close", "done"},  \* "done": sch is closed
   sent : Nat,                        \* sends on sch that Update has begun
   errc : {"empty", "nil", "err"},    \* the one-place channel
   drn  : {"none", "range", "done"}]

(* What travels on ch.  Gather sorts what it receives, so ch is a set: the *)
(* order in which concurrent forwarders' messages leave it is arbitrary.   *)
Metric(s, n)  == [src |-> s, kind |-> "metric",  val |-> n]
Duration(s)   == [src |-> s, kind |-> "duration", val |-> 0]
Success(s, b) == [src |-> s, kind |-> "success", val |-> b]
Message == [src : Sources, kind : {"metric", "duration", "success"}, val : Nat]

Put(m) == /\ Cardinality(out) < OutCap
          /\ out' = out \cup {m}
          /\ UNCHANGED <<got, outClosed>>
Delivered == out \cup got          \* everything ever sent on ch

Init ==
  /\ cpc = "spawn" /\ wg = {} /\ ctxDone = FALSE
  /\ g = [s \in Sources |-> [fwd |-> "none", err |-> "nil", m |-> 0, upd |-> "none",
                             sent |-> 0, errc |-> "empty", drn |-> "none"]]
  /\ out = {} /\ got = {} /\ outClosed = FALSE

-----------------------------------------------------------------------------
(* Collect itself.                                                         *)

Spawn(s) ==       \* wg.Add(1); go func(s): make sch, errc; go Update; select
  /\ cpc = "spawn" /\ g[s].fwd = "none"
  /\ wg' = wg \cup {s}
  /\ g' = [g EXCEPT ![s].fwd = "select", ![s].upd = "run"]
  /\ UNCHANGED <<cpc, ctxDone, ch>>

EndSpawn ==       \* the loop over r.sources has ended
  /\ cpc = "spawn" /\ \A s \in Sources : g[s].fwd # "none"
  /\ cpc' = "wait"
  /\ UNCHANGED <<wg, ctxDone, g, ch>>

MutReturn ==      \* mutant: Collect does not wait for its goroutines
  cpc = "wait" /\ cpc' = "returned" /\ ctxDone' = TRUE /\ UNCHANGED <<wg, g, ch>>

Return ==         \* wg.Wait() returns; the deferred cancel() ends the context
  /\ cpc = "wait" /\ wg = {}
  /\ cpc' = "returned" /\ ctxDone' = TRUE
  /\ UNCHANGED <<wg, g, ch>>

Timeout ==        \* the deadline of context.WithTimeout passes
  ~ctxDone /\ ctxDone' = TRUE /\ UNCHANGED <<cpc, wg, g, ch>>

-----------------------------------------------------------------------------
(* The updater: errc <- s.Update(ctx, sch); close(sch).  Update blocks in  *)
(* a send on sch until somebody receives; errc always has room.            *)

UpdateSend(s) ==
  /\ g[s].upd = "run" /\ g[s].sent < MaxMetrics[s]
  /\ g' = [g EXCEPT ![s].upd = "send", ![s].sent = @ + 1]
  /\ UNCHANGED <<cpc, wg, ctxDone, ch>>

MutUpdateReturn(s) ==    \* mutant: sch is closed before errc is filled
  /\ g[s].upd = "run"
  /\ g' = [g EXCEPT ![s].upd = "done"]
  /\ UNCHANGED <<cpc, wg, ctxDone, ch>>

UpdateReturn(s) ==
  /\ g[s].upd = "run"
  /\ \E e \in {"nil", "err"} : g' = [g EXCEPT ![s].upd = "close", ![s].errc = e]
  /\ UNCHANGED <<cpc, wg, ctxDone, ch>>

MutUpdateClose(s) ==     \* mutant: sch is only closed after a nil error
  /\ g[s].upd = "close" /\ g[s].errc = "nil"
  /\ g' = [g EXCEPT ![s].upd = "done"]
  /\ UNCHANGED <<cpc, wg, ctxDone, ch>>

UpdateClose(s) ==
  /\ g[s].upd = "close"
  /\ g' = [g EXCEPT ![s].upd = "done"]
  /\ UNCHANGED <<cpc, wg, ctxDone, ch>>

-----------------------------------------------------------------------------
(* The forwarder.  Go's select takes any of its ready cases.               *)

Receive(s) ==      \* case m, ok := <-sch with ok: frees the updater
  /\ g[s].fwd = "select" /\ g[s].upd = "send"
  /\ g' = [g EXCEPT ![s].fwd = "forward", ![s].m = g[s].sent, ![s].upd = "run"]
  /\ UNCHANGED <<cpc, wg, ctxDone, ch>>

Forward(s) ==      \* ch <- m: waits for room, whatever the context says
  /\ g[s].fwd = "forward"
  /\ Put(Metric(s, g[s].m))
  /\ g' = [g EXCEPT ![s].fwd = "select"]
  /\ UNCHANGED <<cpc, wg, ctxDone>>

SourceEnded(s) ==  \* case m, ok := <-sch with !ok: err = <-errc
  /\ g[s].fwd = "select" /\ g[s].upd = "done"
  /\ g' = [g EXCEPT ![s].fwd = "duration", ![s].err = g[s].errc, ![s].errc = "empty"]
  /\ UNCHANGED <<cpc, wg, ctxDone, ch>>

MutNoErr(s) ==     \* mutant: err is left as it was
  /\ g[s].fwd = "select" /\ ctxDone
  /\ g' = [g EXCEPT ![s].fwd = "duration", ![s].drn = "range"]
  /\ UNCHANGED <<cpc, wg, ctxDone, ch>>

MutNoDrainer(s) == \* mutant: nobody receives from sch any more
  /\ g[s].fwd = "select" /\ ctxDone
  /\ g' = [g EXCEPT ![s].fwd = "duration", ![s].err = "err"]
  /\ UNCHANGED <<cpc, wg, ctxDone, ch>>

MutLateDeadline(s) ==    \* mutant: the context is only looked at with a metric
  /\ g[s].fwd = "select" /\ ctxDone /\ g[s].upd = "send"
  /\ g' = [g EXCEPT ![s].fwd = "duration", ![s].err = "err", ![s].drn = "range"]
  /\ UNCHANGED <<cpc, wg, ctxDone, ch>>

Deadline(s) ==     \* case <-ctx.Done(): err = ctx.Err(); go drain sch
  /\ g[s].fwd = "select" /\ ctxDone
  /\ g' = [g EXCEPT ![s].fwd = "duration", ![s].err = "err", ![s].drn = "range"]
  /\ UNCHANGED <<cpc, wg, ctxDone, ch>>

SendDuration(s) == \* ch <- scrapeDuration
  /\ g[s].fwd = "duration"
  /\ Put(Duration(s))
  /\ g' = [g EXCEPT ![s].fwd = "success"]
  /\ UNCHANGED <<cpc, wg, ctxDone>>

Verdict(s) == IF g[s].err = "nil" THEN 1 ELSE 0

MutSendSuccess(s) ==     \* mutant: nothing is sent for a failed source
  /\ g[s].fwd = "success"
  /\ IF g[s].err = "nil" THEN Put(Success(s, 1)) ELSE UNCHANGED ch
  /\ wg' = wg \ {s}
  /\ g' = [g EXCEPT ![s].fwd = "done"]
  /\ UNCHANGED <<cpc, ctxDone>>

SendSuccess(s) ==  \* ch <- scrapeSuccess, then the deferred wg.Done()
  /\ g[s].fwd = "success"
  /\ Put(Success(s, Verdict(s)))
  /\ wg' = wg \ {s}
  /\ g' = [g EXCEPT ![s].fwd = "done"]
  /\ UNCHANGED <<cpc, ctxDone>>

-----------------------------------------------------------------------------
(* The drainer: for range sch {}.                                          *)

Drain(s) ==
  /\ g[s].drn = "range" /\ g[s].upd = "send"
  /\ g' = [g EXCEPT ![s].upd = "run"]
  /\ UNCHANGED <<cpc, wg, ctxDone, ch>>

DrainEnd(s) ==
  /\ g[s].drn = "range" /\ g[s].upd = "done"
  /\ g' = [g EXCEPT ![s].drn = "done"]
  /\ UNCHANGED <<cpc, wg, ctxDone, ch>>

-----------------------------------------------------------------------------
(* The caller: prometheus.Registry.Gather.                                 *)

GatherReceive ==
  /\ \E m \in out : out' = out \ {m} /\ got' = got \cup {m}
  /\ UNCHANGED <<cpc, wg, ctxDone, g, outClosed>>

GatherClose ==
  /\ cpc = "returned" /\ ~outClosed
  /\ outClosed' = TRUE
  /\ UNCHANGED <<cpc, wg, ctxDone, g, out, got>>

-----------------------------------------------------------------------------
Forwarder(s) ==
  Receive(s) \/ Forward(s) \/ SourceEnded(s) \/ Deadline(s)
    \/ SendDuration(s) \/ SendSuccess(s)
Drainer(s) == Drain(s) \/ DrainEnd(s)
Gather     == GatherReceive \/ GatherClose

Next ==
  \/ EndSpawn \/ Return \/ Timeout \/ Gather
  \/ \E s \in Sources :
       \/ Spawn(s) \/ Forwarder(s) \/ Drainer(s)
       \/ UpdateSend(s) \/ UpdateReturn(s) \/ UpdateClose(s)

Spec == Init /\ [][Next]_vars

(* Go runs every goroutine that can take a step, and time passes.  Nothing *)
(* is assumed of UpdateSend and UpdateReturn: a source may hang for ever,  *)
(* with or without the deadline.                                           *)
FairSpec ==
  /\ Spec
  /\ WF_vars(EndSpawn) /\ WF_vars(Return) /\ WF_vars(Timeout) /\ WF_vars(Gather)
  /\ \A s \in Sources :
       /\ WF_vars(Spawn(s)) /\ WF_vars(Forwarder(s)) /\ WF_vars(Drainer(s))
       /\ WF_vars(UpdateClose(s))

-----------------------------------------------------------------------------
(* Properties.                                                             *)

(* Every variable has its type; err is read from errc, never while empty.  *)
TypeOK ==
  /\ cpc \in {"spawn", "wait", "returned"}
  /\ wg \subseteq Sources
  /\ ctxDone \in BOOLEAN /\ outClosed \in BOOLEAN
  /\ g \in [Sources -> Goroutines]
  /\ out \subseteq Message /\ got \subseteq Message

(* Nobody is about to send on ch once Gather has closed it: such a send    *)
(* panics and takes the exporter down.  Updaters and drainers may outlive  *)
(* Collect, forwarders must not.                                           *)
NoSendOnClosed ==
  outClosed =>
    \A s \in Sources : g[s].fwd \notin {"forward", "duration", "success"}

(* scrape_success = 1 is only ever published for a source whose Update has *)
(* ended and every metric of which has reached ch: what a failed or slow   *)
(* source left out never hides behind a successful scrape.                 *)
SuccessIsComplete ==
  \A s \in Sources :
    Success(s, 1) \in Delivered =>
      /\ g[s].upd = "done"
      /\ \A n \in 1..g[s].sent : Metric(s, n) \in Delivered

(* When Collect has returned, ch has carried one duration and exactly one  *)
(* success value for every source, whatever its Update did.                *)
OneVerdictEach ==
  cpc = "returned" =>
    \A s \in Sources :
      /\ Duration(s) \in Delivered
      /\ Cardinality({b \in {0, 1} : Success(s, b) \in Delivered}) = 1

(* An updater never stays blocked on sch, not even after the forwarder has *)
(* given up: late metrics are drained.                                     *)
UpdaterNeverStuck ==
  \A s \in Sources : (g[s].upd = "send") ~> (g[s].upd # "send")

(* Once a source's Update returns, early or late, every goroutine the      *)
(* scrape started for it ends: nothing leaks but what the source holds.    *)
GoroutinesEnd ==
  \A s \in Sources :
    (g[s].upd = "close") ~>
      (g[s].fwd = "done" /\ g[s].upd = "done" /\ g[s].drn # "range")

-----------------------------------------------------------------------------
(* The scrape as its caller sees it: a metric is published, and a verdict  *)
(* given, when it has been sent on ch.                                     *)
Offered   == [s \in Sources |-> g[s].sent]
Result    == [s \in Sources |->
                IF g[s].upd \notin {"close", "done"} THEN "running"
                ELSE IF g[s].errc = "empty" THEN g[s].err ELSE g[s].errc]
Published == [s \in Sources |-> {n \in 1..MaxMetrics[s] : Metric(s, n) \in Delivered}]
Given     == [s \in Sources |-> IF Success(s, 1) \in Delivered THEN "ok"
                               ELSE IF Success(s, 0) \in Delivered THEN "fail"
                               ELSE "none"]

Abstract == INSTANCE ScrapeSpec WITH
  offered <- Offered, result <- Result, expired <- ctxDone,
  published <- Published, verdict <- Given, returned <- cpc = "returned"

(* Collect implements the abstract scrape: one justified verdict for every *)
(* source, nothing published after it, and an end.                         *)
ImplementsScrapeSpec == Abstract!FairSpec
=============================================================================
