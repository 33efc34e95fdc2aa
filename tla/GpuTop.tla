------------------------------- MODULE GpuTop -------------------------------
(***************************************************************************)
(* The intel_gpu_top source (internal/collector/intel_gpu_top.go): a child *)
(* process writes a JSON array of samples to its stdout, one object per    *)
(* period; goroutines of the exporter decode stdout, scan stderr and wait  *)
(* for the process; Update serves the latest decoded sample to scrapes.    *)
(*                                                                         *)
(* What travels through the pipes are tokens, not bytes.  The decoder is   *)
(* encoding/json's: an object of the wrong shape costs one error and is    *)
(* passed over, but after a syntax error, or an end of file inside an      *)
(* object, its input position never advances again and every later Decode  *)
(* returns an error, while More keeps seeing the same unread byte.         *)
(***************************************************************************)
EXTENDS Naturals, Sequences

CONSTANTS
  Updaters,   \* concurrent callers of Update (scrapes may overlap)
  MaxObjects, \* bound: objects the child writes
  PipeCap,    \* capacity of the stdout pipe, in tokens
  Says        \* what besides well-formed samples the child may write

ASSUME GpuTopAssumption ==
  /\ MaxObjects \in Nat /\ PipeCap \in Nat \ {0}
  /\ Says \subseteq {"mistyped", "garbage", "part", "other", "longline"}

VARIABLES
  child,     \* the process: "off", "running" or "dead"
  tail,      \* the last token the child wrote to stdout
  wrote,     \* objects written to stdout
  cancelled, \* c.cancel or the parent context has fired
  outp,      \* stdout pipe
  errp,      \* stderr pipe: "empty", "line" or "longline"
  cons,      \* consumer goroutine, by statement
  stuck,     \* the decoder's input position is stuck at an error
  obj,       \* the local s of consume
  latest,    \* c.latest; c.last is set with it and tells the same to the log
  scan,      \* stderr goroutine: "off", "scan" or "done"
  waiter,    \* waiting goroutine: "off", "readers", "wait" or "done"
  exited,    \* c.exited
  upc,       \* Update of a caller: "idle", "check" or "emit"
  held       \* the local s of Update

proc     == <<child, tail, wrote>>
decoder  == <<cons, stuck, obj, latest>>
waiting  == <<scan, waiter, exited>>
updates  == <<upc, held>>
vars == <<proc, cancelled, outp, errp, decoder, waiting, updates>>

Tok(k)    == [kind |-> k, n |-> 0]
Sample(i) == [kind |-> "sample", n |-> i]
Nil       == Tok("nil")
Token == {Sample(i) : i \in 1..MaxObjects} \cup
         {Tok(k) : k \in {"[", ",", "]", "nil"} \cup Says}
IsObject(t) == t.kind \in {"sample", "mistyped", "garbage"}
May(K) == {Tok(k) : k \in K \cap Says}
Front  == IF outp = <<>> THEN "none" ELSE Head(outp).kind
Eof    == outp = <<>> /\ child = "dead"

Init ==
  /\ child = "off" /\ tail = Nil /\ wrote = 0 /\ cancelled = FALSE
  /\ outp = <<>> /\ errp = "empty"
  /\ cons = "off" /\ stuck = FALSE /\ obj = Nil /\ latest = Nil
  /\ scan = "off" /\ waiter = "off" /\ exited = FALSE
  /\ upc = [u \in Updaters |-> "idle"] /\ held = [u \in Updaters |-> Nil]

-----------------------------------------------------------------------------
(* Start and Stop.  A Start that fails (no pipe, no binary) leaves the     *)
(* source as it was and is the same as no Start: Update keeps failing.     *)

Start ==
  /\ child = "off"
  /\ child' = "running" /\ cons' = "token" /\ scan' = "scan" /\ waiter' = "readers"
  /\ UNCHANGED <<tail, wrote, cancelled, outp, errp, stuck, obj, latest, exited, updates>>

Stop ==
  /\ child # "off" /\ ~cancelled
  /\ cancelled' = TRUE
  /\ UNCHANGED <<proc, outp, errp, decoder, waiting, updates>>

-----------------------------------------------------------------------------
(* The child process (not part of the repository).  It may die at any      *)
(* moment, also in the middle of an object, and is killed on cancellation. *)

NextTokens ==
  CASE tail = Nil -> {Tok("[")} \cup May({"other"})
    [] tail.kind \in {"[", ",", "other"} /\ wrote < MaxObjects ->
         {Sample(wrote + 1)} \cup May({"mistyped", "garbage"})
    [] IsObject(tail) -> {Tok(","), Tok("]")}
    [] OTHER -> {}

ChildWrite ==
  /\ child = "running" /\ Len(outp) < PipeCap
  /\ tail'  \in NextTokens
  /\ wrote' = IF IsObject(tail') THEN wrote + 1 ELSE wrote
  /\ outp'  = Append(outp, tail')
  /\ UNCHANGED <<child, cancelled, errp, decoder, waiting, updates>>

ChildStderr ==
  /\ child = "running" /\ errp = "empty"
  /\ errp' \in {"line"} \cup (Says \cap {"longline"})
  /\ UNCHANGED <<proc, cancelled, outp, decoder, waiting, updates>>

ChildExit ==
  /\ child = "running"
  /\ child' = "dead"
  /\ outp' \in {outp} \cup
       (IF tail.kind \in {"[", ","} /\ Len(outp) < PipeCap
          THEN {Append(outp, t) : t \in May({"part"})} ELSE {})
  /\ UNCHANGED <<tail, wrote, cancelled, errp, decoder, waiting, updates>>

Kill == cancelled /\ ChildExit   \* exec.CommandContext

-----------------------------------------------------------------------------
(* The consumer goroutine: consume(stdout), then io.Copy(io.Discard).      *)

ReadOpening ==      \* dec.Token(): the stream must begin with '['
  /\ cons = "token" /\ (outp # <<>> \/ Eof)
  /\ outp' = IF Eof THEN outp ELSE Tail(outp)
  /\ cons' = IF Front = "[" THEN "more" ELSE "copy"
  /\ UNCHANGED <<proc, cancelled, errp, stuck, obj, latest, waiting, updates>>

More ==             \* dec.More(): false at the end of input and at ']'
  /\ cons = "more" /\ (stuck \/ outp # <<>> \/ Eof)
  /\ cons' = IF stuck \/ Front \notin {"none", "]"} THEN "decode" ELSE "copy"
  /\ UNCHANGED <<proc, cancelled, outp, errp, stuck, obj, latest, waiting, updates>>

(* The error that stays: io.ErrUnexpectedEOF or *json.SyntaxError.         *)
Unreadable == stuck \/ Front = "garbage" \/ (Front = "part" /\ child = "dead")

(* The three outcomes of dec.Decode(&s), and the comma it skips: what      *)
(* happens to the input, and the statement after it.                       *)
DecodeTo(kind, next) ==
  /\ cons = "decode" /\ ~Unreadable /\ Front = kind
  /\ outp' = Tail(outp)
  /\ cons' = next
  /\ obj'  = IF next = "store" THEN Head(outp) ELSE obj
  /\ UNCHANGED <<proc, cancelled, errp, stuck, latest, waiting, updates>>

MutStoreAnyway  == DecodeTo("mistyped", "store") \* mutant: continue is missing
MutMistypedEnds == DecodeTo("mistyped", "copy")  \* mutant: return for continue

DecodeComma    == DecodeTo(",", "decode")
DecodeSample   == DecodeTo("sample", "store")
DecodeMistyped == DecodeTo("mistyped", "sleep")  \* *json.UnmarshalTypeError

DecodeFails ==      \* io.EOF ends consume, any other error is tried again
  /\ cons = "decode" /\ (Unreadable \/ Eof)
  /\ stuck' = Unreadable
  /\ cons'  = IF Unreadable THEN "sleep" ELSE "copy"
  /\ UNCHANGED <<proc, cancelled, outp, errp, obj, latest, waiting, updates>>

Sleep ==            \* time.Sleep(500 * time.Millisecond); continue
  /\ cons = "sleep"
  /\ cons' = "more"
  /\ UNCHANGED <<proc, cancelled, outp, errp, stuck, obj, latest, waiting, updates>>

Store ==            \* c.latest = &s under c.mu; c.last.Store(now)
  /\ cons = "store"
  /\ latest' = obj
  /\ cons' = "more"
  /\ UNCHANGED <<proc, cancelled, outp, errp, stuck, obj, waiting, updates>>

MutDiscard ==       \* mutant: stdout is not drained after consume
  /\ cons = "copy" /\ Eof
  /\ cons' = "done"
  /\ UNCHANGED <<proc, cancelled, outp, errp, stuck, obj, latest, waiting, updates>>

Discard ==          \* io.Copy until the end of stdout; readers.Done()
  /\ cons = "copy" /\ (outp # <<>> \/ Eof)
  /\ outp' = IF Eof THEN outp ELSE Tail(outp)
  /\ cons' = IF Eof THEN "done" ELSE "copy"
  /\ UNCHANGED <<proc, cancelled, errp, stuck, obj, latest, waiting, updates>>

-----------------------------------------------------------------------------
(* drainStderr: bufio.Scanner stops at the end of file, and at a line that *)
(* does not fit its buffer; nothing reads stderr after that.               *)
ScanStderr ==
  /\ scan = "scan" /\ (errp # "empty" \/ child = "dead")
  /\ scan' = IF errp = "line" THEN "scan" ELSE "done"
  /\ errp' = "empty"
  /\ UNCHANGED <<proc, cancelled, outp, decoder, waiter, exited, updates>>

(* The waiting goroutine: readers.Wait(); cmd.Wait(); exited.Store(true).  *)

MutReadersDone ==   \* mutant: only one of the two readers is waited for
  /\ waiter = "readers" /\ scan = "done"
  /\ waiter' = "wait"
  /\ UNCHANGED <<proc, cancelled, outp, errp, decoder, scan, exited, updates>>

ReadersDone ==
  /\ waiter = "readers" /\ scan = "done" /\ cons = "done"
  /\ waiter' = "wait"
  /\ UNCHANGED <<proc, cancelled, outp, errp, decoder, scan, exited, updates>>

MutProcessDone ==   \* mutant: the exit is only logged
  /\ waiter = "wait" /\ child = "dead"
  /\ waiter' = "done"
  /\ UNCHANGED <<proc, cancelled, outp, errp, decoder, scan, exited, updates>>

ProcessDone ==
  /\ waiter = "wait" /\ child = "dead"
  /\ waiter' = "done" /\ exited' = TRUE
  /\ UNCHANGED <<proc, cancelled, outp, errp, decoder, scan, updates>>

-----------------------------------------------------------------------------
(* Update.                                                                 *)

MutUpdateRead(u) == \* mutant: no test for nil
  /\ upc[u] = "idle"
  /\ held' = [held EXCEPT ![u] = latest]
  /\ upc'  = [upc EXCEPT ![u] = "check"]
  /\ UNCHANGED <<proc, cancelled, outp, errp, decoder, waiting>>

UpdateRead(u) ==    \* s := c.latest under c.mu; an error when s is nil
  /\ upc[u] = "idle" /\ latest # Nil
  /\ held' = [held EXCEPT ![u] = latest]
  /\ upc'  = [upc EXCEPT ![u] = "check"]
  /\ UNCHANGED <<proc, cancelled, outp, errp, decoder, waiting>>

UpdateCheck(u) ==   \* an error when the process has exited
  /\ upc[u] = "check"
  /\ upc' = [upc EXCEPT ![u] = IF exited THEN "idle" ELSE "emit"]
  /\ UNCHANGED <<proc, cancelled, outp, errp, decoder, waiting, held>>

UpdateEmit(u) ==    \* the metrics of s are sent; return nil
  /\ upc[u] = "emit"
  /\ upc' = [upc EXCEPT ![u] = "idle"]
  /\ UNCHANGED <<proc, cancelled, outp, errp, decoder, waiting, held>>

-----------------------------------------------------------------------------
Consumer == ReadOpening \/ More \/ DecodeComma \/ DecodeSample \/ DecodeMistyped
              \/ DecodeFails \/ Sleep \/ Store \/ Discard
Waiter == ReadersDone \/ ProcessDone

Next ==
  \/ Start \/ Stop \/ ChildWrite \/ ChildStderr \/ ChildExit \/ Kill
  \/ Consumer \/ ScanStderr \/ Waiter
  \/ \E u \in Updaters : UpdateRead(u) \/ UpdateCheck(u) \/ UpdateEmit(u)

Spec == Init /\ [][Next]_vars

(* The exporter's goroutines run, a cancelled context kills the child, and *)
(* an Update that has begun ends (a scrape drains what it sends).  Nothing *)
(* is assumed of the child.                                                *)
FairSpec ==
  /\ Spec
  /\ WF_vars(Consumer) /\ WF_vars(ScanStderr) /\ WF_vars(Waiter) /\ WF_vars(Kill)
  /\ \A u \in Updaters : WF_vars(UpdateCheck(u) \/ UpdateEmit(u))

-----------------------------------------------------------------------------
(* Properties.                                                             *)

(* Every variable has its type, and an Update past its test for nil holds  *)
(* a sample to dereference.                                                *)
TypeOK ==
  /\ child \in {"off", "running", "dead"} /\ tail \in Token /\ wrote \in 0..MaxObjects
  /\ outp \in Seq(Token) /\ errp \in {"empty", "line", "longline"}
  /\ cancelled \in BOOLEAN /\ stuck \in BOOLEAN /\ exited \in BOOLEAN
  /\ cons \in {"off", "token", "more", "decode", "sleep", "store", "copy", "done"}
  /\ obj \in Token /\ latest \in Token
  /\ scan \in {"off", "scan", "done"}
  /\ waiter \in {"off", "readers", "wait", "done"}
  /\ upc \in [Updaters -> {"idle", "check", "emit"}] /\ held \in [Updaters -> Token]
  /\ \A u \in Updaters : upc[u] # "idle" => held[u] # Nil

(* Every caller is served whole samples, in the order the child wrote      *)
(* them: an object that failed to decode is never published, and a later   *)
(* Update never goes back to an earlier sample.                            *)
ServedInOrder ==
  [][\A u \in Updaters :
       held'[u] # held[u] => held'[u].kind = "sample" /\ held'[u].n > held[u].n]_vars

(* The exit is noted last: once exited is set the child is gone and stdout *)
(* has been read to its end, so every complete sample was seen, the log's  *)
(* got_any_sample is final, and nobody changes the cached sample any more. *)
ExitIsLast == exited => child = "dead" /\ outp = <<>> /\ cons = "done"

(* Once the child is gone, Update eventually fails, and goes on failing:   *)
(* the last sample is not served for ever (the test                        *)
(* TestIntelGPUTopUpdateFailsAfterProcessDies).                            *)
GoneChildNotServed ==
  (child = "dead") ~> [](\A u \in Updaters : upc[u] # "emit")

(* Whatever the child wrote, and wherever it died, a decoder that keeps an *)
(* error is the only way for its last sample to outlive it.                *)
GoneChildForgotten ==
  (child = "dead") ~> (stuck \/ [](\A u \in Updaters : upc[u] # "emit"))

(* consume has ended without a sample. *)
Refused == cons \in {"copy", "done"} /\ latest = Nil

(* Every sample the child writes reaches the cache, or is superseded by a  *)
(* newer one: scrapes return the latest sample (docs/grafana.md,           *)
(* "Collection cadence").  Output that is not an array is refused whole,   *)
(* and nothing is decoded after an error that stays.                       *)
SampleReachesCache ==
  \A i \in 1..MaxObjects :
    (tail = Sample(i)) ~> (latest.n >= i \/ Refused \/ stuck)

(* The child is never held up for good by a full pipe: somebody reads      *)
(* stdout unless the decoder keeps an error, and stderr up to the first    *)
(* line that does not fit the scanner's buffer.                            *)
PipesKeepMoving ==
  /\ (Len(outp) = PipeCap) ~> (Len(outp) < PipeCap \/ stuck)
  /\ (errp # "empty") ~> (errp = "empty" \/ scan = "done")
=============================================================================
