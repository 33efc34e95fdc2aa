----------------------------- MODULE ScrapeSpec -----------------------------
(***************************************************************************)
(* What one scrape promises, without channels or goroutines: every source  *)
(* gets exactly one verdict, "ok" only with everything its Update offered, *)
(* "fail" only because Update failed or the deadline passed; nothing of a  *)
(* source is published after its verdict, and the scrape always ends.      *)
(***************************************************************************)
EXTENDS Naturals

CONSTANTS Sources, MaxMetrics

VARIABLES
  offered,    \* metrics the source's Update has offered so far
  result,     \* what Update returned: "running", "nil" or "err"
  expired,    \* the deadline has passed
  published,  \* the offered metrics that were published
  verdict,    \* "none", "ok" or "fail"
  returned    \* the scrape is over

vars == <<offered, result, expired, published, verdict, returned>>

Init ==
  /\ offered   = [s \in Sources |-> 0]
  /\ result    = [s \in Sources |-> "running"]
  /\ expired   = FALSE
  /\ published = [s \in Sources |-> {}]
  /\ verdict   = [s \in Sources |-> "none"]
  /\ returned  = FALSE

Offer(s) ==
  /\ result[s] = "running" /\ offered[s] < MaxMetrics[s]
  /\ offered' = [offered EXCEPT ![s] = @ + 1]
  /\ UNCHANGED <<result, expired, published, verdict, returned>>

Finish(s) ==
  /\ result[s] = "running"
  /\ \E e \in {"nil", "err"} : result' = [result EXCEPT ![s] = e]
  /\ UNCHANGED <<offered, expired, published, verdict, returned>>

Expire ==
  /\ ~expired /\ expired' = TRUE
  /\ UNCHANGED <<offered, result, published, verdict, returned>>

Publish(s) ==
  /\ verdict[s] = "none"
  /\ \E n \in (1..offered[s]) \ published[s] :
       published' = [published EXCEPT ![s] = @ \cup {n}]
  /\ UNCHANGED <<offered, result, expired, verdict, returned>>

DecideOk(s) ==
  /\ verdict[s] = "none"
  /\ result[s] = "nil" /\ published[s] = 1..offered[s]
  /\ verdict' = [verdict EXCEPT ![s] = "ok"]
  /\ UNCHANGED <<offered, result, expired, published, returned>>

DecideFail(s) ==
  /\ verdict[s] = "none"
  /\ result[s] = "err" \/ expired
  /\ verdict' = [verdict EXCEPT ![s] = "fail"]
  /\ UNCHANGED <<offered, result, expired, published, returned>>

Decide(s) == DecideOk(s) \/ DecideFail(s)

Return ==
  /\ ~returned
  /\ \A s \in Sources : verdict[s] # "none"
  /\ returned' = TRUE
  /\ expired'  = TRUE    \* returning cancels the scrape's context
  /\ UNCHANGED <<offered, result, published, verdict>>

Next ==
  \/ Expire \/ Return
  \/ \E s \in Sources : Offer(s) \/ Finish(s) \/ Publish(s) \/ Decide(s)

Spec == Init /\ [][Next]_vars

FairSpec ==
  /\ Spec
  /\ WF_vars(Expire) /\ WF_vars(Return)
  /\ \A s \in Sources : WF_vars(Decide(s))
=============================================================================
