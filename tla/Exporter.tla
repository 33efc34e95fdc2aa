------------------------------ MODULE Exporter ------------------------------
(***************************************************************************)
(* The life of the exporter (cmd/intel_gpu_exporter/main.go): discovery,   *)
(* the registry, the intel_gpu_top child, the HTTP server, and the         *)
(* shutdown that ends with the PMU's file descriptors being closed.        *)
(*                                                                         *)
(* It composes what the components look like from main: a scrape is a      *)
(* request that collects until its sources have answered or its deadline   *)
(* has passed (ScrapeSpec), whose PMU updater may live on after it; the    *)
(* PMU's descriptors (Pmu) are one; the child process is on or off.        *)
(* Time counts what the timers compare: the deadline of a scrape and the   *)
(* grace of the shutdown.  It passes only while one of them runs.          *)
(***************************************************************************)
EXTENDS Naturals

CONSTANTS
  Requests,  \* scrape requests, each over a connection
  Timeouts,  \* values of -scrape.timeout
  Grace      \* how long Shutdown waits (5 s in the code)

ASSUME ExporterAssumption == Timeouts \subseteq Nat /\ Grace \in Nat

VARIABLES
  timeout,   \* -scrape.timeout
  main,      \* the statement of main that runs, or "exited"
  code,      \* how it exited: 0, 1, or Killed by a signal
  active,    \* which of the two stateful sources the registry has
  top,       \* the intel_gpu_top process: "off", "running" or "dead"
  cancelled, \* the context of signal.NotifyContext
  listener,  \* "off", "starting", "open", "failed" or "closed"
  grace,     \* the shutdown context has expired
  fds,       \* the PMU's descriptor: "none", "open", "closed" or "reused"
  req,       \* a request: "none", "conn" (not read yet), "collect", "respond", "done"
  upd,       \* its PMU updater: "none", "run", "copied", a value read, "done"
  published, \* the PMU value it published: "none", "pmu" or "foreign"
  now,       \* the time
  began,     \* when the Collect of a request began
  down       \* when Shutdown was called

program == <<timeout, main, code, active, top, cancelled>>
server  == <<listener, req>>
pmu     == <<fds, upd, published>>
clock   == <<grace, now, began, down>>
vars    == <<program, server, pmu, clock>>

Values == {"pmu", "foreign"}
Killed == 2

Init ==
  /\ timeout \in Timeouts
  /\ main = "discover" /\ code = 0 /\ active = {} /\ top = "off"
  /\ cancelled = FALSE /\ listener = "off" /\ grace = FALSE /\ fds = "none"
  /\ req = [r \in Requests |-> "none"] /\ upd = [r \in Requests |-> "none"]
  /\ published = [r \in Requests |-> "none"]
  /\ now = 0 /\ began = [r \in Requests |-> 0] /\ down = 0

-----------------------------------------------------------------------------
(* main, statement by statement.                                           *)

Discover ==       \* without a GPU the program ends with os.Exit(1)
  /\ main = "discover"
  /\ \/ main' = "registry" /\ code' = 0
     \/ main' = "exited" /\ code' = 1
  /\ UNCHANGED <<timeout, active, top, cancelled, server, pmu, clock>>

MutNewRegistry == \* mutant: sources are registered whatever Available says
  /\ main = "registry"
  /\ active' = {"pmu", "gputop"}
  /\ fds' \in {"open", "none"}
  /\ main' = "start"
  /\ UNCHANGED <<timeout, code, top, cancelled, server, upd, published, clock>>

NewRegistry ==    \* asks Available of every source once; the PMU opens then; NotifyContext
  /\ main = "registry"
  /\ active' \in SUBSET {"pmu", "gputop"}
  /\ fds' = IF "pmu" \in active' THEN "open" ELSE "none"
  /\ main' = "start"
  /\ UNCHANGED <<timeout, code, top, cancelled, server, upd, published, clock>>

StartTop ==       \* a child that fails to start is only logged
  /\ main = "start"
  /\ top' \in IF "gputop" \in active /\ ~cancelled THEN {"running", "off"} ELSE {"off"}
  /\ main' = "serve" /\ listener' = "starting"
  /\ UNCHANGED <<timeout, code, active, cancelled, req, pmu, clock>>

(* Signals are caught from NotifyContext to stop(); main defers stop() to  *)
(* its end, but the goroutine of a listener that failed calls it at once.  *)
Caught == main \notin {"discover", "registry"} /\ listener # "failed"

Signal ==         \* SIGINT or SIGTERM; a second one changes nothing
  /\ main # "exited" /\ Caught /\ ~cancelled
  /\ cancelled' = TRUE
  /\ UNCHANGED <<timeout, main, code, active, top, server, pmu, clock>>

Kill ==           \* a signal that is not caught ends the process on the spot
  /\ main # "exited" /\ ~Caught
  /\ main' = "exited" /\ code' = Killed
  /\ UNCHANGED <<timeout, active, top, cancelled, server, pmu, clock>>

MutShutdown ==    \* mutant: the PMU is closed before the server is shut down
  /\ main = "serve" /\ cancelled
  /\ main' = "shutdown" /\ down' = now
  /\ listener' = IF listener = "failed" THEN "failed" ELSE "closed"
  /\ fds' = IF fds = "open" THEN "closed" ELSE fds
  /\ UNCHANGED <<timeout, code, active, top, cancelled, req, upd, published, grace, now, began>>

Shutdown ==       \* <-ctx.Done(); srv.Shutdown closes the listener and waits
  /\ main = "serve" /\ cancelled
  /\ main' = "shutdown" /\ down' = now
  /\ listener' = IF listener = "failed" THEN "failed" ELSE "closed"
  /\ UNCHANGED <<timeout, code, active, top, cancelled, req, pmu, grace, now, began>>

CloseIdle(r) ==   \* Shutdown closes a connection whose request it has not seen:
                  \* one kept alive at once, a new one when it is 5 s old
  /\ main = "shutdown" /\ req[r] = "conn"
  /\ req' = [req EXCEPT ![r] = "none"]
  /\ UNCHANGED <<program, listener, pmu, clock>>

Quiescent == \A r \in Requests : req[r] \in {"none", "done"}

GraceOver ==      \* the shutdown context expires, whatever the scrapes do
  /\ main = "shutdown" /\ ~grace /\ now >= down + Grace
  /\ grace' = TRUE
  /\ UNCHANGED <<program, server, pmu, now, began, down>>

MutShutdownReturns ==  \* mutant: srv.Close() instead of srv.Shutdown(ctx)
  /\ main = "shutdown"
  /\ main' = "stop"
  /\ UNCHANGED <<timeout, code, active, top, cancelled, server, pmu, clock>>

MutShutdownWaits ==    \* mutant: Shutdown with a context that never expires
  /\ main = "shutdown" /\ Quiescent
  /\ main' = "stop"
  /\ UNCHANGED <<timeout, code, active, top, cancelled, server, pmu, clock>>

ShutdownReturns ==
  /\ main = "shutdown" /\ (Quiescent \/ grace)
  /\ main' = "stop"
  /\ UNCHANGED <<timeout, code, active, top, cancelled, server, pmu, clock>>

StopTop ==        \* gpuTop.Stop(): its context is already cancelled
  /\ main = "stop"
  /\ main' = "close"
  /\ UNCHANGED <<timeout, code, active, top, cancelled, server, pmu, clock>>

ClosePMU ==       \* pmu.Close(); main returns
  /\ main = "close"
  /\ fds' = IF fds = "open" THEN "closed" ELSE fds
  /\ main' = "return"
  /\ UNCHANGED <<timeout, code, active, top, cancelled, server, upd, published, clock>>

Exit ==
  /\ main = "return"
  /\ main' = "exited" /\ code' = 0
  /\ UNCHANGED <<timeout, active, top, cancelled, server, pmu, clock>>

-----------------------------------------------------------------------------
(* What runs beside main.  The process's goroutines end with it.           *)
Alive == main # "exited"

Listen ==         \* srv.ListenAndServe in its goroutine; a failure calls stop()
  /\ Alive /\ listener \in {"starting", "open"}
  /\ \/ listener = "starting" /\ listener' = "open" /\ UNCHANGED cancelled
     \/ listener' = "failed" /\ cancelled' = TRUE
  /\ UNCHANGED <<timeout, main, code, active, top, req, pmu, clock>>

KillTop ==        \* exec's goroutine kills the child, if it still gets to it
  /\ Alive /\ cancelled /\ top = "running"
  /\ top' = "dead"
  /\ UNCHANGED <<timeout, main, code, active, cancelled, server, pmu, clock>>

TopDies ==
  /\ top = "running"
  /\ top' = "dead"
  /\ UNCHANGED <<timeout, main, code, active, cancelled, server, pmu, clock>>

Connect(r) ==     \* a connection is accepted, or one is kept alive for another request
  /\ Alive /\ req[r] = "none"
  /\ \/ listener = "open"
     \/ listener = "failed" /\ main = "serve" /\ \E q \in Requests : req[q] = "done"
  /\ req' = [req EXCEPT ![r] = "conn"]
  /\ UNCHANGED <<program, listener, pmu, clock>>

Begin(r) ==       \* its request is read, also while or after Shutdown waits:
                  \* Collect begins and starts the PMU's Update
  /\ Alive /\ req[r] = "conn"
  /\ req' = [req EXCEPT ![r] = "collect"] /\ began' = [began EXCEPT ![r] = now]
  /\ upd' = [upd EXCEPT ![r] = IF "pmu" \in active THEN "run" ELSE "done"]
  /\ UNCHANGED <<program, listener, fds, published, grace, now, down>>

CopyEvents(r) ==  \* events := p.events under p.mu; an error when there are none
  /\ Alive /\ upd[r] = "run"
  /\ upd' = [upd EXCEPT ![r] = IF fds = "open" THEN "copied" ELSE "done"]
  /\ UNCHANGED <<program, server, fds, published, clock>>

ReadEvent(r) ==   \* perfRead(ev.fd), without the lock: EBADF once it is closed
  /\ Alive /\ upd[r] = "copied"
  /\ upd' = [upd EXCEPT ![r] = CASE fds = "open"   -> "pmu"
                                 [] fds = "reused" -> "foreign"
                                 [] OTHER          -> "done"]
  /\ UNCHANGED <<program, server, fds, published, clock>>

SendValue(r) ==   \* to the forwarder, or to the drainer once Collect gave up
  /\ Alive /\ upd[r] \in Values
  /\ published' = [published EXCEPT ![r] = IF req[r] = "collect" THEN upd[r] ELSE @]
  /\ upd' = [upd EXCEPT ![r] = "done"]
  /\ UNCHANGED <<program, server, fds, clock>>

Deadline(r) == began[r] + timeout

CollectReturns(r) ==  \* the updater has ended, or the scrape's deadline has passed
  /\ Alive /\ req[r] = "collect" /\ (upd[r] = "done" \/ now >= Deadline(r))
  /\ req' = [req EXCEPT ![r] = "respond"]
  /\ UNCHANGED <<program, listener, pmu, clock>>

Respond(r) ==     \* promhttp writes the response, as fast as the client reads
  /\ Alive /\ req[r] = "respond"
  /\ req' = [req EXCEPT ![r] = "done"]
  /\ UNCHANGED <<program, listener, pmu, clock>>

ReuseFd ==        \* something else in the process opens a file
  /\ Alive /\ fds = "closed"
  /\ fds' = "reused"
  /\ UNCHANGED <<program, server, upd, published, clock>>

(* Time passes while a timer runs.  A deadline is heeded before the next   *)
(* tick; the shutdown context may expire later than that.                  *)
Tick ==
  /\ Alive
  /\ \/ \E r \in Requests : req[r] = "collect"
     \/ main = "shutdown" /\ now < down + Grace
  /\ \A r \in Requests : req[r] = "collect" => now < Deadline(r)
  /\ now' = now + 1
  /\ UNCHANGED <<program, server, pmu, grace, began, down>>

-----------------------------------------------------------------------------
Main == Discover \/ NewRegistry \/ StartTop \/ Shutdown \/ ShutdownReturns
          \/ StopTop \/ ClosePMU \/ Exit

Next ==
  \/ Main \/ Signal \/ Kill \/ GraceOver \/ Listen \/ KillTop \/ TopDies \/ ReuseFd \/ Tick
  \/ \E r \in Requests :
       \/ Connect(r) \/ Begin(r) \/ CloseIdle(r) \/ CopyEvents(r) \/ ReadEvent(r)
       \/ SendValue(r) \/ CollectReturns(r) \/ Respond(r)

Spec == Init /\ [][Next]_vars

(* main runs, time passes, its contexts expire, and a scrape whose sources *)
(* have ended or whose deadline has passed ends; nothing is assumed of     *)
(* sources, clients, listener or signals.                                  *)
FairSpec ==
  /\ Spec /\ WF_vars(Main) /\ WF_vars(GraceOver) /\ WF_vars(Tick)
  /\ \A r \in Requests : WF_vars(CollectReturns(r))

-----------------------------------------------------------------------------
(* Properties.                                                             *)

(* Every variable has its type.                                            *)
TypeOK ==
  /\ timeout \in Timeouts
  /\ main \in {"discover", "registry", "start", "serve", "shutdown", "stop",
               "close", "return", "exited"}
  /\ code \in {0, 1, Killed} /\ active \subseteq {"pmu", "gputop"}
  /\ "pmu" \in active <=> fds # "none"    \* an active PMU did open
  /\ top \in {"off", "running", "dead"}
  /\ cancelled \in BOOLEAN /\ grace \in BOOLEAN
  /\ listener \in {"off", "starting", "open", "failed", "closed"}
  /\ fds \in {"none", "open", "closed", "reused"}
  /\ req \in [Requests -> {"none", "conn", "collect", "respond", "done"}]
  /\ upd \in [Requests -> {"none", "run", "copied", "done"} \cup Values]
  /\ published \in [Requests -> {"none"} \cup Values]
  /\ now \in Nat /\ began \in [Requests -> Nat] /\ down \in Nat

(* No scrape publishes as a PMU counter what it read from a descriptor     *)
(* that Close had closed and that something else had reopened, unless its  *)
(* deadline reaches to the end of the grace: the order of main's shutdown  *)
(* is enough for every scrape that began early enough for its timeout.     *)
(* One that begins late on an open connection is not protected, however    *)
(* short its timeout.  (Updaters that outlive their scrape do read such    *)
(* descriptors; what they read is drained.)                                *)
NoForeignValue ==
  \A r \in Requests :
    published[r] = "foreign" => grace /\ Deadline(r) >= down + Grace

(* A request that has been read is answered before the program ends,       *)
(* unless it takes longer than the grace, or a signal comes after the      *)
(* listener has failed.                                                    *)
AcceptedIsAnswered ==
  main = "exited" /\ code # Killed /\ ~grace =>
    \A r \in Requests : req[r] \notin {"collect", "respond"}

(* After a signal, or a failed listener, the program ends, whatever        *)
(* sources, scrapes and clients do.                                        *)
StopsWhenAsked == cancelled ~> (main = "exited")
=============================================================================
