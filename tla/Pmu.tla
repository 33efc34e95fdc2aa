-------------------------------- MODULE Pmu --------------------------------
(***************************************************************************)
(* The file descriptors of the PMU source (internal/collector/             *)
(* pmu_linux.go): Available opens one perf event per encoded event, each   *)
(* in three system calls of which any may fail; Update reads them without  *)
(* the lock, over a copy of the slice; Close closes them under the lock.   *)
(* The rest of the process opens and closes descriptors of the same table. *)
(***************************************************************************)
EXTENDS Integers

CONSTANTS
  Events,    \* the events the discovered PMUs encode
  Fds,       \* the numbers of the descriptor table
  Updaters   \* concurrent callers of Update

ASSUME PmuAssumption == Fds \subseteq Nat /\ "free" \notin Events /\ "other" \notin Events

VARIABLES
  table,   \* what a descriptor refers to: an event, "other", or "free"
  events,  \* p.events, as a set of records [ev, fd]
  owner,   \* who holds p.mu: "none", "open" or "close"
  todo,    \* events open has still to open
  cur,     \* open: the event between PerfEventOpen and the append, or none
  step,    \* open: its next system call, "reset" or "enable", or "append"
  closing, \* Close: the events it has still to close
  upc,     \* Update of a caller: "idle" or "read"
  copied   \* Update: the part of its copy of the slice not read yet

opening == <<todo, cur, step>>
reading == <<upc, copied>>
vars == <<table, events, owner, opening, closing, reading>>

Handle == [ev : Events, fd : Fds]
Free   == {f \in Fds : table[f] = "free"}
Lowest(f) == f \in Free /\ \A h \in Free : f <= h    \* what open(2) returns

Init ==
  /\ table = [f \in Fds |-> "free"] /\ events = {} /\ owner = "none"
  /\ todo = {} /\ cur = {} /\ step = "reset" /\ closing = {}
  /\ upc = [u \in Updaters |-> "idle"] /\ copied = [u \in Updaters |-> {}]

-----------------------------------------------------------------------------
(* Available, with open and perfOpen.                                      *)

MutAvailable ==    \* mutant: events that are open are opened again
  /\ owner = "none"
  /\ owner' = "open" /\ todo' = Events
  /\ UNCHANGED <<table, events, cur, step, closing, reading>>

Available ==       \* opens only when nothing is open yet
  /\ owner = "none" /\ events = {}
  /\ owner' = "open" /\ todo' = Events
  /\ UNCHANGED <<table, events, cur, step, closing, reading>>

MutPerfEventOpen == \* mutant: continue is missing, fd = -1 is appended
  /\ owner = "open" /\ cur = {}
  /\ \E e \in todo :
       /\ todo' = todo \ {e}
       /\ cur' = {[ev |-> e, fd |-> -1]} /\ step' = "append"
  /\ UNCHANGED <<table, events, owner, closing, reading>>

PerfEventOpen ==   \* a failure skips the event
  /\ owner = "open" /\ cur = {}
  /\ \E e \in todo :
       /\ todo' = todo \ {e}
       /\ \/ \E f \in Fds :
               /\ Lowest(f)
               /\ table' = [table EXCEPT ![f] = e]
               /\ cur' = {[ev |-> e, fd |-> f]} /\ step' = "reset"
          \/ UNCHANGED <<table, cur, step>>
  /\ UNCHANGED <<events, owner, closing, reading>>

MutIoctl ==        \* mutant: a descriptor whose ioctl fails is left open
  /\ owner = "open" /\ step # "append"
  /\ \E h \in cur :
       \/ step' = (IF step = "reset" THEN "enable" ELSE "append") /\ UNCHANGED cur
       \/ cur' = {} /\ UNCHANGED step
  /\ UNCHANGED <<table, events, owner, todo, closing, reading>>

Ioctl ==           \* PERF_EVENT_IOC_RESET, then _ENABLE; a failure closes fd
  /\ owner = "open" /\ step # "append"
  /\ \E h \in cur :
       \/ /\ step' = IF step = "reset" THEN "enable" ELSE "append"
          /\ UNCHANGED <<table, cur>>
       \/ /\ table' = [table EXCEPT ![h.fd] = "free"]
          /\ cur' = {} /\ UNCHANGED step
  /\ UNCHANGED <<events, owner, todo, closing, reading>>

AppendEvent ==
  /\ owner = "open" /\ step = "append" /\ cur # {}
  /\ events' = events \cup cur
  /\ cur' = {} /\ step' = "reset"
  /\ UNCHANGED <<table, owner, todo, closing, reading>>

EndOpen ==         \* the deferred Unlock
  /\ owner = "open" /\ todo = {} /\ cur = {}
  /\ owner' = "none"
  /\ UNCHANGED <<table, events, opening, closing, reading>>

-----------------------------------------------------------------------------
(* Close.                                                                  *)

Close ==
  /\ owner = "none"
  /\ owner' = "close" /\ closing' = events
  /\ UNCHANGED <<table, events, opening, reading>>

CloseFd ==         \* unix.Close(ev.fd)
  /\ owner = "close"
  /\ \E h \in closing :
       /\ table' = [table EXCEPT ![h.fd] = "free"]
       /\ closing' = closing \ {h}
  /\ UNCHANGED <<events, owner, opening, reading>>

EndClose ==        \* p.events = nil; the deferred Unlock
  /\ owner = "close" /\ closing = {}
  /\ events' = {} /\ owner' = "none"
  /\ UNCHANGED <<table, opening, closing, reading>>

-----------------------------------------------------------------------------
(* Update: the lock is held for the copy only.                             *)

MutUpdateCopy(u) ==  \* mutant: the slice is copied without the lock
  /\ upc[u] = "idle" /\ events # {}
  /\ upc'    = [upc EXCEPT ![u] = "read"]
  /\ copied' = [copied EXCEPT ![u] = events]
  /\ UNCHANGED <<table, events, owner, opening, closing>>

UpdateCopy(u) ==   \* an error, and no read, when there are no events
  /\ upc[u] = "idle" /\ owner = "none" /\ events # {}
  /\ upc'    = [upc EXCEPT ![u] = "read"]
  /\ copied' = [copied EXCEPT ![u] = events]
  /\ UNCHANGED <<table, events, owner, opening, closing>>

UpdateRead(u) ==   \* perfRead(ev.fd), whatever the descriptor refers to by now
  /\ upc[u] = "read"
  /\ \E h \in copied[u] : copied' = [copied EXCEPT ![u] = @ \ {h}]
  /\ UNCHANGED <<table, events, owner, opening, closing, upc>>

UpdateEnd(u) ==
  /\ upc[u] = "read" /\ copied[u] = {}
  /\ upc' = [upc EXCEPT ![u] = "idle"]
  /\ UNCHANGED <<table, events, owner, opening, closing, copied>>

-----------------------------------------------------------------------------
(* The rest of the process: sockets, sysfs and procfs reads.               *)

OtherOpen ==
  /\ \E f \in Fds : Lowest(f) /\ table' = [table EXCEPT ![f] = "other"]
  /\ UNCHANGED <<events, owner, opening, closing, reading>>

OtherClose ==
  /\ \E f \in Fds : table[f] = "other" /\ table' = [table EXCEPT ![f] = "free"]
  /\ UNCHANGED <<events, owner, opening, closing, reading>>

-----------------------------------------------------------------------------
Open     == Available \/ PerfEventOpen \/ Ioctl \/ AppendEvent \/ EndOpen
Shut     == Close \/ CloseFd \/ EndClose
Update(u) == UpdateCopy(u) \/ UpdateRead(u) \/ UpdateEnd(u)

Next == Open \/ Shut \/ OtherOpen \/ OtherClose \/ \E u \in Updaters : Update(u)

Spec == Init /\ [][Next]_vars

-----------------------------------------------------------------------------
(* Properties.                                                             *)

(* The events whose descriptors the source owns: those in p.events that    *)
(* Close has not closed yet, and the one being opened.                     *)
Owned == cur \cup IF owner = "close" THEN closing ELSE events

(* Every variable has its type.                                            *)
TypeOK ==
  /\ table \in [Fds -> Events \cup {"free", "other"}]
  /\ events \subseteq Handle /\ closing \subseteq Handle /\ cur \subseteq Handle
  /\ owner \in {"none", "open", "close"} /\ todo \subseteq Events
  /\ step \in {"reset", "enable", "append"}
  /\ upc \in [Updaters -> {"idle", "read"}]
  /\ copied \in [Updaters -> SUBSET Handle]

(* The source owns exactly the perf descriptors of the process: none is    *)
(* leaked by a failed ioctl, a Close or a second Available, and it never   *)
(* holds on to one that has become somebody else's, so that no Close, not  *)
(* even a second one, closes a socket or a file.                           *)
OwnsItsDescriptors ==
  /\ \A h \in Owned : table[h.fd] = h.ev
  /\ \A f \in Fds : table[f] \in Events => [ev |-> table[f], fd |-> f] \in Owned

(* One event is never open twice: Update would publish the same series     *)
(* twice, and Gather would fail the whole scrape.                          *)
OneHandlePerEvent ==
  \A h, k \in Owned \cup events : h.ev = k.ev => h = k

(* What an Update has still to read is open, and the counter it is taken   *)
(* for, from the copy until a Close takes it away, although Update holds   *)
(* no lock: the copy never meets an open or a Close that is half done.     *)
(* (A second open may get the number back from such a Close, and lose it   *)
(* by a failed ioctl.)                                                     *)
OpenUntilClosed ==
  [][\A u \in Updaters : \A h \in copied'[u] :
       h \notin copied[u] \/ table[h.fd] = h.ev =>
         table'[h.fd] = h.ev \/ h \in closing \cup cur]_vars
=============================================================================
