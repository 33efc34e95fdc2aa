----------------------------- MODULE PmuEncode -----------------------------
(***************************************************************************)
(* How the PMU source turns what the kernel says of its events into the    *)
(* 64-bit attr.config of perf_event_open (internal/collector/pmu_linux.go, *)
(* loadPMU and what it calls): format/<key> says which bits of config a    *)
(* key fills, events/<name> lists keys with values.                        *)
(*                                                                         *)
(* A uint64 is the set of its bits: & is intersection, | is union, << adds *)
(* to every bit and loses those beyond the width.  A text is what its      *)
(* parser makes of it: a range of two numbers (one number is a range of    *)
(* one bit), a number that is none is Junk, an event is its terms.  One    *)
(* PMU is loaded; loads share nothing.                                     *)
(***************************************************************************)
EXTENDS Integers, Sequences

CONSTANTS
  W,            \* bits of attr.config, 64
  Wrap,         \* numbers of a uint, 2^64
  MaxByte,      \* what ParseUint(s, 10, 8) returns for numbers too large, 255
  Keys,         \* files in format/
  Names,        \* files in events/
  Dotted,       \* those with a dot in their name (.unit, .scale)
  FormatFiles,  \* what a format file may say
  Lines         \* what an event file may say

Bits == 0..(W - 1)
Junk == -1

FormatFile == [field : {"config", "other"}, lo : Nat \cup {Junk}, hi : Nat \cup {Junk}]
Term == [kind : {"term", "empty", "malformed"},
         key  : Keys \cup {"config", "config1", "unknown"}, val : SUBSET Bits]

ASSUME PmuEncodeAssumption ==
  /\ W \in Nat \ {0} /\ MaxByte \in Nat /\ Wrap \in Nat /\ Wrap >= MaxByte + W
  /\ Dotted \subseteq Names /\ {"config", "config1", "unknown"} \cap Keys = {}
  /\ FormatFiles \subseteq FormatFile /\ Lines \subseteq Seq(Term)

VARIABLES
  fdir,    \* what the format files say
  edir,    \* what the event files say
  pc,      \* the part of loadPMU that runs; "loaded" or "failed" at its end
  todo,    \* files of the directory that is read, not read yet
  format,  \* the map loadFormats returns, as a set of records
  cur,     \* loadEvents: the event being encoded
  i, cfg,  \* encodeEventLine: the position of its next term, and cfg
  events,  \* the map loadEvents returns, as a set of records
  dropped, \* the events it drops with a reason
  read     \* history: the event files that could be read

files   == <<fdir, edir>>
line    == <<cur, i, cfg>>
outcome == <<events, dropped, read>>
vars    == <<files, pc, todo, format, line, outcome>>

-----------------------------------------------------------------------------
(* The arithmetic.                                                         *)

ParseByte(n) == IF n = Junk THEN 0 ELSE IF n > MaxByte THEN MaxByte ELSE n

MutWidth(lo, hi) == IF hi >= lo THEN hi - lo ELSE hi - lo + Wrap  \* mutant: + 1 is missing

(* hi - lo + 1 in unsigned arithmetic *)
Width(lo, hi) == IF hi + 1 >= lo THEN hi + 1 - lo ELSE hi + 1 - lo + Wrap

BitMask(width) == IF width >= W THEN Bits ELSE 0..(width - 1)

MutShiftLeft(v, n) == {b + n : b \in v}  \* mutant: a wider integer than config
ShiftLeft(v, n)    == {b + n : b \in v} \cap Bits

(* What loadFormats stores for a file: parseBitRange and bitMask. *)
FormatSpec(k) ==
  LET lo == ParseByte(fdir[k].lo)
      hi == ParseByte(fdir[k].hi)
  IN [key |-> k, shift |-> lo, mask |-> BitMask(Width(lo, hi))]

Known == {f.key : f \in format}

MutTermBits(t) ==  \* mutant: the value is not masked
  IF t.key = "config" THEN t.val
  ELSE UNION {ShiftLeft(t.val, f.shift) : f \in {g \in format : g.key = t.key}}

(* The bits a term sets in cfg. *)
TermBits(t) ==
  IF t.key = "config" THEN t.val
  ELSE UNION {ShiftLeft(t.val \cap f.mask, f.shift) : f \in {g \in format : g.key = t.key}}

MutUnderstood(t) ==  \* mutant: a key without a format is passed over
  t.kind = "empty" \/ (t.kind = "term" /\ t.key # "config1")

(* Terms encodeEventLine does not refuse.  (The formats have no config1.)  *)
Understood(t) == t.kind = "empty" \/ (t.kind = "term" /\ t.key \in Known \cup {"config"})

-----------------------------------------------------------------------------
Init ==
  /\ fdir \in [Keys -> FormatFiles] /\ edir \in [Names -> Lines]
  /\ pc = "type" /\ todo = {} /\ format = {}
  /\ cur = "none" /\ i = 1 /\ cfg = {}
  /\ events = {} /\ dropped = {} /\ read = {}

ReadType ==        \* without a type the PMU is skipped
  /\ pc = "type"
  /\ pc' \in {"formatdir", "failed"}
  /\ UNCHANGED <<files, todo, format, line, outcome>>

ListFormats ==     \* a directory that is missing is an empty one
  /\ pc = "formatdir"
  /\ \/ pc' = "formats" /\ todo' \in {Keys, {}}
     \/ pc' = "failed" /\ UNCHANGED todo
  /\ UNCHANGED <<files, format, line, outcome>>

ReadFormat(k) ==   \* config1 and config2, and files not readable, are left out
  /\ pc = "formats" /\ k \in todo
  /\ todo' = todo \ {k}
  /\ \/ UNCHANGED format
     \/ fdir[k].field = "config" /\ format' = format \cup {FormatSpec(k)}
  /\ UNCHANGED <<files, pc, line, outcome>>

ListEvents ==
  /\ \/ /\ pc = "formats" /\ todo = {}
        /\ pc' = "events" /\ todo' \in {Names, {}}
     \/ pc = "formats" /\ todo = {} /\ pc' = "failed" /\ UNCHANGED todo
  /\ UNCHANGED <<files, format, line, outcome>>

SkipEvent(n) ==    \* a name with a dot, or a file that cannot be read
  /\ pc = "events" /\ n \in todo
  /\ todo' = todo \ {n}
  /\ UNCHANGED <<files, pc, format, line, outcome>>

ReadEvent(n) ==
  /\ pc = "events" /\ n \in todo \ Dotted
  /\ todo' = todo \ {n} /\ read' = read \cup {n}
  /\ pc' = "terms" /\ cur' = n /\ i' = 1 /\ cfg' = {}
  /\ UNCHANGED <<files, format, events, dropped>>

EncodeTerm ==      \* cfg |= ...; an empty part is passed over
  /\ pc = "terms" /\ i <= Len(edir[cur]) /\ Understood(edir[cur][i])
  /\ cfg' = IF edir[cur][i].kind = "empty" THEN cfg ELSE cfg \cup TermBits(edir[cur][i])
  /\ i' = i + 1
  /\ UNCHANGED <<files, pc, todo, format, cur, outcome>>

DropEvent ==       \* the first term that is refused
  /\ pc = "terms" /\ i <= Len(edir[cur]) /\ ~Understood(edir[cur][i])
  /\ dropped' = dropped \cup {cur} /\ pc' = "events"
  /\ UNCHANGED <<files, todo, format, line, events, read>>

EventEncoded ==    \* out[name] = cfg
  /\ pc = "terms" /\ i > Len(edir[cur])
  /\ events' = events \cup {[name |-> cur, config |-> cfg]} /\ pc' = "events"
  /\ UNCHANGED <<files, todo, format, line, dropped, read>>

Loaded ==
  /\ pc = "events" /\ todo = {}
  /\ pc' = "loaded"
  /\ UNCHANGED <<files, todo, format, line, outcome>>

Next ==
  \/ ReadType \/ ListFormats \/ ListEvents \/ EncodeTerm \/ DropEvent \/ EventEncoded \/ Loaded
  \/ \E k \in Keys : ReadFormat(k)
  \/ \E n \in Names : SkipEvent(n) \/ ReadEvent(n)

Spec == Init /\ [][Next]_vars

-----------------------------------------------------------------------------
(* Properties.                                                             *)

(* Every variable has its type: in particular attr.config has its width,   *)
(* whatever ranges and values the files hold.                              *)
TypeOK ==
  /\ fdir \in [Keys -> FormatFiles] /\ edir \in [Names -> Lines]
  /\ pc \in {"type", "formatdir", "formats", "events", "terms", "loaded", "failed"}
  /\ todo \subseteq Keys \/ todo \subseteq Names
  /\ \A f \in format : f \in [key : Keys, shift : 0..MaxByte, mask : SUBSET Bits]
  /\ cur \in Names \cup {"none"} /\ (pc = "terms" => cur \in Names) /\ i \in Nat \ {0} /\ cfg \subseteq Bits
  /\ events \subseteq [name : Names, config : SUBSET Bits]
  /\ dropped \subseteq Names /\ read \subseteq Names

(* How the kernel reads a config: the bits of a key's range, from 0.  A    *)
(* key is proper when its file names a range that lies within config.      *)
Proper(k)   == /\ fdir[k].field = "config" /\ fdir[k].lo # Junk
               /\ fdir[k].lo <= fdir[k].hi /\ fdir[k].hi < W /\ fdir[k].hi <= MaxByte
Field(k)    == fdir[k].lo .. fdir[k].hi
View(k, c)  == {b - fdir[k].lo : b \in c \cap Field(k)}
FieldWidth(k) == 0..(fdir[k].hi - fdir[k].lo)

TermsOf(n)  == {edir[n][j] : j \in 1..Len(edir[n])}
Said(n, k)  == UNION {t.val : t \in {u \in TermsOf(n) : u.kind = "term" /\ u.key = k}}
Disjoint(k, l) == Field(k) \cap Field(l) = {}

(* An event that is encoded selects what its file says: the kernel finds   *)
(* in the field of every key exactly the value given for it (as far as it  *)
(* fits, 0 when none is), unharmed by values of other keys that do not fit *)
(* theirs; for files whose ranges are proper and do not overlap, and       *)
(* events without a raw config term.                                       *)
EncodedFaithfully ==
  \A e \in events, k \in Keys :
    /\ Proper(k)
    /\ \A t \in TermsOf(e.name) : t.kind = "term" =>
         t.key # "config" /\ Proper(t.key) /\ (t.key # k => Disjoint(t.key, k))
    => View(k, e.config) = Said(e.name, k) \cap FieldWidth(k)

(* No event is guessed at: one with a term that cannot be encoded (a key   *)
(* of config1, a key without a format, a malformed token) is dropped with  *)
(* a reason, never opened with the rest of its terms; every other event    *)
(* that was read is there, once.                                           *)
OnlyUnderstoodEvents ==
  /\ \A n \in read : ~(pc = "terms" /\ n = cur) =>
       /\ n \in dropped <=>
            \E t \in TermsOf(n) : t.kind # "empty" /\
               (t.kind = "malformed" \/ t.key \notin Known \cup {"config"})
       /\ (\E e \in events : e.name = n) <=> n \notin dropped
  /\ \A e, f \in events : e.name = f.name => e = f
=============================================================================
