--------------------------- MODULE PmuEncodeProofs ---------------------------
(* Proofs about PmuEncode, for any width of the config, any formats and    *)
(* any events.                                                             *)
EXTENDS PmuEncode, TLAPS

(* The bits a term contributes; terms that say nothing contribute none. *)
Gives(t) == IF t.kind = "term" THEN TermBits(t) ELSE {}
Prefix(n, j) == UNION {Gives(edir[n][l]) : l \in 1..j}

(* An event that cannot be encoded. *)
Bad(n) == \E t \in TermsOf(n) :
            t.kind # "empty" /\ (t.kind = "malformed" \/ t.key \notin Known \cup {"config"})

(* The map of formats holds what the files say, and is complete before the *)
(* first event is read.                                                    *)
Formats ==
  /\ \A f \in format : f = FormatSpec(f.key) /\ fdir[f.key].field = "config"
  /\ pc \in {"type", "formatdir", "formats"} => read = {}

(* Every event is read once and lies in one place. *)
Once ==
  /\ pc \in {"events", "terms"} => todo \cap read = {}
  /\ dropped \subseteq read /\ \A e \in events : e.name \in read
  /\ pc = "terms" => cur \in read /\ cur \notin dropped /\ \A e \in events : e.name # cur

(* The event at hand is encoded up to its i-th term. *)
SoFar ==
  pc = "terms" =>
    /\ i <= Len(edir[cur]) + 1
    /\ \A j \in 1..(i - 1) : Understood(edir[cur][j])
    /\ cfg = Prefix(cur, i - 1)

(* An encoded event has the bits of all its terms. *)
Encoded == \A e \in events : e.config = Prefix(e.name, Len(edir[e.name]))

IInv == TypeOK /\ Formats /\ Once /\ SoFar /\ Encoded /\ OnlyUnderstoodEvents

-----------------------------------------------------------------------------
(* The arithmetic stays within its widths.                                 *)

LEMMA ByteRange ==
  ASSUME NEW n \in Nat \cup {Junk}
  PROVE  ParseByte(n) \in 0..MaxByte
  BY PmuEncodeAssumption DEF ParseByte, Junk

LEMMA MaskRange ==
  ASSUME NEW w \in Int
  PROVE  BitMask(w) \subseteq Bits
  BY PmuEncodeAssumption DEF BitMask, Bits

LEMMA WidthType ==
  ASSUME NEW lo \in Nat, NEW hi \in Nat
  PROVE  Width(lo, hi) \in Int
  BY PmuEncodeAssumption DEF Width

LEMMA FormatSpecType ==
  ASSUME TypeOK, NEW k \in Keys
  PROVE  /\ FormatSpec(k) \in [key : Keys, shift : 0..MaxByte, mask : SUBSET Bits]
         /\ FormatSpec(k).key = k
  <1>1. fdir[k].lo \in Nat \cup {Junk} /\ fdir[k].hi \in Nat \cup {Junk}
    BY PmuEncodeAssumption DEF TypeOK, FormatFile
  <1>2. ParseByte(fdir[k].lo) \in 0..MaxByte /\ ParseByte(fdir[k].hi) \in 0..MaxByte
    BY <1>1, ByteRange
  <1>3. ParseByte(fdir[k].lo) \in Nat /\ ParseByte(fdir[k].hi) \in Nat
    BY <1>2, PmuEncodeAssumption
  <1>4. BitMask(Width(ParseByte(fdir[k].lo), ParseByte(fdir[k].hi))) \subseteq Bits
    BY <1>3, WidthType, MaskRange
  <1> QED BY <1>2, <1>4 DEF FormatSpec

LEMMA TermType ==
  ASSUME TypeOK, NEW n \in Names, NEW j \in 1..Len(edir[n])
  PROVE  /\ edir[n][j] \in Term /\ edir[n][j] \in TermsOf(n)
         /\ edir[n][j].kind \in {"term", "empty", "malformed"} /\ edir[n][j].val \subseteq Bits
  <1>1. edir[n] \in Seq(Term)
    BY PmuEncodeAssumption DEF TypeOK
  <1>2. edir[n][j] \in Term
    BY <1>1
  <1> QED BY <1>2 DEF Term, TermsOf

LEMMA TermBitsRange ==
  ASSUME NEW t, t.val \subseteq Bits
  PROVE  TermBits(t) \subseteq Bits
  BY DEF TermBits, ShiftLeft

-----------------------------------------------------------------------------
(* Before the first event is read nothing is known of any.                 *)
LEMMA Early ==
  ASSUME IInv, read = {}
  PROVE  /\ events = {} /\ dropped = {} /\ pc # "terms"
  BY DEF IInv, Once

(* While the formats stay as they are, so does what every term gives.      *)
LEMMA Unmoved ==
  ASSUME UNCHANGED <<files, format>>
  PROVE  /\ Known' = Known
         /\ \A n, j : Prefix(n, j)' = Prefix(n, j)
         /\ \A n : Bad(n)' <=> Bad(n)
         /\ \A n : TermsOf(n)' = TermsOf(n)
         /\ Formats => \A f \in format' : f = FormatSpec(f.key)' /\ fdir'[f.key].field = "config"
  <1>1. fdir' = fdir /\ edir' = edir /\ format' = format
    BY DEF files
  <1>2. Known' = Known
    BY <1>1 DEF Known
  <1>3. \A n : TermsOf(n)' = TermsOf(n)
    BY <1>1 DEF TermsOf
  <1>4. \A n : Bad(n)' <=> Bad(n)
    BY <1>2, <1>3 DEF Bad
  <1>5. \A n, j : Prefix(n, j)' = Prefix(n, j)
    BY <1>1 DEF Prefix, Gives, TermBits
  <1>6. Formats => \A f \in format' : f = FormatSpec(f.key)' /\ fdir'[f.key].field = "config"
    BY <1>1 DEF Formats, FormatSpec
  <1> QED BY <1>2, <1>3, <1>4, <1>5, <1>6

(* The steps up to the first event. *)
LEMMA EarlyStep ==
  ASSUME IInv, ReadType \/ ListFormats \/ ListEvents \/ \E k \in Keys : ReadFormat(k)
  PROVE  IInv'
  <1> USE DEF files, line, outcome
  <1>1. TypeOK /\ Formats
    BY DEF IInv
  <1>2. pc \in {"type", "formatdir", "formats"} /\ read = {}
    BY <1>1 DEF Formats, ReadType, ListFormats, ListEvents, ReadFormat
  <1>3. events = {} /\ dropped = {}
    BY <1>2, Early
  <1>4. events' = {} /\ dropped' = {} /\ read' = {} /\ pc' # "terms" /\ fdir' = fdir /\ edir' = edir
    BY <1>2, <1>3 DEF ReadType, ListFormats, ListEvents, ReadFormat
  <1>5. Once' /\ SoFar' /\ Encoded' /\ OnlyUnderstoodEvents'
    BY <1>4 DEF Once, SoFar, Encoded, OnlyUnderstoodEvents
  <1>6. \A f \in format' : f \in format \/ \E k \in Keys : f = FormatSpec(k) /\ fdir[k].field = "config"
    BY DEF ReadType, ListFormats, ListEvents, ReadFormat
  <1>7. \A k \in Keys : FormatSpec(k)' = FormatSpec(k)
    BY <1>4 DEF FormatSpec
  <1>8. \A k \in Keys : /\ FormatSpec(k) \in [key : Keys, shift : 0..MaxByte, mask : SUBSET Bits]
                       /\ FormatSpec(k).key = k
    BY <1>1, FormatSpecType
  <1>9. \A f \in format' : f \in [key : Keys, shift : 0..MaxByte, mask : SUBSET Bits]
    BY <1>1, <1>6, <1>8 DEF TypeOK
  <1>10. \A f \in format' : f.key \in Keys
    BY <1>9
  <1>11. \A f \in format' : f = FormatSpec(f.key) /\ fdir[f.key].field = "config"
    BY <1>1, <1>6, <1>8 DEF Formats
  <1>12. Formats'
    BY <1>4, <1>7, <1>10, <1>11 DEF Formats
  <1>13. TypeOK'
    BY <1>1, <1>4, <1>9 DEF TypeOK, ReadType, ListFormats, ListEvents, ReadFormat
  <1> QED BY <1>5, <1>12, <1>13 DEF IInv

LEMMA SkipStep ==
  ASSUME IInv, NEW n \in Names, SkipEvent(n)
  PROVE  IInv'
  <1> USE DEF files, line, outcome
  <1>1. UNCHANGED <<files, format>> /\ todo' \subseteq todo
    BY DEF SkipEvent
  <1>2. TypeOK'
    BY DEF IInv, TypeOK, SkipEvent
  <1>3. Formats'
    BY <1>1, Unmoved DEF IInv, Formats, SkipEvent
  <1>4. Once' /\ SoFar'
    BY <1>1 DEF IInv, Once, SoFar, SkipEvent
  <1>5. Encoded'
    BY <1>1, Unmoved DEF IInv, Encoded, SkipEvent
  <1>6. OnlyUnderstoodEvents'
    BY <1>1, Unmoved DEF IInv, OnlyUnderstoodEvents, SkipEvent
  <1> QED BY <1>2, <1>3, <1>4, <1>5, <1>6 DEF IInv

LEMMA EndStep ==
  ASSUME IInv, Loaded \/ UNCHANGED vars
  PROVE  IInv'
  <1> USE DEF files, line, outcome, vars
  <1>1. UNCHANGED <<files, format, line, outcome, todo>> /\ (pc' = pc \/ (pc = "events" /\ pc' = "loaded"))
    BY DEF Loaded
  <1>2. TypeOK'
    BY <1>1 DEF IInv, TypeOK
  <1>3. Formats'
    BY <1>1, Unmoved DEF IInv, Formats
  <1>4. Once'
    BY <1>1 DEF IInv, Once
  <1>5. SoFar'
    BY <1>1, Unmoved DEF IInv, SoFar, Understood
  <1>6. Encoded'
    BY <1>1, Unmoved DEF IInv, Encoded
  <1>7. OnlyUnderstoodEvents'
    BY <1>1, Unmoved DEF IInv, OnlyUnderstoodEvents
  <1> QED BY <1>2, <1>3, <1>4, <1>5, <1>6, <1>7 DEF IInv

LEMMA ReadStep ==
  ASSUME IInv, NEW n \in Names, ReadEvent(n)
  PROVE  IInv'
  <1> USE DEF files, line, outcome
  <1>1. /\ UNCHANGED <<files, format, events, dropped>> /\ pc = "events" /\ pc' = "terms"
        /\ n \in todo /\ todo' = todo \ {n} /\ read' = read \cup {n} /\ cur' = n /\ i' = 1 /\ cfg' = {}
    BY DEF ReadEvent
  <1>2. TypeOK'
    BY <1>1 DEF IInv, TypeOK
  <1>3. Formats'
    BY <1>1, Unmoved DEF IInv, Formats
  <1>4. n \notin read
    BY <1>1 DEF IInv, Once
  <1>5. Once'
    BY <1>1, <1>4 DEF IInv, Once
  <1>6. edir[n] \in Seq(Term)
    BY PmuEncodeAssumption DEF IInv, TypeOK
  <1>7. Len(edir[n]) \in Nat
    BY <1>6
  <1>8. Prefix(n, 0) = {}
    BY DEF Prefix
  <1>9. SoFar'
    <2>1. Prefix(cur, i - 1)' = {}
      <3>1. 1 - 1 = 0 /\ (1..0) = {}
        OBVIOUS
      <3> QED BY <1>1, <3>1 DEF Prefix
    <2>2. i' <= Len(edir'[cur']) + 1 /\ 1..(i' - 1) = {}
      BY <1>1, <1>7
    <2> QED BY <1>1, <2>1, <2>2 DEF SoFar
  <1>10. Encoded'
    BY <1>1, Unmoved DEF IInv, Encoded
  <1>11. OnlyUnderstoodEvents'
    BY <1>1, Unmoved DEF IInv, OnlyUnderstoodEvents
  <1> QED BY <1>2, <1>3, <1>5, <1>9, <1>10, <1>11 DEF IInv

LEMMA TermStep ==
  ASSUME IInv, EncodeTerm
  PROVE  IInv'
  <1> USE DEF files, line, outcome
  <1> DEFINE t == edir[cur][i]
  <1>1. /\ UNCHANGED <<files, format, events, dropped, read, todo, cur, pc>> /\ pc = "terms"
        /\ i <= Len(edir[cur]) /\ Understood(t) /\ i' = i + 1
        /\ cfg' = IF t.kind = "empty" THEN cfg ELSE cfg \cup TermBits(t)
    BY DEF EncodeTerm
  <1>2. cur \in Names /\ i \in Nat \ {0} /\ cfg \subseteq Bits
    BY <1>1 DEF IInv, TypeOK
  <1>3. edir[cur] \in Seq(Term)
    BY <1>2, PmuEncodeAssumption DEF IInv, TypeOK
  <1>4. Len(edir[cur]) \in Nat /\ i \in 1..Len(edir[cur])
    BY <1>1, <1>2, <1>3
  <1>5. t.val \subseteq Bits /\ t.kind \in {"term", "empty", "malformed"}
    BY <1>2, <1>4, TermType DEF IInv
  <1>6. cfg' = cfg \cup Gives(t)
    BY <1>1, <1>5 DEF Gives, Understood
  <1>7. cfg' \subseteq Bits
    BY <1>2, <1>5, <1>6, TermBitsRange DEF Gives
  <1>8. TypeOK'
    BY <1>1, <1>2, <1>7 DEF IInv, TypeOK
  <1>9. Formats' /\ Encoded'
    BY <1>1, Unmoved DEF IInv, Formats, Encoded
  <1>10. Once'
    BY <1>1 DEF IInv, Once
  <1>11. Prefix(cur, i) = Prefix(cur, i - 1) \cup Gives(t)
    <2>1. 1..i = (1..(i - 1)) \cup {i}
      BY <1>2
    <2> QED BY <2>1 DEF Prefix
  <1>12. SoFar'
    <2>1. cfg' = Prefix(cur, i)
      BY <1>1, <1>6, <1>11 DEF IInv, SoFar
    <2>2. i' - 1 = i /\ i' <= Len(edir[cur]) + 1
      BY <1>1, <1>2, <1>4
    <2>3. \A j \in 1..i : Understood(edir[cur][j])
      <3>1. \A j \in 1..(i - 1) : Understood(edir[cur][j])
        BY <1>1 DEF IInv, SoFar
      <3>2. \A j \in 1..i : j \in 1..(i - 1) \/ j = i
        BY <1>2
      <3> QED BY <1>1, <3>1, <3>2
    <2>4. Known' = Known
      BY <1>1, Unmoved
    <2>5. \A j \in 1..(i' - 1) : Understood(edir[cur][j])'
      BY <1>1, <2>2, <2>3, <2>4 DEF Understood
    <2>6. Prefix(cur, i - 1)' = Prefix(cur, i)
      <3>1. 1..(i' - 1) = 1..i
        BY <2>2
      <3>2. \A l : Gives(edir[cur][l])' = Gives(edir[cur][l])
        BY <1>1 DEF Gives, TermBits
      <3> QED BY <3>1, <3>2 DEF Prefix
    <2> QED BY <1>1, <2>1, <2>2, <2>5, <2>6 DEF SoFar
  <1>13. OnlyUnderstoodEvents'
    BY <1>1, Unmoved DEF IInv, OnlyUnderstoodEvents
  <1> QED BY <1>8, <1>9, <1>10, <1>12, <1>13 DEF IInv

(* A term that is not understood makes its event one that is bad.          *)
LEMMA DropStep ==
  ASSUME IInv, DropEvent
  PROVE  IInv'
  <1> USE DEF files, line, outcome
  <1>1. /\ UNCHANGED <<files, format, events, read, todo, cur, i, cfg>> /\ pc = "terms" /\ pc' = "events"
        /\ i <= Len(edir[cur]) /\ ~Understood(edir[cur][i]) /\ dropped' = dropped \cup {cur}
    BY DEF DropEvent
  <1>2. cur \in Names /\ i \in Nat \ {0}
    BY <1>1 DEF IInv, TypeOK
  <1>3. cur \in read /\ cur \notin dropped /\ \A e \in events : e.name # cur
    BY <1>1 DEF IInv, Once
  <1>4. edir[cur] \in Seq(Term)
    BY <1>2, PmuEncodeAssumption DEF IInv, TypeOK
  <1>5. i \in 1..Len(edir[cur])
    BY <1>1, <1>2, <1>4
  <1>6. edir[cur][i] \in TermsOf(cur) /\ edir[cur][i].kind \in {"term", "empty", "malformed"}
    BY <1>2, <1>5, TermType DEF IInv
  <1>7. Bad(cur)
    BY <1>1, <1>6 DEF Bad, Understood
  <1>8. TypeOK'
    BY <1>1, <1>2 DEF IInv, TypeOK
  <1>9. Formats' /\ Encoded'
    BY <1>1, Unmoved DEF IInv, Formats, Encoded
  <1>10. Once' /\ SoFar'
    BY <1>1, <1>3 DEF IInv, Once, SoFar
  <1>11. OnlyUnderstoodEvents'
    <2>1. \A n \in read : n \in dropped' <=> Bad(n)
      BY <1>1, <1>3, <1>7 DEF IInv, OnlyUnderstoodEvents, Bad
    <2>2. \A n \in read : (\E e \in events : e.name = n) <=> n \notin dropped'
      BY <1>1, <1>3 DEF IInv, OnlyUnderstoodEvents
    <2>3. \A n : Bad(n)' <=> Bad(n)
      BY <1>1, Unmoved
    <2>4. \A n \in read' : /\ n \in dropped' <=> Bad(n)'
                           /\ (\E e \in events' : e.name = n) <=> n \notin dropped'
      BY <1>1, <2>1, <2>2, <2>3
    <2> QED BY <1>1, <2>4 DEF IInv, OnlyUnderstoodEvents, Bad
  <1> QED BY <1>8, <1>9, <1>10, <1>11 DEF IInv

(* An event whose terms were all understood is not bad.                    *)
LEMMA EncodedStep ==
  ASSUME IInv, EventEncoded
  PROVE  IInv'
  <1> USE DEF files, line, outcome
  <1> DEFINE e0 == [name |-> cur, config |-> cfg]
  <1>1. /\ UNCHANGED <<files, format, dropped, read, todo, cur, i, cfg>> /\ pc = "terms" /\ pc' = "events"
        /\ i > Len(edir[cur]) /\ events' = events \cup {e0}
    BY DEF EventEncoded
  <1>2. cur \in Names /\ i \in Nat \ {0} /\ cfg \subseteq Bits
    BY <1>1 DEF IInv, TypeOK
  <1>3. cur \in read /\ cur \notin dropped /\ \A e \in events : e.name # cur
    BY <1>1 DEF IInv, Once
  <1>4. edir[cur] \in Seq(Term)
    BY <1>2, PmuEncodeAssumption DEF IInv, TypeOK
  <1>5. i <= Len(edir[cur]) + 1
    BY <1>1 DEF IInv, SoFar
  <1>6. i - 1 = Len(edir[cur])
    BY <1>1, <1>2, <1>4, <1>5
  <1>7. \A j \in 1..Len(edir[cur]) : Understood(edir[cur][j])
    BY <1>1, <1>6 DEF IInv, SoFar
  <1>8. ~Bad(cur)
    BY <1>7 DEF Bad, Understood, TermsOf
  <1>9. e0.name = cur /\ e0.config = Prefix(cur, Len(edir[cur]))
    BY <1>1, <1>6 DEF IInv, SoFar
  <1>10. TypeOK'
    BY <1>1, <1>2 DEF IInv, TypeOK
  <1>11. Formats'
    BY <1>1, Unmoved DEF IInv, Formats
  <1>12. Encoded'
    BY <1>1, <1>9, Unmoved DEF IInv, Encoded
  <1>13. Once' /\ SoFar'
    BY <1>1, <1>3, <1>9 DEF IInv, Once, SoFar
  <1>14. OnlyUnderstoodEvents'
    <2>1. \A n \in read : n \in dropped <=> Bad(n)
      BY <1>1, <1>3, <1>8 DEF IInv, OnlyUnderstoodEvents, Bad
    <2>2. \A n \in read : (\E e \in events' : e.name = n) <=> n \notin dropped
      BY <1>1, <1>3, <1>9 DEF IInv, OnlyUnderstoodEvents
    <2>3. \A n : Bad(n)' <=> Bad(n)
      BY <1>1, Unmoved
    <2>4. \A n \in read' : /\ n \in dropped' <=> Bad(n)'
                           /\ (\E e \in events' : e.name = n) <=> n \notin dropped'
      BY <1>1, <2>1, <2>2, <2>3
    <2>5. \A e, f \in events' : e.name = f.name => e = f
      BY <1>1, <1>3, <1>9 DEF IInv, OnlyUnderstoodEvents
    <2> QED BY <2>4, <2>5 DEF OnlyUnderstoodEvents, Bad
  <1> QED BY <1>10, <1>11, <1>12, <1>13, <1>14 DEF IInv

LEMMA Start == ASSUME Init PROVE IInv
  <1>1. TypeOK
    BY PmuEncodeAssumption DEF Init, TypeOK
  <1>2. Formats /\ Once /\ SoFar /\ Encoded /\ OnlyUnderstoodEvents
    BY DEF Init, Formats, Once, SoFar, Encoded, OnlyUnderstoodEvents
  <1> QED BY <1>1, <1>2 DEF IInv

LEMMA Step == ASSUME IInv, [Next]_vars PROVE IInv'
  BY EarlyStep, SkipStep, EndStep, ReadStep, TermStep, DropStep, EncodedStep DEF Next

LEMMA Invariance == Spec => []IInv
  <1>1. Init => IInv
    BY Start
  <1>2. IInv /\ [Next]_vars => IInv'
    BY Step
  <1> QED BY <1>1, <1>2, PTL DEF Spec

-----------------------------------------------------------------------------
(* What loadFormats keeps of a proper range is that range.                 *)
LEMMA ProperFormat ==
  ASSUME TypeOK, NEW k \in Keys, Proper(k)
  PROVE  FormatSpec(k).shift = fdir[k].lo /\ FormatSpec(k).mask = FieldWidth(k)
  <1> DEFINE lo == fdir[k].lo
             hi == fdir[k].hi
  <1>1. lo \in Nat \cup {Junk} /\ hi \in Nat \cup {Junk}
    BY PmuEncodeAssumption DEF TypeOK, FormatFile
  <1>2. lo # Junk /\ lo <= hi /\ hi < W /\ hi <= MaxByte
    BY DEF Proper
  <1>3. lo \in Nat /\ hi \in Nat /\ hi # Junk
    BY <1>1, <1>2 DEF Junk
  <1> HIDE DEF lo, hi
  <1>4. ParseByte(lo) = lo /\ ParseByte(hi) = hi
    BY <1>2, <1>3, PmuEncodeAssumption DEF ParseByte
  <1>5. Width(lo, hi) = hi + 1 - lo
    BY <1>2, <1>3 DEF Width
  <1>6. BitMask(hi + 1 - lo) = 0..(hi - lo)
    BY <1>2, <1>3, PmuEncodeAssumption DEF BitMask, Bits
  <1> QED BY <1>4, <1>5, <1>6 DEF FormatSpec, FieldWidth, lo, hi

(* A term of a proper key sets exactly the bits of its value, in its field. *)
LEMMA TermInField ==
  ASSUME IInv, NEW t, t.key \in Known, t.key # "config", t.key \in Keys, Proper(t.key), t.val \subseteq Bits
  PROVE  TermBits(t) = {b + fdir[t.key].lo : b \in t.val \cap FieldWidth(t.key)}
  <1> DEFINE k == t.key
             fs == {g \in format : g.key = k}
  <1>1. FormatSpec(k).shift = fdir[k].lo /\ FormatSpec(k).mask = FieldWidth(k)
    BY ProperFormat DEF IInv
  <1>2. fs = {FormatSpec(k)}
    BY DEF IInv, Formats, Known
  <1>3. TermBits(t) = ShiftLeft(t.val \cap FieldWidth(k), fdir[k].lo)
    BY <1>1, <1>2 DEF TermBits
  <1>4. fdir[k].lo \in Nat /\ fdir[k].hi \in Nat /\ fdir[k].hi < W
    <2>1. fdir[k].lo \in Nat \cup {Junk} /\ fdir[k].hi \in Nat \cup {Junk}
      BY PmuEncodeAssumption DEF IInv, TypeOK, FormatFile
    <2> QED BY <2>1 DEF Proper, Junk
  <1>5. \A b \in FieldWidth(k) : b + fdir[k].lo \in Bits
    BY <1>4, PmuEncodeAssumption DEF FieldWidth, Bits
  <1> QED BY <1>3, <1>5 DEF ShiftLeft

(* Hence an encoded event can be read back, field by field.                *)
LEMMA ReadBack == ASSUME IInv PROVE EncodedFaithfully
  <1> SUFFICES ASSUME NEW e \in events, NEW k \in Keys, Proper(k),
                      \A t \in TermsOf(e.name) : t.kind = "term" =>
                        t.key # "config" /\ Proper(t.key) /\ (t.key # k => Disjoint(t.key, k))
               PROVE  View(k, e.config) = Said(e.name, k) \cap FieldWidth(k)
    BY DEF EncodedFaithfully
  <1> DEFINE n == e.name
             said == {t \in TermsOf(n) : t.kind = "term"}
  <1>1. n \in Names /\ n \in read /\ ~(pc = "terms" /\ n = cur)
    BY DEF IInv, TypeOK, Once
  <1>2. ~Bad(n)
    BY <1>1 DEF IInv, OnlyUnderstoodEvents, Bad
  <1>3. \A t \in TermsOf(n) : t.val \subseteq Bits
    BY <1>1, TermType DEF IInv, TermsOf
  <1>4. Known \subseteq Keys
    BY DEF IInv, TypeOK, Known
  <1>5. \A t \in said : /\ t.key \in Known /\ t.key # "config" /\ t.key \in Keys /\ Proper(t.key)
                        /\ t.val \subseteq Bits /\ (t.key # k => Disjoint(t.key, k))
    BY <1>2, <1>3, <1>4 DEF Bad
  <1>6. \A t \in said : TermBits(t) = {b + fdir[t.key].lo : b \in t.val \cap FieldWidth(t.key)}
    BY <1>5, TermInField
  <1>7. e.config = UNION {TermBits(t) : t \in said}
    <2>1. e.config = Prefix(n, Len(edir[n]))
      BY DEF IInv, Encoded
    <2> QED BY <2>1 DEF Prefix, Gives, TermsOf
  <1>8. \A l \in Keys : Proper(l) => fdir[l].lo \in Nat /\ fdir[l].hi \in Nat
    <2>1. \A l \in Keys : fdir[l].lo \in Nat \cup {Junk} /\ fdir[l].hi \in Nat \cup {Junk}
      BY PmuEncodeAssumption DEF IInv, TypeOK, FormatFile
    <2> QED BY <2>1 DEF Proper, Junk
  <1>9. \A l \in Keys : Proper(l) => \A b \in FieldWidth(l) : b + fdir[l].lo \in Field(l)
    BY <1>8 DEF FieldWidth, Field
  <1>10. ASSUME NEW x \in View(k, e.config) PROVE x \in Said(n, k) \cap FieldWidth(k)
    <2>1. PICK c \in e.config : c \in Field(k) /\ x = c - fdir[k].lo
      BY <1>10 DEF View
    <2>2. PICK t \in said : c \in TermBits(t)
      BY <1>7
    <2>3. PICK b \in t.val \cap FieldWidth(t.key) : c = b + fdir[t.key].lo
      BY <1>6, <2>2
    <2>4. c \in Field(t.key)
      BY <1>5, <1>9, <2>3
    <2>5. t.key = k
      BY <1>5, <2>1, <2>4 DEF Disjoint
    <2>6. x = b
      <3>1. c = b + fdir[k].lo /\ b \in FieldWidth(k)
        BY <2>3, <2>5
      <3> QED BY <1>8, <2>1, <3>1 DEF FieldWidth
    <2> QED BY <2>2, <2>3, <2>5, <2>6 DEF Said
  <1>11. ASSUME NEW x \in Said(n, k) \cap FieldWidth(k) PROVE x \in View(k, e.config)
    <2>1. PICK t \in said : t.key = k /\ x \in t.val
      BY <1>11 DEF Said
    <2>2. x + fdir[k].lo \in TermBits(t)
      BY <1>6, <1>11, <2>1
    <2>3. x + fdir[k].lo \in e.config
      BY <1>7, <2>2
    <2>4. x + fdir[k].lo \in Field(k)
      BY <1>9, <1>11
    <2>5. x = (x + fdir[k].lo) - fdir[k].lo
      BY <1>8, <1>11 DEF FieldWidth
    <2> QED BY <2>3, <2>4, <2>5 DEF View
  <1> QED BY <1>10, <1>11

-----------------------------------------------------------------------------
(* Every variable keeps its type; attr.config stays within its bits,       *)
(* whatever the ranges of the format files say (loadFormats, bitMask).     *)
THEOREM TypeCorrect == Spec => []TypeOK
  BY Invariance, PTL DEF IInv

(* No event is opened with only some of its terms (encodeEventLine).       *)
THEOREM NeverGuessed == Spec => []OnlyUnderstoodEvents
  BY Invariance, PTL DEF IInv

(* What is encoded for an event is what the kernel finds in the field of   *)
(* every key, for proper and disjoint ranges (loadPMU and what it calls).  *)
THEOREM Faithful == Spec => []EncodedFaithfully
  <1>1. IInv => EncodedFaithfully
    BY ReadBack
  <1> QED BY <1>1, Invariance, PTL
=============================================================================
