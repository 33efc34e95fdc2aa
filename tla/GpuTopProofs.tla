---------------------------- MODULE GpuTopProofs ----------------------------
(* Proofs about GpuTop, for any number of callers, any bound on the        *)
(* objects, any pipe and any output of the child.                          *)
EXTENDS GpuTop, TLAPS

(* A sample, and the answer "there is none". *)
Samples == {Sample(n) : n \in 1..MaxObjects}
Known   == Samples \cup {Nil}

(* Every sample in s is numbered above lo and not above hi. *)
Between(s, lo, hi) ==
  \A j \in 1..Len(s) : s[j].kind = "sample" => lo < s[j].n /\ s[j].n <= hi

Increasing(s) ==
  \A j, k \in 1..Len(s) :
    j < k /\ s[j].kind = "sample" /\ s[k].kind = "sample" => s[j].n < s[k].n

(* The newest sample that was decoded. *)
Newest == IF cons = "store" THEN obj.n ELSE latest.n

(* The goroutines end in the order of their waits. *)
EndsInOrder ==
  /\ cons = "done" => child = "dead" /\ outp = <<>>
  /\ waiter \in {"wait", "done"} => cons = "done"
  /\ exited => waiter = "done"

(* What is decoded is newer than what is cached and older than what is     *)
(* still in the pipe.                                                      *)
DecodedInOrder ==
  /\ latest \in Known
  /\ cons = "store" => obj \in Samples /\ latest.n < obj.n
  /\ Newest <= wrote
  /\ Between(outp, Newest, wrote)
  /\ Increasing(outp)

(* No caller holds a sample newer than the cache. *)
HeldIsCached == \A u \in Updaters : held[u] \in Known /\ held[u].n <= latest.n

IInv == TypeOK /\ EndsInOrder /\ DecodedInOrder /\ HeldIsCached

-----------------------------------------------------------------------------
(* Tokens and sequences of tokens.                                         *)

(* What a token is: its fields, and whether it is a sample. *)
LEMMA TokFacts ==
  ASSUME NEW k PROVE Tok(k).kind = k /\ Tok(k).n = 0
  BY DEF Tok

LEMMA SampleFacts ==
  /\ \A n : Sample(n).kind = "sample" /\ Sample(n).n = n
  /\ \A t \in Samples : t \in Token /\ t.kind = "sample" /\ t.n \in 1..MaxObjects /\ t = Sample(t.n)
  <1>1. \A n : Sample(n).kind = "sample" /\ Sample(n).n = n
    BY DEF Sample
  <1>2. ASSUME NEW t \in Samples
        PROVE  t \in Token /\ t.kind = "sample" /\ t.n \in 1..MaxObjects /\ t = Sample(t.n)
    <2>1. PICK n \in 1..MaxObjects : t = Sample(n)
      BY DEF Samples
    <2>2. t \in Token
      BY <2>1 DEF Token
    <2> QED BY <1>1, <2>1, <2>2
  <1> QED BY <1>1, <1>2

LEMMA ZeroToMax == MaxObjects \in Nat /\ 0 \in 0..MaxObjects
  BY GpuTopAssumption

LEMMA TokenFacts ==
  ASSUME NEW t \in Token
  PROVE  /\ t.n \in 0..MaxObjects
         /\ t.kind = "sample" => t \in Samples
  <1>1. CASE \E i \in 1..MaxObjects : t = Sample(i)
    <2>1. PICK i \in 1..MaxObjects : t = Sample(i)
      BY <1>1
    <2>2. t.n = i /\ t \in Samples
      BY <2>1, SampleFacts DEF Samples
    <2>3. t.n \in 0..MaxObjects
      BY <2>2, GpuTopAssumption
    <2> QED BY <2>2, <2>3
  <1>2. CASE \E k \in {"[", ",", "]", "nil"} \cup Says : t = Tok(k)
    <2>1. PICK k \in {"[", ",", "]", "nil"} \cup Says : t = Tok(k)
      BY <1>2
    <2>2. t.n = 0
      BY <2>1, TokFacts
    <2>3. k # "sample"
      BY <2>1, GpuTopAssumption
    <2>4. t.n \in 0..MaxObjects
      BY <2>2, ZeroToMax
    <2>5. t.kind # "sample"
      BY <2>1, <2>3, TokFacts
    <2> QED BY <2>4, <2>5
  <1> QED BY <1>1, <1>2 DEF Token

(* Known samples with the same number are the same. *)
LEMMA KnownFacts ==
  /\ Nil \in Known /\ Nil.n = 0 /\ Nil.kind # "sample"
  /\ \A t \in Known : t \in Token /\ t.n \in 0..MaxObjects /\ (t # Nil => t \in Samples)
  /\ \A s, t \in Known : s.n = t.n => s = t
  <1>1. Nil \in Token /\ Nil.n = 0 /\ Nil.kind # "sample"
    <2>1. Nil.n = 0 /\ Nil.kind = "nil"
      BY TokFacts DEF Nil
    <2>2. Nil \in Token
      BY DEF Nil, Token
    <2> QED BY <2>1, <2>2
  <1>2. ASSUME NEW t \in Known
        PROVE  t \in Token /\ t.n \in 0..MaxObjects /\ (t # Nil => t \in Samples)
    BY <1>1, SampleFacts, TokenFacts DEF Known
  <1>3. ASSUME NEW s \in Known, NEW t \in Known, s.n = t.n
        PROVE  s = t
    <2>1. CASE s = Nil
      <3>1. t \notin Samples
        <4>1. t.n = 0
          BY <1>1, <1>3, <2>1
        <4> QED BY <4>1, SampleFacts
      <3> QED BY <2>1, <3>1 DEF Known
    <2>2. CASE t = Nil
      <3>1. s \notin Samples
        <4>1. s.n = 0
          BY <1>1, <1>3, <2>2
        <4> QED BY <4>1, SampleFacts
      <3> QED BY <2>2, <3>1 DEF Known
    <2>3. CASE s # Nil /\ t # Nil
      <3>1. s = Sample(s.n) /\ t = Sample(t.n)
        BY <2>3, SampleFacts DEF Known
      <3> QED BY <1>3, <3>1
    <2> QED BY <2>1, <2>2, <2>3
  <1> QED BY <1>1, <1>2, <1>3 DEF Known

(* A token of one of the child's other kinds. *)
LEMMA OtherToken ==
  ASSUME NEW K, NEW t \in May(K)
  PROVE  t \in Token /\ t.kind \in K \cap Says /\ t.kind # "sample"
  <1>1. PICK k \in K \cap Says : t = Tok(k)
    BY DEF May
  <1>2. t.kind = k
    BY <1>1, TokFacts
  <1>3. k # "sample"
    BY GpuTopAssumption
  <1>4. t \in Token
    BY <1>1 DEF Token
  <1> QED BY <1>1, <1>2, <1>3, <1>4

(* The child writes one token: Sample(wrote + 1) or no sample at all. *)
LEMMA NextTokenFacts ==
  ASSUME TypeOK, NEW t \in NextTokens
  PROVE  /\ t \in Token
         /\ t.kind = "sample" => t.n = wrote + 1
         /\ IsObject(t) => wrote < MaxObjects
  <1>1. ASSUME NEW k \in {"[", ",", "]"}, t = Tok(k)
        PROVE  t \in Token /\ t.kind # "sample" /\ ~IsObject(t)
    <2>1. t.kind = k
      BY <1>1, TokFacts
    <2>2. t \in Token
      BY <1>1 DEF Token
    <2> QED BY <2>1, <2>2 DEF IsObject
  <1>2. CASE tail = Nil
    <2>0. tail.kind = "nil"
      BY <1>2, TokFacts DEF Nil
    <2>1. t = Tok("[") \/ t \in May({"other"})
      BY <1>2, <2>0 DEF NextTokens, IsObject
    <2>2. CASE t = Tok("[")
      BY <2>2, <1>1
    <2>3. CASE t \in May({"other"})
      BY <2>3, OtherToken DEF IsObject
    <2> QED BY <2>1, <2>2, <2>3
  <1>3. CASE tail # Nil /\ tail.kind \in {"[", ",", "other"} /\ wrote < MaxObjects
    <2>1. t = Sample(wrote + 1) \/ t \in May({"mistyped", "garbage"})
      BY <1>3 DEF NextTokens, IsObject
    <2>2. CASE t = Sample(wrote + 1)
      <3>0. wrote \in 0..MaxObjects /\ wrote < MaxObjects
        BY <1>3 DEF TypeOK
      <3>1. wrote + 1 \in 1..MaxObjects
        BY <3>0, ZeroToMax
      <3>2. t \in Token
        BY <2>2, <3>1 DEF Token
      <3>3. t.n = wrote + 1
        BY <2>2, SampleFacts
      <3> QED BY <3>2, <3>3, <1>3
    <2>3. CASE t \in May({"mistyped", "garbage"})
      <3>1. t \in Token /\ t.kind # "sample"
        BY <2>3, OtherToken
      <3> QED BY <3>1, <1>3
    <2> QED BY <2>1, <2>2, <2>3
  <1>4. CASE tail # Nil /\ ~(tail.kind \in {"[", ",", "other"} /\ wrote < MaxObjects)
    <2>1. CASE IsObject(tail)
      <3>1. t = Tok(",") \/ t = Tok("]")
        BY <1>4, <2>1 DEF NextTokens
      <3>2. CASE t = Tok(",")
        BY <3>2, <1>1
      <3>3. CASE t = Tok("]")
        BY <3>3, <1>1
      <3> QED BY <3>1, <3>2, <3>3
    <2>2. CASE ~IsObject(tail)
      BY <1>4, <2>2 DEF NextTokens
    <2> QED BY <2>1, <2>2
  <1> QED BY <1>2, <1>3, <1>4

(* Taking the first token off keeps the order. *)
LEMMA TailOrdered ==
  ASSUME NEW s \in Seq(Token), s # <<>>, NEW lo \in Nat, NEW hi \in Nat,
         Between(s, lo, hi), Increasing(s)
  PROVE  /\ Tail(s) \in Seq(Token) /\ Head(s) \in Token
         /\ Between(Tail(s), lo, hi) /\ Increasing(Tail(s))
         /\ Head(s).kind = "sample" =>
              /\ lo < Head(s).n /\ Head(s).n <= hi
              /\ Between(Tail(s), Head(s).n, hi)
  BY DEF Between, Increasing

(* Adding a token keeps the order, if a sample among them is the next one. *)
LEMMA AppendOrdered ==
  ASSUME NEW s \in Seq(Token), NEW t \in Token, NEW lo \in Nat, NEW hi \in Nat, NEW top \in Nat,
         hi <= top, lo <= hi, t.kind = "sample" => t.n = hi + 1 /\ hi < top,
         Between(s, lo, hi), Increasing(s)
  PROVE  /\ Append(s, t) \in Seq(Token)
         /\ Between(Append(s, t), lo, top) /\ Increasing(Append(s, t))
  <1> DEFINE r == Append(s, t)
  <1>1. /\ r \in Seq(Token) /\ Len(r) = Len(s) + 1 /\ r[Len(s) + 1] = t
        /\ \A j \in 1..Len(s) : r[j] = s[j]
    OBVIOUS
  <1>2. \A j \in 1..Len(s) : s[j].n \in Nat
    BY TokenFacts, GpuTopAssumption
  <1>3. Between(r, lo, top)
    BY <1>1, <1>2 DEF Between
  <1>4. ASSUME NEW j \in 1..Len(r), NEW k \in 1..Len(r), j < k,
               r[j].kind = "sample", r[k].kind = "sample"
        PROVE  r[j].n < r[k].n
    <2>1. CASE k \in 1..Len(s)
      BY <1>1, <1>4, <2>1 DEF Increasing
    <2>2. CASE k = Len(s) + 1
      <3>1. j \in 1..Len(s) /\ r[j] = s[j] /\ r[k] = t
        BY <1>1, <1>4, <2>2
      <3>2. s[j].n <= hi
        BY <1>4, <3>1 DEF Between
      <3> QED BY <1>2, <1>4, <3>1, <3>2
    <2> QED BY <1>1, <2>1, <2>2
  <1>5. Increasing(r)
    BY <1>4 DEF Increasing
  <1> QED BY <1>1, <1>3, <1>5
-----------------------------------------------------------------------------
(* Types.                                                                  *)

LEMMA InitInv == Init => IInv
  <1> SUFFICES ASSUME Init PROVE IInv
    OBVIOUS
  <1>1. Nil \in Token /\ Nil \in Known /\ Nil.n = 0
    BY KnownFacts
  <1>2. TypeOK
    <2>1. Init => /\ outp \in Seq(Token) /\ held \in [Updaters -> Token]
                  /\ upc \in [Updaters -> {"idle", "check", "emit"}]
                  /\ \A u \in Updaters : upc[u] = "idle"
      BY <1>1 DEF Init
    <2>2. tail \in Token /\ obj \in Token /\ latest \in Token /\ wrote \in 0..MaxObjects
      BY <1>1, ZeroToMax DEF Init
    <2> QED BY <2>1, <2>2 DEF Init, TypeOK
  <1>3. EndsInOrder
    BY DEF Init, EndsInOrder
  <1>4. DecodedInOrder
    BY <1>1 DEF Init, DecodedInOrder, Newest, Between, Increasing
  <1>5. HeldIsCached
    <2>1. \A u \in Updaters : held[u] = latest
      BY DEF Init
    <2>2. latest \in Known /\ latest.n <= latest.n
      BY <1>1 DEF Init
    <2> QED BY <2>1, <2>2 DEF HeldIsCached
  <1> QED BY <1>2, <1>3, <1>4, <1>5 DEF IInv

(* The pipe's first token can be taken off. *)
LEMMA TakeOff ==
  ASSUME TypeOK, outp # <<>>
  PROVE  Tail(outp) \in Seq(Token) /\ Head(outp) \in Token
  <1>1. outp \in Seq(Token)
    BY DEF TypeOK
  <1> QED BY <1>1

LEMMA FrontThere ==
  ASSUME NEW k \in {"sample", "mistyped", ",", "["}, Front = k
  PROVE  outp # <<>> /\ Head(outp).kind = k
  <1>1. CASE outp = <<>>
    BY <1>1 DEF Front
  <1>2. CASE outp # <<>>
    BY <1>2 DEF Front
  <1> QED BY <1>1, <1>2

LEMMA TypeStep == TypeOK /\ [Next]_vars => TypeOK'
  <1> SUFFICES ASSUME TypeOK, [Next]_vars PROVE TypeOK'
    OBVIOUS
  <1>1. CASE Start
    BY <1>1 DEF Start, TypeOK, updates
  <1>2. CASE Stop
    BY <1>2 DEF Stop, TypeOK, proc, decoder, waiting, updates
  <1>3. CASE ChildWrite
    <2>1. tail' \in Token /\ (IsObject(tail') => wrote < MaxObjects)
      BY <1>3, NextTokenFacts DEF ChildWrite
    <2>2. outp' \in Seq(Token)
      BY <1>3, <2>1 DEF ChildWrite, TypeOK
    <2>3. wrote' \in 0..MaxObjects
      BY <1>3, <2>1, ZeroToMax DEF ChildWrite, TypeOK
    <2> QED BY <1>3, <2>1, <2>2, <2>3 DEF ChildWrite, TypeOK, decoder, waiting, updates
  <1>4. CASE ChildStderr
    BY <1>4 DEF ChildStderr, TypeOK, proc, decoder, waiting, updates
  <1>5. CASE ChildExit
    <2>1. \A t \in May({"part"}) : t \in Token
      BY OtherToken
    <2>2. outp' \in Seq(Token)
      <3>1. outp \in Seq(Token)
        BY DEF TypeOK
      <3>2. outp' = outp \/ \E t \in May({"part"}) : outp' = Append(outp, t)
        BY <1>5 DEF ChildExit
      <3> QED BY <2>1, <3>1, <3>2
    <2> QED BY <1>5, <2>2 DEF ChildExit, TypeOK, decoder, waiting, updates
  <1>6. CASE ReadOpening
    <2>1. outp' \in Seq(Token)
      BY <1>6, TakeOff DEF ReadOpening, TypeOK
    <2> QED BY <1>6, <2>1 DEF ReadOpening, TypeOK, proc, waiting, updates
  <1>7. CASE More
    BY <1>7 DEF More, TypeOK, proc, waiting, updates
  <1>8. ASSUME NEW k \in {"sample", "mistyped", ","}, NEW next \in {"store", "sleep", "decode"},
               DecodeTo(k, next)
        PROVE  TypeOK'
    <2>1. outp' \in Seq(Token) /\ obj' \in Token
      BY <1>8, FrontThere, TakeOff DEF DecodeTo, TypeOK
    <2> QED BY <1>8, <2>1 DEF DecodeTo, TypeOK, proc, waiting, updates
  <1>9. CASE DecodeFails
    <2>1. stuck' \in BOOLEAN
      <3>1. stuck' = (stuck \/ Front = "garbage" \/ (Front = "part" /\ child = "dead"))
        BY <1>9 DEF DecodeFails, Unreadable
      <3> QED BY <3>1
    <2> QED BY <1>9, <2>1 DEF DecodeFails, TypeOK, proc, waiting, updates
  <1>10. CASE Sleep
    BY <1>10 DEF Sleep, TypeOK, proc, waiting, updates
  <1>11. CASE Store
    BY <1>11 DEF Store, TypeOK, proc, waiting, updates
  <1>12. CASE Discard
    <2>1. outp' \in Seq(Token)
      BY <1>12, TakeOff DEF Discard, TypeOK
    <2> QED BY <1>12, <2>1 DEF Discard, TypeOK, proc, waiting, updates
  <1>13. CASE ScanStderr
    BY <1>13 DEF ScanStderr, TypeOK, proc, decoder, updates
  <1>14. CASE ReadersDone
    BY <1>14 DEF ReadersDone, TypeOK, proc, decoder, updates
  <1>15. CASE ProcessDone
    BY <1>15 DEF ProcessDone, TypeOK, proc, decoder, updates
  <1>16. ASSUME NEW u \in Updaters, UpdateRead(u)
         PROVE  TypeOK'
    BY <1>16 DEF UpdateRead, TypeOK, proc, decoder, waiting
  <1>17. ASSUME NEW u \in Updaters, UpdateCheck(u)
         PROVE  TypeOK'
    BY <1>17 DEF UpdateCheck, TypeOK, proc, decoder, waiting
  <1>18. ASSUME NEW u \in Updaters, UpdateEmit(u)
         PROVE  TypeOK'
    BY <1>18 DEF UpdateEmit, TypeOK, proc, decoder, waiting
  <1>19. CASE UNCHANGED vars
    BY <1>19 DEF vars, TypeOK, proc, decoder, waiting, updates
  <1> QED
    BY <1>1, <1>2, <1>3, <1>4, <1>5, <1>6, <1>7, <1>8, <1>9, <1>10, <1>11, <1>12, <1>13,
       <1>14, <1>15, <1>16, <1>17, <1>18, <1>19
       DEF Next, Kill, Consumer, Waiter, DecodeComma, DecodeSample, DecodeMistyped
-----------------------------------------------------------------------------
(* The order in which the goroutines end.                                  *)

LEMMA EndsStep == TypeOK /\ EndsInOrder /\ [Next]_vars => EndsInOrder'
  <1> SUFFICES ASSUME TypeOK, EndsInOrder, [Next]_vars PROVE EndsInOrder'
    OBVIOUS
  <1> USE DEF EndsInOrder
  <1>1. CASE Start
    BY <1>1 DEF Start
  <1>2. CASE Stop
    BY <1>2 DEF Stop, proc, decoder, waiting
  <1>3. CASE ChildWrite
    BY <1>3 DEF ChildWrite, decoder, waiting
  <1>4. CASE ChildStderr
    BY <1>4 DEF ChildStderr, proc, decoder, waiting
  <1>5. CASE ChildExit
    BY <1>5 DEF ChildExit, decoder, waiting
  <1>6. CASE ReadOpening
    BY <1>6 DEF ReadOpening, proc, waiting
  <1>7. CASE More
    BY <1>7 DEF More, proc, waiting
  <1>8. ASSUME NEW k \in {"sample", "mistyped", ","}, NEW next \in {"store", "sleep", "decode"},
               DecodeTo(k, next)
        PROVE  EndsInOrder'
    BY <1>8 DEF DecodeTo, proc, waiting
  <1>9. CASE DecodeFails
    BY <1>9 DEF DecodeFails, proc, waiting
  <1>10. CASE Sleep
    BY <1>10 DEF Sleep, proc, waiting
  <1>11. CASE Store
    BY <1>11 DEF Store, proc, waiting
  <1>12. CASE Discard     \* the end of stdout: the child is dead, the pipe empty
    BY <1>12 DEF Discard, Eof, proc, waiting
  <1>13. CASE ScanStderr
    BY <1>13 DEF ScanStderr, proc, decoder
  <1>14. CASE ReadersDone
    BY <1>14 DEF ReadersDone, proc, decoder
  <1>15. CASE ProcessDone
    BY <1>15 DEF ProcessDone, proc, decoder
  <1>16. ASSUME NEW u \in Updaters, UpdateRead(u) \/ UpdateCheck(u) \/ UpdateEmit(u)
         PROVE  EndsInOrder'
    BY <1>16 DEF UpdateRead, UpdateCheck, UpdateEmit, proc, decoder, waiting
  <1>17. CASE UNCHANGED vars
    BY <1>17 DEF vars, proc, decoder, waiting
  <1> QED
    BY <1>1, <1>2, <1>3, <1>4, <1>5, <1>6, <1>7, <1>8, <1>9, <1>10, <1>11, <1>12, <1>13,
       <1>14, <1>15, <1>16, <1>17
       DEF Next, Kill, Consumer, Waiter, DecodeComma, DecodeSample, DecodeMistyped

-----------------------------------------------------------------------------
(* The order of samples.                                                   *)

(* What the order says of the variables it is about, for the steps that    *)
(* change few of them.                                                     *)
LEMMA OrderTypes ==
  ASSUME TypeOK, DecodedInOrder
  PROVE  /\ outp \in Seq(Token) /\ wrote \in Nat /\ Newest \in Nat /\ latest.n \in Nat
         /\ latest.n <= Newest
  <1>1. latest.n \in 0..MaxObjects /\ obj.n \in 0..MaxObjects /\ outp \in Seq(Token)
        /\ wrote \in 0..MaxObjects
    BY TokenFacts DEF TypeOK
  <1>2. CASE cons = "store"
    BY <1>1, <1>2, ZeroToMax DEF DecodedInOrder, Newest
  <1>3. CASE cons # "store"
    BY <1>1, <1>3, ZeroToMax DEF Newest
  <1> QED BY <1>1, <1>2, <1>3, ZeroToMax

(* A consumer that takes at most one token off and stores nothing keeps    *)
(* the order.                                                              *)
LEMMA Consume ==
  ASSUME TypeOK, DecodedInOrder,
         outp' = outp \/ (outp # <<>> /\ outp' = Tail(outp)),
         cons # "store", cons' # "store", UNCHANGED <<latest, wrote>>
  PROVE  DecodedInOrder'
  <1>1. Newest' = Newest /\ Newest = latest.n
    BY DEF Newest
  <1>2. Between(outp', Newest, wrote) /\ Increasing(outp')
    BY OrderTypes, TailOrdered DEF DecodedInOrder
  <1> QED BY <1>1, <1>2 DEF DecodedInOrder

LEMMA DecodedStep == TypeOK /\ EndsInOrder /\ DecodedInOrder /\ [Next]_vars => DecodedInOrder'
  <1> SUFFICES ASSUME TypeOK, EndsInOrder, DecodedInOrder, [Next]_vars PROVE DecodedInOrder'
    OBVIOUS
  <1>a. ASSUME UNCHANGED <<outp, cons, obj, latest, wrote>> PROVE DecodedInOrder'
    <2>1. Newest' = Newest
      BY <1>a DEF Newest
    <2> QED BY <1>a, <2>1 DEF DecodedInOrder
  <1>1. CASE Start
    <2>1. cons' # "store" /\ latest' = latest /\ outp' = outp /\ wrote' = wrote
      BY <1>1 DEF Start
    <2>2. Newest' = latest.n
      BY <2>1 DEF Newest
    <2>3. latest.n <= wrote /\ Between(outp, latest.n, wrote)
      <3>1. \A j \in 1..Len(outp) : outp[j].n \in Nat
        BY OrderTypes, TokenFacts, ZeroToMax
      <3>2. latest.n <= wrote
        BY OrderTypes DEF DecodedInOrder
      <3> QED BY <3>1, <3>2, OrderTypes DEF DecodedInOrder, Between
    <2> QED BY <2>1, <2>2, <2>3 DEF DecodedInOrder
  <1>2. CASE Stop
    BY <1>2, <1>a DEF Stop, proc, decoder
  <1>3. CASE ChildWrite
    <2>1. tail' \in Token /\ (tail'.kind = "sample" => tail'.n = wrote + 1)
      BY <1>3, NextTokenFacts DEF ChildWrite
    <2>2. wrote' \in Nat /\ wrote <= wrote' /\ (tail'.kind = "sample" => wrote < wrote')
      BY <1>3, OrderTypes DEF ChildWrite, IsObject
    <2>3. Between(outp', Newest, wrote') /\ Increasing(outp')
      <3>1. Newest <= wrote /\ Between(outp, Newest, wrote) /\ Increasing(outp)
        BY DEF DecodedInOrder
      <3>2. outp' = Append(outp, tail')
        BY <1>3 DEF ChildWrite
      <3> QED BY <2>1, <2>2, <3>1, <3>2, OrderTypes, AppendOrdered
    <2>4. Newest' = Newest /\ Newest <= wrote'
      <3>1. Newest' = Newest
        BY <1>3 DEF ChildWrite, decoder, Newest
      <3>2. Newest <= wrote
        BY DEF DecodedInOrder
      <3> QED BY <2>2, <3>1, <3>2, OrderTypes
    <2> QED BY <1>3, <2>3, <2>4 DEF ChildWrite, decoder, DecodedInOrder
  <1>4. CASE ChildStderr
    BY <1>4, <1>a DEF ChildStderr, proc, decoder
  <1>5. CASE ChildExit
    <2>1. UNCHANGED <<cons, obj, latest, wrote>>
      BY <1>5 DEF ChildExit, decoder
    <2>2. CASE outp' = outp
      BY <2>1, <2>2, <1>a
    <2>3. ASSUME NEW t \in May({"part"}), outp' = Append(outp, t)
          PROVE  DecodedInOrder'
      <3>1. t \in Token /\ t.kind # "sample"
        BY OtherToken
      <3>2. Newest <= wrote /\ Between(outp, Newest, wrote) /\ Increasing(outp)
        BY DEF DecodedInOrder
      <3>3. Between(outp', Newest, wrote) /\ Increasing(outp')
        BY <2>3, <3>1, <3>2, OrderTypes, AppendOrdered
      <3>4. Newest' = Newest
        BY <2>1 DEF Newest
      <3> QED BY <2>1, <3>3, <3>4 DEF DecodedInOrder
    <2> QED BY <1>5, <2>2, <2>3 DEF ChildExit
  <1>6. CASE ReadOpening
    <2>1. outp' = outp \/ (outp # <<>> /\ outp' = Tail(outp))
      BY <1>6 DEF ReadOpening
    <2> QED BY <1>6, <2>1, Consume DEF ReadOpening, proc
  <1>7. CASE More
    BY <1>7, Consume DEF More, proc
  <1>8. ASSUME NEW k \in {"mistyped", ","}, NEW next \in {"sleep", "decode"}, DecodeTo(k, next)
        PROVE  DecodedInOrder'
    <2>1. outp # <<>> /\ outp' = Tail(outp)
      BY <1>8, FrontThere DEF DecodeTo
    <2> QED BY <1>8, <2>1, Consume DEF DecodeTo, proc
  <1>9. CASE DecodeSample
    <2>1. /\ outp # <<>> /\ Head(outp).kind = "sample" /\ outp' = Tail(outp) /\ obj' = Head(outp)
          /\ cons = "decode" /\ cons' = "store" /\ latest' = latest /\ wrote' = wrote
      BY <1>9, FrontThere DEF DecodeSample, DecodeTo, proc
    <2>2. Newest = latest.n /\ Newest' = Head(outp).n
      BY <2>1 DEF Newest
    <2>3. Head(outp) \in Samples
      BY <2>1, TakeOff, TokenFacts
    <2>4. /\ latest.n < Head(outp).n /\ Head(outp).n <= wrote
          /\ Between(outp', Head(outp).n, wrote) /\ Increasing(outp')
      BY <2>1, <2>2, OrderTypes, TailOrdered DEF DecodedInOrder
    <2> QED BY <2>1, <2>2, <2>3, <2>4 DEF DecodedInOrder
  <1>10. CASE DecodeFails
    BY <1>10, Consume DEF DecodeFails, proc
  <1>11. CASE Sleep
    BY <1>11, Consume DEF Sleep, proc
  <1>12. CASE Store
    <2>1. Newest = obj.n /\ Newest' = obj.n
      BY <1>12 DEF Store, Newest
    <2> QED BY <1>12, <2>1 DEF Store, proc, DecodedInOrder, Known
  <1>13. CASE Discard
    <2>1. outp' = outp \/ (outp # <<>> /\ outp' = Tail(outp))
      BY <1>13 DEF Discard
    <2> QED BY <1>13, <2>1, Consume DEF Discard, proc
  <1>14. CASE ScanStderr
    BY <1>14, <1>a DEF ScanStderr, proc, decoder
  <1>15. CASE ReadersDone
    BY <1>15, <1>a DEF ReadersDone, proc, decoder
  <1>16. CASE ProcessDone
    BY <1>16, <1>a DEF ProcessDone, proc, decoder
  <1>17. ASSUME NEW u \in Updaters, UpdateRead(u) \/ UpdateCheck(u) \/ UpdateEmit(u)
         PROVE  DecodedInOrder'
    BY <1>17, <1>a DEF UpdateRead, UpdateCheck, UpdateEmit, proc, decoder
  <1>18. CASE UNCHANGED vars
    BY <1>18, <1>a DEF vars, proc, decoder
  <1> QED
    BY <1>1, <1>2, <1>3, <1>4, <1>5, <1>6, <1>7, <1>8, <1>9, <1>10, <1>11, <1>12, <1>13,
       <1>14, <1>15, <1>16, <1>17, <1>18
       DEF Next, Kill, Consumer, Waiter, DecodeComma, DecodeMistyped

(* The cache only moves on. *)
LEMMA CacheGrows ==
  ASSUME TypeOK, DecodedInOrder, [Next]_vars
  PROVE  latest' = latest \/ (latest.n <= latest'.n /\ latest' \in Samples)
  <1>1. CASE Store
    <2>1. latest' = obj /\ obj \in Samples /\ latest.n < obj.n
      BY <1>1 DEF Store, DecodedInOrder
    <2>2. obj.n \in Nat /\ latest.n \in Nat
      BY <2>1, OrderTypes, SampleFacts, ZeroToMax
    <2> QED BY <2>1, <2>2
  <1>2. CASE ~Store
    BY <1>2
       DEF Next, Start, Stop, ChildWrite, ChildStderr, ChildExit, Kill, Consumer, ReadOpening, More,
           DecodeComma, DecodeSample, DecodeMistyped, DecodeTo, DecodeFails, Sleep, Discard,
           ScanStderr, Waiter, ReadersDone, ProcessDone, UpdateRead, UpdateCheck, UpdateEmit,
           vars, decoder
  <1> QED BY <1>1, <1>2

(* Only UpdateRead hands out a sample: the one that is cached. *)
LEMMA HandOut ==
  ASSUME TypeOK, [Next]_vars, NEW u \in Updaters
  PROVE  held'[u] = held[u] \/ (held'[u] = latest /\ latest # Nil /\ latest' = latest)
  <1>1. ASSUME NEW w \in Updaters, UpdateRead(w)
        PROVE  held'[u] = held[u] \/ (held'[u] = latest /\ latest # Nil /\ latest' = latest)
    BY <1>1 DEF UpdateRead, TypeOK, decoder
  <1>2. CASE ~(\E w \in Updaters : UpdateRead(w))
    BY <1>2
       DEF Next, Start, Stop, ChildWrite, ChildStderr, ChildExit, Kill, Consumer, ReadOpening, More,
           DecodeComma, DecodeSample, DecodeMistyped, DecodeTo, DecodeFails, Sleep, Store, Discard,
           ScanStderr, Waiter, ReadersDone, ProcessDone, UpdateCheck, UpdateEmit, vars, updates
  <1> QED BY <1>1, <1>2

LEMMA HeldStep ==
  TypeOK /\ DecodedInOrder /\ HeldIsCached /\ [Next]_vars => HeldIsCached'
  <1> SUFFICES ASSUME TypeOK, DecodedInOrder, HeldIsCached, [Next]_vars, NEW u \in Updaters
               PROVE  held'[u] \in Known /\ held'[u].n <= latest'.n
    BY DEF HeldIsCached
  <1>1. /\ held[u] \in Known /\ held[u].n <= latest.n /\ held[u].n \in Nat
        /\ latest \in Known /\ latest.n \in Nat
    BY KnownFacts, ZeroToMax DEF HeldIsCached, DecodedInOrder
  <1>2. latest.n <= latest'.n /\ latest'.n \in Nat
    <2>1. CASE latest' = latest
      BY <2>1, <1>1
    <2>2. CASE latest.n <= latest'.n /\ latest' \in Samples
      <3>1. latest'.n \in Nat
        BY <2>2, SampleFacts, ZeroToMax
      <3> QED BY <2>2, <3>1
    <2> QED BY <2>1, <2>2, CacheGrows
  <1>3. CASE held'[u] = held[u]
    BY <1>1, <1>2, <1>3
  <1>4. CASE held'[u] = latest
    BY <1>1, <1>2, <1>4
  <1> QED BY <1>3, <1>4, HandOut

-----------------------------------------------------------------------------
(* The inductive invariant.                                                *)
THEOREM InductiveInvariant == Spec => []IInv
  <1>1. IInv /\ [Next]_vars => IInv'
    BY TypeStep, EndsStep, DecodedStep, HeldStep DEF IInv
  <1> QED BY InitInv, <1>1, PTL DEF Spec

(* Every variable keeps its type, and no Update dereferences a missing     *)
(* sample (Update's test for nil comes before it gives the lock back).     *)
THEOREM TypeCorrect == Spec => []TypeOK
  <1>1. IInv => TypeOK
    BY DEF IInv
  <1> QED BY InductiveInvariant, <1>1, PTL

(* exited is stored last: the child is dead, its output read to the end,   *)
(* and the cached sample final.                                            *)
THEOREM ExitNotedLast == Spec => []ExitIsLast
  <1>1. IInv => ExitIsLast
    BY DEF IInv, EndsInOrder, ExitIsLast
  <1> QED BY InductiveInvariant, <1>1, PTL

(* Every caller is served whole samples, each newer than the one before.   *)
THEOREM NeverGoesBack == Spec => ServedInOrder
  <1>1. ASSUME IInv, [Next]_vars, NEW u \in Updaters, held'[u] # held[u]
        PROVE  held'[u].kind = "sample" /\ held'[u].n > held[u].n
    <2>1. held'[u] = latest /\ latest # Nil
      BY <1>1, HandOut DEF IInv
    <2>2. latest \in Samples /\ latest \in Known /\ held[u] \in Known /\ held[u].n <= latest.n
      BY <1>1, <2>1, KnownFacts DEF IInv, DecodedInOrder, HeldIsCached
    <2>3. held[u].n # latest.n
      BY <1>1, <2>1, <2>2, KnownFacts
    <2>4. held[u].n \in Nat /\ latest.n \in Nat /\ latest.kind = "sample"
      BY <2>2, KnownFacts, SampleFacts, ZeroToMax
    <2> QED BY <2>1, <2>2, <2>3, <2>4
  <1>2. IInv /\ [Next]_vars =>
          [\A u \in Updaters :
             held'[u] # held[u] => held'[u].kind = "sample" /\ held'[u].n > held[u].n]_vars
    BY <1>1
  <1> QED BY InductiveInvariant, <1>2, PTL DEF Spec, ServedInOrder
=============================================================================
