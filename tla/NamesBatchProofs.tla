-------------------------- MODULE NamesBatchProofs --------------------------
(***************************************************************************)
(* What holds of names() for any ids, any _BULK_MAX and any answers: every *)
(* id gets exactly one answer in fewer than two requests an id, a dead one *)
(* costs no more than its halvings, and the cache is filled as NamesLookup *)
(* says.                                                                   *)
(***************************************************************************)
EXTENDS NamesBatch, FiniteSetTheorems, FunctionTheorems, SequenceTheorems, TLAPS

Pairs(n) == (1 .. n) \X (1 .. n)

\* Taking the first batch off the stack leaves a chain that starts right after it.
LEMMA ChainTail ==
  ASSUME NEW n \in Nat, NEW s \in Seq(Pairs(n)), s # <<>>, NEW nx \in 1 .. n + 1, Chain(s, nx)
  PROVE  /\ Tail(s) \in Seq(Pairs(n))
         /\ Len(Tail(s)) = Len(s) - 1
         /\ Chain(Tail(s), nx)
         /\ Start(Tail(s), nx) = s[1][2] + 1
<1> DEFINE t == Tail(s)
<1>1. /\ t \in Seq(Pairs(n)) /\ Len(t) = Len(s) - 1
      /\ \A k \in 1 .. Len(t) : t[k] = s[k + 1]
  BY HeadTailProperties
<1>2. Len(s) \in Nat \ {0} /\ Len(t) \in Nat
  BY <1>1, EmptySeq
<1>3. \A k \in 1 .. Len(s) : s[k][1] \in Nat /\ s[k][2] \in Nat
  <2> SUFFICES ASSUME NEW k \in 1 .. Len(s) PROVE s[k][1] \in Nat /\ s[k][2] \in Nat
    OBVIOUS
  <2>1. s[k] \in Pairs(n)
    BY ElementOfSeq
  <2> QED
    BY <2>1 DEF Pairs
<1>4. t # <<>> => Len(t) > 0 /\ Len(s) > 1
  BY <1>1, <1>2, EmptySeq
<1> HIDE DEF t
<1>5. \A k \in 1 .. Len(t) : t[k][1] <= t[k][2] /\ t[k][2] < nx
  BY <1>1, <1>2 DEF Chain
<1>6. \A j, k \in 1 .. Len(t) : j < k => t[j][2] + (k - j) <= t[k][1]
  <2> SUFFICES ASSUME NEW j \in 1 .. Len(t), NEW k \in 1 .. Len(t), j < k
               PROVE  t[j][2] + (k - j) <= t[k][1]
    OBVIOUS
  <2>1. s[j + 1][2] + ((k + 1) - (j + 1)) <= s[k + 1][1]
    BY <1>1, <1>2 DEF Chain
  <2>2. (k + 1) - (j + 1) = k - j
    OBVIOUS
  <2> QED
    BY <1>1, <2>1, <2>2
<1>7. \A k \in 1 .. Len(t) : k < Len(t) => t[k + 1][1] = t[k][2] + 1
  <2> SUFFICES ASSUME NEW k \in 1 .. Len(t), k < Len(t) PROVE t[k + 1][1] = t[k][2] + 1
    OBVIOUS
  <2>1. s[(k + 1) + 1][1] = s[k + 1][2] + 1
    BY <1>1, <1>2 DEF Chain
  <2>2. t[k + 1] = s[(k + 1) + 1] /\ t[k] = s[k + 1]
    BY <1>1, <1>2
  <2> QED
    BY <2>1, <2>2
<1>8. t # <<>> => t[Len(t)][2] + 1 = nx
  BY <1>1, <1>2, <1>4 DEF Chain
<1>9. Start(t, nx) = s[1][2] + 1
  <2>1. CASE t = <<>>
    <3>1. Len(s) = 1
      BY <1>1, <1>2, <2>1, EmptySeq
    <3> QED
      BY <2>1, <3>1 DEF Chain, Start
  <2>2. CASE t # <<>>
    <3>1. s[1 + 1][1] = s[1][2] + 1 /\ t[1] = s[1 + 1]
      BY <1>1, <1>2, <1>4, <2>2 DEF Chain
    <3> QED
      BY <2>2, <3>1 DEF Start
  <2> QED
    BY <2>1, <2>2
<1> QED
  BY <1>1, <1>5, <1>6, <1>7, <1>8, <1>9 DEF Chain, t

\* Halving the first batch: the stack stays a chain with the same start, one batch longer.
LEMMA ChainSplit ==
  ASSUME NEW n \in Nat, NEW s \in Seq(Pairs(n)), s # <<>>, NEW nx \in 1 .. n + 1, Chain(s, nx),
         s[1][1] < s[1][2]
  PROVE  LET t == Halves(s[1]) \o Tail(s) IN
         /\ t \in Seq(Pairs(n))
         /\ Len(t) = Len(s) + 1
         /\ Chain(t, nx)
         /\ Start(t, nx) = s[1][1]
<1> DEFINE lo == s[1][1]
           hi == s[1][2]
           mid == (hi - lo + 1) \div 2
           left == <<lo, lo + mid - 1>>
           right == <<lo + mid, hi>>
           h == <<left, right>>
           r == Tail(s)
           t == h \o r
<1>1. /\ r \in Seq(Pairs(n)) /\ Len(r) = Len(s) - 1
      /\ \A k \in 1 .. Len(r) : r[k] = s[k + 1]
  BY HeadTailProperties
<1>2. Len(s) \in Nat \ {0} /\ Len(r) \in Nat
  BY <1>1, EmptySeq
<1>3. \A k \in 1 .. Len(s) : s[k][1] \in 1 .. n /\ s[k][2] \in 1 .. n
  <2> SUFFICES ASSUME NEW k \in 1 .. Len(s) PROVE s[k][1] \in 1 .. n /\ s[k][2] \in 1 .. n
    OBVIOUS
  <2>1. s[k] \in Pairs(n)
    BY ElementOfSeq
  <2> QED
    BY <2>1 DEF Pairs
<1>4. lo \in 1 .. n /\ hi \in 1 .. n /\ lo < hi
  BY <1>2, <1>3
<1>5. mid \in Nat /\ mid >= 1 /\ lo + mid <= hi
  <2> HIDE DEF lo, hi
  <2> QED
    BY <1>4, SMT
<1>6. h \in Seq(Pairs(n)) /\ Len(h) = 2 /\ h[1] = left /\ h[2] = right
  <2>1. left \in Pairs(n) /\ right \in Pairs(n)
    <3> HIDE DEF mid, lo, hi
    <3> QED
      BY <1>4, <1>5, SMT DEF Pairs
  <2> HIDE DEF left, right
  <2> QED
    BY <2>1
<1>7. /\ t \in Seq(Pairs(n)) /\ Len(t) = Len(s) + 1
      /\ t[1] = left /\ t[2] = right
      /\ \A k \in 3 .. Len(t) : t[k] = s[k - 1]
  <2>1. /\ h \o r \in Seq(Pairs(n)) /\ Len(h \o r) = Len(h) + Len(r)
        /\ \A i \in 1 .. Len(h) + Len(r) : (h \o r)[i] = IF i <= Len(h) THEN h[i] ELSE r[i - Len(h)]
    BY <1>1, <1>6, ConcatProperties
  <2> HIDE DEF h, r
  <2>2. Len(t) = Len(s) + 1
    BY <1>1, <1>2, <1>6, <2>1
  <2>3. t[1] = left /\ t[2] = right
    BY <1>1, <1>2, <1>6, <2>1
  <2>4. ASSUME NEW k \in 3 .. Len(t) PROVE t[k] = s[k - 1]
    <3>1. t[k] = r[k - 2]
      BY <1>1, <1>2, <1>6, <2>1, <2>2
    <3>2. k - 2 \in 1 .. Len(r) /\ (k - 2) + 1 = k - 1
      BY <1>1, <1>2, <2>2
    <3> QED
      BY <1>1, <3>1, <3>2
  <2> QED
    BY <2>1, <2>2, <2>3, <2>4
<1>8. Halves(s[1]) \o Tail(s) = t
  BY DEF Halves
<1>9. left[1] = lo /\ left[2] = lo + mid - 1 /\ right[1] = lo + mid /\ right[2] = hi
  OBVIOUS
<1> HIDE DEF t, left, right, mid, h, r
<1>10. \A k \in 1 .. Len(t) : k = 1 \/ k = 2 \/ (k \in 3 .. Len(t) /\ k - 1 \in 2 .. Len(s))
  BY <1>2, <1>7
<1>11. hi < nx /\ \A k \in 2 .. Len(s) : hi + (k - 1) <= s[k][1]
  BY <1>2 DEF Chain
<1>12. \A k \in 1 .. Len(t) : t[k][1] <= t[k][2] /\ t[k][2] < nx
  <2> SUFFICES ASSUME NEW k \in 1 .. Len(t) PROVE t[k][1] <= t[k][2] /\ t[k][2] < nx
    OBVIOUS
  <2>1. CASE k = 1
    BY <1>4, <1>5, <1>7, <1>9, <1>11, <2>1
  <2>2. CASE k = 2
    BY <1>4, <1>5, <1>7, <1>9, <1>11, <2>2
  <2>3. CASE k \in 3 .. Len(t) /\ k - 1 \in 2 .. Len(s)
    <3>1. k - 1 \in 1 .. Len(s) /\ t[k] = s[k - 1]
      BY <1>2, <1>7, <2>3
    <3> QED
      BY <3>1 DEF Chain
  <2> QED
    BY <1>10, <2>1, <2>2, <2>3
<1>13. \A j, k \in 1 .. Len(t) : j < k => t[j][2] + (k - j) <= t[k][1]
  <2> SUFFICES ASSUME NEW j \in 1 .. Len(t), NEW k \in 1 .. Len(t), j < k
               PROVE  t[j][2] + (k - j) <= t[k][1]
    OBVIOUS
  <2>1. CASE k = 2
    <3>1. j = 1
      BY <2>1
    <3> QED
      BY <1>4, <1>5, <1>7, <1>9, <2>1, <3>1
  <2>2. CASE k \in 3 .. Len(t) /\ k - 1 \in 2 .. Len(s)
    <3>1. t[k] = s[k - 1] /\ s[k - 1][1] \in Nat /\ hi + ((k - 1) - 1) <= s[k - 1][1]
      <4>1. k - 1 \in 1 .. Len(s) /\ t[k] = s[k - 1]
        BY <1>2, <1>7, <2>2
      <4>2. s[k - 1][1] \in 1 .. n
        BY <1>3, <4>1
      <4>3. hi + ((k - 1) - 1) <= s[k - 1][1]
        BY <1>11, <2>2
      <4> QED
        BY <4>1, <4>2, <4>3
    <3>2. CASE j = 1
      <4>1. (lo + mid - 1) + (k - 1) <= s[k - 1][1]
        <5> HIDE DEF lo, hi
        <5>1. k \in Nat
          BY <1>2, <1>7
        <5> QED
          BY <1>4, <1>5, <3>1, <5>1
      <4>2. t[j][2] = lo + mid - 1
        BY <1>7, <1>9, <3>2
      <4> QED
        BY <3>1, <3>2, <4>1, <4>2, Zenon
    <3>3. CASE j = 2
      BY <1>4, <1>5, <1>7, <1>9, <2>2, <3>1, <3>3
    <3>4. CASE j \in 3 .. Len(t) /\ j - 1 \in 2 .. Len(s)
      <4>1. s[j - 1][2] + ((k - 1) - (j - 1)) <= s[k - 1][1]
        BY <2>2, <3>4 DEF Chain
      <4>2. t[j] = s[j - 1] /\ (k - 1) - (j - 1) = k - j
        BY <1>7, <3>4
      <4> QED
        BY <3>1, <4>1, <4>2
    <3> QED
      BY <1>10, <3>2, <3>3, <3>4
  <2> QED
    BY <1>10, <2>1, <2>2
<1>14. \A k \in 1 .. Len(t) : k < Len(t) => t[k + 1][1] = t[k][2] + 1
  <2> SUFFICES ASSUME NEW k \in 1 .. Len(t), k < Len(t) PROVE t[k + 1][1] = t[k][2] + 1
    OBVIOUS
  <2>1. CASE k = 1
    BY <1>4, <1>5, <1>7, <1>9, <2>1
  <2>2. CASE k = 2
    <3>1. Len(s) > 1 /\ t[2 + 1] = s[2]
      BY <1>2, <1>7, <2>2
    <3>2. s[1 + 1][1] = s[1][2] + 1
      BY <3>1, <1>2 DEF Chain
    <3> QED
      BY <1>7, <1>9, <2>2, <3>1, <3>2
  <2>3. CASE k \in 3 .. Len(t) /\ k - 1 \in 2 .. Len(s)
    <3>1. t[k] = s[k - 1] /\ t[k + 1] = s[(k - 1) + 1]
      BY <1>2, <1>7, <2>3
    <3>2. s[(k - 1) + 1][1] = s[k - 1][2] + 1
      BY <1>2, <1>7, <2>3 DEF Chain
    <3> QED
      BY <3>1, <3>2
  <2> QED
    BY <1>10, <2>1, <2>2, <2>3
<1>15. t[Len(t)][2] + 1 = nx
  <2>1. CASE Len(s) = 1
    BY <1>7, <1>9, <2>1 DEF Chain
  <2>2. CASE Len(s) > 1
    <3>1. t[Len(t)] = s[Len(s)]
      BY <1>2, <1>7, <2>2
    <3> QED
      BY <3>1 DEF Chain
  <2>3. Len(s) = 1 \/ Len(s) > 1
    <3>1. \A m \in Nat \ {0} : m = 1 \/ m > 1
      OBVIOUS
    <3> QED
      BY <1>2, <3>1, Zenon
  <2> QED
    BY <2>1, <2>2, <2>3
<1>16. Start(t, nx) = lo
  <2>1. t # <<>>
    BY <1>2, <1>7
  <2> QED
    BY <1>7, <1>9, <2>1 DEF Start
<1> QED
  BY <1>7, <1>8, <1>12, <1>13, <1>14, <1>15, <1>16 DEF Chain

\* There are no more batches than ids they cover.
LEMMA ChainLength ==
  ASSUME NEW n \in Nat, NEW s \in Seq(Pairs(n)), s # <<>>, NEW nx \in 1 .. n + 1, Chain(s, nx)
  PROVE  Start(s, nx) \in 1 .. n /\ Start(s, nx) <= s[1][2] /\ s[1][2] < nx
         /\ Start(s, nx) + Len(s) <= nx
<1>1. Len(s) \in Nat \ {0}
  BY EmptySeq
<1>2. s[1] \in Pairs(n) /\ s[Len(s)] \in Pairs(n)
  BY <1>1, ElementOfSeq
<1>3. /\ s[1][1] \in 1 .. n /\ s[1][2] \in 1 .. n
      /\ s[Len(s)][1] \in 1 .. n /\ s[Len(s)][2] \in 1 .. n
  BY <1>2 DEF Pairs
<1>4. /\ s[1][1] <= s[1][2] /\ s[1][2] < nx
      /\ s[Len(s)][1] <= s[Len(s)][2] /\ s[Len(s)][2] < nx
      /\ 1 < Len(s) => s[1][2] + (Len(s) - 1) <= s[Len(s)][1]
  BY <1>1 DEF Chain
<1>5. Start(s, nx) = s[1][1]
  BY DEF Start
<1> QED
  BY <1>1, <1>3, <1>4, <1>5

-----------------------------------------------------------------------------
(* The inductive invariant, one lemma for each action. *)

USE DEF Entries, Phases

\* A one-to-one listing of a set of ids is a sequence of as many ids as the set has.
LEMMA OrderIsSeq ==
  ASSUME NEW U \in SUBSET Ids, NEW o \in Bijection(1 .. Cardinality(U), U)
  PROVE  /\ o \in Seq(Ids) /\ Len(o) = Cardinality(U)
         /\ {o[k] : k \in 1 .. Len(o)} = U
         /\ \A k \in 1 .. Len(o) : o[k] \in U
         /\ \A j, k \in 1 .. Len(o) : o[j] = o[k] => j = k
<1> DEFINE c == Cardinality(U)
<1>1. c \in Nat
  BY IdsAssumption, FS_Subset, FS_CardinalityType
<1>2. o \in Bijection(1 .. c, U)
  OBVIOUS
<1> HIDE DEF c
<1>3. /\ o \in [1 .. c -> U]
      /\ \A a, b \in 1 .. c : o[a] = o[b] => a = b
      /\ \A t \in U : \E k \in 1 .. c : o[k] = t
  <2> DEFINE D == 1 .. c
  <2>1. o \in Bijection(D, U)
    BY <1>2
  <2> HIDE DEF D
  <2>2. o \in [D -> U] /\ (\A a, b \in D : o[a] = o[b] => a = b) /\ (\A t \in U : \E k \in D : o[k] = t)
    BY <2>1, Fun_BijectionProperties
  <2> QED
    BY <2>2 DEF D
<1>4. o \in Seq(U)
  BY <1>1, <1>3, SeqDef
<1>5. Len(o) = c
  BY <1>1, <1>3, <1>4, LenProperties
<1>6. o \in Seq(Ids)
  BY <1>4, SeqMonotonic
<1> QED
  BY <1>3, <1>5, <1>6 DEF c

\* What the invariant says of the batch on top of the stack.
LEMMA TopBatch ==
  ASSUME NamesInv, stack # <<>>
  PROVE  /\ Len(missing) \in Nat
         /\ stack \in Seq(Pairs(Len(missing))) /\ next \in 1 .. Len(missing) + 1
         /\ Chain(stack, next)
         /\ Head(stack) = stack[1]
         /\ stack[1][1] \in 1 .. Len(missing) /\ stack[1][2] \in 1 .. Len(missing)
         /\ First = stack[1][1] /\ First <= stack[1][2]
         /\ First + Len(stack) <= next /\ Len(stack) \in Nat \ {0}
         /\ Batch(stack[1]) \subseteq Ids
         /\ \A k \in 1 .. Len(missing) : missing[k] \in Ids
<1>1. Len(missing) \in Nat /\ \A k \in 1 .. Len(missing) : missing[k] \in Ids
  BY LenProperties, ElementOfSeq DEF NamesInv, TypeOK
<1>2. /\ stack \in Seq(Pairs(Len(missing))) /\ next \in 1 .. Len(missing) + 1
      /\ Chain(stack, next)
  BY DEF NamesInv, TypeOK, StackInv, Pairs
<1>3. /\ Start(stack, next) \in 1 .. Len(missing) /\ Start(stack, next) <= stack[1][2]
      /\ stack[1][2] < next /\ Start(stack, next) + Len(stack) <= next
  BY <1>1, <1>2, ChainLength
<1>4. Len(stack) \in Nat \ {0} /\ stack[1] \in Pairs(Len(missing))
  <2>1. Len(stack) \in Nat \ {0}
    BY <1>2, EmptySeq
  <2> QED
    BY <1>2, <2>1, ElementOfSeq
<1>5. Head(stack) = stack[1]
  OBVIOUS
<1>6. stack[1][1] \in 1 .. Len(missing) /\ stack[1][2] \in 1 .. Len(missing)
  BY <1>4 DEF Pairs
<1>7. First = stack[1][1] /\ First = Start(stack, next)
  BY DEF First, Start
<1>8. Batch(stack[1]) \subseteq Ids
  BY <1>1, <1>6 DEF Batch
<1> QED
  BY <1>1, <1>2, <1>3, <1>4, <1>5, <1>6, <1>7, <1>8

LEMMA BeginKeeps ==
  ASSUME NamesInv, Begin
  PROVE  NamesInv'
<1> USE DEF NamesInv
<1>1. PICK o \in Bijection(1 .. Cardinality(Cached("none")), Cached("none")) : missing' = o
  BY DEF Begin
<1>2. /\ missing' \in Seq(Ids)
      /\ {missing'[k] : k \in 1 .. Len(missing')} = Cached("none")
      /\ \A k \in 1 .. Len(missing') : missing'[k] \in Cached("none")
      /\ \A j, k \in 1 .. Len(missing') : missing'[j] = missing'[k] => j = k
  <2>1. Cached("none") \in SUBSET Ids
    BY DEF Cached
  <2> QED
    BY <1>1, <2>1, OrderIsSeq
<1>3. /\ live' = live /\ cache' = cache /\ phase' = "running" /\ next' = 1 /\ stack' = <<>>
      /\ out' = Cached("name") /\ refused' = {} /\ skipped' = Cached("miss") /\ calls' = 0
      /\ expired' = {}
  BY DEF Begin
<1>4. Len(missing') \in Nat
  BY <1>2, LenProperties
<1>5. TypeOK'
  <2>1. next' \in 1 .. Len(missing') + 1 /\ stack' \in Seq((1 .. Len(missing')) \X (1 .. Len(missing')))
    BY <1>3, <1>4, EmptySeq
  <2>2. out' \subseteq Ids /\ refused' \subseteq Ids /\ skipped' \subseteq Ids /\ expired' \subseteq Ids
    BY <1>3 DEF Cached
  <2> QED
    BY <1>2, <1>3, <2>1, <2>2 DEF TypeOK
<1>6. StackInv'
  BY <1>3 DEF StackInv, Chain
<1>7. First' = 1
  BY <1>3 DEF First, Start
<1>8. Ids = Cached("none") \cup Cached("name") \cup Cached("miss")
  BY DEF Cached, TypeOK
<1>9. AnsweredInv'
  <2>1. Ids = out' \cup skipped' \cup {missing'[k] : k \in 1 .. Len(missing')}
    BY <1>2, <1>3, <1>8
  <2>2. \A k \in 1 .. Len(missing') : ~(k < First')
    BY <1>4, <1>7
  <2>3. \A k \in 1 .. Len(missing') : missing'[k] \notin Kept'
    BY <1>2, <1>3 DEF Kept, Cached
  <2> QED
    BY <1>2, <1>3, <2>1, <2>2, <2>3 DEF AnsweredInv
<1>10. OnlyDeadMissed'
  BY <1>3 DEF OnlyDeadMissed, Cached
<1>11. CallsInv'
  BY <1>3, <1>7, EmptySeq DEF CallsInv
<1>12. NothingLost'
  BY <1>3 DEF NothingLost, Kept, Cached
<1> QED
  BY <1>5, <1>6, <1>9, <1>10, <1>11, <1>12

LEMMA NextChunkKeeps ==
  ASSUME NamesInv, NextChunk
  PROVE  NamesInv'
<1> USE DEF NamesInv
<1>1. /\ phase = "running" /\ stack = <<>> /\ next <= Len(missing)
      /\ stack' = << <<next, ChunkEnd>> >> /\ next' = ChunkEnd + 1
      /\ UNCHANGED <<live, cache, phase, missing, out, refused, skipped, calls, expired>>
  BY DEF NextChunk
<1>2. Len(missing) \in Nat /\ next \in 1 .. Len(missing)
  BY <1>1, LenProperties DEF TypeOK
<1>3. ChunkEnd \in 1 .. Len(missing) /\ next <= ChunkEnd
  BY <1>2, BulkMaxAssumption DEF ChunkEnd
<1>4. Len(stack') = 1 /\ stack'[1] = <<next, ChunkEnd>> /\ stack' # <<>>
  BY <1>1
<1>5. TypeOK'
  <2>1. <<next, ChunkEnd>> \in (1 .. Len(missing)) \X (1 .. Len(missing))
    BY <1>2, <1>3
  <2>2. stack' \in Seq((1 .. Len(missing)) \X (1 .. Len(missing)))
    BY <1>1, <2>1
  <2>3. next' \in 1 .. Len(missing) + 1
    BY <1>1, <1>2, <1>3
  <2> QED
    BY <1>1, <2>2, <2>3 DEF TypeOK
<1>6. StackInv'
  BY <1>1, <1>2, <1>3, <1>4 DEF StackInv, Chain
<1>7. First = next /\ First' = next
  BY <1>1, <1>4 DEF First, Start
<1>8. AnsweredInv'
  BY <1>1, <1>7 DEF AnsweredInv, Kept
<1>9. OnlyDeadMissed'
  BY <1>1 DEF OnlyDeadMissed, Cached
<1>10. CallsInv'
  <2>1. calls + (IF next > 1 THEN 1 ELSE 0) <= 2 * (next - 1)
    <3>1. Len(stack) = 0
      BY <1>1
    <3> QED
      BY <1>1, <1>2, <1>7, <3>1 DEF CallsInv, TypeOK
  <2>2. calls' + 1 <= 2 * (First' - 1) + Len(stack')
    BY <1>1, <1>2, <1>4, <1>7, <2>1 DEF TypeOK
  <2>3. next' > 1 /\ phase' = "running"
    BY <1>1, <1>2, <1>3
  <2> QED
    BY <2>2, <2>3 DEF CallsInv
<1>11. NothingLost'
  BY <1>1 DEF NothingLost, Kept
<1> QED
  BY <1>5, <1>6, <1>8, <1>9, <1>10, <1>11

LEMMA FinishKeeps ==
  ASSUME NamesInv, Finish
  PROVE  NamesInv'
<1> USE DEF NamesInv
<1>1. /\ phase = "running" /\ stack = <<>> /\ next > Len(missing) /\ phase' = "done"
      /\ UNCHANGED <<live, cache, missing, next, stack, out, refused, skipped, calls, expired>>
  BY DEF Finish
<1>2. Len(missing) \in Nat /\ next = Len(missing) + 1 /\ calls \in Nat
  BY <1>1, LenProperties DEF TypeOK
<1>3. First = next /\ First' = First
  BY <1>1 DEF First, Start
<1>4. TypeOK' /\ StackInv'
  BY <1>1 DEF TypeOK, StackInv, Chain
<1>5. AnsweredInv'
  BY <1>1, <1>2, <1>3 DEF AnsweredInv
<1>6. OnlyDeadMissed'
  BY <1>1 DEF OnlyDeadMissed, Cached
<1>7. CallsInv'
  <2> SUFFICES ASSUME missing # <<>> PROVE calls < 2 * Len(missing)
    BY <1>1 DEF CallsInv
  <2>1. Len(missing) > 0 /\ Len(stack) = 0
    BY <1>1, <1>2, EmptySeq DEF TypeOK
  <2>2. calls + 1 <= 2 * (First - 1) + Len(stack)
    BY <1>1, <1>2, <2>1 DEF CallsInv
  <2> QED
    BY <1>2, <1>3, <2>1, <2>2
<1>8. NothingLost'
  BY <1>1 DEF NothingLost, Kept
<1> QED
  BY <1>4, <1>5, <1>6, <1>7, <1>8

LEMMA RaiseKeeps ==
  ASSUME NamesInv, Raise
  PROVE  NamesInv'
<1> USE DEF NamesInv
<1>1. /\ phase = "running" /\ stack # <<>> /\ phase' = "raised" /\ stack' = <<>> /\ calls' = calls + 1
      /\ UNCHANGED <<live, cache, missing, next, out, refused, skipped, expired>>
  BY DEF Raise
<1>2. TypeOK'
  BY <1>1, EmptySeq DEF TypeOK
<1>3. StackInv'
  BY <1>1 DEF StackInv, Chain
<1>4. AnsweredInv'
  BY <1>1 DEF AnsweredInv
<1>5. OnlyDeadMissed'
  BY <1>1 DEF OnlyDeadMissed, Cached
<1>6. CallsInv'
  <2>1. /\ Len(missing) \in Nat /\ First \in 1 .. Len(missing) /\ First + Len(stack) <= next
        /\ Len(stack) \in Nat \ {0} /\ next \in 1 .. Len(missing) + 1 /\ calls \in Nat
    BY <1>1, TopBatch DEF TypeOK
  <2>2. calls + 1 <= 2 * (First - 1) + Len(stack)
    BY <1>1, <2>1 DEF CallsInv
  <2>3. calls' < 2 * Len(missing)
    BY <1>1, <2>1, <2>2
  <2> QED
    BY <1>1, <2>3 DEF CallsInv
<1>7. NothingLost'
  BY <1>1 DEF NothingLost, Kept
<1> QED
  BY <1>2, <1>3, <1>4, <1>5, <1>6, <1>7

LEMMA ExpireKeeps ==
  ASSUME NamesInv, NEW i \in Ids, Expire(i)
  PROVE  NamesInv'
<1> USE DEF NamesInv
<1>1. /\ cache' = [cache EXCEPT ![i] = "none"] /\ expired' = expired \cup ({i} \cap Kept)
      /\ UNCHANGED <<live, phase, missing, next, stack, out, refused, skipped, calls>>
  BY DEF Expire
<1>2. TypeOK' /\ StackInv'
  BY <1>1 DEF TypeOK, StackInv
<1>3. First' = First
  BY <1>1 DEF First
<1>4. AnsweredInv'
  BY <1>1, <1>3 DEF AnsweredInv, Kept
<1>5. OnlyDeadMissed'
  BY <1>1 DEF OnlyDeadMissed, Cached, TypeOK
<1>6. CallsInv'
  BY <1>1, <1>3 DEF CallsInv
<1>7. NothingLost'
  BY <1>1 DEF NothingLost, Kept, TypeOK
<1> QED
  BY <1>2, <1>4, <1>5, <1>6, <1>7

LEMMA OtherFillsKeeps ==
  ASSUME NamesInv, NEW i \in Ids, OtherFills(i)
  PROVE  NamesInv'
<1> USE DEF NamesInv
<1>1. /\ UNCHANGED <<live, phase, missing, next, stack, out, refused, skipped, calls, expired>>
      /\ \/ i \in live /\ cache' = [cache EXCEPT ![i] = "name"]
         \/ (Flaky \/ i \notin live) /\ cache' = [cache EXCEPT ![i] = "miss"]
  BY DEF OtherFills
<1>2. TypeOK' /\ StackInv'
  BY <1>1 DEF TypeOK, StackInv
<1>3. First' = First
  BY <1>1 DEF First
<1>4. AnsweredInv'
  BY <1>1, <1>3 DEF AnsweredInv, Kept
<1>5. OnlyDeadMissed'
  BY <1>1, FlakyAssumption DEF OnlyDeadMissed, Cached, TypeOK
<1>6. CallsInv'
  BY <1>1, <1>3 DEF CallsInv
<1>7. NothingLost'
  BY <1>1 DEF NothingLost, Kept, TypeOK
<1> QED
  BY <1>2, <1>4, <1>5, <1>6, <1>7

\* The stack after its first batch is answered.
LEMMA Answered ==
  ASSUME NamesInv, stack # <<>>, stack' = Tail(stack), UNCHANGED <<missing, next>>
  PROVE  /\ stack' \in Seq((1 .. Len(missing)) \X (1 .. Len(missing)))
         /\ Len(stack') = Len(stack) - 1
         /\ Chain(stack', next')
         /\ First' = stack[1][2] + 1
<1>1. /\ Len(missing) \in Nat /\ stack \in Seq(Pairs(Len(missing)))
      /\ next \in 1 .. Len(missing) + 1 /\ Chain(stack, next)
  BY TopBatch
<1>2. /\ Tail(stack) \in Seq(Pairs(Len(missing))) /\ Len(Tail(stack)) = Len(stack) - 1
      /\ Chain(Tail(stack), next) /\ Start(Tail(stack), next) = stack[1][2] + 1
  BY <1>1, ChainTail
<1> QED
  BY <1>2 DEF First, Start, Pairs

\* An answered batch pays for its request.
LEMMA AnsweredPays ==
  ASSUME NamesInv, phase = "running", stack # <<>>,
         stack' = Tail(stack), calls' = calls + 1, UNCHANGED <<missing, next, phase>>
  PROVE  CallsInv'
<1>1. /\ Len(stack') = Len(stack) - 1 /\ First' = stack[1][2] + 1
  BY Answered
<1>2. /\ Len(stack) \in Nat \ {0} /\ First \in 1 .. Len(missing) /\ First <= stack[1][2]
      /\ stack[1][2] \in 1 .. Len(missing) /\ Len(missing) \in Nat /\ calls \in Nat
      /\ next \in 1 .. Len(missing) + 1
  BY TopBatch DEF NamesInv, TypeOK
<1>3. calls + (IF next > 1 THEN 1 ELSE 0) <= 2 * (First - 1) + Len(stack)
  BY DEF NamesInv, CallsInv
<1>4. calls' + (IF next' > 1 THEN 1 ELSE 0) <= 2 * (First' - 1) + Len(stack')
  <2> DEFINE end == stack[1][2]
             chunk == IF next > 1 THEN 1 ELSE 0
  <2>1. end \in Nat /\ First <= end /\ First' = end + 1
    BY <1>1, <1>2
  <2>2. chunk \in {0, 1} /\ chunk = (IF next' > 1 THEN 1 ELSE 0)
    BY <1>2
  <2>3. calls + chunk <= 2 * (First - 1) + Len(stack)
    BY <1>3
  <2> HIDE DEF end, chunk
  <2>4. calls' + chunk <= 2 * (First' - 1) + Len(stack')
    <3>1. \A n, x, f, len, e \in Nat :
            f <= e /\ n + x <= 2 * (f - 1) + len => (n + 1) + x <= 2 * ((e + 1) - 1) + (len - 1)
      OBVIOUS
    <3>2. calls \in Nat /\ chunk \in Nat /\ First \in Nat /\ Len(stack) \in Nat /\ end \in Nat
      BY <1>2, <2>1, <2>2
    <3>3. (calls + 1) + chunk <= 2 * ((end + 1) - 1) + (Len(stack) - 1)
      BY <2>1, <2>3, <3>1, <3>2, Zenon
    <3> QED
      BY <1>1, <2>1, <3>3, Zenon
  <2> QED
    BY <2>2, <2>4
<1> QED
  BY <1>4 DEF CallsInv

LEMMA NamedKeeps ==
  ASSUME NamesInv, Named
  PROVE  NamesInv'
<1> DEFINE b == stack[1]
<1>1. /\ phase = "running" /\ stack # <<>> /\ stack' = Tail(stack) /\ calls' = calls + 1
      /\ Batch(b) \subseteq live /\ out' = out \cup Batch(b)
      /\ cache' = [i \in Ids |-> IF i \in Batch(b) THEN "name" ELSE cache[i]]
      /\ UNCHANGED <<live, phase, missing, next, refused, skipped, expired>>
  BY TopBatch DEF Named
<1>2. /\ First = b[1] /\ First <= b[2] /\ b[1] \in 1 .. Len(missing) /\ b[2] \in 1 .. Len(missing)
      /\ Len(missing) \in Nat /\ Batch(b) \subseteq Ids
      /\ \A k \in 1 .. Len(missing) : missing[k] \in Ids
  BY <1>1, TopBatch
<1>3. /\ stack' \in Seq((1 .. Len(missing)) \X (1 .. Len(missing)))
      /\ Chain(stack', next') /\ First' = b[2] + 1
  BY <1>1, Answered
<1>4. \A k \in 1 .. Len(missing) : missing[k] \in Batch(b) <=> b[1] <= k /\ k <= b[2]
  BY <1>2 DEF Batch, NamesInv, AnsweredInv
<1> HIDE DEF b
<1>5. TypeOK'
  <2>1. cache' \in [Ids -> Entries]
    BY <1>1 DEF NamesInv, TypeOK
  <2>2. out' \subseteq Ids /\ calls' \in Nat
    BY <1>1, <1>2 DEF NamesInv, TypeOK
  <2> QED
    BY <1>1, <1>3, <2>1, <2>2 DEF NamesInv, TypeOK
<1>6. StackInv'
  BY <1>1, <1>3 DEF StackInv
<1>7. AnsweredInv'
  <2> USE DEF NamesInv
  <2>1. \A k \in 1 .. Len(missing) : k < First' => missing[k] \in out' \cup refused'
    <3> SUFFICES ASSUME NEW k \in 1 .. Len(missing), k < b[2] + 1
                 PROVE  missing[k] \in out \cup Batch(b) \cup refused
      BY <1>1, <1>3
    <3>1. CASE k < First
      BY <1>1, <3>1 DEF AnsweredInv
    <3>2. CASE First <= k
      BY <1>2, <1>4, <3>2
    <3> QED
      BY <1>2, <3>1, <3>2
  <2>2. ASSUME NEW k \in 1 .. Len(missing), First' <= k
        PROVE  missing[k] \notin Kept'
    <3>1. First <= k /\ missing[k] \notin Batch(b)
      BY <1>2, <1>3, <1>4, <2>2
    <3>2. missing[k] \notin Kept
      BY <1>1, <3>1 DEF AnsweredInv
    <3> QED
      BY <1>1, <1>2, <3>1, <3>2 DEF Kept
  <2>3. refused' \cap (out' \cup skipped') = {}
    <3>1. Batch(b) \cap refused = {}
      <4> SUFFICES ASSUME NEW k \in b[1] .. b[2] PROVE missing[k] \notin refused
        BY DEF Batch
      <4>1. k \in 1 .. Len(missing) /\ First <= k
        BY <1>2
      <4> QED
        BY <1>1, <4>1 DEF AnsweredInv, Kept
    <3> QED
      BY <1>1, <3>1 DEF AnsweredInv
  <2>4. Ids = out' \cup skipped' \cup {missing'[k] : k \in 1 .. Len(missing')}
    BY <1>1, <1>2 DEF AnsweredInv
  <2> QED
    BY <1>1, <2>1, <2>2, <2>3, <2>4 DEF AnsweredInv
<1>8. OnlyDeadMissed'
  BY <1>1 DEF NamesInv, OnlyDeadMissed, Cached
<1>9. CallsInv'
  BY <1>1, AnsweredPays
<1>10. NothingLost'
  BY <1>1, <1>2 DEF NothingLost, Kept, NamesInv, TypeOK
<1> QED
  BY <1>5, <1>6, <1>7, <1>8, <1>9, <1>10 DEF NamesInv

LEMMA RefuseOneKeeps ==
  ASSUME NamesInv, RefuseOne
  PROVE  NamesInv'
<1> DEFINE p == stack[1][1]
<1>1. /\ phase = "running" /\ stack # <<>> /\ stack' = Tail(stack) /\ calls' = calls + 1
      /\ p = stack[1][2] /\ MayRefuse(stack[1])
      /\ cache' = [cache EXCEPT ![missing[p]] = "miss"] /\ refused' = refused \cup Batch(stack[1])
      /\ UNCHANGED <<live, phase, missing, next, out, skipped, expired>>
  BY TopBatch DEF RefuseOne
<1>2. /\ First = p /\ p \in 1 .. Len(missing) /\ Len(missing) \in Nat
      /\ \A k \in 1 .. Len(missing) : missing[k] \in Ids
  BY <1>1, TopBatch
<1>3. Batch(stack[1]) = {missing[p]}
  BY <1>1, <1>2 DEF Batch
<1>4. /\ stack' \in Seq((1 .. Len(missing)) \X (1 .. Len(missing)))
      /\ Chain(stack', next') /\ First' = p + 1
  BY <1>1, Answered
<1>5. Flaky \/ missing[p] \notin live
  BY <1>1, <1>3 DEF MayRefuse
<1> HIDE DEF p
<1> USE DEF NamesInv
<1>6. TypeOK'
  <2>1. refused' \subseteq Ids /\ calls' \in Nat
    BY <1>1, <1>2, <1>3 DEF TypeOK
  <2>2. cache' \in [Ids -> Entries]
    BY <1>1, <1>2 DEF TypeOK
  <2> QED
    BY <1>1, <1>4, <2>1, <2>2 DEF TypeOK
<1>7. StackInv'
  BY <1>1, <1>4 DEF StackInv
<1>8. missing[p] \notin Kept
  BY <1>1, <1>2 DEF AnsweredInv
<1>9. AnsweredInv'
  <2>1. \A k \in 1 .. Len(missing) : k < First' => missing[k] \in out' \cup refused'
    <3> SUFFICES ASSUME NEW k \in 1 .. Len(missing), k < p + 1
                 PROVE  missing[k] \in out \cup refused \cup {missing[p]}
      BY <1>1, <1>3, <1>4
    <3>1. k < First \/ k = p
      BY <1>2
    <3> QED
      BY <1>1, <3>1 DEF AnsweredInv
  <2>2. ASSUME NEW k \in 1 .. Len(missing), First' <= k
        PROVE  missing[k] \notin Kept'
    <3>1. First <= k /\ k # p
      BY <1>2, <1>4, <2>2
    <3>2. missing[k] # missing[p]
      BY <1>2, <3>1 DEF AnsweredInv
    <3>3. missing[k] \notin Kept
      BY <1>1, <3>1 DEF AnsweredInv
    <3> QED
      BY <1>1, <1>2, <1>3, <3>2, <3>3 DEF Kept, TypeOK
  <2>3. refused' \cap (out' \cup skipped') = {}
    BY <1>1, <1>3, <1>8 DEF AnsweredInv, Kept
  <2> QED
    BY <1>1, <2>1, <2>2, <2>3 DEF AnsweredInv
<1>10. OnlyDeadMissed'
  <2> SUFFICES ASSUME ~Flaky, NEW i \in Ids, cache'[i] = "miss" PROVE i \notin live
    BY <1>1 DEF OnlyDeadMissed, Cached
  <2>1. i = missing[p] \/ cache[i] = "miss"
    BY <1>1, <1>2 DEF TypeOK
  <2> QED
    BY <1>5, <2>1 DEF OnlyDeadMissed, Cached
<1>11. CallsInv'
  BY <1>1, AnsweredPays
<1>12. NothingLost'
  BY <1>1, <1>2, <1>3 DEF NothingLost, Kept, TypeOK
<1> QED
  BY <1>6, <1>7, <1>9, <1>10, <1>11, <1>12

LEMMA SplitKeeps ==
  ASSUME NamesInv, Split
  PROVE  NamesInv'
<1>1. /\ phase = "running" /\ stack # <<>> /\ calls' = calls + 1
      /\ stack[1][1] < stack[1][2] /\ stack' = Halves(stack[1]) \o Tail(stack)
      /\ UNCHANGED <<live, cache, phase, missing, next, out, refused, skipped, expired>>
  BY TopBatch DEF Split
<1>2. /\ Len(missing) \in Nat /\ stack \in Seq(Pairs(Len(missing)))
      /\ next \in 1 .. Len(missing) + 1 /\ Chain(stack, next)
      /\ First = stack[1][1] /\ Len(stack) \in Nat /\ First \in 1 .. Len(missing)
  BY <1>1, TopBatch
<1>3. /\ stack' \in Seq(Pairs(Len(missing))) /\ Len(stack') = Len(stack) + 1
      /\ Chain(stack', next) /\ Start(stack', next) = stack[1][1]
  BY <1>1, <1>2, ChainSplit
<1>4. First' = First
  BY <1>1, <1>2, <1>3 DEF First, Start
<1> USE DEF NamesInv
<1>5. TypeOK'
  BY <1>1, <1>3 DEF TypeOK, Pairs
<1>6. StackInv'
  BY <1>1, <1>3 DEF StackInv
<1>7. AnsweredInv'
  BY <1>1, <1>4 DEF AnsweredInv, Kept
<1>8. OnlyDeadMissed'
  BY <1>1 DEF OnlyDeadMissed, Cached
<1>9. CallsInv'
  <2>1. calls + (IF next > 1 THEN 1 ELSE 0) <= 2 * (First - 1) + Len(stack)
    BY <1>1 DEF CallsInv
  <2>2. calls \in Nat
    BY DEF TypeOK
  <2>3. next' = next /\ calls' = calls + 1 /\ First' = First /\ Len(stack') = Len(stack) + 1
    BY <1>1, <1>3, <1>4
  <2>4. \A c, f, n \in Nat, d \in {0, 1} :
          c + d <= 2 * (f - 1) + n => (c + 1) + d <= 2 * (f - 1) + (n + 1)
    OBVIOUS
  <2>5. (calls + 1) + (IF next > 1 THEN 1 ELSE 0) <= 2 * (First - 1) + (Len(stack) + 1)
    <3>1. First \in Nat /\ Len(stack) \in Nat
      BY <1>2
    <3>2. (IF next > 1 THEN 1 ELSE 0) \in {0, 1}
      OBVIOUS
    <3> QED
      BY <2>1, <2>2, <2>4, <3>1, <3>2, Zenon
  <2>6. calls' + (IF next' > 1 THEN 1 ELSE 0) <= 2 * (First' - 1) + Len(stack')
    BY <2>3, <2>5, Zenon
  <2> QED
    BY <1>1, <2>6 DEF CallsInv
<1>10. NothingLost'
  BY <1>1 DEF NothingLost, Kept
<1> QED
  BY <1>5, <1>6, <1>7, <1>8, <1>9, <1>10

LEMMA InitNamesInv == Init => NamesInv
<1> SUFFICES ASSUME Init PROVE NamesInv
  OBVIOUS
<1>1. Len(missing) = 0 /\ next = 1 /\ stack = <<>> /\ missing = <<>> /\ phase = "idle"
  BY EmptySeq DEF Init
<1>2. TypeOK
  BY <1>1, EmptySeq DEF Init, TypeOK
<1>3. StackInv
  BY <1>1 DEF StackInv, Chain
<1>4. AnsweredInv
  BY <1>1 DEF Init, AnsweredInv
<1>5. OnlyDeadMissed
  BY DEF Init, OnlyDeadMissed, Cached
<1>6. CallsInv
  BY <1>1 DEF CallsInv
<1>7. NothingLost
  BY DEF Init, NothingLost, Kept
<1> QED
  BY <1>2, <1>3, <1>4, <1>5, <1>6, <1>7 DEF NamesInv

LEMMA NamesInvStep ==
  ASSUME NamesInv, [Next]_vars
  PROVE  NamesInv'
<1>1. CASE Begin
  BY <1>1, BeginKeeps
<1>2. CASE NextChunk
  BY <1>2, NextChunkKeeps
<1>3. CASE Finish
  BY <1>3, FinishKeeps
<1>4. CASE Named
  BY <1>4, NamedKeeps
<1>5. CASE RefuseOne
  BY <1>5, RefuseOneKeeps
<1>6. CASE Split
  BY <1>6, SplitKeeps
<1>7. CASE Raise
  BY <1>7, RaiseKeeps
<1>8. ASSUME NEW i \in Ids, Expire(i) PROVE NamesInv'
  BY <1>8, ExpireKeeps
<1>9. ASSUME NEW i \in Ids, OtherFills(i) PROVE NamesInv'
  BY <1>9, OtherFillsKeeps
<1>10. CASE UNCHANGED vars
  <2> USE <1>10 DEF NamesInv, vars
  <2>1. TypeOK'
    BY DEF TypeOK
  <2>2. StackInv'
    BY DEF StackInv
  <2>3. AnsweredInv'
    BY DEF AnsweredInv, Kept, First
  <2>4. OnlyDeadMissed'
    BY DEF OnlyDeadMissed, Cached
  <2>5. CallsInv'
    BY DEF CallsInv, First
  <2>6. NothingLost'
    BY DEF NothingLost, Kept
  <2> QED
    BY <2>1, <2>2, <2>3, <2>4, <2>5, <2>6
<1> QED
  BY <1>1, <1>2, <1>3, <1>4, <1>5, <1>6, <1>7, <1>8, <1>9, <1>10 DEF Next, Advance

\* The inductive invariant of NamesBatch.
THEOREM NamesInvariant == Spec => []NamesInv
  BY InitNamesInv, NamesInvStep, PTL DEF Spec

\* Type correctness of NamesBatch.
THEOREM NamesTyped == Spec => []TypeOK
<1>1. NamesInv => TypeOK
  BY DEF NamesInv
<1> QED
  BY <1>1, NamesInvariant, PTL

\* A call of names() that ends has answered every id once: _resolve_names_batch loses none.
THEOREM EveryIdIsAnswered == Spec => []EveryIdAnswered
<1>1. NamesInv => EveryIdAnswered
  <2> SUFFICES ASSUME NamesInv PROVE EveryIdAnswered
    OBVIOUS
  <2>1. ASSUME phase = "done" PROVE Ids \subseteq out \cup refused \cup skipped
    <3>1. Ids = out \cup skipped \cup {missing[k] : k \in 1 .. Len(missing)}
      BY <2>1 DEF NamesInv, AnsweredInv
    <3>2. First \in Nat /\ First > Len(missing) /\ Len(missing) \in Nat
      <4>1. stack = <<>> /\ next \in 1 .. Len(missing) + 1 /\ Len(missing) \in Nat
        BY <2>1, LenProperties DEF NamesInv, StackInv, TypeOK
      <4>2. First = next
        BY <4>1 DEF First, Start
      <4> QED
        BY <2>1, <4>1, <4>2 DEF NamesInv, AnsweredInv
    <3>3. \A k \in 1 .. Len(missing) : k < First
      BY <3>2
    <3>4. \A k \in 1 .. Len(missing) : missing[k] \in out \cup refused
      BY <2>1, <3>3 DEF NamesInv, AnsweredInv
    <3> QED
      BY <3>1, <3>4
  <2>2. out \cup refused \cup skipped \subseteq Ids
    BY DEF NamesInv, TypeOK
  <2> QED
    BY <2>1, <2>2 DEF EveryIdAnswered, NamesInv, AnsweredInv
<1> QED
  BY <1>1, NamesInvariant, PTL

\* As long as ESI refuses no batch it could name, no id it knows is cached as a miss.
THEOREM OnlyDeadAreMissed == Spec => []OnlyDeadMissed
<1>1. NamesInv => OnlyDeadMissed
  BY DEF NamesInv
<1> QED
  BY <1>1, NamesInvariant, PTL

\* What a call knows is in the cache until it expires, for the calls after it, and is in no
\* batch the call still has to ask for, whatever the other calls write meanwhile.
THEOREM NamesNotReasked == Spec => []NeverReasked
<1>1. NamesInv => NeverReasked
  <2> SUFFICES ASSUME NamesInv, NEW k \in DOMAIN stack, NEW m \in stack[k][1] .. stack[k][2]
               PROVE  missing[m] \notin Kept
    BY DEF NeverReasked, Batch, NamesInv
  <2>1. k \in 1 .. Len(stack) /\ stack # <<>> /\ Len(stack) \in Nat
    BY LenProperties DEF NamesInv, TypeOK
  <2>2. /\ Len(missing) \in Nat /\ stack \in Seq(Pairs(Len(missing)))
        /\ First = stack[1][1] /\ First <= stack[1][2] /\ Chain(stack, next)
        /\ First \in Nat /\ stack[1][2] \in Nat
    BY <2>1, TopBatch
  <2>3. stack[k] \in Pairs(Len(missing))
    BY <2>1, <2>2, ElementOfSeq
  <2>4. stack[k][1] \in 1 .. Len(missing) /\ stack[k][2] \in 1 .. Len(missing)
    BY <2>3 DEF Pairs
  <2>5. First <= stack[k][1]
    <3>1. CASE k = 1
      BY <2>2, <2>4, <3>1
    <3>2. CASE k > 1
      <4>1. stack[1][2] + (k - 1) <= stack[k][1]
        BY <2>1, <2>2, <3>2 DEF Chain
      <4> QED
        BY <2>1, <2>2, <2>4, <3>2, <4>1
    <3> QED
      BY <2>1, <3>1, <3>2
  <2>6. m \in 1 .. Len(missing) /\ First <= m
    BY <2>2, <2>4, <2>5
  <2>7. phase = "running"
    BY <2>1 DEF NamesInv, StackInv, TypeOK
  <2> QED
    BY <2>6, <2>7 DEF NamesInv, AnsweredInv
<1> QED
  BY <1>1, NamesInvariant, PTL

\* A call of names() makes fewer than two requests for each id it has to ask for, whatever
\* ESI refuses.
THEOREM CallsAreBounded == Spec => []CallBudget
<1>1. NamesInv => CallBudget
  <2> SUFFICES ASSUME NamesInv, missing # <<>> PROVE calls < 2 * Len(missing)
    BY DEF CallBudget
  <2>1. Len(missing) \in Nat \ {0} /\ calls \in Nat /\ next \in 1 .. Len(missing) + 1
    BY EmptySeq DEF NamesInv, TypeOK
  <2>2. CASE phase # "running"
    BY <2>2 DEF NamesInv, CallsInv
  <2>3. CASE phase = "running"
    <3>1. calls + (IF next > 1 THEN 1 ELSE 0) <= 2 * (First - 1) + Len(stack)
      BY <2>3 DEF NamesInv, CallsInv
    <3>2. CASE stack = <<>>
      <4>1. First = next /\ Len(stack) = 0
        BY <3>2, EmptySeq DEF First, Start
      <4> QED
        BY <2>1, <3>1, <4>1
    <3>3. CASE stack # <<>>
      <4>1. /\ First \in 1 .. Len(missing) /\ First + Len(stack) <= next
            /\ Len(stack) \in Nat \ {0}
        BY <3>3, TopBatch
      <4> QED
        BY <2>1, <3>1, <4>1
    <3> QED
      BY <3>2, <3>3
  <2> QED
    BY <2>2, <2>3
<1> QED
  BY <1>1, NamesInvariant, PTL

\* The cache of names() is filled as NamesLookup allows, step by step.
THEOREM NamesBatchImplementsLookup == Spec => LookupSpec
<1>1. Init => Lookup!Init
  BY DEF Init, Lookup!Init
<1>2. NamesInv /\ [Next]_vars => [Lookup!Next]_<<live, cache>>
  <2> SUFFICES ASSUME NamesInv, [Next]_vars PROVE [Lookup!Next]_<<live, cache>>
    OBVIOUS
  <2>1. CASE Named
    <3> DEFINE S == Batch(stack[1])
    <3>1. /\ phase = "running" /\ stack # <<>> /\ S \subseteq live /\ UNCHANGED live
          /\ cache' = [i \in Ids |-> IF i \in S THEN "name" ELSE cache[i]]
      BY <2>1, TopBatch DEF Named
    <3>2. S \subseteq Ids
      BY <3>1, TopBatch
    <3> HIDE DEF S
    <3>3. Lookup!Learn(S)
      BY <3>1 DEF Lookup!Learn
    <3> QED
      BY <3>2, <3>3 DEF Lookup!Next
  <2>2. CASE RefuseOne
    <3> DEFINE p == stack[1][1]
    <3>1. /\ phase = "running" /\ stack # <<>> /\ p = stack[1][2] /\ MayRefuse(stack[1])
          /\ UNCHANGED live /\ cache' = [cache EXCEPT ![missing[p]] = "miss"]
      BY <2>2, TopBatch DEF RefuseOne
    <3>2. p \in 1 .. Len(missing) /\ First = p /\ missing[p] \in Ids
      BY <3>1, TopBatch
    <3>3. Batch(stack[1]) = {missing[p]}
      BY <3>1, <3>2 DEF Batch
    <3>4. missing[p] \in live => Flaky
      BY <3>1, <3>2, <3>3 DEF MayRefuse
    <3> HIDE DEF p
    <3>5. Lookup!Miss(missing[p])
      BY <3>1, <3>4 DEF Lookup!Miss
    <3> QED
      BY <3>2, <3>5 DEF Lookup!Next
  <2>3. ASSUME NEW i \in Ids, Expire(i) PROVE [Lookup!Next]_<<live, cache>>
    BY <2>3 DEF Expire, Lookup!Expire, Lookup!Next
  <2>4. ASSUME NEW i \in Ids, OtherFills(i) PROVE [Lookup!Next]_<<live, cache>>
    <3>1. CASE i \in live /\ cache' = [cache EXCEPT ![i] = "name"]
      <4>1. cache' = [j \in Ids |-> IF j \in {i} THEN "name" ELSE cache[j]]
        BY <3>1 DEF NamesInv, TypeOK
      <4>2. Lookup!Learn({i})
        BY <2>4, <3>1, <4>1 DEF OtherFills, Lookup!Learn
      <4> QED
        BY <4>2 DEF Lookup!Next
    <3>2. CASE (Flaky \/ i \notin live) /\ cache' = [cache EXCEPT ![i] = "miss"]
      BY <2>4, <3>2 DEF OtherFills, Lookup!Miss, Lookup!Next
    <3> QED
      BY <2>4, <3>1, <3>2 DEF OtherFills
  <2>5. CASE Begin \/ NextChunk \/ Finish \/ Split \/ Raise \/ UNCHANGED vars
    BY <2>5 DEF Begin, NextChunk, Finish, Split, Raise, vars
  <2> QED
    BY <2>1, <2>2, <2>3, <2>4, <2>5 DEF Next, Advance
<1> QED
  BY <1>1, <1>2, NamesInvariant, PTL DEF Spec, LookupSpec, Lookup!Spec

-----------------------------------------------------------------------------
\* A set of naturals has a least element: the segments below its elements are finite sets.
LEMMA LeastElement ==
  ASSUME NEW S \in SUBSET Nat, S # {}
  PROVE  \E n \in S : \A m \in S : n <= m
<1>1. PICK top \in S : TRUE
  OBVIOUS
<1> DEFINE D == 0 .. top
           Segments == {s \in SUBSET D : \E m \in S : s = 0 .. m}
<1>2. IsFiniteSet(D)
  BY <1>1, FS_Interval
<1>3. IsWellFoundedOn(StrictSubsetOrdering(D), SUBSET D)
  <2> HIDE DEF D
  <2>1. SUBSET D = FiniteSubsetsOf(D)
    BY <1>2, FS_FiniteSubsetsOfFinite
  <2> QED BY <2>1, FS_StrictSubsetOrderingWellFounded
<1>4. Segments \subseteq SUBSET D /\ D \in Segments
  OBVIOUS
<1>5. PICK s \in Segments : \A t \in Segments : <<t, s>> \notin StrictSubsetOrdering(D)
  <2> HIDE DEF D, Segments
  <2> QED BY <1>3, <1>4, WFMin
<1>6. PICK n \in S : s = 0 .. n
  BY <1>5
<1>7. ASSUME NEW m \in S, m < n PROVE FALSE
  <2>1. 0 .. m \subseteq 0 .. n /\ 0 .. m # 0 .. n
    BY <1>7, n \in 0 .. n, n \notin 0 .. m
  <2>2. 0 .. m \in Segments
    BY <1>5, <1>6, <2>1
  <2> HIDE DEF D
  <2>3. <<0 .. m, s>> \in StrictSubsetOrdering(D)
    BY <1>5, <1>6, <2>1 DEF StrictSubsetOrdering
  <2> QED BY <1>5, <2>2, <2>3
<1> QED BY <1>7

(* The depth of halving.                                                   *)
Halved(n) == (n + 1) \div 2
\* d is the depth for the sizes up to m.
DepthTo(d, m) == d = [n \in 0 .. m |-> IF n <= 1 THEN 0 ELSE 1 + d[Halved(n)]]
DepthOn(d) == d = [n \in Nat |-> IF n <= 1 THEN 0 ELSE 1 + d[Halved(n)]]

\* Half of a batch of two or more, rounded up, is smaller than the batch.
LEMMA HalvedIsLess == \A n \in Nat : n > 1 => Halved(n) \in 1 .. n - 1
BY DEF Halved

\* Two solutions agree as far as both go.
LEMMA DepthsAgree ==
  ASSUME NEW m \in Nat, NEW k \in 0 .. m, NEW d, NEW e, DepthTo(d, m), DepthTo(e, k)
  PROVE  \A n \in 0 .. k : d[n] = e[n]
<1> DEFINE Bad == {n \in 0 .. k : d[n] # e[n]}
<1>1. ASSUME Bad # {} PROVE FALSE
  <2>1. PICK n \in Bad : \A i \in Bad : n <= i
    <3>1. Bad \in SUBSET Nat
      OBVIOUS
    <3> HIDE DEF Bad
    <3> QED BY <3>1, <1>1, LeastElement
  <2>2. n \in 0 .. k /\ n \in 0 .. m /\ d[n] # e[n]
    OBVIOUS
  <2>3. n > 1
    BY <2>2 DEF DepthTo
  <2>4. d[n] = 1 + d[Halved(n)] /\ e[n] = 1 + e[Halved(n)]
    BY <2>2, <2>3 DEF DepthTo
  <2>5. Halved(n) \in 0 .. k /\ Halved(n) < n
    BY <2>2, <2>3, HalvedIsLess
  <2>6. Halved(n) \in Bad
    BY <2>2, <2>4, <2>5
  <2> QED BY <2>1, <2>5, <2>6
<1> QED BY <1>1

\* There is a solution as far as one wants.
LEMMA DepthToExists == \A m \in Nat : \E d : DepthTo(d, m)
<1> DEFINE Bad == {m \in Nat : ~ \E d : DepthTo(d, m)}
<1>1. ASSUME Bad # {} PROVE FALSE
  <2>1. PICK m \in Bad : \A i \in Bad : m <= i
    BY <1>1, LeastElement
  <2>2. CASE m = 0
    <3>1. DepthTo([n \in 0 .. 0 |-> 0], 0)
      BY DEF DepthTo
    <3> QED BY <2>2, <3>1
  <2>3. CASE m > 0
    <3>1. m - 1 \in Nat /\ m - 1 \notin Bad
      BY <2>1, <2>3
    <3>2. PICK d : DepthTo(d, m - 1)
      BY <3>1
    <3> DEFINE e == [n \in 0 .. m |-> IF n \in 0 .. m - 1 THEN d[n]
                                      ELSE IF n <= 1 THEN 0 ELSE 1 + d[Halved(n)]]
    <3>3. ASSUME NEW n \in 0 .. m
          PROVE  e[n] = IF n <= 1 THEN 0 ELSE 1 + e[Halved(n)]
      <4>1. n > 1 => Halved(n) \in 0 .. m - 1 /\ Halved(n) \in 0 .. m
        BY HalvedIsLess
      <4>2. n > 1 => e[Halved(n)] = d[Halved(n)]
        BY <4>1
      <4>3. n \in 0 .. m - 1 => d[n] = IF n <= 1 THEN 0 ELSE 1 + d[Halved(n)]
        BY <3>2 DEF DepthTo
      <4>4. e[n] = IF n \in 0 .. m - 1 THEN d[n] ELSE IF n <= 1 THEN 0 ELSE 1 + d[Halved(n)]
        OBVIOUS
      <4> HIDE DEF e
      <4> QED BY <4>2, <4>3, <4>4
    <3>4. DepthTo(e, m)
      <4>1. e = [n \in 0 .. m |-> e[n]]
        OBVIOUS
      <4> HIDE DEF e
      <4> QED BY <3>3, <4>1 DEF DepthTo
    <3> QED BY <3>4
  <2> QED BY <2>2, <2>3
<1> QED BY <1>1

\* Depth solves its own recursion.
LEMMA DepthUnfolds ==
  /\ Depth = [n \in Nat |-> Depth[n]]
  /\ \A n \in Nat : Depth[n] = IF n <= 1 THEN 0 ELSE 1 + Depth[Halved(n)]
<1> DEFINE d(m) == CHOOSE d : DepthTo(d, m)
           f == [n \in Nat |-> d(n)[n]]
<1>1. \A m \in Nat : DepthTo(d(m), m)
  BY DepthToExists
<1> HIDE DEF d
<1>2. ASSUME NEW n \in Nat
      PROVE  f[n] = IF n <= 1 THEN 0 ELSE 1 + f[Halved(n)]
  <2>1. d(n)[n] = IF n <= 1 THEN 0 ELSE 1 + d(n)[Halved(n)]
    BY <1>1 DEF DepthTo
  <2>2. n > 1 => d(n)[Halved(n)] = d(Halved(n))[Halved(n)]
    <3> SUFFICES ASSUME n > 1 PROVE d(n)[Halved(n)] = d(Halved(n))[Halved(n)]
      OBVIOUS
    <3>1. Halved(n) \in Nat /\ Halved(n) \in 0 .. n /\ Halved(n) \in 0 .. Halved(n)
      BY HalvedIsLess
    <3>2. DepthTo(d(n), n) /\ DepthTo(d(Halved(n)), Halved(n))
      BY <1>1, <3>1
    <3> QED BY <3>1, <3>2, DepthsAgree
  <2>3. n > 1 => Halved(n) \in Nat
    BY HalvedIsLess
  <2> QED BY <2>1, <2>2, <2>3
<1>3. DepthOn(f)
  <2>1. f = [n \in Nat |-> f[n]]
    OBVIOUS
  <2> HIDE DEF f
  <2> QED BY <1>2, <2>1 DEF DepthOn
<1>4. Depth = CHOOSE g : DepthOn(g)
  BY DEF Depth, DepthOn, Halved
<1>5. DepthOn(Depth)
  <2> HIDE DEF f
  <2> QED BY <1>3, <1>4
<1> QED BY <1>5 DEF DepthOn

\* The depth is a natural number and does not fall as batches grow.
LEMMA DepthGrows ==
  \A n \in Nat : Depth[n] \in Nat /\ \A k \in 0 .. n : Depth[k] <= Depth[n]
<1> DEFINE Good(n) == Depth[n] \in Nat /\ \A k \in 0 .. n : Depth[k] \in Nat /\ Depth[k] <= Depth[n]
           Bad == {n \in Nat : ~Good(n)}
<1>1. ASSUME Bad # {} PROVE FALSE
  <2>1. PICK n \in Bad : \A i \in Bad : n <= i
    BY <1>1, LeastElement
  <2>2. CASE n <= 1
    BY <2>2, DepthUnfolds
  <2>3. CASE n > 1
    <3>1. Halved(n) \in 1 .. n - 1 /\ Good(Halved(n))
      BY <2>1, <2>3, HalvedIsLess
    <3>2. Depth[n] = 1 + Depth[Halved(n)]
      BY <2>3, DepthUnfolds
    <3>3. ASSUME NEW k \in 0 .. n PROVE Depth[k] \in Nat /\ Depth[k] <= Depth[n]
      <4>1. CASE k <= 1
        BY <4>1, <3>1, <3>2, DepthUnfolds
      <4>2. CASE k > 1
        <5>1. Depth[k] = 1 + Depth[Halved(k)]
          BY <4>2, DepthUnfolds
        <5>2. Halved(k) \in 0 .. Halved(n)
          BY <4>2, <2>3 DEF Halved
        <5> QED BY <5>1, <5>2, <3>1, <3>2
      <4> QED BY <4>1, <4>2
    <3> QED BY <3>1, <3>2, <3>3
  <2> QED BY <2>2, <2>3
<1> QED BY <1>1

-----------------------------------------------------------------------------
(* What dead ids cost: each request is paid for, by its batch on the stack or by a chunk
   still to come, and each halving by a dead id that is left with a smaller batch. *)

Size(b) == b[2] - b[1] + 1
Dead == {k \in 1 .. Len(missing) : missing[k] \notin live}
ChunksLeft(nx) == (Len(missing) + BulkMax - nx) \div BulkMax
Room == Dead \X (1 .. Depth[BulkMax])
\* The halvings that dead ids may still cause, as pairs of a dead id and a depth.
Owed ==
  {u \in Room : \/ u[1] >= next
                \/ \E k \in 1 .. Len(stack) :
                     u[1] \in stack[k][1] .. stack[k][2] /\ u[2] <= Depth[Size(stack[k])]}

SizeInv == \A k \in 1 .. Len(stack) : Size(stack[k]) <= BulkMax
PaidInv ==
  calls + Len(stack) + ChunksLeft(next) + 2 * Cardinality(Owed)
    <= ChunksLeft(1) + 2 * Cardinality(Room)
CostInv == SizeInv /\ (~Flaky => PaidInv)

\* What is counted is finite, and no number in PaidInv is negative.
LEMMA CostTypes ==
  ASSUME NamesInv
  PROVE  /\ Len(missing) \in Nat /\ next \in 1 .. Len(missing) + 1
         /\ Len(stack) \in Nat /\ calls \in Nat
         /\ Depth[BulkMax] \in Nat
         /\ IsFiniteSet(Dead) /\ Cardinality(Dead) \in Nat
         /\ IsFiniteSet(Room) /\ Cardinality(Room) = Cardinality(Dead) * Depth[BulkMax]
         /\ Cardinality(Room) \in Nat
         /\ IsFiniteSet(Owed) /\ Cardinality(Owed) \in Nat
         /\ Cardinality(Owed) <= Cardinality(Room)
         /\ ChunksLeft(next) \in Nat /\ ChunksLeft(1) \in Nat
<1>1. /\ Len(missing) \in Nat /\ next \in 1 .. Len(missing) + 1
      /\ Len(stack) \in Nat /\ calls \in Nat
  BY LenProperties DEF NamesInv, TypeOK
<1>2. Depth[BulkMax] \in Nat
  BY DepthGrows, BulkMaxAssumption
<1>3. IsFiniteSet(Dead) /\ Cardinality(Dead) \in Nat
  <2>1. IsFiniteSet(1 .. Len(missing)) /\ Dead \subseteq 1 .. Len(missing)
    BY <1>1, FS_Interval DEF Dead
  <2> QED BY <2>1, FS_Subset, FS_CardinalityType
<1>4. IsFiniteSet(Room) /\ Cardinality(Room) = Cardinality(Dead) * Depth[BulkMax]
  <2> DEFINE depths == 1 .. Depth[BulkMax]
  <2>1. IsFiniteSet(depths) /\ Cardinality(depths) = Depth[BulkMax]
    BY <1>2, FS_Interval
  <2>2. Room = Dead \X depths
    BY DEF Room
  <2> HIDE DEF depths
  <2> QED BY <1>3, <2>1, <2>2, FS_Product
<1>5. Cardinality(Room) \in Nat
  BY <1>4, FS_CardinalityType
<1>6. /\ IsFiniteSet(Owed) /\ Cardinality(Owed) \in Nat
      /\ Cardinality(Owed) <= Cardinality(Room)
  <2>1. Owed \in SUBSET Room
    BY DEF Owed
  <2> QED BY <1>4, <2>1, FS_Subset, FS_CardinalityType
<1>7. ChunksLeft(next) \in Nat /\ ChunksLeft(1) \in Nat
  BY <1>1, BulkMaxAssumption DEF ChunksLeft
<1> QED BY <1>1, <1>2, <1>3, <1>4, <1>5, <1>6, <1>7

\* The room for halvings is finite and no less than what is owed.
LEMMA RoomEnough ==
  NamesInv => /\ Cardinality(Owed) \in Nat /\ Cardinality(Room) \in Nat
              /\ Cardinality(Owed) <= Cardinality(Room) /\ ChunksLeft(1) \in Nat
BY CostTypes

\* An account is kept if a step spends, in calls, batches and chunks, no more than it had.
LEMMA NothingIsSpent ==
  \A x, o, limit, x2, o2 \in Nat : x2 <= x /\ o2 <= o /\ x + 2 * o <= limit => x2 + 2 * o2 <= limit
OBVIOUS

\* Two more are paid for by one halving less that is owed.
LEMMA SpentIsOwed ==
  \A x, o, limit, x2, o2 \in Nat :
    x2 <= x + 2 /\ o2 + 1 <= o /\ x + 2 * o <= limit => x2 + 2 * o2 <= limit
OBVIOUS

\* A step that asks for no new batch keeps the account if each request of it takes a batch
\* off the stack.
LEMMA FewerBatchesKeepCost ==
  ASSUME NamesInv, NamesInv', CostInv, UNCHANGED <<live, missing, next>>,
         \A j \in 1 .. Len(stack') : \E k \in 1 .. Len(stack) : stack'[j] = stack[k],
         calls' + Len(stack') <= calls + Len(stack)
  PROVE  CostInv'
<1>1. SizeInv'
  BY DEF CostInv, SizeInv, Size
<1>2. Room' = Room /\ ChunksLeft(next)' = ChunksLeft(next) /\ ChunksLeft(1)' = ChunksLeft(1)
  BY DEF Room, Dead, ChunksLeft
<1>3. Owed' \subseteq Owed
  <2> SUFFICES ASSUME NEW u \in Room, u \in Owed' PROVE u \in Owed
    BY <1>2 DEF Owed
  <2>1. CASE u[1] >= next
    BY <2>1 DEF Owed
  <2>2. CASE \E j \in 1 .. Len(stack') :
               u[1] \in stack'[j][1] .. stack'[j][2] /\ u[2] <= Depth[Size(stack'[j])]
    BY <2>2 DEF Owed
  <2> QED BY <2>1, <2>2 DEF Owed
<1>4. Cardinality(Owed') <= Cardinality(Owed)
  <2>1. IsFiniteSet(Owed)
    BY CostTypes
  <2>2. Owed' \in SUBSET Owed
    BY <1>3
  <2> QED BY <2>1, <2>2, FS_Subset
<1>5. /\ Len(stack) \in Nat /\ calls \in Nat /\ Cardinality(Owed) \in Nat
      /\ ChunksLeft(next) \in Nat /\ ChunksLeft(1) \in Nat /\ Cardinality(Room) \in Nat
  BY CostTypes
<1>6. Len(stack') \in Nat /\ calls' \in Nat /\ Cardinality(Owed') \in Nat
  <2>1. Len(stack') \in Nat /\ calls' \in Nat
    BY LenProperties DEF NamesInv, TypeOK
  <2>2. IsFiniteSet(Owed') /\ Cardinality(Owed') \in Nat
    <3>1. IsFiniteSet(Owed)
      BY CostTypes
    <3>2. Owed' \in SUBSET Owed
      BY <1>3
    <3> QED BY <3>1, <3>2, FS_Subset, FS_CardinalityType
  <2> QED BY <2>1, <2>2
<1>7. PaidInv => PaidInv'
  <2> DEFINE limit == ChunksLeft(1) + 2 * Cardinality(Room)
  <2>1. limit \in Nat
    BY <1>5
  <2>2. PaidInv <=> calls + Len(stack) + ChunksLeft(next) + 2 * Cardinality(Owed) <= limit
    BY DEF PaidInv
  <2>3. PaidInv' <=> calls' + Len(stack') + ChunksLeft(next) + 2 * Cardinality(Owed') <= limit
    BY <1>2, Zenon DEF PaidInv
  <2>4. calls' + Len(stack') + ChunksLeft(next) <= calls + Len(stack) + ChunksLeft(next)
    <3>1. \A c, l, n, c2, l2 \in Nat : c2 + l2 <= c + l => c2 + l2 + n <= c + l + n
      OBVIOUS
    <3> QED BY <1>5, <1>6, <3>1, Zenon
  <2>5. /\ calls + Len(stack) + ChunksLeft(next) \in Nat
        /\ calls' + Len(stack') + ChunksLeft(next) \in Nat
    BY <1>5, <1>6
  <2> HIDE DEF limit
  <2> QED BY <1>4, <1>5, <1>6, <2>1, <2>2, <2>3, <2>4, <2>5, NothingIsSpent, Zenon
<1> QED BY <1>1, <1>7 DEF CostInv

\* A new chunk is paid for by the count of chunks; its dead ids owe no more than they did.
LEMMA NextChunkKeepsCost ==
  ASSUME NamesInv, NamesInv', CostInv, NextChunk
  PROVE  CostInv'
<1>1. /\ stack = <<>> /\ next <= Len(missing)
      /\ stack' = << <<next, ChunkEnd>> >> /\ next' = ChunkEnd + 1
      /\ missing' = missing /\ live' = live /\ calls' = calls
  BY DEF NextChunk
<1>2. /\ Len(missing) \in Nat /\ next \in 1 .. Len(missing)
      /\ calls \in Nat /\ Cardinality(Owed) \in Nat
      /\ ChunksLeft(next) \in Nat /\ ChunksLeft(1) \in Nat /\ Cardinality(Room) \in Nat
  BY <1>1, CostTypes
<1>3. /\ ChunkEnd \in next .. Len(missing) /\ ChunkEnd + 1 - next <= BulkMax
      /\ ChunkEnd = next + BulkMax - 1 \/ ChunkEnd = Len(missing)
  BY <1>2, BulkMaxAssumption DEF ChunkEnd
<1>4. Len(stack) = 0 /\ Len(stack') = 1 /\ stack'[1] = <<next, ChunkEnd>>
  BY <1>1
<1>5. SizeInv'
  <2>1. \A k \in 1 .. Len(stack') : stack'[k] = <<next, ChunkEnd>>
    BY <1>4
  <2>2. Size(<<next, ChunkEnd>>) <= BulkMax
    BY <1>2, <1>3 DEF Size
  <2> QED BY <2>1, <2>2 DEF SizeInv
<1>6. Room' = Room /\ ChunksLeft(1)' = ChunksLeft(1)
  BY <1>1 DEF Room, Dead, ChunksLeft
<1>7. ChunksLeft(next') + 1 <= ChunksLeft(next)
  <2> DEFINE x == Len(missing) + BulkMax - next
  <2>1. x \in Nat /\ x >= BulkMax
    BY <1>2, BulkMaxAssumption
  <2>2. CASE ChunkEnd = next + BulkMax - 1
    <3>1. ChunksLeft(next') = (x - BulkMax) \div BulkMax
      <4>1. Len(missing) + BulkMax - next' = x - BulkMax
        BY <1>1, <1>2, <2>2, BulkMaxAssumption
      <4> QED BY <4>1 DEF ChunksLeft
    <3>2. ChunksLeft(next) = x \div BulkMax
      BY DEF ChunksLeft
    <3> HIDE DEF x
    <3>3. (x - BulkMax) \div BulkMax = (x \div BulkMax) - 1 /\ x \div BulkMax \in Nat
      BY <2>1, BulkMaxAssumption
    <3> QED BY <3>1, <3>2, <3>3
  <2>3. CASE ChunkEnd = Len(missing)
    <3>1. ChunksLeft(next') = 0
      <4>1. Len(missing) + BulkMax - next' = BulkMax - 1
        BY <1>1, <1>2, <2>3, BulkMaxAssumption
      <4>2. (BulkMax - 1) \div BulkMax = 0
        BY BulkMaxAssumption
      <4> QED BY <4>1, <4>2 DEF ChunksLeft
    <3>2. ChunksLeft(next) = x \div BulkMax
      BY DEF ChunksLeft
    <3> HIDE DEF x
    <3>3. x \div BulkMax >= 1
      BY <2>1, BulkMaxAssumption
    <3> QED BY <3>1, <3>2, <3>3
  <2> QED BY <1>3, <2>2, <2>3
<1>8. Owed' \in SUBSET Owed
  <2> SUFFICES ASSUME NEW u \in Room, u \in Owed' PROVE u[1] >= next
    BY <1>6 DEF Owed
  <2>1. u[1] \in 1 .. Len(missing)
    BY DEF Room, Dead
  <2>2. u[1] >= ChunkEnd + 1 \/ u[1] \in next .. ChunkEnd
    <3>1. \/ u[1] >= next'
          \/ \E k \in 1 .. Len(stack') : u[1] \in stack'[k][1] .. stack'[k][2]
      BY DEF Owed
    <3> QED BY <1>1, <1>4, <3>1
  <2> QED BY <1>2, <1>3, <2>1, <2>2
<1>9. Cardinality(Owed') \in Nat /\ Cardinality(Owed') <= Cardinality(Owed)
  <2>1. IsFiniteSet(Owed)
    BY CostTypes
  <2> QED BY <1>8, <2>1, FS_Subset, FS_CardinalityType
<1>10. ChunksLeft(next)' \in Nat /\ ChunksLeft(next)' = ChunksLeft(next')
  <2>1. ChunksLeft(next)' = ChunksLeft(next')
    BY <1>1 DEF ChunksLeft
  <2>2. Len(missing) + BulkMax - next' \in Nat
    BY <1>1, <1>2, <1>3, BulkMaxAssumption
  <2> QED BY <2>1, <2>2, BulkMaxAssumption DEF ChunksLeft
<1>11. PaidInv => PaidInv'
  <2> DEFINE limit == ChunksLeft(1) + 2 * Cardinality(Room)
             len == Len(stack')
  <2>1. limit \in Nat
    BY <1>2
  <2>2. PaidInv <=> calls + Len(stack) + ChunksLeft(next) + 2 * Cardinality(Owed) <= limit
    BY DEF PaidInv
  <2>3. PaidInv' <=> calls' + len + ChunksLeft(next)' + 2 * Cardinality(Owed') <= limit
    BY <1>6, Zenon DEF PaidInv
  <2>4. len = 1 /\ len \in Nat /\ calls' = calls /\ calls' \in Nat /\ Len(stack) \in Nat
    BY <1>1, <1>2, <1>4
  <2>5. calls' + len + ChunksLeft(next)' <= calls + Len(stack) + ChunksLeft(next)
    <3>1. \A c, n, n2 \in Nat : n2 + 1 <= n => c + 1 + n2 <= c + 0 + n
      OBVIOUS
    <3> QED BY <1>2, <1>4, <1>7, <1>10, <2>4, <3>1, Zenon
  <2>6. /\ calls + Len(stack) + ChunksLeft(next) \in Nat
        /\ calls' + len + ChunksLeft(next)' \in Nat
    <3> HIDE DEF len
    <3> QED BY <1>2, <1>10, <2>4
  <2> HIDE DEF limit, len
  <2> QED BY <1>2, <1>9, <2>1, <2>2, <2>3, <2>5, <2>6, NothingIsSpent, Zenon
<1> QED BY <1>5, <1>11 DEF CostInv

\* The batches after a split: the halves of the first, then the others.
LEMMA SplitBatches ==
  ASSUME NEW n \in Nat, NEW s \in Seq(Pairs(n)), s # <<>>,
         s[1][1] < s[1][2]
  PROVE  LET t == Halves(s[1]) \o Tail(s) IN
         /\ Len(t) = Len(s) + 1
         /\ \A j \in 1 .. Len(t) : \/ t[j] = Halves(s[1])[1]
                                   \/ t[j] = Halves(s[1])[2]
                                   \/ \E k \in 2 .. Len(s) : t[j] = s[k]
<1> DEFINE b == s[1]
           mid == (b[2] - b[1] + 1) \div 2
           left == <<b[1], b[1] + mid - 1>>
           right == <<b[1] + mid, b[2]>>
           h == <<left, right>>
           r == Tail(s)
           t == h \o r
           Any == Pairs(n) \cup {left, right}
<1>1. Halves(s[1]) = h
  BY DEF Halves
<1>2. /\ r \in Seq(Pairs(n)) /\ Len(r) = Len(s) - 1
      /\ \A k \in 1 .. Len(r) : r[k] = s[k + 1]
  BY HeadTailProperties
<1>3. Len(s) \in Nat \ {0} /\ Len(r) \in Nat
  BY <1>2, EmptySeq
<1> HIDE DEF left, right, mid, b
<1>4. h \in Seq(Any) /\ Len(h) = 2
  OBVIOUS
<1>5. r \in Seq(Any)
  <2> HIDE DEF r
  <2>1. Pairs(n) \subseteq Any
    OBVIOUS
  <2> HIDE DEF Any
  <2> QED BY <1>2, <2>1, SeqMonotonic
<1> HIDE DEF h, r, Any
<1>6. /\ Len(h \o r) = Len(h) + Len(r)
      /\ \A i \in 1 .. Len(h) + Len(r) : (h \o r)[i] = IF i <= Len(h) THEN h[i] ELSE r[i - Len(h)]
  BY <1>4, <1>5, ConcatProperties
<1>7. t = h \o r /\ t = Halves(s[1]) \o Tail(s)
  BY <1>1 DEF r
<1> HIDE DEF t
<1>8. Len(t) = Len(s) + 1
  BY <1>2, <1>3, <1>4, <1>6, <1>7
<1>9. ASSUME NEW j \in 1 .. Len(t)
      PROVE  t[j] = h[1] \/ t[j] = h[2] \/ \E k \in 2 .. Len(s) : t[j] = s[k]
  <2>1. CASE j <= 2
    <3>1. t[j] = h[j] /\ (j = 1 \/ j = 2)
      BY <1>3, <1>4, <1>6, <1>7, <1>8, <1>2, <2>1
    <3> QED BY <3>1
  <2>2. CASE j > 2
    <3>1. t[j] = r[j - 2] /\ j - 2 \in 1 .. Len(r)
      BY <1>3, <1>4, <1>6, <1>7, <1>8, <1>2, <2>2
    <3>2. r[j - 2] = s[(j - 2) + 1] /\ (j - 2) + 1 \in 2 .. Len(s)
      BY <1>2, <1>3, <3>1
    <3> QED BY <3>1, <3>2
  <2> QED BY <2>1, <2>2
<1> QED BY <1>1, <1>7, <1>8, <1>9

\* A split is paid for by the dead id it looks for, which is left in a batch of less depth.
LEMMA SplitKeepsCost ==
  ASSUME NamesInv, NamesInv', CostInv, Split
  PROVE  CostInv'
<1> DEFINE b == stack[1]
           lo == stack[1][1]
           hi == stack[1][2]
           mid == (hi - lo + 1) \div 2
           n == hi - lo + 1
<1>1. /\ stack # <<>> /\ calls' = calls + 1 /\ lo < hi /\ MayRefuse(stack[1])
      /\ stack' = Halves(stack[1]) \o Tail(stack)
      /\ missing' = missing /\ live' = live /\ next' = next
  BY TopBatch DEF Split
<1>2. /\ Len(missing) \in Nat /\ stack \in Seq(Pairs(Len(missing)))
      /\ lo \in 1 .. Len(missing) /\ hi \in 1 .. Len(missing)
      /\ Chain(stack, next) /\ Len(stack) \in Nat \ {0}
      /\ next \in 1 .. Len(missing) + 1
  BY <1>1, TopBatch
<1>3. /\ Len(stack') = Len(stack) + 1
      /\ \A j \in 1 .. Len(stack') : \/ stack'[j] = Halves(stack[1])[1]
                                     \/ stack'[j] = Halves(stack[1])[2]
                                     \/ \E k \in 2 .. Len(stack) : stack'[j] = stack[k]
  BY <1>1, <1>2, SplitBatches
<1>4. Halves(stack[1])[1] = <<lo, lo + mid - 1>> /\ Halves(stack[1])[2] = <<lo + mid, hi>>
  BY DEF Halves
<1>5. /\ n \in Nat /\ n > 1 /\ mid \in 1 .. n - 1 /\ mid <= Halved(n) /\ n - mid = Halved(n)
      /\ n <= BulkMax
  <2>1. n <= BulkMax
    BY <1>2 DEF CostInv, SizeInv, Size
  <2> HIDE DEF lo, hi
  <2> QED BY <1>1, <1>2, <2>1 DEF Halved
<1>6. /\ Size(<<lo, lo + mid - 1>>) = mid /\ Size(<<lo + mid, hi>>) = n - mid
  <2> HIDE DEF lo, hi, mid
  <2> QED BY <1>2, <1>5 DEF Size
<1>7. /\ Depth[n] = 1 + Depth[Halved(n)] /\ Depth[Halved(n)] \in Nat
      /\ Depth[mid] <= Depth[Halved(n)] /\ Depth[mid] \in Nat
      /\ Depth[n] <= Depth[BulkMax] /\ Depth[BulkMax] \in Nat
  <2> HIDE DEF n, mid
  <2>1. Depth[n] = 1 + Depth[Halved(n)]
    BY <1>5, DepthUnfolds
  <2>2. Halved(n) \in Nat
    BY <1>5, HalvedIsLess
  <2>3. n \in 0 .. BulkMax /\ mid \in 0 .. Halved(n)
    BY <1>5, <2>2, BulkMaxAssumption
  <2> QED BY <1>5, <2>1, <2>2, <2>3, DepthGrows, BulkMaxAssumption
<1> HIDE DEF n, mid
<1>8. SizeInv'
  <2> SUFFICES ASSUME NEW j \in 1 .. Len(stack') PROVE Size(stack'[j]) <= BulkMax
    BY DEF SizeInv, Size
  <2>1. CASE stack'[j] = <<lo, lo + mid - 1>>
    BY <2>1, <1>5, <1>6, BulkMaxAssumption
  <2>2. CASE stack'[j] = <<lo + mid, hi>>
    BY <2>2, <1>5, <1>6, BulkMaxAssumption
  <2>3. CASE \E k \in 2 .. Len(stack) : stack'[j] = stack[k]
    BY <2>3 DEF CostInv, SizeInv
  <2> QED BY <1>3, <1>4, <2>1, <2>2, <2>3
<1>9. Room' = Room /\ ChunksLeft(next)' = ChunksLeft(next) /\ ChunksLeft(1)' = ChunksLeft(1)
  BY <1>1 DEF Room, Dead, ChunksLeft
<1>10. ASSUME ~Flaky PROVE PaidInv'
  <2>1. PICK k \in lo .. hi : missing[k] \notin live
    BY <1>1, <1>10 DEF MayRefuse, Batch
  <2> DEFINE u == <<k, Depth[n]>>
  <2>2. k \in Dead
    BY <1>2, <2>1 DEF Dead
  <2>3. u \in Owed
    <3>1. u \in Room
      BY <1>7, <2>2 DEF Room
    <3>2. u[2] <= Depth[Size(stack[1])]
      BY <1>7 DEF Size, n
    <3> HIDE DEF u
    <3>3. u[1] \in stack[1][1] .. stack[1][2]
      BY <2>1 DEF u
    <3> QED BY <1>2, <3>1, <3>2, <3>3 DEF Owed
  <2>4. Owed' \in SUBSET (Owed \ {u})
    <3> SUFFICES ASSUME NEW v \in Room, v \in Owed' PROVE v \in Owed /\ v # u
      BY <1>9 DEF Owed
    <3>1. v[1] \in 1 .. Len(missing) /\ v[2] \in 1 .. Depth[BulkMax]
      BY DEF Room, Dead
    <3>2. hi < next
      BY <1>2 DEF Chain
    <3>3. CASE v[1] >= next
      <4>1. v[1] # k
        BY <1>2, <2>1, <3>1, <3>2, <3>3
      <4> QED BY <3>3, <4>1 DEF Owed
    <3>4. CASE v[1] \in lo .. hi /\ v[2] <= Depth[Halved(n)]
      <4>1. v[2] # Depth[n] /\ v[2] <= Depth[Size(stack[1])]
        BY <1>7, <3>1, <3>4 DEF Size, n
      <4> QED BY <1>2, <3>4, <4>1 DEF Owed
    <3>5. ASSUME NEW i \in 2 .. Len(stack),
                 v[1] \in stack[i][1] .. stack[i][2], v[2] <= Depth[Size(stack[i])]
          PROVE  v \in Owed /\ v # u
      <4>1. stack[i][1] \in Nat /\ i \in 1 .. Len(stack)
        <5>1. i \in 1 .. Len(stack)
          BY <1>2
        <5>2. stack[i] \in Pairs(Len(missing))
          BY <1>2, <5>1, ElementOfSeq
        <5> QED BY <5>1, <5>2 DEF Pairs
      <4>2. hi + (i - 1) <= stack[i][1]
        <5>1. 1 \in 1 .. Len(stack) /\ 1 < i
          BY <1>2
        <5> QED BY <1>2, <4>1, <5>1 DEF Chain
      <4>3. v[1] # k
        BY <1>2, <2>1, <3>1, <3>5, <4>1, <4>2
      <4> QED BY <3>5, <4>1, <4>3 DEF Owed
    <3>6. CASE \E j \in 1 .. Len(stack') :
                 v[1] \in stack'[j][1] .. stack'[j][2] /\ v[2] <= Depth[Size(stack'[j])]
      <4>1. PICK j \in 1 .. Len(stack') :
                   v[1] \in stack'[j][1] .. stack'[j][2] /\ v[2] <= Depth[Size(stack'[j])]
        BY <3>6
      <4>2. CASE stack'[j] = <<lo, lo + mid - 1>>
        <5>1. v[1] \in lo .. lo + mid - 1 /\ v[2] <= Depth[mid]
          BY <1>6, <4>1, <4>2
        <5>2. v[1] \in lo .. hi
          <6> HIDE DEF lo, hi
          <6> QED BY <1>2, <1>5, <3>1, <5>1 DEF n
        <5>3. v[2] <= Depth[Halved(n)]
          BY <1>7, <3>1, <5>1
        <5> QED BY <3>4, <5>2, <5>3
      <4>3. CASE stack'[j] = <<lo + mid, hi>>
        <5>1. v[1] \in lo + mid .. hi /\ v[2] <= Depth[Halved(n)]
          BY <1>5, <1>6, <4>1, <4>3
        <5>2. v[1] \in lo .. hi
          <6> HIDE DEF lo, hi
          <6> QED BY <1>2, <1>5, <3>1, <5>1
        <5> QED BY <3>4, <5>1, <5>2
      <4>4. CASE \E i \in 2 .. Len(stack) : stack'[j] = stack[i]
        BY <3>5, <4>1, <4>4
      <4> QED BY <1>3, <1>4, <4>2, <4>3, <4>4
    <3> QED BY <1>1, <3>3, <3>6 DEF Owed
  <2> HIDE DEF u
  <2>5. Cardinality(Owed') \in Nat /\ Cardinality(Owed') <= Cardinality(Owed) - 1
    <3>1. IsFiniteSet(Owed)
      BY CostTypes
    <3>2. IsFiniteSet(Owed \ {u}) /\ Cardinality(Owed \ {u}) = Cardinality(Owed) - 1
      BY <2>3, <3>1, FS_RemoveElement
    <3> QED BY <2>4, <3>2, FS_Subset, FS_CardinalityType
  <2>6. /\ Len(stack) \in Nat /\ calls \in Nat /\ Cardinality(Owed) \in Nat
        /\ ChunksLeft(next) \in Nat /\ ChunksLeft(1) \in Nat /\ Cardinality(Room) \in Nat
    BY CostTypes
  <2>7. PaidInv
    BY <1>10 DEF CostInv
  <2> DEFINE limit == ChunksLeft(1) + 2 * Cardinality(Room)
             len == Len(stack')
  <2>8. limit \in Nat
    BY <2>6
  <2>9. calls + Len(stack) + ChunksLeft(next) + 2 * Cardinality(Owed) <= limit
    BY <2>7 DEF PaidInv
  <2>10. PaidInv' <=> calls' + len + ChunksLeft(next) + 2 * Cardinality(Owed') <= limit
    BY <1>9, Zenon DEF PaidInv
  <2>11. len = Len(stack) + 1 /\ calls' = calls + 1
    BY <1>1, <1>3
  <2>12. len \in Nat /\ calls' \in Nat
    BY <2>6, <2>11
  <2>13. /\ calls' + len + ChunksLeft(next) <= calls + Len(stack) + ChunksLeft(next) + 2
         /\ Cardinality(Owed') + 1 <= Cardinality(Owed)
    <3>1. \A c, l, m \in Nat : (c + 1) + (l + 1) + m <= c + l + m + 2
      OBVIOUS
    <3>2. \A o, o2 \in Nat : o2 <= o - 1 => o2 + 1 <= o
      OBVIOUS
    <3> QED BY <2>5, <2>6, <2>11, <3>1, <3>2, Zenon
  <2> HIDE DEF limit, len
  <2>14. Cardinality(Owed') \in Nat /\ Cardinality(Owed') + 1 <= Cardinality(Owed)
    BY <2>5, <2>13
  <2>15. calls' + len + ChunksLeft(next) <= calls + Len(stack) + ChunksLeft(next) + 2
    BY <2>13
  <2>16. calls' + len + ChunksLeft(next) + 2 * Cardinality(Owed') <= limit
    <3>1. /\ calls + Len(stack) + ChunksLeft(next) \in Nat
          /\ calls' + len + ChunksLeft(next) \in Nat
      BY <2>6, <2>12
    <3> QED BY <2>6, <2>8, <2>9, <2>14, <2>15, <3>1, SpentIsOwed, Zenon
  <2> QED BY <2>10, <2>16
<1> QED BY <1>8, <1>10 DEF CostInv

\* The account starts even.
LEMMA InitCost == Init => CostInv
<1> SUFFICES ASSUME Init PROVE CostInv
  OBVIOUS
<1>1. NamesInv
  BY InitNamesInv
<1>2. Len(stack) = 0 /\ calls = 0 /\ next = 1
  BY EmptySeq DEF Init
<1> QED BY <1>1, <1>2, CostTypes DEF CostInv, SizeInv, PaidInv

\* Every step keeps the account.
LEMMA CostStep ==
  ASSUME NamesInv, CostInv, [Next]_vars
  PROVE  CostInv'
<1>1. NamesInv'
  BY NamesInvStep
<1>2. CASE Begin
  <2>1. stack' = <<>> /\ calls' = 0 /\ next' = 1
    BY <1>2 DEF Begin
  <2>2. Len(stack') = 0
    BY <2>1
  <2>3. (/\ Cardinality(Owed) \in Nat /\ Cardinality(Room) \in Nat
         /\ Cardinality(Owed) <= Cardinality(Room) /\ ChunksLeft(1) \in Nat)'
    BY <1>1, RoomEnough, PTL
  <2>4. SizeInv'
    BY <2>2 DEF SizeInv
  <2>5. ChunksLeft(next)' = ChunksLeft(1)'
    BY <2>1 DEF ChunksLeft
  <2> QED BY <2>1, <2>2, <2>3, <2>4, <2>5 DEF CostInv, PaidInv
<1>3. CASE NextChunk
  BY <1>1, <1>3, NextChunkKeepsCost
<1>4. CASE Split
  BY <1>1, <1>4, SplitKeepsCost
<1>5. CASE Named \/ RefuseOne
  <2>1. stack # <<>> /\ stack' = Tail(stack) /\ calls' = calls + 1 /\ UNCHANGED <<live, missing, next>>
    BY <1>5 DEF Named, RefuseOne
  <2>2. /\ Len(stack') = Len(stack) - 1
        /\ \A k \in 1 .. Len(stack') : stack'[k] = stack[k + 1]
        /\ Len(stack) \in Nat \ {0} /\ calls \in Nat
    <3>1. stack \in Seq(Pairs(Len(missing))) /\ Len(stack) \in Nat \ {0}
      BY <2>1, TopBatch
    <3>2. calls \in Nat
      BY CostTypes
    <3> QED BY <2>1, <3>1, <3>2, HeadTailProperties
  <2>3. ASSUME NEW j \in 1 .. Len(stack') PROVE \E k \in 1 .. Len(stack) : stack'[j] = stack[k]
    BY <2>2, j + 1 \in 1 .. Len(stack)
  <2>4. calls' + Len(stack') <= calls + Len(stack)
    BY <2>1, <2>2
  <2> QED BY <1>1, <2>1, <2>3, <2>4, FewerBatchesKeepCost
<1>6. CASE Raise
  <2>1. stack # <<>> /\ stack' = <<>> /\ calls' = calls + 1 /\ UNCHANGED <<live, missing, next>>
    BY <1>6 DEF Raise
  <2>2. Len(stack') = 0 /\ Len(stack) \in Nat \ {0} /\ calls \in Nat
    BY <2>1, TopBatch, CostTypes
  <2>3. calls' + Len(stack') <= calls + Len(stack)
    BY <2>1, <2>2
  <2> QED BY <1>1, <2>1, <2>2, <2>3, FewerBatchesKeepCost
<1>7. CASE Finish \/ (\E i \in Ids : Expire(i) \/ OtherFills(i)) \/ UNCHANGED vars
  <2>1. UNCHANGED <<live, missing, next, stack, calls>>
    BY <1>7 DEF Finish, Expire, OtherFills, vars
  <2>2. Len(stack) \in Nat /\ calls \in Nat
    BY CostTypes
  <2>3. calls' + Len(stack') <= calls + Len(stack)
    BY <2>1, <2>2
  <2>4. \A j \in 1 .. Len(stack') : \E k \in 1 .. Len(stack) : stack'[j] = stack[k]
    BY <2>1
  <2> QED BY <1>1, <2>1, <2>3, <2>4, FewerBatchesKeepCost
<1> QED BY <1>2, <1>3, <1>4, <1>5, <1>6, <1>7 DEF Next, Advance

\* A dead id costs two requests for each time its chunk can be halved, and no more: however
\* many are dead, a call pays for its chunks and for them.
THEOREM DeadIdsCostHalvings == Spec => []DeadIdCost
<1>1. NamesInv /\ CostInv => DeadIdCost
  <2> SUFFICES ASSUME NamesInv, CostInv, ~Flaky
               PROVE  calls <= ChunksLeft(1) + 2 * Cardinality(Dead) * Depth[BulkMax]
    BY CostTypes DEF DeadIdCost, Dead, ChunksLeft
  <2>1. PaidInv
    BY DEF CostInv
  <2>2. /\ calls \in Nat /\ Len(stack) \in Nat /\ ChunksLeft(next) \in Nat
        /\ Cardinality(Owed) \in Nat /\ ChunksLeft(1) \in Nat
        /\ Cardinality(Dead) \in Nat /\ Depth[BulkMax] \in Nat
        /\ Cardinality(Room) = Cardinality(Dead) * Depth[BulkMax]
    BY CostTypes
  <2> DEFINE room == Cardinality(Dead) * Depth[BulkMax]
  <2>3. room \in Nat /\ 2 * room = 2 * Cardinality(Dead) * Depth[BulkMax]
    BY <2>2
  <2>4. calls + Len(stack) + ChunksLeft(next) + 2 * Cardinality(Owed) <= ChunksLeft(1) + 2 * room
    BY <2>1, <2>2 DEF PaidInv
  <2> HIDE DEF room
  <2>5. \A c, l, n, o, limit \in Nat : c + l + n + 2 * o <= limit => c <= limit
    OBVIOUS
  <2>6. ChunksLeft(1) + 2 * room \in Nat
    BY <2>2, <2>3
  <2>7. calls <= ChunksLeft(1) + 2 * room
    BY <2>2, <2>4, <2>5, <2>6, Zenon
  <2> QED BY <2>3, <2>7
<1>2. NamesInv /\ CostInv /\ [Next]_vars => CostInv'
  BY CostStep
<1> QED
  BY <1>1, <1>2, InitCost, NamesInvariant, PTL DEF Spec
=============================================================================
