----------------------------- MODULE RingProofs -----------------------------
(***************************************************************************)
(* Facts about OutputRing: the ring holds the newest output, a read goes   *)
(* on where the last one ended or at the oldest byte, and what a reader    *)
(* shows of such reads is in order, whatever the sizes of the ring, of its *)
(* chunks and of the slices.                                               *)
(***************************************************************************)
EXTENDS OutputRing, SequenceTheorems, FiniteSetTheorems, WellFoundedInduction, TLAPS

-----------------------------------------------------------------------------
(* Folds.                                                                  *)

\* Induction over 0..n, on the set of the numbers for which a fact holds.
LEMMA RangeInduction ==
  ASSUME NEW n \in Nat, NEW T, 0 \in T, \A i \in 1..n : i - 1 \in T => i \in T
  PROVE  \A i \in 0..n : i \in T
<1> SUFFICES ASSUME NEW b \in 0..n, b \notin T PROVE FALSE
  OBVIOUS
<1> DEFINE B == {i \in 0..n : i \notin T}
           C == {0..i : i \in B}
           R == StrictSubsetOrdering(Nat)
<1>1. C \subseteq FiniteSubsetsOf(Nat) /\ C # {}
  <2>1. ASSUME NEW i \in B PROVE 0..i \in SUBSET Nat /\ IsFiniteSet(0..i)
    BY FS_Interval
  <2> QED BY <2>1 DEF FiniteSubsetsOf
<1>2. IsWellFoundedOn(R, FiniteSubsetsOf(Nat))
  BY FS_StrictSubsetOrderingWellFounded
<1> HIDE DEF R
<1>3. \E x \in C : \A y \in C : ~(<<y, x>> \in R)
  <2> HIDE DEF C
  <2> QED BY <1>1, <1>2, WFMin
<1>4. PICK m \in B : \A i \in B : <<0..i, 0..m>> \notin R
  BY <1>3
<1>5. m # 0 /\ m \in 1..n /\ m - 1 \in 0..n
  BY <1>4
<1>6. m - 1 \in B
  BY <1>5
<1>7. 0..(m - 1) \in SUBSET Nat /\ 0..m \in SUBSET Nat /\ 0..(m - 1) \subseteq 0..m
      /\ m \in 0..m /\ m \notin 0..(m - 1)
  BY <1>5
<1>8. <<0..(m - 1), 0..m>> \in R
  BY <1>7 DEF R, StrictSubsetOrdering
<1> QED BY <1>4, <1>6, <1>8

\* What FoldLeft defines by recursion exists: f is the operator of a fold over a
\* sequence of length n, as a function of the value so far and of the place.
Operator(f, V, n) == f \in [V \X (1..n) -> V]

Folds(g, f, V, n, base) ==
  /\ g \in [SUBSET (1..n) -> V]
  /\ \A s \in SUBSET (1..n) :
       g[s] = IF s = {} THEN base ELSE f[<<g[s \ {Max(s)}], Max(s)>>]

LEMMA FoldExists ==
  ASSUME NEW n \in Nat, NEW V, NEW base \in V, NEW f, Operator(f, V, n)
  PROVE  \E g : Folds(g, f, V, n, base)
<1> DEFINE Solves(g, k) == \A s \in SUBSET (1..k) :
             g[s] = IF s = {} THEN base ELSE f[<<g[s \ {Max(s)}], Max(s)>>]
           T == {k \in 0..n : \E g \in [SUBSET (1..k) -> V] : Solves(g, k)}
<1>1. 0 \in T
  <2> DEFINE g == [s \in SUBSET (1..0) |-> base]
  <2>1. g \in [SUBSET (1..0) -> V]
    OBVIOUS
  <2>2. Solves(g, 0)
    OBVIOUS
  <2>3. 0 \in 0..n
    OBVIOUS
  <2> HIDE DEF g, Solves
  <2> QED BY <2>1, <2>2, <2>3
<1>2. ASSUME NEW k \in 1..n, k - 1 \in T PROVE k \in T
  <2>1. PICK g \in [SUBSET (1..(k - 1)) -> V] : Solves(g, k - 1)
    BY <1>2
  <2> DEFINE h == [s \in SUBSET (1..k) |->
                     IF k \in s THEN f[<<g[s \ {k}], k>>] ELSE g[s]]
  <2>2. \A s \in SUBSET (1..k) : s \ {k} \in SUBSET (1..(k - 1))
                               /\ (k \notin s => s \in SUBSET (1..(k - 1)))
    OBVIOUS
  <2>3. h \in [SUBSET (1..k) -> V]
    <3>1. ASSUME NEW s \in SUBSET (1..k), k \in s PROVE f[<<g[s \ {k}], k>>] \in V
      BY <2>2 DEF Operator
    <3> QED BY <2>2, <3>1
  <2>4. ASSUME NEW s \in SUBSET (1..k)
        PROVE  h[s] = IF s = {} THEN base ELSE f[<<h[s \ {Max(s)}], Max(s)>>]
    <3>1. CASE k \in s
      <4>1. Max(s) = k
        <5>1. k \in s /\ \A y \in s : k >= y /\ (y >= k => y = k)
          BY <3>1
        <5> QED BY <5>1 DEF Max
      <4>2. h[s \ {k}] = g[s \ {k}] /\ h[s] = f[<<g[s \ {k}], k>>]
        BY <2>2, <3>1
      <4> QED BY <3>1, <4>1, <4>2
    <3>2. CASE k \notin s
      <4>1. h[s] = g[s] /\ s \in SUBSET (1..(k - 1))
        BY <2>2, <3>2
      <4>2. s \ {Max(s)} \in SUBSET (1..k) /\ k \notin s \ {Max(s)}
        BY <3>2
      <4>3. h[s \ {Max(s)}] = g[s \ {Max(s)}]
        BY <4>2
      <4> QED BY <2>1, <4>1, <4>3
    <3> QED BY <3>1, <3>2
  <2>5. Solves(h, k)
    BY <2>4
  <2> HIDE DEF h, Solves
  <2> QED BY <2>3, <2>5
<1> HIDE DEF T
<1>3. n \in T
  BY <1>1, <1>2, RangeInduction
<1> QED BY <1>3 DEF T, Folds

LEMMA MaxOfRange ==
  ASSUME NEW n \in Nat, NEW s \in SUBSET (1..n), s # {}
  PROVE  Max(s) \in s
<1> DEFINE HasMax(k) == \A t \in SUBSET (1..k) :
             t # {} => \E x \in t : \A y \in t : x >= y
           T == {k \in 0..n : HasMax(k)}
<1>1. 0 \in T
  <2>1. 1..0 = {} /\ 0 \in 0..n
    OBVIOUS
  <2> QED BY <2>1
<1>2. ASSUME NEW k \in 1..n, k - 1 \in T PROVE k \in T
  <2>1. HasMax(k - 1)
    BY <1>2
  <2> SUFFICES ASSUME NEW t \in SUBSET (1..k), t # {}
               PROVE  \E x \in t : \A y \in t : x >= y
    OBVIOUS
  <2>2. CASE k \in t
    BY <2>2
  <2>3. CASE k \notin t
    <3>1. t \in SUBSET (1..(k - 1))
      BY <2>3
    <3> QED BY <2>1, <3>1
  <2> QED BY <2>2, <2>3
<1> HIDE DEF T
<1>3. n \in T
  BY <1>1, <1>2, RangeInduction
<1>4. \E x \in s : \A y \in s : x >= y
  BY <1>3 DEF T
<1> QED BY <1>4 DEF Max

\* The sets of places at which FoldLeft looks.
LEMMA Places ==
  ASSUME NEW n \in Nat
  PROVE  /\ \A s \in SUBSET (1..n) :
              s # {} => Max(s) \in 1..n /\ s \ {Max(s)} \in SUBSET (1..n)
         /\ 1..0 = {} /\ 1..0 \in SUBSET (1..n)
         /\ \A i \in 1..n : /\ 1..i \in SUBSET (1..n) /\ 1..i # {}
                            /\ Max(1..i) = i /\ (1..i) \ {i} = 1..(i - 1)
<1>1. \A s \in SUBSET (1..n) : s # {} => Max(s) \in s
  BY MaxOfRange
<1>2. ASSUME NEW i \in 1..n
      PROVE  /\ 1..i \in SUBSET (1..n) /\ 1..i # {}
             /\ Max(1..i) = i /\ (1..i) \ {i} = 1..(i - 1)
  <2>1. i \in 1..i /\ \A y \in 1..i : i >= y /\ (y >= i => y = i)
    OBVIOUS
  <2>2. Max(1..i) = i
    BY <2>1 DEF Max
  <2>3. \A y : y \in (1..i) \ {i} <=> y \in 1..(i - 1)
    OBVIOUS
  <2> QED BY <2>2, <2>3
<1>3. 1..0 = {}
  OBVIOUS
<1> QED BY <1>1, <1>2, <1>3

-----------------------------------------------------------------------------
(* The folds over the chunks of a ring.                                    *)

Chunk == [cursor : Int, data : Seq(Int), start : Nat, size : Int]

LEMMA HeldType ==
  ASSUME NEW chunk \in Chunk
  PROVE  Held(chunk) \in Int /\ Len(chunk.data) \in Nat
BY LenProperties DEF Chunk, Held

\* A part of a chunk's data.
LEMMA PartType ==
  ASSUME NEW chunk \in Chunk, NEW a \in Nat \ {0}, NEW b \in Int, b <= Len(chunk.data)
  PROVE  /\ SubSeq(chunk.data, a, b) \in Seq(Int)
         /\ Len(SubSeq(chunk.data, a, b)) = IF a <= b THEN b - a + 1 ELSE 0
         /\ \A i \in 1..(b - a + 1) : SubSeq(chunk.data, a, b)[i] = chunk.data[a + i - 1]
<1>1. chunk.data \in Seq(Int) /\ Len(chunk.data) \in Nat
  BY LenProperties DEF Chunk
<1>2. \A i \in a..b : chunk.data[i] \in Int
  BY <1>1
<1> QED BY <1>2, SubSeqProperties

Rest(chunk) == SubSeq(chunk.data, chunk.start + 1, Len(chunk.data))

LEMMA RestType ==
  ASSUME NEW chunk \in Chunk PROVE Rest(chunk) \in Seq(Int)
<1>1. chunk.start + 1 \in Nat \ {0} /\ Len(chunk.data) \in Int /\ Len(chunk.data) <= Len(chunk.data)
  BY HeldType DEF Chunk
<1> QED BY <1>1, PartType DEF Rest

LEMMA TakenType ==
  ASSUME NEW chunk \in Chunk, NEW from \in Int, NEW to \in Int
  PROVE  Taken(chunk, from, to) \in Seq(Int)
<1> DEFINE a == chunk.start + Larger(0, from - chunk.cursor) + 1
           b == chunk.start + Smaller(Held(chunk), to - chunk.cursor)
<1>1. chunk.start \in Nat /\ chunk.cursor \in Int /\ Len(chunk.data) \in Nat
  BY HeldType DEF Chunk
<1>2. /\ Larger(0, from - chunk.cursor) \in Nat
      /\ Smaller(Held(chunk), to - chunk.cursor) \in Int
      /\ Smaller(Held(chunk), to - chunk.cursor) <= Len(chunk.data) - chunk.start
  BY SMTT(60), <1>1 DEF Larger, Smaller, Held
<1>3. a \in Nat \ {0} /\ b \in Int /\ b <= Len(chunk.data)
  BY SMTT(60), <1>1, <1>2
<1> QED BY <1>3, PartType DEF Taken

\* What the chunks hold together.
LEMMA HeldByFold ==
  ASSUME NEW chunks \in Seq(Chunk)
  PROVE  \E h : /\ h[0] = 0 /\ HeldBy(chunks) = h[Len(chunks)]
                /\ \A i \in 0..Len(chunks) : h[i] \in Int
                /\ \A i \in 1..Len(chunks) : h[i] = h[i - 1] + Held(chunks[i])
<1> DEFINE n == Len(chunks)
           base == 0
           f == [x \in Int \X (1..n) |-> x[1] + Held(chunks[x[2]])]
           iter == CHOOSE iter : iter =
             [s \in SUBSET (1..n) |->
                IF s = {} THEN 0 ELSE iter[s \ {Max(s)}] + Held(chunks[Max(s)])]
<1>1. n \in Nat /\ DOMAIN chunks = 1..n /\ \A i \in 1..n : chunks[i] \in Chunk
  BY LenProperties
<1>2. ASSUME NEW v \in Int, NEW i \in 1..n PROVE v + Held(chunks[i]) \in Int
  BY <1>1, <1>2, HeldType
<1>3. Operator(f, Int, n) /\ base \in Int
  <2>1. base \in Int
    BY EmptySeq
  <2> QED BY <1>2, <2>1 DEF Operator
<1>4. PICK g : Folds(g, f, Int, n, base)
  <2> HIDE DEF f, n, base
  <2> QED BY <1>1, <1>3, FoldExists
<1>5. g = [s \in SUBSET (1..n) |->
             IF s = {} THEN 0 ELSE g[s \ {Max(s)}] + Held(chunks[Max(s)])]
  BY <1>1, <1>4, Places DEF Folds
<1>6. iter = [s \in SUBSET (1..n) |->
                IF s = {} THEN 0 ELSE iter[s \ {Max(s)}] + Held(chunks[Max(s)])]
  BY <1>5
<1>7. HeldBy(chunks) = iter[1..n]
  BY <1>1 DEF HeldBy, FoldLeft, MapThenFoldSet
<1> HIDE DEF iter
<1>8. iter[1..0] = base
  BY <1>1, <1>6, Places
<1>9. ASSUME NEW i \in 1..n PROVE iter[1..i] = iter[1..(i - 1)] + Held(chunks[i])
  <2>1. 1..i \in SUBSET (1..n) /\ 1..i # {} /\ Max(1..i) = i /\ (1..i) \ {i} = 1..(i - 1)
    BY <1>1, Places
  <2> HIDE DEF n
  <2> QED BY <1>6, <2>1
<1>10. \A i \in 0..n : iter[1..i] \in Int
  <2> DEFINE T == {i \in 0..n : iter[1..i] \in Int}
  <2>1. 0 \in T
    <3>1. 0 \in 0..n
      BY <1>1
    <3> HIDE DEF base, n
    <3> QED BY <1>3, <1>8, <3>1
  <2>2. ASSUME NEW i \in 1..n, i - 1 \in T PROVE i \in T
    <3>1. i \in 0..n /\ iter[1..(i - 1)] \in Int
      BY <1>1, <2>2
    <3> HIDE DEF n
    <3> QED BY <1>2, <1>9, <3>1
  <2> HIDE DEF T, n
  <2>3. \A i \in 0..n : i \in T
    BY <1>1, <2>1, <2>2, RangeInduction
  <2> QED BY <2>3 DEF T
<1> DEFINE h == [i \in 0..n |-> iter[1..i]]
<1>11. \A i \in 0..n : h[i] = iter[1..i]
  OBVIOUS
<1>12. 0 \in 0..n /\ n \in 0..n /\ \A i \in 1..n : i \in 0..n /\ i - 1 \in 0..n
  BY <1>1
<1> HIDE DEF n, h
<1> WITNESS h
<1> QED BY <1>7, <1>8, <1>9, <1>10, <1>11, <1>12 DEF n

\* What the chunks hold, one after the other.
LEMMA ContentsFold ==
  ASSUME NEW chunks \in Seq(Chunk)
  PROVE  \E h : /\ h[0] = <<>> /\ FoldLeft(LAMBDA bytes, chunk :
                  bytes \o SubSeq(chunk.data, chunk.start + 1, Len(chunk.data)), <<>>, chunks) = h[Len(chunks)]
                /\ \A i \in 0..Len(chunks) : h[i] \in Seq(Int)
                /\ \A i \in 1..Len(chunks) : h[i] = h[i - 1] \o Rest(chunks[i])
<1> DEFINE n == Len(chunks)
           base == <<>>
           f == [x \in Seq(Int) \X (1..n) |-> x[1] \o Rest(chunks[x[2]])]
           iter == CHOOSE iter : iter =
             [s \in SUBSET (1..n) |->
                IF s = {} THEN <<>> ELSE iter[s \ {Max(s)}] \o Rest(chunks[Max(s)])]
<1>1. n \in Nat /\ DOMAIN chunks = 1..n /\ \A i \in 1..n : chunks[i] \in Chunk
  BY LenProperties
<1>2. ASSUME NEW v \in Seq(Int), NEW i \in 1..n PROVE v \o Rest(chunks[i]) \in Seq(Int)
  BY <1>1, <1>2, RestType, ConcatProperties
<1>3. Operator(f, Seq(Int), n) /\ base \in Seq(Int)
  <2>1. base \in Seq(Int)
    BY EmptySeq
  <2> QED BY <1>2, <2>1 DEF Operator
<1>4. PICK g : Folds(g, f, Seq(Int), n, base)
  <2> HIDE DEF f, n, base
  <2> QED BY <1>1, <1>3, FoldExists
<1>5. g = [s \in SUBSET (1..n) |->
             IF s = {} THEN <<>> ELSE g[s \ {Max(s)}] \o Rest(chunks[Max(s)])]
  BY Zenon, <1>1, <1>4, Places DEF Folds
<1>6. iter = [s \in SUBSET (1..n) |->
                IF s = {} THEN <<>> ELSE iter[s \ {Max(s)}] \o Rest(chunks[Max(s)])]
  BY Zenon, <1>5
<1>7. FoldLeft(LAMBDA bytes, chunk :
                  bytes \o SubSeq(chunk.data, chunk.start + 1, Len(chunk.data)), <<>>, chunks) = iter[1..n]
  BY <1>1 DEF Rest, FoldLeft, MapThenFoldSet
<1> HIDE DEF iter
<1>8. iter[1..0] = base
  BY <1>1, <1>6, Places
<1>9. ASSUME NEW i \in 1..n PROVE iter[1..i] = iter[1..(i - 1)] \o Rest(chunks[i])
  <2>1. 1..i \in SUBSET (1..n) /\ 1..i # {} /\ Max(1..i) = i /\ (1..i) \ {i} = 1..(i - 1)
    BY <1>1, Places
  <2> HIDE DEF n
  <2> QED BY <1>6, <2>1
<1>10. \A i \in 0..n : iter[1..i] \in Seq(Int)
  <2> DEFINE T == {i \in 0..n : iter[1..i] \in Seq(Int)}
  <2>1. 0 \in T
    <3>1. 0 \in 0..n
      BY <1>1
    <3> HIDE DEF base, n
    <3> QED BY <1>3, <1>8, <3>1
  <2>2. ASSUME NEW i \in 1..n, i - 1 \in T PROVE i \in T
    <3>1. i \in 0..n /\ iter[1..(i - 1)] \in Seq(Int)
      BY <1>1, <2>2
    <3> HIDE DEF n
    <3> QED BY <1>2, <1>9, <3>1
  <2> HIDE DEF T, n
  <2>3. \A i \in 0..n : i \in T
    BY <1>1, <2>1, <2>2, RangeInduction
  <2> QED BY <2>3 DEF T
<1> DEFINE h == [i \in 0..n |-> iter[1..i]]
<1>11. \A i \in 0..n : h[i] = iter[1..i]
  OBVIOUS
<1>12. 0 \in 0..n /\ n \in 0..n /\ \A i \in 1..n : i \in 0..n /\ i - 1 \in 0..n
  BY <1>1
<1> HIDE DEF n, h
<1> WITNESS h
<1> QED BY <1>7, <1>8, <1>9, <1>10, <1>11, <1>12 DEF n

\* What a read takes from the chunks.
Read(chunks, from, to) ==
  FoldLeft(LAMBDA bytes, chunk : bytes \o Taken(chunk, from, to), <<>>, chunks)

LEMMA SliceFold ==
  ASSUME NEW chunks \in Seq(Chunk), NEW from \in Int, NEW to \in Int
  PROVE  \E h : /\ h[0] = <<>> /\ Read(chunks, from, to) = h[Len(chunks)]
                /\ \A i \in 0..Len(chunks) : h[i] \in Seq(Int)
                /\ \A i \in 1..Len(chunks) : h[i] = h[i - 1] \o Taken(chunks[i], from, to)
<1> DEFINE n == Len(chunks)
           base == <<>>
           f == [x \in Seq(Int) \X (1..n) |-> x[1] \o Taken(chunks[x[2]], from, to)]
           iter == CHOOSE iter : iter =
             [s \in SUBSET (1..n) |->
                IF s = {} THEN <<>> ELSE iter[s \ {Max(s)}] \o Taken(chunks[Max(s)], from, to)]
<1>1. n \in Nat /\ DOMAIN chunks = 1..n /\ \A i \in 1..n : chunks[i] \in Chunk
  BY LenProperties
<1>2. ASSUME NEW v \in Seq(Int), NEW i \in 1..n PROVE v \o Taken(chunks[i], from, to) \in Seq(Int)
  BY <1>1, <1>2, TakenType, ConcatProperties
<1>3. Operator(f, Seq(Int), n) /\ base \in Seq(Int)
  <2>1. base \in Seq(Int)
    BY EmptySeq
  <2> QED BY <1>2, <2>1 DEF Operator
<1>4. PICK g : Folds(g, f, Seq(Int), n, base)
  <2> HIDE DEF f, n, base
  <2> QED BY <1>1, <1>3, FoldExists
<1>5. g = [s \in SUBSET (1..n) |->
             IF s = {} THEN <<>> ELSE g[s \ {Max(s)}] \o Taken(chunks[Max(s)], from, to)]
  BY Zenon, <1>1, <1>4, Places DEF Folds
<1>6. iter = [s \in SUBSET (1..n) |->
                IF s = {} THEN <<>> ELSE iter[s \ {Max(s)}] \o Taken(chunks[Max(s)], from, to)]
  BY Zenon, <1>5
<1>7. Read(chunks, from, to) = iter[1..n]
  BY <1>1 DEF Read, FoldLeft, MapThenFoldSet
<1> HIDE DEF iter
<1>8. iter[1..0] = base
  BY <1>1, <1>6, Places
<1>9. ASSUME NEW i \in 1..n PROVE iter[1..i] = iter[1..(i - 1)] \o Taken(chunks[i], from, to)
  <2>1. 1..i \in SUBSET (1..n) /\ 1..i # {} /\ Max(1..i) = i /\ (1..i) \ {i} = 1..(i - 1)
    BY <1>1, Places
  <2> HIDE DEF n
  <2> QED BY <1>6, <2>1
<1>10. \A i \in 0..n : iter[1..i] \in Seq(Int)
  <2> DEFINE T == {i \in 0..n : iter[1..i] \in Seq(Int)}
  <2>1. 0 \in T
    <3>1. 0 \in 0..n
      BY <1>1
    <3> HIDE DEF base, n
    <3> QED BY <1>3, <1>8, <3>1
  <2>2. ASSUME NEW i \in 1..n, i - 1 \in T PROVE i \in T
    <3>1. i \in 0..n /\ iter[1..(i - 1)] \in Seq(Int)
      BY <1>1, <2>2
    <3> HIDE DEF n
    <3> QED BY <1>2, <1>9, <3>1
  <2> HIDE DEF T, n
  <2>3. \A i \in 0..n : i \in T
    BY <1>1, <2>1, <2>2, RangeInduction
  <2> QED BY <2>3 DEF T
<1> DEFINE h == [i \in 0..n |-> iter[1..i]]
<1>11. \A i \in 0..n : h[i] = iter[1..i]
  OBVIOUS
<1>12. 0 \in 0..n /\ n \in 0..n /\ \A i \in 1..n : i \in 0..n /\ i - 1 \in 0..n
  BY <1>1
<1> HIDE DEF n, h
<1> WITNESS h
<1> QED BY <1>7, <1>8, <1>9, <1>10, <1>11, <1>12 DEF n

LEMMA AppendByteType ==
  ASSUME NEW chunks \in Seq(Chunk), NEW byte \in Int
  PROVE  AppendByte(chunks, byte) \in Seq(Chunk)
<1> DEFINE new == [cursor |-> byte, data |-> <<byte>>, start |-> 0, size |-> ChunkBytes]
           k == Len(chunks)
<1>1. new \in Chunk
  BY RingAssumption DEF Chunk
<1>2. Append(chunks, new) \in Seq(Chunk)
  BY <1>1, AppendProperties
<1>3. CASE chunks # <<>>
  <2>1. k \in Nat /\ k \in 1..k /\ chunks[k] \in Chunk
    BY <1>3, LenProperties, EmptySeq
  <2>2. Append(chunks[k].data, byte) \in Seq(Int)
    BY <2>1, AppendProperties DEF Chunk
  <2>3. [chunks[k] EXCEPT !.data = Append(@, byte)] \in Chunk
    BY <2>1, <2>2 DEF Chunk
  <2>4. [chunks EXCEPT ![k].data = Append(@, byte)] \in Seq(Chunk)
    BY <2>1, <2>3, ExceptSeq
  <2> QED BY <1>2, <2>4 DEF AppendByte
<1> QED BY <1>2, <1>3 DEF AppendByte

\* The bytes are appended one by one.
LEMMA AppendFold ==
  ASSUME NEW chunks \in Seq(Chunk), NEW bytes \in Seq(Int)
  PROVE  \E h : /\ h[0] = chunks /\ FoldLeft(AppendByte, chunks, bytes) = h[Len(bytes)]
                /\ \A i \in 0..Len(bytes) : h[i] \in Seq(Chunk)
                /\ \A i \in 1..Len(bytes) : h[i] = AppendByte(h[i - 1], bytes[i])
<1> DEFINE n == Len(bytes)
           base == chunks
           f == [x \in Seq(Chunk) \X (1..n) |-> AppendByte(x[1], bytes[x[2]])]
           iter == CHOOSE iter : iter =
             [s \in SUBSET (1..n) |->
                IF s = {} THEN chunks ELSE AppendByte(iter[s \ {Max(s)}], bytes[Max(s)])]
<1>1. n \in Nat /\ DOMAIN bytes = 1..n /\ \A i \in 1..n : bytes[i] \in Int
  BY LenProperties
<1>2. ASSUME NEW v \in Seq(Chunk), NEW i \in 1..n PROVE AppendByte(v, bytes[i]) \in Seq(Chunk)
  BY <1>1, <1>2, AppendByteType
<1>3. Operator(f, Seq(Chunk), n) /\ base \in Seq(Chunk)
  <2>1. base \in Seq(Chunk)
    BY EmptySeq
  <2> QED BY <1>2, <2>1 DEF Operator
<1>4. PICK g : Folds(g, f, Seq(Chunk), n, base)
  <2> HIDE DEF f, n, base
  <2> QED BY <1>1, <1>3, FoldExists
<1>5. g = [s \in SUBSET (1..n) |->
             IF s = {} THEN chunks ELSE AppendByte(g[s \ {Max(s)}], bytes[Max(s)])]
  BY <1>1, <1>4, Places DEF Folds
<1>6. iter = [s \in SUBSET (1..n) |->
                IF s = {} THEN chunks ELSE AppendByte(iter[s \ {Max(s)}], bytes[Max(s)])]
  BY <1>5
<1>7. FoldLeft(AppendByte, chunks, bytes) = iter[1..n]
  BY <1>1 DEF FoldLeft, MapThenFoldSet
<1> HIDE DEF iter
<1>8. iter[1..0] = base
  BY <1>1, <1>6, Places
<1>9. ASSUME NEW i \in 1..n PROVE iter[1..i] = AppendByte(iter[1..(i - 1)], bytes[i])
  <2>1. 1..i \in SUBSET (1..n) /\ 1..i # {} /\ Max(1..i) = i /\ (1..i) \ {i} = 1..(i - 1)
    BY <1>1, Places
  <2> HIDE DEF n
  <2> QED BY <1>6, <2>1
<1>10. \A i \in 0..n : iter[1..i] \in Seq(Chunk)
  <2> DEFINE T == {i \in 0..n : iter[1..i] \in Seq(Chunk)}
  <2>1. 0 \in T
    <3>1. 0 \in 0..n
      BY <1>1
    <3> HIDE DEF base, n
    <3> QED BY <1>3, <1>8, <3>1
  <2>2. ASSUME NEW i \in 1..n, i - 1 \in T PROVE i \in T
    <3>1. i \in 0..n /\ iter[1..(i - 1)] \in Seq(Chunk)
      BY <1>1, <2>2
    <3> HIDE DEF n
    <3> QED BY <1>2, <1>9, <3>1
  <2> HIDE DEF T, n
  <2>3. \A i \in 0..n : i \in T
    BY <1>1, <2>1, <2>2, RangeInduction
  <2> QED BY <2>3 DEF T
<1> DEFINE h == [i \in 0..n |-> iter[1..i]]
<1>11. \A i \in 0..n : h[i] = iter[1..i]
  OBVIOUS
<1>12. 0 \in 0..n /\ n \in 0..n /\ \A i \in 1..n : i \in 0..n /\ i - 1 \in 0..n
  BY <1>1
<1> HIDE DEF n, h
<1> WITNESS h
<1> QED BY <1>7, <1>8, <1>9, <1>10, <1>11, <1>12 DEF n

-----------------------------------------------------------------------------
(* The inductive invariant: the ring.                                      *)

EndOf(chunk) == chunk.cursor + Held(chunk)

\* The bytes from a on, up to b.
Interval(a, b) == [i \in 1..(b - a) |-> a + i - 1]

\* A chunk is not empty, and holds the bytes from its cursor on.
Sound(chunk) ==
  /\ chunk \in Chunk /\ Held(chunk) > 0
  /\ \A i \in 1..Held(chunk) : chunk.data[chunk.start + i] = chunk.cursor + i - 1

\* The chunks hold the bytes from oldest on, up to next, without a gap.
Linked(chunks, oldest, next) ==
  /\ chunks \in Seq(Chunk) /\ \A i \in 1..Len(chunks) : Sound(chunks[i])
  /\ \A i \in 1..(Len(chunks) - 1) : chunks[i + 1].cursor = EndOf(chunks[i])
  /\ chunks = <<>> => oldest = next
  /\ chunks # <<>> => chunks[1].cursor = oldest /\ EndOf(chunks[Len(chunks)]) = next

\* A ring that holds the newest bytes, as many as it may.
Newest(r) ==
  /\ r.next \in Nat /\ r.oldest = Larger(0, r.next - RingBytes)
  /\ r = [chunks |-> r.chunks, oldest |-> r.oldest, next |-> r.next]
  /\ Linked(r.chunks, r.oldest, r.next)

-----------------------------------------------------------------------------
(* What the ring's operators do with chunks that are linked.               *)

LEMMA IntervalProperties ==
  ASSUME NEW a \in Int, NEW b \in Int
  PROVE  /\ Interval(a, b) \in Seq(Int)
         /\ Len(Interval(a, b)) = IF a <= b THEN b - a ELSE 0
         /\ \A i \in 1..(b - a) : Interval(a, b)[i] = a + i - 1
         /\ b <= a => Interval(a, b) = <<>>
<1> DEFINE n == IF a <= b THEN b - a ELSE 0
<1>1. n \in Nat /\ 1..n = 1..(b - a)
  OBVIOUS
<1>2. Interval(a, b) = [i \in 1..n |-> a + i - 1]
  BY <1>1 DEF Interval
<1> HIDE DEF n
<1>3. [i \in 1..n |-> a + i - 1] \in [1..n -> Int]
  BY <1>1
<1>4. Interval(a, b) \in Seq(Int) /\ Len(Interval(a, b)) = n
  BY <1>1, <1>2, <1>3
<1>5. b <= a => n = 0
  BY DEF n
<1> QED BY <1>1, <1>2, <1>4, <1>5, EmptySeq DEF n

LEMMA IntervalConcat ==
  ASSUME NEW a \in Int, NEW b \in Int, NEW c \in Int, a <= b, b <= c
  PROVE  Interval(a, b) \o Interval(b, c) = Interval(a, c)
<1> DEFINE s == Interval(a, b)
           t == Interval(b, c)
           u == Interval(a, c)
<1>1. /\ s \in Seq(Int) /\ Len(s) = b - a /\ \A i \in 1..(b - a) : s[i] = a + i - 1
      /\ t \in Seq(Int) /\ Len(t) = c - b /\ \A i \in 1..(c - b) : t[i] = b + i - 1
      /\ u \in Seq(Int) /\ Len(u) = c - a /\ \A i \in 1..(c - a) : u[i] = a + i - 1
  <2>1. a <= c
    OBVIOUS
  <2>2. s \in Seq(Int) /\ Len(s) = b - a /\ \A i \in 1..(b - a) : s[i] = a + i - 1
    BY IntervalProperties
  <2>3. t \in Seq(Int) /\ Len(t) = c - b /\ \A i \in 1..(c - b) : t[i] = b + i - 1
    BY IntervalProperties
  <2>4. u \in Seq(Int) /\ Len(u) = c - a /\ \A i \in 1..(c - a) : u[i] = a + i - 1
    BY <2>1, IntervalProperties
  <2> QED BY <2>2, <2>3, <2>4
<1> HIDE DEF s, t, u
<1>2. /\ s \o t \in Seq(Int) /\ Len(s \o t) = Len(s) + Len(t)
      /\ \A i \in 1..(Len(s) + Len(t)) :
           (s \o t)[i] = IF i <= Len(s) THEN s[i] ELSE t[i - Len(s)]
  BY <1>1, ConcatProperties
<1>3. ASSUME NEW i \in 1..(c - a) PROVE (s \o t)[i] = u[i]
  <2>1. CASE i <= b - a
    BY <1>1, <1>2, <2>1
  <2>2. CASE i > b - a
    <3>1. i - (b - a) \in 1..(c - b)
      BY <2>2
    <3>2. t[i - (b - a)] = a + i - 1
      BY <1>1, <3>1
    <3>3. i \in 1..(Len(s) + Len(t)) /\ ~(i <= Len(s)) /\ i - Len(s) = i - (b - a)
      BY <1>1, <2>2
    <3>4. (s \o t)[i] = t[i - (b - a)]
      BY <1>2, <3>3
    <3>5. u[i] = a + i - 1
      BY <1>1
    <3> QED BY <3>2, <3>4, <3>5
  <2>3. i <= b - a \/ i > b - a
    OBVIOUS
  <2> QED BY <2>1, <2>2, <2>3
<1>4. s \o t = u
  <2>1. Len(s \o t) = Len(u) /\ Len(u) = c - a
    BY <1>1, <1>2
  <2> QED BY <1>1, <1>2, <1>3, <2>1, SeqEqual
<1> QED BY <1>4 DEF s, t, u

\* What was taken up to e, and what is taken of [e, f).
LEMMA IntervalJoin ==
  ASSUME NEW from \in Int, NEW to \in Int, NEW e \in Int, NEW f \in Int, e <= f
  PROVE  Interval(from, Smaller(to, e)) \o Interval(Larger(from, e), Smaller(to, f))
           = Interval(from, Smaller(to, f))
<1> DEFINE u == Interval(from, Smaller(to, f))
<1>1. u \in Seq(Int) /\ <<>> \o u = u /\ u \o <<>> = u
  <2>1. Smaller(to, f) \in Int
    BY DEF Smaller
  <2>2. u \in Seq(Int)
    BY <2>1, IntervalProperties
  <2> QED BY <2>2, ConcatEmptySeq
<1>2. CASE e <= from
  <2>1. Smaller(to, e) \in Int /\ Smaller(to, e) <= from /\ Larger(from, e) = from
    BY <1>2 DEF Smaller, Larger
  <2> QED BY <1>1, <2>1, IntervalProperties
<1>3. CASE from < e /\ to <= e
  <2>1. Smaller(to, e) = to /\ Smaller(to, f) = to /\ Larger(from, e) = e
    BY <1>3 DEF Smaller, Larger
  <2>2. Interval(e, to) = <<>>
    BY <1>3, IntervalProperties
  <2>3. u = Interval(from, to)
    BY <2>1
  <2> HIDE DEF u
  <2> QED BY <1>1, <2>1, <2>2, <2>3 DEF u
<1>4. CASE from < e /\ e < to
  <2>1. /\ Smaller(to, e) = e /\ Larger(from, e) = e
        /\ Smaller(to, f) \in Int /\ e <= Smaller(to, f)
    BY <1>4 DEF Smaller, Larger
  <2>2. from <= e
    BY <1>4
  <2>3. \A m \in Int : e <= m => Interval(from, e) \o Interval(e, m) = Interval(from, m)
    BY <2>2, IntervalConcat
  <2> QED BY <2>1, <2>3
<1> QED BY <1>2, <1>3, <1>4

LEMMA SoundType ==
  ASSUME NEW chunk, Sound(chunk)
  PROVE  /\ chunk \in Chunk /\ chunk.cursor \in Int /\ chunk.start \in Nat
         /\ Held(chunk) \in Nat \ {0} /\ EndOf(chunk) \in Int
         /\ EndOf(chunk) = chunk.cursor + Held(chunk)
         /\ Len(chunk.data) = chunk.start + Held(chunk) /\ Len(chunk.data) \in Nat
<1>1. chunk \in Chunk /\ Held(chunk) > 0
  BY DEF Sound
<1>2. Held(chunk) \in Int /\ Len(chunk.data) \in Nat
  BY <1>1, HeldType
<1> QED BY SMTT(60), <1>1, <1>2 DEF Chunk, EndOf, Held

\* What a read takes from a chunk: the bytes of the chunk that it asks for.
LEMMA TakenIs ==
  ASSUME NEW chunk, Sound(chunk), NEW from \in Int, NEW to \in Int
  PROVE  Taken(chunk, from, to)
           = Interval(Larger(from, chunk.cursor), Smaller(to, EndOf(chunk)))
<1> DEFINE c == chunk.cursor
           lo == Larger(0, from - c)
           hi == Smaller(Held(chunk), to - c)
           a == chunk.start + lo + 1
           b == chunk.start + hi
           s == SubSeq(chunk.data, a, b)
           u == Interval(Larger(from, c), Smaller(to, EndOf(chunk)))
<1>1. /\ chunk \in Chunk /\ c \in Int /\ chunk.start \in Nat /\ Held(chunk) \in Nat \ {0}
      /\ EndOf(chunk) = c + Held(chunk) /\ Len(chunk.data) = chunk.start + Held(chunk)
  BY SoundType
<1>2. /\ lo \in Nat /\ hi \in Int /\ hi <= Held(chunk)
      /\ Larger(from, c) = c + lo /\ Smaller(to, EndOf(chunk)) = c + hi
  BY SMTT(60), <1>1 DEF Larger, Smaller
<1> HIDE DEF lo, hi
<1>3. a \in Nat \ {0} /\ b \in Int /\ b <= Len(chunk.data) /\ b - a + 1 = hi - lo
  <2> HIDE DEF c
  <2>1. a \in Nat \ {0} /\ b \in Int
    <3>1. \A k, m \in Nat, l \in Int : k + m + 1 \in Nat \ {0} /\ k + l \in Int
      OBVIOUS
    <3> QED BY <1>1, <1>2, <3>1
  <2>2. b <= Len(chunk.data)
    BY <1>1, <1>2
  <2>3. b - a + 1 = hi - lo
    BY SMTT(60), <1>1, <1>2
  <2> QED BY <2>1, <2>2, <2>3
<1>4. /\ s \in Seq(Int) /\ Len(s) = IF a <= b THEN b - a + 1 ELSE 0
      /\ \A i \in 1..(b - a + 1) : s[i] = chunk.data[a + i - 1]
  BY ZenonT(60), <1>1, <1>3, PartType
<1>5. /\ u \in Seq(Int) /\ Len(u) = IF lo <= hi THEN hi - lo ELSE 0
      /\ \A i \in 1..(hi - lo) : u[i] = c + lo + i - 1
  <2>1. c + lo \in Int /\ c + hi \in Int /\ (c + hi) - (c + lo) = hi - lo
        /\ (c + lo <= c + hi <=> lo <= hi)
    BY SMTT(60), <1>1, <1>2
  <2> HIDE DEF c
  <2>2. u = Interval(c + lo, c + hi)
    BY <1>2
  <2> HIDE DEF u
  <2> QED BY <2>1, <2>2, IntervalProperties
<1> HIDE DEF u, s
<1>6. Len(s) = Len(u)
  <2>1. \A p, q, x, y \in Int : q - p + 1 = y - x =>
          (IF p <= q THEN q - p + 1 ELSE 0) = (IF x <= y THEN y - x ELSE 0)
    OBVIOUS
  <2>2. a \in Int /\ b \in Int /\ lo \in Int /\ hi \in Int /\ b - a + 1 = hi - lo
    BY <1>2, <1>3
  <2> HIDE DEF a, b
  <2> QED BY <1>4, <1>5, <2>1, <2>2
<1>7. ASSUME NEW i \in 1..Len(s) PROVE s[i] = u[i]
  <2>1. i \in 1..(hi - lo) /\ lo + i \in 1..Held(chunk)
    BY <1>1, <1>2, <1>5, <1>6
  <2>2. chunk.data[chunk.start + (lo + i)] = c + (lo + i) - 1
    BY <2>1 DEF Sound
  <2>3. a + i - 1 = chunk.start + (lo + i)
    BY SMTT(60), <1>1, <1>2, <2>1
  <2>4. s[i] = chunk.data[chunk.start + (lo + i)]
    BY <1>3, <1>4, <2>1, <2>3
  <2>5. u[i] = c + lo + i - 1
    BY <1>5, <2>1
  <2> QED BY SMTT(60), <1>1, <1>2, <2>1, <2>2, <2>4, <2>5
<1>8. s = u
  BY <1>4, <1>5, <1>6, <1>7, SeqEqual
<1>9. Taken(chunk, from, to) = s
  BY DEF Taken, s, lo, hi
<1> QED BY <1>8, <1>9 DEF u

LEMMA RestIs ==
  ASSUME NEW chunk, Sound(chunk)
  PROVE  Rest(chunk) = Interval(chunk.cursor, EndOf(chunk))
<1>1. /\ chunk.cursor \in Int /\ chunk.start \in Nat /\ Held(chunk) \in Nat \ {0}
      /\ EndOf(chunk) = chunk.cursor + Held(chunk) /\ EndOf(chunk) \in Int
      /\ Len(chunk.data) = chunk.start + Held(chunk)
  BY SoundType
<1>2. /\ Larger(0, chunk.cursor - chunk.cursor) = 0
      /\ Larger(chunk.cursor, chunk.cursor) = chunk.cursor
      /\ Smaller(Held(chunk), EndOf(chunk) - chunk.cursor) = Held(chunk)
      /\ Smaller(EndOf(chunk), EndOf(chunk)) = EndOf(chunk)
  BY <1>1 DEF Larger, Smaller
<1>3. Taken(chunk, chunk.cursor, EndOf(chunk)) = Interval(chunk.cursor, EndOf(chunk))
  BY <1>1, <1>2, TakenIs
<1>4. Taken(chunk, chunk.cursor, EndOf(chunk))
        = SubSeq(chunk.data, chunk.start + 0 + 1, chunk.start + Held(chunk))
  BY <1>2 DEF Taken
<1>5. chunk.start + 0 + 1 = chunk.start + 1
  BY <1>1
<1> QED BY <1>1, <1>3, <1>4, <1>5 DEF Rest

\* Where the first i chunks end.
Upto(chunks, oldest, i) == IF i = 0 THEN oldest ELSE EndOf(chunks[i])

LEMMA LinkedEnds ==
  ASSUME NEW chunks, NEW oldest \in Int, NEW next \in Int, Linked(chunks, oldest, next)
  PROVE  /\ Len(chunks) \in Nat /\ Upto(chunks, oldest, Len(chunks)) = next
         /\ \A i \in 1..Len(chunks) :
              /\ Sound(chunks[i]) /\ chunks[i].cursor = Upto(chunks, oldest, i - 1)
              /\ Upto(chunks, oldest, i) = chunks[i].cursor + Held(chunks[i])
              /\ Upto(chunks, oldest, i) = EndOf(chunks[i])
         /\ \A i \in 0..Len(chunks) : Upto(chunks, oldest, i) \in Int
<1> DEFINE n == Len(chunks)
<1>1. n \in Nat /\ (chunks = <<>> <=> n = 0)
  BY LenProperties, EmptySeq DEF Linked
<1>2. \A i \in 1..n : Sound(chunks[i])
  BY DEF Linked
<1>3. \A i \in 1..n : EndOf(chunks[i]) = chunks[i].cursor + Held(chunks[i])
                    /\ EndOf(chunks[i]) \in Int
  BY <1>2, SoundType
<1>4. Upto(chunks, oldest, n) = next
  BY <1>1 DEF Linked, Upto
<1>5. ASSUME NEW i \in 1..n PROVE chunks[i].cursor = Upto(chunks, oldest, i - 1)
  <2>1. CASE i = 1
    BY <1>1, <2>1 DEF Linked, Upto
  <2>2. CASE i # 1
    <3>1. i - 1 \in 1..(n - 1) /\ (i - 1) + 1 = i /\ i - 1 # 0
      BY <1>1, <2>2
    <3>2. chunks[(i - 1) + 1].cursor = EndOf(chunks[i - 1])
      BY <3>1 DEF Linked
    <3> QED BY <3>1, <3>2 DEF Upto
  <2> QED BY <2>1, <2>2
<1>6. \A i \in 1..n : Upto(chunks, oldest, i) = EndOf(chunks[i])
  BY DEF Upto
<1>7. \A i \in 0..n : Upto(chunks, oldest, i) \in Int
  <2>1. \A i \in 0..n : i = 0 \/ i \in 1..n
    BY <1>1
  <2> QED BY <1>3, <1>6, <2>1 DEF Upto
<1> QED BY <1>1, <1>2, <1>3, <1>4, <1>5, <1>6, <1>7

\* Chunks that are linked hold what lies between their ends.
LEMMA HeldByLinked ==
  ASSUME NEW chunks, NEW oldest \in Int, NEW next \in Int, Linked(chunks, oldest, next)
  PROVE  HeldBy(chunks) = next - oldest
<1> DEFINE n == Len(chunks)
<1>1. chunks \in Seq(Chunk)
  BY DEF Linked
<1>2. PICK h : /\ h[0] = 0 /\ HeldBy(chunks) = h[n] /\ \A i \in 0..n : h[i] \in Int
               /\ \A i \in 1..n : h[i] = h[i - 1] + Held(chunks[i])
  BY <1>1, HeldByFold
<1> DEFINE T == {i \in 0..n : h[i] = Upto(chunks, oldest, i) - oldest}
<1>3. /\ n \in Nat /\ Upto(chunks, oldest, n) = next
      /\ \A i \in 1..n : /\ chunks[i].cursor = Upto(chunks, oldest, i - 1)
                         /\ Upto(chunks, oldest, i) = chunks[i].cursor + Held(chunks[i])
      /\ \A i \in 0..n : Upto(chunks, oldest, i) \in Int
  BY LinkedEnds
<1>4. 0 \in T
  BY <1>2, <1>3 DEF Upto
<1>5. ASSUME NEW i \in 1..n, i - 1 \in T PROVE i \in T
  <2>1. Held(chunks[i]) \in Int
    BY SoundType DEF Linked
  <2>2. i \in 0..n /\ i - 1 \in 0..n
    BY <1>3
  <2>3. h[i - 1] = Upto(chunks, oldest, i - 1) - oldest
    BY <1>5
  <2>4. Upto(chunks, oldest, i) = Upto(chunks, oldest, i - 1) + Held(chunks[i])
    BY <1>3
  <2> HIDE DEF n
  <2> QED BY <1>2, <1>3, <2>1, <2>2, <2>3, <2>4
<1>6. n \in T
  <2> HIDE DEF T, n
  <2> QED BY <1>3, <1>4, <1>5, RangeInduction
<1> QED BY <1>2, <1>3, <1>6

\* They hold exactly these bytes.
LEMMA ContentsLinked ==
  ASSUME NEW chunks, NEW oldest \in Int, NEW next \in Int, Linked(chunks, oldest, next)
  PROVE  /\ oldest <= next
         /\ FoldLeft(LAMBDA bytes, chunk :
                       bytes \o SubSeq(chunk.data, chunk.start + 1, Len(chunk.data)),
                     <<>>, chunks) = Interval(oldest, next)
<1> DEFINE n == Len(chunks)
           held == FoldLeft(LAMBDA bytes, chunk :
                     bytes \o SubSeq(chunk.data, chunk.start + 1, Len(chunk.data)),
                   <<>>, chunks)
<1>1. chunks \in Seq(Chunk)
  BY DEF Linked
<1>2. PICK h : /\ h[0] = <<>> /\ held = h[n]
               /\ \A i \in 1..n : h[i] = h[i - 1] \o Rest(chunks[i])
  BY <1>1, ContentsFold
<1> HIDE DEF held
<1> DEFINE U(i) == Upto(chunks, oldest, i)
           T == {i \in 0..n : oldest <= U(i) /\ h[i] = Interval(oldest, U(i))}
<1>3. /\ n \in Nat /\ U(n) = next
      /\ \A i \in 1..n : /\ Sound(chunks[i]) /\ chunks[i].cursor = U(i - 1)
                         /\ U(i) = chunks[i].cursor + Held(chunks[i])
                         /\ U(i) = EndOf(chunks[i])
      /\ \A i \in 0..n : U(i) \in Int
  BY LinkedEnds
<1>4. 0 \in T
  <2>1. U(0) = oldest /\ 0 \in 0..n
    BY <1>3 DEF Upto
  <2>2. Interval(oldest, oldest) = <<>> /\ oldest <= oldest
    BY IntervalProperties
  <2> HIDE DEF n, U
  <2> QED BY <1>2, <2>1, <2>2
<1>5. ASSUME NEW i \in 1..n, i - 1 \in T PROVE i \in T
  <2>1. Held(chunks[i]) \in Nat \ {0} /\ Rest(chunks[i]) = Interval(U(i - 1), U(i))
    BY <1>3, SoundType, RestIs
  <2>2. i \in 0..n /\ U(i - 1) \in Int /\ U(i) \in Int
    BY <1>3
  <2>3. oldest <= U(i - 1) /\ h[i - 1] = Interval(oldest, U(i - 1))
    BY <1>5
  <2>4. U(i) = U(i - 1) + Held(chunks[i])
    BY <1>3
  <2> HIDE DEF n, U
  <2>5. U(i - 1) <= U(i) /\ oldest <= U(i)
    BY <2>1, <2>2, <2>3, <2>4
  <2>6. Interval(oldest, U(i - 1)) \o Interval(U(i - 1), U(i)) = Interval(oldest, U(i))
    BY <2>2, <2>3, <2>5, IntervalConcat
  <2> QED BY <1>2, <2>1, <2>2, <2>3, <2>5, <2>6
<1>6. n \in T
  <2> HIDE DEF T, n
  <2> QED BY <1>3, <1>4, <1>5, RangeInduction
<1> QED BY <1>2, <1>3, <1>6 DEF held

\* A read of [from, to) gets these bytes, as far as there are any.
LEMMA SliceLinked ==
  ASSUME NEW chunks, NEW oldest \in Int, NEW next \in Int, Linked(chunks, oldest, next),
         NEW from \in Int, NEW to \in Int, oldest <= from
  PROVE  Read(chunks, from, to) = Interval(from, Smaller(to, next))
<1> DEFINE n == Len(chunks)
<1>1. chunks \in Seq(Chunk)
  BY DEF Linked
<1>2. PICK h : /\ h[0] = <<>> /\ Read(chunks, from, to) = h[n]
               /\ \A i \in 1..n : h[i] = h[i - 1] \o Taken(chunks[i], from, to)
  <2>1. \A f, t \in Int :
          \E h : /\ h[0] = <<>> /\ Read(chunks, f, t) = h[Len(chunks)]
                 /\ \A i \in 0..Len(chunks) : h[i] \in Seq(Int)
                 /\ \A i \in 1..Len(chunks) : h[i] = h[i - 1] \o Taken(chunks[i], f, t)
    BY <1>1, SliceFold
  <2>2. PICK h : /\ h[0] = <<>> /\ Read(chunks, from, to) = h[Len(chunks)]
                 /\ \A i \in 0..Len(chunks) : h[i] \in Seq(Int)
                 /\ \A i \in 1..Len(chunks) : h[i] = h[i - 1] \o Taken(chunks[i], from, to)
    BY <2>1, Zenon
  <2> QED BY <2>2
<1> DEFINE U(i) == Upto(chunks, oldest, i)
           T == {i \in 0..n : h[i] = Interval(from, Smaller(to, U(i)))}
<1>3. /\ n \in Nat /\ U(n) = next
      /\ \A i \in 1..n : /\ Sound(chunks[i]) /\ chunks[i].cursor = U(i - 1)
                         /\ U(i) = chunks[i].cursor + Held(chunks[i])
                         /\ U(i) = EndOf(chunks[i])
      /\ \A i \in 0..n : U(i) \in Int
  BY LinkedEnds
<1>4. 0 \in T
  <2>1. Smaller(to, oldest) \in Int /\ Smaller(to, oldest) <= from
    BY DEF Smaller
  <2>2. U(0) = oldest /\ 0 \in 0..n
    BY <1>3 DEF Upto
  <2>3. Interval(from, Smaller(to, oldest)) = <<>>
    BY <2>1, IntervalProperties
  <2> HIDE DEF n, U
  <2> QED BY <1>2, <2>2, <2>3
<1>5. ASSUME NEW i \in 1..n, i - 1 \in T PROVE i \in T
  <2>1. /\ Held(chunks[i]) \in Nat \ {0}
        /\ Taken(chunks[i], from, to) = Interval(Larger(from, U(i - 1)), Smaller(to, U(i)))
    <3>1. Sound(chunks[i]) /\ chunks[i].cursor = U(i - 1) /\ EndOf(chunks[i]) = U(i)
      BY <1>3
    <3>2. Held(chunks[i]) \in Nat \ {0}
      BY <3>1, SoundType
    <3>3. Taken(chunks[i], from, to)
            = Interval(Larger(from, chunks[i].cursor), Smaller(to, EndOf(chunks[i])))
      BY <3>1, TakenIs
    <3> HIDE DEF U
    <3> QED BY <3>1, <3>2, <3>3
  <2>2. i \in 0..n /\ U(i - 1) \in Int /\ U(i) \in Int
    BY <1>3
  <2>3. h[i - 1] = Interval(from, Smaller(to, U(i - 1)))
    BY <1>5
  <2>4. U(i) = U(i - 1) + Held(chunks[i])
    BY <1>3
  <2> HIDE DEF n, U
  <2>5. U(i - 1) <= U(i)
    BY <2>1, <2>2, <2>4
  <2>6. Interval(from, Smaller(to, U(i - 1))) \o Interval(Larger(from, U(i - 1)), Smaller(to, U(i)))
          = Interval(from, Smaller(to, U(i)))
    <3>1. \A e, f \in Int : e <= f =>
            Interval(from, Smaller(to, e)) \o Interval(Larger(from, e), Smaller(to, f))
              = Interval(from, Smaller(to, f))
      BY IntervalJoin
    <3> QED BY <2>2, <2>5, <3>1
  <2> QED BY <1>2, <2>1, <2>2, <2>3, <2>6
<1>6. n \in T
  <2> HIDE DEF T, n
  <2> QED BY <1>3, <1>4, <1>5, RangeInduction
<1> QED BY <1>2, <1>3, <1>6

-----------------------------------------------------------------------------
(* The ring keeps its chunks linked.                                       *)

\* What a sequence gets by one more element.
LEMMA AppendIs ==
  ASSUME NEW S, NEW s \in Seq(S), NEW x \in S
  PROVE  /\ Append(s, x) \in Seq(S) /\ Append(s, x) # <<>>
         /\ Len(s) \in Nat /\ Len(Append(s, x)) = Len(s) + 1
         /\ \A i \in 1..Len(s) : Append(s, x)[i] = s[i]
         /\ Append(s, x)[Len(s) + 1] = x
<1>1. Len(s) \in Nat
  BY LenProperties
<1>2. /\ Append(s, x) \in Seq(S) /\ Append(s, x) # <<>>
      /\ Len(Append(s, x)) = Len(s) + 1
      /\ \A i \in 1..Len(s) : Append(s, x)[i] = s[i]
      /\ Append(s, x)[Len(s) + 1] = x
  BY AppendProperties
<1> QED BY <1>1, <1>2

LEMMA NewChunkLinked ==
  ASSUME NEW chunks, NEW oldest \in Int, NEW next \in Int, Linked(chunks, oldest, next)
  PROVE  Linked(Append(chunks, [cursor |-> next, data |-> <<next>>, start |-> 0,
                                size |-> ChunkBytes]), oldest, next + 1)
<1> DEFINE new == [cursor |-> next, data |-> <<next>>, start |-> 0, size |-> ChunkBytes]
           n == Len(chunks)
           c == Append(chunks, new)
<1>1. /\ new \in Chunk /\ Held(new) = 1 /\ new.cursor = next
      /\ new.start = 0 /\ new.data[1] = next
  BY RingAssumption DEF Chunk, Held
<1> HIDE DEF new
<1>2. Sound(new) /\ EndOf(new) = next + 1
  BY <1>1 DEF Sound, EndOf
<1>3. /\ chunks \in Seq(Chunk) /\ \A i \in 1..n : Sound(chunks[i])
      /\ \A i \in 1..(n - 1) : chunks[i + 1].cursor = EndOf(chunks[i])
      /\ chunks = <<>> => oldest = next
      /\ chunks # <<>> => chunks[1].cursor = oldest /\ EndOf(chunks[n]) = next
  BY DEF Linked
<1>4. /\ c \in Seq(Chunk) /\ c # <<>> /\ n \in Nat /\ Len(c) = n + 1
      /\ \A i \in 1..n : c[i] = chunks[i]
      /\ c[n + 1] = new
  BY <1>1, <1>3, AppendIs
<1>5. chunks = <<>> <=> n = 0
  BY <1>3, EmptySeq
<1> HIDE DEF n, c
<1>6. ASSUME NEW i \in 1..(n + 1) PROVE Sound(c[i])
  <2>1. i \in 1..n \/ i = n + 1
    BY <1>4
  <2> QED BY <1>2, <1>3, <1>4, <2>1
<1>7. ASSUME NEW i \in 1..n PROVE c[i + 1].cursor = EndOf(c[i])
  <2>1. CASE i = n
    <3>1. n # 0
      BY <1>4
    <3> QED BY <1>1, <1>3, <1>4, <1>5, <2>1, <3>1
  <2>2. CASE i # n
    <3>1. i \in 1..(n - 1) /\ i + 1 \in 1..n
      BY <1>4, <2>2
    <3> QED BY <1>3, <1>4, <3>1
  <2> QED BY <2>1, <2>2
<1>8. c[1].cursor = oldest
  <2>1. CASE n = 0
    <3>1. c[1] = new
      BY <1>4, <2>1
    <3> QED BY <1>1, <1>3, <1>5, <2>1, <3>1
  <2>2. CASE n # 0
    <3>1. 1 \in 1..n
      BY <1>4, <2>2
    <3> QED BY <1>3, <1>4, <1>5, <2>2, <3>1
  <2> QED BY <2>1, <2>2
<1>9. Len(c) - 1 = n
  BY <1>4
<1>10. Linked(c, oldest, next + 1)
  BY <1>2, <1>4, <1>6, <1>7, <1>8, <1>9 DEF Linked
<1> QED BY <1>10 DEF c, new

\* A chunk of a sequence is replaced by one that begins and ends as its neighbours
\* need it.
LEMMA ReplaceIs ==
  ASSUME NEW S, NEW s \in Seq(S), NEW k \in 1..Len(s), NEW x \in S
  PROVE  LET t == [s EXCEPT ![k] = x] IN
         /\ t \in Seq(S) /\ Len(t) = Len(s) /\ t # <<>> /\ Len(s) \in Nat
         /\ t[k] = x /\ \A i \in 1..Len(s) : i # k => t[i] = s[i]
<1> DEFINE t == [s EXCEPT ![k] = x]
<1>1. t \in Seq(S) /\ Len(t) = Len(s) /\ \A i \in 1..Len(s) : t[i] = IF i = k THEN x ELSE s[i]
  BY ExceptSeq
<1>2. Len(s) \in Nat
  BY LenProperties
<1>3. t # <<>>
  <2>1. Len(t) # 0
    BY <1>1, <1>2
  <2> QED BY <2>1, EmptySeq
<1> QED BY <1>1, <1>2, <1>3

LEMMA LongerLinked ==
  ASSUME NEW chunks, NEW oldest \in Int, NEW next \in Int, Linked(chunks, oldest, next),
         chunks # <<>>
  PROVE  Linked([chunks EXCEPT ![Len(chunks)].data = Append(@, next)], oldest, next + 1)
<1> DEFINE n == Len(chunks)
           old == chunks[n]
           new == [old EXCEPT !.data = Append(@, next)]
           c == [chunks EXCEPT ![n] = new]
<1>1. /\ chunks \in Seq(Chunk) /\ \A i \in 1..n : Sound(chunks[i])
      /\ \A i \in 1..(n - 1) : chunks[i + 1].cursor = EndOf(chunks[i])
      /\ chunks[1].cursor = oldest /\ EndOf(chunks[n]) = next
  BY DEF Linked
<1>2. n \in Nat /\ n \in 1..n
  BY <1>1, LenProperties, EmptySeq
<1>3. /\ Sound(old) /\ old \in Chunk /\ old.cursor \in Int /\ old.start \in Nat
      /\ Held(old) \in Nat \ {0} /\ next = old.cursor + Held(old)
      /\ Len(old.data) = old.start + Held(old) /\ Len(old.data) \in Nat
      /\ \A i \in 1..Held(old) : old.data[old.start + i] = old.cursor + i - 1
  <2>1. Sound(old)
    BY <1>1, <1>2
  <2>2. EndOf(old) = next
    BY <1>1
  <2> HIDE DEF old
  <2> QED BY <2>1, <2>2, SoundType DEF Sound
<1>4. old.data \in Seq(Int)
  BY <1>3 DEF Chunk
<1> HIDE DEF old
<1>5. /\ Append(old.data, next) \in Seq(Int)
      /\ Len(Append(old.data, next)) = Len(old.data) + 1
      /\ \A i \in 1..Len(old.data) : Append(old.data, next)[i] = old.data[i]
      /\ Append(old.data, next)[Len(old.data) + 1] = next
  BY <1>4, AppendIs
<1>6. /\ new \in Chunk /\ new.cursor = old.cursor /\ new.start = old.start
      /\ new.data = Append(old.data, next)
  BY <1>3, <1>5 DEF Chunk
<1> HIDE DEF new
<1>7. Held(new) = Held(old) + 1
  <2>1. Len(new.data) = Len(old.data) + 1
    BY <1>5, <1>6
  <2>2. Held(new) = Len(new.data) - new.start /\ Held(old) = Len(old.data) - old.start
    BY DEF Held
  <2>3. old.start \in Int /\ Len(old.data) \in Int /\ new.start = old.start
    BY <1>3, <1>6
  <2> QED BY <2>1, <2>2, <2>3
<1>8. Sound(new)
  <2>1. ASSUME NEW i \in 1..(Held(old) + 1)
        PROVE  new.data[new.start + i] = new.cursor + i - 1
    <3>1. CASE i = Held(old) + 1
      <4>1. old.start + i = Len(old.data) + 1 /\ old.cursor + i - 1 = next
        <5>1. \A st, h \in Int : st + (h + 1) = (st + h) + 1
          OBVIOUS
        <5>2. \A cu, h \in Int : cu + (h + 1) - 1 = cu + h
          OBVIOUS
        <5>3. old.start \in Int /\ old.cursor \in Int /\ Held(old) \in Int
          BY <1>3
        <5>4. Len(old.data) = old.start + Held(old) /\ next = old.cursor + Held(old)
          BY <1>3
        <5>5. old.start + (Held(old) + 1) = (old.start + Held(old)) + 1
          BY <5>1, <5>3
        <5>6. old.cursor + (Held(old) + 1) - 1 = old.cursor + Held(old)
          BY <5>2, <5>3
        <5> QED BY <3>1, <5>5, <5>4, <5>6
      <4> QED BY <1>5, <1>6, <4>1
    <3>2. CASE i # Held(old) + 1
      <4>1. i \in 1..Held(old) /\ old.start + i \in 1..Len(old.data)
        BY SMTT(60), <1>3, <3>2
      <4> QED BY <1>3, <1>5, <1>6, <4>1
    <3> QED BY <3>1, <3>2
  <2>2. Held(new) > 0
    BY <1>3, <1>7
  <2> QED BY <1>6, <1>7, <2>1, <2>2 DEF Sound
<1>9. EndOf(new) = next + 1
  BY SMTT(60), <1>3, <1>6, <1>7 DEF EndOf
<1>10. /\ c \in Seq(Chunk) /\ Len(c) = n /\ c # <<>>
       /\ c[n] = new /\ \A i \in 1..n : i # n => c[i] = chunks[i]
  <2> HIDE DEF n
  <2> QED BY <1>1, <1>2, <1>6, ReplaceIs DEF n
<1>11. c = [chunks EXCEPT ![n].data = Append(@, next)]
  BY DEF new, old
<1> HIDE DEF n, c
<1>12. ASSUME NEW i \in 1..n PROVE Sound(c[i]) /\ c[i].cursor = chunks[i].cursor
  BY <1>1, <1>6, <1>8, <1>10 DEF old
<1>13. ASSUME NEW i \in 1..(n - 1) PROVE c[i + 1].cursor = EndOf(c[i])
  <2>1. i \in 1..n /\ i # n /\ i + 1 \in 1..n
    BY <1>2
  <2> QED BY <1>1, <1>10, <1>12, <2>1
<1>14. c[1].cursor = oldest
  BY SMTT(60), <1>1, <1>2, <1>12
<1>15. Linked(c, oldest, next + 1)
  BY <1>9, <1>10, <1>12, <1>13, <1>14 DEF Linked
<1> QED BY <1>11, <1>15 DEF n

LEMMA AppendByteLinked ==
  ASSUME NEW chunks, NEW oldest \in Int, NEW next \in Int, Linked(chunks, oldest, next)
  PROVE  Linked(AppendByte(chunks, next), oldest, next + 1)
BY NewChunkLinked, LongerLinked DEF AppendByte


\* The bytes that follow are appended.
LEMMA AppendLinked ==
  ASSUME NEW chunks, NEW oldest \in Int, NEW next \in Int, Linked(chunks, oldest, next),
         NEW n \in Nat
  PROVE  Linked(FoldLeft(AppendByte, chunks, [i \in 1..n |-> next + i - 1]),
                oldest, next + n)
<1> DEFINE bytes == [i \in 1..n |-> next + i - 1]
<1>1. bytes \in [1..n -> Int]
  OBVIOUS
<1>2. bytes \in Seq(Int) /\ Len(bytes) = n /\ \A i \in 1..n : bytes[i] = next + (i - 1)
  <2>1. \A i \in 1..n : bytes[i] = next + (i - 1)
    OBVIOUS
  <2> HIDE DEF bytes
  <2> QED BY <1>1, <2>1
<1>3. chunks \in Seq(Chunk)
  BY DEF Linked
<1> HIDE DEF bytes
<1>4. PICK h : /\ h[0] = chunks /\ FoldLeft(AppendByte, chunks, bytes) = h[n]
               /\ \A i \in 1..n : h[i] = AppendByte(h[i - 1], bytes[i])
  <2>1. PICK h : /\ h[0] = chunks /\ FoldLeft(AppendByte, chunks, bytes) = h[Len(bytes)]
                 /\ \A i \in 0..Len(bytes) : h[i] \in Seq(Chunk)
                 /\ \A i \in 1..Len(bytes) : h[i] = AppendByte(h[i - 1], bytes[i])
    BY <1>2, <1>3, AppendFold, Zenon
  <2> QED BY <1>2, <2>1
<1> DEFINE T == {i \in 0..n : Linked(h[i], oldest, next + i)}
<1>5. 0 \in T
  <2>1. next + 0 = next /\ 0 \in 0..n
    OBVIOUS
  <2> QED BY <1>4, <2>1
<1>6. ASSUME NEW i \in 1..n, i - 1 \in T PROVE i \in T
  <2>1. Linked(h[i - 1], oldest, next + (i - 1))
    BY <1>6
  <2>2. next + (i - 1) \in Int /\ (next + (i - 1)) + 1 = next + i /\ i \in 0..n
    OBVIOUS
  <2>3. Linked(AppendByte(h[i - 1], next + (i - 1)), oldest, (next + (i - 1)) + 1)
    BY <2>1, <2>2, AppendByteLinked
  <2> QED BY <1>2, <1>4, <2>2, <2>3
<1>7. n \in T
  <2> HIDE DEF T
  <2>1. n \in 0..n
    OBVIOUS
  <2> QED BY <1>5, <1>6, <2>1, RangeInduction
<1> QED BY <1>4, <1>7 DEF bytes

-----------------------------------------------------------------------------
(* The ring drops what is too much.                                        *)

Rings == [chunks : Seq(Chunk), oldest : Int, next : Int]

\* What begins with a chunk goes on after it.
LEMMA TailLinked ==
  ASSUME NEW chunks, NEW oldest \in Int, NEW next \in Int, Linked(chunks, oldest, next),
         chunks # <<>>
  PROVE  /\ Linked(Tail(chunks), EndOf(chunks[1]), next)
         /\ Len(Tail(chunks)) = Len(chunks) - 1
         /\ \A i \in 1..(Len(chunks) - 1) : Tail(chunks)[i] = chunks[i + 1]
<1> DEFINE n == Len(chunks)
           t == Tail(chunks)
<1>1. /\ chunks \in Seq(Chunk) /\ \A i \in 1..n : Sound(chunks[i])
      /\ \A i \in 1..(n - 1) : chunks[i + 1].cursor = EndOf(chunks[i])
      /\ EndOf(chunks[n]) = next
  BY DEF Linked
<1>2. n \in Nat /\ n # 0
  BY <1>1, LenProperties, EmptySeq
<1>3. t \in Seq(Chunk) /\ Len(t) = n - 1 /\ \A i \in 1..(n - 1) : t[i] = chunks[i + 1]
  BY <1>1, HeadTailProperties
<1>4. t = <<>> <=> n - 1 = 0
  BY <1>3, EmptySeq
<1> HIDE DEF n, t
<1>5. ASSUME NEW i \in 1..(n - 1) PROVE Sound(t[i])
  <2>1. i + 1 \in 1..n
    BY <1>2
  <2> QED BY <1>1, <1>3, <2>1
<1>6. ASSUME NEW i \in 1..((n - 1) - 1) PROVE t[i + 1].cursor = EndOf(t[i])
  <2>1. i \in 1..(n - 1) /\ i + 1 \in 1..(n - 1)
    BY <1>2
  <2> QED BY <1>1, <1>3, <2>1
<1>7. ASSUME t = <<>> PROVE EndOf(chunks[1]) = next
  <2>1. n = 1
    BY <1>2, <1>4, <1>7
  <2> QED BY <1>1, <2>1
<1>8. ASSUME t # <<>> PROVE t[1].cursor = EndOf(chunks[1]) /\ EndOf(t[n - 1]) = next
  <2>1. 1 \in 1..(n - 1) /\ n - 1 \in 1..(n - 1) /\ (n - 1) + 1 = n
    BY <1>2, <1>4, <1>8
  <2> QED BY <1>1, <1>3, <2>1
<1>9. Linked(t, EndOf(chunks[1]), next)
  BY <1>3, <1>5, <1>6, <1>7, <1>8 DEF Linked
<1> QED BY <1>3, <1>9 DEF n, t

\* The first chunk of a ring is changed.
LEMMA FirstChunkIs ==
  ASSUME NEW r \in Rings, r.chunks # <<>>, NEW chunk \in Chunk, NEW c,
         c = [r.chunks EXCEPT ![1] = chunk]
  PROVE  /\ c \in Seq(Chunk) /\ c # <<>> /\ c[1] = chunk
         /\ [r EXCEPT !.chunks = c] \in Rings /\ [r EXCEPT !.chunks = c].chunks = c
         /\ [r EXCEPT !.chunks = c].next = r.next
<1>1. r.chunks \in Seq(Chunk) /\ 1 \in 1..Len(r.chunks)
  <2>1. r.chunks \in Seq(Chunk)
    BY DEF Rings
  <2>2. Len(r.chunks) \in Nat /\ Len(r.chunks) # 0
    BY <2>1, LenProperties, EmptySeq
  <2> QED BY <2>1, <2>2
<1>2. c \in Seq(Chunk) /\ c # <<>> /\ c[1] = chunk
  BY <1>1, ReplaceIs
<1> QED BY <1>2 DEF Rings

\* A chunk that begins k bytes later.
Later(chunk, k) == [[chunk EXCEPT !.start = @ + k] EXCEPT !.cursor = @ + k]

LEMMA LaterIs ==
  ASSUME NEW chunk \in Chunk, NEW k \in Nat
  PROVE  /\ [chunk EXCEPT !.start = @ + k] \in Chunk /\ Later(chunk, k) \in Chunk
         /\ Later(chunk, k).cursor = chunk.cursor + k /\ Later(chunk, k).data = chunk.data
         /\ Later(chunk, k).start = chunk.start + k
<1>1. chunk.start + k \in Nat /\ chunk.cursor + k \in Int
  BY DEF Chunk
<1>2. [chunk EXCEPT !.start = chunk.start + k] \in Chunk
  BY <1>1 DEF Chunk
<1>3. [chunk EXCEPT !.start = chunk.start + k].cursor = chunk.cursor
  BY DEF Chunk
<1>4. \A d \in Chunk, i \in Int : [d EXCEPT !.cursor = i] \in Chunk
  BY DEF Chunk
<1>5. Later(chunk, k) \in Chunk
  BY <1>1, <1>2, <1>3, <1>4 DEF Later
<1>6. /\ Later(chunk, k).cursor = chunk.cursor + k /\ Later(chunk, k).data = chunk.data
      /\ Later(chunk, k).start = chunk.start + k
  BY DEF Chunk, Later
<1> QED BY <1>2, <1>5, <1>6

\* The first chunk may begin later.
LEMMA LaterLinked ==
  ASSUME NEW chunks, NEW oldest \in Int, NEW next \in Int, Linked(chunks, oldest, next),
         chunks # <<>>, NEW k \in Nat, k < Held(chunks[1])
  PROVE  Linked([chunks EXCEPT ![1] = Later(chunks[1], k)], oldest + k, next)
<1> DEFINE n == Len(chunks)
           old == chunks[1]
           new == Later(old, k)
           c == [chunks EXCEPT ![1] = new]
<1>1. /\ chunks \in Seq(Chunk) /\ \A i \in 1..n : Sound(chunks[i])
      /\ \A i \in 1..(n - 1) : chunks[i + 1].cursor = EndOf(chunks[i])
      /\ chunks[1].cursor = oldest /\ EndOf(chunks[n]) = next
  BY DEF Linked
<1>2. n \in Nat /\ n # 0 /\ 1 \in 1..n
  BY <1>1, LenProperties, EmptySeq
<1>3. Sound(old)
  BY <1>1, <1>2
<1>4. k < Held(old) /\ old.cursor = oldest
  BY <1>1
<1> HIDE DEF old
<1>5. /\ old \in Chunk /\ old.cursor \in Int /\ old.start \in Nat
      /\ Held(old) \in Nat /\ EndOf(old) = old.cursor + Held(old)
      /\ Len(old.data) \in Nat
  BY <1>3, SoundType
<1>6. /\ new \in Chunk /\ new.cursor = old.cursor + k /\ new.start = old.start + k
      /\ new.data = old.data
  BY <1>5, LaterIs
<1> HIDE DEF new
<1>7. Held(new) = Held(old) - k
  <2>1. Held(new) = Len(old.data) - (old.start + k) /\ Held(old) = Len(old.data) - old.start
    BY <1>6 DEF Held
  <2> QED BY <1>5, <2>1
<1>8. EndOf(new) = EndOf(old)
  <2>1. EndOf(new) = (old.cursor + k) + (Held(old) - k)
    BY <1>6, <1>7 DEF EndOf
  <2> QED BY <1>5, <2>1
<1>9. Sound(new)
  <2>1. Held(new) > 0
    BY <1>4, <1>5, <1>7
  <2>2. ASSUME NEW i \in 1..Held(new) PROVE new.data[new.start + i] = new.cursor + i - 1
    <3>1. k + i \in 1..Held(old)
      BY <1>5, <1>7
    <3>2. old.data[old.start + (k + i)] = old.cursor + (k + i) - 1
      BY <1>3, <3>1 DEF Sound
    <3>3. old.start + (k + i) = (old.start + k) + i
      BY <1>5
    <3>4. old.cursor + (k + i) - 1 = (old.cursor + k) + i - 1
      BY <1>5
    <3> QED BY <1>6, <3>2, <3>3, <3>4
  <2> QED BY <1>6, <2>1, <2>2 DEF Sound
<1>10. /\ c \in Seq(Chunk) /\ Len(c) = n /\ c # <<>>
       /\ c[1] = new /\ \A i \in 1..n : i # 1 => c[i] = chunks[i]
  <2> HIDE DEF n
  <2> QED BY <1>1, <1>2, <1>6, ReplaceIs DEF n
<1> HIDE DEF n, c
<1>11. ASSUME NEW i \in 1..n PROVE Sound(c[i]) /\ EndOf(c[i]) = EndOf(chunks[i])
  BY <1>1, <1>8, <1>9, <1>10 DEF old
<1>12. ASSUME NEW i \in 1..(n - 1) PROVE c[i + 1].cursor = EndOf(c[i])
  <2>1. i \in 1..n /\ i + 1 # 1 /\ i + 1 \in 1..n
    BY <1>2
  <2> QED BY <1>1, <1>10, <1>11, <2>1
<1>13. c[1].cursor = oldest + k /\ EndOf(c[n]) = next
  <2>1. n \in 1..n
    BY <1>2
  <2> QED BY <1>1, <1>4, <1>6, <1>10, <1>11, <2>1
<1>14. Linked(c, oldest + k, next)
  BY <1>10, <1>11, <1>12, <1>13 DEF Linked
<1> QED BY <1>14 DEF c, new, old

\* The first chunk loses k bytes.
LEMMA TrimFirstIs ==
  ASSUME NEW r \in Rings, r.chunks # <<>>, NEW k \in Nat
  PROVE  /\ TrimFirst(r, k) \in Rings
         /\ TrimFirst(r, k).chunks = [r.chunks EXCEPT ![1] = Later(r.chunks[1], k)]
         /\ TrimFirst(r, k).oldest = r.chunks[1].cursor + k
         /\ TrimFirst(r, k).next = r.next
<1> DEFINE old == r.chunks[1]
           x == [r EXCEPT !.chunks[1].start = @ + k]
           y == [x EXCEPT !.chunks[1].cursor = @ + k]
<1>1. r.chunks \in Seq(Chunk) /\ old \in Chunk /\ old.cursor + k \in Int
  <2>1. r.chunks \in Seq(Chunk)
    BY DEF Rings
  <2>2. Len(r.chunks) \in Nat /\ Len(r.chunks) # 0
    BY <2>1, LenProperties, EmptySeq
  <2>3. old \in Chunk
    BY <2>1, <2>2
  <2> HIDE DEF old
  <2> QED BY <2>1, <2>3 DEF Chunk
<1>2. /\ x \in Rings /\ x.chunks # <<>> /\ x.chunks[1] = [old EXCEPT !.start = @ + k]
      /\ x.chunks = [r.chunks EXCEPT ![1] = [old EXCEPT !.start = @ + k]]
      /\ x.next = r.next
  <2>1. x = [r EXCEPT !.chunks = [r.chunks EXCEPT ![1].start = @ + k]]
    BY DEF Rings
  <2>2. [r.chunks EXCEPT ![1].start = @ + k]
          = [r.chunks EXCEPT ![1] = [old EXCEPT !.start = @ + k]]
    BY Zenon
  <2> DEFINE new == [old EXCEPT !.start = @ + k]
             c == [r.chunks EXCEPT ![1] = new]
  <2>3. new \in Chunk
    BY <1>1, LaterIs
  <2>4. x = [r EXCEPT !.chunks = c]
    BY <2>1, <2>2, Zenon
  <2> HIDE DEF x, old, new
  <2>5. c = [r.chunks EXCEPT ![1] = new]
    OBVIOUS
  <2> HIDE DEF c
  <2>6. /\ [r EXCEPT !.chunks = c] \in Rings /\ [r EXCEPT !.chunks = c].chunks = c
        /\ [r EXCEPT !.chunks = c].next = r.next /\ c # <<>> /\ c[1] = new
    BY <2>3, <2>5, FirstChunkIs
  <2>7. x \in Rings /\ x.chunks = c /\ x.next = r.next
    BY <2>4, <2>6
  <2> QED BY <2>6, <2>7 DEF new, c
<1> HIDE DEF x, old
<1>3. /\ y \in Rings /\ y.chunks = [x.chunks EXCEPT ![1] = Later(old, k)]
      /\ y.next = r.next
  <2>1. y = [x EXCEPT !.chunks = [x.chunks EXCEPT ![1].cursor = @ + k]]
    BY <1>2 DEF Rings
  <2>2. [x.chunks EXCEPT ![1].cursor = @ + k]
          = [x.chunks EXCEPT ![1] = [x.chunks[1] EXCEPT !.cursor = @ + k]]
    BY Zenon
  <2>3. [x.chunks[1] EXCEPT !.cursor = @ + k] = Later(old, k)
    BY <1>2, Zenon DEF Later
  <2>4. y = [x EXCEPT !.chunks = [x.chunks EXCEPT ![1] = Later(old, k)]]
    BY <2>1, <2>2, <2>3, Zenon
  <2>5. Later(old, k) \in Chunk
    BY <1>1, LaterIs
  <2> DEFINE c == [x.chunks EXCEPT ![1] = Later(old, k)]
  <2>6. y = [x EXCEPT !.chunks = c]
    BY <2>4, Zenon
  <2>7. c = [x.chunks EXCEPT ![1] = Later(old, k)]
    OBVIOUS
  <2> HIDE DEF y, c
  <2>8. /\ [x EXCEPT !.chunks = c] \in Rings /\ [x EXCEPT !.chunks = c].chunks = c
        /\ [x EXCEPT !.chunks = c].next = x.next
    BY <1>2, <2>5, <2>7, FirstChunkIs
  <2> QED BY <1>2, <2>6, <2>8 DEF c
<1>4. y.chunks = [r.chunks EXCEPT ![1] = Later(old, k)]
  <2>1. \A a, b : [[r.chunks EXCEPT ![1] = a] EXCEPT ![1] = b] = [r.chunks EXCEPT ![1] = b]
    BY <1>1
  <2> HIDE DEF y
  <2> QED BY <1>2, <1>3, <2>1
<1>5. TrimFirst(r, k) = [y EXCEPT !.oldest = old.cursor + k]
  BY Zenon DEF TrimFirst, x, y, old
<1> HIDE DEF y
<1>6. \A o \in Int : /\ [y EXCEPT !.oldest = o] \in Rings
                     /\ [y EXCEPT !.oldest = o].chunks = y.chunks
                     /\ [y EXCEPT !.oldest = o].oldest = o
                     /\ [y EXCEPT !.oldest = o].next = y.next
  BY <1>3 DEF Rings
<1> QED BY <1>1, <1>3, <1>4, <1>5, <1>6 DEF old

LEMMA DropFirstIs ==
  ASSUME NEW r \in Rings, r.chunks # <<>>, NEW k
  PROVE  /\ DropFirst(r, k) \in Rings
         /\ DropFirst(r, k).chunks = Tail(r.chunks)
         /\ DropFirst(r, k).oldest = EndOf(r.chunks[1])
         /\ DropFirst(r, k).next = r.next
<1>1. r.chunks \in Seq(Chunk)
  BY DEF Rings
<1>2. Tail(r.chunks) \in Seq(Chunk) /\ Head(r.chunks) = r.chunks[1] /\ r.chunks[1] \in Chunk
  <2>1. Tail(r.chunks) \in Seq(Chunk)
    BY <1>1, HeadTailProperties
  <2>2. Len(r.chunks) \in Nat /\ Len(r.chunks) # 0
    BY <1>1, LenProperties, EmptySeq
  <2> QED BY <1>1, <2>1, <2>2
<1>3. EndOf(r.chunks[1]) \in Int
  BY SMTT(60), <1>2, HeldType DEF EndOf, Chunk
<1>4. DropFirst(r, k) = [r EXCEPT !.chunks = Tail(@),
                         !.oldest = Head(r.chunks).cursor + Held(Head(r.chunks))]
  BY DEF DropFirst
<1>5. Head(r.chunks).cursor + Held(Head(r.chunks)) = EndOf(r.chunks[1])
  BY <1>2 DEF EndOf
<1>6. \A o \in Int : /\ [r EXCEPT !.chunks = Tail(@), !.oldest = o] \in Rings
                     /\ [r EXCEPT !.chunks = Tail(@), !.oldest = o].chunks = Tail(r.chunks)
                     /\ [r EXCEPT !.chunks = Tail(@), !.oldest = o].oldest = o
                     /\ [r EXCEPT !.chunks = Tail(@), !.oldest = o].next = r.next
  BY <1>2 DEF Rings
<1> QED BY ZenonT(60), <1>3, <1>4, <1>5, <1>6

LEMMA TrimOnceType ==
  ASSUME NEW r \in Rings, NEW chunk \in Chunk
  PROVE  TrimOnce(r, chunk) \in Rings
<1> DEFINE excess == HeldBy(r.chunks) - RingBytes
<1>1. r.chunks \in Seq(Chunk)
  BY DEF Rings
<1>2. HeldBy(r.chunks) \in Int /\ (r.chunks = <<>> => HeldBy(r.chunks) = 0)
  <2>1. PICK h : /\ h[0] = 0 /\ HeldBy(r.chunks) = h[Len(r.chunks)]
                 /\ \A i \in 0..Len(r.chunks) : h[i] \in Int
    BY <1>1, HeldByFold
  <2>2. Len(r.chunks) \in Nat /\ (r.chunks = <<>> => Len(r.chunks) = 0)
    BY <1>1, LenProperties, EmptySeq
  <2>3. Len(r.chunks) \in 0..Len(r.chunks)
    BY <2>2
  <2> QED BY <2>1, <2>2, <2>3
<1>3. CASE excess <= 0
  BY <1>3 DEF TrimOnce
<1>4. CASE ~(excess <= 0)
  <2>1. excess \in Nat /\ r.chunks # <<>>
    BY <1>2, <1>4, RingAssumption
  <2> HIDE DEF excess
  <2>2. DropFirst(r, excess) \in Rings /\ TrimFirst(r, excess) \in Rings
    BY <2>1, DropFirstIs, TrimFirstIs
  <2> QED BY <1>4, <2>2 DEF TrimOnce, excess
<1> QED BY <1>3, <1>4

\* The loop looks at one chunk after the other.
LEMMA TrimFold ==
  ASSUME NEW r \in Rings, NEW cs \in Seq(Chunk)
  PROVE  \E h : /\ h[0] = r /\ FoldLeft(TrimOnce, r, cs) = h[Len(cs)]
                /\ \A i \in 0..Len(cs) : h[i] \in Rings
                /\ \A i \in 1..Len(cs) : h[i] = TrimOnce(h[i - 1], cs[i])
<1> DEFINE n == Len(cs)
           base == r
           f == [x \in Rings \X (1..n) |-> TrimOnce(x[1], cs[x[2]])]
           iter == CHOOSE iter : iter =
             [s \in SUBSET (1..n) |->
                IF s = {} THEN r ELSE TrimOnce(iter[s \ {Max(s)}], cs[Max(s)])]
<1>1. n \in Nat /\ DOMAIN cs = 1..n /\ \A i \in 1..n : cs[i] \in Chunk
  BY LenProperties
<1>2. ASSUME NEW v \in Rings, NEW i \in 1..n PROVE TrimOnce(v, cs[i]) \in Rings
  BY <1>1, <1>2, TrimOnceType
<1>3. Operator(f, Rings, n) /\ base \in Rings
  <2>1. base \in Rings
    BY EmptySeq
  <2> QED BY <1>2, <2>1 DEF Operator
<1>4. PICK g : Folds(g, f, Rings, n, base)
  <2> HIDE DEF f, n, base
  <2> QED BY <1>1, <1>3, FoldExists
<1>5. g = [s \in SUBSET (1..n) |->
             IF s = {} THEN r ELSE TrimOnce(g[s \ {Max(s)}], cs[Max(s)])]
  BY <1>1, <1>4, Places DEF Folds
<1>6. iter = [s \in SUBSET (1..n) |->
                IF s = {} THEN r ELSE TrimOnce(iter[s \ {Max(s)}], cs[Max(s)])]
  BY <1>5
<1>7. FoldLeft(TrimOnce, r, cs) = iter[1..n]
  BY <1>1 DEF FoldLeft, MapThenFoldSet
<1> HIDE DEF iter
<1>8. iter[1..0] = base
  BY <1>1, <1>6, Places
<1>9. ASSUME NEW i \in 1..n PROVE iter[1..i] = TrimOnce(iter[1..(i - 1)], cs[i])
  <2>1. 1..i \in SUBSET (1..n) /\ 1..i # {} /\ Max(1..i) = i /\ (1..i) \ {i} = 1..(i - 1)
    BY <1>1, Places
  <2> HIDE DEF n
  <2> QED BY <1>6, <2>1
<1>10. \A i \in 0..n : iter[1..i] \in Rings
  <2> DEFINE T == {i \in 0..n : iter[1..i] \in Rings}
  <2>1. 0 \in T
    <3>1. 0 \in 0..n
      BY <1>1
    <3> HIDE DEF base, n
    <3> QED BY <1>3, <1>8, <3>1
  <2>2. ASSUME NEW i \in 1..n, i - 1 \in T PROVE i \in T
    <3>1. i \in 0..n /\ iter[1..(i - 1)] \in Rings
      BY <1>1, <2>2
    <3> HIDE DEF n
    <3> QED BY <1>2, <1>9, <3>1
  <2> HIDE DEF T, n
  <2>3. \A i \in 0..n : i \in T
    BY <1>1, <2>1, <2>2, RangeInduction
  <2> QED BY <2>3 DEF T
<1> DEFINE h == [i \in 0..n |-> iter[1..i]]
<1>11. \A i \in 0..n : h[i] = iter[1..i]
  OBVIOUS
<1>12. 0 \in 0..n /\ n \in 0..n /\ \A i \in 1..n : i \in 0..n /\ i - 1 \in 0..n
  BY <1>1
<1> HIDE DEF n, h
<1> WITNESS h
<1> QED BY <1>7, <1>8, <1>9, <1>10, <1>11, <1>12 DEF n


\* After i steps of the loop over cs: the ring is within its bound, and has dropped
\* no more than it had to, or its chunks are those that the loop has not looked at.
Trimming(r, cs, oldest, next, i) ==
  /\ r \in Rings /\ r.next = next /\ Linked(r.chunks, r.oldest, next)
  /\ oldest <= r.oldest
  /\ \/ next - r.oldest <= RingBytes /\ r.oldest <= Larger(oldest, next - RingBytes)
     \/ /\ next - r.oldest > RingBytes
        /\ Len(r.chunks) = Len(cs) - i
        /\ \A j \in 1..(Len(cs) - i) : r.chunks[j] = cs[i + j]

LEMMA TrimStep ==
  ASSUME NEW cs \in Seq(Chunk), NEW oldest \in Int, NEW next \in Int,
         NEW i \in 1..Len(cs), NEW r, Trimming(r, cs, oldest, next, i - 1)
  PROVE  Trimming(TrimOnce(r, cs[i]), cs, oldest, next, i)
<1> DEFINE n == Len(cs)
           excess == HeldBy(r.chunks) - RingBytes
<1>1. /\ r \in Rings /\ r.next = next /\ Linked(r.chunks, r.oldest, next)
      /\ oldest <= r.oldest /\ r.oldest \in Int /\ n \in Nat /\ RingBytes \in Nat \ {0}
  BY LenProperties, RingAssumption DEF Trimming, Rings
<1>2. excess = next - r.oldest - RingBytes
  <2>1. HeldBy(r.chunks) = next - r.oldest
    BY <1>1, HeldByLinked
  <2> QED BY <1>1, <2>1
<1>3. CASE excess <= 0
  <2>1. TrimOnce(r, cs[i]) = r
    BY <1>3 DEF TrimOnce
  <2>2. next - r.oldest <= RingBytes
    BY <1>1, <1>2, <1>3
  <2>3. r.oldest <= Larger(oldest, next - RingBytes)
    BY <1>1, <2>2 DEF Trimming
  <2> QED BY <1>1, <2>1, <2>2, <2>3 DEF Trimming
<1>4. CASE ~(excess <= 0)
  <2>1. next - r.oldest > RingBytes /\ excess \in Nat
    BY <1>1, <1>2, <1>4
  <2>2. /\ Len(r.chunks) = n - (i - 1)
        /\ \A j \in 1..(n - (i - 1)) : r.chunks[j] = cs[(i - 1) + j]
    BY <1>1, <2>1 DEF Trimming
  <2>3. Len(r.chunks) # 0 /\ r.chunks # <<>>
    <3>1. n - (i - 1) # 0
      BY <1>1
    <3> QED BY <2>2, <3>1, EmptySeq
  <2>4. r.chunks[1] = cs[i]
    <3>1. 1 \in 1..(n - (i - 1)) /\ (i - 1) + 1 = i
      BY <1>1
    <3> QED BY <2>2, <3>1
  <2>5. /\ Sound(cs[i]) /\ cs[i].cursor = r.oldest
    <3>1. 1 \in 1..Len(r.chunks)
      BY <1>1, <2>2
    <3> QED BY <1>1, <2>3, <2>4, <3>1 DEF Linked
  <2>6. Held(cs[i]) \in Nat \ {0} /\ EndOf(cs[i]) = r.oldest + Held(cs[i])
    BY <2>5, SoundType
  <2> HIDE DEF excess
  <2>7. CASE Held(cs[i]) <= excess
    <3> DEFINE x == DropFirst(r, excess)
    <3>1. TrimOnce(r, cs[i]) = x
      BY <1>4, <2>7 DEF TrimOnce, excess
    <3>2. /\ x \in Rings /\ x.chunks = Tail(r.chunks) /\ x.oldest = EndOf(cs[i])
          /\ x.next = next
      BY <1>1, <2>3, <2>4, DropFirstIs
    <3> HIDE DEF x
    <3>3. /\ Linked(x.chunks, x.oldest, next) /\ Len(x.chunks) = Len(r.chunks) - 1
          /\ \A j \in 1..(Len(r.chunks) - 1) : x.chunks[j] = r.chunks[j + 1]
      BY <1>1, <2>3, <2>4, <3>2, TailLinked
    <3>4. oldest <= x.oldest /\ next - x.oldest >= RingBytes
      BY SMTT(60), <1>1, <1>2, <2>6, <2>7, <3>2
    <3>5. Len(x.chunks) = n - i
      BY <1>1, <2>2, <3>3
    <3>6. ASSUME NEW j \in 1..(n - i) PROVE x.chunks[j] = cs[i + j]
      <4>1. /\ j \in 1..(Len(r.chunks) - 1) /\ j + 1 \in 1..(n - (i - 1))
            /\ (i - 1) + (j + 1) = i + j
        BY <1>1, <2>2
      <4> QED BY <2>2, <3>3, <4>1
    <3>7. x.oldest \in Int
      BY <3>2 DEF Rings
    <3>8. next - x.oldest <= RingBytes => x.oldest <= Larger(oldest, next - RingBytes)
      BY <1>1, <3>4, <3>7 DEF Larger
    <3>9. next - x.oldest <= RingBytes \/ next - x.oldest > RingBytes
      BY <1>1, <3>7
    <3> QED BY <3>1, <3>2, <3>3, <3>4, <3>5, <3>6, <3>8, <3>9 DEF Trimming
  <2>8. CASE ~(Held(cs[i]) <= excess)
    <3> DEFINE x == TrimFirst(r, excess)
    <3>1. TrimOnce(r, cs[i]) = x
      BY <1>4, <2>8 DEF TrimOnce, excess
    <3>2. /\ x \in Rings /\ x.chunks = [r.chunks EXCEPT ![1] = Later(cs[i], excess)]
          /\ x.oldest = r.oldest + excess /\ x.next = next
      BY SMTT(60), <1>1, <2>1, <2>3, <2>4, <2>5, TrimFirstIs
    <3> HIDE DEF x
    <3>3. Linked(x.chunks, x.oldest, next)
      <4>1. excess < Held(r.chunks[1])
        BY <2>1, <2>4, <2>6, <2>8
      <4>2. Linked([r.chunks EXCEPT ![1] = Later(r.chunks[1], excess)],
                   r.oldest + excess, next)
        BY <1>1, <2>1, <2>3, <4>1, LaterLinked
      <4> QED BY <2>4, <3>2, <4>2
    <3>4. /\ oldest <= x.oldest /\ next - x.oldest <= RingBytes
          /\ x.oldest <= Larger(oldest, next - RingBytes)
      <4>1. x.oldest = next - RingBytes
        BY <1>1, <1>2, <3>2
      <4> QED BY <1>1, <2>1, <3>2, <4>1 DEF Larger
    <3> QED BY <3>1, <3>2, <3>3, <3>4 DEF Trimming
  <2> QED BY <2>7, <2>8
<1> QED BY <1>3, <1>4

\* The loop leaves what the ring may hold.
LEMMA TrimmedLinked ==
  ASSUME NEW r \in Rings, Linked(r.chunks, r.oldest, r.next)
  PROVE  /\ Trimmed(r) \in Rings /\ Trimmed(r).next = r.next
         /\ Linked(Trimmed(r).chunks, Trimmed(r).oldest, r.next)
         /\ Trimmed(r).oldest = Larger(r.oldest, r.next - RingBytes)
<1> DEFINE cs == r.chunks
           n == Len(cs)
           x == Trimmed(r)
<1>1. cs \in Seq(Chunk) /\ n \in Nat /\ r.oldest \in Int /\ r.next \in Int
  <2>1. cs \in Seq(Chunk) /\ r.oldest \in Int /\ r.next \in Int
    BY DEF Rings
  <2> HIDE DEF cs
  <2> QED BY <2>1, LenProperties
<1>2. x = FoldLeft(TrimOnce, r, cs)
  BY DEF Trimmed
<1> HIDE DEF cs, x
<1>3. PICK h : /\ h[0] = r /\ x = h[n]
               /\ \A i \in 1..n : h[i] = TrimOnce(h[i - 1], cs[i])
  <2>1. PICK h : /\ h[0] = r /\ FoldLeft(TrimOnce, r, cs) = h[Len(cs)]
                 /\ \A i \in 0..Len(cs) : h[i] \in Rings
                 /\ \A i \in 1..Len(cs) : h[i] = TrimOnce(h[i - 1], cs[i])
    BY <1>1, TrimFold, Zenon
  <2> QED BY <1>2, <2>1
<1> DEFINE T == {i \in 0..n : Trimming(h[i], cs, r.oldest, r.next, i)}
<1>4. 0 \in T
  <2>1. n - 0 = n /\ 0 \in 0..n /\ \A j \in 1..n : 0 + j = j
    BY <1>1
  <2>2. r.next - r.oldest <= RingBytes => r.oldest <= Larger(r.oldest, r.next - RingBytes)
    BY <1>1, RingAssumption DEF Larger
  <2>3. r.next - r.oldest <= RingBytes \/ r.next - r.oldest > RingBytes
    BY <1>1, RingAssumption
  <2>4. r.oldest <= r.oldest
    BY <1>1
  <2>5. Linked(cs, r.oldest, r.next)
    BY DEF cs
  <2> HIDE DEF n
  <2>6. Trimming(r, cs, r.oldest, r.next, 0)
    BY <2>1, <2>2, <2>3, <2>4, <2>5 DEF Trimming, cs, n
  <2> QED BY <1>3, <2>1, <2>6
<1>5. ASSUME NEW i \in 1..n, i - 1 \in T PROVE i \in T
  <2>1. Trimming(h[i - 1], cs, r.oldest, r.next, i - 1) /\ i \in 0..n
    BY <1>1, <1>5
  <2>2. Trimming(TrimOnce(h[i - 1], cs[i]), cs, r.oldest, r.next, i)
    BY <1>1, <2>1, TrimStep
  <2> QED BY <1>3, <2>1, <2>2
<1>6. n \in T
  <2> HIDE DEF T, n
  <2>1. n \in 0..n
    BY <1>1
  <2> QED BY <1>1, <1>4, <1>5, <2>1, RangeInduction
<1>7. Trimming(x, cs, r.oldest, r.next, n)
  BY <1>3, <1>6
<1>8. x \in Rings /\ x.oldest \in Int /\ Linked(x.chunks, x.oldest, r.next)
      /\ x.next = r.next /\ r.oldest <= x.oldest
  BY <1>7 DEF Trimming, Rings
<1>9. r.next - x.oldest <= RingBytes /\ x.oldest <= Larger(r.oldest, r.next - RingBytes)
  <2>1. CASE Len(x.chunks) = 0
    <3>1. x.chunks = <<>>
      BY <1>8, <2>1, EmptySeq DEF Linked
    <3>2. x.oldest = r.next
      BY <1>8, <3>1 DEF Linked
    <3>3. ~(r.next - x.oldest > RingBytes)
      BY <1>1, <1>8, <3>2, RingAssumption
    <3> QED BY <1>7, <3>3 DEF Trimming
  <2>2. CASE Len(x.chunks) # 0
    <3>1. n - n = 0
      BY <1>1
    <3> QED BY <1>7, <2>2, <3>1 DEF Trimming
  <2> QED BY <2>1, <2>2
<1>10. x.oldest = Larger(r.oldest, r.next - RingBytes)
  BY <1>1, <1>8, <1>9, RingAssumption DEF Larger
<1> QED BY <1>8, <1>10 DEF x


-----------------------------------------------------------------------------
(* The ring, after output and when it is read.                             *)

LEMMA EmptyNewest == Newest(EmptyRing) /\ EmptyRing.next = 0
<1>1. Larger(0, 0 - RingBytes) = 0
  BY RingAssumption DEF Larger
<1>2. Linked(<<>>, 0, 0)
  BY EmptySeq DEF Linked
<1> QED BY <1>1, <1>2 DEF Newest, EmptyRing

LEMMA NewestType ==
  ASSUME NEW r, Newest(r)
  PROVE  /\ r \in Rings /\ r.next \in Nat /\ r.oldest \in Nat /\ r.oldest <= r.next
         /\ r.next - r.oldest <= RingBytes
<1>1. r.next \in Nat /\ r.oldest = Larger(0, r.next - RingBytes) /\ r.chunks \in Seq(Chunk)
      /\ r = [chunks |-> r.chunks, oldest |-> r.oldest, next |-> r.next]
  BY DEF Newest, Linked
<1>2. r.oldest \in Nat /\ r.oldest <= r.next /\ r.next - r.oldest <= RingBytes
  BY <1>1, RingAssumption DEF Larger
<1>3. r \in Rings
  <2>1. \A c \in Seq(Chunk), o, n \in Int : [chunks |-> c, oldest |-> o, next |-> n] \in Rings
    BY DEF Rings
  <2>2. [chunks |-> r.chunks, oldest |-> r.oldest, next |-> r.next] \in Rings
    BY <1>1, <1>2, <2>1
  <2> QED BY <1>1, <2>2, Zenon
<1> QED BY <1>1, <1>2, <1>3

\* As much as the ring holds replaces what it has.
LEMMA ReplacedNewest ==
  ASSUME NEW m \in Nat, NEW n \in Nat, n >= RingBytes
  PROVE  Newest([chunks |-> <<[cursor |-> (m + n) - RingBytes, start |-> 0, size |-> RingBytes,
                               data |-> SubSeq([i \in 1..n |-> m + i - 1],
                                               n - RingBytes + 1, n)]>>,
                 oldest |-> (m + n) - RingBytes, next |-> m + n])
<1> DEFINE bytes == [i \in 1..n |-> m + i - 1]
           data == SubSeq(bytes, n - RingBytes + 1, n)
           chunk == [cursor |-> (m + n) - RingBytes, start |-> 0, size |-> RingBytes, data |-> data]
           r == [chunks |-> <<chunk>>, oldest |-> (m + n) - RingBytes, next |-> m + n]
<1>1. RingBytes \in Nat \ {0}
  BY RingAssumption
<1>2. bytes \in Seq(Int) /\ Len(bytes) = n /\ \A i \in 1..n : bytes[i] = m + (i - 1)
  <2>1. bytes \in [1..n -> Int] /\ \A i \in 1..n : bytes[i] = m + (i - 1)
    OBVIOUS
  <2> HIDE DEF bytes
  <2> QED BY <2>1
<1> HIDE DEF bytes
<1>3. /\ data \in Seq(Int) /\ Len(data) = RingBytes
      /\ \A i \in 1..RingBytes : data[i] = bytes[(n - RingBytes) + i]
  <2> DEFINE a == n - RingBytes + 1
  <2>1. a \in Nat \ {0} /\ n - a + 1 = RingBytes /\ a <= n
        /\ \A i \in 1..RingBytes : a + i - 1 = (n - RingBytes) + i
    BY <1>1
  <2>2. \A i \in a..n : bytes[i] \in Int
    BY <1>2, <2>1
  <2> HIDE DEF a
  <2>3. /\ SubSeq(bytes, a, n) \in Seq(Int)
        /\ Len(SubSeq(bytes, a, n)) = IF a <= n THEN n - a + 1 ELSE 0
        /\ \A i \in 1..(n - a + 1) : SubSeq(bytes, a, n)[i] = bytes[a + i - 1]
    BY <2>1, <2>2, SubSeqProperties
  <2> QED BY <2>1, <2>3 DEF a
<1> HIDE DEF data
<1>4. ASSUME NEW i \in 1..RingBytes PROVE data[0 + i] = ((m + n) - RingBytes) + i - 1
  <2>1. (n - RingBytes) + i \in 1..n /\ 0 + i = i
    BY <1>1
  <2> QED BY <1>1, <1>2, <1>3, <2>1
<1>5. /\ chunk \in Chunk /\ chunk.cursor = (m + n) - RingBytes /\ chunk.start = 0
      /\ chunk.data = data
  BY <1>1, <1>3 DEF Chunk
<1> HIDE DEF chunk
<1>6. Held(chunk) = RingBytes
  BY <1>1, <1>3, <1>5 DEF Held
<1>7. Sound(chunk)
  BY <1>1, <1>4, <1>5, <1>6 DEF Sound
<1>8. EndOf(chunk) = m + n
  BY <1>1, <1>5, <1>6 DEF EndOf
<1>9. <<chunk>> \in Seq(Chunk) /\ Len(<<chunk>>) = 1 /\ <<chunk>>[1] = chunk
  BY <1>5
<1>10. Linked(<<chunk>>, (m + n) - RingBytes, m + n)
  BY <1>5, <1>7, <1>8, <1>9 DEF Linked
<1>11. (m + n) - RingBytes = Larger(0, (m + n) - RingBytes) /\ m + n \in Nat
  BY <1>1 DEF Larger
<1>12. /\ r = [chunks |-> <<chunk>>, oldest |-> (m + n) - RingBytes, next |-> m + n]
       /\ r.chunks = <<chunk>> /\ r.oldest = (m + n) - RingBytes /\ r.next = m + n
  OBVIOUS
<1>13. Newest(r)
  <2> HIDE DEF r
  <2> QED BY <1>10, <1>11, <1>12, Zenon DEF Newest
<1> QED BY <1>13 DEF chunk, data, bytes

\* Output keeps the newest bytes, and never gives back what was dropped.
LEMMA AppendNewest ==
  ASSUME NEW r, Newest(r), NEW n \in Nat
  PROVE  /\ Newest(AppendOutput(r, n)) /\ AppendOutput(r, n).next = r.next + n
         /\ r.oldest <= AppendOutput(r, n).oldest
<1> DEFINE x == AppendOutput(r, n)
           long == [chunks |-> FoldLeft(AppendByte, r.chunks, [i \in 1..n |-> r.next + i - 1]),
                    oldest |-> r.oldest, next |-> r.next + n]
<1>1. /\ r.next \in Nat /\ r.oldest \in Nat /\ r.oldest = Larger(0, r.next - RingBytes)
      /\ Linked(r.chunks, r.oldest, r.next) /\ RingBytes \in Nat \ {0}
  BY NewestType, RingAssumption DEF Newest
<1>2. CASE n >= RingBytes
  <2>1. x = [chunks |-> <<[cursor |-> (r.next + n) - RingBytes, start |-> 0, size |-> RingBytes,
                           data |-> SubSeq([i \in 1..n |-> r.next + i - 1],
                                           n - RingBytes + 1, n)]>>,
             oldest |-> (r.next + n) - RingBytes, next |-> r.next + n]
    BY <1>2, Zenon DEF AppendOutput
  <2>2. Newest(x)
    BY <1>1, <1>2, <2>1, ReplacedNewest, Zenon
  <2>3. x.next = r.next + n /\ x.oldest = (r.next + n) - RingBytes
    BY <2>1
  <2> HIDE DEF x
  <2>4. r.oldest <= (r.next + n) - RingBytes
    BY <1>1, <1>2 DEF Larger
  <2> QED BY <2>2, <2>3, <2>4 DEF x
<1>3. CASE ~(n >= RingBytes)
  <2>1. x = Trimmed(long)
    BY <1>3, Zenon DEF AppendOutput
  <2>2. Linked(long.chunks, r.oldest, r.next + n)
    BY <1>1, AppendLinked
  <2>3. long \in Rings /\ long.oldest = r.oldest /\ long.next = r.next + n
    <3>1. long.chunks \in Seq(Chunk) /\ r.oldest \in Int /\ r.next + n \in Int
      BY <1>1, <2>2 DEF Linked
    <3> QED BY <3>1 DEF Rings
  <2> HIDE DEF long
  <2>4. Linked(long.chunks, long.oldest, long.next)
    BY <2>2, <2>3
  <2>5. /\ x \in Rings /\ x.next = long.next /\ Linked(x.chunks, x.oldest, long.next)
        /\ x.oldest = Larger(long.oldest, long.next - RingBytes)
    BY <2>1, <2>3, <2>4, TrimmedLinked
  <2> HIDE DEF x
  <2>6. Linked(x.chunks, x.oldest, x.next) /\ x.next = r.next + n
        /\ x.oldest = Larger(r.oldest, (r.next + n) - RingBytes)
    BY <2>3, <2>5, Zenon
  <2>7. x.oldest = Larger(0, (r.next + n) - RingBytes) /\ r.oldest <= x.oldest
    BY <1>1, <2>6 DEF Larger
  <2>8. x.next \in Nat /\ x.oldest = Larger(0, x.next - RingBytes)
    BY <1>1, <2>6, <2>7
  <2>9. x = [chunks |-> x.chunks, oldest |-> x.oldest, next |-> x.next]
    BY <2>5 DEF Rings
  <2>10. Newest(x)
    BY <2>6, <2>8, <2>9, Zenon DEF Newest
  <2> QED BY <2>6, <2>7, <2>10 DEF x
<1> QED BY <1>2, <1>3

\* A read goes on at the cursor or at the oldest byte, and gives something unless
\* the cursor is at the end.
LEMMA SliceOf ==
  ASSUME NEW r, Newest(r), NEW c \in Nat, c <= r.next
  PROVE  LET slice == OutputSlice(r, c)
             from == Larger(c, r.oldest)
         IN  /\ slice = [data |-> slice.data, end |-> slice.end, next |-> r.next]
             /\ slice.data = Interval(from, slice.end) /\ slice.end \in Nat
             /\ from \in Nat /\ from <= slice.end /\ slice.end <= r.next
             /\ slice.end = c => r.next = c
<1> DEFINE slice == OutputSlice(r, c)
           from == Larger(c, r.oldest)
           to == Smaller(r.next, from + SliceBytes)
<1>1. /\ r.next \in Nat /\ r.oldest \in Nat /\ r.oldest <= r.next
      /\ Linked(r.chunks, r.oldest, r.next) /\ SliceBytes \in Nat \ {0}
  BY NewestType, RingAssumption DEF Newest
<1>2. from \in Nat /\ r.oldest <= from /\ c <= from /\ from <= r.next
  BY <1>1 DEF Larger
<1> HIDE DEF from
<1>3. /\ to \in Nat /\ from <= to /\ to <= r.next /\ Smaller(to, r.next) = to
      /\ to = c => r.next = c
  BY <1>1, <1>2 DEF Smaller
<1>4. slice = [data |-> Read(r.chunks, from, to), end |-> from + Len(Read(r.chunks, from, to)),
               next |-> r.next]
  BY Zenon DEF OutputSlice, Read, from
<1> HIDE DEF to, slice
<1>5. Read(r.chunks, from, to) = Interval(from, to)
  <2>1. Read(r.chunks, from, to) = Interval(from, Smaller(to, r.next))
    BY <1>1, <1>2, <1>3, SliceLinked
  <2> QED BY <1>3, <2>1
<1>6. Len(Interval(from, to)) = to - from
  BY <1>2, <1>3, IntervalProperties
<1>7. from + (to - from) = to
  BY <1>2, <1>3
<1>8. slice = [data |-> Interval(from, to), end |-> to, next |-> r.next]
  BY <1>4, <1>5, <1>6, <1>7
<1>9. slice.data = Interval(from, to) /\ slice.end = to /\ slice.next = r.next
  BY <1>8
<1> QED BY <1>2, <1>3, <1>8, <1>9 DEF slice, from

-----------------------------------------------------------------------------
(* Slices, for a reader that shows them.                                   *)

Slice == [data : Seq(Int), end : Nat, next : Nat]

\* A slice for a client at c: it goes on there, or at what the ring had then as its
\* oldest byte, and gives something if there was anything to give.
Continues(s, r, c) ==
  /\ s.end <= s.next /\ s.next <= r.next
  /\ \E from \in c..s.end : s.data = Interval(from, s.end) /\ (from # c => r.oldest >= from)
  /\ s.end = c => s.next = c

\* What was shown goes up to the cursor, but for what the ring has dropped.
LastOf(bytes) == IF bytes = <<>> THEN -1 ELSE bytes[Len(bytes)]

UpTo(bytes, c, r) ==
  /\ \A i \in 1..Len(bytes) :
       LET before == IF i = 1 THEN -1 ELSE bytes[i - 1] IN
       /\ before < bytes[i]
       /\ bytes[i] # before + 1 => r.oldest >= bytes[i]
  /\ LastOf(bytes) < c
  /\ LastOf(bytes) # c - 1 => r.oldest >= c

-----------------------------------------------------------------------------
(* What stays true when the ring goes on, and when bytes are shown.        *)

\* The ring r became the ring n.
GoesOn(r, n) ==
  /\ r.next \in Nat /\ r.oldest \in Nat /\ n.next \in Nat /\ n.oldest \in Nat
  /\ r.next <= n.next /\ r.oldest <= n.oldest

LEMMA ContinuesLater ==
  ASSUME NEW s \in Slice, NEW r, NEW n, GoesOn(r, n), NEW c \in Nat, Continues(s, r, c)
  PROVE  Continues(s, n, c)
<1>1. s.end \in Nat /\ s.next \in Nat
  BY DEF Slice
<1>2. s.end <= s.next /\ s.next <= n.next /\ (s.end = c => s.next = c)
  BY <1>1 DEF Continues, GoesOn
<1>3. PICK from \in c..s.end : /\ s.data = Interval(from, s.end)
                               /\ from # c => r.oldest >= from
  BY DEF Continues
<1>4. from # c => n.oldest >= from
  BY <1>1, <1>3 DEF GoesOn
<1> QED BY <1>2, <1>3, <1>4 DEF Continues

LEMMA ByteType ==
  ASSUME NEW bytes \in Seq(Int)
  PROVE  /\ Len(bytes) \in Nat /\ \A i \in 1..Len(bytes) : bytes[i] \in Int
         /\ LastOf(bytes) \in Int
         /\ bytes = <<>> <=> Len(bytes) = 0
<1>1. Len(bytes) \in Nat /\ (bytes = <<>> <=> Len(bytes) = 0)
  BY LenProperties, EmptySeq
<1>2. \A i \in 1..Len(bytes) : bytes[i] \in Int
  OBVIOUS
<1>3. Len(bytes) # 0 => Len(bytes) \in 1..Len(bytes)
  BY <1>1
<1> QED BY <1>1, <1>2, <1>3 DEF LastOf

LEMMA UpToLater ==
  ASSUME NEW bytes \in Seq(Int), NEW r, NEW n, GoesOn(r, n), NEW c \in Nat,
         UpTo(bytes, c, r)
  PROVE  UpTo(bytes, c, n)
<1>1. \A i \in 1..Len(bytes) : bytes[i] \in Int
  BY ByteType
<1>2. \A b \in Int : r.oldest >= b => n.oldest >= b
  BY DEF GoesOn
<1> QED BY <1>1, <1>2 DEF UpTo

\* What is shown goes on where the slice does.
LEMMA ShowMore ==
  ASSUME NEW bytes \in Seq(Int), NEW s \in Slice, NEW r, r.oldest \in Nat, NEW c \in Nat,
         UpTo(bytes, c, r), Continues(s, r, c)
  PROVE  /\ bytes \o s.data \in Seq(Int) /\ c <= s.end
         /\ UpTo(bytes \o s.data, s.end, r)
<1>1. s.end \in Nat /\ s.next \in Nat
  BY DEF Slice
<1>2. PICK from \in c..s.end : /\ s.data = Interval(from, s.end)
                               /\ from # c => r.oldest >= from
  BY DEF Continues
<1>3. from \in Nat /\ c <= from /\ from <= s.end
  BY <1>1, <1>2
<1> DEFINE n == Len(bytes)
           d == s.data
           all == bytes \o d
<1>4. /\ d \in Seq(Int) /\ Len(d) = s.end - from
      /\ \A i \in 1..(s.end - from) : d[i] = from + i - 1
  <2>1. ASSUME NEW a \in Nat, NEW b \in Nat, a <= b
        PROVE  /\ Interval(a, b) \in Seq(Int) /\ Len(Interval(a, b)) = b - a
               /\ \A i \in 1..(b - a) : Interval(a, b)[i] = a + i - 1
    <3>1. a \in Int /\ b \in Int
      OBVIOUS
    <3>2. /\ Interval(a, b) \in Seq(Int)
          /\ Len(Interval(a, b)) = IF a <= b THEN b - a ELSE 0
          /\ \A i \in 1..(b - a) : Interval(a, b)[i] = a + i - 1
      BY <3>1, IntervalProperties
    <3> QED BY <2>1, <3>2
  <2>2. /\ Interval(from, s.end) \in Seq(Int) /\ Len(Interval(from, s.end)) = s.end - from
        /\ \A i \in 1..(s.end - from) : Interval(from, s.end)[i] = from + i - 1
    BY <1>1, <1>3, <2>1
  <2> QED BY <1>2, <2>2
<1>5. /\ n \in Nat /\ \A i \in 1..n : bytes[i] \in Int
      /\ LastOf(bytes) \in Int /\ (bytes = <<>> <=> n = 0)
  BY ByteType
<1> HIDE DEF d
<1>6. /\ all \in Seq(Int) /\ Len(all) = n + (s.end - from)
      /\ \A i \in 1..(n + (s.end - from)) : all[i] = IF i <= n THEN bytes[i] ELSE d[i - n]
  <2>1. /\ all \in Seq(Int) /\ Len(all) = Len(bytes) + Len(d)
        /\ \A i \in 1..(Len(bytes) + Len(d)) :
             all[i] = IF i <= Len(bytes) THEN bytes[i] ELSE d[i - Len(bytes)]
    BY <1>4, ConcatProperties
  <2>2. Len(bytes) = n
    OBVIOUS
  <2> HIDE DEF n, all
  <2> QED BY <1>4, <2>1, <2>2
<1>7. all = <<>> <=> Len(all) = 0
  BY <1>6, ByteType
<1>8. LastOf(bytes) < c /\ (LastOf(bytes) # c - 1 => r.oldest >= c)
  BY DEF UpTo
<1>9. LastOf(bytes) = IF n = 0 THEN -1 ELSE bytes[n]
  BY <1>5 DEF LastOf
<1> HIDE DEF n, all
<1>10. ASSUME NEW i \in 1..Len(all)
       PROVE  LET before == IF i = 1 THEN -1 ELSE all[i - 1] IN
              before < all[i] /\ (all[i] # before + 1 => r.oldest >= all[i])
  <2>1. CASE i <= n
    <3>1. i \in 1..n /\ all[i] = bytes[i]
      BY <1>6, <2>1
    <3>2. i # 1 => all[i - 1] = bytes[i - 1]
      <4>1. i # 1 => i - 1 \in 1..(n + (s.end - from)) /\ i - 1 <= n
        BY SMTT(60), <1>1, <1>3, <1>5, <3>1
      <4> QED BY <1>6, <4>1
    <3> QED BY <3>1, <3>2 DEF UpTo, n
  <2>2. CASE i = n + 1
    <3>1. 1 \in 1..(s.end - from) /\ i - n = 1 /\ ~(i <= n)
      BY <1>1, <1>3, <1>5, <1>6, <2>2
    <3>2. all[i] = from
      BY SMTT(60), <1>2, <1>4, <1>6, <3>1
    <3>3. (IF i = 1 THEN -1 ELSE all[i - 1]) = LastOf(bytes)
      <4>1. CASE n = 0
        BY <1>9, <2>2, <4>1
      <4>2. CASE n # 0
        <5>1. i - 1 = n /\ n \in 1..(n + (s.end - from)) /\ i # 1 /\ n <= n
          BY SMTT(60), <1>1, <1>3, <1>5, <2>2, <4>2
        <5> QED BY <1>6, <1>9, <4>2, <5>1
      <4> QED BY <4>1, <4>2
    <3>4. LastOf(bytes) < from
      BY <1>3, <1>5, <1>8
    <3>5. from # LastOf(bytes) + 1 => r.oldest >= from
      BY <1>2, <1>3, <1>5, <1>8
    <3> QED BY <3>2, <3>3, <3>4, <3>5
  <2>3. CASE i > n + 1
    <3>1. /\ i - n \in 1..(s.end - from) /\ (i - 1) - n \in 1..(s.end - from)
          /\ ~(i <= n) /\ ~(i - 1 <= n) /\ i # 1 /\ i - 1 \in 1..(n + (s.end - from))
      <4>1. \A k, e, f, j \in Nat : f <= e /\ j <= k + (e - f) /\ j > k + 1 =>
              /\ j - k \in 1..(e - f) /\ (j - 1) - k \in 1..(e - f)
              /\ ~(j <= k) /\ ~(j - 1 <= k) /\ j # 1 /\ j - 1 \in 1..(k + (e - f))
        OBVIOUS
      <4>2. i \in Nat /\ i <= n + (s.end - from) /\ i > n + 1
        BY <1>1, <1>3, <1>5, <1>6, <2>3
      <4> QED BY <1>1, <1>3, <1>5, <4>1, <4>2
    <3>2. all[i] = from + (i - n) - 1 /\ all[i - 1] = from + ((i - 1) - n) - 1
      BY <1>4, <1>6, <3>1
    <3>3. all[i] = all[i - 1] + 1 /\ all[i - 1] < all[i]
      BY <1>3, <1>5, <3>2
    <3> QED BY <3>1, <3>3
  <2> QED BY <1>5, <2>1, <2>2, <2>3
<1>11. LastOf(all) < s.end /\ (LastOf(all) # s.end - 1 => r.oldest >= s.end)
  <2>1. CASE from = s.end
    <3>1. Len(all) = n
      BY <1>1, <1>5, <1>6, <2>1
    <3>2. LastOf(all) = LastOf(bytes)
      <4>1. n # 0 => all[n] = bytes[n]
        <5>1. n # 0 => n \in 1..(n + (s.end - from)) /\ n <= n
          BY <1>1, <1>3, <1>5
        <5> QED BY <1>6, <5>1
      <4> QED BY <1>7, <1>9, <3>1, <4>1 DEF LastOf
    <3> QED BY <1>1, <1>2, <1>3, <1>5, <1>8, <2>1, <3>2
  <2>2. CASE from # s.end
    <3>1. /\ Len(all) # 0 /\ Len(all) \in 1..(n + (s.end - from)) /\ ~(Len(all) <= n)
          /\ Len(all) - n = s.end - from /\ s.end - from \in 1..(s.end - from)
      <4> DEFINE e == s.end - from
      <4>1. e \in Nat \ {0}
        BY <1>1, <1>3, <2>2
      <4> HIDE DEF e
      <4>2. /\ n + e # 0 /\ n + e \in 1..(n + e) /\ ~(n + e <= n) /\ (n + e) - n = e
            /\ e \in 1..e
        BY <1>5, <4>1
      <4>3. Len(all) = n + e
        BY <1>6 DEF e
      <4>4. /\ Len(all) # 0 /\ Len(all) \in 1..(n + e) /\ ~(Len(all) <= n)
            /\ Len(all) - n = e /\ e \in 1..e
        BY <4>2, <4>3, Zenon
      <4> QED BY <4>4, Zenon DEF e
    <3>2. all[Len(all)] = from + (s.end - from) - 1
      BY <1>4, <1>6, <3>1
    <3>3. LastOf(all) = s.end - 1
      BY <1>1, <1>3, <1>7, <3>1, <3>2 DEF LastOf
    <3> QED BY <1>1, <3>3
  <2> QED BY <2>1, <2>2
<1>12. UpTo(all, s.end, r)
  BY <1>10, <1>11 DEF UpTo
<1>13. all = bytes \o s.data
  BY DEF all, d
<1>14. c <= s.end
  BY <1>1, <1>3
<1> QED BY <1>6, <1>12, <1>13, <1>14, Zenon

\* What is read at a cursor continues from there.
LEMMA SliceContinues ==
  ASSUME NEW r, Newest(r), NEW c \in Nat, c <= r.next
  PROVE  /\ OutputSlice(r, c) \in Slice /\ OutputSlice(r, c).next = r.next
         /\ Continues(OutputSlice(r, c), r, c)
         /\ c < r.oldest => OutputSlice(r, c).end # c
<1> DEFINE s == OutputSlice(r, c)
           from == Larger(c, r.oldest)
<1>1. /\ s = [data |-> s.data, end |-> s.end, next |-> r.next]
      /\ s.data = Interval(from, s.end) /\ s.end \in Nat
      /\ from \in Nat /\ from <= s.end /\ s.end <= r.next
      /\ s.end = c => r.next = c
  BY SliceOf
<1>2. r.next \in Nat /\ r.oldest \in Nat
  BY NewestType
<1>3. /\ c <= from /\ (from # c => r.oldest >= from)
      /\ c < r.oldest => from = r.oldest
  BY <1>2 DEF Larger
<1> HIDE DEF s, from
<1>4. s \in Slice /\ s.next = r.next
  <2>1. Interval(from, s.end) \in Seq(Int)
    BY <1>1, IntervalProperties
  <2>2. \A d \in Seq(Int), e, n \in Nat : /\ [data |-> d, end |-> e, next |-> n] \in Slice
                                          /\ [data |-> d, end |-> e, next |-> n].next = n
    BY DEF Slice
  <2>3. /\ [data |-> s.data, end |-> s.end, next |-> r.next] \in Slice
        /\ [data |-> s.data, end |-> s.end, next |-> r.next].next = r.next
    BY <1>1, <1>2, <2>1, <2>2
  <2> QED BY <1>1, <2>3, Zenon
<1>5. Continues(s, r, c)
  <2>1. from \in c..s.end
    BY <1>1, <1>3
  <2>2. s.end <= s.next /\ s.next <= r.next /\ (s.end = c => s.next = c)
    BY <1>1, <1>2, <1>4
  <2>3. s.data = Interval(from, s.end) /\ (from # c => r.oldest >= from)
    BY <1>1, <1>3
  <2> QED BY <2>1, <2>2, <2>3 DEF Continues
<1>6. c < r.oldest => s.end # c
  BY <1>1, <1>2, <1>3
<1> QED BY <1>4, <1>5, <1>6 DEF s

=============================================================================
