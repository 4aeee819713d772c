------------------------------ MODULE MemoryProofs ------------------------------
(***************************************************************************)
(* Theorems about Memory and BufferPools, for every heap, every number of  *)
(* processes, semaphores and pools and every choice of sizes:              *)
(*                                                                         *)
(*   HeapIsPartitioned   MemSpec => []HeapPartitioned                      *)
(*   FreeListIsInOrder   MemSpec => []FreeListCanonical                    *)
(*   EvenBlocksAreRegained  MemSpec => EvenBlocksComeBack                  *)
(*   BuffersAreApart     BufSpec => []BufferInOnePlace                     *)
(*   PoolsAreKept        BufSpec => PoolsStay                              *)
(*   UnlinksFindBuffers  BufSpec /\ PoolsOnly => []UnlinkFindsBuffer       *)
(***************************************************************************)
EXTENDS Memory, BufferPools, KernelServicesProofs, FiniteSetTheorems

\* A block of at least a word, and a list of them that rises with holes between.
MemBlocks == [at : Nat, len : Nat]
Sized(b) == b \in MemBlocks /\ b.len > 0
End(b) == b.at + b.len
Rising(list) ==
  /\ list \in Seq(MemBlocks)
  /\ \A i \in 1..Len(list) : Sized(list[i])
  /\ \A i, j \in 1..Len(list) : i < j => End(list[i]) < list[j].at

\* The words of a list.
WordsOf(list) == UNION {Words(list[i]) : i \in DOMAIN list}

\* Where a block begins and ends.
LEMMA BlockEnds ==
  ASSUME NEW b \in MemBlocks
  PROVE  /\ b.at \in Nat /\ b.len \in Nat /\ End(b) \in Nat
         /\ b.at <= End(b) /\ (b.len > 0 => b.at < End(b))
         /\ \A a : a \in Words(b) <=> a \in Int /\ b.at <= a /\ a < End(b)
<1>1. b.at \in Nat /\ b.len \in Nat
  BY DEF MemBlocks
<1> QED
  BY <1>1 DEF End, Words

\* A word is in a list when it is in one of its blocks.
LEMMA WordInList ==
  ASSUME NEW list \in Seq(MemBlocks)
  PROVE  \A a : a \in WordsOf(list) <=>
                 \E i \in 1..Len(list) : a \in Int /\ list[i].at <= a /\ a < End(list[i])
<1>1. Len(list) \in Nat /\ DOMAIN list = 1..Len(list) /\ \A i \in 1..Len(list) : list[i] \in MemBlocks
  BY LenProperties
<1>2. ASSUME NEW i \in 1..Len(list), NEW a
      PROVE  a \in Words(list[i]) <=> a \in Int /\ list[i].at <= a /\ a < End(list[i])
  <2>1. list[i].at \in Nat /\ list[i].len \in Nat
    BY <1>1 DEF MemBlocks
  <2> QED
    BY <2>1 DEF Words, End
<1> QED
  BY <1>1, <1>2 DEF WordsOf

\* What getmem() and getstk() leave of a list: the words that are not taken.
LEMMA ReducedKeeps ==
  ASSUME NEW list, Rising(list), NEW i \in 1..Len(list), NEW rest \in MemBlocks,
         list[i].at <= rest.at, End(rest) <= End(list[i])
  PROVE  /\ Rising(Reduced(list, i, rest))
         /\ \A a : a \in WordsOf(Reduced(list, i, rest)) <=>
                   \/ a \in Int /\ rest.at <= a /\ a < End(rest)
                   \/ \E j \in 1..Len(list) : /\ j # i /\ a \in Int
                                              /\ list[j].at <= a /\ a < End(list[j])
<1> DEFINE n == Len(list)
           r == Reduced(list, i, rest)
<1>1. /\ n \in Nat /\ list \in Seq(MemBlocks)
      /\ \A j \in 1..n : list[j] \in MemBlocks /\ Sized(list[j])
      /\ \A j, k \in 1..n : j < k => End(list[j]) < list[k].at
  BY LenProperties DEF Rising
<1>2. \A j \in 1..n : list[j].at \in Nat /\ list[j].len \in Nat /\ End(list[j]) \in Nat
                      /\ list[j].len > 0 /\ list[j].at < End(list[j])
  <2> SUFFICES ASSUME NEW j \in 1..n
               PROVE  list[j].at \in Nat /\ list[j].len \in Nat /\ End(list[j]) \in Nat
                      /\ list[j].len > 0 /\ list[j].at < End(list[j])
    OBVIOUS
  <2> HIDE DEF n
  <2>1. list[j] \in MemBlocks /\ list[j].len > 0
    BY <1>1 DEF Sized
  <2>2. list[j].at \in Nat /\ list[j].len \in Nat
    BY <2>1 DEF MemBlocks
  <2> QED
    BY <2>1, <2>2 DEF End
<1>3. rest.at \in Nat /\ rest.len \in Nat /\ End(rest) \in Nat /\ End(rest) = rest.at + rest.len
  BY DEF MemBlocks, End
<1>4. CASE rest.len = 0
  <2>1. r = RemoveAt(list, i)
    BY <1>4 DEF Reduced
  <2>2. r \in Seq(MemBlocks) /\ ClosedAt(r, list, i)
    BY <1>1, <2>1, RemoveAtShape
  <2> DEFINE back(j) == IF j <= i - 1 THEN j ELSE j + 1
  <2>3. Len(r) = n - 1 /\ \A j \in 1..n - 1 : r[j] = list[back(j)]
    BY <2>2 DEF ClosedAt
  <2>4. \A j \in 1..n - 1 : back(j) \in 1..n /\ back(j) # i
    BY <1>1
  <2>5. \A j, k \in 1..n - 1 : j < k => back(j) < back(k)
    BY <1>1
  <2>6. ASSUME NEW k \in 1..n, k # i PROVE \E j \in 1..n - 1 : back(j) = k
    <3>1. CASE k < i
      BY <1>1, <3>1
    <3>2. CASE k > i
      <4>1. k - 1 \in 1..n - 1 /\ back(k - 1) = k
        BY <1>1, <3>2
      <4> QED
        BY <4>1
    <3> QED
      BY <1>1, <2>6, <3>1, <3>2
  <2> HIDE DEF back, r
  <2>7. Rising(r)
    BY <1>1, <2>2, <2>3, <2>4, <2>5 DEF Rising
  <2>8. \A a : a \in WordsOf(r) <=> \E j \in 1..n : /\ j # i /\ a \in Int
                                                  /\ list[j].at <= a /\ a < End(list[j])
    <3>1. Len(list) = n /\ \A a : a \in WordsOf(r) <=>
            \E j \in 1..n - 1 : a \in Int /\ r[j].at <= a /\ a < End(r[j])
      BY <2>2, <2>3, WordInList
    <3>2. ASSUME NEW a, NEW j \in 1..n - 1, a \in Int, r[j].at <= a, a < End(r[j])
          PROVE  \E k \in 1..n : k # i /\ a \in Int /\ list[k].at <= a /\ a < End(list[k])
      BY <2>3, <2>4, <3>2
    <3>3. ASSUME NEW a, NEW k \in 1..n, k # i, a \in Int, list[k].at <= a, a < End(list[k])
          PROVE  \E j \in 1..n - 1 : a \in Int /\ r[j].at <= a /\ a < End(r[j])
      <4>1. PICK j \in 1..n - 1 : back(j) = k
        BY <2>6, <3>3
      <4>2. r[j] = list[k]
        BY <2>3, <4>1
      <4> QED
        BY <3>3, <4>2
    <3> QED
      BY <3>1, <3>2, <3>3
  <2>9. \A a \in Int : ~(rest.at <= a /\ a < End(rest))
    BY <1>3, <1>4
  <2> QED
    BY <2>7, <2>8, <2>9 DEF r
<1>5. CASE rest.len # 0
  <2>1. r = [list EXCEPT ![i] = rest]
    BY <1>5 DEF Reduced
  <2>2. list \in [1..n -> MemBlocks]
    BY <1>1, LenProperties
  <2>3. r \in Seq(MemBlocks) /\ Len(r) = n /\ r[i] = rest
        /\ \A j \in 1..n : j # i => r[j] = list[j]
    BY <1>1, <2>1, <2>2, ExceptSeq
  <2> HIDE DEF r
  <2>4. Sized(rest)
    BY <1>3, <1>5 DEF Sized
  <2>5. ASSUME NEW j \in 1..n, NEW k \in 1..n, j < k PROVE End(r[j]) < r[k].at
    <3>1. End(list[j]) < list[k].at
      BY <1>1, <2>5
    <3>2. End(r[j]) <= End(list[j]) /\ End(r[j]) \in Nat
      BY <1>2, <1>3, <2>3
    <3>3. list[k].at <= r[k].at /\ r[k].at \in Nat
      <4>1. CASE k = i
        BY <1>3, <2>3, <4>1
      <4>2. CASE k # i
        BY <1>2, <2>3, <4>2
      <4> QED
        BY <4>1, <4>2
    <3> QED
      BY <1>2, <3>1, <3>2, <3>3
  <2>6. Rising(r)
    BY <1>1, <2>3, <2>4, <2>5 DEF Rising
  <2>7. \A a : a \in WordsOf(r) <=>
                   \/ a \in Int /\ rest.at <= a /\ a < End(rest)
                   \/ \E j \in 1..n : /\ j # i /\ a \in Int
                                      /\ list[j].at <= a /\ a < End(list[j])
    BY <2>3, WordInList
  <2> QED
    BY <2>6, <2>7 DEF r
<1> QED
  BY <1>4, <1>5

\* getmem() and getstk() cut a block in two and leave one part on the list: the
\* list keeps its order and loses exactly the words of the part taken.
LEMMA CutKeeps ==
  ASSUME NEW list, Rising(list), NEW i \in 1..Len(list),
         NEW b \in MemBlocks, NEW rest \in MemBlocks,
         \/ b.at = list[i].at /\ End(b) = rest.at /\ End(rest) = End(list[i])
         \/ rest.at = list[i].at /\ End(rest) = b.at /\ End(b) = End(list[i])
  PROVE  /\ Rising(Reduced(list, i, rest))
         /\ Words(b) \subseteq WordsOf(list)
         /\ WordsOf(Reduced(list, i, rest)) = WordsOf(list) \ Words(b)
<1> DEFINE r == Reduced(list, i, rest)
<1>1. /\ Len(list) \in Nat /\ list \in Seq(MemBlocks)
      /\ \A j \in 1..Len(list) : list[j] \in MemBlocks
      /\ \A j, k \in 1..Len(list) : j < k => End(list[j]) < list[k].at
  BY LenProperties DEF Rising
<1>2. ASSUME NEW j \in 1..Len(list)
      PROVE  list[j].at \in Nat /\ list[j].len \in Nat /\ End(list[j]) \in Nat
             /\ list[j].at <= End(list[j])
  <2>1. list[j].at \in Nat /\ list[j].len \in Nat
    BY <1>1 DEF MemBlocks
  <2> QED
    BY <2>1 DEF End
<1>3. /\ rest.at \in Nat /\ End(rest) \in Nat /\ rest.at <= End(rest)
      /\ b.at \in Nat /\ End(b) \in Nat /\ b.at <= End(b)
  BY BlockEnds
<1>4. \A a : a \in Words(b) <=> a \in Int /\ b.at <= a /\ a < End(b)
  BY BlockEnds
<1>5. list[i].at <= rest.at /\ End(rest) <= End(list[i])
  BY <1>2, <1>3
<1>6. /\ Rising(r)
      /\ \A a : a \in WordsOf(r) <=>
                   \/ a \in Int /\ rest.at <= a /\ a < End(rest)
                   \/ \E j \in 1..Len(list) : /\ j # i /\ a \in Int
                                              /\ list[j].at <= a /\ a < End(list[j])
  BY <1>5, ReducedKeeps
<1>7. \A a : a \in WordsOf(list) <=>
                 \E j \in 1..Len(list) : a \in Int /\ list[j].at <= a /\ a < End(list[j])
  BY <1>1, WordInList
<1> HIDE DEF r
<1>8. ASSUME NEW a \in Int
      PROVE  list[i].at <= a /\ a < End(list[i]) <=>
               \/ b.at <= a /\ a < End(b)
               \/ rest.at <= a /\ a < End(rest)
  BY <1>2, <1>3
<1>9. ASSUME NEW a \in Int
      PROVE  ~(b.at <= a /\ a < End(b) /\ rest.at <= a /\ a < End(rest))
  BY <1>2, <1>3
<1>10. ASSUME NEW a \in Int, NEW j \in 1..Len(list), j # i,
              b.at <= a, a < End(b), list[j].at <= a, a < End(list[j])
       PROVE  FALSE
  <2>1. list[i].at <= a /\ a < End(list[i])
    BY <1>8, <1>10
  <2>2. j < i \/ i < j
    BY <1>1, <1>10
  <2>3. End(list[j]) < list[i].at \/ End(list[i]) < list[j].at
    BY <1>1, <2>2
  <2> QED
    BY <2>1, <2>3, <1>2, <1>10
<1>11. Words(b) \subseteq WordsOf(list)
  BY <1>4, <1>7, <1>8
<1>12. ASSUME NEW a, a \in WordsOf(r) PROVE a \in WordsOf(list) \ Words(b)
  <2>1. CASE a \in Int /\ rest.at <= a /\ a < End(rest)
    BY <2>1, <1>4, <1>7, <1>8, <1>9
  <2>2. CASE \E j \in 1..Len(list) : /\ j # i /\ a \in Int
                                     /\ list[j].at <= a /\ a < End(list[j])
    BY <2>2, <1>4, <1>7, <1>10
  <2> QED
    BY <1>6, <1>12, <2>1, <2>2
<1>13. ASSUME NEW a, a \in WordsOf(list), a \notin Words(b) PROVE a \in WordsOf(r)
  <2>1. PICK j \in 1..Len(list) : a \in Int /\ list[j].at <= a /\ a < End(list[j])
    BY <1>7, <1>13
  <2>2. CASE j = i
    BY <2>1, <2>2, <1>4, <1>6, <1>8, <1>13
  <2>3. CASE j # i
    BY <2>1, <2>3, <1>6
  <2> QED
    BY <2>2, <2>3
<1> QED
  BY <1>6, <1>11, <1>12, <1>13 DEF r

\* freemem() stops its search between the blocks below the address and the
\* others.
LEMMA BelowSplits ==
  ASSUME Rising(memlist), NEW at \in Nat
  PROVE  /\ Below(at) \in 0..Len(memlist)
         /\ \A i \in 1..Len(memlist) : memlist[i].at < at <=> i <= Below(at)
<1> DEFINE n == Len(memlist)
           S == {i \in DOMAIN memlist : memlist[i].at < at}
<1>1. /\ n \in Nat /\ DOMAIN memlist = 1..n
      /\ \A i \in 1..n : memlist[i] \in MemBlocks /\ memlist[i].len > 0
      /\ \A i, j \in 1..n : i < j => End(memlist[i]) < memlist[j].at
  BY LenProperties DEF Rising, Sized
<1>2. Below(at) = Cardinality(S)
  BY DEF Below
<1> HIDE DEF n
<1>3. ASSUME NEW i \in 1..n PROVE memlist[i].at \in Nat /\ memlist[i].at < End(memlist[i])
                                  /\ End(memlist[i]) \in Nat
  <2>1. memlist[i].at \in Nat /\ memlist[i].len \in Nat /\ memlist[i].len > 0
    BY <1>1 DEF MemBlocks
  <2> QED
    BY <2>1 DEF End
<1>4. ASSUME NEW i \in 1..n, NEW j \in S, i < j PROVE i \in S
  BY <1>1, <1>3, <1>4
<1>5. CASE S = {}
  <2>1. Below(at) = 0
    BY <1>2, <1>5, FS_EmptySet
  <2> QED
    BY <1>1, <1>5, <2>1 DEF n
<1>6. CASE S # {}
  <2>1. S \in SUBSET Int /\ \A y \in S : y <= n
    BY <1>1
  <2>2. Max(S) \in S /\ \A y \in S : y <= Max(S)
    <3> HIDE DEF S
    <3>1. n \in Int
      BY <1>1
    <3> QED
      BY <3>1, <1>6, <2>1, MaxOfBounded
  <2> DEFINE m == Max(S)
  <2>3. m \in 1..n /\ m \in S /\ \A y \in S : y <= m
    BY <1>1, <2>2
  <2> HIDE DEF m
  <2>4. S = 1..m
    BY <1>1, <1>4, <2>1, <2>3
  <2>5. Cardinality(1..m) = m
    <3>1. 1 \in Int /\ m \in Int /\ ~(1 > m)
      BY <1>1, <2>3
    <3>2. Cardinality(1..m) = m - 1 + 1
      BY <3>1, FS_Interval
    <3> QED
      BY <3>1, <3>2
  <2>6. Below(at) = m
    BY <1>2, <2>4, <2>5
  <2>7. \A i \in 1..n : memlist[i].at < at <=> i <= m
    <3>1. \A i \in 1..n : memlist[i].at < at <=> i \in S
      BY <1>1
    <3> HIDE DEF S
    <3> QED
      BY <1>1, <2>3, <2>4, <3>1
  <2> QED
    BY <1>1, <2>3, <2>6, <2>7 DEF n
<1> QED
  BY <1>5, <1>6

\* The two neighbours freemem() looks at are enough: a block that shares a word
\* with any block on the list reaches into one of them.
LEMMA OverlapIsSharing ==
  ASSUME Rising(memlist), NEW b \in MemBlocks, b.len > 0
  PROVE  Overlaps(b) <=> Words(b) \cap FreeWords # {}
<1> DEFINE n == Len(memlist)
           q == Below(b.at)
<1>1. /\ n \in Nat /\ memlist \in Seq(MemBlocks)
      /\ \A i \in 1..n : memlist[i] \in MemBlocks /\ memlist[i].len > 0
      /\ \A i, j \in 1..n : i < j => End(memlist[i]) < memlist[j].at
  BY LenProperties DEF Rising, Sized
<1>2. b.at \in Nat /\ b.len \in Nat /\ End(b) \in Nat /\ b.at < End(b)
  <2>1. b.at \in Nat /\ b.len \in Nat
    BY DEF MemBlocks
  <2> QED
    BY <2>1 DEF End
<1>3. \A a : a \in Words(b) <=> a \in Int /\ b.at <= a /\ a < End(b)
  BY <1>2 DEF Words, End
<1>4. FreeWords = WordsOf(memlist)
  BY DEF FreeWords, WordsOf
<1>5. \A a : a \in FreeWords <=>
         \E i \in 1..n : a \in Int /\ memlist[i].at <= a /\ a < End(memlist[i])
  BY <1>1, <1>4, WordInList
<1>6. q \in 0..n /\ \A i \in 1..n : memlist[i].at < b.at <=> i <= q
  BY <1>2, BelowSplits
<1>7. Overlaps(b) <=> \/ q > 0 /\ End(memlist[q]) > b.at
                      \/ q < n /\ End(b) > memlist[q + 1].at
  BY DEF Overlaps, End
<1> HIDE DEF n, q
<1>8. ASSUME NEW i \in 1..n PROVE memlist[i].at \in Nat /\ memlist[i].at < End(memlist[i])
                                  /\ End(memlist[i]) \in Nat
  <2>1. memlist[i].at \in Nat /\ memlist[i].len \in Nat /\ memlist[i].len > 0
    BY <1>1 DEF MemBlocks
  <2> QED
    BY <2>1 DEF End
<1>9. ASSUME Overlaps(b) PROVE Words(b) \cap FreeWords # {}
  <2>1. CASE q > 0 /\ End(memlist[q]) > b.at
    <3>1. q \in 1..n
      BY <1>1, <1>6, <2>1
    <3>2. b.at \in Int /\ memlist[q].at <= b.at /\ b.at < End(memlist[q])
      BY <1>2, <1>6, <1>8, <2>1, <3>1
    <3>3. b.at \in FreeWords
      BY <1>5, <3>1, <3>2
    <3>4. b.at \in Words(b)
      BY <1>2, <1>3
    <3> QED
      BY <3>3, <3>4
  <2>2. CASE q < n /\ End(b) > memlist[q + 1].at
    <3>1. q + 1 \in 1..n /\ ~(q + 1 <= q)
      BY <1>1, <1>6, <2>2
    <3> DEFINE a == memlist[q + 1].at
    <3>2. a \in Nat /\ a < End(memlist[q + 1])
      BY <1>8, <3>1
    <3>3. b.at <= a
      BY <1>2, <1>6, <3>1, <3>2
    <3>4. a \in FreeWords
      BY <1>5, <3>1, <3>2
    <3>5. a \in Words(b)
      BY <1>3, <2>2, <3>2, <3>3
    <3> QED
      BY <3>4, <3>5
  <2> QED
    BY <1>7, <1>9, <2>1, <2>2
<1>10. ASSUME NEW a, a \in Words(b), a \in FreeWords PROVE Overlaps(b)
  <2>1. a \in Int /\ b.at <= a /\ a < End(b)
    BY <1>3, <1>10
  <2>2. PICK i \in 1..n : memlist[i].at <= a /\ a < End(memlist[i])
    BY <1>5, <1>10
  <2>3. CASE i <= q
    <3>1. memlist[i].at < b.at
      BY <1>6, <2>3
    <3>2. q \in 1..n /\ q > 0
      BY <1>1, <1>6, <2>3
    <3>3. i = q
      <4> SUFFICES ASSUME i < q PROVE FALSE
        BY <1>1, <1>6, <2>3
      <4>1. End(memlist[i]) < memlist[q].at
        BY <1>1, <3>2
      <4>2. memlist[q].at < b.at
        BY <1>6, <3>2
      <4> QED
        BY <1>2, <1>8, <2>1, <2>2, <3>2, <4>1, <4>2
    <3>4. End(memlist[q]) > b.at
      BY <1>2, <1>8, <2>1, <2>2, <3>3
    <3> QED
      BY <1>7, <3>2, <3>4
  <2>4. CASE i > q
    <3>1. q + 1 \in 1..n /\ q < n /\ q + 1 <= i
      BY <1>1, <1>6, <2>4
    <3>2. memlist[q + 1].at <= memlist[i].at
      <4>1. CASE q + 1 = i
        BY <1>8, <4>1
      <4>2. CASE q + 1 < i
        <5>1. End(memlist[q + 1]) < memlist[i].at
          BY <1>1, <3>1, <4>2
        <5> QED
          BY <1>8, <3>1, <5>1
      <4> QED
        BY <1>1, <1>6, <3>1, <4>1, <4>2
    <3>3. memlist[q + 1].at < End(b)
      BY <1>2, <1>8, <2>1, <2>2, <3>1, <3>2
    <3> QED
      BY <1>2, <1>7, <1>8, <3>1, <3>3
  <2> QED
    BY <1>1, <1>6, <2>3, <2>4
<1> QED
  BY <1>9, <1>10

\* A block of the list grows upwards: only its length changes.
LEMMA GrownShape ==
  ASSUME NEW list \in Seq(MemBlocks), NEW k \in 1..Len(list), NEW m \in Nat
  PROVE  LET r == [list EXCEPT ![k].len = @ + m]
         IN  /\ r \in Seq(MemBlocks) /\ Len(r) = Len(list)
             /\ r[k] = [at |-> list[k].at, len |-> list[k].len + m]
             /\ \A j \in 1..Len(list) : j # k => r[j] = list[j]
<1> DEFINE r == [list EXCEPT ![k].len = @ + m]
           e == [at |-> list[k].at, len |-> list[k].len + m]
<1>1. list[k] \in MemBlocks
  BY ElementOfSeq
<1>2. list[k].at \in Nat /\ list[k].len \in Nat
  BY <1>1, BlockEnds
<1>3. e \in MemBlocks
  <2>1. list[k].len + m \in Nat
    BY <1>2
  <2> QED
    BY <1>2, <2>1 DEF MemBlocks
<1>4. [list[k] EXCEPT !.len = @ + m] = e
  BY <1>1 DEF MemBlocks
<1>5. r = [list EXCEPT ![k] = [list[k] EXCEPT !.len = @ + m]]
  OBVIOUS
<1>6. r = [list EXCEPT ![k] = e]
  BY <1>4, <1>5
<1> HIDE DEF r, e
<1>7. /\ r \in Seq(MemBlocks) /\ Len(r) = Len(list)
      /\ \A j \in 1..Len(list) : r[j] = IF j = k THEN e ELSE list[j]
  BY <1>3, <1>6, ExceptSeq
<1> QED
  BY <1>7 DEF r, e

\* A list in order, but for one block that may touch the one above it.
Touching(list, k) ==
  /\ list \in Seq(MemBlocks)
  /\ \A i \in 1..Len(list) : Sized(list[i])
  /\ \A i, j \in 1..Len(list) : i < j =>
       End(list[i]) < list[j].at \/ (i = k /\ j = k + 1 /\ End(list[i]) = list[j].at)

\* Merging the two restores the order and keeps the words.
LEMMA MergeUpKeeps ==
  ASSUME NEW list, NEW k \in 1..Len(list), Touching(list, k)
  PROVE  Rising(MergeUp(list, k)) /\ WordsOf(MergeUp(list, k)) = WordsOf(list)
<1> DEFINE n == Len(list)
<1>1. /\ n \in Nat /\ list \in Seq(MemBlocks)
      /\ \A j \in 1..n : list[j] \in MemBlocks /\ Sized(list[j])
      /\ \A i, j \in 1..n : i < j =>
           End(list[i]) < list[j].at \/ (i = k /\ j = k + 1 /\ End(list[i]) = list[j].at)
  BY LenProperties DEF Touching, Sized
<1>2. CASE ~(k < n /\ End(list[k]) = list[k + 1].at)
  <2>1. MergeUp(list, k) = list
    BY <1>2 DEF MergeUp, End
  <2>2. ASSUME NEW i \in 1..n, NEW j \in 1..n, i < j PROVE End(list[i]) < list[j].at
    <3>1. CASE i = k /\ j = k + 1 /\ End(list[i]) = list[j].at
      BY <1>1, <1>2, <2>2, <3>1
    <3> QED
      BY <1>1, <2>2, <3>1
  <2>3. Rising(list)
    BY <1>1, <2>2 DEF Rising
  <2> QED
    BY <2>1, <2>3
<1>3. CASE k < n /\ End(list[k]) = list[k + 1].at
  <2> DEFINE above == list[k + 1]
             grown == [list EXCEPT ![k].len = @ + above.len]
             r == RemoveAt(grown, k + 1)
             back(j) == IF j <= k THEN j ELSE j + 1
  <2>1. MergeUp(list, k) = r
    BY <1>3 DEF MergeUp, End
  <2>2. k \in 1..n /\ k + 1 \in 1..n
    BY <1>1, <1>3
  <2>3. above \in MemBlocks /\ above.len \in Nat
    BY <1>1, <2>2, BlockEnds
  <2>4. /\ grown \in Seq(MemBlocks) /\ Len(grown) = n
        /\ grown[k] = [at |-> list[k].at, len |-> list[k].len + above.len]
        /\ \A j \in 1..n : j # k => grown[j] = list[j]
    <3> HIDE DEF above
    <3> QED
      BY <1>1, <2>2, <2>3, GrownShape
  <2> HIDE DEF grown
  <2>5. r \in Seq(MemBlocks) /\ ClosedAt(r, grown, k + 1)
    BY <2>2, <2>4, RemoveAtShape
  <2> HIDE DEF r
  <2>6. Len(r) = n - 1 /\ \A j \in 1..n - 1 : r[j] = grown[back(j)]
    BY <1>1, <2>2, <2>4, <2>5 DEF ClosedAt
  <2>7. ASSUME NEW j \in 1..n - 1 PROVE back(j) \in 1..n /\ back(j) # k + 1 /\ (back(j) = k <=> j = k)
    BY <1>1, <2>2
  <2>8. ASSUME NEW i \in 1..n - 1, NEW j \in 1..n - 1, i < j PROVE back(i) < back(j)
    BY <1>1, <2>2, <2>8
  <2>9. ASSUME NEW i \in 1..n, i # k + 1 PROVE \E j \in 1..n - 1 : back(j) = i
    <3>1. CASE i <= k
      BY <1>1, <2>2, <3>1
    <3>2. CASE i > k
      <4>1. i - 1 \in 1..n - 1 /\ back(i - 1) = i
        BY <1>1, <2>2, <2>9, <3>2
      <4> QED
        BY <4>1
    <3> QED
      BY <1>1, <2>2, <3>1, <3>2
  <2> HIDE DEF back
  <2>10. /\ grown[k].at = list[k].at /\ grown[k].len = list[k].len + above.len
         /\ End(grown[k]) = End(above) /\ Sized(grown[k])
    <3>1. grown[k].at = list[k].at /\ grown[k].len = list[k].len + above.len
      BY <2>4
    <3>2. list[k].at \in Nat /\ list[k].len \in Nat /\ list[k].len > 0
      BY <1>1, <2>2, BlockEnds DEF Sized
    <3>3. above.at \in Nat /\ above.len \in Nat
      BY <1>1, <2>2, BlockEnds DEF Sized
    <3>4. list[k].at + list[k].len = above.at
      BY <1>3 DEF End
    <3>5. End(grown[k]) = End(above)
      <4>1. list[k].at + (list[k].len + above.len) = (list[k].at + list[k].len) + above.len
        BY <3>2, <3>3
      <4> QED
        BY <3>1, <3>4, <4>1 DEF End
    <3>6. grown[k] \in MemBlocks
      BY <2>2, <2>4, ElementOfSeq
    <3>7. list[k].len + above.len > 0
      BY <3>2, <3>3
    <3> QED
      BY <3>1, <3>2, <3>5, <3>6, <3>7 DEF Sized
  <2>11. ASSUME NEW i \in 1..n PROVE /\ list[i].at \in Nat /\ End(list[i]) \in Nat
                                     /\ list[i].at < End(list[i])
    <3>1. list[i] \in MemBlocks /\ list[i].len > 0
      BY <1>1 DEF Sized
    <3> QED
      BY <3>1, BlockEnds
  <2>12. ASSUME NEW i \in 1..n, NEW j \in 1..n, i < j, i # k + 1, j # k + 1
         PROVE  End(grown[i]) < grown[j].at
    <3>1. grown[j].at = list[j].at
      BY <2>4, <2>10
    <3>2. CASE i = k
      <4>1. k + 1 < j
        BY <1>1, <2>2, <2>12, <3>2
      <4>2. End(above) < list[j].at
        BY <1>1, <2>2, <4>1
      <4> QED
        BY <2>10, <3>1, <3>2, <4>2
    <3>3. CASE i # k
      <4>1. End(list[i]) < list[j].at
        BY <1>1, <2>12, <3>3
      <4> QED
        BY <2>4, <3>1, <3>3, <4>1
    <3> QED
      BY <3>2, <3>3
  <2>13. Rising(r)
    <3>1. ASSUME NEW i \in 1..n - 1 PROVE Sized(r[i])
      <4>1. CASE i = k
        BY <2>6, <2>7, <2>10, <4>1
      <4>2. CASE i # k
        BY <1>1, <2>4, <2>6, <2>7, <4>2
      <4> QED
        BY <4>1, <4>2
    <3>2. ASSUME NEW i \in 1..n - 1, NEW j \in 1..n - 1, i < j PROVE End(r[i]) < r[j].at
      <4>1. back(i) \in 1..n /\ back(j) \in 1..n /\ back(i) < back(j)
            /\ back(i) # k + 1 /\ back(j) # k + 1
        BY <2>7, <2>8, <3>2
      <4>2. End(grown[back(i)]) < grown[back(j)].at
        BY <2>12, <4>1
      <4> QED
        BY <2>6, <4>2
    <3> QED
      BY <2>5, <2>6, <3>1, <3>2 DEF Rising
  <2>14. \A a : a \in WordsOf(r) <=>
                \E j \in 1..n - 1 : a \in Int /\ r[j].at <= a /\ a < End(r[j])
    BY <2>5, <2>6, WordInList
  <2>15. \A a : a \in WordsOf(list) <=>
                \E j \in 1..n : a \in Int /\ list[j].at <= a /\ a < End(list[j])
    BY <1>1, WordInList
  <2>16. ASSUME NEW a \in Int
         PROVE  grown[k].at <= a /\ a < End(grown[k]) <=>
                  \/ list[k].at <= a /\ a < End(list[k])
                  \/ above.at <= a /\ a < End(above)
    <3>1. End(list[k]) = above.at
      BY <1>3
    <3> QED
      BY <2>2, <2>10, <2>11, <3>1
  <2>17. ASSUME NEW a, a \in WordsOf(r) PROVE a \in WordsOf(list)
    <3>1. PICK j \in 1..n - 1 : a \in Int /\ r[j].at <= a /\ a < End(r[j])
      BY <2>14, <2>17
    <3>2. CASE j = k
      BY <2>2, <2>6, <2>7, <2>15, <2>16, <3>1, <3>2
    <3>3. CASE j # k
      <4>1. r[j] = list[back(j)] /\ back(j) \in 1..n
        BY <2>4, <2>6, <2>7, <3>3
      <4> QED
        BY <2>15, <3>1, <4>1
    <3> QED
      BY <3>2, <3>3
  <2>18. ASSUME NEW a, a \in WordsOf(list) PROVE a \in WordsOf(r)
    <3>1. PICK i \in 1..n : a \in Int /\ list[i].at <= a /\ a < End(list[i])
      BY <2>15, <2>18
    <3>2. CASE i = k \/ i = k + 1
      <4>1. grown[k].at <= a /\ a < End(grown[k])
        BY <2>16, <3>1, <3>2
      <4>2. k \in 1..n - 1
        BY <1>1, <2>2
      <4>3. r[k] = grown[k]
        BY <2>6, <2>7, <4>2
      <4> QED
        BY <2>14, <3>1, <4>1, <4>2, <4>3
    <3>3. CASE i # k /\ i # k + 1
      <4>1. PICK j \in 1..n - 1 : back(j) = i
        BY <2>9, <3>3
      <4>2. r[j] = list[i]
        BY <2>4, <2>6, <3>3, <4>1
      <4> QED
        BY <2>14, <3>1, <4>2
    <3> QED
      BY <3>2, <3>3
  <2> QED
    BY <2>1, <2>13, <2>17, <2>18
<1> QED
  BY <1>2, <1>3

\* A block put on the list in its place, or added to the one below that it
\* touches, leaves at most one pair of blocks that touch.
LEMMA PlacedTouches ==
  ASSUME NEW list, Rising(list), NEW b, Sized(b), NEW q \in 0..Len(list),
         \A i \in 1..Len(list) : IF i <= q THEN End(list[i]) <= b.at ELSE End(b) <= list[i].at
  PROVE  /\ (q > 0 /\ End(list[q]) = b.at) =>
              LET r == [list EXCEPT ![q].len = @ + b.len]
              IN  /\ Touching(r, q) /\ Len(r) = Len(list)
                  /\ WordsOf(r) = WordsOf(list) \cup Words(b)
         /\ ~(q > 0 /\ End(list[q]) = b.at) =>
              LET r == InsertAt(list, q + 1, b)
              IN  /\ Touching(r, q + 1) /\ Len(r) = Len(list) + 1
                  /\ WordsOf(r) = WordsOf(list) \cup Words(b)
<1> DEFINE n == Len(list)
<1>1. /\ n \in Nat /\ list \in Seq(MemBlocks)
      /\ \A j \in 1..n : list[j] \in MemBlocks /\ Sized(list[j])
      /\ \A i, j \in 1..n : i < j => End(list[i]) < list[j].at
      /\ q \in 0..n
      /\ \A i \in 1..n : IF i <= q THEN End(list[i]) <= b.at ELSE End(b) <= list[i].at
  BY LenProperties DEF Rising
<1>2. /\ b \in MemBlocks /\ b.at \in Nat /\ b.len \in Nat /\ End(b) \in Nat /\ b.at < End(b)
      /\ b.len > 0
      /\ \A a : a \in Words(b) <=> a \in Int /\ b.at <= a /\ a < End(b)
  BY BlockEnds DEF Sized
<1>3. ASSUME NEW i \in 1..n
      PROVE  /\ list[i].at \in Nat /\ list[i].len \in Nat /\ End(list[i]) \in Nat
             /\ list[i].at < End(list[i]) /\ list[i].len > 0
  BY <1>1, BlockEnds DEF Sized
<1>4. \A a : a \in WordsOf(list) <=>
             \E j \in 1..n : a \in Int /\ list[j].at <= a /\ a < End(list[j])
  BY <1>1, WordInList
<1> HIDE DEF n
<1>5. ASSUME q > 0, End(list[q]) = b.at,
             NEW r, r = [list EXCEPT ![q].len = @ + b.len]
      PROVE  /\ Touching(r, q) /\ Len(r) = n
             /\ WordsOf(r) = WordsOf(list) \cup Words(b)
  <2>1. q \in 1..n
    BY <1>1, <1>5
  <2>2. /\ r \in Seq(MemBlocks) /\ Len(r) = n
        /\ r[q] = [at |-> list[q].at, len |-> list[q].len + b.len]
        /\ \A j \in 1..n : j # q => r[j] = list[j]
    BY <1>1, <1>2, <1>5, <2>1, GrownShape DEF n
  <2>3. /\ r[q].at = list[q].at /\ End(r[q]) = End(b) /\ Sized(r[q])
    <3>1. r[q].at = list[q].at /\ r[q].len = list[q].len + b.len
      BY <2>2
    <3>2. list[q].len + b.len > 0
      BY <1>2, <1>3, <2>1
    <3>3. list[q].at + list[q].len = b.at
      BY <1>5 DEF End
    <3>4. list[q].at + (list[q].len + b.len) = (list[q].at + list[q].len) + b.len
      BY <1>2, <1>3, <2>1
    <3>5. End(r[q]) = End(b)
      BY <3>1, <3>3, <3>4 DEF End
    <3>6. r[q] \in MemBlocks
      BY <2>1, <2>2, ElementOfSeq
    <3> QED
      BY <1>3, <2>1, <3>1, <3>2, <3>5, <3>6 DEF Sized
  <2>4. ASSUME NEW i \in 1..n, NEW j \in 1..n, i < j
        PROVE  End(r[i]) < r[j].at \/ (i = q /\ j = q + 1 /\ End(r[i]) = r[j].at)
    <3>1. r[j].at = list[j].at
      BY <2>2, <2>3
    <3>2. CASE i # q
      BY <1>1, <2>2, <2>4, <3>1, <3>2
    <3>3. CASE i = q
      <4>1. End(r[i]) <= r[j].at
        BY <1>1, <2>3, <2>4, <3>1, <3>3
      <4>2. CASE j = q + 1
        BY <1>2, <1>3, <2>3, <3>1, <3>3, <4>1, <4>2
      <4>3. CASE j # q + 1
        <5>1. q + 1 \in 1..n /\ q + 1 < j /\ ~(q + 1 <= q)
          BY <1>1, <2>4, <3>3, <4>3
        <5>2. End(b) <= list[q + 1].at /\ End(list[q + 1]) < list[j].at
          BY <1>1, <5>1
        <5>3. /\ list[q + 1].at \in Nat /\ End(list[q + 1]) \in Nat
              /\ list[q + 1].at < End(list[q + 1]) /\ list[j].at \in Nat
          BY <1>3, <5>1
        <5>4. End(b) < list[j].at
          BY <1>2, <5>2, <5>3
        <5>5. End(r[i]) = End(b) /\ r[j].at = list[j].at
          BY <2>3, <3>1, <3>3
        <5> QED
          BY <5>4, <5>5
      <4> QED
        BY <4>2, <4>3
    <3> QED
      BY <3>2, <3>3
  <2>5. \A i \in 1..n : Sized(r[i])
    BY <1>1, <2>2, <2>3
  <2>6. Touching(r, q)
    BY <2>2, <2>4, <2>5 DEF Touching
  <2>7. \A a : a \in WordsOf(r) <=>
              \E j \in 1..n : a \in Int /\ r[j].at <= a /\ a < End(r[j])
    BY <2>2, WordInList
  <2>8. ASSUME NEW a \in Int
        PROVE  r[q].at <= a /\ a < End(r[q]) <=>
                 \/ list[q].at <= a /\ a < End(list[q])
                 \/ b.at <= a /\ a < End(b)
    BY <1>2, <1>3, <1>5, <2>1, <2>3
  <2>9. ASSUME NEW a, a \in WordsOf(r) PROVE a \in WordsOf(list) \cup Words(b)
    <3>1. PICK j \in 1..n : a \in Int /\ r[j].at <= a /\ a < End(r[j])
      BY <2>7, <2>9
    <3>2. CASE j = q
      BY <1>2, <1>4, <2>8, <3>1, <3>2
    <3>3. CASE j # q
      BY <1>4, <2>2, <3>1, <3>3
    <3> QED
      BY <3>2, <3>3
  <2>10. ASSUME NEW a, a \in Words(b) PROVE a \in WordsOf(r)
    BY <1>2, <2>1, <2>7, <2>8, <2>10
  <2>11. ASSUME NEW a, a \in WordsOf(list) PROVE a \in WordsOf(r)
    <3>1. PICK j \in 1..n : a \in Int /\ list[j].at <= a /\ a < End(list[j])
      BY <1>4, <2>11
    <3>2. CASE j = q
      BY <2>1, <2>7, <2>8, <3>1, <3>2
    <3>3. CASE j # q
      BY <2>2, <2>7, <3>1, <3>3
    <3> QED
      BY <3>2, <3>3
  <2> QED
    BY <2>2, <2>6, <2>9, <2>10, <2>11
<1>6. ASSUME ~(q > 0 /\ End(list[q]) = b.at),
             NEW r, r = InsertAt(list, q + 1, b)
      PROVE  /\ Touching(r, q + 1) /\ Len(r) = n + 1
             /\ WordsOf(r) = WordsOf(list) \cup Words(b)
  <2> DEFINE back(j) == IF j <= q THEN j ELSE j - 1
             up(j) == IF j <= q THEN j ELSE j + 1
  <2>1. q + 1 \in 1..n + 1
    BY <1>1
  <2>2. r \in Seq(MemBlocks) /\ OpenedAt(r, list, q + 1, b)
    BY <1>1, <1>2, <1>6, <2>1, InsertAtShape DEF n
  <2>3. /\ Len(r) = n + 1 /\ r[q + 1] = b
        /\ \A j \in 1..n + 1 : j # q + 1 => r[j] = list[back(j)]
    BY <1>1, <2>2 DEF OpenedAt, n
  <2>4. ASSUME NEW j \in 1..n + 1, j # q + 1 PROVE back(j) \in 1..n /\ (back(j) <= q <=> j <= q)
    BY <1>1, <2>4
  <2>5. ASSUME NEW i \in 1..n + 1, NEW j \in 1..n + 1, i < j, i # q + 1, j # q + 1
        PROVE back(i) < back(j)
    BY <1>1, <2>5
  <2>6. ASSUME NEW j \in 1..n PROVE up(j) \in 1..n + 1 /\ up(j) # q + 1 /\ back(up(j)) = j
    BY <1>1
  <2> HIDE DEF back, up
  <2>7. ASSUME NEW j \in 1..n PROVE r[up(j)] = list[j]
    BY <2>3, <2>6
  <2>8. ASSUME NEW i \in 1..n + 1, NEW j \in 1..n + 1, i < j
        PROVE  End(r[i]) < r[j].at \/ (i = q + 1 /\ j = q + 1 + 1 /\ End(r[i]) = r[j].at)
    <3>1. CASE i = q + 1
      <4>1. j # q + 1 /\ ~(j <= q)
        BY <1>1, <2>8, <3>1
      <4>2. back(j) \in 1..n /\ ~(back(j) <= q)
        BY <2>4, <4>1
      <4>3. End(b) <= list[back(j)].at
        BY <1>1, <4>2
      <4>4. CASE j = q + 1 + 1
        BY <1>2, <1>3, <2>3, <3>1, <4>1, <4>2, <4>3, <4>4
      <4>5. CASE j # q + 1 + 1
        <5>1. q + 1 \in 1..n /\ q + 1 < back(j) /\ ~(q + 1 <= q)
          BY <1>1, <2>8, <3>1, <4>5 DEF back
        <5>2. End(b) <= list[q + 1].at /\ End(list[q + 1]) < list[back(j)].at
          BY <1>1, <4>2, <5>1
        <5>3. r[i] = b /\ r[j] = list[back(j)]
          BY <2>3, <3>1, <4>1
        <5>4. End(b) < list[back(j)].at
          <6>1. /\ list[q + 1].at \in Nat /\ End(list[q + 1]) \in Nat
                /\ list[q + 1].at < End(list[q + 1]) /\ list[back(j)].at \in Nat
            BY <1>3, <4>2, <5>1
          <6> QED
            BY <1>2, <5>2, <6>1
        <5> QED
          BY <5>3, <5>4
      <4> QED
        BY <4>4, <4>5
    <3>2. CASE j = q + 1
      <4>1. i # q + 1 /\ i <= q /\ i \in 1..n /\ q \in 1..n /\ q > 0
        BY <1>1, <2>8, <3>2
      <4>2. r[i] = list[i] /\ r[j] = b
        BY <2>3, <3>2, <4>1 DEF back
      <4>3. End(list[q]) < b.at
        <5>1. End(list[q]) <= b.at /\ End(list[q]) # b.at
          BY <1>1, <1>6, <4>1
        <5> QED
          BY <1>2, <1>3, <4>1, <5>1
      <4>4. i # q => End(list[i]) < list[q].at
        BY <1>1, <4>1
      <4>5. End(list[i]) < b.at
        BY <1>2, <1>3, <4>1, <4>3, <4>4
      <4> QED
        BY <4>2, <4>5
    <3>3. CASE i # q + 1 /\ j # q + 1
      <4>1. back(i) \in 1..n /\ back(j) \in 1..n /\ back(i) < back(j)
        BY <2>4, <2>5, <2>8, <3>3
      <4>2. End(list[back(i)]) < list[back(j)].at
        BY <1>1, <4>1
      <4> QED
        BY <2>3, <3>3, <4>2
    <3> QED
      BY <3>1, <3>2, <3>3
  <2>9. \A i \in 1..n + 1 : Sized(r[i])
    BY <1>1, <2>3, <2>4
  <2>10. Touching(r, q + 1)
    BY <2>2, <2>3, <2>8, <2>9 DEF Touching
  <2>11. \A a : a \in WordsOf(r) <=>
              \E j \in 1..n + 1 : a \in Int /\ r[j].at <= a /\ a < End(r[j])
    BY <2>2, <2>3, WordInList
  <2>12. ASSUME NEW a, a \in WordsOf(r) PROVE a \in WordsOf(list) \cup Words(b)
    <3>1. PICK j \in 1..n + 1 : a \in Int /\ r[j].at <= a /\ a < End(r[j])
      BY <2>11, <2>12
    <3>2. CASE j = q + 1
      BY <1>2, <2>3, <3>1, <3>2
    <3>3. CASE j # q + 1
      BY <1>4, <2>3, <2>4, <3>1, <3>3
    <3> QED
      BY <3>2, <3>3
  <2>13. ASSUME NEW a, a \in Words(b) PROVE a \in WordsOf(r)
    BY <1>2, <2>1, <2>3, <2>11, <2>13
  <2>14. ASSUME NEW a, a \in WordsOf(list) PROVE a \in WordsOf(r)
    <3>1. PICK j \in 1..n : a \in Int /\ list[j].at <= a /\ a < End(list[j])
      BY <1>4, <2>14
    <3> QED
      BY <2>6, <2>7, <2>11, <3>1
  <2> QED
    BY <2>3, <2>10, <2>12, <2>13, <2>14
<1> QED
  BY <1>5, <1>6 DEF n

\* freemem() of a block that shares no word with the list puts its words back
\* and keeps the list in order, with no two blocks touching.
LEMMA FreedKeeps ==
  ASSUME Rising(memlist), NEW b, Sized(b), ~Overlaps(b)
  PROVE  Rising(Freed(b)) /\ WordsOf(Freed(b)) = FreeWords \cup Words(b)
<1> DEFINE n == Len(memlist)
           q == Below(b.at)
<1>1. /\ n \in Nat /\ memlist \in Seq(MemBlocks)
      /\ \A i \in 1..n : memlist[i] \in MemBlocks
      /\ \A i, j \in 1..n : i < j => End(memlist[i]) < memlist[j].at
  BY LenProperties DEF Rising
<1>2. b \in MemBlocks /\ b.at \in Nat /\ b.len \in Nat /\ End(b) \in Nat
  BY BlockEnds DEF Sized
<1>3. q \in 0..n /\ \A i \in 1..n : memlist[i].at < b.at <=> i <= q
  BY <1>2, BelowSplits
<1>4. /\ ~(q > 0 /\ End(memlist[q]) > b.at)
      /\ ~(q < n /\ End(b) > memlist[q + 1].at)
  BY DEF Overlaps, End
<1>5. FreeWords = WordsOf(memlist)
  BY DEF FreeWords, WordsOf
<1>6. Freed(b) = IF q > 0 /\ End(memlist[q]) = b.at
                 THEN MergeUp([memlist EXCEPT ![q].len = @ + b.len], q)
                 ELSE MergeUp(InsertAt(memlist, q + 1, b), q + 1)
  BY DEF Freed, End
<1> HIDE DEF n, q
<1>7. ASSUME NEW i \in 1..n
      PROVE  memlist[i].at \in Nat /\ End(memlist[i]) \in Nat /\ memlist[i].at <= End(memlist[i])
  BY <1>1, BlockEnds
<1>8. ASSUME NEW i \in 1..n
      PROVE  IF i <= q THEN End(memlist[i]) <= b.at ELSE End(b) <= memlist[i].at
  <2>1. CASE i <= q
    <3>1. q \in 1..n /\ q > 0
      BY <1>1, <1>3, <2>1
    <3>2. End(memlist[q]) <= b.at
      BY <1>2, <1>4, <1>7, <3>1
    <3>3. i # q => End(memlist[i]) < memlist[q].at
      BY <1>1, <1>3, <2>1, <3>1
    <3> QED
      BY <1>2, <1>7, <2>1, <3>1, <3>2, <3>3
  <2>2. CASE ~(i <= q)
    <3>1. q + 1 \in 1..n /\ q < n /\ (i # q + 1 => q + 1 < i)
      BY <1>1, <1>3, <2>2
    <3>2. End(b) <= memlist[q + 1].at
      BY <1>2, <1>4, <1>7, <3>1
    <3>3. i # q + 1 => End(memlist[q + 1]) < memlist[i].at
      BY <1>1, <3>1
    <3> QED
      BY <1>2, <1>7, <2>2, <3>1, <3>2, <3>3
  <2> QED
    BY <2>1, <2>2
<1>9. PICK all : all = memlist
  OBVIOUS
<1>10. PICK k : k = q
  OBVIOUS
<1>11. Rising(all) /\ k \in 0..Len(all)
  BY <1>3, <1>9, <1>10 DEF n
<1>12. \A i \in 1..Len(all) : IF i <= k THEN End(all[i]) <= b.at ELSE End(b) <= all[i].at
  BY <1>8, <1>9, <1>10 DEF n
<1>13. CASE q > 0 /\ End(memlist[q]) = b.at
  <2>1. PICK r : r = [all EXCEPT ![k].len = @ + b.len]
    OBVIOUS
  <2>2. Touching(r, k) /\ Len(r) = Len(all) /\ WordsOf(r) = WordsOf(all) \cup Words(b)
    <3>1. k > 0 /\ End(all[k]) = b.at
      BY <1>9, <1>10, <1>13
    <3> QED
      BY <1>11, <1>12, <2>1, <3>1, PlacedTouches
  <2>3. k \in 1..Len(r)
    BY <1>1, <1>3, <1>9, <1>10, <1>13, <2>2 DEF n
  <2>4. Rising(MergeUp(r, k)) /\ WordsOf(MergeUp(r, k)) = WordsOf(r)
    BY <2>2, <2>3, MergeUpKeeps
  <2>5. Freed(b) = MergeUp(r, k)
    BY <1>6, <1>9, <1>10, <1>13, <2>1
  <2> QED
    BY <1>5, <1>9, <2>2, <2>4, <2>5
<1>14. CASE ~(q > 0 /\ End(memlist[q]) = b.at)
  <2>1. PICK r : r = InsertAt(all, k + 1, b)
    OBVIOUS
  <2>2. Touching(r, k + 1) /\ Len(r) = Len(all) + 1 /\ WordsOf(r) = WordsOf(all) \cup Words(b)
    <3>1. ~(k > 0 /\ End(all[k]) = b.at)
      BY <1>9, <1>10, <1>14
    <3> QED
      BY <1>11, <1>12, <2>1, <3>1, PlacedTouches
  <2>3. k + 1 \in 1..Len(r)
    BY <1>1, <1>3, <1>9, <1>10, <2>2 DEF n
  <2>4. Rising(MergeUp(r, k + 1)) /\ WordsOf(MergeUp(r, k + 1)) = WordsOf(r)
    BY <2>2, <2>3, MergeUpKeeps
  <2>5. Freed(b) = MergeUp(r, k + 1)
    BY <1>6, <1>9, <1>10, <1>14, <2>1
  <2> QED
    BY <1>5, <1>9, <2>2, <2>4, <2>5
<1> QED
  BY <1>13, <1>14

(***************************************************************************)
(* The inductive invariant: the list is in order, what is owned has two    *)
(* words or more, and list, owners and idle words divide the heap, but for *)
(* the words that a header has just been put in.                           *)
(***************************************************************************)
HeapDivided ==
  /\ FreeWords \cap OwnedWords \subseteq Astray
  /\ idle \cap (FreeWords \cup OwnedWords) = {}
  /\ HeapWords \subseteq FreeWords \cup OwnedWords \cup idle
  /\ FreeWords \cup OwnedWords \cup idle \subseteq HeapWords \cup Astray

HeapInv ==
  /\ Rising(memlist)
  /\ \A b \in owned : b \in MemBlocks /\ b.len >= 2
  /\ \A b, c \in owned : b # c => Words(b) \cap Words(c) = {}
  /\ HeapDivided

\* What is idle, what is free, and what is owned make up the heap exactly.
HeapExact ==
  /\ FreeWords \cap OwnedWords = {}
  /\ idle \cap (FreeWords \cup OwnedWords) = {}
  /\ FreeWords \cup OwnedWords \cup idle = HeapWords

LEMMA ExactUntilAstray ==
  ASSUME HeapDivided, Astray = {}
  PROVE  HeapExact
BY DEF HeapDivided, HeapExact

\* The blocks the system starts with are in order.
LEMMA BlocksRise == Rising(Blocks)
<1>1. Blocks \in Seq(MemBlocks) /\ DOMAIN Blocks = 1..Len(Blocks)
  BY BlocksAssumption, LenProperties DEF MemBlocks
<1>2. \A i \in 1..Len(Blocks) : Blocks[i] \in MemBlocks /\ Blocks[i].len >= 2
  BY <1>1, ElementOfSeq, BlocksAssumption
<1>3. \A i \in 1..Len(Blocks) : Sized(Blocks[i])
  BY <1>2 DEF Sized, MemBlocks
<1>4. ASSUME NEW i \in 1..Len(Blocks), NEW j \in 1..Len(Blocks), i < j
      PROVE  End(Blocks[i]) < Blocks[j].at
  <2>1. Blocks[i].at + RoundMb(Blocks[i].len) < Blocks[j].at
    BY <1>1, <1>4, BlocksAssumption
  <2>2. Blocks[i].at \in Nat /\ Blocks[i].len \in Nat /\ Blocks[j].at \in Nat
    BY <1>2 DEF MemBlocks
  <2> QED
    BY <2>1, <2>2 DEF RoundMb, End
<1> QED
  BY <1>1, <1>3, <1>4 DEF Rising

\* The heap is the words between the program and the first block and, for each
\* block, the words up to the next mblock boundary.
LEMMA WordOfHeap ==
  ASSUME NEW a
  PROVE  a \in HeapWords <=>
           /\ a \in Int
           /\ \/ EndOfImage <= a /\ a < Blocks[1].at
              \/ \E i \in 1..Len(Blocks) :
                   Blocks[i].at <= a /\ a < Blocks[i].at + RoundMb(Blocks[i].len)
<1>1. /\ Blocks \in Seq(MemBlocks) /\ DOMAIN Blocks = 1..Len(Blocks) /\ EndOfImage \in Nat
      /\ Blocks[1].at = RoundMb(EndOfImage)
  BY BlocksAssumption, LenProperties DEF MemBlocks
<1>2. \A i \in 1..Len(Blocks) : Blocks[i] \in MemBlocks
  BY <1>1, ElementOfSeq
<1>3. a \in HeapWords <=>
        \/ a \in EndOfImage..Blocks[1].at - 1
        \/ \E i \in 1..Len(Blocks) : a \in Words(Blocks[i])
                                     \/ (Blocks[i].len % 2 = 1 /\ a = Blocks[i].at + Blocks[i].len)
  BY <1>1 DEF HeapWords, Spare
<1>4. ASSUME NEW i \in 1..Len(Blocks)
      PROVE  (a \in Words(Blocks[i]) \/ (Blocks[i].len % 2 = 1 /\ a = Blocks[i].at + Blocks[i].len))
             <=> a \in Int /\ Blocks[i].at <= a /\ a < Blocks[i].at + RoundMb(Blocks[i].len)
  <2>1. PICK at, len : at = Blocks[i].at /\ len = Blocks[i].len
    OBVIOUS
  <2>2. at \in Nat /\ len \in Nat
    BY <1>2, <2>1 DEF MemBlocks
  <2>3. len % 2 = 0 \/ len % 2 = 1
    BY <2>2
  <2>4. a \in Words(Blocks[i]) <=> a \in Int /\ at <= a /\ a < at + len
    <3>1. Words(Blocks[i]) = at..at + len - 1
      BY <2>1 DEF Words
    <3>2. a \in at..at + len - 1 <=> a \in Int /\ at <= a /\ a <= at + len - 1
      BY <2>2
    <3>3. a \in Int => (a <= at + len - 1 <=> a < at + len)
      BY <2>2
    <3> QED
      BY <3>1, <3>2, <3>3
  <2>5. CASE len % 2 = 0
    <3>1. RoundMb(len) = len
      BY <2>2, <2>5 DEF RoundMb
    <3> QED
      BY <2>1, <2>4, <2>5, <3>1
  <2>6. CASE len % 2 = 1
    <3>1. RoundMb(len) = len + 1
      BY <2>2, <2>6 DEF RoundMb
    <3>2. at + len \in Int /\ at + (len + 1) = at + len + 1
      BY <2>2
    <3>3. a \in Int => (a < at + len + 1 <=> a < at + len \/ a = at + len)
      BY <2>2
    <3>4. at <= at + len
      BY <2>2
    <3> QED
      BY <2>1, <2>4, <2>6, <3>1, <3>2, <3>3, <3>4
  <2> QED
    BY <2>3, <2>5, <2>6
<1>5. a \in EndOfImage..Blocks[1].at - 1 <=> a \in Int /\ EndOfImage <= a /\ a < Blocks[1].at
  BY <1>1 DEF RoundMb
<1> QED
  BY <1>3, <1>4, <1>5

\* The heap lies behind the program, and nowhere in it is a hole of one word: its
\* parts begin and end on mblock boundaries.
LEMMA HeapHoles ==
  ASSUME NEW a \in HeapWords
  PROVE  /\ a \in Nat /\ EndOfImage <= a
         /\ a + 2 \in HeapWords => a + 1 \in HeapWords
<1>1. /\ Len(Blocks) \in Nat /\ Len(Blocks) >= 1 /\ EndOfImage \in Nat
      /\ Blocks[1].at = RoundMb(EndOfImage) /\ Blocks[1].at % 2 = 0
      /\ \A i \in 1..Len(Blocks) : Blocks[i] \in MemBlocks /\ Blocks[i].at % 2 = 0
  <2>1. Len(Blocks) \in Nat /\ DOMAIN Blocks = 1..Len(Blocks) /\ Blocks \in Seq(MemBlocks)
    BY BlocksAssumption, LenProperties DEF MemBlocks
  <2>2. Len(Blocks) >= 1
    BY <2>1, BlocksAssumption, EmptySeq
  <2>3. \A i \in 1..Len(Blocks) : Blocks[i] \in MemBlocks
    BY <2>1, ElementOfSeq
  <2>4. \A i \in 1..Len(Blocks) : Blocks[i].at % 2 = 0
    BY <2>1, BlocksAssumption
  <2>5. Blocks[1].at % 2 = 0
    BY <2>1, <2>2, <2>4
  <2>6. EndOfImage \in Nat /\ Blocks[1].at = RoundMb(EndOfImage)
    BY BlocksAssumption
  <2> QED
    BY <2>1, <2>2, <2>3, <2>4, <2>5, <2>6
<1>2. ASSUME NEW i \in 1..Len(Blocks)
      PROVE  /\ Blocks[i].at \in Nat /\ Blocks[i].at >= Blocks[1].at
             /\ (Blocks[i].at + RoundMb(Blocks[i].len)) \in Nat
             /\ (Blocks[i].at + RoundMb(Blocks[i].len)) % 2 = 0
  <2>1. Blocks[i].at \in Nat /\ Blocks[i].len \in Nat /\ Blocks[1].at \in Nat /\ Blocks[1].len \in Nat
    BY <1>1 DEF MemBlocks
  <2>2. Blocks[i].at >= Blocks[1].at
    <3>1. CASE i = 1
      BY <2>1, <3>1
    <3>2. CASE i # 1
      <4>1. 1 \in 1..Len(Blocks) /\ 1 < i
        BY <1>1, <3>2
      <4>2. End(Blocks[1]) < Blocks[i].at
        BY <4>1, BlocksRise DEF Rising
      <4> QED
        BY <2>1, <4>2 DEF End
    <3> QED
      BY <3>1, <3>2
  <2>3. PICK at, len : at = Blocks[i].at /\ len = Blocks[i].len
    OBVIOUS
  <2>4. at \in Nat /\ len \in Nat /\ at % 2 = 0
    BY <1>1, <2>1, <2>3
  <2>5. at + RoundMb(len) \in Nat /\ (at + RoundMb(len)) % 2 = 0
    <3>1. RoundMb(len) \in Nat /\ RoundMb(len) % 2 = 0
      BY <2>4 DEF RoundMb
    <3> QED
      BY <2>4, <3>1
  <2> QED
    BY <2>1, <2>2, <2>3, <2>5
<1>3. Blocks[1].at \in Nat /\ Blocks[1].at >= EndOfImage
  BY <1>1 DEF RoundMb
<1>4. a \in Nat /\ EndOfImage <= a
  BY <1>1, <1>2, <1>3, WordOfHeap
<1>5. ASSUME a + 2 \in HeapWords, a + 1 \notin HeapWords PROVE FALSE
  <2>1. (a + 1) % 2 = 0
    <3>1. CASE EndOfImage <= a /\ a < Blocks[1].at
      <4>1. ~(a + 1 < Blocks[1].at)
        BY <1>4, <1>5, <1>1, WordOfHeap, <3>1
      <4> QED
        BY <1>1, <1>3, <1>4, <3>1, <4>1
    <3>2. CASE \E i \in 1..Len(Blocks) :
                 Blocks[i].at <= a /\ a < Blocks[i].at + RoundMb(Blocks[i].len)
      <4>1. PICK i \in 1..Len(Blocks) :
                   Blocks[i].at <= a /\ a < Blocks[i].at + RoundMb(Blocks[i].len)
        BY <3>2
      <4>2. PICK e : e = Blocks[i].at + RoundMb(Blocks[i].len)
        OBVIOUS
      <4>3. e \in Nat /\ e % 2 = 0 /\ a < e /\ Blocks[i].at <= a + 1
        BY <1>2, <1>4, <4>1, <4>2
      <4>4. ~(a + 1 < e)
        BY <1>4, <1>5, <4>2, <4>3, WordOfHeap
      <4>5. e = a + 1
        BY <1>4, <4>3, <4>4
      <4> QED
        BY <4>3, <4>5
    <3> QED
      BY <3>1, <3>2, WordOfHeap
  <2>2. (a + 2) % 2 = 0
    <3>1. CASE EndOfImage <= a + 2 /\ a + 2 < Blocks[1].at
      <4>1. a + 1 \in HeapWords
        BY <1>1, <1>3, <1>4, <3>1, WordOfHeap
      <4> QED
        BY <1>5, <4>1
    <3>2. CASE \E i \in 1..Len(Blocks) :
                 Blocks[i].at <= a + 2 /\ a + 2 < Blocks[i].at + RoundMb(Blocks[i].len)
      <4>1. PICK i \in 1..Len(Blocks) :
                   Blocks[i].at <= a + 2 /\ a + 2 < Blocks[i].at + RoundMb(Blocks[i].len)
        BY <3>2
      <4>2. PICK e : e = Blocks[i].at + RoundMb(Blocks[i].len)
        OBVIOUS
      <4>3. e \in Nat /\ a + 1 < e
        BY <1>2, <1>4, <4>1, <4>2
      <4>4. ~(Blocks[i].at <= a + 1)
        BY <1>4, <1>5, <4>2, <4>3, WordOfHeap
      <4>5. Blocks[i].at \in Nat /\ Blocks[i].at % 2 = 0
        BY <1>1, <1>2
      <4>6. Blocks[i].at = a + 2
        BY <1>4, <4>1, <4>4, <4>5
      <4> QED
        BY <4>5, <4>6
    <3> QED
      BY <1>5, <3>1, <3>2, WordOfHeap
  <2> QED
    BY <1>4, <2>1, <2>2
<1> QED
  BY <1>4, <1>5

\* The first list and what the rounding leaves are the whole heap.
LEMMA HeapInvInit == MemInit => HeapInv
<1> SUFFICES ASSUME MemInit PROVE HeapInv
  OBVIOUS
<1>1. memlist = Blocks /\ owned = {} /\ idle = Spare
  BY DEF MemInit
<1>2. Rising(memlist) /\ FreeWords = WordsOf(Blocks) /\ OwnedWords = {}
  BY <1>1, BlocksRise DEF FreeWords, OwnedWords, WordsOf
<1>3. HeapWords = Spare \cup WordsOf(Blocks)
  BY DEF HeapWords, WordsOf
<1>4. ASSUME NEW a \in Spare, a \in WordsOf(Blocks) PROVE FALSE
  <2>1. /\ DOMAIN Blocks = 1..Len(Blocks) /\ Len(Blocks) \in Nat /\ Blocks \in Seq(MemBlocks)
        /\ EndOfImage \in Nat /\ Blocks[1].at = RoundMb(EndOfImage)
    BY BlocksAssumption, LenProperties DEF MemBlocks
  <2>2. PICK i \in 1..Len(Blocks) : a \in Int /\ Blocks[i].at <= a /\ a < End(Blocks[i])
    BY <1>4, <2>1, WordInList
  <2>3. ASSUME NEW j \in 1..Len(Blocks)
        PROVE  /\ Blocks[j].at \in Nat /\ Blocks[j].len \in Nat /\ Blocks[j].len > 0
               /\ RoundMb(Blocks[j].len) \in Nat
               /\ Blocks[j].len <= RoundMb(Blocks[j].len)
    <3>1. Blocks[j] \in MemBlocks /\ Blocks[j].len > 0
      BY BlocksRise DEF Rising, Sized
    <3>2. Blocks[j].at \in Nat /\ Blocks[j].len \in Nat
      BY <3>1 DEF MemBlocks
    <3> QED
      BY <3>1, <3>2 DEF RoundMb
  <2>4. CASE a \in EndOfImage..Blocks[1].at - 1
    <3>1. i = 1 \/ End(Blocks[1]) < Blocks[i].at
      BY <2>1, BlocksRise DEF Rising
    <3>2. Blocks[1].at \in Nat /\ Blocks[1].len \in Nat /\ a < Blocks[1].at
      <4>1. 1 \in 1..Len(Blocks)
        BY <2>1
      <4> QED
        BY <2>1, <2>3, <2>4, <4>1
    <3> QED
      BY <2>2, <2>3, <3>1, <3>2 DEF End
  <2>5. CASE \E j \in 1..Len(Blocks) : Blocks[j].len % 2 = 1 /\ a = Blocks[j].at + Blocks[j].len
    <3>1. PICK j \in 1..Len(Blocks) : a = Blocks[j].at + Blocks[j].len
      BY <2>5
    <3>2. PICK low, len, round, end \in Nat :
            /\ low = Blocks[j].at /\ len = Blocks[j].len /\ end = End(Blocks[i])
            /\ round = RoundMb(Blocks[j].len) /\ len <= round
      <4>1. End(Blocks[i]) \in Nat
        BY <2>3 DEF End
      <4>2. Blocks[j].len <= RoundMb(Blocks[j].len)
        BY <2>3
      <4> QED
        BY <2>3, <4>1, <4>2
    <3>3. a = low + len /\ a < end
      BY <2>2, <3>1, <3>2
    <3>4. CASE i = j
      BY <3>2, <3>3, <3>4 DEF End
    <3>5. CASE j < i
      <4>1. low + round < Blocks[i].at
        BY <2>1, <3>2, <3>5, BlocksAssumption
      <4>2. Blocks[i].at \in Nat /\ Blocks[i].at <= a
        BY <2>2, <2>3
      <4> QED
        BY <3>2, <3>3, <4>1, <4>2
    <3>6. CASE i < j
      <4>1. end < low
        BY <2>1, <3>2, <3>6, BlocksRise DEF Rising
      <4> QED
        BY <3>2, <3>3, <4>1
    <3> QED
      BY <3>4, <3>5, <3>6
  <2> QED
    BY <1>4, <2>1, <2>4, <2>5 DEF Spare
<1> QED
  BY <1>1, <1>2, <1>3, <1>4 DEF HeapInv, HeapDivided

\* A block that leaves the list for its owner.
LEMMA TakenKeeps ==
  ASSUME HeapInv, Astray = {}, NEW b \in MemBlocks, b.len >= 2, Rising(memlist'),
         Words(b) \subseteq FreeWords, FreeWords' = FreeWords \ Words(b),
         owned' = owned \cup {b}, idle' = idle
  PROVE  HeapInv'
<1>1. HeapExact
  BY ExactUntilAstray DEF HeapInv
<1>2. \A c \in owned : Words(c) \cap Words(b) = {}
  BY <1>1 DEF HeapExact, OwnedWords
<1>3. \A c, d \in owned' : c # d => Words(c) \cap Words(d) = {}
  BY <1>2 DEF HeapInv
<1>4. \A c \in owned' : c \in MemBlocks /\ c.len >= 2
  BY DEF HeapInv
<1>5. OwnedWords' = OwnedWords \cup Words(b)
  BY DEF OwnedWords
<1>6. HeapWords' = HeapWords
  BY DEF HeapWords, Spare
<1>7. HeapDivided'
  BY <1>1, <1>5, <1>6 DEF HeapExact, HeapDivided
<1> QED
  BY <1>3, <1>4, <1>7 DEF HeapInv

\* What freemem() accepts goes back on the list; a word that comes with it and is
\* not idle is the first of a block on the list, so that a header lies in it.
LEMMA GivenKeeps ==
  ASSUME HeapInv, Astray = {}, NEW b \in owned, NEW ret, Rising(memlist'),
         Words(b) \subseteq Words(ret),
         FreeWords' = FreeWords \cup Words(ret), owned' = owned \ {b},
         idle' = idle \ Words(ret),
         \A a \in Words(ret) \ Words(b) :
           a \in idle \/ \E i \in DOMAIN memlist' : a = memlist'[i].at
  PROVE  HeapInv'
<1>1. HeapExact
  BY ExactUntilAstray DEF HeapInv
<1>2. \A c, d \in owned' : c # d => Words(c) \cap Words(d) = {}
  BY DEF HeapInv
<1>3. \A c \in owned' : c \in MemBlocks /\ c.len >= 2
  BY DEF HeapInv
<1>4. \A c \in owned' : c \in owned /\ Words(c) \cap Words(b) = {}
  BY DEF HeapInv
<1>5. \A a : a \in OwnedWords <=> a \in OwnedWords' \/ a \in Words(b)
  BY DEF OwnedWords
<1>6. OwnedWords' \cap Words(b) = {}
  BY <1>4 DEF OwnedWords
<1>7. HeapWords' = HeapWords
  BY DEF HeapWords, Spare
<1>8. ASSUME NEW a, a \in Words(ret) \ Words(b), a \notin idle,
             a \in OwnedWords' \/ a \notin HeapWords
      PROVE  a \in Astray'
  <2>1. \E i \in DOMAIN memlist' : a = memlist'[i].at
    BY <1>8
  <2>2. \E i \in DOMAIN memlist' : a \in Header(memlist'[i])
    BY <2>1 DEF Header
  <2> QED
    BY <1>7, <1>8, <2>2 DEF Astray
<1>9. FreeWords' \cap OwnedWords' \subseteq Astray'
  <2> SUFFICES ASSUME NEW a, a \in FreeWords', a \in OwnedWords' PROVE a \in Astray'
    OBVIOUS
  <2>1. a \in OwnedWords /\ a \notin FreeWords /\ a \notin idle /\ a \notin Words(b)
    BY <1>1, <1>5, <1>6 DEF HeapExact
  <2> QED
    BY <1>8, <2>1
<1>10. idle' \cap (FreeWords' \cup OwnedWords') = {}
  BY <1>1, <1>5 DEF HeapExact
<1>11. HeapWords' \subseteq FreeWords' \cup OwnedWords' \cup idle'
  BY <1>1, <1>5, <1>7 DEF HeapExact
<1>12. FreeWords' \cup OwnedWords' \cup idle' \subseteq HeapWords' \cup Astray'
  <2>1. OwnedWords' \cup idle' \cup FreeWords \cup Words(b) \subseteq HeapWords'
    BY <1>1, <1>5, <1>7 DEF HeapExact
  <2>2. ASSUME NEW a \in Words(ret), a \notin HeapWords' PROVE a \in Astray'
    BY <1>1, <1>7, <1>8, <2>1, <2>2 DEF HeapExact
  <2> QED
    BY <2>1, <2>2
<1> QED
  BY <1>2, <1>3, <1>9, <1>10, <1>11, <1>12 DEF HeapInv, HeapDivided

\* What freemem() refuses is nobody's from then on.
LEMMA RefusedKeeps ==
  ASSUME HeapInv, Astray = {}, NEW b \in owned, memlist' = memlist,
         owned' = owned \ {b}, idle' = idle \cup Words(b)
  PROVE  HeapInv'
<1>1. HeapExact
  BY ExactUntilAstray DEF HeapInv
<1>2. \A c, d \in owned' : c # d => Words(c) \cap Words(d) = {}
  BY DEF HeapInv
<1>3. \A c \in owned' : c \in MemBlocks /\ c.len >= 2
  BY DEF HeapInv
<1>4. \A c \in owned' : c \in owned /\ Words(c) \cap Words(b) = {}
  BY DEF HeapInv
<1>5. \A a : a \in OwnedWords <=> a \in OwnedWords' \/ a \in Words(b)
  BY DEF OwnedWords
<1>6. OwnedWords' \cap Words(b) = {}
  BY <1>4 DEF OwnedWords
<1>7. HeapWords' = HeapWords /\ FreeWords' = FreeWords /\ Rising(memlist')
  BY DEF HeapWords, Spare, FreeWords, HeapInv
<1>8. HeapDivided'
  BY <1>1, <1>5, <1>6, <1>7 DEF HeapExact, HeapDivided
<1> QED
  BY <1>2, <1>3, <1>7, <1>8 DEF HeapInv

\* One part of a block on the list goes to an owner, the other stays.
LEMMA CutTaken ==
  ASSUME HeapInv, Astray = {}, NEW i \in 1..Len(memlist), NEW n \in Nat, n >= 2,
         memlist[i].len >= n, NEW b, NEW rest,
         \/ /\ b = [at |-> memlist[i].at, len |-> n]
            /\ rest = [at |-> memlist[i].at + n, len |-> memlist[i].len - n]
         \/ /\ b = [at |-> memlist[i].at + memlist[i].len - n, len |-> n]
            /\ rest = [at |-> memlist[i].at, len |-> memlist[i].len - n],
         memlist' = Reduced(memlist, i, rest), owned' = owned \cup {b}, idle' = idle
  PROVE  HeapInv'
<1> DEFINE Low == b.at = memlist[i].at /\ End(b) = rest.at /\ End(rest) = End(memlist[i])
           High == rest.at = memlist[i].at /\ End(rest) = b.at /\ End(b) = End(memlist[i])
<1>1. memlist[i].at \in Nat /\ memlist[i].len \in Nat
  <2>1. Sized(memlist[i])
    BY DEF HeapInv, Rising
  <2> QED
    BY <2>1, BlockEnds DEF Sized
<1>2. b \in MemBlocks /\ rest \in MemBlocks /\ b.len = n /\ (Low \/ High)
  <2>1. CASE /\ b = [at |-> memlist[i].at, len |-> n]
             /\ rest = [at |-> memlist[i].at + n, len |-> memlist[i].len - n]
    <3>1. /\ b.at = memlist[i].at /\ b.len = n
          /\ rest.at = memlist[i].at + n /\ rest.len = memlist[i].len - n
      BY <2>1
    <3>2. b \in MemBlocks /\ rest \in MemBlocks
      BY <1>1, <2>1 DEF MemBlocks
    <3>3. Low
      BY <1>1, <3>1 DEF End
    <3> QED
      BY <3>1, <3>2, <3>3
  <2>2. CASE /\ b = [at |-> memlist[i].at + memlist[i].len - n, len |-> n]
             /\ rest = [at |-> memlist[i].at, len |-> memlist[i].len - n]
    <3>1. /\ b.at = memlist[i].at + memlist[i].len - n /\ b.len = n
          /\ rest.at = memlist[i].at /\ rest.len = memlist[i].len - n
      BY <2>2
    <3>2. b \in MemBlocks /\ rest \in MemBlocks
      <4>1. /\ memlist[i].len - n \in Nat
            /\ memlist[i].at + memlist[i].len - n \in Nat
        BY <1>1
      <4> QED
        BY <1>1, <2>2, <4>1 DEF MemBlocks
    <3>3. High
      BY <1>1, <3>1 DEF End
    <3> QED
      BY <3>1, <3>2, <3>3
  <2> QED
    BY <2>1, <2>2
<1> DEFINE Cut(all) ==
             /\ Rising(Reduced(all, i, rest)) /\ Words(b) \subseteq WordsOf(all)
             /\ WordsOf(Reduced(all, i, rest)) = WordsOf(all) \ Words(b)
<1>3. Cut(memlist)
  <2>1. PICK all : all = memlist
    OBVIOUS
  <2>2. Rising(all) /\ i \in 1..Len(all)
    BY <2>1 DEF HeapInv
  <2>3. \/ b.at = all[i].at /\ End(b) = rest.at /\ End(rest) = End(all[i])
        \/ rest.at = all[i].at /\ End(rest) = b.at /\ End(b) = End(all[i])
    BY <1>2, <2>1
  <2>4. Cut(all)
    BY <1>2, <2>2, <2>3, CutKeeps
  <2> QED
    BY <2>1, <2>4
<1>4. FreeWords = WordsOf(memlist) /\ FreeWords' = WordsOf(memlist')
  BY DEF FreeWords, WordsOf
<1>5. Rising(memlist') /\ Words(b) \subseteq FreeWords /\ FreeWords' = FreeWords \ Words(b)
  BY <1>3, <1>4
<1> QED
  BY <1>2, <1>5, TakenKeeps

\* getmem() takes the low end of the first block that is long enough.
LEMMA GetmemKeeps ==
  ASSUME HeapInv, Astray = {}, NEW size \in MemSizes, Getmem(size)
  PROVE  HeapInv'
<1>1. PICK n : n = RoundMb(size)
  OBVIOUS
<1>2. n \in Nat /\ n >= 2
  <2>1. size \in Nat /\ size > 0
    BY SizesAssumption
  <2> QED
    BY <1>1, <2>1 DEF RoundMb
<1>3. DOMAIN memlist = 1..Len(memlist) /\ Len(memlist) \in Nat
  BY LenProperties DEF HeapInv, Rising
<1>4. PICK i : i = Min(Fitting(n))
  OBVIOUS
<1>5. /\ Fitting(n) # {} /\ memlist' = CutLow(memlist, i, n)
      /\ owned' = owned \cup {[at |-> memlist[i].at, len |-> n]} /\ idle' = idle
  BY <1>1, <1>4 DEF Getmem
<1>6. i \in 1..Len(memlist) /\ memlist[i].len >= n
  <2>1. Fitting(n) \in SUBSET Nat
    BY <1>3 DEF Fitting
  <2>2. i \in Fitting(n)
    BY <1>4, <1>5, <2>1, MinOfNaturals
  <2> QED
    BY <1>3, <2>2 DEF Fitting
<1>7. PICK b : b = [at |-> memlist[i].at, len |-> n]
  OBVIOUS
<1>8. PICK rest : rest = [at |-> memlist[i].at + n, len |-> memlist[i].len - n]
  OBVIOUS
<1>9. memlist' = Reduced(memlist, i, rest) /\ owned' = owned \cup {b}
  BY <1>5, <1>7, <1>8 DEF CutLow
<1> QED
  BY <1>2, <1>5, <1>6, <1>7, <1>8, <1>9, CutTaken

\* getstk() takes the high end of the last block that is long enough.
LEMMA GetstkKeeps ==
  ASSUME HeapInv, Astray = {}, NEW n \in StackSizes, Getstk(n)
  PROVE  HeapInv'
<1>1. n \in Nat /\ n >= 2
  BY SizesAssumption
<1>2. DOMAIN memlist = 1..Len(memlist) /\ Len(memlist) \in Nat
  BY LenProperties DEF HeapInv, Rising
<1>3. PICK i : i = Max(Fitting(n))
  OBVIOUS
<1>4. /\ Fitting(n) # {} /\ memlist' = CutHigh(memlist, i, n)
      /\ owned' = owned \cup {[at |-> memlist[i].at + memlist[i].len - n, len |-> n]}
      /\ idle' = idle
  BY <1>3 DEF Getstk
<1>5. i \in 1..Len(memlist) /\ memlist[i].len >= n
  <2>1. Fitting(n) \in SUBSET Int /\ \A j \in Fitting(n) : j <= Len(memlist)
    BY <1>2 DEF Fitting
  <2>2. Len(memlist) \in Int
    BY <1>2
  <2>3. i \in Fitting(n)
    BY <1>3, <1>4, <2>1, <2>2, MaxOfBounded
  <2> QED
    BY <1>2, <2>3 DEF Fitting
<1>6. PICK b : b = [at |-> memlist[i].at + memlist[i].len - n, len |-> n]
  OBVIOUS
<1>7. PICK rest : rest = [at |-> memlist[i].at, len |-> memlist[i].len - n]
  OBVIOUS
<1>8. memlist' = Reduced(memlist, i, rest) /\ owned' = owned \cup {b}
  BY <1>4, <1>6, <1>7 DEF CutHigh
<1> QED
  BY <1>1, <1>4, <1>5, <1>6, <1>7, <1>8, CutTaken

\* What freestk() adds to a block: the word below a stack of an odd length.
LEMMA ReturnedWords ==
  ASSUME NEW b \in MemBlocks, b.len >= 2
  PROVE  /\ Returned(b).at \in Int /\ Returned(b).len \in Nat /\ Returned(b).len > 0
         /\ b.len % 2 = 0 => Returned(b) = b
         /\ b.len % 2 = 1 => Returned(b).at = b.at - 1
         /\ Words(b) \subseteq Words(Returned(b))
         /\ \A a \in Words(Returned(b)) \ Words(b) : a = b.at - 1 /\ b.len % 2 = 1
<1>1. PICK at, len : at = b.at /\ len = b.len
  OBVIOUS
<1>2. at \in Nat /\ len \in Nat /\ len >= 2
  BY <1>1 DEF MemBlocks
<1>3. b = [at |-> at, len |-> len]
  BY <1>1 DEF MemBlocks
<1>4. \/ len % 2 = 0 /\ RoundMb(len) = len
      \/ len % 2 = 1 /\ RoundMb(len) = len + 1
  BY <1>2 DEF RoundMb
<1>5. Returned(b) = [at |-> at + len - RoundMb(len), len |-> RoundMb(len)]
  BY <1>1 DEF Returned
<1>6. CASE len % 2 = 0 /\ RoundMb(len) = len
  <2>1. at + len - RoundMb(len) = at
    BY <1>2, <1>6
  <2>2. Returned(b) = b
    BY <1>3, <1>5, <1>6, <2>1
  <2> QED
    BY <1>1, <1>2, <1>6, <2>2
<1>7. CASE len % 2 = 1 /\ RoundMb(len) = len + 1
  <2>1. at + len - RoundMb(len) = at - 1
    BY <1>2, <1>7
  <2>2. Returned(b).at = at - 1 /\ Returned(b).len = len + 1
    BY <1>5, <1>7, <2>1
  <2>3. \A a : a \in Words(Returned(b)) <=> a \in Int /\ at - 1 <= a /\ a < at + len
    BY <1>2, <2>2 DEF Words
  <2>4. \A a : a \in Words(b) <=> a \in Int /\ at <= a /\ a < at + len
    BY <1>1, <1>2 DEF Words
  <2>5. ASSUME NEW a \in Words(Returned(b)) \ Words(b) PROVE a = at - 1
    BY <1>2, <2>3, <2>4
  <2>6. Words(b) \subseteq Words(Returned(b))
    BY <1>2, <2>3, <2>4
  <2> QED
    BY <1>1, <1>2, <1>7, <2>2, <2>5, <2>6
<1> QED
  BY <1>4, <1>6, <1>7

\* The first word of a part of the list is where a block of it begins.
LEMMA PartBegins ==
  ASSUME NEW list, Rising(list), NEW w \in WordsOf(list), w - 1 \notin WordsOf(list)
  PROVE  \E i \in DOMAIN list : w = list[i].at
<1>1. list \in Seq(MemBlocks) /\ DOMAIN list = 1..Len(list)
  BY LenProperties DEF Rising
<1>2. \A a : a \in WordsOf(list) <=>
                 \E i \in 1..Len(list) : a \in Int /\ list[i].at <= a /\ a < End(list[i])
  BY <1>1, WordInList
<1>3. PICK i \in 1..Len(list) : w \in Int /\ list[i].at <= w /\ w < End(list[i])
  BY <1>2
<1>4. list[i].at \in Nat /\ End(list[i]) \in Nat
  <2>1. list[i] \in MemBlocks
    BY <1>1, ElementOfSeq
  <2> QED
    BY <2>1, BlockEnds
<1>5. ~(list[i].at <= w - 1)
  BY <1>2, <1>3, <1>4
<1> QED
  BY <1>1, <1>3, <1>4, <1>5

\* A word that freestk() adds to a stack and that is not idle has no free word
\* below it: it would be a block of one word, or a hole of one.
LEMMA AddedBegins ==
  ASSUME HeapInv, Astray = {}, NEW b \in owned, NEW w, w = b.at - 1,
         w \notin FreeWords, w \notin idle
  PROVE  w - 1 \notin FreeWords
<1> SUFFICES ASSUME w - 1 \in FreeWords PROVE FALSE
  OBVIOUS
<1>1. HeapExact
  BY ExactUntilAstray DEF HeapInv
<1>2. b \in MemBlocks /\ b.len >= 2 /\ b.at \in Nat
  BY BlockEnds DEF HeapInv
<1>3. b.at \in Words(b) /\ w \in Int /\ b.at = w + 1
  BY <1>2, BlockEnds DEF MemBlocks, Words
<1>4. w + 1 \in OwnedWords
  BY <1>3 DEF OwnedWords
<1>5. w \in HeapWords
  <2>1. PICK v \in Int : w = v + 1
    <3>1. w - 1 \in Int /\ w = (w - 1) + 1
      BY <1>3
    <3> QED
      BY <3>1
  <2>2. v \in HeapWords
    <3>1. v = w - 1
      BY <1>3, <2>1
    <3> QED
      BY <1>1, <3>1 DEF HeapExact
  <2>3. w = v + 1 /\ w + 1 = v + 2
    BY <2>1
  <2>4. v + 2 \in HeapWords
    BY <1>1, <1>4, <2>3 DEF HeapExact
  <2> QED
    BY <2>2, <2>3, <2>4, HeapHoles
<1>6. PICK c \in owned : w \in Words(c)
  BY <1>1, <1>5 DEF HeapExact, OwnedWords
<1>7. c \in MemBlocks /\ c.len >= 2 /\ c.at \in Nat /\ c.len \in Nat
  BY BlockEnds DEF HeapInv
<1>8. \A a : a \in Words(c) <=> a \in Int /\ c.at <= a /\ a < c.at + c.len
  BY <1>7 DEF Words
<1>9. w - 1 \in Words(c) \/ w + 1 \in Words(c)
  BY <1>3, <1>6, <1>7, <1>8
<1>10. CASE w - 1 \in Words(c)
  BY <1>1, <1>10 DEF HeapExact, OwnedWords
<1>11. CASE w + 1 \in Words(c)
  <2>1. c = b
    BY <1>3, <1>11 DEF HeapInv
  <2>2. \A a \in Words(b) : b.at <= a
    BY <1>2, BlockEnds
  <2> QED
    BY <1>2, <1>3, <1>6, <2>1, <2>2
<1> QED
  BY <1>9, <1>10, <1>11

\* A program frees what it owns.
LEMMA FreememKeeps ==
  ASSUME HeapInv, Astray = {}, NEW b \in owned, Freemem(b)
  PROVE  HeapInv'
<1>1. b \in MemBlocks /\ b.len >= 2 /\ b.at \in Nat
  BY BlockEnds DEF HeapInv
<1>2. PICK ret : ret = Returned(b)
  OBVIOUS
<1>3. /\ ret.at \in Int /\ ret.len \in Nat /\ ret.len > 0
      /\ Words(b) \subseteq Words(ret)
      /\ \A a \in Words(ret) \ Words(b) : a = b.at - 1
  BY <1>1, <1>2, ReturnedWords
<1>4. owned' = owned \ {b}
  BY DEF Freemem
<1>5. CASE Refuses(ret)
  BY <1>2, <1>4, <1>5, RefusedKeeps DEF Freemem, Release
<1>6. CASE ~Refuses(ret)
  <2>1. ~Overlaps(ret) /\ ret.at \in Nat
    BY <1>3, <1>6, BlocksAssumption DEF Refuses
  <2>2. ret \in MemBlocks
    BY <1>2, <1>3, <2>1 DEF Returned, MemBlocks
  <2>3. memlist' = Freed(ret) /\ idle' = idle \ Words(ret)
    BY <1>2, <1>6 DEF Freemem, Release
  <2>4. Rising(memlist') /\ WordsOf(memlist') = FreeWords \cup Words(ret)
    BY <1>3, <2>1, <2>2, <2>3, FreedKeeps DEF HeapInv, Sized
  <2>5. FreeWords' = WordsOf(memlist')
    BY DEF FreeWords, WordsOf
  <2>6. Words(ret) \cap FreeWords = {}
    BY <1>3, <2>1, <2>2, OverlapIsSharing DEF HeapInv
  <2>7. ASSUME NEW w \in Words(ret) \ Words(b), w \notin idle
        PROVE  \E i \in DOMAIN memlist' : w = memlist'[i].at
    <3>1. w = b.at - 1 /\ w \notin FreeWords /\ w \in Int
      BY <1>1, <1>3, <2>6, <2>7
    <3>2. w - 1 \notin FreeWords
      BY <2>7, <3>1, AddedBegins
    <3>3. w - 1 \notin Words(ret)
      <4>1. ASSUME w - 1 \in Words(ret) PROVE FALSE
        <5>1. w - 1 \in Words(b) \/ w - 1 = b.at - 1
          BY <1>3, <4>1
        <5>2. w - 1 \in Words(b)
          BY <3>1, <5>1, <1>1
        <5> QED
          BY <1>1, <3>1, <5>2, BlockEnds
      <4> QED
        BY <4>1
    <3>4. PICK list : list = memlist'
      OBVIOUS
    <3>5. Rising(list) /\ w \in WordsOf(list) /\ w - 1 \notin WordsOf(list)
      BY <2>4, <2>7, <3>2, <3>3, <3>4
    <3> QED
      BY <3>4, <3>5, PartBegins
  <2>8. \A a \in Words(ret) \ Words(b) :
           a \in idle \/ \E i \in DOMAIN memlist' : a = memlist'[i].at
    BY <2>7
  <2>9. FreeWords' = FreeWords \cup Words(ret)
    BY <2>4, <2>5
  <2> QED
    BY <1>3, <1>4, <2>3, <2>4, <2>8, <2>9, GivenKeeps
<1> QED
  BY <1>5, <1>6

\* A second release finds the block on the list and changes nothing.
LEMMA FreememAgainKeeps ==
  ASSUME HeapInv, NEW b \in Candidates, FreememAgain(b)
  PROVE  UNCHANGED memVars
<1>1. Words(b) \cap FreeWords # {}
  BY DEF FreememAgain
<1> DEFINE top == Blocks[Len(Blocks)].at + Blocks[Len(Blocks)].len
<1>2. EndOfImage \in Nat
  BY BlocksAssumption
<1>3. b \in [at : EndOfImage..top, len : {RoundMb(n) : n \in MemSizes}]
  BY DEF Candidates
<1> HIDE DEF top
<1>4. b.at \in Nat
  BY <1>2, <1>3
<1>5. b.len \in Nat /\ b.len > 0
  <2>1. PICK n \in MemSizes : b.len = RoundMb(n)
    BY <1>3
  <2>2. n \in Nat /\ n > 0
    BY SizesAssumption
  <2> QED
    BY <2>1, <2>2 DEF RoundMb
<1>6. b \in MemBlocks
  BY <1>3, <1>4, <1>5 DEF MemBlocks
<1>7. Overlaps(b)
  BY <1>1, <1>5, <1>6, OverlapIsSharing DEF HeapInv
<1> QED
  BY <1>7 DEF FreememAgain, Release, Refuses, memVars

\* The invariant holds in every reachable state.
LEMMA HeapInvHolds == MemSpec => []HeapInv
<1>1. HeapInv /\ [MemNext]_memVars => HeapInv'
  <2> SUFFICES ASSUME HeapInv, [MemNext]_memVars PROVE HeapInv'
    OBVIOUS
  <2>1. CASE MemNext
    <3>1. Astray = {}
      BY <2>1 DEF MemNext
    <3>2. CASE \E n \in MemSizes : Getmem(n)
      BY <3>1, <3>2, GetmemKeeps
    <3>3. CASE \E n \in StackSizes : Getstk(n)
      BY <3>1, <3>3, GetstkKeeps
    <3>4. CASE \E b \in owned : Freemem(b)
      BY <3>1, <3>4, FreememKeeps
    <3>5. CASE \E b \in Candidates : FreememAgain(b)
      <4>1. UNCHANGED memVars
        BY <3>5, FreememAgainKeeps
      <4> QED
        BY <4>1 DEF memVars, HeapInv, HeapDivided, FreeWords, OwnedWords, Astray, HeapWords, Spare
    <3> QED
      BY <2>1, <3>2, <3>3, <3>4, <3>5 DEF MemNext
  <2>2. CASE UNCHANGED memVars
    BY <2>2 DEF memVars, HeapInv, HeapDivided, FreeWords, OwnedWords, Astray, HeapWords, Spare
  <2> QED
    BY <2>1, <2>2
<1> QED
  BY <1>1, HeapInvInit, PTL DEF MemSpec

\* getmem(), getstk() and freemem(): every word of the heap is free, has one owner
\* or is idle, but for a word that a header has just been put in, for every heap,
\* stacks of every length and every order of the calls.
THEOREM HeapIsPartitioned == MemSpec => []HeapPartitioned
<1>1. HeapInv => HeapPartitioned
  <2> SUFFICES ASSUME HeapInv PROVE HeapPartitioned
    OBVIOUS
  <2>1. DOMAIN memlist = 1..Len(memlist) /\ Len(memlist) \in Nat
    BY LenProperties DEF HeapInv, Rising
  <2>2. ASSUME NEW i \in DOMAIN memlist, NEW j \in DOMAIN memlist, i < j
        PROVE  Words(memlist[i]) \cap Words(memlist[j]) = {}
    <3>1. memlist[i] \in MemBlocks /\ memlist[j] \in MemBlocks /\ End(memlist[i]) < memlist[j].at
      BY <2>1, <2>2 DEF HeapInv, Rising, Sized
    <3>2. End(memlist[i]) \in Nat /\ memlist[j].at \in Nat
      BY <3>1, BlockEnds
    <3>3. \A a : a \in Words(memlist[i]) => a \in Int /\ a < End(memlist[i])
      BY <3>1, BlockEnds
    <3>4. \A a : a \in Words(memlist[j]) => a \in Int /\ memlist[j].at <= a
      BY <3>1, BlockEnds
    <3> QED
      BY <3>1, <3>2, <3>3, <3>4
  <2>3. ASSUME NEW i \in DOMAIN memlist, NEW j \in DOMAIN memlist, i # j
        PROVE  Words(memlist[i]) \cap Words(memlist[j]) = {}
    <3>1. i < j \/ j < i
      BY <2>1, <2>3
    <3> QED
      BY <2>2, <3>1
  <2> QED
    BY <2>3 DEF HeapPartitioned, HeapInv, HeapDivided
<1> QED
  BY <1>1, HeapInvHolds, PTL

\* freemem() merges whatever it puts back with the blocks it touches: the list
\* rises and no two of its blocks touch, wherever the blocks begin and end.
THEOREM FreeListIsInOrder == MemSpec => []FreeListCanonical
<1>1. HeapInv => FreeListCanonical
  <2> SUFFICES ASSUME HeapInv, NEW i \in 1..Len(memlist) - 1
               PROVE  memlist[i].at + memlist[i].len < memlist[i + 1].at
    BY DEF FreeListCanonical
  <2>1. Len(memlist) \in Nat
    BY LenProperties DEF HeapInv, Rising
  <2>2. i \in 1..Len(memlist) /\ i + 1 \in 1..Len(memlist) /\ i < i + 1
    BY <2>1
  <2> QED
    BY <2>2 DEF HeapInv, Rising, End
<1> QED
  BY <1>1, HeapInvHolds, PTL

\* freemem() refuses nothing that a program owns but stacks of an odd length:
\* everything else is on the list again once it is freed.
THEOREM EvenBlocksAreRegained == MemSpec => EvenBlocksComeBack
<1>1. HeapInv /\ [MemNext]_memVars =>
        [\A b \in owned \ owned' : b.len % 2 = 0 => Words(b) \subseteq FreeWords']_memVars
  <2> SUFFICES ASSUME HeapInv, MemNext, NEW b \in owned \ owned', b.len % 2 = 0
               PROVE  Words(b) \subseteq FreeWords'
    OBVIOUS
  <2>1. Freemem(b)
    <3>1. (\E n \in MemSizes : Getmem(n)) => owned \subseteq owned'
      BY DEF Getmem
    <3>2. (\E n \in StackSizes : Getstk(n)) => owned \subseteq owned'
      BY DEF Getstk
    <3>3. (\E c \in Candidates : FreememAgain(c)) => owned \subseteq owned'
      BY DEF FreememAgain
    <3>4. \A c \in owned : Freemem(c) => c = b
      BY DEF Freemem
    <3> QED
      BY <3>1, <3>2, <3>3, <3>4 DEF MemNext
  <2>2. HeapExact
    BY ExactUntilAstray DEF HeapInv, MemNext
  <2>3. b \in MemBlocks /\ b.len >= 2 /\ b.at \in Nat /\ b.at \in Words(b)
    <3>1. b \in MemBlocks /\ b.len >= 2
      BY DEF HeapInv
    <3> QED
      BY <3>1, BlockEnds DEF MemBlocks, Words
  <2>4. Returned(b) = b
    BY <2>3, ReturnedWords
  <2>5. Words(b) \subseteq HeapWords /\ Words(b) \cap FreeWords = {}
    BY <2>2 DEF HeapExact, OwnedWords
  <2>6. EndOfImage <= b.at
    BY <2>3, <2>5, HeapHoles
  <2>7. ~Overlaps(b)
    BY <2>3, <2>5, OverlapIsSharing DEF HeapInv, MemBlocks
  <2>8. memlist' = Freed(b)
    <3>1. b.at \in Nat /\ EndOfImage \in Nat
      BY <2>3, BlocksAssumption
    <3>2. ~Refuses(b)
      BY <2>6, <2>7, <3>1 DEF Refuses
    <3>3. Release(b)
      BY <2>1, <2>4 DEF Freemem
    <3> QED
      BY <3>2, <3>3 DEF Release
  <2>9. WordsOf(Freed(b)) = FreeWords \cup Words(b)
    BY <2>3, <2>7, FreedKeeps DEF HeapInv, Sized, MemBlocks
  <2>10. FreeWords' = WordsOf(memlist')
    BY DEF FreeWords, WordsOf
  <2> QED
    BY <2>8, <2>9, <2>10
<1> QED
  BY <1>1, HeapInvHolds, PTL DEF MemSpec, EvenBlocksComeBack

-------------------------------------------------------------------------------
(***************************************************************************)
(* Buffer pools: each buffer is in one place.                              *)
(***************************************************************************)

PoolSteps == {"idle", "make", "poolinit", "unlink", "signal"}
Pools == [sem : Sems, total : Nat, free : Seq(Nat)]

PoolType ==
  /\ bpmarked \in BOOLEAN /\ bptab \in Seq(Pools)
  /\ pc \in [Procs -> PoolSteps] /\ poolid \in [Procs -> Nat]
  /\ held \in [Procs -> SUBSET (Nat \X Nat)]

\* Who is past the mark has seen it, and what processes work on and hold is of
\* pools that were made.
PoolsMade ==
  /\ ~bpmarked => bptab = <<>>
  /\ \A p \in Procs :
       /\ pc[p] = "make" => bpmarked
       /\ pc[p] \in {"unlink", "signal"} => poolid[p] \in 1..Len(bptab)
       /\ \A buf \in held[p] : buf[1] \in 1..Len(bptab)

\* Every free list has each buffer once, and what a process holds is neither on a
\* free list nor held by another.
PoolsApart ==
  /\ \A k \in 1..Len(bptab) : IsInjective(bptab[k].free)
  /\ \A p, r \in Procs : p # r => held[p] \cap held[r] = {}
  /\ \A p \in Procs : \A buf \in held[p] : buf[2] \notin Range(bptab[buf[1]].free)

PoolsInv == ServInv /\ PoolType /\ PoolsMade /\ PoolsApart

\* The free list of one pool changes.
LEMMA PoolChanges ==
  ASSUME bptab \in Seq(Pools), NEW k \in 1..Len(bptab), NEW f \in Seq(Nat),
         bptab' = [bptab EXCEPT ![k].free = f]
  PROVE  /\ bptab' \in Seq(Pools) /\ Len(bptab') = Len(bptab) /\ bptab'[k].free = f
         /\ \A i \in 1..Len(bptab) : bptab'[i].sem = bptab[i].sem
         /\ \A i \in 1..Len(bptab) : i # k => bptab'[i] = bptab[i]
<1> DEFINE n == Len(bptab)
<1>1. n \in Nat /\ DOMAIN bptab = 1..n /\ \A i \in 1..n : bptab[i] \in Pools
  BY LenProperties, ElementOfSeq
<1>2. PICK b : b = [bptab[k] EXCEPT !.free = f] /\ b \in Pools /\ b.free = f /\ b.sem = bptab[k].sem
  <2>1. PICK r \in Pools : r = bptab[k]
    BY <1>1
  <2>2. [r EXCEPT !.free = f] \in Pools
    BY DEF Pools
  <2>3. [r EXCEPT !.free = f].free = f /\ [r EXCEPT !.free = f].sem = r.sem
    BY DEF Pools
  <2> QED
    BY <2>1, <2>2, <2>3
<1>3. bptab' = [i \in 1..n |-> IF i = k THEN b ELSE bptab[i]]
  BY <1>1, <1>2
<1>4. bptab' \in [1..n -> Pools]
  BY <1>1, <1>2, <1>3
<1>5. bptab' \in Seq(Pools) /\ Len(bptab') = n
  BY <1>1, <1>4, SeqDef, LenProperties
<1> QED
  BY <1>2, <1>3, <1>5

\* nbgetbuf() takes a unit that is there.
LEMMA UnitTaken ==
  ASSUME ServInv, NEW s \in Sems, semcnt[s] > 0, semcnt' = [semcnt EXCEPT ![s] = @ - 1],
         UNCHANGED <<procVars, callVars, sstate, semq, nextsem, psem, pwaitret,
                     msgVars, timeVars>>
  PROVE  ServInv'
<1>1. UNCHANGED procVars /\ UNCHANGED callVars /\ UNCHANGED msgVars /\ UNCHANGED timeVars
  OBVIOUS
<1>2. TableInv' /\ \A p \in Procs : Stays(p)
  BY <1>1, TableUntouched DEF ServInv
<1>3. SemInv /\ SemType /\ CountIsWaiters /\ semcnt[s] \in Int
  BY DEF ServInv, SemInv, SemType
<1>4. semcnt' \in [Sems -> Int] /\ semcnt'[s] = semcnt[s] - 1
      /\ \A r \in Sems \ {s} : semcnt'[r] = semcnt[r]
  BY <1>3 DEF SemType
<1>5. -Min({0, semcnt[s]}) = 0 /\ -Min({0, semcnt'[s]}) = 0
  <2>1. PICK c \in Int, d \in Int : c = semcnt[s] /\ d = semcnt'[s] /\ 0 <= c /\ 0 <= d
    BY <1>3, <1>4
  <2>2. -Min({0, c}) = 0 /\ -Min({0, d}) = 0
    BY <2>1, Deficit
  <2> QED
    BY <2>1, <2>2
<1>6. CountIsWaiters'
  <2> SUFFICES ASSUME NEW r \in Sems
               PROVE  /\ sstate'[r] = "SUSED" => Len(semq'[r]) = -Min({0, semcnt'[r]})
                      /\ sstate'[r] = "SFREE" => semq'[r] = <<>>
    BY DEF CountIsWaiters
  <2>1. CASE r = s
    <3>1. /\ sstate[s] = "SUSED" => Len(semq[s]) = -Min({0, semcnt[s]})
          /\ sstate[s] = "SFREE" => semq[s] = <<>>
      BY <1>3 DEF CountIsWaiters
    <3> QED
      BY <1>5, <2>1, <3>1
  <2>2. CASE r # s
    BY <1>3, <1>4, <2>2 DEF CountIsWaiters
  <2> QED
    BY <2>1, <2>2
<1>7. SemInv'
  <2>1. SemType'
    BY <1>3, <1>4 DEF SemType
  <2>2. \A r \in Sems : InLine(r)'
    BY <1>1, <1>3 DEF SemInv, InLine, procVars
  <2> QED
    BY <1>6, <2>1, <2>2 DEF SemInv
<1>8. ClockInv'
  BY <1>1, <1>2, StaysMeans, ClockUntouched DEF ServInv, timeVars
<1>9. CallInv'
  BY <1>1, <1>2, StaysMeans, CallUntouched DEF ServInv, callVars, msgVars
<1> QED
  BY <1>2, <1>7, <1>8, <1>9 DEF ServInv

\* Every step of the pools keeps the kernel's invariant.
LEMMA PoolsKeepKernel ==
  ASSUME PoolsInv, [BufNext]_bufVars
  PROVE  ServInv'
<1>1. /\ ServInv /\ currpid \in Procs /\ bptab \in Seq(Pools)
      /\ \A k \in 1..Len(bptab) : bptab[k].sem \in Sems
      /\ PoolIds = 1..Len(bptab)
  <2>1. bptab \in Seq(Pools)
    BY DEF PoolsInv, PoolType
  <2>2. \A k \in 1..Len(bptab) : bptab[k] \in Pools
    BY <2>1, ElementOfSeq
  <2> QED
    BY <2>1, <2>2, LenProperties DEF PoolsInv, ServInv, TableInv, ProcTypeOK, Pools, PoolIds
<1>2. ASSUME UNCHANGED servVars PROVE ServInv'
  BY <1>1, <1>2, ServNextInv
<1>3. CASE Service
  BY <1>1, <1>3, ServNextInv DEF Service
<1>4. CASE Interrupt
  BY <1>1, <1>4, ServNextInv DEF Interrupt, ServNext
<1>5. CASE MkpoolTest \/ Poolinit \/ GetbufUnlink
  BY <1>2, <1>5 DEF MkpoolTest, Poolinit, GetbufUnlink
<1>6. ASSUME NEW n \in NumBufs, Mkpool(n) PROVE ServInv'
  <2>1. n \in Nat
    BY NumBufsAssumption
  <2>2. CASE ScreateWith(n)
    BY <1>1, <2>1, <2>2, ScreateWithKeeps
  <2> QED
    BY <1>2, <1>6, <2>2 DEF Mkpool
<1>7. ASSUME NEW k \in PoolIds, GetbufWait(k) PROVE ServInv'
  <2>1. PICK s \in Sems : s = bptab[k].sem
    BY <1>1
  <2>2. WaitOn(s) /\ kcall[currpid] = "none" /\ currpid # NULLPROC
    BY <1>7, <2>1 DEF GetbufWait, Begin, Calling
  <2> QED
    BY <1>1, <2>2, WaitOnKeeps
<1>8. ASSUME NEW k \in PoolIds, Nbgetbuf(k) PROVE ServInv'
  <2>1. PICK s \in Sems : s = bptab[k].sem
    BY <1>1
  <2>2. /\ semcnt[s] > 0 /\ semcnt' = [semcnt EXCEPT ![s] = @ - 1]
        /\ UNCHANGED <<procVars, callVars, sstate, semq, nextsem, psem, pwaitret,
                       msgVars, timeVars>>
    BY <1>8, <2>1 DEF Nbgetbuf
  <2> QED
    BY <1>1, <2>2, UnitTaken
<1>9. ASSUME NEW buf, FreebufLink(buf) PROVE ServInv'
  BY <1>2, <1>9 DEF FreebufLink
<1>10. CASE FreebufSignal
  <2>1. At("signal") /\ poolid[currpid] \in 1..Len(bptab)
    BY <1>1, <1>10 DEF FreebufSignal, At, PoolsInv, PoolsMade
  <2>2. PICK s \in Sems : s = bptab[poolid[currpid]].sem
    BY <1>1, <2>1
  <2>3. SignalOn(s)
    BY <1>10, <2>2 DEF FreebufSignal
  <2> QED
    BY <1>1, <2>3, SignalOnKeeps
<1>11. CASE UNCHANGED bufVars
  BY <1>2, <1>11 DEF bufVars
<1> QED
  BY <1>3, <1>4, <1>5, <1>6, <1>7, <1>8, <1>9, <1>10, <1>11 DEF BufNext

\* A step that leaves the pools alone.
LEMMA PoolsUntouched ==
  ASSUME PoolsInv, ServInv', bptab' = bptab, bpmarked' \in BOOLEAN, bpmarked => bpmarked',
         pc' \in [Procs -> PoolSteps], poolid' \in [Procs -> Nat],
         held' \in [Procs -> SUBSET (Nat \X Nat)],
         \A p \in Procs : /\ held'[p] \subseteq held[p]
                          /\ pc'[p] = "make" => bpmarked'
                          /\ pc'[p] \in {"unlink", "signal"} => poolid'[p] \in 1..Len(bptab)
  PROVE  PoolsInv'
<1>1. PoolType'
  BY DEF PoolsInv, PoolType
<1>2. PoolsMade'
  BY DEF PoolsInv, PoolsMade
<1>3. PoolsApart'
  <2>1. \A p, r \in Procs : p # r => held'[p] \cap held'[r] = {}
    BY DEF PoolsInv, PoolsApart
  <2>2. \A p \in Procs : \A buf \in held'[p] : buf[2] \notin Range(bptab[buf[1]].free)
    BY DEF PoolsInv, PoolsApart
  <2> QED
    BY <2>1, <2>2 DEF PoolsInv, PoolsApart
<1> QED
  BY <1>1, <1>2, <1>3 DEF PoolsInv

\* A process takes the first free buffer of a pool.
LEMMA TakeKeeps ==
  ASSUME PoolsInv, ServInv', NEW k \in 1..Len(bptab), TakeFrom(k), bptab[k].free # <<>>,
         bpmarked' = bpmarked, poolid' = poolid, pc' \in [Procs -> PoolSteps],
         \A p \in Procs : pc'[p] = pc[p] \/ pc'[p] = "idle"
  PROVE  /\ PoolsInv' /\ Len(bptab') = Len(bptab)
         /\ Len(bptab'[k].free) = Len(bptab[k].free) - 1
<1>1. /\ currpid \in Procs /\ bptab \in Seq(Pools) /\ bptab[k].free \in Seq(Nat)
      /\ IsInjective(bptab[k].free) /\ held \in [Procs -> SUBSET (Nat \X Nat)]
  <2>1. bptab \in Seq(Pools) /\ bptab[k] \in Pools
    BY ElementOfSeq DEF PoolsInv, PoolType
  <2> QED
    BY <2>1 DEF PoolsInv, PoolType, PoolsApart, ServInv, TableInv, ProcTypeOK, Pools
<1>2. PICK f \in Seq(Nat) : f = bptab[k].free
  BY <1>1
<1>3. PICK h \in Nat, t \in Seq(Nat) :
        /\ h = Head(f) /\ t = Tail(f) /\ h \in Range(f) /\ IsInjective(t)
        /\ Len(t) = Len(f) - 1 /\ Range(t) = Range(f) \ {h}
  BY <1>1, <1>2, TailInjective
<1>4. PICK c \in Procs : c = currpid
  BY <1>1
<1>5. /\ bptab' = [bptab EXCEPT ![k].free = t]
      /\ held' = [held EXCEPT ![c] = held[c] \cup {<<k, h>>}]
  <2>1. bptab' = [bptab EXCEPT ![k].free = Tail(bptab[k].free)]
    BY DEF TakeFrom
  <2>2. held' = [held EXCEPT ![c] = held[c] \cup {<<k, Head(bptab[k].free)>>}]
    BY <1>1, <1>4 DEF TakeFrom
  <2> QED
    BY <1>2, <1>3, <2>1, <2>2
<1>6. /\ bptab' \in Seq(Pools) /\ Len(bptab') = Len(bptab) /\ bptab'[k].free = t
      /\ \A i \in 1..Len(bptab) : i # k => bptab'[i] = bptab[i]
  BY <1>1, <1>5, PoolChanges
<1>7. held'[c] = held[c] \cup {<<k, h>>} /\ \A p \in Procs : p # c => held'[p] = held[p]
  BY <1>1, <1>5
<1>8. PoolType'
  <2>1. k \in Nat /\ <<k, h>> \in Nat \X Nat
    BY <1>1, LenProperties
  <2>2. held' \in [Procs -> SUBSET (Nat \X Nat)]
    BY <1>1, <1>5, <2>1
  <2> QED
    BY <1>6, <2>2 DEF PoolsInv, PoolType
<1>9. PoolsMade'
  <2>1. ~bpmarked' => bptab' = <<>>
    BY <1>1, EmptySeq DEF PoolsInv, PoolsMade
  <2>2. ASSUME NEW p \in Procs, NEW buf \in held'[p] PROVE buf[1] \in 1..Len(bptab)
    <3>1. CASE buf = <<k, h>>
      BY <3>1
    <3>2. CASE buf # <<k, h>>
      BY <1>7, <2>2, <3>2 DEF PoolsInv, PoolsMade
    <3> QED
      BY <3>1, <3>2
  <2>3. \A p \in Procs : /\ pc'[p] = "make" => bpmarked'
                         /\ pc'[p] \in {"unlink", "signal"} => poolid'[p] \in 1..Len(bptab)
    BY DEF PoolsInv, PoolsMade
  <2> QED
    BY <1>6, <2>1, <2>2, <2>3 DEF PoolsMade
<1>10. PoolsApart'
  <2>1. \A i \in 1..Len(bptab') : IsInjective(bptab'[i].free)
    BY <1>3, <1>6 DEF PoolsInv, PoolsApart
  <2>2. \A p \in Procs : <<k, h>> \notin held[p]
    <3> SUFFICES ASSUME NEW p \in Procs, <<k, h>> \in held[p] PROVE FALSE
      OBVIOUS
    <3>1. h \notin Range(f)
      BY <1>2 DEF PoolsInv, PoolsApart
    <3> QED
      BY <1>3, <3>1
  <2>3. \A p, r \in Procs : p # r => held'[p] \cap held'[r] = {}
    <3>1. \A p, r \in Procs : p # r => held[p] \cap held[r] = {}
      BY DEF PoolsInv, PoolsApart
    <3>2. ASSUME NEW p \in Procs, p # c PROVE held'[c] \cap held'[p] = {}
      <4>1. held[c] \cap held[p] = {} /\ <<k, h>> \notin held[p] /\ held'[p] = held[p]
        BY <1>7, <2>2, <3>1, <3>2
      <4> QED
        BY <1>7, <4>1
    <3>3. ASSUME NEW p \in Procs, NEW r \in Procs, p # r, p # c, r # c
          PROVE  held'[p] \cap held'[r] = {}
      BY <1>7, <3>1, <3>3
    <3> QED
      BY <3>2, <3>3
  <2>4. ASSUME NEW p \in Procs, NEW buf \in held'[p]
        PROVE  buf[2] \notin Range(bptab'[buf[1]].free)
    <3>1. CASE buf = <<k, h>>
      BY <1>3, <1>6, <3>1
    <3>2. CASE buf # <<k, h>>
      <4>1. buf \in held[p] /\ buf[1] \in 1..Len(bptab)
        BY <1>7, <2>4, <3>2 DEF PoolsInv, PoolsMade
      <4>2. buf[2] \notin Range(bptab[buf[1]].free)
        BY <4>1 DEF PoolsInv, PoolsApart
      <4> QED
        BY <1>2, <1>3, <1>6, <4>1, <4>2
    <3> QED
      BY <3>1, <3>2
  <2> QED
    BY <2>1, <2>3, <2>4 DEF PoolsApart
<1> QED
  BY <1>2, <1>3, <1>6, <1>8, <1>9, <1>10 DEF PoolsInv

\* freebuf() links a buffer in front of the free list of its pool.
LEMMA LinkKeeps ==
  ASSUME PoolsInv, ServInv', NEW buf, FreebufLink(buf)
  PROVE  /\ PoolsInv' /\ buf[1] \in 1..Len(bptab) /\ Len(bptab') = Len(bptab)
         /\ Len(bptab'[buf[1]].free) = Len(bptab[buf[1]].free) + 1
<1>1. /\ currpid \in Procs /\ bptab \in Seq(Pools) /\ buf \in held[currpid]
      /\ held \in [Procs -> SUBSET (Nat \X Nat)]
      /\ bpmarked' = bpmarked /\ pc \in [Procs -> PoolSteps] /\ poolid \in [Procs -> Nat]
      /\ bpmarked \in BOOLEAN
  BY DEF PoolsInv, PoolType, ServInv, TableInv, ProcTypeOK, FreebufLink
<1>2. PICK c \in Procs : c = currpid
  BY <1>1
<1>3. PICK k \in Nat, x \in Nat : buf = <<k, x>> /\ k = buf[1] /\ x = buf[2]
  <2>1. buf \in Nat \X Nat
    BY <1>1
  <2> QED
    BY <2>1
<1>4. k \in 1..Len(bptab)
  BY <1>1, <1>3 DEF PoolsInv, PoolsMade
<1>5. PICK f \in Seq(Nat) : f = bptab[k].free /\ IsInjective(f) /\ x \notin Range(f)
  <2>1. bptab[k] \in Pools
    BY <1>1, <1>4, ElementOfSeq
  <2>2. bptab[k].free \in Seq(Nat) /\ IsInjective(bptab[k].free)
    BY <1>4, <2>1 DEF PoolsInv, PoolsApart, Pools
  <2>3. x \notin Range(bptab[k].free)
    BY <1>1, <1>3 DEF PoolsInv, PoolsApart
  <2> QED
    BY <2>2, <2>3
<1>6. PICK t \in Seq(Nat) : /\ t = <<x>> \o f /\ IsInjective(t)
                            /\ Range(t) = Range(f) \cup {x} /\ Len(t) = Len(f) + 1
  BY <1>5, FrontInjective
<1>7. /\ bptab' = [bptab EXCEPT ![k].free = t]
      /\ held' = [held EXCEPT ![c] = held[c] \ {buf}]
      /\ poolid' = [poolid EXCEPT ![c] = k] /\ pc' = [pc EXCEPT ![c] = "signal"]
  <2>1. bptab' = [bptab EXCEPT ![k].free = <<x>> \o bptab[k].free]
    BY <1>3 DEF FreebufLink
  <2>2. /\ held' = [held EXCEPT ![c] = held[c] \ {buf}]
        /\ poolid' = [poolid EXCEPT ![c] = k] /\ pc' = [pc EXCEPT ![c] = "signal"]
    BY <1>1, <1>2, <1>3 DEF FreebufLink, GoTo
  <2> QED
    BY <1>5, <1>6, <2>1, <2>2
<1>8. /\ bptab' \in Seq(Pools) /\ Len(bptab') = Len(bptab) /\ bptab'[k].free = t
      /\ \A i \in 1..Len(bptab) : i # k => bptab'[i] = bptab[i]
  BY <1>1, <1>4, <1>7, PoolChanges
<1>9. held'[c] = held[c] \ {buf} /\ \A p \in Procs : p # c => held'[p] = held[p]
  BY <1>1, <1>7
<1>10. PoolType'
  <2>1. pc' \in [Procs -> PoolSteps] /\ poolid' \in [Procs -> Nat]
    BY <1>1, <1>7 DEF PoolSteps
  <2>2. held' \in [Procs -> SUBSET (Nat \X Nat)]
    BY <1>1, <1>7
  <2> QED
    BY <1>1, <1>8, <2>1, <2>2 DEF PoolType
<1>11. PoolsMade'
  <2>1. bpmarked
    BY <1>1, <1>4, EmptySeq DEF PoolsInv, PoolsMade
  <2>2. \A p \in Procs : \A b \in held'[p] : b[1] \in 1..Len(bptab)
    BY <1>9 DEF PoolsInv, PoolsMade
  <2>3. \A p \in Procs : pc'[p] \in {"unlink", "signal"} => poolid'[p] \in 1..Len(bptab)
    BY <1>1, <1>4, <1>7 DEF PoolsInv, PoolsMade
  <2> QED
    BY <1>1, <1>8, <2>1, <2>2, <2>3 DEF PoolsMade
<1>12. PoolsApart'
  <2>1. \A i \in 1..Len(bptab') : IsInjective(bptab'[i].free)
    BY <1>6, <1>8 DEF PoolsInv, PoolsApart
  <2>2. \A p \in Procs : buf \notin held'[p]
    BY <1>1, <1>2, <1>9 DEF PoolsInv, PoolsApart
  <2>3. \A p, r \in Procs : p # r => held'[p] \cap held'[r] = {}
    <3>1. \A p, r \in Procs : p # r => held[p] \cap held[r] = {}
      BY DEF PoolsInv, PoolsApart
    <3> QED
      BY <1>9, <3>1
  <2>4. ASSUME NEW p \in Procs, NEW b \in held'[p]
        PROVE  b[2] \notin Range(bptab'[b[1]].free)
    <3>1. b \in held[p] /\ b # buf /\ b \in Nat \X Nat
      BY <1>1, <1>9, <2>2, <2>4
    <3>2. b[1] \in 1..Len(bptab) /\ b[2] \notin Range(bptab[b[1]].free)
      BY <3>1 DEF PoolsInv, PoolsMade, PoolsApart
    <3>3. CASE b[1] = k
      <4>1. b[2] # x
        BY <1>3, <3>1, <3>3
      <4> QED
        BY <1>5, <1>6, <1>8, <3>2, <3>3, <4>1
    <3>4. CASE b[1] # k
      BY <1>8, <3>2, <3>4
    <3> QED
      BY <3>3, <3>4
  <2> QED
    BY <2>1, <2>3, <2>4 DEF PoolsApart
<1> QED
  BY <1>3, <1>4, <1>5, <1>6, <1>8, <1>10, <1>11, <1>12 DEF PoolsInv

\* mkpool() adds a pool whose buffers are all free.
LEMMA MadeKeeps ==
  ASSUME PoolsInv, ServInv', NEW n \in Nat, NEW s \in Sems,
         bptab' = Append(bptab, [sem |-> s, total |-> n, free |-> [i \in 1..n |-> i]]),
         bpmarked, bpmarked' = bpmarked, poolid' = poolid, held' = held,
         pc' \in [Procs -> PoolSteps], \A p \in Procs : pc'[p] = pc[p] \/ pc'[p] = "idle"
  PROVE  /\ PoolsInv' /\ Len(bptab') = Len(bptab) + 1
         /\ \A k \in 1..Len(bptab) : bptab'[k] = bptab[k]
         /\ bptab'[Len(bptab) + 1].sem = s /\ Len(bptab'[Len(bptab) + 1].free) = n
<1>1. PICK f \in Seq(Nat) : f = [i \in 1..n |-> i] /\ Len(f) = n /\ IsInjective(f)
  <2>1. [i \in 1..n |-> i] \in Seq(Nat) /\ Len([i \in 1..n |-> i]) = n
    <3>1. [i \in 1..n |-> i] \in [1..n -> Nat]
      OBVIOUS
    <3> QED
      BY <3>1, SeqDef, LenProperties
  <2>2. IsInjective([i \in 1..n |-> i])
    BY DEF IsInjective
  <2> QED
    BY <2>1, <2>2
<1>2. PICK r \in Pools : r = [sem |-> s, total |-> n, free |-> f] /\ r.sem = s /\ r.free = f
  <2>1. [sem |-> s, total |-> n, free |-> f] \in Pools
    BY <1>1 DEF Pools
  <2> QED
    BY <2>1
<1>3. bptab \in Seq(Pools) /\ Len(bptab) \in Nat /\ bptab' = Append(bptab, r)
  BY <1>1, <1>2, LenProperties DEF PoolsInv, PoolType
<1>4. /\ bptab' \in Seq(Pools) /\ Len(bptab') = Len(bptab) + 1
      /\ \A k \in 1..Len(bptab) : bptab'[k] = bptab[k]
      /\ bptab'[Len(bptab) + 1] = r
  BY <1>3, AppendProperties
<1>5. PoolType'
  BY <1>4 DEF PoolsInv, PoolType
<1>6. PoolsMade'
  <2>1. \A p \in Procs : /\ pc'[p] \in {"unlink", "signal"} => poolid'[p] \in 1..Len(bptab)
                         /\ \A buf \in held'[p] : buf[1] \in 1..Len(bptab)
    BY DEF PoolsInv, PoolsMade
  <2>2. \A x \in 1..Len(bptab) : x \in 1..Len(bptab')
    BY <1>3, <1>4
  <2> QED
    BY <2>1, <2>2 DEF PoolsMade
<1>7. PoolsApart'
  <2>1. ASSUME NEW k \in 1..Len(bptab') PROVE IsInjective(bptab'[k].free)
    <3>1. CASE k = Len(bptab) + 1
      BY <1>1, <1>2, <1>4, <3>1
    <3>2. CASE k # Len(bptab) + 1
      <4>1. k \in 1..Len(bptab)
        BY <1>3, <1>4, <3>2
      <4> QED
        BY <1>4, <4>1 DEF PoolsInv, PoolsApart
    <3> QED
      BY <3>1, <3>2
  <2>2. ASSUME NEW p \in Procs, NEW buf \in held'[p]
        PROVE  buf[2] \notin Range(bptab'[buf[1]].free)
    <3>1. buf[1] \in 1..Len(bptab) /\ buf[2] \notin Range(bptab[buf[1]].free)
      BY <2>2 DEF PoolsInv, PoolsMade, PoolsApart
    <3> QED
      BY <1>4, <3>1
  <2> QED
    BY <2>1, <2>2 DEF PoolsInv, PoolsApart
<1> QED
  BY <1>1, <1>2, <1>4, <1>5, <1>6, <1>7 DEF PoolsInv

\* Every step of the pools keeps the buffers apart, and no pool is lost.
LEMMA PoolsNext ==
  PoolsInv /\ [BufNext]_bufVars => PoolsInv' /\ Len(bptab') >= Len(bptab)
<1> SUFFICES ASSUME PoolsInv, [BufNext]_bufVars PROVE PoolsInv' /\ Len(bptab') >= Len(bptab)
  OBVIOUS
<1>1. /\ ServInv' /\ PoolType /\ PoolsMade /\ currpid \in Procs
      /\ Len(bptab) \in Nat /\ PoolIds = 1..Len(bptab)
  BY PoolsKeepKernel, LenProperties
     DEF PoolsInv, PoolType, ServInv, TableInv, ProcTypeOK, PoolIds
<1>2. PICK c \in Procs : c = currpid
  BY <1>1
\* A step of the running process that leaves the pools alone.
<1>3. ASSUME NEW step \in PoolSteps, pc' = [pc EXCEPT ![c] = step] \/ pc' = pc, bptab' = bptab,
             bpmarked' = bpmarked \/ bpmarked' = TRUE, held' = held,
             NEW k \in 1..Len(bptab) \cup {1},
             poolid' = [poolid EXCEPT ![c] = k] \/ poolid' = poolid,
             step = "make" => bpmarked',
             step = "unlink" => k \in 1..Len(bptab) /\ poolid' = [poolid EXCEPT ![c] = k],
             step # "signal", poolid' # poolid => step = "unlink" /\ pc' = [pc EXCEPT ![c] = step]
      PROVE  PoolsInv' /\ Len(bptab') >= Len(bptab)
  <2>1. /\ pc' \in [Procs -> PoolSteps] /\ poolid' \in [Procs -> Nat]
        /\ bpmarked' \in BOOLEAN /\ (bpmarked => bpmarked')
    <3>1. k \in Nat /\ pc \in [Procs -> PoolSteps] /\ poolid \in [Procs -> Nat]
      BY <1>1, <1>3 DEF PoolType
    <3>2. pc' \in [Procs -> PoolSteps]
      BY <1>3, <3>1
    <3>3. poolid' \in [Procs -> Nat]
      BY <1>3, <3>1
    <3>4. bpmarked' \in BOOLEAN /\ (bpmarked => bpmarked')
      <4>1. bpmarked \in BOOLEAN
        BY <1>1 DEF PoolType
      <4>2. CASE bpmarked' = bpmarked
        BY <4>1, <4>2, Zenon
      <4>3. CASE bpmarked' = TRUE
        BY <4>3
      <4> QED
        BY <1>3, <4>2, <4>3
    <3> QED
      BY <3>2, <3>3, <3>4
  <2>2. ASSUME NEW p \in Procs
        PROVE  /\ pc'[p] = "make" => bpmarked'
               /\ pc'[p] \in {"unlink", "signal"} => poolid'[p] \in 1..Len(bptab)
    <3>1. CASE p # c
      BY <1>1, <1>3, <3>1 DEF PoolType, PoolsMade
    <3>2. CASE p = c /\ pc' = [pc EXCEPT ![c] = step]
      BY <1>1, <1>3, <3>2 DEF PoolType, PoolsMade
    <3>3. CASE p = c /\ pc' = pc
      BY <1>1, <1>3, <3>3 DEF PoolType, PoolsMade
    <3> QED
      BY <1>3, <3>1, <3>2, <3>3
  <2>3. held' \in [Procs -> SUBSET (Nat \X Nat)] /\ \A p \in Procs : held'[p] \subseteq held[p]
    BY <1>1, <1>3 DEF PoolType
  <2>4. PoolsInv'
    BY <1>1, <1>3, <2>1, <2>2, <2>3, PoolsUntouched
  <2> QED
    BY <1>1, <1>3, <2>4
<1>4. CASE Service
  <2>1. UNCHANGED <<bpmarked, bptab, poolid>>
    BY <1>4 DEF Service
  <2>2. PICK D \in SUBSET Procs :
          /\ pc' = [p \in Procs |-> IF p \in D THEN "idle" ELSE pc[p]]
          /\ held' = [p \in Procs |-> IF p \in D THEN {} ELSE held[p]]
    <3> DEFINE E == {p \in Procs : pstate[p] # "PRFREE" /\ pstate'[p] = "PRFREE"}
    <3>1. E \in SUBSET Procs
      OBVIOUS
    <3>2. /\ pc' = [p \in Procs |-> IF p \in E THEN "idle" ELSE pc[p]]
          /\ held' = [p \in Procs |-> IF p \in E THEN {} ELSE held[p]]
      BY <1>4, Zenon DEF Service
    <3> QED
      BY <3>1, <3>2
  <2>3. pc' \in [Procs -> PoolSteps] /\ held' \in [Procs -> SUBSET (Nat \X Nat)]
    BY <1>1, <2>2 DEF PoolType, PoolSteps
  <2>4. \A p \in Procs : /\ held'[p] \subseteq held[p]
                         /\ pc'[p] = "make" => bpmarked'
                         /\ pc'[p] \in {"unlink", "signal"} => poolid'[p] \in 1..Len(bptab)
    BY <1>1, <2>1, <2>2 DEF PoolsMade
  <2>5. PoolsInv'
    BY <1>1, <2>1, <2>3, <2>4, PoolsUntouched DEF PoolType
  <2> QED
    BY <1>1, <2>1, <2>5
<1>5. ASSUME UNCHANGED poolVars PROVE PoolsInv' /\ Len(bptab') >= Len(bptab)
  BY <1>1, <1>3, <1>5 DEF poolVars, PoolSteps
<1>6. CASE Interrupt \/ UNCHANGED bufVars
  BY <1>5, <1>6 DEF Interrupt, bufVars
<1>7. CASE MkpoolTest
  <2>1. PICK step \in {"make", "poolinit"} :
          /\ pc' = [pc EXCEPT ![c] = step] /\ UNCHANGED <<bpmarked, bptab, poolid, held>>
          /\ step = "make" => bpmarked
    BY <1>2, <1>7 DEF MkpoolTest, GoTo
  <2> QED
    BY <1>3, <2>1 DEF PoolSteps
<1>8. CASE Poolinit
  <2>1. pc' = [pc EXCEPT ![c] = "make"] /\ bpmarked' = TRUE /\ UNCHANGED <<poolid, held>>
    BY <1>2, <1>8 DEF Poolinit, GoTo
  <2>2. bptab' = bptab
    BY <1>1, <1>8 DEF Poolinit, PoolsMade
  <2> QED
    BY <1>3, <2>1, <2>2 DEF PoolSteps
<1>9. ASSUME NEW n \in NumBufs, Mkpool(n) PROVE PoolsInv' /\ Len(bptab') >= Len(bptab)
  <2>1. /\ pc' = [pc EXCEPT ![c] = "idle"] /\ UNCHANGED <<bpmarked, poolid, held>>
        /\ pc[c] = "make"
    BY <1>2, <1>9 DEF Mkpool, At, GoTo
  <2>2. CASE bptab' = bptab
    BY <1>3, <2>1, <2>2 DEF PoolSteps
  <2>3. CASE Len(bptab) < NBPOOLS
    <3>1. nextsem \in Sems /\ FreeSems # {}
      BY <1>9, <2>3 DEF Mkpool, ScreateWith, PoolsInv, ServInv, SemInv, SemType
    <3>2. PICK s \in Sems : s = NewSem
      BY <3>1, NewSemFree
    <3>3. bptab' = Append(bptab, [sem |-> s, total |-> n, free |-> [i \in 1..n |-> i]])
      BY <1>9, <2>3, <3>2 DEF Mkpool
    <3>4. bpmarked /\ n \in Nat
      BY <1>1, <2>1, NumBufsAssumption DEF PoolsMade
    <3>5. pc' \in [Procs -> PoolSteps] /\ \A p \in Procs : pc'[p] = pc[p] \/ pc'[p] = "idle"
      BY <1>1, <2>1 DEF PoolType, PoolSteps
    <3>6. PoolsInv' /\ Len(bptab') = Len(bptab) + 1
      BY <1>1, <2>1, <3>2, <3>3, <3>4, <3>5, MadeKeeps
    <3> QED
      BY <1>1, <3>6
  <2> QED
    BY <1>9, <2>2, <2>3 DEF Mkpool
<1>10. ASSUME NEW k \in PoolIds, GetbufWait(k) PROVE PoolsInv' /\ Len(bptab') >= Len(bptab)
  <2>1. /\ pc' = [pc EXCEPT ![c] = "unlink"] /\ poolid' = [poolid EXCEPT ![c] = k]
        /\ UNCHANGED <<bpmarked, bptab, held>>
    BY <1>2, <1>10 DEF GetbufWait, GoTo
  <2> QED
    BY <1>1, <1>3, <2>1 DEF PoolSteps
<1>11. CASE FreebufSignal
  <2>1. pc' = [pc EXCEPT ![c] = "idle"] /\ UNCHANGED <<bpmarked, bptab, poolid, held>>
    BY <1>2, <1>11 DEF FreebufSignal, GoTo
  <2> QED
    BY <1>3, <2>1 DEF PoolSteps
<1>12. CASE GetbufUnlink
  <2>1. /\ pc' = [pc EXCEPT ![c] = "idle"] /\ UNCHANGED <<bpmarked, poolid>>
        /\ poolid[c] \in 1..Len(bptab) /\ TakeFrom(poolid[c]) /\ bptab[poolid[c]].free # <<>>
    BY <1>1, <1>2, <1>12 DEF GetbufUnlink, At, GoTo, PoolsMade
  <2>2. pc' \in [Procs -> PoolSteps] /\ \A p \in Procs : pc'[p] = pc[p] \/ pc'[p] = "idle"
    BY <1>1, <2>1 DEF PoolType, PoolSteps
  <2> QED
    BY <1>1, <2>1, <2>2, TakeKeeps
<1>13. ASSUME NEW k \in PoolIds, Nbgetbuf(k) PROVE PoolsInv' /\ Len(bptab') >= Len(bptab)
  <2>1. /\ UNCHANGED <<bpmarked, poolid, pc>> /\ k \in 1..Len(bptab)
        /\ TakeFrom(k) /\ bptab[k].free # <<>>
    BY <1>1, <1>13 DEF Nbgetbuf
  <2>2. pc' \in [Procs -> PoolSteps]
    BY <1>1, <2>1 DEF PoolType
  <2> QED
    BY <1>1, <2>1, <2>2, TakeKeeps
<1>14. ASSUME NEW buf, FreebufLink(buf) PROVE PoolsInv' /\ Len(bptab') >= Len(bptab)
  BY <1>1, <1>14, LinkKeeps
<1> QED
  BY <1>4, <1>6, <1>7, <1>8, <1>9, <1>10, <1>11, <1>12, <1>13, <1>14 DEF BufNext

LEMMA PoolsInit == BufInit => PoolsInv
<1> SUFFICES ASSUME BufInit PROVE PoolsInv
  OBVIOUS
<1>1. ServInv
  BY ServInitInv DEF BufInit
<1>2. /\ bpmarked = FALSE /\ bptab = <<>> /\ pc = [p \in Procs |-> "idle"]
      /\ poolid = [p \in Procs |-> 1] /\ held = [p \in Procs |-> {}]
  BY DEF BufInit
<1>3. PoolType
  BY <1>2, EmptySeq DEF PoolType, PoolSteps
<1>4. PoolsMade /\ PoolsApart
  <2>1. Len(bptab) = 0 /\ 1..0 = {}
    BY <1>2, EmptySeq
  <2> QED
    BY <1>2, <2>1 DEF PoolsMade, PoolsApart
<1> QED
  BY <1>1, <1>3, <1>4 DEF PoolsInv

LEMMA PoolsInvariant == BufSpec => []PoolsInv
<1>1. PoolsInv /\ [BufNext]_bufVars => PoolsInv'
  BY PoolsNext
<1> QED
  BY <1>1, PoolsInit, PTL DEF BufSpec

\* Whatever the other services do between the steps of getbuf() and freebuf(), and
\* whoever dies there, no buffer is handed out twice or linked twice.
THEOREM BuffersAreApart == BufSpec => []BufferInOnePlace
<1>1. PoolsInv => BufferInOnePlace
  BY LenProperties DEF PoolsInv, PoolType, PoolsApart, BufferInOnePlace, PoolIds
<1> QED
  BY <1>1, PoolsInvariant, PTL

\* Racing first calls of mkpool() do not lose each other's pools.
THEOREM PoolsAreKept == BufSpec => PoolsStay
<1>1. PoolsInv /\ [BufNext]_bufVars => [Len(bptab') >= Len(bptab)]_bufVars
  BY PoolsNext
<1> QED
  BY <1>1, PoolsInvariant, PTL DEF BufSpec, PoolsStay

-------------------------------------------------------------------------------
(***************************************************************************)
(* Buffer pools: a process that got past the semaphore finds a buffer.     *)
(***************************************************************************)

\* Only the pools' own calls give units: processes may wait for a pool's
\* semaphore and die, but not signal, reset or delete one.
PoolsOnly == uses \cap {"signal", "signaln", "sreset", "sdelete"} = {}

\* The processes that have taken a unit of a pool and not yet its buffer, or have
\* put a buffer back and not yet its unit.
Owed(k) ==
  {p \in Procs : /\ poolid[p] = k
                 /\ \/ pc[p] = "signal"
                    \/ pc[p] = "unlink" /\ pstate[p] # "PRWAIT"}

\* The units of a semaphore.
UnitsLeft(s) == IF semcnt[s] > 0 THEN semcnt[s] ELSE 0

\* There is a buffer for each unit and for each process that is owed one.
Promise(k) ==
  UnitsLeft(bptab[k].sem) + Cardinality(Owed(k)) <= Len(bptab[k].free)

BuffersInv ==
  /\ PoolsInv /\ PoolsOnly
  /\ \A k \in 1..Len(bptab) : sstate[bptab[k].sem] = "SUSED"
  /\ \A i, j \in 1..Len(bptab) : i # j => bptab[i].sem # bptab[j].sem
  /\ \A p \in Procs : pc[p] = "unlink" /\ pstate[p] = "PRWAIT"
                      => psem[p] = bptab[poolid[p]].sem
  /\ \A k \in 1..Len(bptab) : Promise(k)

\* Nobody gives a unit, and nobody is woken but to die.
NoUnitMade ==
  /\ uses' = uses
  /\ \A s \in Sems : sstate[s] = "SUSED"
       => sstate'[s] = "SUSED" /\ (semcnt'[s] <= semcnt[s] \/ semcnt'[s] <= 0)
  /\ \A p \in Procs : pstate[p] = "PRWAIT"
       => (pstate'[p] = "PRWAIT" /\ psem'[p] = psem[p]) \/ pstate'[p] = "PRFREE"
  /\ \A p \in Procs : pstate'[p] = "PRWAIT"
       => pstate[p] = "PRWAIT" \/ (p = currpid /\ kcall[p] = "none")

\* The services of the other processes make no units.
LEMMA ServicesMakeNoUnit ==
  ASSUME ServInv, ServNext, PoolsOnly
  PROVE  NoUnitMade
<1>1. /\ ServInv' /\ SemInv /\ SemInv' /\ SemType /\ CountIsWaiters
      /\ currpid \in Procs /\ pstate \in [Procs -> PStates]
      /\ semcnt \in [Sems -> Int] /\ psem \in [Procs -> Sems]
  BY ServNextInv DEF ServInv, SemInv, SemType, TableInv, ProcTypeOK
<1>2. ASSUME UNCHANGED <<semVars, uses>> PROVE NoUnitMade
  <2>1. \A p \in Procs : pstate'[p] = "PRWAIT" <=> pstate[p] = "PRWAIT"
    BY <1>1, <1>2, SameWaiters DEF semVars
  <2>2. \A s \in Sems : sstate[s] = "SUSED" => sstate'[s] = "SUSED" /\ semcnt'[s] <= semcnt[s]
    BY <1>1, <1>2 DEF semVars
  <2> QED
    BY <1>2, <2>1, <2>2 DEF NoUnitMade, semVars
<1>3. ASSUME NEW n \in Counts, Screate(n) PROVE NoUnitMade
  <2>1. /\ FreeSems # {} /\ UNCHANGED <<semq, psem, kcall, uses>>
        /\ sstate' = [sstate EXCEPT ![NewSem] = "SUSED"]
        /\ semcnt' = [semcnt EXCEPT ![NewSem] = n]
    BY <1>3 DEF Screate, ScreateWith, callVars
  <2>2. PICK new \in FreeSems : new = NewSem /\ new \in Sems
    BY <1>1, <2>1, NewSemFree DEF SemType
  <2>3. \A s \in Sems : sstate[s] = "SUSED"
                        => sstate'[s] = "SUSED" /\ semcnt'[s] <= semcnt[s]
    BY <1>1, <2>1, <2>2 DEF SemType, FreeSems
  <2>4. \A p \in Procs : pstate'[p] = "PRWAIT" <=> pstate[p] = "PRWAIT"
    BY <1>1, <2>1, SameWaiters
  <2> QED
    BY <2>1, <2>3, <2>4 DEF NoUnitMade
<1>4. ASSUME NEW n \in NewPrios, Create(n) PROVE NoUnitMade
  <2>1. FreeSlots # {} /\ NewPid \in FreeSlots
    BY <1>4, NewPidFree DEF Create, ServInv, TableInv
  <2>2. PICK q \in FreeSlots : q = NewPid
    BY <2>1
  <2>3. /\ pstate' = [pstate EXCEPT ![q] = "PRSUSP"] /\ psem' = [psem EXCEPT ![q] = 0]
        /\ UNCHANGED <<uses, sstate, semcnt>>
    BY <1>4, <2>2 DEF Create
  <2>4. q \in Procs /\ pstate[q] = "PRFREE"
    BY <2>2, UserIsProc DEF FreeSlots
  <2>5. \A s \in Sems : sstate[s] = "SUSED"
                        => sstate'[s] = "SUSED" /\ semcnt'[s] <= semcnt[s]
    BY <1>1, <2>3
  <2> QED
    BY <1>1, <2>3, <2>4, <2>5 DEF NoUnitMade
<1>5. ASSUME NEW call \in {"signal", "signaln", "sreset", "sdelete"}, Calling(call)
      PROVE  FALSE
  BY <1>5 DEF Calling, PoolsOnly
<1>6. ASSUME NEW s \in Sems, Signal(s) \/ Sdelete(s) PROVE NoUnitMade
  BY <1>5, <1>6 DEF Signal, Sdelete
<1>7. ASSUME NEW s \in Sems, NEW n \in Counts, Signaln(s, n) \/ Sreset(s, n) PROVE NoUnitMade
  BY <1>5, <1>7 DEF Signaln, Sreset
<1>8. ASSUME NEW s \in Sems, Wait(s) PROVE NoUnitMade
  <2>1. kcall[currpid] = "none" /\ currpid # NULLPROC /\ WaitOn(s)
    BY <1>8 DEF Wait, Calling
  <2>2. PICK c \in Procs : c = currpid
    BY <1>1
  <2>3. /\ sstate' = sstate /\ uses' = uses /\ semcnt' = [semcnt EXCEPT ![s] = @ - 1]
        /\ \/ UNCHANGED <<pstate, psem>>
           \/ /\ pstate[c] = "PRCURR" /\ psem' = [psem EXCEPT ![c] = s]
              /\ \A p \in Procs \ {c} : pstate'[p] = "PRWAIT" <=> pstate[p] = "PRWAIT"
    BY <2>1, <2>2, WaitOnWaits
  <2>4. \A r \in Sems : sstate[r] = "SUSED" => sstate'[r] = "SUSED" /\ semcnt'[r] <= semcnt[r]
    BY <1>1, <2>3
  <2>5. CASE UNCHANGED <<pstate, psem>>
    BY <2>3, <2>4, <2>5 DEF NoUnitMade
  <2>6. CASE /\ pstate[c] = "PRCURR" /\ psem' = [psem EXCEPT ![c] = s]
             /\ \A p \in Procs \ {c} : pstate'[p] = "PRWAIT" <=> pstate[p] = "PRWAIT"
    <3>1. ASSUME NEW p \in Procs, pstate[p] = "PRWAIT"
          PROVE  pstate'[p] = "PRWAIT" /\ psem'[p] = psem[p]
      BY <1>1, <2>6, <3>1
    <3>2. ASSUME NEW p \in Procs, pstate'[p] = "PRWAIT"
          PROVE  pstate[p] = "PRWAIT" \/ (p = currpid /\ kcall[p] = "none")
      BY <2>1, <2>2, <2>6, <3>2
    <3> QED
      BY <2>3, <2>4, <3>1, <3>2 DEF NoUnitMade
  <2> QED
    BY <2>3, <2>5, <2>6
<1>9. CASE WaitReturns
  BY <1>2, <1>9 DEF WaitReturns
<1>10. ASSUME NEW n \in Delays, Sleep(n) \/ Recvtim(n) PROVE NoUnitMade
  BY <1>2, <1>10 DEF Sleep, Recvtim, callVars
<1>11. CASE Tick \/ Preempt
  BY <1>2, <1>11 DEF Tick, Preempt, ClockInterrupt, QuantumEnds, callVars
<1>12. CASE TakeMessage \/ Receive \/ ReceiveReturns
  BY <1>2, <1>12 DEF TakeMessage, Receive, ReceiveReturns, callVars
<1>13. ASSUME NEW p \in UserPids, Send(p) \/ Resume(p) \/ Suspend(p) \/ Kill(p)
       PROVE  NoUnitMade
  BY <1>2, <1>13 DEF Send, Resume, Suspend, Kill, callVars
<1>14. ASSUME NEW nok \in Kin, NEW p \in UserPids, Setnok(nok, p) PROVE NoUnitMade
  BY <1>2, <1>14 DEF Setnok, callVars
<1>15. CASE KillEnds
  <2>1. kvictim[currpid] \in UserPids
    BY <1>15 DEF KillEnds, ServInv, CallInv, TableInv, ProcTypeOK
  <2>2. PICK v \in UserPids : v = kvictim[currpid] /\ v \in Procs
    BY <2>1, UserIsProc
  <2>3. /\ pstate'[v] = "PRFREE" /\ \A q \in Procs \ {v} : Stays(q)
    BY <1>15, <2>2, KillEndsKeeps
  <2>4. \A q \in Procs \ {v} : pstate'[q] = "PRWAIT" <=> pstate[q] = "PRWAIT"
    BY <2>3, StaysMeans
  <2>5. /\ UNCHANGED <<uses, sstate, psem>>
        /\ \/ semcnt' = semcnt
           \/ pstate[v] = "PRWAIT" /\ semcnt' = [semcnt EXCEPT ![psem[v]] = @ + 1]
    BY <1>15, <2>2 DEF KillEnds, Suicide, BuryWaiter, BuryReady, BurySleeper, BuryOther
  <2>6. ASSUME NEW s \in Sems, sstate[s] = "SUSED"
        PROVE  semcnt'[s] <= semcnt[s] \/ semcnt'[s] <= 0
    <3>1. CASE semcnt' = semcnt
      BY <1>1, <3>1
    <3>2. CASE pstate[v] = "PRWAIT" /\ semcnt' = [semcnt EXCEPT ![psem[v]] = @ + 1]
      <4>1. CASE s # psem[v]
        BY <1>1, <3>2, <4>1
      <4>2. CASE s = psem[v]
        <5>1. v \in Range(semq[s]) /\ semq[s] \in Seq(UserPids)
          BY <1>1, <2>2, <3>2, <4>2 DEF SemInv, InLine, SemType
        <5>2. Len(semq[s]) \in Nat /\ Len(semq[s]) # 0
          BY <5>1, LenProperties DEF Range
        <5>3. semcnt[s] \in Int /\ Len(semq[s]) = -Min({0, semcnt[s]})
          BY <1>1, <2>6 DEF CountIsWaiters
        <5>4. -Min({0, semcnt[s]}) = IF 0 <= semcnt[s] THEN 0 ELSE 0 - semcnt[s]
          BY <5>3, Deficit
        <5>5. semcnt[s] < 0
          BY <5>2, <5>3, <5>4
        <5>6. semcnt'[s] = semcnt[s] + 1
          BY <1>1, <3>2, <4>2
        <5> QED
          BY <5>3, <5>5, <5>6
      <4> QED
        BY <4>1, <4>2
    <3> QED
      BY <2>5, <3>1, <3>2
  <2> QED
    BY <2>3, <2>4, <2>5, <2>6 DEF NoUnitMade
<1> QED
  BY <1>3, <1>4, <1>6, <1>7, <1>8, <1>9, <1>10, <1>11, <1>12, <1>13, <1>14, <1>15 DEF ServNext


LEMMA OwedFinite ==
  ASSUME NEW k
  PROVE  /\ IsFiniteSet(Owed(k)) /\ Cardinality(Owed(k)) \in Nat
         /\ IsFiniteSet(Owed(k)') /\ Cardinality(Owed(k)') \in Nat
<1>1. PICK A \in SUBSET Procs, B \in SUBSET Procs : A = Owed(k) /\ B = Owed(k)'
  BY DEF Owed
<1>2. /\ IsFiniteSet(A) /\ Cardinality(A) \in Nat
      /\ IsFiniteSet(B) /\ Cardinality(B) \in Nat
  BY <1>1, ProcsFinite, FS_Subset, FS_CardinalityType
<1> QED
  BY <1>1, <1>2

\* One process more, or one less, is owed a buffer.
LEMMA OwedMoves ==
  ASSUME NEW k, NEW p
  PROVE  /\ Owed(k)' \subseteq Owed(k) => Cardinality(Owed(k)') <= Cardinality(Owed(k))
         /\ Owed(k)' \subseteq Owed(k) \cup {p} /\ p \notin Owed(k)
              => Cardinality(Owed(k)') <= Cardinality(Owed(k)) + 1
         /\ Owed(k)' \subseteq Owed(k) \ {p} /\ p \in Owed(k)
              => Cardinality(Owed(k)') <= Cardinality(Owed(k)) - 1
<1>1. PICK A, B : /\ A = Owed(k) /\ B = Owed(k)'
                  /\ IsFiniteSet(A) /\ Cardinality(A) \in Nat
                  /\ IsFiniteSet(B) /\ Cardinality(B) \in Nat
  BY OwedFinite
<1>2. B \subseteq A => Cardinality(B) <= Cardinality(A)
  BY <1>1, FS_Subset
<1>3. ASSUME B \subseteq A \cup {p}, p \notin A PROVE Cardinality(B) <= Cardinality(A) + 1
  <2>1. IsFiniteSet(A \cup {p}) /\ Cardinality(A \cup {p}) = Cardinality(A) + 1
    BY <1>1, <1>3, FS_AddElement
  <2>2. Cardinality(B) <= Cardinality(A \cup {p})
    BY <1>3, <2>1, FS_Subset
  <2> QED
    BY <2>1, <2>2
<1>4. ASSUME B \subseteq A \ {p}, p \in A PROVE Cardinality(B) <= Cardinality(A) - 1
  <2>1. IsFiniteSet(A \ {p}) /\ Cardinality(A \ {p}) = Cardinality(A) - 1
    BY <1>1, <1>4, FS_RemoveElement
  <2>2. Cardinality(B) <= Cardinality(A \ {p})
    BY <1>4, <2>1, FS_Subset
  <2> QED
    BY <2>1, <2>2
<1> QED
  BY <1>1, <1>2, <1>3, <1>4

\* What the pools' invariants say of a state.
LEMMA BuffersMean ==
  ASSUME BuffersInv
  PROVE  /\ ServInv /\ currpid \in Procs /\ pstate[currpid] = "PRCURR"
         /\ semcnt \in [Sems -> Int] /\ psem \in [Procs -> Sems]
         /\ sstate \in [Sems -> {"SFREE", "SUSED"}]
         /\ pc \in [Procs -> PoolSteps] /\ poolid \in [Procs -> Nat]
         /\ bptab \in Seq(Pools) /\ Len(bptab) \in Nat /\ PoolIds = 1..Len(bptab)
         /\ \A k \in 1..Len(bptab) : /\ bptab[k].sem \in Sems /\ bptab[k].free \in Seq(Nat)
                                     /\ Len(bptab[k].free) \in Nat
<1>1. bptab \in Seq(Pools)
  BY DEF BuffersInv, PoolsInv, PoolType
<1>2. Len(bptab) \in Nat /\ PoolIds = 1..Len(bptab)
  BY <1>1, LenProperties DEF PoolIds
<1>3. ASSUME NEW k \in 1..Len(bptab)
      PROVE  /\ bptab[k].sem \in Sems /\ bptab[k].free \in Seq(Nat)
             /\ Len(bptab[k].free) \in Nat
  <2>1. bptab[k] \in Pools
    BY <1>1, <1>3, ElementOfSeq
  <2> QED
    BY <2>1, LenProperties DEF Pools
<1> QED
  BY <1>1, <1>2, <1>3
     DEF BuffersInv, PoolsInv, PoolType, ServInv, TableInv, ProcTypeOK, SemInv, SemType

\* A pool that nobody works on keeps its promise.
LEMMA PromiseStays ==
  ASSUME NEW k \in Nat, Promise(k), NEW s \in Sems, bptab[k].sem = s, bptab'[k].sem = s,
         Len(bptab[k].free) \in Nat, bptab'[k].free = bptab[k].free,
         semcnt[s] \in Int, semcnt'[s] \in Int,
         semcnt'[s] <= semcnt[s] \/ semcnt'[s] <= 0,
         Owed(k)' \subseteq Owed(k)
  PROVE  Promise(k)'
<1>1. Cardinality(Owed(k)') <= Cardinality(Owed(k))
  BY OwedMoves
<1>2. Cardinality(Owed(k)) \in Nat /\ Cardinality(Owed(k)') \in Nat
  BY OwedFinite
<1>3. UnitsLeft(s) \in Nat /\ UnitsLeft(s)' \in Nat /\ UnitsLeft(s)' <= UnitsLeft(s)
  BY DEF UnitsLeft
<1>4. UnitsLeft(s) + Cardinality(Owed(k)) <= Len(bptab[k].free)
  BY DEF Promise
<1>5. UnitsLeft(s)' + Cardinality(Owed(k)') <= Len(bptab'[k].free)
  BY <1>1, <1>2, <1>3, <1>4
<1> QED
  BY <1>5 DEF Promise, UnitsLeft

\* The pools stay, and each keeps its promise.
LEMMA BuffersKept ==
  ASSUME BuffersInv, PoolsInv', uses' = uses, Len(bptab') = Len(bptab),
         \A k \in 1..Len(bptab) : bptab'[k].sem = bptab[k].sem,
         \A s \in Sems : sstate[s] = "SUSED" => sstate'[s] = "SUSED",
         \A p \in Procs : pc'[p] = "unlink" /\ pstate'[p] = "PRWAIT"
                          => psem'[p] = bptab[poolid'[p]].sem,
         \A k \in 1..Len(bptab) : Promise(k)'
  PROVE  BuffersInv'
<1>1. /\ \A k \in 1..Len(bptab') : sstate'[bptab'[k].sem] = "SUSED"
      /\ \A i, j \in 1..Len(bptab') : i # j => bptab'[i].sem # bptab'[j].sem
  <2>1. ASSUME NEW k \in 1..Len(bptab) PROVE sstate'[bptab'[k].sem] = "SUSED"
    <3>1. bptab[k].sem \in Sems
      BY BuffersMean
    <3>2. sstate[bptab[k].sem] = "SUSED" /\ bptab'[k].sem = bptab[k].sem
      BY DEF BuffersInv
    <3> QED
      BY <3>1, <3>2
  <2>2. ASSUME NEW i \in 1..Len(bptab), NEW j \in 1..Len(bptab), i # j
        PROVE  bptab'[i].sem # bptab'[j].sem
    BY <2>2 DEF BuffersInv
  <2> QED
    BY <2>1, <2>2
<1>2. ASSUME NEW p \in Procs, pc'[p] = "unlink", pstate'[p] = "PRWAIT"
      PROVE  psem'[p] = bptab'[poolid'[p]].sem
  <2>1. poolid'[p] \in 1..Len(bptab)
    BY <1>2 DEF PoolsInv, PoolsMade
  <2> QED
    BY <1>2, <2>1
<1> QED
  BY <1>1, <1>2 DEF BuffersInv, PoolsOnly

\* A step that leaves pools alone and makes no units.
LEMMA QuietPools ==
  ASSUME BuffersInv, PoolsInv', bptab' = bptab, NoUnitMade,
         \A k \in 1..Len(bptab) : Owed(k)' \subseteq Owed(k),
         \A p \in Procs : pc'[p] = "unlink" /\ pstate'[p] = "PRWAIT"
                          => psem'[p] = bptab[poolid'[p]].sem
  PROVE  BuffersInv'
<1>1. semcnt' \in [Sems -> Int]
  BY DEF PoolsInv, ServInv, SemInv, SemType
<1>2. ASSUME NEW k \in 1..Len(bptab) PROVE Promise(k)'
  <2>1. PICK s \in Sems : s = bptab[k].sem
    BY BuffersMean
  <2>2. semcnt'[s] <= semcnt[s] \/ semcnt'[s] <= 0
    BY <2>1 DEF BuffersInv, NoUnitMade
  <2>3. Promise(k) /\ Len(bptab[k].free) \in Nat /\ semcnt[s] \in Int /\ semcnt'[s] \in Int
    BY <1>1, BuffersMean DEF BuffersInv
  <2> QED
    BY <2>1, <2>2, <2>3, PromiseStays
<1> QED
  BY <1>2, BuffersKept DEF NoUnitMade

\* Where nothing but the calls under way changes.
LEMMA StepsOfOthers ==
  ASSUME BuffersInv, PoolsInv', bptab' = bptab, NoUnitMade,
         \A p \in Procs : \/ pc'[p] \notin {"unlink", "signal"}
                          \/ pc'[p] = pc[p] /\ poolid'[p] = poolid[p],
         \A p \in Procs : pc[p] = "unlink" /\ pc'[p] = "unlink"
           => /\ pstate'[p] = "PRWAIT" => pstate[p] = "PRWAIT"
              /\ pstate[p] = "PRWAIT" => pstate'[p] = "PRWAIT" /\ psem'[p] = psem[p]
  PROVE  BuffersInv'
<1>1. ASSUME NEW k \in 1..Len(bptab) PROVE Owed(k)' \subseteq Owed(k)
  BY DEF Owed
<1>2. ASSUME NEW p \in Procs, pc'[p] = "unlink", pstate'[p] = "PRWAIT"
      PROVE  psem'[p] = bptab[poolid'[p]].sem
  BY <1>2 DEF BuffersInv
<1> QED
  BY <1>1, <1>2, QuietPools


\* getbuf() takes a unit and is owed a buffer, or waits for both.
LEMMA WaitKeepsPromise ==
  ASSUME BuffersInv, PoolsInv', NEW k \in 1..Len(bptab), GetbufWait(k)
  PROVE  BuffersInv'
<1>1. PICK c \in Procs, s \in Sems : c = currpid /\ s = bptab[k].sem
  BY BuffersMean
<1>2. /\ pc[c] = "idle" /\ kcall[currpid] = "none" /\ currpid # NULLPROC /\ WaitOn(s)
      /\ pc' = [pc EXCEPT ![c] = "unlink"] /\ poolid' = [poolid EXCEPT ![c] = k]
      /\ bptab' = bptab
  BY <1>1 DEF GetbufWait, Begin, Calling, GoTo
<1>3. /\ sstate' = sstate /\ uses' = uses /\ semcnt' = [semcnt EXCEPT ![s] = @ - 1]
      /\ \/ semcnt[s] > 0 /\ UNCHANGED <<pstate, psem>>
         \/ /\ ~(semcnt[s] > 0) /\ pstate'[c] = "PRWAIT" /\ psem' = [psem EXCEPT ![c] = s]
            /\ \A p \in Procs \ {c} : pstate'[p] = "PRWAIT" <=> pstate[p] = "PRWAIT"
  BY <1>1, <1>2, BuffersMean, WaitOnWaits
<1>4. /\ pc'[c] = "unlink" /\ poolid'[c] = k
      /\ \A p \in Procs \ {c} : pc'[p] = pc[p] /\ poolid'[p] = poolid[p]
  BY <1>2, BuffersMean
<1>5. c \notin Owed(k) /\ \A p \in Procs \ {c} : pstate'[p] = "PRWAIT" <=> pstate[p] = "PRWAIT"
  BY <1>2, <1>3 DEF Owed
<1>6. \A i \in 1..Len(bptab) : /\ i # k => Owed(i)' \subseteq Owed(i)
                               /\ Owed(i)' \subseteq Owed(i) \cup {c}
                               /\ pstate'[c] = "PRWAIT" => Owed(i)' \subseteq Owed(i)
  BY <1>4, <1>5 DEF Owed
<1>7. ASSUME NEW p \in Procs, pc'[p] = "unlink", pstate'[p] = "PRWAIT"
      PROVE  psem'[p] = bptab[poolid'[p]].sem
  <2>1. CASE p = c
    <3>1. pstate[c] = "PRCURR" /\ psem' = [psem EXCEPT ![c] = s]
      BY <1>1, <1>3, <1>7, <2>1, BuffersMean
    <3> QED
      BY <1>1, <1>4, <2>1, <3>1, BuffersMean
  <2>2. CASE p # c
    <3>1. pc[p] = "unlink" /\ pstate[p] = "PRWAIT" /\ poolid'[p] = poolid[p]
      BY <1>4, <1>5, <1>7, <2>2
    <3>2. psem'[p] = psem[p]
      BY <1>3, <2>2, BuffersMean
    <3> QED
      BY <3>1, <3>2 DEF BuffersInv
  <2> QED
    BY <2>1, <2>2
<1>8. Promise(k)'
  <2>1. /\ semcnt[s] \in Int /\ semcnt'[s] = semcnt[s] - 1 /\ Len(bptab[k].free) \in Nat
        /\ Promise(k)
    BY <1>3, BuffersMean DEF BuffersInv
  <2>2. CASE ~(semcnt[s] > 0)
    <3>1. Owed(k)' \subseteq Owed(k)
      BY <1>3, <1>6, <2>2
    <3>2. semcnt'[s] \in Int /\ semcnt'[s] <= semcnt[s]
      BY <2>1
    <3> QED
      BY <1>1, <1>2, <2>1, <3>1, <3>2, PromiseStays
  <2>3. CASE semcnt[s] > 0
    <3>1. Cardinality(Owed(k)') <= Cardinality(Owed(k)) + 1
      BY <1>5, <1>6, OwedMoves
    <3>2. Cardinality(Owed(k)) \in Nat /\ Cardinality(Owed(k)') \in Nat
      BY OwedFinite
    <3>3. /\ UnitsLeft(s) = semcnt[s] /\ UnitsLeft(s)' = semcnt[s] - 1
          /\ UnitsLeft(s) + Cardinality(Owed(k)) <= Len(bptab[k].free)
      BY <1>1, <2>1, <2>3 DEF UnitsLeft, Promise
    <3>4. UnitsLeft(s)' + Cardinality(Owed(k)') <= Len(bptab'[k].free)
      BY <1>2, <2>1, <3>1, <3>2, <3>3
    <3> QED
      BY <1>1, <1>2, <3>4 DEF Promise, UnitsLeft
  <2> QED
    BY <2>2, <2>3
<1>9. ASSUME NEW i \in 1..Len(bptab), i # k PROVE Promise(i)'
  <2>1. PICK r \in Sems : r = bptab[i].sem /\ r # s
    BY <1>1, <1>9, BuffersMean DEF BuffersInv
  <2>2. /\ semcnt[r] \in Int /\ semcnt'[r] = semcnt[r] /\ Len(bptab[i].free) \in Nat
        /\ Promise(i) /\ i \in Nat
    BY <1>3, <2>1, BuffersMean DEF BuffersInv
  <2> QED
    BY <1>2, <1>6, <1>9, <2>1, <2>2, PromiseStays
<1> QED
  BY <1>2, <1>3, <1>7, <1>8, <1>9, BuffersKept

\* A process takes the buffer it is owed, or nbgetbuf() a unit and its buffer at once.
LEMMA TakeKeepsPromise ==
  ASSUME BuffersInv, PoolsInv', NEW k \in 1..Len(bptab), NEW c \in Procs,
         NEW f, bptab' = [bptab EXCEPT ![k].free = f], bptab[k].free # <<>>,
         f = Tail(bptab[k].free), UNCHANGED <<uses, sstate, psem, pstate, poolid>>,
         \/ semcnt' = semcnt /\ c \in Owed(k) /\ pc' = [pc EXCEPT ![c] = "idle"]
         \/ /\ semcnt[bptab[k].sem] > 0 /\ pc' = pc
            /\ semcnt' = [semcnt EXCEPT ![bptab[k].sem] = @ - 1]
  PROVE  BuffersInv'
<1>1. PICK s \in Sems : s = bptab[k].sem
  BY BuffersMean
<1>2. /\ f \in Seq(Nat) /\ Len(f) = Len(bptab[k].free) - 1 /\ Len(bptab[k].free) \in Nat
  BY BuffersMean, TailInjective, LenProperties DEF BuffersInv, PoolsInv, PoolsApart
<1>3. /\ Len(bptab') = Len(bptab) /\ bptab'[k].free = f
      /\ \A i \in 1..Len(bptab) : bptab'[i].sem = bptab[i].sem
      /\ \A i \in 1..Len(bptab) : i # k => bptab'[i] = bptab[i]
  BY <1>2, BuffersMean, PoolChanges
<1>4. \A p \in Procs : pc'[p] = pc[p] \/ pc'[p] = "idle"
  BY BuffersMean
<1>5. \A i \in 1..Len(bptab) : Owed(i)' \subseteq Owed(i)
  BY <1>4 DEF Owed
<1>6. ASSUME NEW p \in Procs, pc'[p] = "unlink", pstate'[p] = "PRWAIT"
      PROVE  psem'[p] = bptab[poolid'[p]].sem
  BY <1>4, <1>6 DEF BuffersInv
<1>7. Promise(k)'
  <2>1. /\ semcnt[s] \in Int /\ Cardinality(Owed(k)) \in Nat /\ Cardinality(Owed(k)') \in Nat
        /\ UnitsLeft(s) + Cardinality(Owed(k)) <= Len(bptab[k].free)
    BY <1>1, BuffersMean, OwedFinite DEF BuffersInv, Promise
  <2>2. /\ UnitsLeft(s) \in Nat /\ UnitsLeft(s)' \in Nat
        /\ UnitsLeft(s)' + Cardinality(Owed(k)') <= UnitsLeft(s) + Cardinality(Owed(k)) - 1
    <3>1. CASE semcnt' = semcnt /\ c \in Owed(k) /\ pc' = [pc EXCEPT ![c] = "idle"]
      <4>1. Owed(k)' \subseteq Owed(k) \ {c}
        BY <1>5, <3>1, BuffersMean DEF Owed
      <4>2. Cardinality(Owed(k)') <= Cardinality(Owed(k)) - 1
        BY <3>1, <4>1, OwedMoves
      <4>3. UnitsLeft(s) \in Nat /\ UnitsLeft(s)' = UnitsLeft(s)
        BY <2>1, <3>1 DEF UnitsLeft
      <4> QED
        BY <2>1, <4>2, <4>3
    <3>2. CASE /\ semcnt[bptab[k].sem] > 0 /\ pc' = pc
               /\ semcnt' = [semcnt EXCEPT ![bptab[k].sem] = @ - 1]
      <4>1. semcnt'[s] = semcnt[s] - 1 /\ semcnt[s] > 0
        BY <1>1, <3>2, BuffersMean
      <4>2. UnitsLeft(s) = semcnt[s] /\ UnitsLeft(s)' = semcnt[s] - 1
        BY <2>1, <4>1 DEF UnitsLeft
      <4>3. Cardinality(Owed(k)') <= Cardinality(Owed(k))
        BY <1>5, OwedMoves
      <4> QED
        BY <2>1, <4>1, <4>2, <4>3
    <3> QED
      BY <3>1, <3>2
  <2>3. UnitsLeft(s)' + Cardinality(Owed(k)') <= Len(bptab'[k].free)
    BY <1>2, <1>3, <2>1, <2>2
  <2> QED
    BY <1>1, <1>3, <2>3 DEF Promise, UnitsLeft
<1>8. ASSUME NEW i \in 1..Len(bptab), i # k PROVE Promise(i)'
  <2>1. PICK r \in Sems : r = bptab[i].sem /\ r # s
    BY <1>1, <1>8, BuffersMean DEF BuffersInv
  <2>2. semcnt[r] \in Int /\ semcnt'[r] = semcnt[r]
    <3>1. semcnt \in [Sems -> Int]
      BY BuffersMean
    <3> QED
      BY <1>1, <2>1, <3>1
  <2>3. Len(bptab[i].free) \in Nat /\ Promise(i) /\ i \in Nat
    BY BuffersMean DEF BuffersInv
  <2> QED
    BY <1>3, <1>5, <1>8, <2>1, <2>2, <2>3, PromiseStays
<1> QED
  BY <1>3, <1>6, <1>7, <1>8, BuffersKept

\* freebuf() puts a buffer back and owes the unit.
LEMMA LinkKeepsPromise ==
  ASSUME BuffersInv, NEW buf, FreebufLink(buf), ServInv'
  PROVE  BuffersInv'
<1>1. PICK c \in Procs : c = currpid
  BY BuffersMean
<1>2. /\ PoolsInv' /\ buf[1] \in 1..Len(bptab) /\ Len(bptab') = Len(bptab)
      /\ Len(bptab'[buf[1]].free) = Len(bptab[buf[1]].free) + 1
  BY LinkKeeps DEF BuffersInv
<1>3. PICK k \in 1..Len(bptab) : k = buf[1]
  BY <1>2
<1>4. PICK s \in Sems : s = bptab[k].sem
  BY BuffersMean
<1>5. /\ pc[c] = "idle" /\ UNCHANGED <<uses, sstate, psem, pstate, semcnt>>
      /\ pc' = [pc EXCEPT ![c] = "signal"] /\ poolid' = [poolid EXCEPT ![c] = k]
      /\ bptab' = [bptab EXCEPT ![k].free = <<buf[2]>> \o @]
  BY <1>1, <1>3 DEF FreebufLink, Begin, GoTo, servVars, semVars, procVars, callVars
<1>6. /\ \A i \in 1..Len(bptab) : bptab'[i].sem = bptab[i].sem
      /\ \A i \in 1..Len(bptab) : i # k => bptab'[i] = bptab[i]
  <2>1. bptab \in Seq(Pools) /\ \A i \in 1..Len(bptab) : bptab[i] \in Pools
    BY BuffersMean, ElementOfSeq
  <2>2. DOMAIN bptab = 1..Len(bptab)
    BY <2>1, LenProperties
  <2>3. \A i \in 1..Len(bptab) : i # k => bptab'[i] = bptab[i]
    BY <1>5, <2>2
  <2>4. bptab'[k].sem = bptab[k].sem
    <3>1. PICK r \in Pools : r = bptab[k]
      BY <2>1
    <3>2. bptab'[k] = [r EXCEPT !.free = <<buf[2]>> \o r.free]
      BY <1>5, <2>2, <3>1
    <3> QED
      BY <3>1, <3>2 DEF Pools
  <2> QED
    BY <2>3, <2>4
<1>7. /\ pc'[c] = "signal" /\ poolid'[c] = k
      /\ \A p \in Procs \ {c} : pc'[p] = pc[p] /\ poolid'[p] = poolid[p]
  BY <1>5, BuffersMean
<1>8. c \notin Owed(k) /\ Owed(k)' \subseteq Owed(k) \cup {c}
      /\ \A i \in 1..Len(bptab) : i # k => Owed(i)' \subseteq Owed(i)
  BY <1>5, <1>7 DEF Owed
<1>9. ASSUME NEW p \in Procs, pc'[p] = "unlink", pstate'[p] = "PRWAIT"
      PROVE  psem'[p] = bptab[poolid'[p]].sem
  BY <1>5, <1>7, <1>9 DEF BuffersInv
<1>10. Promise(k)'
  <2>1. /\ semcnt[s] \in Int /\ Cardinality(Owed(k)) \in Nat /\ Cardinality(Owed(k)') \in Nat
        /\ UnitsLeft(s) + Cardinality(Owed(k)) <= Len(bptab[k].free)
        /\ Len(bptab[k].free) \in Nat
    BY <1>4, BuffersMean, OwedFinite DEF BuffersInv, Promise
  <2>2. Cardinality(Owed(k)') <= Cardinality(Owed(k)) + 1
    BY <1>8, OwedMoves
  <2>3. UnitsLeft(s) \in Nat /\ UnitsLeft(s)' = UnitsLeft(s)
    BY <1>5, <2>1 DEF UnitsLeft
  <2>4. UnitsLeft(s)' + Cardinality(Owed(k)') <= Len(bptab'[k].free)
    BY <1>2, <1>3, <2>1, <2>2, <2>3
  <2> QED
    BY <1>4, <1>6, <2>4 DEF Promise, UnitsLeft
<1>11. ASSUME NEW i \in 1..Len(bptab), i # k PROVE Promise(i)'
  <2>1. PICK r \in Sems : r = bptab[i].sem
    BY BuffersMean
  <2>2. /\ semcnt[r] \in Int /\ semcnt'[r] = semcnt[r] /\ Len(bptab[i].free) \in Nat
        /\ Promise(i) /\ i \in Nat
    BY <1>5, <2>1, BuffersMean DEF BuffersInv
  <2> QED
    BY <1>6, <1>8, <1>11, <2>1, <2>2, PromiseStays
<1> QED
  BY <1>2, <1>5, <1>6, <1>9, <1>10, <1>11, BuffersKept


\* The unit that freebuf() owes goes to the semaphore or to one that waits there.
LEMMA SignalKeepsPromise ==
  ASSUME BuffersInv, PoolsInv', FreebufSignal
  PROVE  BuffersInv'
<1>1. PICK c \in Procs, k \in 1..Len(bptab), s \in Sems :
        c = currpid /\ k = poolid[c] /\ s = bptab[k].sem
  <2>1. currpid \in Procs /\ poolid[currpid] \in 1..Len(bptab)
    BY BuffersMean DEF FreebufSignal, At, BuffersInv, PoolsInv, PoolsMade
  <2> QED
    BY <2>1, BuffersMean
<1>2. /\ pc[c] = "signal" /\ SignalOn(s) /\ pc' = [pc EXCEPT ![c] = "idle"]
      /\ UNCHANGED <<bptab, poolid>>
  BY <1>1 DEF FreebufSignal, At, GoTo
<1>3. /\ UNCHANGED <<sstate, psem, uses>> /\ semcnt' = [semcnt EXCEPT ![s] = @ + 1]
      /\ \/ ~(semcnt[s] < 0) /\ pstate' = pstate
         \/ /\ semcnt[s] < 0
            /\ \E w \in UserPids :
                 /\ pstate[w] = "PRWAIT" /\ psem[w] = s /\ pstate'[w] # "PRWAIT"
                 /\ \A p \in Procs \ {w} :
                      pstate'[p] = "PRWAIT" <=> pstate[p] = "PRWAIT"
  BY <1>2, SignalOnWakes DEF BuffersInv, PoolsInv
<1>4. /\ pc'[c] = "idle" /\ \A p \in Procs \ {c} : pc'[p] = pc[p]
      /\ c \in Owed(k)
  BY <1>1, <1>2, BuffersMean DEF Owed
<1>5. /\ semcnt[s] \in Int /\ semcnt'[s] = semcnt[s] + 1
      /\ \A r \in Sems \ {s} : semcnt'[r] = semcnt[r] /\ semcnt[r] \in Int
  BY <1>3, BuffersMean
<1>6. /\ Cardinality(Owed(k)) \in Nat /\ Cardinality(Owed(k)') \in Nat
      /\ UnitsLeft(s) + Cardinality(Owed(k)) <= Len(bptab[k].free)
      /\ Len(bptab[k].free) \in Nat
  BY <1>1, BuffersMean, OwedFinite DEF BuffersInv, Promise
<1>7. ASSUME NEW p \in Procs, pc'[p] = "unlink", pstate'[p] = "PRWAIT"
      PROVE  psem'[p] = bptab[poolid'[p]].sem
  <2>1. pc[p] = "unlink" /\ pstate[p] = "PRWAIT"
    BY <1>3, <1>4, <1>7
  <2> QED
    BY <1>2, <1>3, <2>1 DEF BuffersInv
<1>8. ASSUME NEW i \in 1..Len(bptab), i # k, Owed(i)' \subseteq Owed(i) PROVE Promise(i)'
  <2>1. PICK r \in Sems : r = bptab[i].sem /\ r # s
    BY <1>1, <1>8, BuffersMean DEF BuffersInv
  <2>2. /\ semcnt[r] \in Int /\ semcnt'[r] = semcnt[r] /\ Len(bptab[i].free) \in Nat
        /\ Promise(i) /\ i \in Nat
    BY <1>5, <2>1, BuffersMean DEF BuffersInv
  <2> QED
    BY <1>2, <1>8, <2>1, <2>2, PromiseStays
<1>9. ASSUME UnitsLeft(s)' + Cardinality(Owed(k)') <= UnitsLeft(s) + Cardinality(Owed(k)),
             UnitsLeft(s)' \in Nat, UnitsLeft(s) \in Nat
      PROVE  Promise(k)'
  <2>1. UnitsLeft(s)' + Cardinality(Owed(k)') <= Len(bptab'[k].free)
    BY <1>2, <1>6, <1>9
  <2> QED
    BY <1>1, <1>2, <2>1 DEF Promise, UnitsLeft
<1>10. CASE ~(semcnt[s] < 0) /\ pstate' = pstate
  <2>1. Owed(k)' \subseteq Owed(k) \ {c} /\ \A i \in 1..Len(bptab) : Owed(i)' \subseteq Owed(i)
    BY <1>2, <1>4, <1>10 DEF Owed
  <2>2. Cardinality(Owed(k)') <= Cardinality(Owed(k)) - 1
    BY <1>4, <2>1, OwedMoves
  <2>3. UnitsLeft(s) = semcnt[s] /\ UnitsLeft(s)' = semcnt[s] + 1 /\ semcnt[s] >= 0
    BY <1>5, <1>10 DEF UnitsLeft
  <2>4. Promise(k)'
    BY <1>5, <1>6, <1>9, <2>2, <2>3
  <2> QED
    BY <1>2, <1>3, <1>7, <1>8, <2>1, <2>4, BuffersKept
<1>11. CASE semcnt[s] < 0
  <2>1. PICK w \in UserPids :
          /\ pstate[w] = "PRWAIT" /\ psem[w] = s
          /\ \A p \in Procs \ {w} : pstate'[p] = "PRWAIT" <=> pstate[p] = "PRWAIT"
    BY <1>3, <1>11
  <2>2. w \in Procs /\ w # c
    BY <1>1, <2>1, UserIsProc, BuffersMean
  <2>3. pc[w] = "unlink" => poolid[w] = k
    <3>1. pc[w] = "unlink" => poolid[w] \in 1..Len(bptab) /\ bptab[poolid[w]].sem = s
      BY <2>1, <2>2 DEF BuffersInv, PoolsInv, PoolsMade
    <3> QED
      BY <1>1, <3>1 DEF BuffersInv
  <2>4. /\ Owed(k)' \subseteq (Owed(k) \ {c}) \cup {w}
        /\ \A i \in 1..Len(bptab) : i # k => Owed(i)' \subseteq Owed(i)
    BY <1>1, <1>2, <1>4, <2>1, <2>2, <2>3 DEF Owed
  <2>5. Cardinality(Owed(k)') <= Cardinality(Owed(k))
    <3>1. PICK A, B : /\ A = Owed(k) /\ B = Owed(k)' /\ IsFiniteSet(A) /\ IsFiniteSet(B)
                      /\ Cardinality(A) \in Nat
      BY OwedFinite
    <3>2. IsFiniteSet(A \ {c}) /\ Cardinality(A \ {c}) = Cardinality(A) - 1
      BY <1>4, <3>1, FS_RemoveElement
    <3>3. /\ IsFiniteSet((A \ {c}) \cup {w})
          /\ \/ Cardinality((A \ {c}) \cup {w}) = Cardinality(A \ {c})
             \/ Cardinality((A \ {c}) \cup {w}) = Cardinality(A \ {c}) + 1
      BY <3>2, FS_AddElement
    <3>4. Cardinality(B) <= Cardinality((A \ {c}) \cup {w})
      BY <2>4, <3>1, <3>3, FS_Subset
    <3>5. Cardinality(B) \in Nat /\ Cardinality((A \ {c}) \cup {w}) \in Nat
      BY <3>1, <3>3, FS_CardinalityType
    <3> QED
      BY <3>1, <3>2, <3>3, <3>4, <3>5
  <2>6. UnitsLeft(s) = 0 /\ UnitsLeft(s)' = 0
    BY <1>5, <1>11 DEF UnitsLeft
  <2>7. Promise(k)'
    BY <1>6, <1>9, <2>5, <2>6
  <2> QED
    BY <1>2, <1>3, <1>7, <1>8, <2>4, <2>7, BuffersKept
<1> QED
  BY <1>3, <1>10, <1>11

\* mkpool() promises the buffers it has just linked, on a semaphore of its own.
LEMMA MadeKeepsPromise ==
  ASSUME BuffersInv, PoolsInv', NEW n \in Nat, NEW s \in Sems, sstate[s] = "SFREE",
         bptab' \in Seq(Pools), Len(bptab') = Len(bptab) + 1,
         \A k \in 1..Len(bptab) : bptab'[k] = bptab[k],
         bptab'[Len(bptab) + 1].sem = s, Len(bptab'[Len(bptab) + 1].free) = n,
         sstate' = [sstate EXCEPT ![s] = "SUSED"], semcnt' = [semcnt EXCEPT ![s] = n],
         UNCHANGED <<uses, psem, pstate, poolid>>,
         \A p \in Procs : pc'[p] = pc[p] \/ pc'[p] = "idle"
  PROVE  BuffersInv'
<1>1. PICK m \in Nat : m = Len(bptab)
  BY BuffersMean
<1>2. \A k \in 1..m : bptab[k].sem \in Sems /\ sstate[bptab[k].sem] = "SUSED" /\ bptab[k].sem # s
  BY <1>1, BuffersMean DEF BuffersInv
<1>3. \A k \in 1..m + 1 : k \in 1..m \/ k = m + 1
  BY <1>1
<1>4. \A k \in 1..m + 1 : sstate'[bptab'[k].sem] = "SUSED"
  BY <1>1, <1>2, <1>3, BuffersMean
<1>5. \A i, j \in 1..m + 1 : i # j => bptab'[i].sem # bptab'[j].sem
  BY <1>1, <1>2, <1>3 DEF BuffersInv
<1>6. ASSUME NEW p \in Procs, pc'[p] = "unlink", pstate'[p] = "PRWAIT"
      PROVE  psem'[p] = bptab'[poolid'[p]].sem
  <2>1. pc[p] = "unlink" /\ pstate[p] = "PRWAIT" /\ poolid[p] \in 1..Len(bptab)
    BY <1>6 DEF BuffersInv, PoolsInv, PoolsMade
  <2> QED
    BY <2>1 DEF BuffersInv
<1>7. ASSUME NEW k \in 1..m PROVE Promise(k)'
  <2>1. PICK r \in Sems : r = bptab[k].sem /\ r # s
    BY <1>2
  <2>2. /\ semcnt[r] \in Int /\ semcnt'[r] = semcnt[r] /\ Len(bptab[k].free) \in Nat
        /\ Promise(k) /\ k \in Nat
    BY <1>1, <2>1, BuffersMean DEF BuffersInv
  <2>3. Owed(k)' \subseteq Owed(k)
    BY DEF Owed
  <2> QED
    BY <1>1, <2>1, <2>2, <2>3, PromiseStays
<1>8. Promise(m + 1)'
  <2>1. Owed(m + 1)' = {}
    <3>1. \A p \in Procs : pc[p] \in {"unlink", "signal"} => poolid[p] \in 1..m
      BY <1>1 DEF BuffersInv, PoolsInv, PoolsMade
    <3>2. m + 1 \notin 1..m
      BY <1>1
    <3> QED
      BY <3>1, <3>2 DEF Owed
  <2>2. Cardinality(Owed(m + 1)') = 0
    BY <2>1, FS_EmptySet
  <2>3. semcnt'[s] = n
    BY BuffersMean
  <2>4. UnitsLeft(s)' = n
    BY <2>3 DEF UnitsLeft
  <2>5. UnitsLeft(s)' + Cardinality(Owed(m + 1)') <= Len(bptab'[m + 1].free)
    BY <1>1, <2>2, <2>4
  <2> QED
    BY <1>1, <2>5 DEF Promise, UnitsLeft
<1> QED
  BY <1>1, <1>3, <1>4, <1>5, <1>6, <1>7, <1>8 DEF BuffersInv, PoolsOnly


\* Every step keeps the promises of the pools.
LEMMA BuffersNext == BuffersInv /\ [BufNext]_bufVars => BuffersInv'
<1> SUFFICES ASSUME BuffersInv, [BufNext]_bufVars PROVE BuffersInv'
  OBVIOUS
<1>1. /\ PoolsInv /\ PoolsInv' /\ ServInv /\ ServInv' /\ PoolsOnly
      /\ PoolIds = 1..Len(bptab)
  BY PoolsNext, BuffersMean DEF BuffersInv, PoolsInv
<1>2. PICK c \in Procs : c = currpid
  BY BuffersMean
<1>3. ASSUME UNCHANGED servVars, bptab' = bptab,
             \/ UNCHANGED <<pc, poolid>>
             \/ /\ poolid' = poolid
                /\ \E step \in {"make", "poolinit", "idle"} : pc' = [pc EXCEPT ![c] = step]
      PROVE  BuffersInv'
  <2>1. \A p \in Procs : \/ pc'[p] \notin {"unlink", "signal"}
                         \/ pc'[p] = pc[p] /\ poolid'[p] = poolid[p]
    BY <1>3, BuffersMean
  <2>2. UNCHANGED <<uses, sstate, semcnt, psem, pstate>>
    BY <1>3 DEF servVars, semVars, procVars, callVars
  <2>3. \A s \in Sems : semcnt[s] \in Int /\ semcnt'[s] <= semcnt[s]
    BY <2>2, BuffersMean
  <2>4. NoUnitMade
    BY <2>2, <2>3 DEF NoUnitMade
  <2> QED
    BY <1>1, <1>3, <2>1, <2>2, <2>4, StepsOfOthers
<1>4. CASE Service
  <2>1. NoUnitMade /\ bptab' = bptab /\ poolid' = poolid /\ ServNext
    BY <1>1, <1>4, ServicesMakeNoUnit DEF Service
  <2>2. PICK D \in SUBSET Procs :
          /\ D = {p \in Procs : pstate[p] # "PRFREE" /\ pstate'[p] = "PRFREE"}
          /\ pc' = [p \in Procs |-> IF p \in D THEN "idle" ELSE pc[p]]
    <3> DEFINE E == {p \in Procs : pstate[p] # "PRFREE" /\ pstate'[p] = "PRFREE"}
    <3>1. E \in SUBSET Procs
      OBVIOUS
    <3>2. pc' = [p \in Procs |-> IF p \in E THEN "idle" ELSE pc[p]]
      BY <1>4, Zenon DEF Service
    <3> QED
      BY <3>1, <3>2
  <2>3. \A p \in Procs : pc'[p] = "idle" \/ (pc'[p] = pc[p] /\ p \notin D)
    BY <2>2
  <2>4. ASSUME NEW p \in Procs, pc[p] = "unlink", pc'[p] = "unlink"
        PROVE  /\ pstate'[p] = "PRWAIT" => pstate[p] = "PRWAIT"
               /\ pstate[p] = "PRWAIT" => pstate'[p] = "PRWAIT" /\ psem'[p] = psem[p]
    <3>1. p \notin D
      BY <2>3, <2>4
    <3>2. pstate'[p] = "PRWAIT" => pstate[p] = "PRWAIT"
      <4>1. pstate'[NULLPROC] # "PRWAIT"
        BY <1>1 DEF ServInv, TableInv
      <4>2. ASSUME p = currpid, kcall[p] = "none" PROVE p = NULLPROC
        BY <1>4, <2>4, <4>2 DEF Service
      <4> QED
        BY <2>1, <4>1, <4>2 DEF NoUnitMade
    <3>3. ASSUME pstate[p] = "PRWAIT" PROVE pstate'[p] = "PRWAIT" /\ psem'[p] = psem[p]
      <4>1. pstate'[p] # "PRFREE"
        BY <2>2, <3>1, <3>3
      <4> QED
        BY <2>1, <3>3, <4>1 DEF NoUnitMade
    <3> QED
      BY <3>2, <3>3
  <2>5. \A p \in Procs : \/ pc'[p] \notin {"unlink", "signal"}
                         \/ pc'[p] = pc[p] /\ poolid'[p] = poolid[p]
    BY <2>1, <2>3
  <2> QED
    BY <1>1, <2>1, <2>4, <2>5, StepsOfOthers
<1>5. CASE Interrupt
  <2>1. /\ ServNext /\ UNCHANGED <<bptab, pc, poolid>> /\ UNCHANGED semVars
    BY <1>5 DEF Interrupt, poolVars, ServNext, Tick, Preempt, ClockInterrupt, QuantumEnds
  <2>2. NoUnitMade
    BY <1>1, <2>1, ServicesMakeNoUnit
  <2>3. \A p \in Procs : pstate'[p] = "PRWAIT" <=> pstate[p] = "PRWAIT"
    BY <1>1, <2>1, SameWaiters DEF ServInv, semVars
  <2>4. psem' = psem
    BY <2>1 DEF semVars
  <2> QED
    BY <1>1, <2>1, <2>2, <2>3, <2>4, StepsOfOthers
<1>6. CASE MkpoolTest
  BY <1>2, <1>3, <1>6 DEF MkpoolTest, GoTo
<1>7. CASE Poolinit
  <2>1. bptab' = bptab
    BY <1>1, <1>7 DEF Poolinit, PoolsInv, PoolsMade
  <2> QED
    BY <1>2, <1>3, <1>7, <2>1 DEF Poolinit, GoTo
<1>8. ASSUME NEW n \in NumBufs, Mkpool(n) PROVE BuffersInv'
  <2>1. /\ pc' = [pc EXCEPT ![c] = "idle"] /\ UNCHANGED <<bpmarked, poolid, held>>
        /\ pc[c] = "make"
    BY <1>2, <1>8 DEF Mkpool, At, GoTo
  <2>2. CASE UNCHANGED <<servVars, bptab>>
    BY <1>3, <2>1, <2>2
  <2>3. CASE Len(bptab) < NBPOOLS
    <3>1. ScreateWith(n)
      BY <1>8, <2>3 DEF Mkpool
    <3>2. nextsem \in Sems /\ FreeSems # {}
      BY <1>1, <3>1 DEF ScreateWith, ServInv, SemInv, SemType
    <3>3. PICK s \in FreeSems : s = NewSem /\ s \in Sems
      BY <3>2, NewSemFree
    <3>4. /\ sstate[s] = "SFREE" /\ sstate' = [sstate EXCEPT ![s] = "SUSED"]
          /\ semcnt' = [semcnt EXCEPT ![s] = n] /\ UNCHANGED <<uses, psem, pstate>>
      BY <3>1, <3>3 DEF ScreateWith, FreeSems, procVars, callVars
    <3>5. bptab' = Append(bptab, [sem |-> s, total |-> n, free |-> [i \in 1..n |-> i]])
      BY <1>8, <2>3, <3>3 DEF Mkpool
    <3>6. bpmarked /\ n \in Nat
      BY <1>1, <2>1, NumBufsAssumption DEF PoolsInv, PoolsMade
    <3>7. pc' \in [Procs -> PoolSteps] /\ \A p \in Procs : pc'[p] = pc[p] \/ pc'[p] = "idle"
      BY <2>1, BuffersMean DEF PoolSteps
    <3>8. /\ Len(bptab') = Len(bptab) + 1
          /\ \A k \in 1..Len(bptab) : bptab'[k] = bptab[k]
          /\ bptab'[Len(bptab) + 1].sem = s /\ Len(bptab'[Len(bptab) + 1].free) = n
      BY <1>1, <2>1, <3>3, <3>5, <3>6, <3>7, MadeKeeps
    <3>9. bptab' \in Seq(Pools)
      BY <1>1 DEF PoolsInv, PoolType
    <3> QED
      BY <1>1, <2>1, <3>3, <3>4, <3>6, <3>7, <3>8, <3>9, MadeKeepsPromise
  <2> QED
    BY <1>8, <2>2, <2>3 DEF Mkpool
<1>9. ASSUME NEW k \in PoolIds, GetbufWait(k) PROVE BuffersInv'
  BY <1>1, <1>9, WaitKeepsPromise
<1>10. CASE GetbufUnlink
  <2>1. PICK k \in 1..Len(bptab) : k = poolid[c]
    BY <1>1, <1>2, <1>10 DEF GetbufUnlink, At, PoolsInv, PoolsMade
  <2>2. /\ bptab' = [bptab EXCEPT ![k].free = Tail(@)] /\ bptab[k].free # <<>>
        /\ UNCHANGED <<uses, sstate, psem, pstate, poolid>>
        /\ semcnt' = semcnt /\ pc' = [pc EXCEPT ![c] = "idle"] /\ pc[c] = "unlink"
    BY <1>2, <1>10, <2>1
       DEF GetbufUnlink, At, TakeFrom, GoTo, servVars, semVars, procVars, callVars
  <2>3. c \in Owed(k)
    BY <1>2, <2>1, <2>2, BuffersMean DEF Owed
  <2>4. PICK f : f = Tail(bptab[k].free) /\ bptab' = [bptab EXCEPT ![k].free = f]
    BY <2>2
  <2> QED
    BY <1>1, <2>2, <2>3, <2>4, TakeKeepsPromise
<1>11. ASSUME NEW k \in PoolIds, Nbgetbuf(k) PROVE BuffersInv'
  <2>1. /\ bptab' = [bptab EXCEPT ![k].free = Tail(@)] /\ bptab[k].free # <<>>
        /\ UNCHANGED <<uses, sstate, psem, pstate, poolid>>
        /\ semcnt[bptab[k].sem] > 0 /\ pc' = pc
        /\ semcnt' = [semcnt EXCEPT ![bptab[k].sem] = @ - 1]
    BY <1>11 DEF Nbgetbuf, TakeFrom, procVars, callVars
  <2>2. PICK f : f = Tail(bptab[k].free) /\ bptab' = [bptab EXCEPT ![k].free = f]
    BY <2>1
  <2> QED
    BY <1>1, <1>2, <2>1, <2>2, TakeKeepsPromise
<1>12. ASSUME NEW buf, FreebufLink(buf) PROVE BuffersInv'
  BY <1>1, <1>12, LinkKeepsPromise
<1>13. CASE FreebufSignal
  BY <1>1, <1>13, SignalKeepsPromise
<1>14. CASE UNCHANGED bufVars
  BY <1>3, <1>14 DEF bufVars, poolVars
<1> QED
  BY <1>4, <1>5, <1>6, <1>7, <1>8, <1>9, <1>10, <1>11, <1>12, <1>13, <1>14 DEF BufNext

LEMMA BuffersInit == BufInit /\ PoolsOnly => BuffersInv
<1> SUFFICES ASSUME BufInit, PoolsOnly PROVE BuffersInv
  OBVIOUS
<1>1. PoolsInv
  BY PoolsInit
<1>2. Len(bptab) = 0 /\ 1..0 = {} /\ \A p \in Procs : pc[p] = "idle"
  BY EmptySeq DEF BufInit
<1> QED
  BY <1>1, <1>2 DEF BuffersInv

\* A process that has the semaphore finds a buffer, whatever others take, return or
\* die with between its wait() and its unlinking, as long as nobody gives the
\* semaphore units that are not buffers (sys/getbuf.c follows bpnext without a test).
THEOREM UnlinksFindBuffers == BufSpec /\ PoolsOnly => []UnlinkFindsBuffer
<1>1. ASSUME BuffersInv PROVE UnlinkFindsBuffer
  <2> SUFFICES ASSUME NEW p \in Procs, pc[p] = "unlink", kcall[p] = "none"
               PROVE  bptab[poolid[p]].free # <<>>
    BY DEF UnlinkFindsBuffer
  <2>1. PICK k \in 1..Len(bptab) : k = poolid[p]
    BY <1>1 DEF BuffersInv, PoolsInv, PoolsMade
  <2>2. pstate[p] # "PRWAIT"
    BY <1>1 DEF BuffersInv, PoolsInv, ServInv, CallInv
  <2>3. p \in Owed(k)
    BY <2>1, <2>2 DEF Owed
  <2>4. Cardinality(Owed(k)) \in Nat /\ Cardinality(Owed(k)) # 0
    BY <2>3, OwedFinite, FS_EmptySet
  <2>5. PICK s \in Sems : s = bptab[k].sem
    BY <1>1, BuffersMean
  <2>6. UnitsLeft(s) \in Nat /\ UnitsLeft(s) + Cardinality(Owed(k)) <= Len(bptab[k].free)
    <3>1. semcnt[s] \in Int /\ Promise(k)
      BY <1>1, BuffersMean DEF BuffersInv
    <3> QED
      BY <2>5, <3>1 DEF Promise, UnitsLeft
  <2>7. Len(bptab[k].free) \in Nat /\ Len(bptab[k].free) > 0
    BY <1>1, <2>4, <2>6, BuffersMean
  <2> QED
    BY <2>1, <2>7, EmptySeq
<1> QED
  BY <1>1, BuffersInit, BuffersNext, PTL DEF BufSpec
=============================================================================
