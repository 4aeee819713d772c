--------------------------- MODULE XinuQueueProofs ---------------------------
(***************************************************************************)
(* What insert() and dequeue() do to a list, for lists of any length, and  *)
(* the existence of the extrema the other operators choose; with induction,*)
(* recursion and remainders, which all the proofs use.                     *)
(***************************************************************************)
EXTENDS XinuQueue, WellFoundedInduction, SequenceTheorems, TLAPS

\* Every nonempty set of naturals has a least element: the library's
\* well-foundedness of < on Nat, without its operator parameter.
LEMMA LeastNatural ==
  ASSUME NEW T \in SUBSET Nat, T # {}
  PROVE  \E x \in T : \A y \in T : x <= y
<1> DEFINE R == OpToRel(<, Nat)
<1>1. IsWellFoundedOn(R, Nat)
  BY NatLessThanWellFounded
<1>2. PICK x \in T : \A y \in T : ~(<<y, x>> \in R)
  BY <1>1, WFMin
<1>3. ASSUME NEW y \in T PROVE x <= y
  <2>1. <<y, x>> \notin R
    BY <1>2
  <2>2. ~(y < x)
    BY <2>1 DEF OpToRel
  <2> QED
    BY <2>2
<1> QED
  BY <1>3

\* A set with 0 and with the successor of each of its members contains every
\* natural up to a bound.
LEMMA UpTo ==
  ASSUME NEW N \in Nat, NEW T, 0 \in T, \A n \in 1..N : n - 1 \in T => n \in T
  PROVE  \A n \in 0..N : n \in T
<1> DEFINE B == {n \in 0..N : n \notin T}
<1>1. SUFFICES ASSUME B # {} PROVE FALSE
  BY <1>1
<1>2. B \in SUBSET Nat
  OBVIOUS
<1>3. PICK m \in B : \A n \in B : m <= n
  BY <1>1, <1>2, LeastNatural
<1>4. m \in 1..N /\ m - 1 \in 0..N
  BY <1>3
<1>5. m - 1 \in T
  BY <1>3, <1>4
<1> QED
  BY <1>3, <1>4, <1>5

\* A function that starts with base and goes on by step.
Iterates(f, N, S, base, step) ==
  f \in [0..N -> S] /\ f[0] = base /\ \A n \in 1..N : f[n] = step[n][f[n - 1]]

\* There is such a function, for every step that stays in S.
LEMMA RecursionExists ==
  ASSUME NEW N \in Nat, NEW S, NEW base \in S, NEW step \in [1..N -> [S -> S]]
  PROVE  \E f : Iterates(f, N, S, base, step)
<1> DEFINE Upto(n) == \E f \in [0..n -> S] :
             f[0] = base /\ \A k \in 1..n : f[k] = step[k][f[k - 1]]
           T == {n \in 0..N : Upto(n)}
<1>1. 0 \in T
  <2> DEFINE z == [k \in 0..0 |-> base]
  <2>1. z \in [0..0 -> S] /\ z[0] = base /\ \A k \in 1..0 : z[k] = step[k][z[k - 1]]
    OBVIOUS
  <2> HIDE DEF z
  <2>2. Upto(0)
    BY <2>1
  <2> QED
    BY <2>2
<1>2. ASSUME NEW n \in 1..N, n - 1 \in T
      PROVE  n \in T
  <2>1. PICK g \in [0..n - 1 -> S] :
          g[0] = base /\ \A k \in 1..n - 1 : g[k] = step[k][g[k - 1]]
    BY <1>2
  <2> DEFINE h == [k \in 0..n |-> IF k = n THEN step[n][g[n - 1]] ELSE g[k]]
  <2>2. n - 1 \in 0..n - 1 /\ g[n - 1] \in S /\ step[n] \in [S -> S]
    BY <2>1
  <2>3. h \in [0..n -> S]
    BY <2>1, <2>2
  <2>4. h[0] = base
    BY <2>1
  <2>5. ASSUME NEW k \in 1..n PROVE h[k] = step[k][h[k - 1]]
    <3>1. h[k - 1] = g[k - 1]
      OBVIOUS
    <3>2. CASE k = n
      <4>1. h[n] = step[n][g[n - 1]]
        OBVIOUS
      <4> HIDE DEF h
      <4> QED
        BY <3>1, <3>2, <4>1
    <3>3. CASE k # n
      <4>1. k \in 1..n - 1 /\ h[k] = g[k]
        BY <3>3
      <4> QED
        BY <2>1, <3>1, <4>1
    <3> QED
      BY <3>2, <3>3
  <2>6. Upto(n)
    BY <2>3, <2>4, <2>5
  <2> QED
    BY <2>6
<1> HIDE DEF T
<1>3. \A n \in 0..N : n \in T
  BY <1>1, <1>2, UpTo
<1>4. N \in T
  BY <1>3
<1> QED
  BY <1>4 DEF T, Iterates

\* An index not far from the ring, wrapped around.
LEMMA Wraps ==
  ASSUME NEW n \in Nat, n > 0, NEW x \in Int, 0 - 2 * n <= x, x < 3 * n
  PROVE  x % n = IF x < 0 - n THEN x + 2 * n ELSE IF x < 0 THEN x + n
                 ELSE IF x < n THEN x ELSE IF x < 2 * n THEN x - n ELSE x - 2 * n
<1>1. CASE x < 0 - n
  <2>1. x % n = x + 2 * n
    BY <1>1
  <2> QED
    BY <1>1, <2>1
<1>2. CASE ~(x < 0 - n) /\ x < 0
  <2>1. x % n = x + n
    BY <1>2
  <2> QED
    BY <1>2, <2>1
<1>3. CASE 0 <= x /\ x < n
  <2>1. x % n = x
    BY <1>3
  <2> QED
    BY <1>3, <2>1
<1>4. CASE n <= x /\ x < 2 * n
  <2>1. x % n = x - n
    BY <1>4
  <2> QED
    BY <1>4, <2>1
<1>5. CASE 2 * n <= x
  <2>1. x % n = x - 2 * n
    BY <1>5
  <2> QED
    BY <1>5, <2>1
<1> QED
  BY <1>1, <1>2, <1>3, <1>4, <1>5

\* Min picks the least element of a nonempty set of naturals: the position
\* insert() stops at exists.
LEMMA MinOfNaturals ==
  ASSUME NEW S \in SUBSET Nat, S # {}
  PROVE  Min(S) \in S /\ \A y \in S : Min(S) <= y
<1>1. \E x \in S : \A y \in S : x =< y
  BY LeastNatural
<1> QED
  BY <1>1 DEF Min

\* Max picks the largest element of a nonempty set of integers with an upper
\* bound: the scans for the largest priority have a result.
LEMMA MaxOfBounded ==
  ASSUME NEW S \in SUBSET Int, S # {}, NEW b \in Int, \A y \in S : y <= b
  PROVE  Max(S) \in S /\ \A y \in S : y <= Max(S)
<1> DEFINE T == {b - y : y \in S}
<1>1. T \in SUBSET Nat /\ T # {}
  OBVIOUS
<1> HIDE DEF T
<1>2. PICK t \in T : \A u \in T : t <= u
  BY <1>1, LeastNatural
<1>3. PICK x \in S : t = b - x
  BY <1>2 DEF T
<1>4. ASSUME NEW y \in S PROVE x >= y
  <2>1. b - y \in T
    BY DEF T
  <2>2. t <= b - y
    BY <2>1, <1>2
  <2> QED
    BY <2>2, <1>3
<1>5. \E z \in S : \A y \in S : z >= y
  BY <1>4
<1>6. Max(S) \in S /\ \A y \in S : Max(S) >= y
  BY <1>5 DEF Max
<1>7. Max(S) \in Int
  BY <1>6
<1> QED
  BY <1>6, <1>7

\* The position insert() stops at is on the list or just after its end.
LEMMA InsertPosType ==
  ASSUME NEW E, NEW list \in Seq(E), NEW key
  PROVE  InsertPos(list, key) \in 1..Len(list) + 1
<1> DEFINE S == {i \in 1..Len(list) + 1 : i <= Len(list) => key <= list[i].key}
<1>1. Len(list) \in Nat
  BY LenProperties
<1>2. Len(list) + 1 \in S
  BY <1>1
<1>3. S \in SUBSET Nat /\ S # {}
  BY <1>1, <1>2
<1> HIDE DEF S
<1>4. Min(S) \in S
  BY <1>3, MinOfNaturals
<1> QED
  BY <1>4 DEF InsertPos, S

\* A list opened at a place: what was before it stays, what was behind it moves
\* up by one place.
OpenedAt(new, list, k, entry) ==
  /\ Len(new) = Len(list) + 1
  /\ \A i \in 1..Len(list) + 1 :
       new[i] = IF i <= k - 1 THEN list[i] ELSE IF i = k THEN entry ELSE list[i - 1]

\* InsertAt() opens the list at that place.
LEMMA InsertAtShape ==
  ASSUME NEW E, NEW list \in Seq(E), NEW entry \in E, NEW k \in 1..Len(list) + 1
  PROVE  InsertAt(list, k, entry) \in Seq(E)
         /\ OpenedAt(InsertAt(list, k, entry), list, k, entry)
<1> DEFINE n == Len(list)
           a == SubSeq(list, 1, k - 1)
           c == SubSeq(list, k, n)
           r == InsertAt(list, k, entry)
<1>1. n \in Nat /\ list \in [1..n -> E] /\ DOMAIN list = 1..n
  BY LenProperties
<1>2. k \in 1..n + 1
  OBVIOUS
<1> HIDE DEF n
<1>3. /\ a \in Seq(E) /\ Len(a) = k - 1
      /\ \A i \in 1..k - 1 : a[i] = list[i]
  <2>1. \A i \in 1..k - 1 : list[i] \in E
    BY <1>1, <1>2
  <2>2. k - 1 \in Int /\ 1 \in Int
    BY <1>1, <1>2
  <2>3. /\ SubSeq(list, 1, k - 1) \in Seq(E)
        /\ Len(SubSeq(list, 1, k - 1)) = IF 1 <= k - 1 THEN (k - 1) - 1 + 1 ELSE 0
        /\ \A i \in 1..(k - 1) - 1 + 1 : SubSeq(list, 1, k - 1)[i] = list[1 + i - 1]
    BY <2>1, <2>2, SubSeqProperties
  <2> QED
    BY <2>3, <1>1, <1>2
<1>4. /\ c \in Seq(E) /\ Len(c) = n - k + 1
      /\ \A i \in 1..n - k + 1 : c[i] = list[k + i - 1]
  <2>1. \A i \in k..n : list[i] \in E
    BY <1>1, <1>2
  <2>2. k \in Int /\ n \in Int
    BY <1>1, <1>2
  <2>3. /\ SubSeq(list, k, n) \in Seq(E)
        /\ Len(SubSeq(list, k, n)) = IF k <= n THEN n - k + 1 ELSE 0
        /\ \A i \in 1..n - k + 1 : SubSeq(list, k, n)[i] = list[k + i - 1]
    BY <2>1, <2>2, SubSeqProperties
  <2> QED
    BY <2>3, <1>1, <1>2
<1> DEFINE m == <<entry>>
<1>5. m \in Seq(E) /\ Len(m) = 1 /\ m[1] = entry
  OBVIOUS
<1> HIDE DEF a, c, m
<1>6. r = (a \o m) \o c
  BY DEF InsertAt, a, c, m, n
<1>7. /\ a \o m \in Seq(E) /\ Len(a \o m) = k
      /\ \A i \in 1..k : (a \o m)[i] = IF i <= k - 1 THEN list[i] ELSE entry
  <2>1. /\ a \o m \in Seq(E) /\ Len(a \o m) = Len(a) + Len(m)
        /\ \A i \in 1..Len(a) + Len(m) :
             (a \o m)[i] = IF i <= Len(a) THEN a[i] ELSE m[i - Len(a)]
    BY <1>3, <1>5, ConcatProperties
  <2>2. Len(a) + Len(m) = k
    BY <1>2, <1>3, <1>5
  <2>3. \A i \in 1..k : i <= k - 1 => i \in 1..k - 1
    BY <1>2
  <2>4. \A i \in 1..k : ~(i <= k - 1) => i - Len(a) = 1
    BY <1>2, <1>3
  <2> QED
    BY <2>1, <2>2, <2>3, <2>4, <1>2, <1>3, <1>5
<1> DEFINE am == a \o m
<1> HIDE DEF am
<1>8. /\ r \in Seq(E) /\ Len(r) = n + 1
      /\ \A i \in 1..n + 1 : r[i] = IF i <= k - 1 THEN list[i]
                                   ELSE IF i = k THEN entry ELSE list[i - 1]
  <2>0. /\ am \in Seq(E) /\ Len(am) = k
        /\ \A i \in 1..k : am[i] = IF i <= k - 1 THEN list[i] ELSE entry
    BY <1>7 DEF am
  <2>1. /\ am \o c \in Seq(E) /\ Len(am \o c) = Len(am) + Len(c)
        /\ \A i \in 1..Len(am) + Len(c) :
             (am \o c)[i] = IF i <= Len(am) THEN am[i] ELSE c[i - Len(am)]
    BY <2>0, <1>4, ConcatProperties
  <2>2. Len(am) + Len(c) = n + 1
    BY <1>1, <1>2, <1>4, <2>0
  <2>3. \A i \in 1..n + 1 : ~(i <= k) =>
          i - k \in 1..n - k + 1 /\ c[i - k] = list[i - 1]
    <3>1. ASSUME NEW i \in 1..n + 1, ~(i <= k)
          PROVE  i - k \in 1..n - k + 1 /\ k + (i - k) - 1 = i - 1
      BY <3>1, <1>1, <1>2
    <3> QED
      BY <3>1, <1>4
  <2>4. r = am \o c
    BY <1>6 DEF am
  <2>5. \A i \in 1..n + 1 : r[i] = IF i <= k THEN am[i] ELSE list[i - 1]
    BY <2>0, <2>1, <2>2, <2>3, <2>4
  <2>6. \A i \in 1..n + 1 : i <= k => i \in 1..k /\ (i <= k - 1 \/ i = k)
    BY <1>1, <1>2
  <2>7. ASSUME NEW i \in 1..n + 1
        PROVE  r[i] = IF i <= k - 1 THEN list[i] ELSE IF i = k THEN entry ELSE list[i - 1]
    BY <2>5, <2>6, <2>0, <1>1, <1>2
  <2> QED
    BY <2>1, <2>2, <2>4, <2>7
<1> QED
  BY <1>8 DEF n, OpenedAt

\* insert() opens the list at that position.
LEMMA InsertShape ==
  ASSUME NEW E, NEW list \in Seq(E), NEW entry \in E
  PROVE  /\ InsertPos(list, entry.key) \in 1..Len(list) + 1
         /\ Insert(list, entry) \in Seq(E)
         /\ OpenedAt(Insert(list, entry), list, InsertPos(list, entry.key), entry)
BY InsertPosType, InsertAtShape DEF Insert

\* The processes on a list are those of its entries.
LEMMA PidsOfEntries ==
  ASSUME NEW list
  PROVE  Pids(list) = {e.pid : e \in ToSet(list)}
BY DEF Pids, ToSet

\* A list that is opened gets the entry and keeps every other.
LEMMA InsertAtElements ==
  ASSUME NEW E, NEW list \in Seq(E), NEW entry \in E, NEW k \in 1..Len(list) + 1
  PROVE  ToSet(InsertAt(list, k, entry)) = ToSet(list) \cup {entry}
<1> DEFINE n == Len(list)
           r == InsertAt(list, k, entry)
<1>1. n \in Nat /\ DOMAIN list = 1..n
  BY LenProperties
<1>2. /\ k \in 1..n + 1 /\ r \in Seq(E) /\ Len(r) = n + 1
      /\ \A i \in 1..n + 1 : r[i] = IF i <= k - 1 THEN list[i]
                                   ELSE IF i = k THEN entry ELSE list[i - 1]
  <2>1. r \in Seq(E) /\ OpenedAt(r, list, k, entry)
    BY InsertAtShape
  <2> QED
    BY <2>1 DEF OpenedAt
<1> HIDE DEF r, n
<1>3. DOMAIN r = 1..n + 1
  BY <1>2, LenProperties
<1>4. ASSUME NEW i \in 1..n + 1 PROVE r[i] \in ToSet(list) \cup {entry}
  <2>1. CASE i <= k - 1
    <3>1. i \in 1..n /\ r[i] = list[i]
      BY <1>1, <1>2, <2>1
    <3> QED
      BY <1>1, <3>1 DEF ToSet
  <2>2. CASE i = k
    <3>1. ~(i <= k - 1)
      BY <1>1, <1>2, <2>2
    <3> QED
      BY <1>2, <2>2, <3>1
  <2>3. CASE ~(i <= k - 1) /\ i # k
    <3>1. i - 1 \in 1..n /\ r[i] = list[i - 1]
      BY <1>1, <1>2, <2>3
    <3> QED
      BY <1>1, <3>1 DEF ToSet
  <2> QED
    BY <2>1, <2>2, <2>3
<1>5. ASSUME NEW i \in 1..n PROVE list[i] \in ToSet(r)
  <2>1. CASE i <= k - 1
    <3>1. i \in 1..n + 1 /\ r[i] = list[i]
      BY <1>1, <1>2, <2>1
    <3> QED
      BY <1>3, <3>1 DEF ToSet
  <2>2. CASE ~(i <= k - 1)
    <3>1. i + 1 \in 1..n + 1 /\ ~(i + 1 <= k - 1) /\ i + 1 # k /\ (i + 1) - 1 = i
      BY <1>1, <1>2, <2>2
    <3>2. r[i + 1] = list[i]
      BY <1>2, <3>1
    <3> QED
      BY <1>3, <3>1, <3>2 DEF ToSet
  <2> QED
    BY <2>1, <2>2
<1>6. entry \in ToSet(r)
  <2>1. k \in 1..n + 1 /\ ~(k <= k - 1)
    BY <1>1, <1>2
  <2>2. r[k] = entry
    BY <1>2, <2>1
  <2> QED
    BY <1>3, <2>1, <2>2 DEF ToSet
<1>7. ToSet(r) \subseteq ToSet(list) \cup {entry}
  BY <1>3, <1>4 DEF ToSet
<1>8. ToSet(list) \subseteq ToSet(r)
  BY <1>1, <1>5 DEF ToSet
<1> QED
  BY <1>6, <1>7, <1>8 DEF r

\* insert() adds the entry to the list and keeps every other.
LEMMA InsertElements ==
  ASSUME NEW E, NEW list \in Seq(E), NEW entry \in E
  PROVE  ToSet(Insert(list, entry)) = ToSet(list) \cup {entry}
BY InsertPosType, InsertAtElements DEF Insert

\* insert() keeps every entry of the list and adds the new one.
LEMMA InsertProperties ==
  ASSUME NEW E, NEW list \in Seq(E), NEW entry \in E
  PROVE  /\ Insert(list, entry) \in Seq(E)
         /\ Pids(Insert(list, entry)) = Pids(list) \cup {entry.pid}
         /\ Insert(list, entry) # <<>>
<1>1. Insert(list, entry) \in Seq(E) /\ Len(Insert(list, entry)) = Len(list) + 1
  BY InsertShape DEF OpenedAt
<1>2. Insert(list, entry) # <<>>
  BY <1>1, LenProperties, EmptySeq
<1>3. Pids(Insert(list, entry)) = Pids(list) \cup {entry.pid}
  BY InsertElements, PidsOfEntries
<1> QED
  BY <1>1, <1>2, <1>3

\* The walk stops behind every smaller key and in front of a larger or equal one.
LEMMA InsertPosOrder ==
  ASSUME NEW E, NEW list \in Seq(E), \A e \in E : e.key \in Int, NEW key \in Int
  PROVE  /\ \A i \in 1..Len(list) : i < InsertPos(list, key) => list[i].key < key
         /\ InsertPos(list, key) <= Len(list) => key <= list[InsertPos(list, key)].key
<1> DEFINE n == Len(list)
           S == {i \in 1..n + 1 : i <= n => key <= list[i].key}
<1>1. n \in Nat /\ \A i \in 1..n : list[i] \in E /\ list[i].key \in Int
  BY LenProperties
<1>2. n + 1 \in S /\ S \in SUBSET Nat
  BY <1>1
<1>3. Min(S) \in S /\ \A y \in S : Min(S) <= y
  <2> HIDE DEF S
  <2> QED
    BY <1>2, MinOfNaturals
<1>4. InsertPos(list, key) = Min(S)
  BY DEF InsertPos
<1> DEFINE m == Min(S)
<1> HIDE DEF m
<1>5. m \in S /\ \A y \in S : m <= y
  BY <1>3 DEF m
<1>6. ASSUME NEW i \in 1..n, i < m PROVE list[i].key < key
  <2>1. i \notin S
    BY <1>5, <1>6
  <2> QED
    BY <1>1, <1>6, <2>1
<1> QED
  BY <1>4, <1>5, <1>6 DEF m

\* insert() keeps the key order.
LEMMA InsertOrder ==
  ASSUME NEW E, \A e \in E : e.key \in Int, NEW list \in Seq(E), NEW entry \in E,
         Sorted(list)
  PROVE  Sorted(Insert(list, entry))
<1> DEFINE n == Len(list)
           k == InsertPos(list, entry.key)
           r == Insert(list, entry)
<1>1. n \in Nat /\ DOMAIN list = 1..n /\ \A i \in 1..n : list[i] \in E /\ list[i].key \in Int
  BY LenProperties
<1>2. /\ k \in 1..n + 1 /\ r \in Seq(E) /\ Len(r) = n + 1
      /\ \A i \in 1..n + 1 : r[i] = IF i <= k - 1 THEN list[i]
                                   ELSE IF i = k THEN entry ELSE list[i - 1]
  BY InsertShape DEF OpenedAt
<1>3. /\ \A i \in 1..n : i < k => list[i].key < entry.key
      /\ k <= n => entry.key <= list[k].key
  BY InsertPosOrder
<1>4. \A i, j \in 1..n : i < j => list[i].key <= list[j].key
  BY <1>1 DEF Sorted
<1> HIDE DEF n, k, r
<1>5. DOMAIN r = 1..n + 1
  BY <1>2, LenProperties
<1>6. ASSUME NEW i \in 1..n, k <= i PROVE entry.key <= list[i].key
  <2>1. k \in 1..n /\ entry.key <= list[k].key
    BY <1>1, <1>2, <1>3, <1>6
  <2>2. list[k].key <= list[i].key
    BY <1>1, <1>4, <1>6, <2>1
  <2> QED
    BY <1>1, <2>1, <2>2
<1>7. ASSUME NEW i \in 1..n + 1, NEW j \in 1..n + 1, i < j
      PROVE  r[i].key <= r[j].key
  <2>1. CASE j <= k - 1
    <3>1. i \in 1..n /\ j \in 1..n /\ i <= k - 1
      BY <1>1, <1>2, <1>7, <2>1
    <3> QED
      BY <1>2, <1>4, <1>7, <2>1, <3>1
  <2>2. CASE j = k
    <3>1. i \in 1..n /\ i <= k - 1 /\ i < k /\ ~(j <= k - 1)
      BY <1>1, <1>2, <1>7, <2>2
    <3>2. r[i] = list[i] /\ r[j] = entry
      BY <1>2, <2>2, <3>1
    <3>3. list[i].key < entry.key /\ list[i].key \in Int /\ entry.key \in Int
      BY <1>1, <1>3, <3>1
    <3> QED
      BY <3>2, <3>3
  <2>3. CASE j > k
    <3>1. j - 1 \in 1..n /\ k <= j - 1 /\ ~(j <= k - 1) /\ j # k
      BY <1>1, <1>2, <1>7, <2>3
    <3>2. r[j] = list[j - 1]
      BY <1>2, <3>1
    <3>3. list[j - 1].key \in Int /\ entry.key \in Int
      BY <1>1, <3>1
    <3>4. CASE i <= k - 1
      <4>1. i \in 1..n /\ i < k /\ r[i] = list[i] /\ i < j - 1
        BY <1>1, <1>2, <2>3, <3>4
      <4> QED
        BY <1>4, <3>1, <3>2, <4>1
    <3>5. CASE i = k
      <4>1. r[i] = entry
        BY <1>2, <3>5
      <4> QED
        BY <1>6, <3>1, <3>2, <4>1
    <3>6. CASE i > k
      <4>1. i - 1 \in 1..n /\ ~(i <= k - 1) /\ i # k /\ i - 1 < j - 1
        BY <1>1, <1>2, <1>7, <3>6
      <4>2. r[i] = list[i - 1]
        BY <1>2, <4>1
      <4> QED
        BY <1>4, <3>1, <3>2, <4>1, <4>2
    <3> QED
      BY <1>2, <3>4, <3>5, <3>6
  <2> QED
    BY <1>2, <2>1, <2>2, <2>3
<1>8. Sorted(r)
  BY <1>5, <1>7 DEF Sorted
<1> QED
  BY <1>8 DEF r

\* A process that is not on the list keeps the processes distinct wherever it
\* is put.
LEMMA InsertAtDistinct ==
  ASSUME NEW E, NEW list \in Seq(E), NEW entry \in E, NEW k \in 1..Len(list) + 1,
         Distinct(list), entry.pid \notin Pids(list)
  PROVE  Distinct(InsertAt(list, k, entry))
<1> DEFINE n == Len(list)
           r == InsertAt(list, k, entry)
           g == [i \in 1..n + 1 |-> IF i <= k - 1 THEN i ELSE i - 1]
<1>1. n \in Nat /\ DOMAIN list = 1..n
  BY LenProperties
<1>2. /\ k \in 1..n + 1 /\ r \in Seq(E) /\ Len(r) = n + 1
      /\ \A i \in 1..n + 1 : r[i] = IF i <= k - 1 THEN list[i]
                                   ELSE IF i = k THEN entry ELSE list[i - 1]
  <2>1. r \in Seq(E) /\ OpenedAt(r, list, k, entry)
    BY InsertAtShape
  <2> QED
    BY <2>1 DEF OpenedAt
<1>3. /\ \A i, j \in 1..n : list[i].pid = list[j].pid => i = j
      /\ \A i \in 1..n : list[i].pid # entry.pid
  BY <1>1 DEF Distinct, Pids
<1> HIDE DEF n, r
<1>4. DOMAIN r = 1..n + 1
  BY <1>2, LenProperties
<1>5. ASSUME NEW i \in 1..n + 1, i # k
      PROVE  g[i] \in 1..n /\ r[i] = list[g[i]] /\ r[i].pid # entry.pid
  <2>1. CASE i <= k - 1
    BY <1>1, <1>2, <1>3, <2>1
  <2>2. CASE ~(i <= k - 1)
    <3>1. i - 1 \in 1..n /\ g[i] = i - 1
      BY <1>1, <1>2, <1>5, <2>2
    <3> QED
      BY <1>2, <1>3, <1>5, <2>2, <3>1
  <2> QED
    BY <2>1, <2>2
<1>6. r[k] = entry
  BY <1>2
<1>7. ASSUME NEW i \in 1..n + 1, NEW j \in 1..n + 1, i # k, j # k, g[i] = g[j]
      PROVE  i = j
  BY <1>1, <1>2, <1>7
<1> HIDE DEF g
<1>8. ASSUME NEW i \in 1..n + 1, NEW j \in 1..n + 1, r[i].pid = r[j].pid
      PROVE  i = j
  <2>1. CASE i = k \/ j = k
    BY <1>5, <1>6, <1>8, <2>1
  <2>2. CASE i # k /\ j # k
    BY <1>3, <1>5, <1>7, <1>8, <2>2
  <2> QED
    BY <2>1, <2>2
<1>9. Distinct(r)
  BY <1>4, <1>8 DEF Distinct
<1> QED
  BY <1>9 DEF r

\* insert() of a process that is not on the list keeps the processes distinct.
LEMMA InsertDistinct ==
  ASSUME NEW E, NEW list \in Seq(E), NEW entry \in E,
         Distinct(list), entry.pid \notin Pids(list)
  PROVE  Distinct(Insert(list, entry))
BY InsertPosType, InsertAtDistinct DEF Insert

\* A list closed at a place: what was behind it moves down by one place.
ClosedAt(new, list, k) ==
  /\ Len(new) = Len(list) - 1
  /\ \A i \in 1..Len(list) - 1 :
       new[i] = IF i <= k - 1 THEN list[i] ELSE list[i + 1]

\* RemoveAt() closes it.
LEMMA RemoveAtShape ==
  ASSUME NEW E, NEW list \in Seq(E), NEW k \in 1..Len(list)
  PROVE  RemoveAt(list, k) \in Seq(E) /\ ClosedAt(RemoveAt(list, k), list, k)
<1> DEFINE n == Len(list)
           a == SubSeq(list, 1, k - 1)
           c == SubSeq(list, k + 1, n)
           r == RemoveAt(list, k)
<1>1. n \in Nat /\ list \in [1..n -> E] /\ DOMAIN list = 1..n
  BY LenProperties
<1>2. k \in 1..n
  OBVIOUS
<1> HIDE DEF n
<1>3. /\ a \in Seq(E) /\ Len(a) = k - 1
      /\ \A i \in 1..k - 1 : a[i] = list[i]
  <2>1. \A i \in 1..k - 1 : list[i] \in E
    BY <1>1, <1>2
  <2>2. k - 1 \in Int /\ 1 \in Int
    BY <1>1, <1>2
  <2>3. /\ SubSeq(list, 1, k - 1) \in Seq(E)
        /\ Len(SubSeq(list, 1, k - 1)) = IF 1 <= k - 1 THEN (k - 1) - 1 + 1 ELSE 0
        /\ \A i \in 1..(k - 1) - 1 + 1 : SubSeq(list, 1, k - 1)[i] = list[1 + i - 1]
    BY <2>1, <2>2, SubSeqProperties
  <2> QED
    BY <2>3, <1>1, <1>2
<1>4. /\ c \in Seq(E) /\ Len(c) = n - k
      /\ \A i \in 1..n - k : c[i] = list[k + i]
  <2>1. \A i \in k + 1..n : list[i] \in E
    BY <1>1, <1>2
  <2>2. k + 1 \in Int /\ n \in Int
    BY <1>1, <1>2
  <2>3. /\ SubSeq(list, k + 1, n) \in Seq(E)
        /\ Len(SubSeq(list, k + 1, n)) = IF k + 1 <= n THEN n - (k + 1) + 1 ELSE 0
        /\ \A i \in 1..n - (k + 1) + 1 : SubSeq(list, k + 1, n)[i] = list[(k + 1) + i - 1]
    BY <2>1, <2>2, SubSeqProperties
  <2> QED
    BY <2>3, <1>1, <1>2
<1> HIDE DEF a, c
<1>5. r = a \o c
  BY DEF RemoveAt, a, c, n
<1>6. /\ r \in Seq(E) /\ Len(r) = n - 1
      /\ \A i \in 1..n - 1 : r[i] = IF i <= k - 1 THEN list[i] ELSE list[i + 1]
  <2>1. /\ a \o c \in Seq(E) /\ Len(a \o c) = Len(a) + Len(c)
        /\ \A i \in 1..Len(a) + Len(c) :
             (a \o c)[i] = IF i <= Len(a) THEN a[i] ELSE c[i - Len(a)]
    BY <1>3, <1>4, ConcatProperties
  <2>2. Len(a) + Len(c) = n - 1
    BY <1>1, <1>2, <1>3, <1>4
  <2>3. ASSUME NEW i \in 1..n - 1
        PROVE  r[i] = IF i <= k - 1 THEN list[i] ELSE list[i + 1]
    <3>1. CASE i <= k - 1
      <4>1. i \in 1..k - 1
        BY <3>1, <1>1, <1>2
      <4> QED
        BY <3>1, <4>1, <2>1, <2>2, <1>3, <1>5
    <3>2. CASE ~(i <= k - 1)
      <4>1. i - (k - 1) \in 1..n - k /\ k + (i - (k - 1)) = i + 1
        BY <3>2, <1>1, <1>2
      <4>2. c[i - (k - 1)] = list[i + 1]
        BY <4>1, <1>4
      <4> QED
        BY <3>2, <4>2, <2>1, <2>2, <1>3, <1>5
    <3> QED
      BY <3>1, <3>2
  <2> QED
    BY <2>1, <2>2, <2>3, <1>5
<1> QED
  BY <1>6 DEF n, r, ClosedAt

\* dequeue() closes the list at the place of the process.
LEMMA DequeueShape ==
  ASSUME NEW E, NEW list \in Seq(E), NEW p, p \in Pids(list)
  PROVE  \E k \in 1..Len(list) :
           /\ list[k].pid = p
           /\ Dequeue(list, p) \in Seq(E)
           /\ Len(Dequeue(list, p)) = Len(list) - 1
           /\ \A i \in 1..Len(list) - 1 :
                Dequeue(list, p)[i] = IF i <= k - 1 THEN list[i] ELSE list[i + 1]
<1> DEFINE k == CHOOSE i \in DOMAIN list : list[i].pid = p
<1>1. k \in 1..Len(list) /\ list[k].pid = p
  BY LenProperties DEF Pids
<1>2. Dequeue(list, p) = RemoveAt(list, k)
  BY DEF Dequeue
<1> HIDE DEF k
<1> QED
  BY <1>1, <1>2, RemoveAtShape DEF ClosedAt

\* dequeue() of a process removes no other process and adds none.
LEMMA DequeueProperties ==
  ASSUME NEW E, NEW list \in Seq(E), NEW p
  PROVE  /\ Dequeue(list, p) \in Seq(E)
         /\ Pids(Dequeue(list, p)) \subseteq Pids(list)
         /\ Pids(list) \ {p} \subseteq Pids(Dequeue(list, p))
<1>1. CASE p \notin Pids(list)
  BY <1>1 DEF Dequeue
<1>2. CASE p \in Pids(list)
  <2> DEFINE n == Len(list)
             r == Dequeue(list, p)
  <2>1. n \in Nat /\ list \in [1..n -> E] /\ DOMAIN list = 1..n
    BY LenProperties
  <2>3. PICK k \in 1..n :
          /\ list[k].pid = p /\ r \in Seq(E) /\ Len(r) = n - 1
          /\ \A i \in 1..n - 1 : r[i] = IF i <= k - 1 THEN list[i] ELSE list[i + 1]
    <3>1. \E k \in 1..Len(list) :
            /\ list[k].pid = p
            /\ Dequeue(list, p) \in Seq(E)
            /\ Len(Dequeue(list, p)) = Len(list) - 1
            /\ \A i \in 1..Len(list) - 1 :
                 Dequeue(list, p)[i] = IF i <= k - 1 THEN list[i] ELSE list[i + 1]
      BY <1>2, DequeueShape
    <3> QED
      BY <3>1
  <2> HIDE DEF n
  <2>2. k \in 1..n /\ list[k].pid = p
    BY <2>3
  <2>6. /\ r \in Seq(E)
        /\ \A i \in 1..n - 1 : r[i] = IF i <= k - 1 THEN list[i] ELSE list[i + 1]
    BY <2>3
  <2> HIDE DEF r
  <2>7. DOMAIN r = 1..n - 1
    BY <2>3, LenProperties
  <2>8. ASSUME NEW x \in Pids(r) PROVE x \in Pids(list)
    <3>1. PICK i \in 1..n - 1 : x = r[i].pid
      BY <2>7, <2>8 DEF Pids
    <3>2. i \in 1..n /\ i + 1 \in 1..n
      BY <2>1, <2>2
    <3> QED
      BY <3>1, <3>2, <2>1, <2>6 DEF Pids
  <2>9. ASSUME NEW x \in Pids(list), x # p PROVE x \in Pids(r)
    <3>1. PICK i \in 1..n : x = list[i].pid
      BY <2>1, <2>9 DEF Pids
    <3>2. i # k
      BY <3>1, <2>2, <2>9
    <3>3. CASE i <= k - 1
      <4>1. i \in 1..n - 1
        BY <3>3, <2>1, <2>2
      <4> QED
        BY <3>1, <3>3, <4>1, <2>6, <2>7 DEF Pids
    <3>4. CASE ~(i <= k - 1)
      <4>1. i - 1 \in 1..n - 1 /\ ~(i - 1 <= k - 1) /\ (i - 1) + 1 = i
        BY <3>2, <3>4, <2>1, <2>2
      <4>2. r[i - 1] = list[i]
        BY <4>1, <2>6
      <4> QED
        BY <3>1, <4>1, <4>2, <2>7 DEF Pids
    <3> QED
      BY <3>3, <3>4
  <2> QED
    BY <2>6, <2>8, <2>9 DEF r
<1> QED
  BY <1>1, <1>2

\* dequeue() keeps the key order.
LEMMA DequeueOrder ==
  ASSUME NEW E, NEW list \in Seq(E), NEW p, Sorted(list)
  PROVE  Sorted(Dequeue(list, p))
<1>1. CASE p \notin Pids(list)
  BY <1>1 DEF Dequeue
<1>2. CASE p \in Pids(list)
  <2> DEFINE n == Len(list)
             r == Dequeue(list, p)
  <2>1. n \in Nat /\ DOMAIN list = 1..n
    BY LenProperties
  <2>2. PICK k \in 1..n :
          /\ r \in Seq(E) /\ Len(r) = n - 1
          /\ \A i \in 1..n - 1 : r[i] = IF i <= k - 1 THEN list[i] ELSE list[i + 1]
    <3>1. \E k \in 1..Len(list) :
            /\ list[k].pid = p
            /\ Dequeue(list, p) \in Seq(E)
            /\ Len(Dequeue(list, p)) = Len(list) - 1
            /\ \A i \in 1..Len(list) - 1 :
                 Dequeue(list, p)[i] = IF i <= k - 1 THEN list[i] ELSE list[i + 1]
      BY <1>2, DequeueShape
    <3> QED
      BY <3>1
  <2>3. \A i, j \in 1..n : i < j => list[i].key <= list[j].key
    BY <2>1 DEF Sorted
  <2> HIDE DEF n, r
  <2>4. DOMAIN r = 1..n - 1
    BY <2>2, LenProperties
  <2>5. ASSUME NEW i \in 1..n - 1, NEW j \in 1..n - 1, i < j
        PROVE  r[i].key <= r[j].key
    <3>1. i \in 1..n /\ i + 1 \in 1..n /\ j \in 1..n /\ j + 1 \in 1..n
      BY <2>1
    <3>2. i + 1 < j + 1 /\ i < j + 1 /\ (j <= k - 1 => i <= k - 1)
      BY <2>1, <2>5
    <3> QED
      BY <2>2, <2>3, <2>5, <3>1, <3>2
  <2>6. Sorted(r)
    BY <2>4, <2>5 DEF Sorted
  <2> QED
    BY <2>6 DEF r
<1> QED
  BY <1>1, <1>2

\* dequeue() takes exactly the process off a list that has it once.
LEMMA DequeueDistinct ==
  ASSUME NEW E, NEW list \in Seq(E), NEW p, Distinct(list)
  PROVE  /\ Distinct(Dequeue(list, p))
         /\ Pids(Dequeue(list, p)) = Pids(list) \ {p}
<1>1. CASE p \notin Pids(list)
  BY <1>1 DEF Dequeue
<1>2. CASE p \in Pids(list)
  <2> DEFINE n == Len(list)
             r == Dequeue(list, p)
  <2>1. n \in Nat /\ DOMAIN list = 1..n
    BY LenProperties
  <2>2. PICK k \in 1..n :
          /\ list[k].pid = p /\ r \in Seq(E) /\ Len(r) = n - 1
          /\ \A i \in 1..n - 1 : r[i] = IF i <= k - 1 THEN list[i] ELSE list[i + 1]
    <3>1. \E k \in 1..Len(list) :
            /\ list[k].pid = p
            /\ Dequeue(list, p) \in Seq(E)
            /\ Len(Dequeue(list, p)) = Len(list) - 1
            /\ \A i \in 1..Len(list) - 1 :
                 Dequeue(list, p)[i] = IF i <= k - 1 THEN list[i] ELSE list[i + 1]
      BY <1>2, DequeueShape
    <3> QED
      BY <3>1
  <2>3. \A i, j \in 1..n : list[i].pid = list[j].pid => i = j
    BY <2>1 DEF Distinct
  <2> DEFINE g == [i \in 1..n - 1 |-> IF i <= k - 1 THEN i ELSE i + 1]
  <2> HIDE DEF n, r
  <2>4. DOMAIN r = 1..n - 1
    BY <2>2, LenProperties
  <2>5. ASSUME NEW i \in 1..n - 1
        PROVE  g[i] \in 1..n /\ g[i] # k /\ r[i] = list[g[i]]
    BY <2>1, <2>2
  <2>6. ASSUME NEW i \in 1..n - 1, NEW j \in 1..n - 1, g[i] = g[j]
        PROVE  i = j
    BY <2>1, <2>2, <2>6
  <2> HIDE DEF g
  <2>7. Distinct(r)
    BY <2>3, <2>4, <2>5, <2>6 DEF Distinct
  <2>8. p \notin Pids(r)
    <3>1. \A i \in 1..n - 1 : r[i].pid # p
      BY <2>2, <2>3, <2>5
    <3> QED
      BY <2>4, <3>1 DEF Pids
  <2>9. Pids(r) = Pids(list) \ {p}
    BY <2>8, DequeueProperties DEF r
  <2> QED
    BY <2>7, <2>9 DEF r
<1> QED
  BY <1>1, <1>2

\* dequeue() takes the entry of the process off a list without duplicates and
\* leaves every other.
LEMMA DequeueElements ==
  ASSUME NEW E, NEW list \in Seq(E), NEW p, Distinct(list)
  PROVE  ToSet(Dequeue(list, p)) = {e \in ToSet(list) : e.pid # p}
<1>1. CASE p \notin Pids(list)
  BY <1>1 DEF Dequeue, Pids, ToSet
<1>2. CASE p \in Pids(list)
  <2> DEFINE n == Len(list)
             r == Dequeue(list, p)
  <2>1. n \in Nat /\ DOMAIN list = 1..n
    BY LenProperties
  <2>2. PICK k \in 1..n :
          /\ list[k].pid = p /\ r \in Seq(E) /\ Len(r) = n - 1
          /\ \A i \in 1..n - 1 : r[i] = IF i <= k - 1 THEN list[i] ELSE list[i + 1]
    <3>1. \E k \in 1..Len(list) :
            /\ list[k].pid = p
            /\ Dequeue(list, p) \in Seq(E)
            /\ Len(Dequeue(list, p)) = Len(list) - 1
            /\ \A i \in 1..Len(list) - 1 :
                 Dequeue(list, p)[i] = IF i <= k - 1 THEN list[i] ELSE list[i + 1]
      BY <1>2, DequeueShape
    <3> QED
      BY <3>1
  <2>3. p \notin Pids(r) /\ Pids(r) = Pids(list) \ {p}
    BY DequeueDistinct
  <2> HIDE DEF n, r
  <2>4. DOMAIN r = 1..n - 1
    BY <2>2, LenProperties
  <2>5. ASSUME NEW i \in 1..n - 1 PROVE r[i] \in ToSet(list)
    BY <2>1, <2>2 DEF ToSet
  <2>6. ASSUME NEW i \in 1..n, list[i].pid # p PROVE list[i] \in ToSet(r)
    <3>1. CASE i <= k - 1
      <4>1. i \in 1..n - 1 /\ r[i] = list[i]
        BY <2>1, <2>2, <3>1
      <4> QED
        BY <2>4, <4>1 DEF ToSet
    <3>2. CASE ~(i <= k - 1)
      <4>1. i # k
        BY <2>2, <2>6
      <4>2. i - 1 \in 1..n - 1 /\ ~(i - 1 <= k - 1) /\ (i - 1) + 1 = i
        BY <2>1, <2>2, <3>2, <4>1
      <4>3. r[i - 1] = list[i]
        BY <2>2, <4>2
      <4> QED
        BY <2>4, <4>2, <4>3 DEF ToSet
    <3> QED
      BY <3>1, <3>2
  <2>7. ToSet(r) \subseteq ToSet(list)
    BY <2>4, <2>5 DEF ToSet
  <2>8. \A e \in ToSet(r) : e.pid # p
    BY <2>3, PidsOfEntries
  <2>9. \A e \in ToSet(list) : e.pid # p => e \in ToSet(r)
    BY <2>1, <2>6 DEF ToSet
  <2> QED
    BY <2>7, <2>8, <2>9 DEF r
<1> QED
  BY <1>1, <1>2

\* getfirst() takes exactly the process at the head.
LEMMA TailProperties ==
  ASSUME NEW E, NEW list \in Seq(E), list # <<>>
  PROVE  /\ Tail(list) \in Seq(E) /\ Head(list) \in E /\ Head(list).pid \in Pids(list)
         /\ Pids(Tail(list)) \subseteq Pids(list)
         /\ Sorted(list) => Sorted(Tail(list))
         /\ Distinct(list) => /\ Distinct(Tail(list))
                              /\ Pids(Tail(list)) = Pids(list) \ {Head(list).pid}
<1> DEFINE n == Len(list)
           r == Tail(list)
<1>1. n \in Nat /\ n >= 1 /\ DOMAIN list = 1..n /\ Head(list) = list[1] /\ list[1] \in E
  BY LenProperties, EmptySeq, HeadTailProperties
<1>2. /\ r \in Seq(E) /\ Len(r) = n - 1
      /\ \A i \in 1..n - 1 : r[i] = list[i + 1]
  BY HeadTailProperties
<1> HIDE DEF n, r
<1>3. DOMAIN r = 1..n - 1
  BY <1>2, LenProperties
<1>4. \A i \in 1..n - 1 : i + 1 \in 1..n /\ i + 1 # 1
  BY <1>1
<1>5. Pids(r) \subseteq Pids(list)
  <2>1. ASSUME NEW i \in 1..n - 1 PROVE r[i].pid \in Pids(list)
    BY <1>1, <1>2, <1>4 DEF Pids
  <2> QED
    BY <1>3, <2>1 DEF Pids
<1>6. ASSUME Sorted(list) PROVE Sorted(r)
  <2>1. \A i, j \in 1..n - 1 : i < j => i + 1 < j + 1
    BY <1>1
  <2> QED
    BY <1>1, <1>2, <1>3, <1>4, <1>6, <2>1 DEF Sorted
<1>7. ASSUME Distinct(list) PROVE Distinct(r) /\ Pids(r) = Pids(list) \ {list[1].pid}
  <2>1. \A i, j \in 1..n - 1 : i + 1 = j + 1 => i = j
    BY <1>1
  <2>2. Distinct(r)
    <3>1. \A i, j \in 1..n : list[i].pid = list[j].pid => i = j
      BY <1>1, <1>7 DEF Distinct
    <3>2. \A i, j \in 1..n - 1 : r[i].pid = r[j].pid => i + 1 = j + 1
      BY <1>2, <1>4, <3>1
    <3> QED
      BY <1>3, <2>1, <3>2 DEF Distinct
  <2>3. list[1].pid \notin Pids(r)
    <3>1. 1 \in 1..n
      BY <1>1
    <3>2. \A i \in 1..n - 1 : r[i].pid # list[1].pid
      BY <1>1, <1>2, <1>4, <1>7, <3>1 DEF Distinct
    <3> QED
      BY <1>3, <3>2 DEF Pids
  <2>4. ASSUME NEW x \in Pids(list), x # list[1].pid PROVE x \in Pids(r)
    <3>1. PICK i \in 1..n : x = list[i].pid
      BY <1>1, <2>4 DEF Pids
    <3>2. i - 1 \in 1..n - 1 /\ (i - 1) + 1 = i
      BY <1>1, <2>4, <3>1
    <3>3. r[i - 1] = list[i]
      BY <1>2, <3>2
    <3> QED
      BY <1>3, <3>1, <3>2, <3>3 DEF Pids
  <2> QED
    BY <1>5, <2>2, <2>3, <2>4
<1>8. list[1].pid \in Pids(list)
  BY <1>1 DEF Pids
<1> QED
  BY <1>1, <1>2, <1>5, <1>6, <1>7, <1>8 DEF r

\* getfirst() leaves every entry but the one at the head.
LEMMA TailElements ==
  ASSUME NEW E, NEW list \in Seq(E), list # <<>>, Distinct(list)
  PROVE  ToSet(Tail(list)) = {e \in ToSet(list) : e.pid # Head(list).pid}
<1> DEFINE n == Len(list)
           r == Tail(list)
<1>1. n \in Nat /\ n >= 1 /\ DOMAIN list = 1..n /\ Head(list) = list[1]
  BY LenProperties, EmptySeq, HeadTailProperties
<1>2. /\ r \in Seq(E) /\ Len(r) = n - 1
      /\ \A i \in 1..n - 1 : r[i] = list[i + 1]
  BY HeadTailProperties
<1>3. Pids(r) = Pids(list) \ {Head(list).pid}
  BY TailProperties
<1> HIDE DEF n, r
<1>4. DOMAIN r = 1..n - 1
  BY <1>2, LenProperties
<1>5. ToSet(r) \subseteq ToSet(list)
  <2>1. ASSUME NEW i \in 1..n - 1 PROVE r[i] \in ToSet(list)
    <3>1. i + 1 \in 1..n
      BY <1>1
    <3> QED
      BY <1>1, <1>2, <3>1 DEF ToSet
  <2> QED
    BY <1>4, <2>1 DEF ToSet
<1>6. \A e \in ToSet(r) : e.pid # Head(list).pid
  BY <1>3, PidsOfEntries
<1>7. ASSUME NEW i \in 1..n, list[i].pid # Head(list).pid PROVE list[i] \in ToSet(r)
  <2>1. i # 1
    BY <1>1, <1>7
  <2>2. i - 1 \in 1..n - 1 /\ (i - 1) + 1 = i
    BY <1>1, <2>1
  <2>3. r[i - 1] = list[i]
    BY <1>2, <2>2
  <2> QED
    BY <1>4, <2>2, <2>3 DEF ToSet
<1>8. \A e \in ToSet(list) : e.pid # Head(list).pid => e \in ToSet(r)
  BY <1>1, <1>7 DEF ToSet
<1> QED
  BY <1>5, <1>6, <1>8 DEF r

\* The empty list is in order.
LEMMA EmptyList == Pids(<<>>) = {} /\ Sorted(<<>>) /\ Distinct(<<>>)
BY DEF Pids, Sorted, Distinct
==============================================================================
