------------------------- MODULE KernelServicesProofs -------------------------
(***************************************************************************)
(* Theorems about the semaphores, messages and delays of KernelServices,   *)
(* for every number of processes and semaphores and every choice of calls: *)
(*                                                                         *)
(*   ServInvariant        ServSpec => []ServInv                            *)
(*   ServTypeCorrect      ServSpec => []ServTypeOK                         *)
(*   CountsTrusted        ServSpec => []CountIsWaiters                     *)
(*   EveryoneInPlace      ServSpec => []InItsPlace                         *)
(*   ClockCountsHead      ServSpec => []CountsHead                         *)
(*   ReceiversAreServed   ServSpec => []WokenHasMessage                    *)
(*   NobodyWakesEarly     ServSpec => []DelaysKept                         *)
(*   SemaphoresImplement  ServSpec => ImplementsSemaphores                 *)
(***************************************************************************)
EXTENDS KernelServices, XinuProcProofs, FiniteSetTheorems

-------------------------------------------------------------------------------
(***************************************************************************)
(* Extrema, and sequences.                                                 *)
(***************************************************************************)

\* The smaller and the larger of two integers.
LEMMA MinMaxOfTwo ==
  ASSUME NEW a \in Int, NEW b \in Int
  PROVE  /\ Min({a, b}) = IF a <= b THEN a ELSE b
         /\ Max({a, b}) = IF a <= b THEN b ELSE a
<1>1. /\ \A x \in {a, b} : (\A y \in {a, b} : x <= y) <=> x = IF a <= b THEN a ELSE b
      /\ \A x \in {a, b} : (\A y \in {a, b} : x >= y) <=> x = IF a <= b THEN b ELSE a
  OBVIOUS
<1>2. /\ (IF a <= b THEN a ELSE b) \in {a, b}
      /\ (IF a <= b THEN b ELSE a) \in {a, b}
  OBVIOUS
<1> QED
  BY <1>1, <1>2 DEF Min, Max

\* What a count falls short of zero.
LEMMA Deficit ==
  ASSUME NEW c \in Int
  PROVE  -Min({0, c}) = IF 0 <= c THEN 0 ELSE 0 - c
<1> DEFINE m == Min({0, c})
<1>1. m = IF 0 <= c THEN 0 ELSE c
  BY MinMaxOfTwo
<1> HIDE DEF m
<1>2. m \in Int /\ (0 <= c => m >= 0 /\ m <= 0) /\ (~(0 <= c) => m = c)
  BY <1>1
<1>3. -m = IF 0 <= c THEN 0 ELSE 0 - c
  BY <1>2
<1> QED
  BY <1>3 DEF m

\* What a count leaves above zero.
LEMMA Surplus ==
  ASSUME NEW c \in Int
  PROVE  /\ Max({0, c}) = IF 0 <= c THEN c ELSE 0
         /\ Max({c, 0}) = IF 0 <= c THEN c ELSE 0
<1> DEFINE m == Max({0, c})
<1>1. m = IF 0 <= c THEN c ELSE 0
  BY MinMaxOfTwo
<1>2. {c, 0} = {0, c}
  OBVIOUS
<1>3. Max({c, 0}) = m
  BY <1>2, Zenon
<1> HIDE DEF m
<1>4. m = IF 0 <= c THEN c ELSE 0
  BY <1>1
<1> QED
  BY <1>3, <1>4 DEF m

\* A sequence cut in two.
CutAt(front, back, s, k) ==
  /\ Len(front) = k /\ \A i \in 1..k : front[i] = s[i]
  /\ Len(back) = Len(s) - k /\ \A i \in 1..Len(s) - k : back[i] = s[k + i]

\* SubSeq() cuts a sequence in two.
LEMMA CutShape ==
  ASSUME NEW E, NEW s \in Seq(E), NEW k \in 0..Len(s)
  PROVE  /\ SubSeq(s, 1, k) \in Seq(E) /\ SubSeq(s, k + 1, Len(s)) \in Seq(E)
         /\ CutAt(SubSeq(s, 1, k), SubSeq(s, k + 1, Len(s)), s, k)
<1> DEFINE n == Len(s)
<1>1. n \in Nat /\ s \in [1..n -> E]
  BY LenProperties
<1> HIDE DEF n
<1>2. k \in 0..n
  BY DEF n
<1>3. /\ SubSeq(s, 1, k) \in Seq(E)
      /\ Len(SubSeq(s, 1, k)) = IF 1 <= k THEN k - 1 + 1 ELSE 0
      /\ \A i \in 1..k - 1 + 1 : SubSeq(s, 1, k)[i] = s[1 + i - 1]
  <2>1. \A i \in 1..k : s[i] \in E
    BY <1>1, <1>2
  <2>2. k \in Int /\ 1 \in Int
    BY <1>2
  <2> QED
    BY <2>1, <2>2, SubSeqProperties
<1>4. /\ SubSeq(s, k + 1, n) \in Seq(E)
      /\ Len(SubSeq(s, k + 1, n)) = IF k + 1 <= n THEN n - (k + 1) + 1 ELSE 0
      /\ \A i \in 1..n - (k + 1) + 1 : SubSeq(s, k + 1, n)[i] = s[(k + 1) + i - 1]
  <2>1. \A i \in k + 1..n : s[i] \in E
    BY <1>1, <1>2
  <2>2. k + 1 \in Int /\ n \in Int
    BY <1>1, <1>2
  <2> QED
    BY <2>1, <2>2, SubSeqProperties
<1> DEFINE a == SubSeq(s, 1, k)
           b == SubSeq(s, k + 1, n)
<1>5. a \in Seq(E) /\ Len(a) = k /\ \A i \in 1..k : a[i] = s[i]
  <2> HIDE DEF a
  <2>1. /\ a \in Seq(E) /\ Len(a) = IF 1 <= k THEN k - 1 + 1 ELSE 0
        /\ \A i \in 1..k - 1 + 1 : a[i] = s[1 + i - 1]
    BY <1>3 DEF a
  <2> QED
    BY <1>1, <1>2, <2>1
<1>6. b \in Seq(E) /\ Len(b) = n - k /\ \A i \in 1..n - k : b[i] = s[k + i]
  <2> HIDE DEF b
  <2>1. /\ b \in Seq(E) /\ Len(b) = IF k + 1 <= n THEN n - (k + 1) + 1 ELSE 0
        /\ \A i \in 1..n - (k + 1) + 1 : b[i] = s[(k + 1) + i - 1]
    BY <1>4 DEF b
  <2> QED
    BY <1>1, <1>2, <2>1
<1> HIDE DEF a, b
<1>7. CutAt(a, b, s, k)
  BY <1>5, <1>6 DEF CutAt, n
<1> QED
  BY <1>5, <1>6, <1>7 DEF n, a, b

\* No process of a line that is cut in two is in both halves.
LEMMA CutInjective ==
  ASSUME NEW E, NEW s \in Seq(E), NEW k \in 0..Len(s), IsInjective(s),
         NEW a \in Seq(E), NEW b \in Seq(E), CutAt(a, b, s, k)
  PROVE  /\ IsInjective(a) /\ IsInjective(b)
         /\ Range(a) \cup Range(b) = Range(s) /\ Range(a) \cap Range(b) = {}
<1>1. /\ Len(s) \in Nat /\ DOMAIN s = 1..Len(s)
      /\ DOMAIN a = 1..k /\ DOMAIN b = 1..Len(s) - k
  BY LenProperties DEF CutAt
<1>2. /\ \A i \in 1..k : i \in 1..Len(s) /\ a[i] = s[i]
      /\ \A i \in 1..Len(s) - k : k + i \in 1..Len(s) /\ b[i] = s[k + i]
  BY <1>1 DEF CutAt
<1>3. \A i, j \in 1..Len(s) : s[i] = s[j] => i = j
  BY <1>1 DEF IsInjective
<1>4. IsInjective(a)
  BY <1>1, <1>2, <1>3 DEF IsInjective
<1>5. IsInjective(b)
  <2>1. ASSUME NEW i \in 1..Len(s) - k, NEW j \in 1..Len(s) - k, b[i] = b[j]
        PROVE  i = j
    <3>1. k + i = k + j
      BY <1>2, <1>3, <2>1
    <3> QED
      BY <1>1, <3>1
  <2> QED
    BY <1>1, <2>1 DEF IsInjective
<1>6. Range(a) \subseteq Range(s) /\ Range(b) \subseteq Range(s)
  BY <1>1, <1>2 DEF Range
<1>7. ASSUME NEW i \in 1..Len(s) PROVE s[i] \in Range(a) \cup Range(b)
  <2>1. CASE i <= k
    <3>1. i \in 1..k
      BY <1>1, <2>1
    <3>2. a[i] = s[i]
      BY <1>2, <3>1
    <3> QED
      BY <1>1, <3>1, <3>2 DEF Range
  <2>2. CASE ~(i <= k)
    <3>1. i - k \in 1..Len(s) - k /\ k + (i - k) = i
      BY <1>1, <2>2
    <3>2. b[i - k] = s[i]
      BY <1>2, <3>1
    <3> QED
      BY <1>1, <3>1, <3>2 DEF Range
  <2> QED
    BY <2>1, <2>2
<1>8. Range(s) \subseteq Range(a) \cup Range(b)
  BY <1>1, <1>7 DEF Range
<1>9. ASSUME NEW i \in 1..k, NEW j \in 1..Len(s) - k, a[i] = b[j] PROVE FALSE
  <2>1. i = k + j
    BY <1>2, <1>3, <1>9
  <2> QED
    BY <1>1, <2>1
<1>10. Range(a) \cap Range(b) = {}
  BY <1>1, <1>9 DEF Range
<1> QED
  BY <1>4, <1>5, <1>6, <1>8, <1>10

\* A process that is not in line goes to its end.
LEMMA JoinInjective ==
  ASSUME NEW E, NEW s \in Seq(E), NEW e \in E, e \notin Range(s), IsInjective(s)
  PROVE  /\ Append(s, e) \in Seq(E) /\ IsInjective(Append(s, e))
         /\ Range(Append(s, e)) = Range(s) \cup {e}
         /\ Len(Append(s, e)) = Len(s) + 1
<1> DEFINE n == Len(s)
           t == Append(s, e)
<1>1. n \in Nat /\ DOMAIN s = 1..n
  BY LenProperties
<1>2. /\ t \in Seq(E) /\ Len(t) = n + 1
      /\ \A i \in 1..n : t[i] = s[i]
      /\ t[n + 1] = e
  BY AppendProperties
<1> HIDE DEF n, t
<1>3. DOMAIN t = 1..n + 1 /\ \A i \in 1..n + 1 : i \in 1..n \/ i = n + 1
  BY <1>1, <1>2, LenProperties
<1>4. \A i \in 1..n : i \in 1..n + 1 /\ s[i] # e
  BY <1>1 DEF Range
<1>5. \A i, j \in 1..n : s[i] = s[j] => i = j
  BY <1>1 DEF IsInjective
<1>6. IsInjective(t)
  BY <1>2, <1>3, <1>4, <1>5 DEF IsInjective
<1>7. n + 1 \in 1..n + 1
  BY <1>1
<1>8. Range(t) = Range(s) \cup {e}
  BY <1>1, <1>2, <1>3, <1>4, <1>7 DEF Range
<1>9. t \in Seq(E) /\ IsInjective(t) /\ Range(t) = Range(s) \cup {e} /\ Len(t) = n + 1
  BY <1>2, <1>6, <1>8
<1> QED
  BY <1>9 DEF t, n

\* The first of a queue without duplicates leaves it.
LEMMA TailInjective ==
  ASSUME NEW E, NEW s \in Seq(E), IsInjective(s), s # <<>>
  PROVE  /\ Head(s) \in E /\ Head(s) \in Range(s)
         /\ Tail(s) \in Seq(E) /\ IsInjective(Tail(s)) /\ Len(Tail(s)) = Len(s) - 1
         /\ Range(Tail(s)) = Range(s) \ {Head(s)}
<1> DEFINE n == Len(s)
           t == Tail(s)
<1>1. /\ n \in Nat /\ n >= 1 /\ DOMAIN s = 1..n /\ Head(s) = s[1] /\ s[1] \in E
      /\ t \in Seq(E) /\ Len(t) = n - 1 /\ \A i \in 1..n - 1 : t[i] = s[i + 1]
  BY LenProperties, EmptySeq, HeadTailProperties
<1>2. DOMAIN t = 1..n - 1
  BY <1>1, LenProperties
<1>3. IsInjective(t)
  <2>1. ASSUME NEW i \in 1..n - 1, NEW j \in 1..n - 1, t[i] = t[j] PROVE i = j
    <3>1. i + 1 \in 1..n /\ j + 1 \in 1..n /\ s[i + 1] = s[j + 1]
      BY <1>1, <2>1
    <3>2. i + 1 = j + 1
      BY <1>1, <3>1 DEF IsInjective
    <3> QED
      BY <3>2
  <2> QED
    BY <1>2, <2>1 DEF IsInjective
<1>4. ASSUME NEW x \in Range(t) PROVE x \in Range(s) \ {Head(s)}
  <2>1. PICK i \in 1..n - 1 : x = t[i]
    BY <1>2 DEF Range
  <2>2. i + 1 \in 1..n /\ x = s[i + 1] /\ i + 1 # 1 /\ 1 \in 1..n
    BY <1>1, <2>1
  <2> QED
    BY <1>1, <2>2 DEF IsInjective, Range
<1>5. ASSUME NEW x \in Range(s), x # Head(s) PROVE x \in Range(t)
  <2>1. PICK i \in 1..n : x = s[i]
    BY <1>1 DEF Range
  <2>2. i - 1 \in 1..n - 1 /\ t[i - 1] = s[i]
    BY <1>1, <1>5, <2>1
  <2> QED
    BY <1>2, <2>1, <2>2 DEF Range
<1>6. Head(s) \in Range(s)
  BY <1>1 DEF Range
<1> QED
  BY <1>1, <1>3, <1>4, <1>5, <1>6

\* Somebody new in front of a line.
LEMMA FrontInjective ==
  ASSUME NEW E, NEW s \in Seq(E), NEW e \in E, e \notin Range(s), IsInjective(s)
  PROVE  /\ <<e>> \o s \in Seq(E) /\ IsInjective(<<e>> \o s)
         /\ Range(<<e>> \o s) = Range(s) \cup {e}
         /\ Len(<<e>> \o s) = Len(s) + 1
<1> DEFINE n == Len(s)
           t == <<e>> \o s
<1>1. n \in Nat /\ DOMAIN s = 1..n
  BY LenProperties
<1>2. /\ t \in Seq(E) /\ Len(t) = n + 1
      /\ t[1] = e /\ \A i \in 1..n : t[i + 1] = s[i]
  <2>1. <<e>> \in Seq(E) /\ Len(<<e>>) = 1 /\ <<e>>[1] = e
    OBVIOUS
  <2>2. PICK f \in Seq(E) : f = <<e>> /\ Len(f) = 1 /\ f[1] = e
    BY <2>1
  <2>3. /\ f \o s \in Seq(E) /\ Len(f \o s) = 1 + n
        /\ \A i \in 1..1 + n : (f \o s)[i] = IF i <= 1 THEN f[i] ELSE s[i - 1]
    BY <2>2, ConcatProperties
  <2>4. 1 \in 1..1 + n /\ \A i \in 1..n : i + 1 \in 1..1 + n /\ ~(i + 1 <= 1) /\ i + 1 - 1 = i
    BY <1>1
  <2> QED
    BY <1>1, <2>2, <2>3, <2>4
<1>3. DOMAIN t = 1..n + 1
  BY <1>2, LenProperties
<1> HIDE DEF t, n
<1>4. ASSUME NEW i \in 1..n + 1, i # 1 PROVE i - 1 \in 1..n /\ t[i] = s[i - 1]
  <2>1. i - 1 \in 1..n /\ i - 1 + 1 = i
    BY <1>1, <1>4
  <2> QED
    BY <1>2, <2>1
<1>5. IsInjective(t)
  <2>1. ASSUME NEW i \in 1..n + 1, NEW j \in 1..n + 1, t[i] = t[j] PROVE i = j
    <3>1. CASE i = 1 \/ j = 1
      <4>1. ASSUME NEW m \in 1..n + 1, m # 1 PROVE t[m] # e
        BY <1>1, <1>4, <4>1 DEF Range
      <4> QED
        BY <1>2, <2>1, <3>1, <4>1
    <3>2. CASE i # 1 /\ j # 1
      <4>1. s[i - 1] = s[j - 1] /\ i - 1 \in 1..n /\ j - 1 \in 1..n
        BY <1>4, <2>1, <3>2
      <4>2. i - 1 = j - 1
        BY <1>1, <4>1 DEF IsInjective
      <4> QED
        BY <1>1, <4>2
    <3> QED
      BY <3>1, <3>2
  <2> QED
    BY <1>3, <2>1 DEF IsInjective
<1>6. ASSUME NEW x \in Range(t) PROVE x \in Range(s) \cup {e}
  <2>1. PICK i \in 1..n + 1 : x = t[i]
    BY <1>3 DEF Range
  <2> QED
    BY <1>1, <1>2, <1>4, <2>1 DEF Range
<1>7. ASSUME NEW x \in Range(s) \cup {e} PROVE x \in Range(t)
  <2>1. CASE x = e
    <3>1. 1 \in 1..n + 1 /\ t[1] = x
      BY <1>1, <1>2, <2>1
    <3> QED
      BY <1>3, <3>1 DEF Range
  <2>2. CASE x \in Range(s)
    <3>1. PICK i \in 1..n : x = s[i]
      BY <1>1, <2>2 DEF Range
    <3>2. i + 1 \in 1..n + 1 /\ t[i + 1] = x
      BY <1>1, <1>2, <3>1
    <3> QED
      BY <1>3, <3>2 DEF Range
  <2> QED
    BY <1>7, <2>1, <2>2
<1> QED
  BY <1>2, <1>5, <1>6, <1>7 DEF n, t

\* A process that is in line leaves it.
LEMMA RemoveFirstInjective ==
  ASSUME NEW E, NEW s \in Seq(E), NEW e \in Range(s), IsInjective(s)
  PROVE  /\ RemoveFirst(s, e) \in Seq(E) /\ IsInjective(RemoveFirst(s, e))
         /\ Range(RemoveFirst(s, e)) = Range(s) \ {e}
         /\ Len(RemoveFirst(s, e)) = Len(s) - 1
<1> DEFINE n == Len(s)
           I == {i \in 1..n : s[i] = e}
           k == Min(I)
           t == RemoveFirst(s, e)
<1>1. n \in Nat /\ DOMAIN s = 1..n
  BY LenProperties
<1>2. I # {} /\ I \in SUBSET Nat
  BY <1>1 DEF Range
<1>3. t = RemoveAt(s, k)
  BY <1>2 DEF RemoveFirst, SelectInSeq
<1>4. k \in 1..n /\ s[k] = e
  <2> HIDE DEF I
  <2>1. k \in I
    BY <1>2, MinOfNaturals
  <2> QED
    BY <2>1 DEF I
<1> HIDE DEF k, t
<1>5. t \in Seq(E) /\ ClosedAt(t, s, k)
  BY <1>3, <1>4, RemoveAtShape
<1>6. /\ Len(t) = n - 1 /\ DOMAIN t = 1..n - 1
      /\ \A i \in 1..n - 1 : t[i] = IF i <= k - 1 THEN s[i] ELSE s[i + 1]
  BY <1>1, <1>5, LenProperties DEF ClosedAt
<1> HIDE DEF n
<1>7. \A i, j \in 1..n : s[i] = s[j] => i = j
  BY <1>1 DEF IsInjective
<1>8. ASSUME NEW i \in 1..n - 1
      PROVE  \E j \in 1..n : j # k /\ t[i] = s[j] /\ j = IF i <= k - 1 THEN i ELSE i + 1
  <2>1. CASE i <= k - 1
    BY <1>1, <1>4, <1>6, <2>1
  <2>2. CASE ~(i <= k - 1)
    <3>1. i + 1 \in 1..n /\ i + 1 # k
      BY <1>1, <1>4, <2>2
    <3> QED
      BY <1>6, <2>2, <3>1
  <2> QED
    BY <2>1, <2>2
<1>9. ASSUME NEW i \in 1..n - 1, NEW j \in 1..n - 1, t[i] = t[j] PROVE i = j
  BY <1>1, <1>4, <1>7, <1>8, <1>9
<1>10. IsInjective(t)
  BY <1>6, <1>9 DEF IsInjective
<1>11. Range(t) \subseteq Range(s) \ {e}
  BY <1>1, <1>4, <1>6, <1>7, <1>8 DEF Range
<1>12. ASSUME NEW i \in 1..n, i # k PROVE s[i] \in Range(t)
  <2>1. CASE i <= k - 1
    <3>1. i \in 1..n - 1 /\ t[i] = s[i]
      BY <1>1, <1>4, <1>6, <2>1
    <3> QED
      BY <1>6, <3>1 DEF Range
  <2>2. CASE ~(i <= k - 1)
    <3>1. i - 1 \in 1..n - 1 /\ ~(i - 1 <= k - 1) /\ (i - 1) + 1 = i
      BY <1>1, <1>4, <1>12, <2>2
    <3>2. t[i - 1] = s[i]
      BY <1>6, <3>1
    <3> QED
      BY <1>6, <3>1, <3>2 DEF Range
  <2> QED
    BY <2>1, <2>2
<1>13. Range(s) \ {e} \subseteq Range(t)
  BY <1>1, <1>4, <1>12 DEF Range
<1> QED
  BY <1>5, <1>6, <1>10, <1>11, <1>13 DEF t, n

-------------------------------------------------------------------------------
(***************************************************************************)
(* ready() for a sequence of processes.                                    *)
(***************************************************************************)

\* The ready list grows by one process after the other.
LEMMA ReadyListSteps ==
  ASSUME pprio \in [Procs -> 0..MAXINT], rdy \in Seq(ReadyEntries),
         NEW pids \in Seq(Procs)
  PROVE  \E f \in [0..Len(pids) -> Seq(ReadyEntries)] :
           /\ f[0] = rdy
           /\ \A n \in 1..Len(pids) :
                f[n] = Insert(f[n - 1], ReadyEntry(pprio, pids[n]))
           /\ ReadyList(pids) = f[Len(pids)]
<1> DEFINE N == Len(pids)
           E == Seq(ReadyEntries)
           step == [n \in 1..N |-> [l \in E |-> Insert(l, ReadyEntry(pprio, pids[n]))]]
<1>1. N \in Nat /\ \A n \in 1..N : pids[n] \in Procs
  BY LenProperties
<1>2. ASSUME NEW n \in 1..N, NEW l \in E
      PROVE  Insert(l, ReadyEntry(pprio, pids[n])) \in E
  BY <1>1, ReadyInsert
<1>3. step \in [1..N -> [E -> E]]
  BY <1>2
<1> HIDE DEF step, N, E
<1>4. rdy \in E
  BY DEF E
<1>5. PICK f \in [0..N -> E] :
        f[0] = rdy /\ \A n \in 1..N : f[n] = step[n][f[n - 1]]
  <2>1. N \in Nat
    BY <1>1
  <2>2. \E f : Iterates(f, N, E, rdy, step)
    BY <1>3, <1>4, <2>1, RecursionExists
  <2> QED
    BY <2>2 DEF Iterates
<1>6. ASSUME NEW n \in 1..N
      PROVE  f[n] = Insert(f[n - 1], ReadyEntry(pprio, pids[n]))
  <2>1. n - 1 \in 0..N
    BY <1>1
  <2>2. f[n - 1] \in E
    BY <1>5, <2>1
  <2> QED
    BY <1>5, <2>2 DEF step
<1>7. f = [n \in 0..N |-> IF n = 0 THEN rdy
                          ELSE Insert(f[n - 1], ReadyEntry(pprio, pids[n]))]
  BY <1>1, <1>5, <1>6
<1> DEFINE g == CHOOSE h : h = [n \in 0..N |-> IF n = 0 THEN rdy
                             ELSE Insert(h[n - 1], ReadyEntry(pprio, pids[n]))]
<1>8. g = [n \in 0..N |-> IF n = 0 THEN rdy
                          ELSE Insert(g[n - 1], ReadyEntry(pprio, pids[n]))]
  BY <1>7
<1>9. ReadyList(pids) = g[N]
  BY DEF ReadyList, N
<1> HIDE DEF g
<1>10. \A n \in 0..N : g[n] = f[n]
  <2> DEFINE T == {n \in 0..N : g[n] = f[n]}
  <2>1. 0 \in T
    BY <1>1, <1>5, <1>8
  <2>2. ASSUME NEW n \in 1..N, n - 1 \in T PROVE n \in T
    <3>1. g[n] = Insert(g[n - 1], ReadyEntry(pprio, pids[n]))
      BY <1>1, <1>8
    <3> QED
      BY <1>1, <1>6, <2>2, <3>1
  <2> HIDE DEF T
  <2>3. \A n \in 0..N : n \in T
    BY <1>1, <2>1, <2>2, UpTo
  <2> QED
    BY <2>3 DEF T
<1>11. ReadyList(pids) = f[N]
  BY <1>1, <1>9, <1>10
<1>12. /\ f \in [0..Len(pids) -> Seq(ReadyEntries)] /\ f[0] = rdy
       /\ \A n \in 1..Len(pids) : f[n] = Insert(f[n - 1], ReadyEntry(pprio, pids[n]))
       /\ ReadyList(pids) = f[Len(pids)]
  BY <1>5, <1>6, <1>11 DEF N, E
<1> QED
  BY <1>12

\* ready() for each process of a sequence that holds none twice and none that
\* is ready leaves the ready list as it should be.
LEMMA ReadyMany ==
  ASSUME ProcTypeOK, ReadyMatches(pstate, rdy),
         NEW pids \in Seq(Procs), IsInjective(pids),
         \A p \in Range(pids) : pstate[p] # "PRREADY"
  PROVE  /\ ReadyStates(pids) \in [Procs -> PStates]
         /\ ReadyList(pids) \in Seq(ReadyEntries)
         /\ ReadyMatches(ReadyStates(pids), ReadyList(pids))
         /\ Pids(rdy) \subseteq Pids(ReadyList(pids))
<1> DEFINE N == Len(pids)
           E == Seq(ReadyEntries)
           Upto(n) == [p \in Procs |-> IF \E i \in 1..n : pids[i] = p
                                       THEN "PRREADY" ELSE pstate[p]]
<1>1. /\ N \in Nat /\ DOMAIN pids = 1..N /\ \A n \in 1..N : pids[n] \in Procs
      /\ \A i, j \in 1..N : pids[i] = pids[j] => i = j
      /\ \A n \in 1..N : pstate[pids[n]] # "PRREADY"
  BY LenProperties DEF IsInjective, Range
<1>2. /\ pstate \in [Procs -> PStates] /\ pprio \in [Procs -> 0..MAXINT]
      /\ rdy \in E
  BY DEF ProcTypeOK, ReadyEntries
<1>3. PICK f \in [0..N -> E] :
        /\ f[0] = rdy
        /\ \A n \in 1..N : f[n] = Insert(f[n - 1], ReadyEntry(pprio, pids[n]))
        /\ ReadyList(pids) = f[N]
  BY <1>2, ReadyListSteps
<1> DEFINE T == {n \in 0..N : /\ ReadyMatches(Upto(n), f[n])
                              /\ Pids(rdy) \subseteq Pids(f[n])}
<1>4. \A n \in 0..N : Upto(n) \in [Procs -> PStates]
  BY <1>2 DEF PStates
<1>5. 0 \in T
  <2>1. Upto(0) = pstate
    BY <1>2
  <2> QED
    BY <1>1, <1>3, <2>1
<1>6. ASSUME NEW n \in 1..N, n - 1 \in T
      PROVE  n \in T
  <2> DEFINE p == pids[n]
             ps == Upto(n - 1)
             rd == f[n - 1]
  <2>1. p \in Procs /\ n - 1 \in 0..N
    BY <1>1
  <2>2. ps[p] # "PRREADY"
    <3>1. ~\E i \in 1..n - 1 : pids[i] = p
      BY <1>1
    <3> QED
      BY <1>1, <2>1, <3>1
  <2>3. [ps EXCEPT ![p] = "PRREADY"] = Upto(n)
    <3>1. ASSUME NEW q \in Procs
          PROVE  (\E i \in 1..n : pids[i] = q)
                   <=> (q = p \/ \E i \in 1..n - 1 : pids[i] = q)
      <4>1. \A i \in 1..n : i = n \/ i \in 1..n - 1
        BY <1>1
      <4>2. n \in 1..n /\ \A i \in 1..n - 1 : i \in 1..n
        BY <1>1
      <4> QED
        BY <4>1, <4>2
    <3> QED
      BY <2>1, <3>1
  <2>4. ps \in [Procs -> PStates] /\ rd \in E /\ ReadyMatches(ps, rd)
    BY <1>3, <1>4, <1>6, <2>1
  <2>5. f[n] = Insert(rd, ReadyEntry(pprio, p))
    BY <1>3
  <2>6. Pids(rdy) \subseteq Pids(rd)
    BY <1>6
  <2> HIDE DEF p, ps, rd
  <2>7. ReadyMatches([ps EXCEPT ![p] = "PRREADY"], f[n])
    BY <1>2, <2>1, <2>2, <2>4, <2>5, ReadyOne
  <2>8. Pids(f[n]) = Pids(rd) \cup {p}
    BY <1>2, <2>1, <2>4, <2>5, ReadyInsert
  <2> QED
    BY <2>3, <2>6, <2>7, <2>8
<1> HIDE DEF T
<1>7. \A n \in 0..N : n \in T
  BY <1>1, <1>5, <1>6, UpTo
<1>8. N \in T /\ N \in 0..N
  BY <1>1, <1>7
<1>9. Upto(N) = ReadyStates(pids)
  <2>1. \A p \in Procs : p \in Range(pids) <=> \E i \in 1..N : pids[i] = p
    BY <1>1 DEF Range
  <2> QED
    BY <2>1 DEF ReadyStates
<1> HIDE DEF Upto
<1>10. ReadyStates(pids) \in [Procs -> PStates]
  BY <1>4, <1>8, <1>9
<1> QED
  BY <1>3, <1>8, <1>9, <1>10 DEF T

-------------------------------------------------------------------------------
(***************************************************************************)
(* The inductive invariant.                                                *)
(***************************************************************************)

\* The process table, the ready list and the running process.
TableInv ==
  /\ ProcTypeOK
  /\ ReadyMatches(pstate, rdy)
  /\ \A p \in Procs : pstate[p] = "PRCURR" <=> p = currpid
  /\ pstate[NULLPROC] \in {"PRCURR", "PRREADY"}

\* The semaphores and their lines.
SemType ==
  /\ sstate \in [Sems -> {"SFREE", "SUSED"}]
  /\ semcnt \in [Sems -> Int]
  /\ semq \in [Sems -> Seq(UserPids)]
  /\ nextsem \in Sems
  /\ psem \in [Procs -> Sems]
  /\ pwaitret \in [Procs -> {"OK", "DELETED"}]

InLine(s) ==
  /\ \A p \in Procs : pstate[p] = "PRWAIT" /\ psem[p] = s <=> p \in Range(semq[s])
  /\ IsInjective(semq[s])

SemInv == SemType /\ (\A s \in Sems : InLine(s)) /\ CountIsWaiters

\* The clock and its delta list.
ClockEntries == [pid : Procs, key : Int]

ClockInv ==
  /\ clockq \in Seq(ClockEntries)
  /\ slnempty \in BOOLEAN /\ sltop \in Procs /\ due \in [Procs -> Int]
  /\ \A p \in Procs : pstate[p] \in {"PRSLEEP", "PRTRECV"} <=> p \in Pids(clockq)
  /\ Distinct(clockq)
  /\ CountsHead

\* The calls processes are inside of, and what they wait for.
CallType ==
  /\ kcall \in [Procs -> {"none", "wait", "receive", "recvtim", "kill"}]
  /\ kvictim \in [Procs -> Procs]
  /\ phasmsg \in [Procs -> BOOLEAN]
  /\ pnxtkin \in [Procs -> UserPids \cup {BADPID}]

CallInv ==
  /\ CallType
  /\ kcall[NULLPROC] = "none"
  /\ \A p \in Procs :
       /\ kcall[p] = "kill" => kvictim[p] \in UserPids
       /\ kcall[p] = "receive" => pstate[p] \in {"PRRECV", "PRFREE"} \/ phasmsg[p]
       /\ pstate[p] = "PRWAIT" => kcall[p] = "wait"

ServInv == TableInv /\ SemInv /\ ClockInv /\ CallInv

-------------------------------------------------------------------------------
(***************************************************************************)
(* The dispatcher.                                                         *)
(***************************************************************************)

\* A process keeps its state, or it is one that can run before and after.
Stays(p) == \/ pstate'[p] = pstate[p]
            \/ {pstate[p], pstate'[p]} \subseteq {"PRCURR", "PRREADY"}

\* resched() with the states and the ready list its caller has prepared.
LEMMA ReschedTable ==
  ASSUME TableInv, NEW ps \in [Procs -> PStates], NEW rd \in Seq(ReadyEntries),
         ReadyMatches(ps, rd), \A p \in Procs : ps[p] = "PRCURR" => p = currpid,
         ps[NULLPROC] \in {"PRCURR", "PRREADY"},
         Resched(ps, rd, pinh), UNCHANGED <<pprio, pinh, nextproc>>
  PROVE  /\ TableInv'
         /\ \A p \in Procs : \/ pstate'[p] = ps[p]
                             \/ {ps[p], pstate'[p]} \subseteq {"PRCURR", "PRREADY"}
<1>1. ProcTypeOK /\ pinh \in [Procs -> 0..MAXINT] /\ NULLPROC \in Procs
  BY NullIsProc DEF TableInv, ProcTypeOK
<1>2. NullCanRun(ps, rd, currpid)
  BY <1>1 DEF NullCanRun, ReadyMatches
<1>3. PICK ih \in [Procs -> 0..MAXINT] : ih = pinh
  BY <1>1
<1>4. Resched(ps, rd, ih)
  BY <1>3
<1>5. /\ pstate' \in [Procs -> PStates] /\ rdy' \in Seq(ReadyEntries)
      /\ currpid' \in Procs
  BY <1>1, <1>2, <1>4, ReschedType
<1>6. /\ ReadyMatches(pstate', rdy')
      /\ \A p \in Procs : pstate'[p] = "PRCURR" <=> p = currpid'
      /\ \A p \in Procs : ps[p] \notin {"PRCURR", "PRREADY"} => pstate'[p] = ps[p]
      /\ \A p \in Procs : ps[p] \in {"PRCURR", "PRREADY"} =>
                            pstate'[p] \in {"PRCURR", "PRREADY"}
  BY <1>1, <1>2, <1>4, ReschedMatches
<1>7. ProcTypeOK'
  BY <1>1, <1>5 DEF ProcTypeOK, ReadyEntries
<1>8. (pstate[NULLPROC] \in {"PRCURR", "PRREADY"})'
  BY <1>1, <1>6
<1>9. TableInv'
  BY <1>6, <1>7, <1>8 DEF TableInv
<1> QED
  BY <1>6, <1>9

\* resched() by a process that can go on.
LEMMA PreemptTable ==
  ASSUME TableInv, Resched(pstate, rdy, pinh), UNCHANGED <<pprio, pinh, nextproc>>
  PROVE  TableInv' /\ \A p \in Procs : Stays(p)
<1>1. PICK ps \in [Procs -> PStates] : ps = pstate
  BY DEF TableInv, ProcTypeOK
<1>2. PICK rd \in Seq(ReadyEntries) : rd = rdy
  BY DEF TableInv, ProcTypeOK, ReadyEntries
<1>3. /\ ReadyMatches(ps, rd) /\ \A p \in Procs : ps[p] = "PRCURR" => p = currpid
      /\ ps[NULLPROC] \in {"PRCURR", "PRREADY"} /\ Resched(ps, rd, pinh)
  BY <1>1, <1>2 DEF TableInv
<1>4. /\ TableInv'
      /\ \A p \in Procs : \/ pstate'[p] = ps[p]
                          \/ {ps[p], pstate'[p]} \subseteq {"PRCURR", "PRREADY"}
  BY <1>3, ReschedTable
<1> QED
  BY <1>1, <1>4 DEF Stays

\* A process that leaves the CPU gets the state it waits in; the others stay.
LEMMA BlockTable ==
  ASSUME TableInv, currpid # NULLPROC, NEW st \in PStates \ {"PRCURR", "PRREADY"},
         Block(st), UNCHANGED <<pprio, pinh, nextproc>>
  PROVE  /\ TableInv' /\ pstate'[currpid] = st
         /\ \A p \in Procs \ {currpid} : Stays(p)
<1>1. /\ pstate \in [Procs -> PStates] /\ currpid \in Procs
      /\ rdy \in Seq(ReadyEntries) /\ pstate[currpid] = "PRCURR"
  BY DEF TableInv, ProcTypeOK, ReadyEntries
<1>2. PICK ps \in [Procs -> PStates] : ps = [pstate EXCEPT ![currpid] = st]
  BY <1>1
<1>3. PICK rd \in Seq(ReadyEntries) : rd = rdy
  BY <1>1
<1>4. PICK c \in Procs : c = currpid
  BY <1>1
<1>5. ReadyMatches(ps, rd)
  <2>1. PICK qs \in [Procs -> PStates] : qs = pstate
    BY <1>1
  <2>2. ReadyMatches(qs, rd) /\ qs[c] # "PRREADY"
    BY <1>1, <1>3, <1>4, <2>1 DEF TableInv
  <2>3. ReadyMatches([qs EXCEPT ![c] = st], rd)
    BY <2>2, UnreadyOne
  <2> QED
    BY <1>2, <1>4, <2>1, <2>3
<1>6. /\ ps[c] = st /\ \A p \in Procs \ {c} : ps[p] = pstate[p]
      /\ Resched(ps, rd, pinh)
  BY <1>1, <1>2, <1>3, <1>4 DEF Block
<1>7. /\ \A p \in Procs : ps[p] = "PRCURR" => p = currpid
      /\ ps[NULLPROC] \in {"PRCURR", "PRREADY"}
  BY <1>4, <1>6, NullIsProc DEF TableInv
<1>8. /\ TableInv'
      /\ \A p \in Procs : \/ pstate'[p] = ps[p]
                          \/ {ps[p], pstate'[p]} \subseteq {"PRCURR", "PRREADY"}
  BY <1>5, <1>6, <1>7, ReschedTable
<1> QED
  BY <1>4, <1>6, <1>8 DEF Stays

\* The processes of a sequence are made ready; the others stay.
LEMMA ReadyTable ==
  ASSUME TableInv, NEW pids \in Seq(Procs), IsInjective(pids),
         \A p \in Range(pids) : pstate[p] # "PRREADY" /\ pstate[p] # "PRCURR",
         ReadyAndResched(pids), UNCHANGED <<pprio, pinh, nextproc>>
  PROVE  /\ TableInv'
         /\ \A p \in Range(pids) : pstate'[p] \in {"PRCURR", "PRREADY"}
         /\ \A p \in Procs \ Range(pids) : Stays(p)
<1>1. /\ ReadyStates(pids) \in [Procs -> PStates]
      /\ ReadyList(pids) \in Seq(ReadyEntries)
      /\ ReadyMatches(ReadyStates(pids), ReadyList(pids))
  BY ReadyMany DEF TableInv
<1>2. PICK ps \in [Procs -> PStates] : ps = ReadyStates(pids)
  BY <1>1
<1>3. PICK rd \in Seq(ReadyEntries) : rd = ReadyList(pids)
  BY <1>1
<1>4. /\ \A p \in Range(pids) : p \in Procs => ps[p] = "PRREADY"
      /\ \A p \in Procs \ Range(pids) : ps[p] = pstate[p]
  BY <1>2 DEF ReadyStates
<1>5. Range(pids) \subseteq Procs
  BY LenProperties DEF Range
<1>6. ReadyMatches(ps, rd) /\ Resched(ps, rd, pinh)
  BY <1>1, <1>2, <1>3 DEF ReadyAndResched
<1>7. /\ \A p \in Procs : ps[p] = "PRCURR" => p = currpid
      /\ ps[NULLPROC] \in {"PRCURR", "PRREADY"}
  BY <1>4, <1>5, NullIsProc DEF TableInv
<1>8. /\ TableInv'
      /\ \A p \in Procs : \/ pstate'[p] = ps[p]
                          \/ {ps[p], pstate'[p]} \subseteq {"PRCURR", "PRREADY"}
  BY <1>6, <1>7, ReschedTable
<1> QED
  BY <1>4, <1>5, <1>8 DEF Stays

-------------------------------------------------------------------------------
(***************************************************************************)
(* What leaves the semaphores, the clock or the calls alone.               *)
(***************************************************************************)

\* A user process is a process.
LEMMA UserIsProc == UserPids \subseteq Procs /\ NULLPROC \notin UserPids
BY DEF UserPids

\* There are NPROC processes.
LEMMA ProcsFinite == IsFiniteSet(Procs) /\ Cardinality(Procs) = NPROC
<1>1. 0 \in Int /\ NPROC - 1 \in Int /\ NPROC \in Nat /\ NPROC >= 2
  BY NPROCAssumption
<1>2. Cardinality(0..NPROC - 1) = IF 0 > NPROC - 1 THEN 0 ELSE (NPROC - 1) - 0 + 1
  BY <1>1, FS_Interval
<1>3. IsFiniteSet(0..NPROC - 1)
  BY <1>1, FS_Interval
<1> QED
  BY <1>1, <1>2, <1>3 DEF Procs

\* The semaphores depend on which processes wait and on nothing else.
LEMMA SemUntouched ==
  ASSUME SemInv, UNCHANGED semVars,
         \A p \in Procs : pstate'[p] = "PRWAIT" <=> pstate[p] = "PRWAIT"
  PROVE  SemInv'
<1>1. SemType' /\ CountIsWaiters'
  BY DEF SemInv, SemType, CountIsWaiters, semVars
<1>2. ASSUME NEW s \in Sems PROVE InLine(s)'
  BY DEF SemInv, InLine, semVars
<1> QED
  BY <1>1, <1>2 DEF SemInv

\* The clock depends on which processes sleep and on nothing else.
LEMMA ClockUntouched ==
  ASSUME ClockInv, UNCHANGED <<clockq, slnempty, sltop, due>>,
         \A p \in Procs : pstate'[p] \in {"PRSLEEP", "PRTRECV"}
                            <=> pstate[p] \in {"PRSLEEP", "PRTRECV"}
  PROVE  ClockInv'
BY DEF ClockInv, CountsHead

\* The calls need a process to get a message before it stops to wait for one,
\* and a wait to begin inside of wait().
LEMMA CallUntouched ==
  ASSUME CallInv, UNCHANGED <<kcall, kvictim, phasmsg, pnxtkin>>,
         \A p \in Procs :
           /\ pstate'[p] = "PRWAIT" => pstate[p] = "PRWAIT"
           /\ pstate[p] \in {"PRRECV", "PRFREE"} => pstate'[p] \in {"PRRECV", "PRFREE"}
  PROVE  CallInv'
BY DEF CallInv, CallType

-------------------------------------------------------------------------------
(***************************************************************************)
(* The semaphores.                                                         *)
(***************************************************************************)

\* The processes in line are user processes that wait.
LEMMA WaitersWait ==
  ASSUME SemInv, NEW s \in Sems, NEW p \in Range(semq[s])
  PROVE  p \in UserPids /\ p \in Procs /\ pstate[p] = "PRWAIT" /\ psem[p] = s
<1>1. semq[s] \in Seq(UserPids) /\ InLine(s)
  BY DEF SemInv, SemType
<1>2. p \in UserPids
  BY <1>1, LenProperties DEF Range
<1>3. p \in Procs
  BY <1>2, UserIsProc
<1> QED
  BY <1>1, <1>2, <1>3 DEF InLine

\* A line loses the processes of a set, and they stop waiting.
LEMMA LineShrinks ==
  ASSUME SemInv, NEW s \in Sems, NEW W \in SUBSET Range(semq[s]),
         NEW b \in Seq(UserPids), IsInjective(b), Range(b) = Range(semq[s]) \ W,
         semq' = [semq EXCEPT ![s] = b], psem' = psem,
         \A p \in W : pstate'[p] # "PRWAIT",
         \A p \in Procs \ W : pstate'[p] = "PRWAIT" <=> pstate[p] = "PRWAIT"
  PROVE  semq' \in [Sems -> Seq(UserPids)] /\ \A r \in Sems : InLine(r)'
<1>1. semq \in [Sems -> Seq(UserPids)] /\ \A r \in Sems : InLine(r)
  BY DEF SemInv, SemType
<1>2. ASSUME NEW p \in W PROVE p \in Procs /\ psem[p] = s
  BY WaitersWait
<1>3. ASSUME NEW r \in Sems PROVE InLine(r)'
  <2>1. CASE r = s
    BY <1>1, <1>2, <2>1 DEF InLine
  <2>2. CASE r # s
    BY <1>1, <1>2, <2>2 DEF InLine
  <2> QED
    BY <2>1, <2>2
<1> QED
  BY <1>1, <1>3

\* newsem() finds a free semaphore if there is one.
LEMMA NewSemFree ==
  ASSUME nextsem \in Sems, FreeSems # {}
  PROVE  NewSem \in FreeSems /\ NewSem \in Sems /\ SemAfter(NewSem) \in Sems
<1> DEFINE D == {(nextsem - s) % NSEM : s \in FreeSems}
<1>1. \A s \in FreeSems : (nextsem - s) % NSEM \in Nat
  BY NSEMAssumption DEF FreeSems, Sems
<1>2. \E d \in D : \A e \in D : d <= e
  BY <1>1, LeastNatural
<1>3. \E s \in FreeSems : \A r \in FreeSems : (nextsem - s) % NSEM <= (nextsem - r) % NSEM
  BY <1>2
<1>4. NewSem \in FreeSems
  BY <1>3 DEF NewSem
<1> QED
  BY <1>4, NSEMAssumption DEF SemAfter, FreeSems, Sems

\* screate() opens a semaphore nobody waits for.
LEMMA ScreateSem ==
  ASSUME SemInv, NEW count \in Nat, ScreateWith(count)
  PROVE  SemInv'
<1>1. NewSem \in FreeSems /\ NewSem \in Sems /\ SemAfter(NewSem) \in Sems
  BY NewSemFree DEF SemInv, SemType, ScreateWith
<1>2. PICK n \in Sems : n = NewSem
  BY <1>1
<1>3. /\ sstate' = [sstate EXCEPT ![n] = "SUSED"]
      /\ semcnt' = [semcnt EXCEPT ![n] = count]
      /\ nextsem' \in Sems /\ semq' = semq /\ psem' = psem /\ pwaitret' = pwaitret
      /\ pstate' = pstate /\ sstate[n] = "SFREE"
  BY <1>1, <1>2 DEF ScreateWith, procVars, FreeSems
<1>4. SemType'
  BY <1>3 DEF SemInv, SemType
<1>5. ASSUME NEW s \in Sems PROVE InLine(s)'
  BY <1>3 DEF SemInv, InLine
<1>6. -Min({0, count}) = 0
  BY Deficit
<1>7. CountIsWaiters'
  <2>1. ASSUME NEW s \in Sems
        PROVE  /\ sstate'[s] = "SUSED" => Len(semq'[s]) = -Min({0, semcnt'[s]})
               /\ sstate'[s] = "SFREE" => semq'[s] = <<>>
    <3>1. CASE s = n
      <4>1. semq'[s] = <<>> /\ semcnt'[s] = count /\ sstate'[s] = "SUSED"
        BY <1>3, <3>1 DEF SemInv, SemType, CountIsWaiters
      <4>2. Len(semq'[s]) = 0 /\ sstate'[s] # "SFREE"
        BY <4>1
      <4>3. -Min({0, semcnt'[s]}) = 0
        BY <1>6, <4>1, Zenon
      <4> QED
        BY <4>2, <4>3, Zenon
    <3>2. CASE s # n
      BY <1>3, <3>2 DEF SemInv, SemType, CountIsWaiters
    <3> QED
      BY <3>1, <3>2
  <2> QED
    BY <2>1 DEF CountIsWaiters
<1> QED
  BY <1>4, <1>5, <1>7 DEF SemInv

\* wait() takes a unit, or puts its caller at the end of the line.
LEMMA WaitSem ==
  ASSUME ServInv, NEW s \in Sems, WaitOn(s), currpid # NULLPROC \/ semcnt[s] > 0,
         UNCHANGED <<pprio, pinh, nextproc>>
  PROVE  SemInv' /\ TableInv'
         /\ \A p \in Procs : \/ Stays(p)
                             \/ p = currpid /\ pstate'[p] = "PRWAIT" /\ kcall'[p] = "wait"
<1>1. SemInv /\ SemType /\ TableInv /\ currpid \in Procs /\ kcall \in [Procs -> {"none", "wait", "receive", "recvtim", "kill"}]
  BY DEF ServInv, SemInv, TableInv, ProcTypeOK, CallInv, CallType
<1>2. semcnt[s] \in Int /\ sstate[s] = "SUSED" /\ (currpid # NULLPROC \/ semcnt[s] > 0)
  BY <1>1 DEF SemType, WaitOn
<1>3. Len(semq[s]) = IF 0 <= semcnt[s] THEN 0 ELSE -semcnt[s]
  <2>1. Min({0, semcnt[s]}) = IF 0 <= semcnt[s] THEN 0 ELSE semcnt[s]
    BY <1>2, MinMaxOfTwo
  <2>2. Len(semq[s]) = -Min({0, semcnt[s]})
    BY <1>1, <1>2 DEF SemInv, CountIsWaiters
  <2> QED
    BY <1>2, <2>1, <2>2
<1>4. semcnt' = [semcnt EXCEPT ![s] = semcnt[s] - 1] /\ sstate' = sstate /\ nextsem' = nextsem
  BY DEF WaitOn
<1>5. Min({0, semcnt[s] - 1}) = IF 0 <= semcnt[s] - 1 THEN 0 ELSE semcnt[s] - 1
  BY <1>2, MinMaxOfTwo
<1>6. CASE semcnt[s] > 0
  <2>1. UNCHANGED <<pstate, rdy, currpid, kcall, semq, psem, pwaitret>>
    BY <1>6 DEF WaitOn
  <2>2. TableInv'
    BY <1>1, <2>1 DEF TableInv, ProcTypeOK
  <2>3. SemType' /\ \A r \in Sems : InLine(r)'
    BY <1>1, <1>2, <1>4, <2>1 DEF SemInv, SemType, InLine
  <2>4. CountIsWaiters'
    <3>1. ASSUME NEW r \in Sems
          PROVE  /\ sstate'[r] = "SUSED" => Len(semq'[r]) = -Min({0, semcnt'[r]})
                 /\ sstate'[r] = "SFREE" => semq'[r] = <<>>
      <4>1. CASE r = s
        <5>1. semq'[r] = semq[s] /\ semcnt'[r] = semcnt[s] - 1 /\ sstate'[r] = "SUSED"
          BY <1>1, <1>2, <1>4, <2>1, <4>1 DEF SemType
        <5>2. Len(semq[s]) = 0 /\ -Min({0, semcnt[s] - 1}) = 0
          BY <1>2, <1>3, <1>5, <1>6
        <5> QED
          BY <5>1, <5>2
      <4>2. CASE r # s
        BY <1>1, <1>4, <2>1, <4>2 DEF SemInv, SemType, CountIsWaiters
      <4> QED
        BY <4>1, <4>2
    <3> QED
      BY <3>1 DEF CountIsWaiters
  <2> QED
    BY <2>1, <2>2, <2>3, <2>4 DEF SemInv, Stays
<1>7. CASE ~(semcnt[s] > 0)
  <2>1. /\ psem' = [psem EXCEPT ![currpid] = s]
        /\ semq' = [semq EXCEPT ![s] = Append(semq[s], currpid)]
        /\ pwaitret' = [pwaitret EXCEPT ![currpid] = "OK"]
        /\ kcall' = [kcall EXCEPT ![currpid] = "wait"]
        /\ Block("PRWAIT")
    BY <1>7 DEF WaitOn, Enqueued, Entering
  <2>2. /\ TableInv' /\ pstate'[currpid] = "PRWAIT"
        /\ \A p \in Procs \ {currpid} : Stays(p)
    <3>1. "PRWAIT" \in PStates \ {"PRCURR", "PRREADY"}
      BY DEF PStates
    <3> QED
      BY <1>1, <1>2, <1>7, <2>1, <3>1, BlockTable
  <2>3. PICK c \in UserPids : c = currpid
    BY <1>1, <1>2, <1>7 DEF UserPids
  <2>4. c \in Procs /\ pstate[c] = "PRCURR"
    BY <1>1, <2>3 DEF TableInv
  <2>5. c \notin Range(semq[s])
    BY <1>1, <2>4, WaitersWait
  <2>6. /\ Append(semq[s], c) \in Seq(UserPids) /\ IsInjective(Append(semq[s], c))
        /\ Range(Append(semq[s], c)) = Range(semq[s]) \cup {c}
        /\ Len(Append(semq[s], c)) = Len(semq[s]) + 1
    <3>1. semq[s] \in Seq(UserPids) /\ IsInjective(semq[s])
      BY <1>1 DEF SemInv, SemType, InLine
    <3> QED
      BY <2>5, <3>1, JoinInjective
  <2> DEFINE line == Append(semq[s], c)
  <2> HIDE DEF line
  <2>7. semq' = [semq EXCEPT ![s] = line] /\ line \in Seq(UserPids)
    BY <2>1, <2>3, <2>6 DEF line
  <2>8. SemType'
    BY <1>1, <1>2, <1>4, <2>1, <2>7 DEF SemType
  <2>9. ASSUME NEW r \in Sems PROVE InLine(r)'
    <3>1. /\ psem' = [psem EXCEPT ![c] = s] /\ pstate'[c] = "PRWAIT"
          /\ \A p \in Procs \ {c} : Stays(p)
      BY <2>1, <2>2, <2>3
    <3>2. InLine(r) /\ psem \in [Procs -> Sems] /\ semq \in [Sems -> Seq(UserPids)]
      BY <1>1 DEF SemInv, SemType
    <3>3. CASE r = s
      <4>1. semq'[r] = line /\ IsInjective(line) /\ Range(line) = Range(semq[s]) \cup {c}
        BY <2>6, <2>7, <3>2, <3>3 DEF line
      <4>2. ASSUME NEW p \in Procs
            PROVE  pstate'[p] = "PRWAIT" /\ psem'[p] = r <=> p \in Range(line)
        BY <2>4, <3>1, <3>2, <3>3, <4>1 DEF InLine, Stays
      <4> QED
        BY <4>1, <4>2 DEF InLine
    <3>4. CASE r # s
      <4>1. semq'[r] = semq[r]
        BY <2>7, <3>2, <3>4
      <4>2. c \notin Range(semq[r])
        BY <1>1, <2>4, WaitersWait
      <4>3. ASSUME NEW p \in Procs
            PROVE  pstate'[p] = "PRWAIT" /\ psem'[p] = r <=> p \in Range(semq[r])
        BY <2>4, <3>1, <3>2, <3>4, <4>2 DEF InLine, Stays
      <4> QED
        BY <3>2, <4>1, <4>3 DEF InLine
    <3> QED
      BY <3>3, <3>4
  <2>10. CountIsWaiters'
    <3>1. ASSUME NEW r \in Sems
          PROVE  /\ sstate'[r] = "SUSED" => Len(semq'[r]) = -Min({0, semcnt'[r]})
                 /\ sstate'[r] = "SFREE" => semq'[r] = <<>>
      <4>1. CASE r = s
        <5>1. semq'[r] = line /\ Len(line) = Len(semq[s]) + 1
          BY <1>1, <2>6, <2>7, <4>1 DEF SemType, line
        <5>2. semcnt'[r] = semcnt[s] - 1
          BY <1>1, <1>4, <4>1 DEF SemType
        <5>3. Len(line) = -Min({0, semcnt[s] - 1})
          BY <1>2, <1>3, <1>5, <1>7, <5>1
        <5>4. sstate'[r] = "SUSED"
          BY <1>2, <1>4, <4>1
        <5> QED
          BY <5>1, <5>2, <5>3, <5>4
      <4>2. CASE r # s
        BY <1>1, <1>4, <2>7, <4>2 DEF SemInv, SemType, CountIsWaiters
      <4> QED
        BY <4>1, <4>2
    <3> QED
      BY <3>1 DEF CountIsWaiters
  <2>11. \A p \in Procs : p = currpid => kcall'[p] = "wait"
    BY <1>1, <2>1
  <2> QED
    BY <2>2, <2>8, <2>9, <2>10, <2>11 DEF SemInv
<1> QED
  BY <1>6, <1>7

\* The processes a number of signals wakes are the first in line, as many as
\* there are, and the others stay in line.
LEMMA WokenLine ==
  ASSUME SemInv, NEW s \in Sems, sstate[s] = "SUSED", NEW n \in Nat
  PROVE  \E a, b \in Seq(UserPids) :
           /\ a = Woken(s, n) /\ b = SubSeq(semq[s], Len(Woken(s, n)) + 1, Len(semq[s]))
           /\ IsInjective(a) /\ IsInjective(b)
           /\ Range(a) \subseteq Range(semq[s]) /\ Range(b) = Range(semq[s]) \ Range(a)
           /\ Len(a) = IF n <= Len(semq[s]) THEN n ELSE Len(semq[s])
           /\ Len(b) = Len(semq[s]) - Len(a)
<1>1. semq[s] \in Seq(UserPids) /\ IsInjective(semq[s])
      /\ -Min({0, semcnt[s]}) = Len(semq[s])
  BY DEF SemInv, SemType, InLine, CountIsWaiters
<1>2. Len(semq[s]) \in Nat
  BY <1>1, LenProperties
<1>3. Min({n, Len(semq[s])}) = IF n <= Len(semq[s]) THEN n ELSE Len(semq[s])
  BY <1>2, MinMaxOfTwo
<1>4. Min({n, Len(semq[s])}) \in 0..Len(semq[s])
  <2> DEFINE m == Min({n, Len(semq[s])})
  <2>1. m = IF n <= Len(semq[s]) THEN n ELSE Len(semq[s])
    BY <1>3
  <2> HIDE DEF m
  <2>2. m \in 0..Len(semq[s])
    BY <1>2, <2>1
  <2> QED
    BY <2>2 DEF m
<1>5. PICK k \in 0..Len(semq[s]) : k = Min({n, Len(semq[s])})
  BY <1>4
<1>6. Woken(s, n) = SubSeq(semq[s], 1, k)
  BY <1>1, <1>5 DEF Woken
<1>7. PICK line \in Seq(UserPids) : line = semq[s]
  BY <1>1
<1>8. k \in 0..Len(line) /\ IsInjective(line)
  BY <1>1, <1>7
<1>9. /\ SubSeq(line, 1, k) \in Seq(UserPids)
      /\ SubSeq(line, k + 1, Len(line)) \in Seq(UserPids)
      /\ CutAt(SubSeq(line, 1, k), SubSeq(line, k + 1, Len(line)), line, k)
  BY <1>8, CutShape
<1>10. PICK a \in Seq(UserPids) : a = SubSeq(line, 1, k)
  BY <1>9
<1>11. PICK b \in Seq(UserPids) : b = SubSeq(line, k + 1, Len(line))
  BY <1>9
<1>12. CutAt(a, b, line, k)
  BY <1>9, <1>10, <1>11
<1>13. /\ IsInjective(a) /\ IsInjective(b)
       /\ Range(a) \cup Range(b) = Range(line) /\ Range(a) \cap Range(b) = {}
  BY <1>8, <1>12, CutInjective
<1>14. Len(a) = k /\ Len(b) = Len(line) - k
  BY <1>12 DEF CutAt
<1>15. k = IF n <= Len(line) THEN n ELSE Len(line)
  BY <1>3, <1>5, <1>7
<1>16. a = Woken(s, n) /\ b = SubSeq(semq[s], Len(Woken(s, n)) + 1, Len(semq[s]))
  BY <1>6, <1>7, <1>10, <1>11, <1>14
<1>17. Range(a) \subseteq Range(line) /\ Range(b) = Range(line) \ Range(a)
  BY <1>13
<1> QED
  BY <1>7, <1>13, <1>14, <1>15, <1>16, <1>17

\* Signals keep count and line together.
LEMMA SignalSem ==
  ASSUME SemInv, NEW s \in Sems, NEW n \in Nat, SignalTimes(s, n),
         \A p \in Range(Woken(s, n)) : pstate'[p] # "PRWAIT",
         \A p \in Procs \ Range(Woken(s, n)) :
           pstate'[p] = "PRWAIT" <=> pstate[p] = "PRWAIT"
  PROVE  SemInv'
<1>1. /\ sstate[s] = "SUSED" /\ sstate' = sstate /\ nextsem' = nextsem
      /\ psem' = psem /\ pwaitret' = pwaitret
      /\ semcnt' = [semcnt EXCEPT ![s] = semcnt[s] + n]
      /\ semq' = [semq EXCEPT ![s] =
                    SubSeq(semq[s], Len(Woken(s, n)) + 1, Len(semq[s]))]
  BY DEF SignalTimes
<1>2. PICK a, b \in Seq(UserPids) :
           /\ a = Woken(s, n) /\ b = SubSeq(semq[s], Len(Woken(s, n)) + 1, Len(semq[s]))
           /\ IsInjective(a) /\ IsInjective(b)
           /\ Range(a) \subseteq Range(semq[s]) /\ Range(b) = Range(semq[s]) \ Range(a)
           /\ Len(a) = IF n <= Len(semq[s]) THEN n ELSE Len(semq[s])
           /\ Len(b) = Len(semq[s]) - Len(a)
  BY <1>1, WokenLine
<1>3. semq' = [semq EXCEPT ![s] = b]
  BY <1>1, <1>2
<1>4. PICK W \in SUBSET Range(semq[s]) : W = Range(a)
  BY <1>2
<1>5. /\ Range(b) = Range(semq[s]) \ W
      /\ \A p \in W : pstate'[p] # "PRWAIT"
      /\ \A p \in Procs \ W : pstate'[p] = "PRWAIT" <=> pstate[p] = "PRWAIT"
  BY <1>2, <1>4
<1>6. semq' \in [Sems -> Seq(UserPids)] /\ \A r \in Sems : InLine(r)'
  BY <1>1, <1>2, <1>3, <1>5, LineShrinks
<1>7. SemType /\ CountIsWaiters
  BY DEF SemInv
<1>8. SemType'
  BY <1>1, <1>6, <1>7 DEF SemType
<1>9. ASSUME NEW r \in Sems
      PROVE  /\ sstate'[r] = "SUSED" => Len(semq'[r]) = -Min({0, semcnt'[r]})
             /\ sstate'[r] = "SFREE" => semq'[r] = <<>>
  <2>1. CASE r = s
    <3>1. semcnt[s] \in Int /\ Len(semq[s]) \in Nat
          /\ Len(semq[s]) = IF 0 <= semcnt[s] THEN 0 ELSE 0 - semcnt[s]
      <4>1. semcnt[s] \in Int /\ semq[s] \in Seq(UserPids)
            /\ Len(semq[s]) = -Min({0, semcnt[s]})
        BY <1>1, <1>7 DEF SemType, CountIsWaiters
      <4>2. -Min({0, semcnt[s]}) = IF 0 <= semcnt[s] THEN 0 ELSE 0 - semcnt[s]
        BY <4>1, Deficit
      <4> QED
        BY <4>1, <4>2, LenProperties
    <3>2. -Min({0, semcnt[s] + n}) =
            IF 0 <= semcnt[s] + n THEN 0 ELSE 0 - (semcnt[s] + n)
      BY <3>1, Deficit
    <3>3. Len(b) = IF 0 <= semcnt[s] + n THEN 0 ELSE 0 - (semcnt[s] + n)
      BY <1>2, <3>1
    <3>4. semq'[r] = b /\ semcnt'[r] = semcnt[s] + n /\ sstate'[r] = "SUSED"
      BY <1>1, <1>3, <1>7, <2>1 DEF SemType
    <3>5. Len(b) = -Min({0, semcnt[s] + n})
      BY <3>2, <3>3, Zenon
    <3> QED
      BY <3>4, <3>5
  <2>2. CASE r # s
    BY <1>1, <1>3, <1>7, <2>2 DEF SemType, CountIsWaiters
  <2> QED
    BY <2>1, <2>2
<1> QED
  BY <1>6, <1>8, <1>9 DEF SemInv, CountIsWaiters

\* A semaphore whose line is emptied, by sreset() or sdelete().
LEMMA EmptiedSem ==
  ASSUME SemInv, NEW s \in Sems, semq' = [semq EXCEPT ![s] = <<>>],
         \/ sstate' = sstate /\ semcnt'[s] \in Nat
         \/ sstate' = [sstate EXCEPT ![s] = "SFREE"] /\ semcnt'[s] \in Int,
         semcnt' = [semcnt EXCEPT ![s] = semcnt'[s]], psem' = psem, nextsem' = nextsem,
         pwaitret' \in [Procs -> {"OK", "DELETED"}],
         \A p \in Range(semq[s]) : pstate'[p] # "PRWAIT",
         \A p \in Procs \ Range(semq[s]) :
           pstate'[p] = "PRWAIT" <=> pstate[p] = "PRWAIT"
  PROVE  SemInv'
<1>1. SemType /\ CountIsWaiters
  BY DEF SemInv
<1>2. PICK b \in Seq(UserPids) : b = <<>>
  <2>1. <<>> \in Seq(UserPids)
    OBVIOUS
  <2> QED
    BY <2>1, Zenon
<1>3. PICK W \in SUBSET Range(semq[s]) : W = Range(semq[s])
  OBVIOUS
<1>4. IsInjective(b) /\ Range(b) = Range(semq[s]) \ W
  BY <1>2, <1>3 DEF IsInjective, Range
<1>5. semq' \in [Sems -> Seq(UserPids)] /\ \A r \in Sems : InLine(r)'
  <2>1. /\ semq' = [semq EXCEPT ![s] = b] /\ psem' = psem
        /\ \A q \in W : pstate'[q] # "PRWAIT"
        /\ \A q \in Procs \ W : pstate'[q] = "PRWAIT" <=> pstate[q] = "PRWAIT"
    BY <1>2, <1>3
  <2> QED
    BY <1>4, <2>1, LineShrinks
<1>6. SemType'
  <2>1. semcnt'[s] \in Int
    OBVIOUS
  <2>2. semcnt' \in [Sems -> Int]
    <3>1. PICK c \in Int : c = semcnt'[s]
      BY <2>1
    <3>2. semcnt' = [semcnt EXCEPT ![s] = c]
      BY <3>1
    <3> QED
      BY <1>1, <3>2 DEF SemType
  <2>3. sstate' \in [Sems -> {"SFREE", "SUSED"}]
    BY <1>1 DEF SemType
  <2> QED
    BY <1>1, <1>5, <2>2, <2>3 DEF SemType
<1>7. ASSUME NEW r \in Sems
      PROVE  /\ sstate'[r] = "SUSED" => Len(semq'[r]) = -Min({0, semcnt'[r]})
             /\ sstate'[r] = "SFREE" => semq'[r] = <<>>
  <2>1. CASE r = s
    <3>1. semq'[r] = <<>>
      BY <1>1, <2>1 DEF SemType
    <3>2. Len(semq'[r]) = 0
      BY <3>1
    <3>3. semcnt'[r] \in Nat => -Min({0, semcnt'[r]}) = 0
      <4>1. ASSUME semcnt'[r] \in Nat PROVE -Min({0, semcnt'[r]}) = 0
        <5>1. -Min({0, semcnt'[r]}) = IF 0 <= semcnt'[r] THEN 0 ELSE 0 - semcnt'[r]
          BY <4>1, Deficit
        <5> QED
          BY <4>1, <5>1
      <4> QED
        BY <4>1
    <3>4. CASE semcnt'[r] \in Nat
      <4>1. Len(semq'[r]) = -Min({0, semcnt'[r]})
        BY <3>2, <3>3, <3>4, Zenon
      <4> QED
        BY <3>1, <4>1, Zenon
    <3>5. CASE semcnt'[r] \notin Nat
      <4>1. sstate'[r] = "SFREE"
        BY <1>1, <2>1, <3>5 DEF SemType
      <4>2. sstate'[r] # "SUSED"
        BY <4>1
      <4> QED
        BY <3>1, <4>2, Zenon
    <3> QED
      BY <3>4, <3>5
  <2>2. CASE r # s
    <3>1. sstate'[r] = sstate[r] /\ semq'[r] = semq[r] /\ semcnt'[r] = semcnt[r]
      BY <1>1, <2>2 DEF SemType
    <3> QED
      BY <1>1, <3>1 DEF CountIsWaiters
  <2> QED
    BY <2>1, <2>2
<1> QED
  BY <1>5, <1>6, <1>7 DEF SemInv, CountIsWaiters

\* kill() of a process that waits gives its place in line back.
LEMMA BuryWaiterSem ==
  ASSUME SemInv, NEW p \in UserPids, pstate \in [Procs -> PStates],
         pstate[p] = "PRWAIT", BuryWaiter(p), UNCHANGED <<sstate, nextsem, psem, pwaitret>>
  PROVE  SemInv'
<1>1. SemType /\ CountIsWaiters /\ p \in Procs
  BY UserIsProc DEF SemInv
<1>2. PICK s \in Sems : s = psem[p]
  BY <1>1 DEF SemType
<1>3. p \in Range(semq[s]) /\ semq[s] \in Seq(UserPids) /\ IsInjective(semq[s])
  BY <1>1, <1>2 DEF SemInv, SemType, InLine
<1>4. /\ semq' = [semq EXCEPT ![s] = RemoveFirst(semq[s], p)]
      /\ semcnt' = [semcnt EXCEPT ![s] = semcnt[s] + 1]
      /\ pstate' = [pstate EXCEPT ![p] = "PRFREE"]
  BY <1>2 DEF BuryWaiter
<1>5. /\ RemoveFirst(semq[s], p) \in Seq(UserPids)
      /\ IsInjective(RemoveFirst(semq[s], p))
      /\ Range(RemoveFirst(semq[s], p)) = Range(semq[s]) \ {p}
      /\ Len(RemoveFirst(semq[s], p)) = Len(semq[s]) - 1
  BY <1>3, RemoveFirstInjective
<1>6. PICK b \in Seq(UserPids) : b = RemoveFirst(semq[s], p)
  BY <1>5
<1>7. PICK W \in SUBSET Range(semq[s]) : W = {p}
  BY <1>3
<1>8. semq' \in [Sems -> Seq(UserPids)] /\ \A r \in Sems : InLine(r)'
  <2>1. /\ IsInjective(b) /\ Range(b) = Range(semq[s]) \ W
        /\ semq' = [semq EXCEPT ![s] = b] /\ psem' = psem
        /\ \A q \in W : pstate'[q] # "PRWAIT"
        /\ \A q \in Procs \ W : pstate'[q] = "PRWAIT" <=> pstate[q] = "PRWAIT"
    BY <1>1, <1>4, <1>5, <1>6, <1>7
  <2> QED
    BY <2>1, LineShrinks
<1>9. SemType'
  BY <1>1, <1>4, <1>8 DEF SemType
<1>10. ASSUME NEW r \in Sems
       PROVE  /\ sstate'[r] = "SUSED" => Len(semq'[r]) = -Min({0, semcnt'[r]})
              /\ sstate'[r] = "SFREE" => semq'[r] = <<>>
  <2>1. CASE r = s
    <3>1. semcnt[s] \in Int /\ sstate[s] = "SUSED" /\ Len(semq[s]) \in Nat
          /\ Len(semq[s]) = IF 0 <= semcnt[s] THEN 0 ELSE 0 - semcnt[s]
      <4>1. semcnt[s] \in Int /\ sstate[s] \in {"SFREE", "SUSED"}
        BY <1>1 DEF SemType
      <4>2. sstate[s] = "SUSED"
        <5>1. semq[s] # <<>>
          BY <1>3, EmptySeq DEF Range
        <5> QED
          BY <1>1, <4>1, <5>1 DEF CountIsWaiters
      <4>3. Len(semq[s]) = -Min({0, semcnt[s]})
        BY <1>1, <4>2 DEF CountIsWaiters
      <4>4. -Min({0, semcnt[s]}) = IF 0 <= semcnt[s] THEN 0 ELSE 0 - semcnt[s]
        BY <4>1, Deficit
      <4> QED
        BY <1>3, <4>1, <4>2, <4>3, <4>4, LenProperties
    <3>2. -Min({0, semcnt[s] + 1}) =
            IF 0 <= semcnt[s] + 1 THEN 0 ELSE 0 - (semcnt[s] + 1)
      BY <3>1, Deficit
    <3>3. Len(semq[s]) # 0
      BY <1>3, LenProperties DEF Range
    <3>4. Len(b) = IF 0 <= semcnt[s] + 1 THEN 0 ELSE 0 - (semcnt[s] + 1)
      BY <1>5, <1>6, <3>1, <3>3
    <3>5. semq'[r] = b /\ semcnt'[r] = semcnt[s] + 1 /\ sstate'[r] = "SUSED"
      BY <1>1, <1>4, <1>6, <2>1, <3>1 DEF SemType
    <3>6. Len(b) = -Min({0, semcnt[s] + 1})
      BY <3>2, <3>4, Zenon
    <3> QED
      BY <3>5, <3>6
  <2>2. CASE r # s
    BY <1>1, <1>4, <2>2 DEF SemType, CountIsWaiters
  <2> QED
    BY <2>1, <2>2
<1> QED
  BY <1>8, <1>9, <1>10 DEF SemInv, CountIsWaiters

-------------------------------------------------------------------------------
(***************************************************************************)
(* The delta list.                                                         *)
(***************************************************************************)

\* The ticks until a delay ends are the sum of the keys up to its entry.
LEMMA TicksSteps ==
  ASSUME NEW list \in Seq(ClockEntries)
  PROVE  /\ TicksUntil(list, 0) = 0
         /\ \A n \in 0..Len(list) : TicksUntil(list, n) \in Int
         /\ \A n \in 1..Len(list) :
              TicksUntil(list, n) = TicksUntil(list, n - 1) + list[n].key
<1> DEFINE N == Len(list)
           step == [n \in 1..N |-> [x \in Int |-> x + list[n].key]]
<1>1. N \in Nat /\ \A n \in 1..N : list[n].key \in Int
  <2>1. N \in Nat /\ \A n \in 1..N : list[n] \in ClockEntries
    BY LenProperties
  <2> QED
    BY <2>1 DEF ClockEntries
<1>2. step \in [1..N -> [Int -> Int]]
  BY <1>1
<1> HIDE DEF step, N
<1>3. \E f : Iterates(f, N, Int, 0, step)
  <2>1. 0 \in Int
    OBVIOUS
  <2> QED
    BY <1>1, <1>2, <2>1, RecursionExists
<1>4. PICK f \in [0..N -> Int] : f[0] = 0 /\ \A n \in 1..N : f[n] = step[n][f[n - 1]]
  BY <1>3 DEF Iterates
<1>5. ASSUME NEW n \in 1..N PROVE f[n] = f[n - 1] + list[n].key
  <2>1. f[n - 1] \in Int
    BY <1>1, <1>4
  <2> QED
    BY <1>4, <2>1 DEF step
<1>6. f = [n \in 0..N |-> IF n = 0 THEN 0 ELSE f[n - 1] + list[n].key]
  BY <1>1, <1>4, <1>5
<1> DEFINE g == CHOOSE h : h = [n \in 0..N |-> IF n = 0 THEN 0 ELSE h[n - 1] + list[n].key]
<1>7. g = [n \in 0..N |-> IF n = 0 THEN 0 ELSE g[n - 1] + list[n].key]
  BY <1>6
<1>8. \A n \in 0..N : TicksUntil(list, n) = g[n]
  <2>1. ASSUME NEW n \in 0..N PROVE TicksUntil(list, n) = g[n]
    BY Zenon DEF TicksUntil, N
  <2> QED
    BY <2>1
<1> HIDE DEF g
<1>9. \A n \in 0..N : g[n] = f[n]
  <2> DEFINE T == {n \in 0..N : g[n] = f[n]}
  <2>1. 0 \in T
    BY <1>1, <1>4, <1>7
  <2>2. ASSUME NEW n \in 1..N, n - 1 \in T PROVE n \in T
    <3>0. n \in 0..N /\ n # 0
      BY <1>1
    <3>1. g[n] = g[n - 1] + list[n].key
      BY <1>7, <3>0, Zenon
    <3> QED
      BY <1>1, <1>5, <2>2, <3>1
  <2> HIDE DEF T
  <2>3. \A n \in 0..N : n \in T
    BY <1>1, <2>1, <2>2, UpTo
  <2> QED
    BY <2>3 DEF T
<1>10. \A n \in 0..N : TicksUntil(list, n) = f[n]
  BY <1>8, <1>9
<1>11. TicksUntil(list, 0) = 0
  BY <1>1, <1>4, <1>10
<1>12. \A n \in 0..N : TicksUntil(list, n) \in Int
  <2>1. \A n \in 0..N : f[n] \in Int
    BY <1>4
  <2> QED
    BY <1>10, <2>1
<1>13. ASSUME NEW n \in 1..N
       PROVE  TicksUntil(list, n) = TicksUntil(list, n - 1) + list[n].key
  <2>1. n \in 0..N /\ n - 1 \in 0..N
    BY <1>1
  <2> QED
    BY <1>5, <1>10, <2>1
<1> QED
  BY <1>11, <1>12, <1>13 DEF N

\* They are what any function is that starts at 0 and adds the keys up.
LEMMA TicksAre ==
  ASSUME NEW list \in Seq(ClockEntries), NEW f, f[0] = 0,
         \A n \in 1..Len(list) : f[n] = f[n - 1] + list[n].key
  PROVE  \A n \in 0..Len(list) : TicksUntil(list, n) = f[n]
<1> DEFINE N == Len(list)
           T == {n \in 0..N : TicksUntil(list, n) = f[n]}
<1>1. N \in Nat
  BY LenProperties
<1>2. 0 \in T
  BY <1>1, TicksSteps
<1>3. ASSUME NEW n \in 1..N, n - 1 \in T PROVE n \in T
  <2>1. TicksUntil(list, n) = TicksUntil(list, n - 1) + list[n].key
    BY TicksSteps
  <2> QED
    BY <1>1, <1>3, <2>1
<1> HIDE DEF T
<1>4. \A n \in 0..N : n \in T
  BY <1>1, <1>2, <1>3, UpTo
<1> QED
  BY <1>4 DEF T

\* insertd() stops in front of the first delay that does not end before the new
\* one, and takes the new delay off the key of the entry it stops at.
Shortened(mid, list, i, ticks) ==
  /\ Len(mid) = Len(list)
  /\ \A j \in 1..Len(list) :
       mid[j] = IF j = i THEN [list[j] EXCEPT !.key = @ - ticks] ELSE list[j]

DelayEntry(list, i, p, ticks) == [pid |-> p, key |-> ticks - TicksUntil(list, i - 1)]

\* insertd() puts the new entry where the search ends and shortens the next.
LEMMA InsertDeltaShape ==
  ASSUME NEW list \in Seq(ClockEntries), NEW p \in Procs, NEW ticks \in Nat
  PROVE  \E i \in 1..Len(list) + 1, mid \in Seq(ClockEntries) :
           /\ \A j \in 1..i - 1 : TicksUntil(list, j) < ticks
           /\ i <= Len(list) => ticks <= TicksUntil(list, i)
           /\ Shortened(mid, list, i, ticks - TicksUntil(list, i - 1))
           /\ DelayEntry(list, i, p, ticks) \in ClockEntries
           /\ InsertDelta(list, p, ticks) = InsertAt(mid, i, DelayEntry(list, i, p, ticks))
<1> DEFINE n == Len(list)
           S == {i \in 1..n + 1 : i <= n => ticks <= TicksUntil(list, i)}
           i == DeltaPos(list, ticks)
           key == ticks - TicksUntil(list, i - 1)
           mid == IF i > n THEN list ELSE [list EXCEPT ![i].key = @ - key]
<1>1. n \in Nat /\ list \in [1..n -> ClockEntries] /\ DOMAIN list = 1..n
  BY LenProperties
<1>2. \A j \in 0..n : TicksUntil(list, j) \in Int
  BY TicksSteps
<1>3. S \in SUBSET Nat /\ n + 1 \in S
  BY <1>1
<1>4. i \in S /\ \A j \in S : i <= j
  <2> HIDE DEF S
  <2>1. Min(S) \in S /\ \A j \in S : Min(S) <= j
    BY <1>3, MinOfNaturals
  <2> QED
    BY <2>1 DEF DeltaPos, S
<1> HIDE DEF i
<1>5. i \in 1..n + 1 /\ (i <= n => ticks <= TicksUntil(list, i))
  BY <1>4
<1>6. ASSUME NEW j \in 1..i - 1 PROVE TicksUntil(list, j) < ticks
  <2>1. j \in 1..n + 1 /\ j \notin S /\ j \in 0..n
    BY <1>1, <1>4, <1>5
  <2> QED
    BY <1>2, <2>1
<1>7. TicksUntil(list, i - 1) \in Int
  BY <1>1, <1>2, <1>5
<1>8. key \in Int
  BY <1>7
<1> HIDE DEF key, n
<1>9. mid \in Seq(ClockEntries) /\ Shortened(mid, list, i, key)
  <2>1. CASE i > n
    <3>1. \A j \in 1..n : j # i
      BY <1>1, <1>5, <2>1
    <3> QED
      BY <2>1, <3>1 DEF Shortened, n
  <2>2. CASE ~(i > n)
    <3>1. i \in 1..n /\ mid = [list EXCEPT ![i].key = @ - key]
      BY <1>1, <1>5, <2>2
    <3>2. [list[i] EXCEPT !.key = @ - key] \in ClockEntries
      <4>1. list[i] \in ClockEntries
        BY <1>1, <3>1
      <4> QED
        BY <1>8, <4>1 DEF ClockEntries
    <3>3. mid \in [1..n -> ClockEntries]
      BY <1>1, <3>1, <3>2
    <3>4. mid \in Seq(ClockEntries) /\ Len(mid) = n
      BY <1>1, <3>3, SeqDef, LenProperties
    <3>5. \A j \in 1..n : mid[j] = IF j = i THEN [list[j] EXCEPT !.key = @ - key] ELSE list[j]
      BY <1>1, <3>1
    <3> QED
      BY <3>4, <3>5 DEF Shortened, n
  <2> QED
    BY <2>1, <2>2
<1>10. DelayEntry(list, i, p, ticks) \in ClockEntries
       /\ DelayEntry(list, i, p, ticks) = [pid |-> p, key |-> key]
  BY <1>8 DEF DelayEntry, ClockEntries, key
<1>11. InsertDelta(list, p, ticks) = InsertAt(mid, i, [pid |-> p, key |-> key])
  BY DEF InsertDelta, n, i, key
<1>12. i \in 1..Len(list) + 1 /\ (i <= Len(list) => ticks <= TicksUntil(list, i))
  BY <1>5 DEF n
<1> HIDE DEF mid
<1>13. Shortened(mid, list, i, ticks - TicksUntil(list, i - 1))
  BY <1>9 DEF key
<1>14. InsertDelta(list, p, ticks) = InsertAt(mid, i, DelayEntry(list, i, p, ticks))
  BY <1>10, <1>11
<1> QED
  BY <1>6, <1>9, <1>10, <1>12, <1>13, <1>14

\* insertd() links the process and keeps the others.
LEMMA InsertDeltaPids ==
  ASSUME NEW list \in Seq(ClockEntries), NEW p \in Procs, NEW ticks \in Nat,
         Distinct(list), p \notin Pids(list)
  PROVE  /\ InsertDelta(list, p, ticks) \in Seq(ClockEntries)
         /\ InsertDelta(list, p, ticks) # <<>>
         /\ Pids(InsertDelta(list, p, ticks)) = Pids(list) \cup {p}
         /\ Distinct(InsertDelta(list, p, ticks))
<1>1. PICK i \in 1..Len(list) + 1, mid \in Seq(ClockEntries) :
           /\ Shortened(mid, list, i, ticks - TicksUntil(list, i - 1))
           /\ DelayEntry(list, i, p, ticks) \in ClockEntries
           /\ InsertDelta(list, p, ticks) = InsertAt(mid, i, DelayEntry(list, i, p, ticks))
  BY InsertDeltaShape
<1>2. PICK e \in ClockEntries : e = DelayEntry(list, i, p, ticks)
  BY <1>1
<1>3. e.pid = p
  BY <1>2 DEF DelayEntry
<1>4. /\ Len(mid) = Len(list) /\ DOMAIN mid = DOMAIN list
      /\ \A j \in DOMAIN list : mid[j].pid = list[j].pid
  <2>1. Len(mid) = Len(list) /\ DOMAIN mid = 1..Len(list) /\ DOMAIN list = 1..Len(list)
    BY <1>1, LenProperties DEF Shortened
  <2>2. \A j \in 1..Len(list) : list[j] \in ClockEntries
    BY LenProperties
  <2>3. ASSUME NEW j \in 1..Len(list) PROVE mid[j].pid = list[j].pid
    BY <1>1, <2>2 DEF Shortened, ClockEntries
  <2> QED
    BY <2>1, <2>3
<1>5. Pids(mid) = Pids(list) /\ Distinct(mid)
  BY <1>4 DEF Pids, Distinct
<1>6. i \in 1..Len(mid) + 1
  BY <1>4
<1>7. InsertAt(mid, i, e) \in Seq(ClockEntries) /\ OpenedAt(InsertAt(mid, i, e), mid, i, e)
  BY <1>6, InsertAtShape
<1>8. ToSet(InsertAt(mid, i, e)) = ToSet(mid) \cup {e}
  BY <1>6, InsertAtElements
<1>9. Distinct(InsertAt(mid, i, e))
  BY <1>3, <1>5, <1>6, InsertAtDistinct
<1>10. Pids(InsertAt(mid, i, e)) = Pids(mid) \cup {p}
  BY <1>3, <1>8, PidsOfEntries
<1>11. InsertAt(mid, i, e) # <<>>
  BY <1>7, <1>4, LenProperties, EmptySeq DEF OpenedAt
<1> QED
  BY <1>1, <1>2, <1>5, <1>7, <1>9, <1>10, <1>11

\* unsleep() gives the key of the process to the entry behind it and unlinks it.
Lengthened(mid, list, i) ==
  /\ Len(mid) = Len(list)
  /\ \A j \in 1..Len(list) :
       mid[j] = IF j = i + 1 THEN [list[j] EXCEPT !.key = @ + list[i].key] ELSE list[j]

\* What is left when unsleep() has unlinked the entry of a process.
LEMMA RemoveDeltaShape ==
  ASSUME NEW list \in Seq(ClockEntries), NEW p \in Pids(list), Distinct(list)
  PROVE  \E i \in 1..Len(list), mid \in Seq(ClockEntries) :
           /\ list[i].pid = p /\ Lengthened(mid, list, i)
           /\ RemoveDelta(list, p) = RemoveAt(mid, i)
           /\ RemoveDelta(list, p) = Dequeue(mid, p)
           /\ Pids(mid) = Pids(list) /\ Distinct(mid)
<1> DEFINE n == Len(list)
           i == CHOOSE i \in DOMAIN list : list[i].pid = p
           mid == IF i = n THEN list ELSE [list EXCEPT ![i + 1].key = @ + list[i].key]
<1>1. n \in Nat /\ list \in [1..n -> ClockEntries] /\ DOMAIN list = 1..n
  BY LenProperties
<1>2. i \in 1..n /\ list[i].pid = p
  BY <1>1 DEF Pids
<1>3. RemoveDelta(list, p) = RemoveAt(mid, i)
  BY DEF RemoveDelta
<1> HIDE DEF n, i
<1>4. mid \in Seq(ClockEntries) /\ Len(mid) = n
      /\ \A j \in 1..n : mid[j] = IF j = i + 1 THEN [list[j] EXCEPT !.key = @ + list[i].key]
                                  ELSE list[j]
  <2>1. CASE i = n
    <3>1. \A j \in 1..n : j # i + 1
      BY <1>1, <2>1
    <3> QED
      BY <2>1, <3>1 DEF n
  <2>2. CASE i # n
    <3>1. i + 1 \in 1..n /\ mid = [list EXCEPT ![i + 1].key = @ + list[i].key]
      BY <1>1, <1>2, <2>2
    <3>2. [list[i + 1] EXCEPT !.key = @ + list[i].key] \in ClockEntries
      <4>1. PICK x \in ClockEntries : x = list[i + 1]
        BY <1>1, <3>1
      <4>2. PICK y \in ClockEntries : y = list[i]
        BY <1>1, <1>2
      <4>3. [x EXCEPT !.key = @ + y.key] \in ClockEntries
        BY DEF ClockEntries
      <4> QED
        BY <4>1, <4>2, <4>3
    <3>3. mid \in [1..n -> ClockEntries]
      BY <1>1, <3>1, <3>2
    <3>4. mid \in Seq(ClockEntries) /\ Len(mid) = n
      BY <1>1, <3>3, SeqDef, LenProperties
    <3>5. \A j \in 1..n : mid[j] = IF j = i + 1 THEN [list[j] EXCEPT !.key = @ + list[i].key]
                                   ELSE list[j]
      BY <1>1, <3>1
    <3> QED
      BY <3>4, <3>5
  <2> QED
    BY <2>1, <2>2
<1> HIDE DEF mid
<1>5. DOMAIN mid = 1..n /\ \A j \in 1..n : mid[j].pid = list[j].pid
  <2>1. \A j \in 1..n : list[j] \in ClockEntries
    BY <1>1
  <2>2. DOMAIN mid = 1..n
    BY <1>4, LenProperties
  <2>3. ASSUME NEW j \in 1..n PROVE mid[j].pid = list[j].pid
    BY <1>4, <2>1 DEF ClockEntries
  <2> QED
    BY <2>2, <2>3
<1>6. Pids(mid) = Pids(list) /\ Distinct(mid)
  BY <1>1, <1>5 DEF Pids, Distinct
<1>7. (CHOOSE j \in DOMAIN mid : mid[j].pid = p) = i
  BY <1>1, <1>2, <1>5 DEF Distinct
<1>8. RemoveDelta(list, p) = Dequeue(mid, p)
  BY <1>3, <1>6, <1>7 DEF Dequeue
<1>9. Lengthened(mid, list, i)
  BY <1>4 DEF Lengthened, n
<1>10. i \in 1..Len(list)
  BY <1>2 DEF n
<1> QED
  BY <1>2, <1>3, <1>4, <1>6, <1>8, <1>9, <1>10

\* unsleep() unlinks the process and no other.
LEMMA RemoveDeltaPids ==
  ASSUME NEW list \in Seq(ClockEntries), NEW p \in Pids(list), Distinct(list)
  PROVE  /\ RemoveDelta(list, p) \in Seq(ClockEntries)
         /\ Pids(RemoveDelta(list, p)) = Pids(list) \ {p}
         /\ Distinct(RemoveDelta(list, p))
<1>1. PICK mid \in Seq(ClockEntries) :
           /\ RemoveDelta(list, p) = Dequeue(mid, p)
           /\ Pids(mid) = Pids(list) /\ Distinct(mid)
  BY RemoveDeltaShape
<1>2. Dequeue(mid, p) \in Seq(ClockEntries)
  BY DequeueProperties
<1>3. Distinct(Dequeue(mid, p)) /\ Pids(Dequeue(mid, p)) = Pids(mid) \ {p}
  BY <1>1, DequeueDistinct
<1> QED
  BY <1>1, <1>2, <1>3

\* The processes of a list, in its order.
PidSeq(list) == [i \in DOMAIN list |-> list[i].pid]

\* It has them all, each once if the list has.
LEMMA PidSeqProperties ==
  ASSUME NEW list \in Seq(ClockEntries)
  PROVE  /\ PidSeq(list) \in Seq(Procs) /\ Len(PidSeq(list)) = Len(list)
         /\ Range(PidSeq(list)) = Pids(list)
         /\ Distinct(list) <=> IsInjective(PidSeq(list))
<1> DEFINE s == PidSeq(list)
           n == Len(list)
<1>1. n \in Nat /\ list \in [1..n -> ClockEntries] /\ DOMAIN list = 1..n
  BY LenProperties
<1>2. \A i \in 1..n : list[i].pid \in Procs
  <2>1. \A i \in 1..n : list[i] \in ClockEntries
    BY <1>1
  <2> QED
    BY <2>1 DEF ClockEntries
<1>3. s = [i \in 1..n |-> list[i].pid]
  BY <1>1 DEF PidSeq
<1> HIDE DEF n, s
<1>4. s \in Seq(Procs) /\ Len(s) = n /\ DOMAIN s = 1..n
  BY <1>1, <1>2, <1>3, SeqDef, LenProperties
<1>5. \A i \in 1..n : s[i] = list[i].pid
  BY <1>3
<1>6. Range(s) = Pids(list)
  BY <1>1, <1>4, <1>5 DEF Range, Pids
<1>7. Distinct(list) <=> IsInjective(s)
  BY <1>1, <1>4, <1>5 DEF IsInjective, Distinct
<1> QED
  BY <1>4, <1>6, <1>7 DEF s, n

\* A list that is cut in two splits its processes.
LEMMA CutPids ==
  ASSUME NEW list \in Seq(ClockEntries), NEW a \in Seq(ClockEntries),
         NEW b \in Seq(ClockEntries), NEW k \in 0..Len(list), CutAt(a, b, list, k),
         Distinct(list)
  PROVE  /\ Distinct(a) /\ Distinct(b)
         /\ Pids(a) \cup Pids(b) = Pids(list) /\ Pids(a) \cap Pids(b) = {}
<1>1. PICK sl \in Seq(Procs) : sl = PidSeq(list)
  BY PidSeqProperties
<1>2. PICK sa \in Seq(Procs) : sa = PidSeq(a)
  BY PidSeqProperties
<1>3. PICK sb \in Seq(Procs) : sb = PidSeq(b)
  BY PidSeqProperties
<1>4. /\ Len(sl) = Len(list) /\ Range(sl) = Pids(list) /\ IsInjective(sl)
      /\ Len(sa) = Len(a) /\ Range(sa) = Pids(a) /\ (Distinct(a) <=> IsInjective(sa))
      /\ Len(sb) = Len(b) /\ Range(sb) = Pids(b) /\ (Distinct(b) <=> IsInjective(sb))
  BY <1>1, <1>2, <1>3, PidSeqProperties
<1>5. /\ DOMAIN list = 1..Len(list) /\ Len(list) \in Nat
      /\ DOMAIN a = 1..k /\ DOMAIN b = 1..Len(list) - k
  BY LenProperties DEF CutAt
<1>6. /\ \A i \in 1..k : i \in 1..Len(list) /\ a[i] = list[i]
      /\ \A i \in 1..Len(list) - k : k + i \in 1..Len(list) /\ b[i] = list[k + i]
  BY <1>5 DEF CutAt
<1>7. /\ \A i \in 1..Len(list) : sl[i] = list[i].pid
      /\ \A i \in 1..k : sa[i] = a[i].pid
      /\ \A i \in 1..Len(list) - k : sb[i] = b[i].pid
  BY <1>1, <1>2, <1>3, <1>5 DEF PidSeq
<1>8. CutAt(sa, sb, sl, k)
  <2>1. \A i \in 1..k : sa[i] = sl[i]
    BY <1>6, <1>7
  <2>2. \A i \in 1..Len(list) - k : sb[i] = sl[k + i]
    BY <1>6, <1>7
  <2>3. Len(sa) = k /\ Len(sb) = Len(sl) - k
    BY <1>4 DEF CutAt
  <2> QED
    BY <1>4, <2>1, <2>2, <2>3 DEF CutAt
<1>9. k \in 0..Len(sl)
  BY <1>4
<1>10. /\ IsInjective(sa) /\ IsInjective(sb)
       /\ Range(sa) \cup Range(sb) = Range(sl) /\ Range(sa) \cap Range(sb) = {}
  BY <1>4, <1>8, <1>9, CutInjective
<1> QED
  BY <1>4, <1>10

\* wakeup() unlinks every entry at the head whose delay has run out.
LEMMA DuePrefixShape ==
  ASSUME NEW list \in Seq(ClockEntries)
  PROVE  \E k \in 0..Len(list) :
           /\ DuePrefix(list) = SubSeq(list, 1, k)
           /\ \A j \in 1..k : list[j].key <= 0
           /\ k < Len(list) => list[k + 1].key > 0
<1> DEFINE n == Len(list)
           S == {0} \cup {i \in DOMAIN list : \A j \in 1..i : list[j].key <= 0}
           k == Max(S)
<1>1. n \in Nat /\ DOMAIN list = 1..n /\ \A j \in 1..n : list[j].key \in Int
  <2>1. n \in Nat /\ DOMAIN list = 1..n /\ \A j \in 1..n : list[j] \in ClockEntries
    BY LenProperties
  <2> QED
    BY <2>1 DEF ClockEntries
<1>2. S \in SUBSET Int /\ S # {} /\ (\A y \in S : y <= n) /\ n \in Int
  BY <1>1
<1>3. k \in S /\ \A y \in S : y <= k
  <2> HIDE DEF S, n
  <2> QED
    BY <1>2, MaxOfBounded
<1>4. DuePrefix(list) = SubSeq(list, 1, k)
  BY DEF DuePrefix
<1> HIDE DEF k
<1>5. k \in 0..n /\ \A j \in 1..k : list[j].key <= 0
  BY <1>1, <1>3
<1>6. ASSUME k < n PROVE list[k + 1].key > 0
  <2>1. k + 1 \in 1..n /\ k + 1 \notin S
    BY <1>1, <1>3, <1>5, <1>6
  <2>2. PICK j \in 1..k + 1 : ~(list[j].key <= 0)
    BY <1>1, <2>1
  <2>3. j = k + 1
    BY <1>5, <2>2
  <2> QED
    BY <1>1, <2>1, <2>2, <2>3
<1> QED
  BY <1>4, <1>5, <1>6

-------------------------------------------------------------------------------
(***************************************************************************)
(* The clock.                                                              *)
(***************************************************************************)

\* The head of a list that is not empty is the process of its first entry.
LEMMA HeadPid ==
  ASSUME NEW list \in Seq(ClockEntries), list # <<>>
  PROVE  Head(list).pid = list[1].pid /\ Head(list).pid \in Procs /\ Len(list) >= 1
<1>1. Head(list) = list[1] /\ Len(list) \in Nat /\ Len(list) # 0
  BY EmptySeq, LenProperties
<1>2. list[1] \in ClockEntries
  BY <1>1, LenProperties
<1> QED
  BY <1>1, <1>2 DEF ClockEntries

\* The running process goes on the clock's list.
LEMMA StartDelayClock ==
  ASSUME TableInv, ClockInv, NEW ticks \in Nat, StartDelay(ticks),
         pstate'[currpid] \in {"PRSLEEP", "PRTRECV"},
         \A p \in Procs \ {currpid} : Stays(p)
  PROVE  ClockInv'
<1>1. PICK c \in Procs : c = currpid
  BY DEF TableInv, ProcTypeOK
<1>2. pstate[c] = "PRCURR" /\ c \notin Pids(clockq)
  BY <1>1 DEF TableInv, ClockInv
<1>3. /\ clockq' = InsertDelta(clockq, c, ticks) /\ slnempty' = TRUE
      /\ sltop' = Head(clockq').pid /\ due' = [due EXCEPT ![c] = ticks]
  BY <1>1 DEF StartDelay
<1>4. PICK list \in Seq(ClockEntries) : list = clockq
  BY DEF ClockInv
<1>5. Distinct(list) /\ c \notin Pids(list)
  BY <1>2, <1>4 DEF ClockInv
<1>6. /\ InsertDelta(list, c, ticks) \in Seq(ClockEntries)
      /\ InsertDelta(list, c, ticks) # <<>>
      /\ Pids(InsertDelta(list, c, ticks)) = Pids(list) \cup {c}
      /\ Distinct(InsertDelta(list, c, ticks))
  BY <1>5, InsertDeltaPids
<1>7. /\ clockq' \in Seq(ClockEntries) /\ clockq' # <<>>
      /\ Pids(clockq') = Pids(clockq) \cup {c} /\ Distinct(clockq')
  BY <1>3, <1>4, <1>6
<1>8. sltop' \in Procs
  BY <1>3, <1>7, HeadPid
<1>9. due' \in [Procs -> Int]
  BY <1>3 DEF ClockInv
<1>10. ASSUME NEW p \in Procs
       PROVE  pstate'[p] \in {"PRSLEEP", "PRTRECV"} <=> p \in Pids(clockq')
  BY <1>1, <1>2, <1>7 DEF ClockInv, Stays
<1>11. CountsHead'
  BY <1>3, <1>7 DEF CountsHead
<1> QED
  BY <1>3, <1>7, <1>8, <1>9, <1>10, <1>11 DEF ClockInv

\* A sleeping process leaves the clock's list.
LEMMA UnsleepClock ==
  ASSUME ClockInv, NEW p \in Pids(clockq), Unsleep(p), p \in Procs,
         pstate'[p] \notin {"PRSLEEP", "PRTRECV"},
         \A q \in Procs \ {p} : Stays(q)
  PROVE  ClockInv'
<1>1. PICK list \in Seq(ClockEntries) : list = clockq
  BY DEF ClockInv
<1>2. p \in Pids(list) /\ Distinct(list)
  BY <1>1 DEF ClockInv
<1>3. /\ RemoveDelta(list, p) \in Seq(ClockEntries)
      /\ Pids(RemoveDelta(list, p)) = Pids(list) \ {p}
      /\ Distinct(RemoveDelta(list, p))
  BY <1>2, RemoveDeltaPids
<1>4. clockq' = RemoveDelta(clockq, p) /\ due' = due
  BY DEF Unsleep
<1>5. /\ clockq' \in Seq(ClockEntries) /\ Distinct(clockq')
      /\ Pids(clockq') = Pids(clockq) \ {p}
  BY <1>1, <1>3, <1>4
<1>6. slnempty = TRUE
  <2>1. clockq # <<>>
    BY EmptyList
  <2> QED
    BY <2>1 DEF ClockInv, CountsHead
<1>7. /\ slnempty' \in BOOLEAN /\ sltop' \in Procs /\ CountsHead'
  <2>1. CASE clockq' = <<>>
    <3>1. slnempty' = FALSE /\ sltop' = sltop
      BY <2>1 DEF Unsleep
    <3> QED
      BY <2>1, <3>1 DEF ClockInv, CountsHead
  <2>2. CASE clockq' # <<>>
    <3>1. sltop' = Head(clockq').pid /\ slnempty' = slnempty
      BY <2>2 DEF Unsleep
    <3>2. Head(clockq').pid \in Procs
      BY <1>5, <2>2, HeadPid
    <3> QED
      BY <1>6, <2>2, <3>1, <3>2 DEF CountsHead
  <2> QED
    BY <2>1, <2>2
<1>8. ASSUME NEW q \in Procs
      PROVE  pstate'[q] \in {"PRSLEEP", "PRTRECV"} <=> q \in Pids(clockq')
  BY <1>5 DEF ClockInv, Stays
<1> QED
  BY <1>4, <1>5, <1>7, <1>8 DEF ClockInv

\* clkint() takes one tick off the key at the head of the list.
LEMMA CountedDownShape ==
  ASSUME ClockInv, slnempty
  PROVE  /\ CountedDown \in Seq(ClockEntries) /\ Shortened(CountedDown, clockq, 1, 1)
         /\ Pids(CountedDown) = Pids(clockq) /\ Distinct(CountedDown)
         /\ Len(CountedDown) >= 1
<1> DEFINE n == Len(clockq)
<1>1. /\ n \in Nat /\ DOMAIN clockq = 1..n /\ clockq \in [1..n -> ClockEntries]
      /\ clockq # <<>> /\ clockq \in Seq(ClockEntries)
  BY LenProperties DEF ClockInv, CountsHead
<1>2. sltop = clockq[1].pid /\ n >= 1
  BY <1>1, HeadPid DEF ClockInv, CountsHead
<1> HIDE DEF n
<1>3. \A j \in 1..n : clockq[j].pid = sltop <=> j = 1
  BY <1>1, <1>2 DEF ClockInv, Distinct
<1>4. \A j \in 1..n : clockq[j] \in ClockEntries
  BY <1>1
<1>5. CountedDown = [j \in 1..n |-> IF clockq[j].pid = sltop
                                    THEN [clockq[j] EXCEPT !.key = @ - 1] ELSE clockq[j]]
  BY <1>1 DEF CountedDown
<1>6. ASSUME NEW j \in 1..n PROVE [clockq[j] EXCEPT !.key = @ - 1] \in ClockEntries
  BY <1>4 DEF ClockEntries
<1>7. CountedDown \in [1..n -> ClockEntries]
  BY <1>4, <1>5, <1>6
<1>8. CountedDown \in Seq(ClockEntries) /\ Len(CountedDown) = n /\ DOMAIN CountedDown = 1..n
  BY <1>1, <1>7, SeqDef, LenProperties
<1>9. \A j \in 1..n : CountedDown[j] = IF j = 1 THEN [clockq[j] EXCEPT !.key = @ - 1]
                                       ELSE clockq[j]
  BY <1>3, <1>5
<1>10. \A j \in 1..n : CountedDown[j].pid = clockq[j].pid
  BY <1>4, <1>9 DEF ClockEntries
<1>11. Pids(CountedDown) = Pids(clockq) /\ Distinct(CountedDown)
  <2>1. DOMAIN CountedDown = DOMAIN clockq
        /\ \A j \in DOMAIN clockq : CountedDown[j].pid = clockq[j].pid
    BY <1>1, <1>8, <1>10
  <2>2. Distinct(clockq)
    BY DEF ClockInv
  <2>3. Pids(CountedDown) = Pids(clockq)
    BY <2>1 DEF Pids
  <2>4. Distinct(CountedDown)
    BY <2>1, <2>2 DEF Distinct
  <2> QED
    BY <2>3, <2>4
<1> QED
  BY <1>2, <1>8, <1>9, <1>11 DEF Shortened, n

\* A clock interrupt wakes the processes it takes off the list.
LEMMA TickClock ==
  ASSUME TableInv, ClockInv, ClockInterrupt
  PROVE  /\ TableInv' /\ ClockInv'
         /\ \A p \in Procs : \/ Stays(p)
                             \/ /\ pstate[p] \in {"PRSLEEP", "PRTRECV"}
                                /\ pstate'[p] \in {"PRCURR", "PRREADY"}
<1>1. PICK list \in Seq(ClockEntries) : list = CountedDown
  BY CountedDownShape DEF ClockInterrupt
<1>2. /\ Shortened(list, clockq, 1, 1) /\ Pids(list) = Pids(clockq)
      /\ Distinct(list) /\ Len(list) >= 1 /\ slnempty
  BY <1>1, CountedDownShape DEF ClockInterrupt
<1>3. PICK k \in 0..Len(list) : DuePrefix(list) = SubSeq(list, 1, k)
  BY DuePrefixShape
<1>4. /\ SubSeq(list, 1, k) \in Seq(ClockEntries)
      /\ SubSeq(list, k + 1, Len(list)) \in Seq(ClockEntries)
      /\ CutAt(SubSeq(list, 1, k), SubSeq(list, k + 1, Len(list)), list, k)
  BY CutShape
<1>5. PICK woken \in Seq(ClockEntries) : woken = SubSeq(list, 1, k)
  BY <1>4
<1>6. PICK rest \in Seq(ClockEntries) : rest = SubSeq(list, k + 1, Len(list))
  BY <1>4
<1>7. CutAt(woken, rest, list, k) /\ woken = DuePrefix(list)
  BY <1>3, <1>4, <1>5, <1>6
<1>8. /\ Distinct(woken) /\ Distinct(rest)
      /\ Pids(woken) \cup Pids(rest) = Pids(list) /\ Pids(woken) \cap Pids(rest) = {}
  BY <1>2, <1>7, CutPids
<1>9. Len(woken) = k /\ Len(rest) = Len(list) - k /\ Len(list) \in Nat
  BY <1>7, LenProperties DEF CutAt
<1>10. PICK pids \in Seq(Procs) : pids = PidSeq(woken)
  BY PidSeqProperties
<1>11. Range(pids) = Pids(woken) /\ IsInjective(pids)
  BY <1>8, <1>10, PidSeqProperties
<1>12. /\ clockq' = rest
       /\ woken = <<>> => UNCHANGED <<pstate, rdy, currpid, slnempty, sltop>>
       /\ woken # <<>> => /\ ReadyAndResched(pids) /\ slnempty' = (clockq' # <<>>)
                          /\ sltop' = IF clockq' = <<>> THEN sltop ELSE Head(clockq').pid
       /\ due' = [p \in Procs |-> IF p \in Pids(clockq') THEN Max({due[p], 0}) - 1 ELSE 0]
       /\ UNCHANGED <<pprio, pinh, nextproc>>
  BY <1>1, <1>6, <1>7, <1>9, <1>10 DEF ClockInterrupt, PidSeq
<1>13. \A p \in Range(pids) : p \in Procs /\ pstate[p] \in {"PRSLEEP", "PRTRECV"}
  <2>1. ASSUME NEW p \in Range(pids) PROVE p \in Procs /\ pstate[p] \in {"PRSLEEP", "PRTRECV"}
    <3>1. p \in Procs
      BY LenProperties DEF Range
    <3>2. p \in Pids(clockq)
      BY <1>2, <1>8, <1>11
    <3> QED
      BY <3>1, <3>2 DEF ClockInv
  <2> QED
    BY <2>1
<1>14. due' \in [Procs -> Int]
  <2>1. ASSUME NEW p \in Procs PROVE Max({due[p], 0}) - 1 \in Int
    <3>1. PICK d \in Int : d = due[p]
      BY DEF ClockInv
    <3> DEFINE m == Max({d, 0})
    <3>2. m = IF 0 <= d THEN d ELSE 0
      BY Surplus
    <3> HIDE DEF m
    <3>3. m - 1 \in Int
      BY <3>2
    <3> QED
      BY <3>1, <3>3 DEF m
  <2> DEFINE left(p) == IF p \in Pids(clockq') THEN Max({due[p], 0}) - 1 ELSE 0
  <2>2. due' = [p \in Procs |-> left(p)]
    BY <1>12
  <2>3. \A p \in Procs : left(p) \in Int
    BY <2>1
  <2> HIDE DEF left
  <2> QED
    BY <2>2, <2>3
<1>15. CASE woken = <<>>
  <2>1. UNCHANGED <<pstate, rdy, currpid, slnempty, sltop>>
    BY <1>12, <1>15
  <2>2. TableInv'
    BY <1>12, <2>1 DEF TableInv, ProcTypeOK
  <2>3. k = 0 /\ Pids(rest) = Pids(list)
    BY <1>8, <1>9, <1>15, EmptyList
  <2>4. rest # <<>> /\ rest[1] = list[1]
    <3>1. Len(rest) >= 1 /\ 1 \in 1..Len(list) - k
      BY <1>2, <1>9, <2>3
    <3>2. rest[1] = list[k + 1]
      BY <1>7, <3>1 DEF CutAt
    <3> QED
      BY <2>3, <3>1, <3>2
  <2>5. Head(rest).pid = rest[1].pid
    BY <2>4, HeadPid
  <2>6. Head(clockq).pid = clockq[1].pid /\ sltop = Head(clockq).pid /\ Len(clockq) >= 1
        /\ clockq[1] \in ClockEntries
    <3>1. clockq \in Seq(ClockEntries) /\ clockq # <<>> /\ sltop = Head(clockq).pid
      BY <1>2 DEF ClockInv, CountsHead
    <3>2. Head(clockq).pid = clockq[1].pid /\ Len(clockq) >= 1
      BY <3>1, HeadPid
    <3> QED
      BY <3>1, <3>2, LenProperties
  <2>7. list[1].pid = clockq[1].pid
    <3>1. 1 \in 1..Len(clockq)
      BY <2>6
    <3>2. list[1] = [clockq[1] EXCEPT !.key = @ - 1]
      BY <1>2, <3>1 DEF Shortened
    <3> QED
      BY <2>6, <3>2 DEF ClockEntries
  <2>8. CountsHead'
    BY <1>2, <1>12, <2>1, <2>4, <2>5, <2>6, <2>7 DEF CountsHead
  <2>9. ClockInv'
    BY <1>2, <1>8, <1>12, <1>14, <2>1, <2>3, <2>8 DEF ClockInv
  <2> QED
    BY <2>1, <2>2, <2>9 DEF Stays
<1>16. CASE woken # <<>>
  <2>1. ReadyAndResched(pids) /\ slnempty' = (clockq' # <<>>)
        /\ sltop' = IF clockq' = <<>> THEN sltop ELSE Head(clockq').pid
    BY <1>12, <1>16
  <2>2. /\ TableInv' /\ \A p \in Range(pids) : pstate'[p] \in {"PRCURR", "PRREADY"}
        /\ \A p \in Procs \ Range(pids) : Stays(p)
    BY <1>11, <1>12, <1>13, <2>1, ReadyTable
  <2>3. sltop' \in Procs
    <3>1. clockq' # <<>> => Head(clockq').pid \in Procs
      BY <1>12, HeadPid
    <3> QED
      BY <2>1, <3>1 DEF ClockInv
  <2>4. CountsHead'
    BY <2>1 DEF CountsHead
  <2>5. ASSUME NEW p \in Procs
        PROVE  pstate'[p] \in {"PRSLEEP", "PRTRECV"} <=> p \in Pids(clockq')
    <3>1. pstate[p] \in {"PRSLEEP", "PRTRECV"} <=> p \in Pids(list)
      BY <1>2 DEF ClockInv
    <3>2. p \in Pids(list) <=> p \in Pids(woken) \/ p \in Pids(rest)
      BY <1>8
    <3>3. ~(p \in Pids(woken) /\ p \in Pids(rest))
      BY <1>8
    <3>4. p \in Pids(woken) => pstate'[p] \in {"PRCURR", "PRREADY"}
      BY <1>11, <2>2
    <3>5. p \notin Pids(woken) => Stays(p)
      BY <1>11, <2>2
    <3> QED
      BY <1>12, <3>1, <3>2, <3>3, <3>4, <3>5 DEF Stays
  <2>6. ClockInv'
    BY <1>8, <1>12, <1>14, <2>1, <2>3, <2>4, <2>5 DEF ClockInv
  <2> QED
    BY <1>13, <2>2, <2>6
<1> QED
  BY <1>15, <1>16

-------------------------------------------------------------------------------
(***************************************************************************)
(* Every action keeps the invariant.                                       *)
(***************************************************************************)

\* No process has died and none has come to be.
SameProcesses == \A p \in Procs : pstate'[p] = "PRFREE" <=> pstate[p] = "PRFREE"

\* A process that stays waits, sleeps, receives and lives as before.
LEMMA StaysMeans ==
  ASSUME NEW p \in Procs, Stays(p)
  PROVE  /\ pstate'[p] = "PRWAIT" <=> pstate[p] = "PRWAIT"
         /\ pstate'[p] \in {"PRSLEEP", "PRTRECV"}
              <=> pstate[p] \in {"PRSLEEP", "PRTRECV"}
         /\ pstate'[p] \in {"PRRECV", "PRFREE"}
              <=> pstate[p] \in {"PRRECV", "PRFREE"}
         /\ pstate'[p] = "PRFREE" <=> pstate[p] = "PRFREE"
BY DEF Stays

\* The running process is a user process when it makes a call.
LEMMA CallerRuns ==
  ASSUME ServInv, NEW call, Calling(call)
  PROVE  /\ currpid \in Procs /\ currpid # NULLPROC /\ currpid \in UserPids
         /\ pstate[currpid] = "PRCURR" /\ kcall[currpid] = "none"
BY DEF ServInv, TableInv, ProcTypeOK, Calling, UserPids

\* Nothing but the ready processes and the running one has moved.
LEMMA Undisturbed ==
  ASSUME ServInv, TableInv', \A p \in Procs : Stays(p), UNCHANGED semVars,
         UNCHANGED <<clockq, slnempty, sltop, due>>,
         UNCHANGED <<kcall, kvictim, phasmsg, pnxtkin>>
  PROVE  ServInv' /\ SameProcesses
<1>1. \A p \in Procs : /\ pstate'[p] = "PRWAIT" <=> pstate[p] = "PRWAIT"
                       /\ pstate'[p] \in {"PRSLEEP", "PRTRECV"}
                            <=> pstate[p] \in {"PRSLEEP", "PRTRECV"}
                       /\ pstate'[p] \in {"PRRECV", "PRFREE"}
                            <=> pstate[p] \in {"PRRECV", "PRFREE"}
  BY StaysMeans
<1>2. SemInv'
  BY <1>1, SemUntouched DEF ServInv
<1>3. ClockInv'
  BY <1>1, ClockUntouched DEF ServInv
<1>4. CallInv'
  BY <1>1, CallUntouched DEF ServInv
<1> QED
  BY <1>2, <1>3, <1>4, StaysMeans DEF ServInv, SameProcesses

\* The table is left alone.
LEMMA TableUntouched ==
  ASSUME TableInv, UNCHANGED procVars
  PROVE  TableInv' /\ \A p \in Procs : Stays(p)
BY DEF TableInv, ProcTypeOK, procVars, Stays

\* screate(), also from the start-up of a driver.
LEMMA ScreateWithKeeps ==
  ASSUME ServInv, NEW n \in Nat, ScreateWith(n)
  PROVE  ServInv' /\ SameProcesses
<1>1. n \in Nat /\ ScreateWith(n)
  OBVIOUS
<1>2. UNCHANGED procVars /\ UNCHANGED callVars /\ UNCHANGED msgVars /\ UNCHANGED timeVars
  BY <1>1 DEF ScreateWith
<1>3. TableInv' /\ \A p \in Procs : Stays(p)
  BY <1>2, TableUntouched DEF ServInv
<1>4. SemInv'
  BY <1>1, ScreateSem DEF ServInv
<1>5. ClockInv'
  BY <1>2, <1>3, StaysMeans, ClockUntouched DEF ServInv, timeVars
<1>6. CallInv'
  BY <1>2, <1>3, StaysMeans, CallUntouched DEF ServInv, callVars, msgVars
<1> QED
  BY <1>3, <1>4, <1>5, <1>6, StaysMeans DEF ServInv, SameProcesses

\* screate().
LEMMA ScreateKeeps ==
  ASSUME ServInv, NEW n \in Counts, Screate(n)
  PROVE  ServInv' /\ SameProcesses
BY ScreateWithKeeps, DelaysAssumption DEF Screate

\* A call that leaves kcall alone.
LEMMA NoCallEntered ==
  ASSUME ServInv, kcall' = kcall, currpid \in Procs, kcall[currpid] = "none"
  PROVE  kcall' = [kcall EXCEPT ![currpid] = "none"]
BY DEF ServInv, CallInv, CallType

\* The running process enters or leaves a call, and may stop in it.
LEMMA CallMoves ==
  ASSUME ServInv, currpid # NULLPROC, NEW c \in {"none", "wait", "receive", "recvtim"},
         kcall' = [kcall EXCEPT ![currpid] = c],
         UNCHANGED <<kvictim, phasmsg, pnxtkin>>,
         \A p \in Procs \ {currpid} : Stays(p),
         kcall'[currpid] = "receive" => pstate'[currpid] = "PRRECV",
         pstate'[currpid] = "PRWAIT" => kcall'[currpid] = "wait"
  PROVE  CallInv'
<1>1. currpid \in Procs /\ CallInv /\ CallType
  BY DEF ServInv, TableInv, ProcTypeOK, CallInv
<1>2. CallType'
  BY <1>1 DEF CallType
<1>3. kcall'[NULLPROC] = "none"
  BY <1>1, NullIsProc DEF CallInv, CallType
<1>4. ASSUME NEW p \in Procs
      PROVE  /\ kcall'[p] = "kill" => kvictim'[p] \in UserPids
             /\ kcall'[p] = "receive" => pstate'[p] \in {"PRRECV", "PRFREE"} \/ phasmsg'[p]
             /\ pstate'[p] = "PRWAIT" => kcall'[p] = "wait"
  <2>1. CASE p = currpid
    BY <1>1, <2>1 DEF CallInv, CallType
  <2>2. CASE p # currpid
    <3>1. kcall'[p] = kcall[p]
      BY <1>1, <2>2 DEF CallType
    <3>2. Stays(p)
      BY <2>2
    <3> QED
      BY <1>1, <3>1, <3>2, StaysMeans DEF CallInv
  <2> QED
    BY <2>1, <2>2
<1> QED
  BY <1>2, <1>3, <1>4 DEF CallInv

\* wait(), also from an interrupt, where the null process may run but not wait.
LEMMA WaitOnKeeps ==
  ASSUME ServInv, NEW s \in Sems, WaitOn(s), kcall[currpid] = "none",
         currpid # NULLPROC \/ semcnt[s] > 0
  PROVE  ServInv' /\ SameProcesses
<1>1. /\ UNCHANGED <<pprio, pinh, nextproc>> /\ UNCHANGED kvictim
      /\ UNCHANGED msgVars /\ UNCHANGED timeVars
  BY DEF WaitOn
<1>2. SemInv' /\ TableInv'
      /\ \A p \in Procs : \/ Stays(p)
                          \/ p = currpid /\ pstate'[p] = "PRWAIT" /\ kcall'[p] = "wait"
  BY <1>1, WaitSem
<1>3. CASE semcnt[s] > 0
  <2>1. UNCHANGED <<pstate, rdy, currpid, kcall>> /\ UNCHANGED <<pprio, pinh, nextproc>>
    BY <1>1, <1>3 DEF WaitOn
  <2>2. UNCHANGED procVars
    BY <2>1 DEF procVars
  <2>3. \A p \in Procs : Stays(p)
    BY <2>2, TableUntouched DEF ServInv
  <2>4. ClockInv'
    BY <1>1, <2>3, StaysMeans, ClockUntouched DEF ServInv, timeVars
  <2>5. CallInv'
    BY <1>1, <2>1, <2>3, StaysMeans, CallUntouched DEF ServInv, msgVars
  <2> QED
    BY <1>2, <2>3, <2>4, <2>5, StaysMeans DEF ServInv, SameProcesses
<1>4. CASE ~(semcnt[s] > 0) /\ currpid # NULLPROC
  <2>1. /\ currpid \in Procs /\ currpid # NULLPROC /\ pstate[currpid] = "PRCURR"
        /\ kcall[currpid] = "none"
    BY <1>4 DEF ServInv, TableInv, ProcTypeOK
  <2>2. \A p \in Procs \ {currpid} : Stays(p)
    BY <1>2
  <2>3. \A p \in Procs : pstate'[p] \in {"PRSLEEP", "PRTRECV"}
                           <=> pstate[p] \in {"PRSLEEP", "PRTRECV"}
    BY <1>2, <2>1, StaysMeans
  <2>4. ClockInv'
    BY <1>1, <2>3, ClockUntouched DEF ServInv, timeVars
  <2>5. PICK c \in {"none", "wait", "receive", "recvtim"} :
          c # "receive" /\ kcall' = [kcall EXCEPT ![currpid] = c]
    <3>1. kcall' = [kcall EXCEPT ![currpid] = "wait"] \/ kcall' = kcall
      BY DEF WaitOn, Entering
    <3>2. kcall' = kcall => kcall' = [kcall EXCEPT ![currpid] = "none"]
      BY <2>1, NoCallEntered
    <3> QED
      BY <3>1, <3>2
  <2>6. pstate'[currpid] = "PRWAIT" => kcall'[currpid] = "wait"
    BY <1>2, <2>1 DEF Stays
  <2>7. kcall'[currpid] # "receive"
    BY <2>1, <2>5 DEF ServInv, CallInv, CallType
  <2>8. CallInv'
    <3>1. UNCHANGED <<kvictim, phasmsg, pnxtkin>>
      BY <1>1 DEF msgVars
    <3> QED
      BY <2>1, <2>2, <2>5, <2>6, <2>7, <3>1, CallMoves
  <2>9. SameProcesses
    BY <1>2, <2>1, StaysMeans DEF SameProcesses
  <2> QED
    BY <1>2, <2>4, <2>8, <2>9 DEF ServInv
<1> QED
  BY <1>3, <1>4

\* wait().
LEMMA WaitKeeps ==
  ASSUME ServInv, NEW s \in Sems, Wait(s)
  PROVE  ServInv' /\ SameProcesses
BY WaitOnKeeps DEF Wait, Calling

\* Processes that wait are made ready, or nobody is.
LEMMA LineReadied ==
  ASSUME ServInv, NEW pids \in Seq(UserPids), IsInjective(pids),
         \A p \in Range(pids) : pstate[p] = "PRWAIT",
         \/ ReadyAndResched(pids)
         \/ pids = <<>> /\ UNCHANGED <<pstate, rdy, currpid>>,
         UNCHANGED <<pprio, pinh, nextproc>>, UNCHANGED callVars,
         UNCHANGED msgVars, UNCHANGED timeVars
  PROVE  /\ TableInv' /\ ClockInv' /\ CallInv' /\ SameProcesses
         /\ \A p \in Range(pids) : p \in Procs /\ pstate'[p] # "PRWAIT"
         /\ \A p \in Procs \ Range(pids) : pstate'[p] = "PRWAIT" <=> pstate[p] = "PRWAIT"
<1>1. pids \in Seq(Procs) /\ Range(pids) \subseteq Procs
  BY UserIsProc, LenProperties DEF Range
<1>2. /\ TableInv'
      /\ \A p \in Range(pids) : pstate'[p] \in {"PRCURR", "PRREADY"}
      /\ \A p \in Procs \ Range(pids) : Stays(p)
  <2>1. CASE ReadyAndResched(pids)
    BY <1>1, <2>1, ReadyTable DEF ServInv
  <2>2. CASE pids = <<>> /\ UNCHANGED <<pstate, rdy, currpid>>
    <3>1. Range(pids) = {}
      BY <2>2 DEF Range
    <3>2. UNCHANGED procVars
      BY <2>2 DEF procVars
    <3> QED
      BY <3>1, <3>2, TableUntouched DEF ServInv
  <2> QED
    BY <2>1, <2>2
<1>3. \A p \in Procs : /\ pstate'[p] \in {"PRSLEEP", "PRTRECV"}
                            <=> pstate[p] \in {"PRSLEEP", "PRTRECV"}
                       /\ pstate'[p] \in {"PRRECV", "PRFREE"}
                            <=> pstate[p] \in {"PRRECV", "PRFREE"}
                       /\ pstate'[p] = "PRWAIT" => pstate[p] = "PRWAIT"
  BY <1>2, StaysMeans
<1>4. ClockInv'
  BY <1>3, ClockUntouched DEF ServInv, timeVars
<1>5. CallInv'
  BY <1>3, CallUntouched DEF ServInv, callVars, msgVars
<1>6. SameProcesses
  <2>1. \A p \in Range(pids) : pstate'[p] # "PRFREE" /\ pstate[p] # "PRFREE"
    BY <1>2
  <2> QED
    BY <1>2, <2>1, StaysMeans DEF SameProcesses
<1> QED
  BY <1>1, <1>2, <1>4, <1>5, <1>6, StaysMeans

\* signal() and signaln() wake the head of a line.
LEMMA SignalsKeep ==
  ASSUME ServInv, NEW s \in Sems, NEW n \in Nat, SignalTimes(s, n),
         \/ ReadyAndResched(Woken(s, n))
         \/ ~(semcnt[s] < 0) /\ UNCHANGED <<pstate, rdy, currpid>>
  PROVE  ServInv' /\ SameProcesses
<1>1. sstate[s] = "SUSED" /\ SemInv
  BY DEF SignalTimes, ServInv
<1>2. PICK pids \in Seq(UserPids) :
        /\ pids = Woken(s, n) /\ IsInjective(pids)
        /\ Range(pids) \subseteq Range(semq[s])
        /\ Len(pids) = IF n <= Len(semq[s]) THEN n ELSE Len(semq[s])
  BY <1>1, WokenLine
<1>3. \A p \in Range(pids) : pstate[p] = "PRWAIT"
  BY <1>1, <1>2, WaitersWait
<1>4. ~(semcnt[s] < 0) => pids = <<>>
  <2>1. semcnt[s] \in Int /\ Len(semq[s]) = -Min({0, semcnt[s]})
    BY <1>1 DEF SemInv, SemType, CountIsWaiters
  <2>2. PICK c \in Int : c = semcnt[s]
    BY <2>1
  <2>3. 0 <= c => Len(semq[s]) = 0
    BY <2>1, <2>2, Deficit
  <2>4. 0 <= c => Len(pids) = 0
    BY <1>2, <2>3
  <2>5. 0 <= c => pids = <<>>
    BY <2>4, EmptySeq
  <2> QED
    BY <2>2, <2>5
<1>5. \/ ReadyAndResched(pids)
      \/ pids = <<>> /\ UNCHANGED <<pstate, rdy, currpid>>
  BY <1>2, <1>4
<1>6. UNCHANGED <<pprio, pinh, nextproc>> /\ UNCHANGED callVars /\ UNCHANGED msgVars
      /\ UNCHANGED timeVars
  BY DEF SignalTimes
<1>7. /\ TableInv' /\ ClockInv' /\ CallInv' /\ SameProcesses
      /\ \A p \in Range(pids) : p \in Procs /\ pstate'[p] # "PRWAIT"
      /\ \A p \in Procs \ Range(pids) : pstate'[p] = "PRWAIT" <=> pstate[p] = "PRWAIT"
  BY <1>2, <1>3, <1>5, <1>6, LineReadied
<1>8. SemInv'
  BY <1>1, <1>2, <1>7, SignalSem
<1> QED
  BY <1>7, <1>8 DEF ServInv

\* sreset() and sdelete() empty a line.
LEMMA EmptiedKeeps ==
  ASSUME ServInv, NEW s \in Sems, NEW n \in Nat, Sreset(s, n) \/ Sdelete(s)
  PROVE  ServInv' /\ SameProcesses
<1>1. SemInv /\ SemType
  BY DEF ServInv, SemInv
<1>2. PICK pids \in Seq(UserPids) : pids = semq[s]
  BY <1>1 DEF SemType
<1>3. IsInjective(pids) /\ \A p \in Range(pids) : p \in Procs /\ pstate[p] = "PRWAIT"
  BY <1>1, <1>2, WaitersWait DEF SemInv, InLine
<1>4. \/ ReadyAndResched(pids)
      \/ pids = <<>> /\ UNCHANGED <<pstate, rdy, currpid>>
  BY <1>2 DEF Sreset, Sdelete
<1>5. UNCHANGED <<pprio, pinh, nextproc>> /\ UNCHANGED callVars /\ UNCHANGED msgVars
      /\ UNCHANGED timeVars
  BY DEF Sreset, Sdelete
<1>6. /\ TableInv' /\ ClockInv' /\ CallInv' /\ SameProcesses
      /\ \A p \in Range(pids) : p \in Procs /\ pstate'[p] # "PRWAIT"
      /\ \A p \in Procs \ Range(pids) : pstate'[p] = "PRWAIT" <=> pstate[p] = "PRWAIT"
  BY <1>3, <1>4, <1>5, LineReadied
<1>7. /\ semq' = [semq EXCEPT ![s] = <<>>]
      /\ \/ sstate' = sstate /\ semcnt'[s] \in Nat
         \/ sstate' = [sstate EXCEPT ![s] = "SFREE"] /\ semcnt'[s] \in Int
      /\ semcnt' = [semcnt EXCEPT ![s] = semcnt'[s]]
      /\ psem' = psem /\ nextsem' = nextsem
      /\ pwaitret' \in [Procs -> {"OK", "DELETED"}]
  <2>1. CASE Sreset(s, n)
    <3>1. semcnt' = [semcnt EXCEPT ![s] = n]
      BY <2>1 DEF Sreset
    <3>2. semcnt'[s] = n
      BY <1>1, <3>1 DEF SemType
    <3> QED
      BY <1>1, <2>1, <3>1, <3>2 DEF Sreset, SemType
  <2>2. CASE Sdelete(s)
    <3>1. semcnt' = semcnt
      BY <2>2 DEF Sdelete
    <3>2. semcnt' = [semcnt EXCEPT ![s] = semcnt'[s]] /\ semcnt'[s] \in Int
      BY <1>1, <3>1 DEF SemType
    <3>3. pwaitret' \in [Procs -> {"OK", "DELETED"}]
      BY <1>1, <2>2 DEF Sdelete, SemType
    <3> QED
      BY <2>2, <3>2, <3>3 DEF Sdelete
  <2> QED
    BY <2>1, <2>2
<1>8. SemInv'
  BY <1>1, <1>2, <1>6, <1>7, EmptiedSem
<1> QED
  BY <1>6, <1>8 DEF ServInv

\* signal(), also from an interrupt.
LEMMA SignalOnKeeps ==
  ASSUME ServInv, NEW s \in Sems, SignalOn(s)
  PROVE  ServInv' /\ SameProcesses
<1>1. PICK n \in Nat : n = 1
  OBVIOUS
<1>2. /\ SignalTimes(s, n)
      /\ \/ ReadyAndResched(Woken(s, n))
         \/ ~(semcnt[s] < 0) /\ UNCHANGED <<pstate, rdy, currpid>>
  BY <1>1 DEF SignalOn
<1> QED
  BY <1>2, SignalsKeep

\* signal(), one of them.
LEMMA SignalKeeps ==
  ASSUME ServInv, NEW s \in Sems, Signal(s)
  PROVE  ServInv' /\ SameProcesses
BY SignalOnKeeps DEF Signal

\* signaln(), any number of signals at once.
LEMMA SignalnKeeps ==
  ASSUME ServInv, NEW s \in Sems, NEW n \in Counts, Signaln(s, n)
  PROVE  ServInv' /\ SameProcesses
<1>1. PICK m \in Nat : m = n
  BY DelaysAssumption
<1>2. SignalTimes(s, m) /\ ReadyAndResched(Woken(s, m))
  BY <1>1 DEF Signaln
<1> QED
  BY <1>2, SignalsKeep

\* sreset().
LEMMA SresetKeeps ==
  ASSUME ServInv, NEW s \in Sems, NEW n \in Counts, Sreset(s, n)
  PROVE  ServInv' /\ SameProcesses
<1>1. PICK m \in Nat : m = n
  BY DelaysAssumption
<1>2. Sreset(s, m)
  BY <1>1
<1> QED
  BY <1>2, EmptiedKeeps

\* sdelete().
LEMMA SdeleteKeeps ==
  ASSUME ServInv, NEW s \in Sems, Sdelete(s)
  PROVE  ServInv' /\ SameProcesses
<1>1. PICK m \in Nat : m = 0
  OBVIOUS
<1> QED
  BY EmptiedKeeps

\* The end of a wait().
LEMMA WaitReturnsKeeps ==
  ASSUME ServInv, WaitReturns
  PROVE  ServInv' /\ SameProcesses
<1>1. /\ currpid \in Procs /\ currpid # NULLPROC
      /\ pstate[currpid] = "PRCURR" /\ CallInv
  BY DEF ServInv, TableInv, ProcTypeOK, CallInv, WaitReturns
<1>2. /\ kcall' = [kcall EXCEPT ![currpid] = "none"]
      /\ UNCHANGED procVars /\ UNCHANGED semVars
      /\ UNCHANGED <<kvictim, phasmsg, pnxtkin>>
      /\ UNCHANGED <<clockq, slnempty, sltop, due>>
  BY DEF WaitReturns, Leaving, msgVars, timeVars
<1>3. TableInv' /\ \A p \in Procs : Stays(p)
  BY <1>2, TableUntouched DEF ServInv
<1>4. SemInv' /\ ClockInv'
  BY <1>2, <1>3, StaysMeans, SemUntouched, ClockUntouched DEF ServInv
<1>5. kcall'[currpid] = "none" /\ pstate'[currpid] = "PRCURR"
  BY <1>1, <1>2 DEF CallInv, CallType, procVars
<1>6. CallInv'
  <2>1. /\ kcall'[currpid] = "receive" => pstate'[currpid] = "PRRECV"
        /\ pstate'[currpid] = "PRWAIT" => kcall'[currpid] = "wait"
    BY <1>5
  <2>2. \A p \in Procs \ {currpid} : Stays(p)
    BY <1>3
  <2>3. PICK c \in {"none", "wait", "receive", "recvtim"} : c = "none"
    OBVIOUS
  <2>4. kcall' = [kcall EXCEPT ![currpid] = c]
    BY <1>2, <2>3
  <2>5. UNCHANGED <<kvictim, phasmsg, pnxtkin>> /\ currpid # NULLPROC
    BY <1>1, <1>2
  <2> QED
    BY <2>1, <2>2, <2>4, <2>5, CallMoves, Zenon
<1> QED
  BY <1>3, <1>4, <1>6, StaysMeans DEF ServInv, SameProcesses

\* A clock interrupt that ends the quantum.
LEMMA PreemptKeeps ==
  ASSUME ServInv, QuantumEnds
  PROVE  ServInv' /\ SameProcesses
<1>1. /\ Resched(pstate, rdy, pinh) /\ UNCHANGED <<pprio, pinh, nextproc>>
      /\ UNCHANGED semVars /\ UNCHANGED <<clockq, slnempty, sltop, due>>
      /\ UNCHANGED <<kcall, kvictim, phasmsg, pnxtkin>>
  BY DEF QuantumEnds, callVars, msgVars, timeVars
<1>2. TableInv' /\ \A p \in Procs : Stays(p)
  BY <1>1, PreemptTable DEF ServInv
<1> QED
  BY <1>1, <1>2, Undisturbed

\* A clock interrupt that counts down.
LEMMA TickKeeps ==
  ASSUME ServInv, ClockInterrupt
  PROVE  ServInv' /\ SameProcesses
<1>1. /\ TableInv' /\ ClockInv'
      /\ \A p \in Procs : \/ Stays(p)
                          \/ /\ pstate[p] \in {"PRSLEEP", "PRTRECV"}
                             /\ pstate'[p] \in {"PRCURR", "PRREADY"}
  BY TickClock DEF ServInv
<1>2. \A p \in Procs : /\ pstate'[p] = "PRWAIT" <=> pstate[p] = "PRWAIT"
                       /\ pstate'[p] \in {"PRRECV", "PRFREE"}
                            <=> pstate[p] \in {"PRRECV", "PRFREE"}
  BY <1>1, StaysMeans
<1>3. UNCHANGED semVars /\ UNCHANGED <<kcall, kvictim, phasmsg, pnxtkin>>
  BY DEF ClockInterrupt, callVars, msgVars
<1>4. SemInv' /\ CallInv'
  BY <1>2, <1>3, SemUntouched, CallUntouched DEF ServInv
<1>5. SameProcesses
  BY <1>1, StaysMeans DEF SameProcesses
<1> QED
  BY <1>1, <1>4, <1>5 DEF ServInv

\* The running process stops in a call that is not wait().
LEMMA StopsInCall ==
  ASSUME ServInv, currpid # NULLPROC, kcall[currpid] = "none",
         NEW st \in {"PRSUSP", "PRSLEEP", "PRRECV", "PRTRECV"}, Block(st),
         NEW c \in {"none", "receive", "recvtim"}, c = "receive" => st = "PRRECV",
         kcall' = [kcall EXCEPT ![currpid] = c],
         UNCHANGED <<pprio, pinh, nextproc, kvictim, phasmsg, pnxtkin>>,
         UNCHANGED semVars
  PROVE  /\ TableInv' /\ SemInv' /\ CallInv'
         /\ pstate[currpid] = "PRCURR" /\ pstate'[currpid] = st
         /\ \A p \in Procs \ {currpid} : Stays(p)
<1>1. currpid \in Procs /\ pstate[currpid] = "PRCURR" /\ CallInv
  BY DEF ServInv, TableInv, ProcTypeOK
<1>2. st \in PStates \ {"PRCURR", "PRREADY"} /\ UNCHANGED <<pprio, pinh, nextproc>>
  BY DEF PStates
<1>3. /\ TableInv' /\ pstate'[currpid] = st
      /\ \A p \in Procs \ {currpid} : Stays(p)
  BY <1>2, BlockTable DEF ServInv
<1>4. \A p \in Procs : pstate'[p] = "PRWAIT" <=> pstate[p] = "PRWAIT"
  BY <1>1, <1>3, StaysMeans
<1>5. SemInv'
  BY <1>4, SemUntouched DEF ServInv
<1>6. CallInv'
  <2>1. kcall'[currpid] = c
    BY <1>1 DEF CallInv, CallType
  <2>2. /\ kcall'[currpid] = "receive" => pstate'[currpid] = "PRRECV"
        /\ pstate'[currpid] = "PRWAIT" => kcall'[currpid] = "wait"
    BY <1>3, <2>1
  <2>3. c \in {"none", "wait", "receive", "recvtim"}
    OBVIOUS
  <2> QED
    BY <1>3, <2>2, <2>3, CallMoves
<1> QED
  BY <1>1, <1>3, <1>5, <1>6

\* sleep10(), sleep100() and sleep1000().
LEMMA SleepKeeps ==
  ASSUME ServInv, NEW n \in Delays, Sleep(n)
  PROVE  ServInv' /\ SameProcesses
<1>1. n \in Nat /\ currpid # NULLPROC /\ kcall[currpid] = "none" /\ currpid \in Procs
  BY DelaysAssumption, CallerRuns DEF Sleep
<1>2. /\ UNCHANGED <<pprio, pinh, nextproc>> /\ UNCHANGED semVars
      /\ UNCHANGED <<kcall, kvictim, phasmsg, pnxtkin>>
  BY DEF Sleep, callVars, msgVars
<1>3. CASE n = 0
  <2>1. Resched(pstate, rdy, pinh) /\ UNCHANGED <<clockq, slnempty, sltop, due>>
    BY <1>3 DEF Sleep, timeVars
  <2>2. TableInv' /\ \A p \in Procs : Stays(p)
    BY <1>2, <2>1, PreemptTable DEF ServInv
  <2> QED
    BY <1>2, <2>1, <2>2, Undisturbed
<1>4. CASE n # 0
  <2>1. Block("PRSLEEP") /\ StartDelay(n)
    BY <1>4 DEF Sleep
  <2>2. kcall' = [kcall EXCEPT ![currpid] = "none"]
    BY <1>1, <1>2, NoCallEntered
  <2>3. /\ TableInv' /\ SemInv' /\ CallInv' /\ pstate'[currpid] = "PRSLEEP"
        /\ \A p \in Procs \ {currpid} : Stays(p)
    BY <1>1, <1>2, <2>1, <2>2, StopsInCall
  <2>4. ClockInv'
    BY <1>1, <2>1, <2>3, StartDelayClock DEF ServInv
  <2>5. SameProcesses
    <3>1. pstate[currpid] = "PRCURR"
      BY <1>1 DEF ServInv, TableInv
    <3> QED
      BY <2>3, <3>1, StaysMeans DEF SameProcesses
  <2> QED
    BY <2>3, <2>4, <2>5 DEF ServInv
<1> QED
  BY <1>3, <1>4

\* recvtim() that has to wait.
LEMMA RecvtimKeeps ==
  ASSUME ServInv, NEW n \in Delays, Recvtim(n)
  PROVE  ServInv' /\ SameProcesses
<1>1. n \in Nat /\ currpid # NULLPROC /\ kcall[currpid] = "none" /\ currpid \in Procs
  BY DelaysAssumption, CallerRuns DEF Recvtim
<1>2. /\ UNCHANGED <<pprio, pinh, nextproc, kvictim, phasmsg, pnxtkin>>
      /\ UNCHANGED semVars
      /\ kcall' = [kcall EXCEPT ![currpid] = "recvtim"]
      /\ Block("PRTRECV") /\ StartDelay(n)
  BY DEF Recvtim, Entering, msgVars
<1>3. /\ TableInv' /\ SemInv' /\ CallInv' /\ pstate'[currpid] = "PRTRECV"
      /\ \A p \in Procs \ {currpid} : Stays(p)
  BY <1>1, <1>2, StopsInCall
<1>4. ClockInv'
  BY <1>1, <1>2, <1>3, StartDelayClock DEF ServInv
<1>5. SameProcesses
  <2>1. pstate[currpid] = "PRCURR"
    BY <1>1 DEF ServInv, TableInv
  <2> QED
    BY <1>3, <2>1, StaysMeans DEF SameProcesses
<1> QED
  BY <1>3, <1>4, <1>5 DEF ServInv

\* receive() that has to wait.
LEMMA ReceiveKeeps ==
  ASSUME ServInv, Receive
  PROVE  ServInv' /\ SameProcesses
<1>1. currpid # NULLPROC /\ kcall[currpid] = "none"
  BY CallerRuns DEF Receive
<1>2. /\ UNCHANGED <<pprio, pinh, nextproc, kvictim, phasmsg, pnxtkin>>
      /\ UNCHANGED semVars /\ UNCHANGED <<clockq, slnempty, sltop, due>>
      /\ kcall' = [kcall EXCEPT ![currpid] = "receive"]
      /\ Block("PRRECV")
  BY DEF Receive, Entering, msgVars, timeVars
<1>3. /\ TableInv' /\ SemInv' /\ CallInv'
      /\ pstate[currpid] = "PRCURR" /\ pstate'[currpid] = "PRRECV"
      /\ \A p \in Procs \ {currpid} : Stays(p)
  BY <1>1, <1>2, StopsInCall
<1>4. \A p \in Procs : pstate'[p] \in {"PRSLEEP", "PRTRECV"}
                         <=> pstate[p] \in {"PRSLEEP", "PRTRECV"}
  BY <1>3, StaysMeans
<1>5. ClockInv'
  BY <1>2, <1>4, ClockUntouched DEF ServInv
<1> QED
  BY <1>3, <1>5, StaysMeans DEF ServInv, SameProcesses

\* A message is taken: at once, or when a process that waited for it runs.
LEMMA TakesMessage ==
  ASSUME ServInv, TakeMessage \/ ReceiveReturns
  PROVE  ServInv' /\ SameProcesses
<1>1. currpid \in Procs /\ pstate[currpid] = "PRCURR" /\ CallInv /\ CallType
  BY DEF ServInv, TableInv, ProcTypeOK, CallInv
<1>2. /\ UNCHANGED procVars /\ UNCHANGED semVars
      /\ UNCHANGED <<clockq, slnempty, sltop, due>> /\ UNCHANGED <<kvictim, pnxtkin>>
      /\ phasmsg' = [phasmsg EXCEPT ![currpid] = FALSE]
      /\ kcall' = [kcall EXCEPT ![currpid] = "none"]
  <2>1. CASE TakeMessage
    <3>1. kcall[currpid] = "none" /\ kcall' = kcall
      BY <2>1 DEF TakeMessage, Calling, callVars
    <3>2. kcall' = [kcall EXCEPT ![currpid] = "none"]
      BY <1>1, <3>1, NoCallEntered
    <3> QED
      BY <2>1, <3>2 DEF TakeMessage, timeVars, callVars
  <2>2. CASE ReceiveReturns
    BY <2>2 DEF ReceiveReturns, Leaving, timeVars
  <2> QED
    BY <2>1, <2>2
<1>3. TableInv' /\ \A p \in Procs : Stays(p)
  BY <1>2, TableUntouched DEF ServInv
<1>4. SemInv' /\ ClockInv'
  BY <1>2, <1>3, StaysMeans, SemUntouched, ClockUntouched DEF ServInv
<1>5. CallType' /\ kcall'[NULLPROC] = "none"
  BY <1>1, <1>2, NullIsProc DEF CallInv, CallType
<1>6. ASSUME NEW p \in Procs
      PROVE  /\ kcall'[p] = "kill" => kvictim'[p] \in UserPids
             /\ kcall'[p] = "receive" => pstate'[p] \in {"PRRECV", "PRFREE"} \/ phasmsg'[p]
             /\ pstate'[p] = "PRWAIT" => kcall'[p] = "wait"
  <2>1. pstate'[p] = pstate[p]
    BY <1>2 DEF procVars
  <2>2. CASE p = currpid
    BY <1>1, <1>2, <2>1, <2>2 DEF CallType
  <2>3. CASE p # currpid
    BY <1>1, <1>2, <2>1, <2>3 DEF CallInv, CallType
  <2> QED
    BY <2>2, <2>3
<1>7. CallInv'
  BY <1>5, <1>6 DEF CallInv
<1> QED
  BY <1>3, <1>4, <1>7, StaysMeans DEF ServInv, SameProcesses

\* setnok().
LEMMA SetnokKeeps ==
  ASSUME ServInv, NEW nok \in Kin, NEW p \in UserPids, Setnok(nok, p)
  PROVE  ServInv' /\ SameProcesses
<1>1. nok \in UserPids
  BY KinAssumption
<1>2. /\ UNCHANGED procVars /\ UNCHANGED semVars
      /\ UNCHANGED <<clockq, slnempty, sltop, due>>
      /\ UNCHANGED <<kcall, kvictim, phasmsg>>
      /\ pnxtkin' = [pnxtkin EXCEPT ![p] = nok]
  BY DEF Setnok, callVars, timeVars
<1>3. TableInv' /\ \A q \in Procs : Stays(q)
  BY <1>2, TableUntouched DEF ServInv
<1>4. SemInv' /\ ClockInv'
  BY <1>2, <1>3, StaysMeans, SemUntouched, ClockUntouched DEF ServInv
<1>5. pstate' = pstate
  BY <1>2 DEF procVars
<1>6. CallInv'
  BY <1>1, <1>2, <1>5 DEF ServInv, CallInv, CallType
<1> QED
  BY <1>3, <1>4, <1>6, StaysMeans DEF ServInv, SameProcesses

\* A sequence of one process.
LEMMA OnePid ==
  ASSUME NEW E, NEW p \in E
  PROVE  <<p>> \in Seq(E) /\ Range(<<p>>) = {p} /\ IsInjective(<<p>>)
<1>1. <<p>> \in Seq(E) /\ DOMAIN <<p>> = 1..1 /\ <<p>>[1] = p
  OBVIOUS
<1> QED
  BY <1>1 DEF Range, IsInjective

\* One process that neither runs nor is ready is made ready.
LEMMA ReadyOneTable ==
  ASSUME TableInv, NEW p \in Procs, pstate[p] # "PRREADY", pstate[p] # "PRCURR",
         ReadyAndResched(<<p>>), UNCHANGED <<pprio, pinh, nextproc>>
  PROVE  /\ TableInv' /\ pstate'[p] \in {"PRCURR", "PRREADY"}
         /\ \A q \in Procs \ {p} : Stays(q)
<1>1. PICK pids \in Seq(Procs) : pids = <<p>>
  BY OnePid
<1>2. Range(pids) = {p} /\ IsInjective(pids)
  BY <1>1, OnePid
<1>3. ReadyAndResched(pids)
  BY <1>1
<1>4. /\ TableInv'
      /\ \A q \in Range(pids) : pstate'[q] \in {"PRCURR", "PRREADY"}
      /\ \A q \in Procs \ Range(pids) : Stays(q)
  BY <1>2, <1>3, ReadyTable
<1> QED
  BY <1>2, <1>4

\* send() to a process that accepts.
LEMMA DeliverKeeps ==
  ASSUME ServInv, NEW p \in UserPids, Deliver(p),
         UNCHANGED <<pprio, pinh, nextproc>>, UNCHANGED semVars
  PROVE  /\ TableInv' /\ SemInv' /\ ClockInv' /\ SameProcesses
         /\ phasmsg' \in [Procs -> BOOLEAN] /\ \A q \in Procs : phasmsg[q] => phasmsg'[q]
         /\ \A q \in Procs : \/ Stays(q)
                             \/ /\ pstate'[q] \in {"PRCURR", "PRREADY"}
                                /\ phasmsg'[q]
<1>1. /\ p \in Procs /\ phasmsg'[p]
      /\ phasmsg' \in [Procs -> BOOLEAN] /\ \A q \in Procs : phasmsg[q] => phasmsg'[q]
  BY UserIsProc DEF Deliver, ServInv, CallInv, CallType
<1>2. CASE pstate[p] \notin {"PRRECV", "PRTRECV"}
  <2>1. UNCHANGED procVars /\ UNCHANGED <<clockq, slnempty, sltop, due>>
    BY <1>2 DEF Deliver, procVars, timeVars
  <2>2. TableInv' /\ \A q \in Procs : Stays(q)
    BY <2>1, TableUntouched DEF ServInv
  <2>3. SemInv' /\ ClockInv'
    BY <2>1, <2>2, StaysMeans, SemUntouched, ClockUntouched DEF ServInv
  <2> QED
    BY <1>1, <2>2, <2>3, StaysMeans DEF SameProcesses
<1>3. CASE pstate[p] \in {"PRRECV", "PRTRECV"}
  <2>1. ReadyAndResched(<<p>>)
    BY <1>3 DEF Deliver
  <2>2. /\ TableInv' /\ pstate'[p] \in {"PRCURR", "PRREADY"}
        /\ \A q \in Procs \ {p} : Stays(q)
    BY <1>1, <1>3, <2>1, ReadyOneTable DEF ServInv
  <2>3. \A q \in Procs : pstate'[q] = "PRWAIT" <=> pstate[q] = "PRWAIT"
    BY <1>3, <2>2, StaysMeans
  <2>4. SemInv'
    BY <2>3, SemUntouched DEF ServInv
  <2>5. ClockInv'
    <3>1. CASE pstate[p] = "PRRECV"
      <4>1. UNCHANGED <<clockq, slnempty, sltop, due>>
        BY <3>1 DEF Deliver, timeVars
      <4>2. \A q \in Procs : pstate'[q] \in {"PRSLEEP", "PRTRECV"}
                               <=> pstate[q] \in {"PRSLEEP", "PRTRECV"}
        BY <2>2, <3>1, StaysMeans
      <4> QED
        BY <4>1, <4>2, ClockUntouched DEF ServInv
    <3>2. CASE pstate[p] = "PRTRECV"
      <4>1. Unsleep(p) /\ p \in Pids(clockq) /\ ClockInv
        BY <1>1, <3>2 DEF Deliver, ServInv, ClockInv
      <4>2. pstate'[p] \notin {"PRSLEEP", "PRTRECV"}
        BY <2>2
      <4> QED
        BY <1>1, <2>2, <4>1, <4>2, UnsleepClock
    <3> QED
      BY <1>3, <3>1, <3>2
  <2>6. SameProcesses
    <3>1. pstate[p] # "PRFREE" /\ pstate'[p] # "PRFREE"
      BY <1>3, <2>2
    <3> QED
      BY <2>2, <3>1, StaysMeans DEF SameProcesses
  <2> QED
    BY <1>1, <1>3, <2>2, <2>4, <2>5, <2>6
<1> QED
  BY <1>2, <1>3

\* A delivery that goes with a call: what a receiver waits for is there.
LEMMA DeliverCalls ==
  ASSUME ServInv, NEW c \in {"none", "kill"}, currpid # NULLPROC,
         kcall' = [kcall EXCEPT ![currpid] = c],
         kvictim' \in [Procs -> Procs], phasmsg' \in [Procs -> BOOLEAN],
         c = "kill" => kvictim'[currpid] \in UserPids,
         \A q \in Procs \ {currpid} : kvictim'[q] = kvictim[q],
         \A q \in Procs : phasmsg[q] => phasmsg'[q],
         pnxtkin' = pnxtkin,
         \A q \in Procs : \/ Stays(q)
                          \/ /\ pstate'[q] \in {"PRCURR", "PRREADY"}
                             /\ phasmsg'[q]
  PROVE  CallInv'
<1>1. currpid \in Procs /\ pstate[currpid] = "PRCURR" /\ CallInv /\ CallType
  BY DEF ServInv, TableInv, ProcTypeOK, CallInv
<1>2. CallType'
  <2>1. kcall' \in [Procs -> {"none", "wait", "receive", "recvtim", "kill"}]
    BY <1>1 DEF CallType
  <2> QED
    BY <1>1, <2>1 DEF CallType
<1>3. kcall'[NULLPROC] = "none"
  BY <1>1, NullIsProc DEF CallInv, CallType
<1>4. ASSUME NEW q \in Procs
      PROVE  /\ kcall'[q] = "kill" => kvictim'[q] \in UserPids
             /\ kcall'[q] = "receive" => pstate'[q] \in {"PRRECV", "PRFREE"} \/ phasmsg'[q]
             /\ pstate'[q] = "PRWAIT" => kcall'[q] = "wait"
  <2>1. kcall'[q] = IF q = currpid THEN c ELSE kcall[q]
    BY <1>1 DEF CallType
  <2>2. kcall'[q] = "kill" => kvictim'[q] \in UserPids
    BY <1>1, <2>1 DEF CallInv
  <2>3. kcall'[q] = "receive" => pstate'[q] \in {"PRRECV", "PRFREE"} \/ phasmsg'[q]
    <3>1. SUFFICES ASSUME kcall'[q] = "receive"
                   PROVE  pstate'[q] \in {"PRRECV", "PRFREE"} \/ phasmsg'[q]
      OBVIOUS
    <3>2. kcall[q] = "receive" /\ (pstate[q] \in {"PRRECV", "PRFREE"} \/ phasmsg[q])
      BY <1>1, <2>1, <3>1 DEF CallInv
    <3>3. CASE Stays(q)
      BY <3>2, <3>3, StaysMeans
    <3>4. CASE phasmsg'[q]
      BY <3>4
    <3> QED
      BY <3>3, <3>4
  <2>4. pstate'[q] = "PRWAIT" => kcall'[q] = "wait"
    <3>1. pstate'[q] = "PRWAIT" => pstate[q] = "PRWAIT"
      BY StaysMeans
    <3> QED
      BY <1>1, <2>1, <3>1 DEF CallInv
  <2> QED
    BY <2>2, <2>3, <2>4
<1> QED
  BY <1>2, <1>3, <1>4 DEF CallInv

\* send().
LEMMA SendKeeps ==
  ASSUME ServInv, NEW p \in UserPids, Send(p)
  PROVE  ServInv' /\ SameProcesses
<1>1. currpid # NULLPROC /\ kcall[currpid] = "none" /\ currpid \in Procs
  BY CallerRuns DEF Send
<1>2. /\ Deliver(p) /\ UNCHANGED <<pprio, pinh, nextproc>> /\ UNCHANGED semVars
      /\ kcall' = kcall /\ kvictim' = kvictim /\ pnxtkin' = pnxtkin
  BY DEF Send, callVars
<1>3. /\ TableInv' /\ SemInv' /\ ClockInv' /\ SameProcesses
      /\ phasmsg' \in [Procs -> BOOLEAN] /\ \A q \in Procs : phasmsg[q] => phasmsg'[q]
      /\ \A q \in Procs : \/ Stays(q)
                          \/ /\ pstate'[q] \in {"PRCURR", "PRREADY"}
                             /\ phasmsg'[q]
  BY <1>2, DeliverKeeps
<1>4. PICK c \in {"none", "kill"} : c = "none"
  OBVIOUS
<1>5. kcall' = [kcall EXCEPT ![currpid] = c]
  BY <1>1, <1>2, <1>4, NoCallEntered
<1>6. kvictim' \in [Procs -> Procs]
  BY <1>2 DEF ServInv, CallInv, CallType
<1>7. CallInv'
  BY <1>1, <1>2, <1>3, <1>4, <1>5, <1>6, DeliverCalls
<1> QED
  BY <1>3, <1>7 DEF ServInv

\* kill(), up to the message to the next of kin.
LEMMA KillKeeps ==
  ASSUME ServInv, NEW v \in UserPids, Kill(v)
  PROVE  ServInv' /\ SameProcesses
<1>1. /\ currpid \in UserPids /\ currpid # NULLPROC /\ kcall[currpid] = "none"
      /\ currpid \in Procs
  BY CallerRuns DEF Kill
<1>2. /\ UNCHANGED <<pprio, pinh, nextproc>> /\ UNCHANGED semVars
      /\ kcall' = [kcall EXCEPT ![currpid] = "kill"]
      /\ kvictim' = [kvictim EXCEPT ![currpid] = v] /\ pnxtkin' = pnxtkin
  BY DEF Kill, Entering
<1>3. PICK c \in {"none", "kill"} : c = "kill"
  OBVIOUS
<1>4. kcall' = [kcall EXCEPT ![currpid] = c]
  BY <1>2, <1>3
<1>5. /\ kvictim' \in [Procs -> Procs] /\ kvictim'[currpid] \in UserPids
      /\ \A q \in Procs \ {currpid} : kvictim'[q] = kvictim[q]
  BY <1>1, <1>2, UserIsProc DEF ServInv, CallInv, CallType
<1>6. /\ TableInv' /\ SemInv' /\ ClockInv' /\ SameProcesses
      /\ phasmsg' \in [Procs -> BOOLEAN] /\ \A q \in Procs : phasmsg[q] => phasmsg'[q]
      /\ \A q \in Procs : \/ Stays(q)
                          \/ /\ pstate'[q] \in {"PRCURR", "PRREADY"}
                             /\ phasmsg'[q]
  <2>1. CASE Accepts(pnxtkin[v])
    <3>1. PICK p \in UserPids : p = pnxtkin[v]
      BY <2>1 DEF Accepts
    <3>2. Deliver(p)
      BY <2>1, <3>1 DEF Kill
    <3> QED
      BY <1>2, <3>2, DeliverKeeps
  <2>2. CASE ~Accepts(pnxtkin[v])
    <3>1. UNCHANGED <<pstate, rdy, currpid>> /\ UNCHANGED phasmsg /\ UNCHANGED timeVars
      BY <2>2 DEF Kill
    <3>2. UNCHANGED procVars /\ UNCHANGED <<clockq, slnempty, sltop, due>>
      BY <1>2, <3>1 DEF procVars, timeVars
    <3>3. TableInv' /\ \A q \in Procs : Stays(q)
      BY <3>2, TableUntouched DEF ServInv
    <3>4. SemInv' /\ ClockInv'
      BY <1>2, <3>2, <3>3, StaysMeans, SemUntouched, ClockUntouched DEF ServInv
    <3>5. SameProcesses
      BY <3>3, StaysMeans DEF SameProcesses
    <3> QED
      BY <3>1, <3>3, <3>4, <3>5 DEF ServInv, CallInv, CallType
  <2> QED
    BY <2>1, <2>2
<1>7. CallInv'
  BY <1>1, <1>2, <1>4, <1>5, <1>6, DeliverCalls
<1> QED
  BY <1>6, <1>7 DEF ServInv

\* resume().
LEMMA ResumeKeeps ==
  ASSUME ServInv, NEW p \in UserPids, Resume(p)
  PROVE  ServInv' /\ SameProcesses
<1>1. /\ p \in Procs /\ pstate[p] = "PRSUSP" /\ ReadyAndResched(<<p>>)
      /\ UNCHANGED <<pprio, pinh, nextproc>> /\ UNCHANGED semVars
      /\ UNCHANGED <<clockq, slnempty, sltop, due>>
      /\ UNCHANGED <<kcall, kvictim, phasmsg, pnxtkin>>
  BY UserIsProc DEF Resume, callVars, msgVars, timeVars
<1>2. /\ TableInv' /\ pstate'[p] \in {"PRCURR", "PRREADY"}
      /\ \A q \in Procs \ {p} : Stays(q)
  BY <1>1, ReadyOneTable DEF ServInv
<1>3. \A q \in Procs : /\ pstate'[q] = "PRWAIT" <=> pstate[q] = "PRWAIT"
                       /\ pstate'[q] \in {"PRSLEEP", "PRTRECV"}
                            <=> pstate[q] \in {"PRSLEEP", "PRTRECV"}
                       /\ pstate'[q] \in {"PRRECV", "PRFREE"}
                            <=> pstate[q] \in {"PRRECV", "PRFREE"}
  BY <1>1, <1>2, StaysMeans
<1>4. SemInv' /\ ClockInv' /\ CallInv'
  BY <1>1, <1>3, SemUntouched, ClockUntouched, CallUntouched DEF ServInv
<1>5. SameProcesses
  <2>1. pstate[p] # "PRFREE" /\ pstate'[p] # "PRFREE"
    BY <1>1, <1>2
  <2> QED
    BY <1>2, <2>1, StaysMeans DEF SameProcesses
<1> QED
  BY <1>2, <1>4, <1>5 DEF ServInv

\* suspend() of a ready process or of the caller.
LEMMA SuspendKeeps ==
  ASSUME ServInv, NEW p \in UserPids, Suspend(p)
  PROVE  ServInv' /\ SameProcesses
<1>1. /\ p \in Procs /\ currpid # NULLPROC /\ kcall[currpid] = "none"
      /\ currpid \in Procs /\ pstate[currpid] = "PRCURR"
  BY UserIsProc, CallerRuns DEF Suspend
<1>2. /\ UNCHANGED <<pprio, pinh, nextproc>> /\ UNCHANGED semVars
      /\ UNCHANGED <<clockq, slnempty, sltop, due>>
      /\ UNCHANGED <<kcall, kvictim, phasmsg, pnxtkin>>
  BY DEF Suspend, callVars, msgVars, timeVars
<1>3. PICK q \in Procs :
        /\ TableInv' /\ pstate[q] \in {"PRCURR", "PRREADY"} /\ pstate'[q] = "PRSUSP"
        /\ \A r \in Procs \ {q} : Stays(r)
  <2>1. CASE /\ pstate[p] = "PRREADY"
             /\ pstate' = [pstate EXCEPT ![p] = "PRSUSP"]
             /\ rdy' = Dequeue(rdy, p)
             /\ UNCHANGED currpid
    <3>1. PICK ps \in [Procs -> PStates] : ps = pstate
      BY DEF ServInv, TableInv, ProcTypeOK
    <3>2. PICK rd \in Seq(ReadyEntries) : rd = rdy
      BY DEF ServInv, TableInv, ProcTypeOK, ReadyEntries
    <3>3. ReadyMatches(ps, rd)
      BY <3>1, <3>2 DEF ServInv, TableInv
    <3>4. ReadyMatches([ps EXCEPT ![p] = "PRSUSP"], Dequeue(rd, p))
      BY <1>1, <3>3, UnreadyOne
    <3>5. ReadyMatches(pstate', rdy')
      BY <2>1, <3>1, <3>2, <3>4
    <3>6. Dequeue(rd, p) \in Seq(ReadyEntries)
      BY DequeueProperties
    <3>7. ProcTypeOK'
      BY <1>2, <2>1, <3>2, <3>6 DEF ServInv, TableInv, ProcTypeOK, PStates, ReadyEntries
    <3>8. p # NULLPROC
      BY UserIsProc
    <3>9. \A r \in Procs : pstate'[r] = IF r = p THEN "PRSUSP" ELSE pstate[r]
      BY <2>1 DEF ServInv, TableInv, ProcTypeOK
    <3>10. TableInv'
      BY <1>1, <2>1, <3>5, <3>7, <3>8, <3>9, NullIsProc DEF ServInv, TableInv
    <3> QED
      BY <1>1, <2>1, <3>9, <3>10 DEF Stays
  <2>2. CASE p = currpid /\ Block("PRSUSP")
    <3>1. PICK st \in PStates \ {"PRCURR", "PRREADY"} : st = "PRSUSP"
      BY DEF PStates
    <3>2. Block(st)
      BY <2>2, <3>1
    <3>3. /\ TableInv' /\ pstate'[currpid] = st
          /\ \A r \in Procs \ {currpid} : Stays(r)
      BY <1>1, <1>2, <3>2, BlockTable DEF ServInv
    <3> QED
      BY <1>1, <3>1, <3>3
  <2> QED
    BY <2>1, <2>2 DEF Suspend
<1>4. \A r \in Procs : /\ pstate'[r] = "PRWAIT" <=> pstate[r] = "PRWAIT"
                       /\ pstate'[r] \in {"PRSLEEP", "PRTRECV"}
                            <=> pstate[r] \in {"PRSLEEP", "PRTRECV"}
                       /\ pstate'[r] \in {"PRRECV", "PRFREE"}
                            <=> pstate[r] \in {"PRRECV", "PRFREE"}
  BY <1>3, StaysMeans
<1>5. SemInv' /\ ClockInv' /\ CallInv'
  BY <1>2, <1>4, SemUntouched, ClockUntouched, CallUntouched DEF ServInv
<1>6. SameProcesses
  <2>1. pstate[q] # "PRFREE" /\ pstate'[q] # "PRFREE"
    BY <1>3
  <2> QED
    BY <1>3, <2>1, StaysMeans DEF SameProcesses
<1> QED
  BY <1>3, <1>5, <1>6 DEF ServInv

\* create(): the new process waits for nothing and is on no list.
LEMMA CreateKeeps ==
  ASSUME ServInv, NEW n \in NewPrios, Create(n)
  PROVE  ServInv'
<1>1. NewPid \in FreeSlots /\ SlotAfter(NewPid) \in Procs
  BY NewPidFree DEF ServInv, TableInv, Create
<1>2. PICK p \in UserPids : p = NewPid /\ pstate[p] = "PRFREE" /\ p \in Procs
  BY <1>1, UserIsProc DEF FreeSlots
<1>3. /\ pstate' = [pstate EXCEPT ![p] = "PRSUSP"]
      /\ pprio' = [pprio EXCEPT ![p] = n]
      /\ nextproc' \in Procs
      /\ psem' = [psem EXCEPT ![p] = 0]
      /\ phasmsg' = [phasmsg EXCEPT ![p] = FALSE]
      /\ pnxtkin' = [pnxtkin EXCEPT ![p] = BADPID]
      /\ kcall' = [kcall EXCEPT ![p] = "none"]
      /\ UNCHANGED <<pinh, rdy, currpid, kvictim, sstate, semcnt, semq,
                     nextsem, pwaitret, clockq, slnempty, sltop, due>>
  BY <1>1, <1>2 DEF Create, timeVars
<1>4. /\ \A q \in Procs : pstate'[q] = IF q = p THEN "PRSUSP" ELSE pstate[q]
      /\ p # NULLPROC
  BY <1>3, UserIsProc DEF ServInv, TableInv, ProcTypeOK
<1>5. TableInv'
  <2>1. n \in 0..MAXINT
    BY NewPriosAssumption, MAXINTAssumption
  <2>2. ProcTypeOK'
    BY <1>2, <1>3, <2>1 DEF ServInv, TableInv, ProcTypeOK, PStates
  <2>3. ReadyMatches(pstate', rdy')
    <3>1. {q \in Procs : pstate'[q] = "PRREADY"} = {q \in Procs : pstate[q] = "PRREADY"}
      BY <1>2, <1>4
    <3> QED
      BY <1>3, <3>1 DEF ServInv, TableInv, ReadyMatches
  <2> QED
    BY <1>2, <1>3, <1>4, <2>2, <2>3, NullIsProc DEF ServInv, TableInv
<1>6. SemInv'
  <2>1. 0 \in Sems
    BY NSEMAssumption DEF Sems
  <2>2. SemType'
    BY <1>2, <1>3, <2>1 DEF ServInv, SemInv, SemType
  <2>3. ASSUME NEW s \in Sems PROVE InLine(s)'
    <3>1. ASSUME NEW q \in Procs
          PROVE  pstate'[q] = "PRWAIT" /\ psem'[q] = s <=> q \in Range(semq'[s])
      <4>1. pstate[q] = "PRWAIT" /\ psem[q] = s <=> q \in Range(semq[s])
        BY DEF ServInv, SemInv, InLine
      <4>2. q # p => psem'[q] = psem[q]
        BY <1>3 DEF ServInv, SemInv, SemType
      <4> QED
        BY <1>2, <1>3, <1>4, <4>1, <4>2
    <3> QED
      BY <1>3, <3>1 DEF ServInv, SemInv, InLine
  <2>4. CountIsWaiters'
    BY <1>3 DEF ServInv, SemInv, CountIsWaiters
  <2> QED
    BY <2>2, <2>3, <2>4 DEF SemInv
<1>7. ClockInv'
  <2>1. \A q \in Procs : pstate'[q] \in {"PRSLEEP", "PRTRECV"}
                           <=> pstate[q] \in {"PRSLEEP", "PRTRECV"}
    BY <1>2, <1>4
  <2> QED
    BY <1>3, <2>1, ClockUntouched DEF ServInv
<1>8. CallInv'
  <2>1. CallInv /\ CallType
    BY DEF ServInv, CallInv
  <2>2. CallType'
    BY <1>2, <1>3, <2>1 DEF CallType
  <2>3. kcall'[NULLPROC] = "none"
    BY <1>3, <1>4, <2>1, NullIsProc DEF CallInv, CallType
  <2>4. ASSUME NEW q \in Procs
        PROVE  /\ kcall'[q] = "kill" => kvictim'[q] \in UserPids
               /\ kcall'[q] = "receive" => pstate'[q] \in {"PRRECV", "PRFREE"} \/ phasmsg'[q]
               /\ pstate'[q] = "PRWAIT" => kcall'[q] = "wait"
    <3>1. CASE q = p
      BY <1>3, <1>4, <2>1, <3>1 DEF CallType
    <3>2. CASE q # p
      BY <1>3, <1>4, <2>1, <3>2 DEF CallInv, CallType
    <3> QED
      BY <3>1, <3>2
  <2> QED
    BY <2>2, <2>3, <2>4 DEF CallInv
<1> QED
  BY <1>5, <1>6, <1>7, <1>8 DEF ServInv

\* A process that does not run dies: nobody else moves.
LEMMA DeadTable ==
  ASSUME TableInv, NEW p \in UserPids, p # currpid,
         pstate' = [pstate EXCEPT ![p] = "PRFREE"],
         \/ rdy' = Dequeue(rdy, p)
         \/ rdy' = rdy /\ pstate[p] # "PRREADY",
         UNCHANGED <<pprio, pinh, nextproc, currpid>>
  PROVE  /\ TableInv' /\ pstate'[p] = "PRFREE"
         /\ \A q \in Procs \ {p} : Stays(q)
<1>1. p \in Procs /\ p # NULLPROC
  BY UserIsProc
<1>2. PICK ps \in [Procs -> PStates] : ps = pstate
  BY DEF TableInv, ProcTypeOK
<1>3. PICK rd \in Seq(ReadyEntries) : rd = rdy
  BY DEF TableInv, ProcTypeOK, ReadyEntries
<1>4. ReadyMatches(ps, rd)
  BY <1>2, <1>3 DEF TableInv
<1>5. /\ ReadyMatches([ps EXCEPT ![p] = "PRFREE"], Dequeue(rd, p))
      /\ ps[p] # "PRREADY" => ReadyMatches([ps EXCEPT ![p] = "PRFREE"], rd)
  BY <1>1, <1>4, UnreadyOne
<1>6. ReadyMatches(pstate', rdy')
  BY <1>2, <1>3, <1>5
<1>7. Dequeue(rd, p) \in Seq(ReadyEntries)
  BY DequeueProperties
<1>8. ProcTypeOK'
  BY <1>1, <1>3, <1>7 DEF TableInv, ProcTypeOK, PStates, ReadyEntries
<1>9. \A q \in Procs : pstate'[q] = IF q = p THEN "PRFREE" ELSE pstate[q]
  BY <1>2
<1>10. TableInv'
  BY <1>1, <1>6, <1>8, <1>9, NullIsProc DEF TableInv
<1> QED
  BY <1>1, <1>9, <1>10 DEF Stays

\* What is left of kill() when the message to the next of kin is sent.
LEMMA KillEndsKeeps ==
  ASSUME ServInv, KillEnds
  PROVE  /\ ServInv' /\ pstate'[kvictim[currpid]] = "PRFREE"
         /\ \A q \in Procs \ {kvictim[currpid]} : Stays(q)
<1>1. /\ currpid \in Procs /\ kcall[currpid] = "kill" /\ currpid # NULLPROC
      /\ kvictim[currpid] \in UserPids /\ CallInv /\ CallType
      /\ pstate[currpid] = "PRCURR"
  BY DEF ServInv, TableInv, ProcTypeOK, CallInv, KillEnds
<1>2. PICK p \in UserPids : p = kvictim[currpid]
  BY <1>1
<1>3. p \in Procs /\ (pstate[p] = "PRCURR" <=> p = currpid) /\ pstate[p] \in PStates
  BY UserIsProc DEF ServInv, TableInv, ProcTypeOK
<1>4. /\ UNCHANGED <<pprio, pinh, nextproc>>
      /\ UNCHANGED <<sstate, nextsem, psem, pwaitret>> /\ UNCHANGED <<phasmsg, pnxtkin>>
      /\ kcall' = [kcall EXCEPT ![currpid] = "none"]
      /\ kvictim' = [kvictim EXCEPT ![currpid] = NULLPROC]
      /\ \/ pstate[p] = "PRCURR" /\ Suicide
         \/ pstate[p] = "PRWAIT" /\ BuryWaiter(p)
         \/ pstate[p] = "PRREADY" /\ BuryReady(p)
         \/ pstate[p] \in {"PRSLEEP", "PRTRECV"} /\ BurySleeper(p)
         \/ pstate[p] \in {"PRSUSP", "PRRECV", "PRFREE"} /\ BuryOther(p)
  BY <1>2 DEF KillEnds, Leaving, msgVars
<1>5. /\ TableInv' /\ pstate'[p] = "PRFREE"
      /\ \A q \in Procs \ {p} : Stays(q)
  <2>1. CASE pstate[p] = "PRCURR" /\ Suicide
    <3>1. PICK st \in PStates \ {"PRCURR", "PRREADY"} : st = "PRFREE"
      BY DEF PStates
    <3>2. Block(st)
      BY <2>1, <3>1 DEF Suicide
    <3>3. /\ TableInv' /\ pstate'[currpid] = st
          /\ \A q \in Procs \ {currpid} : Stays(q)
      BY <1>1, <1>4, <3>2, BlockTable DEF ServInv
    <3> QED
      BY <1>3, <2>1, <3>1, <3>3
  <2>2. CASE ~(pstate[p] = "PRCURR" /\ Suicide)
    <3>1. /\ pstate' = [pstate EXCEPT ![p] = "PRFREE"]
          /\ \/ rdy' = Dequeue(rdy, p)
             \/ rdy' = rdy /\ pstate[p] # "PRREADY"
          /\ UNCHANGED currpid
      BY <1>4, <2>2 DEF BuryWaiter, BuryReady, BurySleeper, BuryOther
    <3>2. p # currpid
      BY <1>3, <1>4, <2>2
    <3> QED
      BY <1>4, <3>1, <3>2, DeadTable DEF ServInv
  <2> QED
    BY <2>1, <2>2
<1>6. SemInv'
  <2>1. CASE pstate[p] = "PRWAIT"
    <3>1. BuryWaiter(p)
      BY <1>4, <2>1
    <3>2. pstate \in [Procs -> PStates]
      BY DEF ServInv, TableInv, ProcTypeOK
    <3> QED
      BY <1>4, <2>1, <3>1, <3>2, BuryWaiterSem DEF ServInv
  <2>2. CASE pstate[p] # "PRWAIT"
    <3>1. UNCHANGED semVars
      BY <1>4, <2>2 DEF Suicide, BuryReady, BurySleeper, BuryOther, semVars
    <3>2. \A q \in Procs : pstate'[q] = "PRWAIT" <=> pstate[q] = "PRWAIT"
      BY <1>5, <2>2, StaysMeans
    <3> QED
      BY <3>1, <3>2, SemUntouched DEF ServInv
  <2> QED
    BY <2>1, <2>2
<1>7. ClockInv'
  <2>1. CASE pstate[p] \in {"PRSLEEP", "PRTRECV"}
    <3>1. Unsleep(p) /\ p \in Pids(clockq)
      BY <1>3, <1>4, <2>1 DEF BurySleeper, ServInv, ClockInv
    <3>2. pstate'[p] \notin {"PRSLEEP", "PRTRECV"}
      BY <1>5
    <3> QED
      BY <1>3, <1>5, <3>1, <3>2, UnsleepClock DEF ServInv
  <2>2. CASE pstate[p] \notin {"PRSLEEP", "PRTRECV"}
    <3>1. UNCHANGED <<clockq, slnempty, sltop, due>>
      BY <1>4, <2>2 DEF Suicide, BuryWaiter, BuryReady, BuryOther, timeVars
    <3>2. \A q \in Procs : pstate'[q] \in {"PRSLEEP", "PRTRECV"}
                             <=> pstate[q] \in {"PRSLEEP", "PRTRECV"}
      BY <1>5, <2>2, StaysMeans
    <3> QED
      BY <3>1, <3>2, ClockUntouched DEF ServInv
  <2> QED
    BY <2>1, <2>2
<1>8. CallInv'
  <2>1. CallType' /\ kcall'[NULLPROC] = "none"
    BY <1>1, <1>4, NullIsProc DEF CallInv, CallType
  <2>2. ASSUME NEW q \in Procs
        PROVE  /\ kcall'[q] = "kill" => kvictim'[q] \in UserPids
               /\ kcall'[q] = "receive" => pstate'[q] \in {"PRRECV", "PRFREE"} \/ phasmsg'[q]
               /\ pstate'[q] = "PRWAIT" => kcall'[q] = "wait"
    <3>1. pstate'[q] = "PRFREE" \/ Stays(q)
      BY <1>5
    <3>2. /\ pstate'[q] = "PRWAIT" => pstate[q] = "PRWAIT"
          /\ pstate[q] \in {"PRRECV", "PRFREE"} => pstate'[q] \in {"PRRECV", "PRFREE"}
      BY <3>1, StaysMeans
    <3>3. CASE q = currpid
      <4>1. kcall'[q] = "none"
        BY <1>1, <1>4, <3>3 DEF CallType
      <4>2. pstate'[q] # "PRWAIT"
        BY <1>1, <3>2, <3>3
      <4> QED
        BY <4>1, <4>2
    <3>4. CASE q # currpid
      BY <1>1, <1>4, <3>2, <3>4 DEF CallInv, CallType
    <3> QED
      BY <3>3, <3>4
  <2> QED
    BY <2>1, <2>2 DEF CallInv
<1> QED
  BY <1>2, <1>5, <1>6, <1>7, <1>8 DEF ServInv

\* The kernel starts in a state that satisfies the invariant.
LEMMA ServInitInv == ServInit => ServInv
<1> SUFFICES ASSUME ServInit PROVE ServInv
  OBVIOUS
<1>1. /\ NULLPROC \in Procs /\ 1 \in Procs /\ NPROC - 1 \in Procs /\ NULLPROC # 1
      /\ 0 \in Sems /\ NSEM - 1 \in Sems /\ MAXINT \in Nat
  BY NullIsProc, NPROCAssumption, NSEMAssumption, MAXINTAssumption
     DEF Procs, Sems, NULLPROC
<1>2. PICK w \in Workloads :
        /\ pstate = [p \in Procs |-> IF p = 1 THEN "PRCURR"
                                     ELSE IF p = NULLPROC THEN "PRREADY"
                                     ELSE IF p \in DOMAIN w.prios THEN "PRSUSP"
                                     ELSE "PRFREE"]
        /\ pprio = [p \in Procs |-> IF p \in DOMAIN w.prios THEN w.prios[p] ELSE 0]
  BY DEF ServInit
<1>3. /\ pinh = [p \in Procs |-> 0] /\ rdy = <<[pid |-> NULLPROC, key |-> 0]>>
      /\ currpid = 1 /\ nextproc = NPROC - 1
      /\ kcall = [p \in Procs |-> "none"] /\ kvictim = [p \in Procs |-> NULLPROC]
      /\ sstate = [s \in Sems |-> "SFREE"] /\ semcnt = [s \in Sems |-> 0]
      /\ semq = [s \in Sems |-> <<>>] /\ nextsem = NSEM - 1
      /\ psem = [p \in Procs |-> 0] /\ pwaitret = [p \in Procs |-> "OK"]
      /\ phasmsg = [p \in Procs |-> FALSE] /\ pnxtkin = [p \in Procs |-> BADPID]
      /\ clockq = <<>> /\ slnempty = FALSE /\ sltop = NULLPROC
      /\ due = [p \in Procs |-> 0]
  BY DEF ServInit
<1>4. ProcTypeOK
  <2>1. pstate \in [Procs -> PStates]
    BY <1>2 DEF PStates
  <2>2. pprio \in [Procs -> 0..MAXINT]
    <3>1. w.prios \in Seq(1..MAXINT)
      BY WorkloadsAssumption
    <3>2. PICK prios \in Seq(1..MAXINT) : prios = w.prios
      BY <3>1
    <3>3. \A p \in DOMAIN prios : prios[p] \in 0..MAXINT
      BY <1>1, LenProperties
    <3>4. \A p \in Procs : (IF p \in DOMAIN prios THEN prios[p] ELSE 0) \in 0..MAXINT
      BY <1>1, <3>3
    <3> QED
      BY <1>2, <3>2, <3>4
  <2>3. rdy \in Seq([pid : Procs, key : 0..MAXINT])
    BY <1>1, <1>3
  <2>4. pinh \in [Procs -> 0..MAXINT]
    BY <1>1, <1>3
  <2> QED
    BY <1>1, <1>3, <2>1, <2>2, <2>3, <2>4 DEF ProcTypeOK
<1>5. ReadyMatches(pstate, rdy)
  <2>1. DOMAIN rdy = {1} /\ Len(rdy) = 1 /\ rdy[1].pid = NULLPROC
    BY <1>3
  <2>2. Pids(rdy) = {NULLPROC}
    BY <2>1 DEF Pids
  <2>3. {p \in Procs : pstate[p] = "PRREADY"} = {NULLPROC}
    BY <1>1, <1>2
  <2>4. Sorted(rdy) /\ Distinct(rdy)
    BY <2>1, <1>3 DEF Sorted, Distinct
  <2> QED
    BY <2>2, <2>3, <2>4 DEF ReadyMatches
<1>6. TableInv
  <2>1. \A p \in Procs : pstate[p] = "PRCURR" <=> p = currpid
    BY <1>2, <1>3
  <2>2. pstate[NULLPROC] \in {"PRCURR", "PRREADY"}
    BY <1>1, <1>2
  <2> QED
    BY <1>4, <1>5, <2>1, <2>2 DEF TableInv
<1>7. \A p \in Procs : pstate[p] \notin {"PRWAIT", "PRSLEEP", "PRTRECV"}
  BY <1>2
<1>8. SemInv
  <2>1. SemType
    BY <1>1, <1>3 DEF SemType
  <2>2. ASSUME NEW s \in Sems PROVE InLine(s) /\ semq[s] = <<>> /\ sstate[s] = "SFREE"
    <3>1. semq[s] = <<>> /\ Range(semq[s]) = {} /\ IsInjective(semq[s])
      BY <1>3 DEF Range, IsInjective
    <3> QED
      BY <1>3, <1>7, <3>1 DEF InLine
  <2>3. CountIsWaiters
    BY <2>2 DEF CountIsWaiters
  <2> QED
    BY <2>1, <2>2, <2>3 DEF SemInv
<1>9. ClockInv
  <2>1. clockq \in Seq(ClockEntries) /\ Pids(clockq) = {} /\ Distinct(clockq)
    BY <1>3, EmptyList
  <2>2. slnempty \in BOOLEAN /\ sltop \in Procs /\ due \in [Procs -> Int]
    <3>1. slnempty \in BOOLEAN
      BY <1>3, Zenon
    <3>2. sltop \in Procs
      BY <1>1, <1>3
    <3>3. due \in [Procs -> Int]
      BY <1>3
    <3> QED
      BY <3>1, <3>2, <3>3
  <2>3. CountsHead
    BY <1>3 DEF CountsHead
  <2> QED
    BY <1>7, <2>1, <2>2, <2>3 DEF ClockInv
<1>10. CallInv
  BY <1>1, <1>3, <1>7 DEF CallInv, CallType
<1> QED
  BY <1>6, <1>8, <1>9, <1>10 DEF ServInv

\* Every step keeps the invariant.
LEMMA ServNextInv == ServInv /\ [ServNext]_servVars => ServInv'
<1> SUFFICES ASSUME ServInv, [ServNext]_servVars PROVE ServInv'
  OBVIOUS
<1>1. CASE \E n \in Counts : Screate(n)
  BY <1>1, ScreateKeeps
<1>2. CASE \E s \in Sems : Wait(s)
  BY <1>2, WaitKeeps
<1>3. CASE \E s \in Sems, n \in Counts : Sreset(s, n)
  BY <1>3, SresetKeeps
<1>4. CASE \E s \in Sems : Sdelete(s)
  BY <1>4, SdeleteKeeps
<1>5. CASE \E s \in Sems : Signal(s)
  BY <1>5, SignalKeeps
<1>6. CASE \E s \in Sems, n \in Counts : Signaln(s, n)
  BY <1>6, SignalnKeeps
<1>7. CASE WaitReturns
  BY <1>7, WaitReturnsKeeps
<1>8. CASE \E n \in Delays : Sleep(n)
  BY <1>8, SleepKeeps
<1>9. CASE \E n \in Delays : Recvtim(n)
  BY <1>9, RecvtimKeeps
<1>10. CASE Tick \/ Preempt
  BY <1>10, TickKeeps, PreemptKeeps DEF Tick, Preempt
<1>11. CASE TakeMessage \/ ReceiveReturns
  BY <1>11, TakesMessage
<1>12. CASE Receive
  BY <1>12, ReceiveKeeps
<1>13. CASE \E p \in UserPids : Send(p)
  BY <1>13, SendKeeps
<1>14. CASE \E p \in UserPids : Resume(p)
  BY <1>14, ResumeKeeps
<1>15. CASE \E p \in UserPids : Suspend(p)
  BY <1>15, SuspendKeeps
<1>16. CASE \E p \in UserPids : Kill(p)
  BY <1>16, KillKeeps
<1>17. CASE \E nok \in Kin, p \in UserPids : Setnok(nok, p)
  BY <1>17, SetnokKeeps
<1>18. CASE \E n \in NewPrios : Create(n)
  BY <1>18, CreateKeeps
<1>19. CASE KillEnds
  BY <1>19, KillEndsKeeps
<1>20. CASE UNCHANGED servVars
  <2>1. UNCHANGED procVars /\ UNCHANGED semVars
        /\ UNCHANGED <<clockq, slnempty, sltop, due>>
        /\ UNCHANGED <<kcall, kvictim, phasmsg, pnxtkin>>
    BY <1>20 DEF servVars, callVars, msgVars, timeVars
  <2>2. TableInv' /\ \A p \in Procs : Stays(p)
    BY <2>1, TableUntouched DEF ServInv
  <2> QED
    BY <2>1, <2>2, Undisturbed
<1> QED
  BY <1>1, <1>2, <1>3, <1>4, <1>5, <1>6, <1>7, <1>8, <1>9, <1>10, <1>11, <1>12,
     <1>13, <1>14, <1>15, <1>16, <1>17, <1>18, <1>19, <1>20 DEF ServNext

\* In every reachable state the table, the lists and the calls agree.
THEOREM ServInvariant == ServSpec => []ServInv
BY ServInitInv, ServNextInv, PTL DEF ServSpec

\* What the invariant says of the properties.
LEMMA ServInvMeans ==
  ASSUME ServInv
  PROVE  ServTypeOK /\ CountIsWaiters /\ InItsPlace /\ CountsHead /\ WokenHasMessage
<1>1. ServTypeOK
  BY DEF ServInv, TableInv, SemInv, SemType, ClockInv, ClockEntries, CallInv, CallType,
         ServTypeOK
<1>2. CountIsWaiters /\ CountsHead
  BY DEF ServInv, SemInv, ClockInv
<1>3. InItsPlace
  <2>1. ASSUME NEW p \in Procs
        PROVE  /\ pstate[p] = "PRCURR" <=> p = currpid
               /\ pstate[p] = "PRREADY" <=> p \in Pids(rdy)
               /\ pstate[p] \in {"PRSLEEP", "PRTRECV"} <=> p \in Pids(clockq)
               /\ \A s \in Sems : pstate[p] = "PRWAIT" /\ psem[p] = s
                                  <=> p \in Range(semq[s])
    <3>1. pstate[p] = "PRCURR" <=> p = currpid
      BY DEF ServInv, TableInv
    <3>2. pstate[p] = "PRREADY" <=> p \in Pids(rdy)
      BY DEF ServInv, TableInv, ReadyMatches
    <3>3. pstate[p] \in {"PRSLEEP", "PRTRECV"} <=> p \in Pids(clockq)
      BY DEF ServInv, ClockInv
    <3>4. \A s \in Sems : pstate[p] = "PRWAIT" /\ psem[p] = s <=> p \in Range(semq[s])
      BY DEF ServInv, SemInv, InLine
    <3> QED
      BY <3>1, <3>2, <3>3, <3>4
  <2>2. Distinct(rdy) /\ Sorted(rdy) /\ Distinct(clockq)
    BY DEF ServInv, TableInv, ReadyMatches, ClockInv
  <2>3. \A s \in Sems : IsInjective(semq[s])
    BY DEF ServInv, SemInv, InLine
  <2> QED
    BY <2>1, <2>2, <2>3 DEF InItsPlace
<1>4. WokenHasMessage
  BY DEF ServInv, TableInv, ProcTypeOK, CallInv, WokenHasMessage
<1> QED
  BY <1>1, <1>2, <1>3, <1>4

\* The variables keep their types.
THEOREM ServTypeCorrect == ServSpec => []ServTypeOK
BY ServInvariant, ServInvMeans, PTL

\* A negative count of a semaphore is the number of its waiters: wait(),
\* signal(), signaln(), sreset(), sdelete() and kill() keep the two together.
THEOREM CountsTrusted == ServSpec => []CountIsWaiters
BY ServInvariant, ServInvMeans, PTL

\* Every process is on the list its state names and on no other, whatever
\* calls ready, block, wake, time out and kill processes in between.
THEOREM EveryoneInPlace == ServSpec => []InItsPlace
BY ServInvariant, ServInvMeans, PTL

\* The clock counts down the head of the delta list and nothing else.
THEOREM ClockCountsHead == ServSpec => []CountsHead
BY ServInvariant, ServInvMeans, PTL

\* A process that runs again inside of receive() has a message.
THEOREM ReceiversAreServed == ServSpec => []WokenHasMessage
BY ServInvariant, ServInvMeans, PTL

-------------------------------------------------------------------------------
(***************************************************************************)
(* The ticks a delay has left.                                             *)
(***************************************************************************)

\* Every key of the list is a number of ticks, and the delay of every entry is
\* the one its process asked for, or longer when a tick has been wasted.
DelaysGoOn(list, d, late) ==
  \A i \in 1..Len(list) :
    /\ list[i].key >= 0
    /\ TicksUntil(list, i) >= d[list[i].pid]
    /\ ~late => TicksUntil(list, i) = d[list[i].pid]

\* The keys and the ticks of a list as two functions.
TicksAndKeys(T, K, list) ==
  /\ T \in [0..Len(list) -> Int] /\ K \in [1..Len(list) -> Int]
  /\ T[0] = 0
  /\ \A n \in 0..Len(list) : T[n] = TicksUntil(list, n)
  /\ \A n \in 1..Len(list) : K[n] = list[n].key /\ T[n] = T[n - 1] + K[n]

\* Every list of delays has the two functions.
LEMMA TicksAndKeysExist ==
  ASSUME NEW list \in Seq(ClockEntries)
  PROVE  \E T, K : TicksAndKeys(T, K, list)
<1> DEFINE N == Len(list)
           T == [n \in 0..N |-> TicksUntil(list, n)]
           K == [n \in 1..N |-> list[n].key]
<1>1. N \in Nat /\ \A n \in 1..N : list[n] \in ClockEntries
  BY LenProperties
<1>2. \A n \in 1..N : list[n].key \in Int
  BY <1>1 DEF ClockEntries
<1>3. T \in [0..N -> Int] /\ K \in [1..N -> Int] /\ T[0] = 0
  BY <1>1, <1>2, TicksSteps
<1>4. \A n \in 0..N : T[n] = TicksUntil(list, n)
  OBVIOUS
<1>5. ASSUME NEW n \in 1..N PROVE K[n] = list[n].key /\ T[n] = T[n - 1] + K[n]
  <2>1. TicksUntil(list, n) = TicksUntil(list, n - 1) + list[n].key
    BY TicksSteps
  <2>2. n \in 0..N /\ n - 1 \in 0..N
    BY <1>1
  <2> QED
    BY <2>1, <2>2
<1> HIDE DEF T, K
<1> QED
  BY <1>3, <1>4, <1>5 DEF TicksAndKeys

\* insertd() delays nobody: the ticks of those in front and behind stay.
DeltaOpened(r, i, list, T, p, ticks) ==
  /\ Len(r) = Len(list) + 1
  /\ \A j \in 1..i - 1 :
       r[j].pid = list[j].pid /\ r[j].key >= 0 /\ TicksUntil(r, j) = T[j]
  /\ r[i].pid = p /\ r[i].key >= 0 /\ TicksUntil(r, i) = ticks
  /\ \A j \in i + 1..Len(list) + 1 :
       r[j].pid = list[j - 1].pid /\ r[j].key >= 0 /\ TicksUntil(r, j) = T[j - 1]

\* insertd() gives the new process its delay and leaves the others theirs.
LEMMA InsertDeltaTicks ==
  ASSUME NEW list \in Seq(ClockEntries), NEW p \in Procs, NEW ticks \in Nat,
         NEW T, NEW K, TicksAndKeys(T, K, list), \A n \in 1..Len(list) : K[n] >= 0
  PROVE  \E r \in Seq(ClockEntries), i \in 1..Len(list) + 1 :
           /\ r = InsertDelta(list, p, ticks) /\ DeltaOpened(r, i, list, T, p, ticks)
<1> DEFINE N == Len(list)
<1>1. N \in Nat /\ \A n \in 1..N : list[n] \in ClockEntries
  BY LenProperties
<1>2. PICK i \in 1..Len(list) + 1, mid \in Seq(ClockEntries) :
           /\ \A j \in 1..i - 1 : TicksUntil(list, j) < ticks
           /\ i <= Len(list) => ticks <= TicksUntil(list, i)
           /\ Shortened(mid, list, i, ticks - TicksUntil(list, i - 1))
           /\ DelayEntry(list, i, p, ticks) \in ClockEntries
           /\ InsertDelta(list, p, ticks) = InsertAt(mid, i, DelayEntry(list, i, p, ticks))
  BY InsertDeltaShape
<1>3. PICK e \in ClockEntries : e = DelayEntry(list, i, p, ticks)
  BY <1>2
<1>4. /\ T \in [0..N -> Int] /\ K \in [1..N -> Int] /\ T[0] = 0
      /\ \A n \in 0..N : T[n] = TicksUntil(list, n)
      /\ \A n \in 1..N : K[n] = list[n].key /\ T[n] = T[n - 1] + K[n] /\ K[n] >= 0
  BY DEF TicksAndKeys
<1>5. i - 1 \in 0..N /\ T[i - 1] \in Int /\ T[i - 1] = TicksUntil(list, i - 1)
  BY <1>1, <1>4
<1>6. e.pid = p /\ e.key = ticks - T[i - 1]
  BY <1>3, <1>5 DEF DelayEntry
<1>7. Len(mid) = N /\ \A j \in 1..N :
        mid[j] = IF j = i THEN [list[j] EXCEPT !.key = @ - (ticks - T[i - 1])] ELSE list[j]
  BY <1>2, <1>5 DEF Shortened
<1>8. \A j \in 1..N : mid[j].pid = list[j].pid
                      /\ mid[j].key = IF j = i THEN K[j] - (ticks - T[i - 1]) ELSE K[j]
  <2>1. ASSUME NEW j \in 1..N
        PROVE  mid[j].pid = list[j].pid
               /\ mid[j].key = IF j = i THEN K[j] - (ticks - T[i - 1]) ELSE K[j]
    <3>1. PICK x \in ClockEntries : x = list[j]
      BY <1>1
    <3>2. x.key = K[j]
      BY <1>4, <3>1
    <3>3. mid[j] = IF j = i THEN [x EXCEPT !.key = @ - (ticks - T[i - 1])] ELSE x
      BY <1>7, <3>1
    <3> QED
      BY <3>1, <3>2, <3>3 DEF ClockEntries
  <2> QED
    BY <2>1
<1>9. i \in 1..Len(mid) + 1
  BY <1>7
<1>10. PICK r \in Seq(ClockEntries) : r = InsertAt(mid, i, e) /\ OpenedAt(r, mid, i, e)
  BY <1>9, InsertAtShape
<1>11. /\ Len(r) = N + 1
       /\ \A j \in 1..N + 1 :
            r[j] = IF j <= i - 1 THEN mid[j] ELSE IF j = i THEN e ELSE mid[j - 1]
  BY <1>7, <1>10 DEF OpenedAt
<1>12. r = InsertDelta(list, p, ticks)
  BY <1>2, <1>3, <1>10
<1> HIDE DEF N
<1>13. \A j \in 1..i - 1 : r[j].pid = list[j].pid /\ r[j].key = K[j] /\ j \in 1..N
  <2>1. ASSUME NEW j \in 1..i - 1 PROVE r[j].pid = list[j].pid /\ r[j].key = K[j] /\ j \in 1..N
    <3>1. j \in 1..N /\ j \in 1..N + 1 /\ j <= i - 1 /\ j # i
      BY <1>1, <1>5
    <3> QED
      BY <1>8, <1>11, <3>1
  <2> QED
    BY <2>1
<1>14. r[i].pid = p /\ r[i].key = ticks - T[i - 1] /\ i \in 1..N + 1
  <2>1. i \in 1..N + 1 /\ ~(i <= i - 1)
    BY <1>1, <1>5
  <2> QED
    BY <1>6, <1>11, <2>1
<1>15. \A j \in i + 1..N + 1 :
         /\ r[j].pid = list[j - 1].pid /\ j - 1 \in 1..N /\ j \in 1..N + 1
         /\ r[j].key = IF j = i + 1 THEN K[j - 1] - (ticks - T[i - 1]) ELSE K[j - 1]
  <2>1. ASSUME NEW j \in i + 1..N + 1
        PROVE  /\ r[j].pid = list[j - 1].pid /\ j - 1 \in 1..N /\ j \in 1..N + 1
               /\ r[j].key = IF j = i + 1 THEN K[j - 1] - (ticks - T[i - 1]) ELSE K[j - 1]
    <3>1. j \in 1..N + 1 /\ j - 1 \in 1..N /\ ~(j <= i - 1) /\ j # i
          /\ (j - 1 = i <=> j = i + 1)
      BY <1>1, <1>14
    <3>2. r[j] = mid[j - 1]
      BY <1>11, <3>1
    <3> QED
      BY <1>8, <3>1, <3>2
  <2> QED
    BY <2>1
<1>16. T[i - 1] <= ticks
  <2>1. CASE i = 1
    BY <1>4, <2>1
  <2>2. CASE i # 1
    <3>1. i - 1 \in 1..i - 1
      BY <1>14, <2>2
    <3> QED
      BY <1>2, <1>5, <3>1
  <2> QED
    BY <2>1, <2>2
<1>17. i <= N => ticks <= T[i]
  <2>1. i <= N => i \in 0..N
    BY <1>1, <1>14
  <2> QED
    BY <1>2, <1>4, <2>1 DEF N
<1> DEFINE f == [j \in 0..N + 1 |-> IF j <= i - 1 THEN T[j] ELSE IF j = i THEN ticks
                                    ELSE T[j - 1]]
<1>18. f[0] = 0
  BY <1>1, <1>4, <1>5
<1>19. ASSUME NEW j \in 1..N + 1 PROVE f[j] = f[j - 1] + r[j].key /\ r[j].key >= 0
  <2>1. j \in 0..N + 1 /\ j - 1 \in 0..N + 1 /\ j \in Int /\ i \in Int
    BY <1>1, <1>14
  <2>2. CASE j <= i - 1
    <3>1. j \in 1..i - 1 /\ j - 1 <= i - 1 /\ j \in 1..N
      BY <1>13, <1>14, <2>2
    <3>2. f[j] = T[j] /\ f[j - 1] = T[j - 1] /\ r[j].key = K[j]
      BY <1>13, <2>1, <2>2, <3>1
    <3> QED
      BY <1>4, <3>1, <3>2
  <2>3. CASE j = i
    <3>1. f[j] = ticks /\ f[j - 1] = T[i - 1] /\ r[j].key = ticks - T[i - 1]
      BY <1>14, <2>1, <2>3
    <3> QED
      BY <1>5, <1>16, <3>1
  <2>4. CASE j = i + 1
    <3>1. f[j] = T[i] /\ f[j - 1] = ticks /\ i \in 1..N /\ j \in i + 1..N + 1
      BY <1>1, <1>14, <2>1, <2>4
    <3>2. r[j].key = K[i] - (ticks - T[i - 1])
      BY <1>15, <2>4, <3>1
    <3>3. T[i] = T[i - 1] + K[i] /\ T[i] \in Int /\ K[i] \in Int /\ ticks <= T[i]
      BY <1>4, <1>17, <3>1
    <3> QED
      BY <1>5, <3>1, <3>2, <3>3
  <2>5. CASE j > i + 1
    <3>1. f[j] = T[j - 1] /\ f[j - 1] = T[(j - 1) - 1] /\ j - 1 \in 1..N /\ j \in i + 1..N + 1
      BY <1>1, <1>14, <2>1, <2>5
    <3>2. r[j].key = K[j - 1]
      BY <1>15, <2>5, <3>1
    <3> QED
      BY <1>4, <3>1, <3>2
  <2> QED
    BY <2>1, <2>2, <2>3, <2>4, <2>5
<1>20. \A j \in 0..N + 1 : TicksUntil(r, j) = f[j]
  <2>1. PICK g : g = f
    OBVIOUS
  <2>2. g[0] = 0 /\ \A n \in 1..Len(r) : g[n] = g[n - 1] + r[n].key
    BY <1>11, <1>18, <1>19, <2>1
  <2> HIDE DEF f
  <2>3. \A n \in 0..Len(r) : TicksUntil(r, n) = g[n]
    BY <2>2, TicksAre
  <2> QED
    BY <1>11, <2>1, <2>3
<1>21. \A j \in 1..i - 1 : r[j].pid = list[j].pid /\ r[j].key >= 0 /\ TicksUntil(r, j) = T[j]
  <2>1. ASSUME NEW j \in 1..i - 1
        PROVE  r[j].pid = list[j].pid /\ r[j].key >= 0 /\ TicksUntil(r, j) = T[j]
    <3>1. j \in 0..N + 1 /\ j \in 1..N + 1 /\ j <= i - 1
      BY <1>13, <1>14, <1>1
    <3>2. f[j] = T[j]
      BY <3>1
    <3> QED
      BY <1>13, <1>19, <1>20, <3>1, <3>2
  <2> QED
    BY <2>1
<1>22. r[i].pid = p /\ r[i].key >= 0 /\ TicksUntil(r, i) = ticks
  <2>1. i \in 0..N + 1 /\ ~(i <= i - 1)
    BY <1>1, <1>14
  <2>2. f[i] = ticks
    BY <2>1
  <2> QED
    BY <1>14, <1>19, <1>20, <2>1, <2>2
<1>23. \A j \in i + 1..N + 1 :
         r[j].pid = list[j - 1].pid /\ r[j].key >= 0 /\ TicksUntil(r, j) = T[j - 1]
  <2>1. ASSUME NEW j \in i + 1..N + 1
        PROVE  r[j].pid = list[j - 1].pid /\ r[j].key >= 0 /\ TicksUntil(r, j) = T[j - 1]
    <3>1. j \in 0..N + 1 /\ j \in 1..N + 1 /\ ~(j <= i - 1) /\ j # i
      BY <1>1, <1>14
    <3>2. f[j] = T[j - 1]
      BY <3>1
    <3> QED
      BY <1>15, <1>19, <1>20, <3>1, <3>2
  <2> QED
    BY <2>1
<1> HIDE DEF f
<1> QED
  BY <1>11, <1>12, <1>14, <1>21, <1>22, <1>23 DEF N, DeltaOpened

\* A new delay leaves the others as they are.
LEMMA DelaysStart ==
  ASSUME NEW list \in Seq(ClockEntries), NEW p \in Procs, NEW ticks \in Nat,
         NEW d \in [Procs -> Int], NEW late, p \notin Pids(list), DelaysGoOn(list, d, late)
  PROVE  DelaysGoOn(InsertDelta(list, p, ticks), [d EXCEPT ![p] = ticks], late)
<1> DEFINE N == Len(list)
<1>1. N \in Nat /\ DOMAIN list = 1..N /\ \A n \in 1..N : list[n] \in ClockEntries
  BY LenProperties
<1>2. PICK T, K : TicksAndKeys(T, K, list)
  BY TicksAndKeysExist
<1>3. \A n \in 1..N : /\ K[n] = list[n].key /\ T[n] = TicksUntil(list, n)
                      /\ n \in 0..N
  BY <1>1, <1>2 DEF TicksAndKeys
<1>4. \A n \in 1..N : K[n] >= 0
  BY <1>3 DEF DelaysGoOn
<1>5. PICK r \in Seq(ClockEntries), i \in 1..Len(list) + 1 :
           /\ r = InsertDelta(list, p, ticks) /\ DeltaOpened(r, i, list, T, p, ticks)
  BY <1>2, <1>4, InsertDeltaTicks
<1> DEFINE e == [d EXCEPT ![p] = ticks]
<1>6. e[p] = ticks /\ \A n \in 1..N : e[list[n].pid] = d[list[n].pid]
  <2>1. ASSUME NEW n \in 1..N PROVE e[list[n].pid] = d[list[n].pid]
    <3>1. list[n].pid \in Procs /\ list[n].pid # p
      BY <1>1 DEF ClockEntries, Pids
    <3> QED
      BY <3>1
  <2> QED
    BY <2>1
<1> HIDE DEF e
<1>7. \A n \in 1..N : /\ T[n] >= d[list[n].pid]
                      /\ ~late => T[n] = d[list[n].pid]
  BY <1>3 DEF DelaysGoOn
<1>8. ASSUME NEW j \in 1..Len(r)
      PROVE  /\ r[j].key >= 0 /\ TicksUntil(r, j) >= e[r[j].pid]
             /\ ~late => TicksUntil(r, j) = e[r[j].pid]
  <2>1. j \in 1..N + 1 /\ i \in 1..N + 1
    BY <1>5 DEF DeltaOpened
  <2>2. CASE j \in 1..i - 1
    <3>1. j \in 1..N
      BY <1>1, <2>1, <2>2
    <3> QED
      BY <1>5, <1>6, <1>7, <2>2, <3>1 DEF DeltaOpened
  <2>3. CASE j = i
    BY <1>5, <1>6, <2>3 DEF DeltaOpened
  <2>4. CASE j \in i + 1..N + 1
    <3>1. j - 1 \in 1..N
      BY <1>1, <2>1, <2>4
    <3> QED
      BY <1>5, <1>6, <1>7, <2>4, <3>1 DEF DeltaOpened
  <2> QED
    BY <1>1, <2>1, <2>2, <2>3, <2>4
<1>9. DelaysGoOn(r, e, late)
  BY <1>8 DEF DelaysGoOn
<1> QED
  BY <1>5, <1>9 DEF e

\* unsleep() delays nobody and hurries nobody.
LEMMA DelaysStop ==
  ASSUME NEW list \in Seq(ClockEntries), NEW p \in Pids(list), Distinct(list),
         NEW d \in [Procs -> Int], NEW late, DelaysGoOn(list, d, late)
  PROVE  DelaysGoOn(RemoveDelta(list, p), d, late)
<1> DEFINE N == Len(list)
<1>1. N \in Nat /\ DOMAIN list = 1..N /\ \A n \in 1..N : list[n] \in ClockEntries
  BY LenProperties
<1>2. PICK T, K : TicksAndKeys(T, K, list)
  BY TicksAndKeysExist
<1>3. /\ T \in [0..N -> Int] /\ K \in [1..N -> Int] /\ T[0] = 0
      /\ \A n \in 1..N : /\ K[n] = list[n].key /\ T[n] = TicksUntil(list, n)
                         /\ T[n] = T[n - 1] + K[n] /\ n \in 0..N
  BY <1>1, <1>2 DEF TicksAndKeys
<1>4. \A n \in 1..N : /\ K[n] >= 0 /\ T[n] >= d[list[n].pid]
                      /\ ~late => T[n] = d[list[n].pid]
  BY <1>3 DEF DelaysGoOn
<1>5. PICK i \in 1..Len(list), mid \in Seq(ClockEntries) :
        Lengthened(mid, list, i) /\ RemoveDelta(list, p) = RemoveAt(mid, i)
  BY RemoveDeltaShape
<1>6. i \in 1..Len(mid) /\ Len(mid) = N
  BY <1>5 DEF Lengthened
<1>7. PICK r \in Seq(ClockEntries) : r = RemoveAt(mid, i) /\ ClosedAt(r, mid, i)
  BY <1>6, RemoveAtShape
<1>8. /\ Len(r) = N - 1
      /\ \A j \in 1..N - 1 : r[j] = IF j <= i - 1 THEN mid[j] ELSE mid[j + 1]
  BY <1>6, <1>7 DEF ClosedAt
<1>9. \A j \in 1..N : mid[j].pid = list[j].pid
                      /\ mid[j].key = IF j = i + 1 THEN K[j] + K[i] ELSE K[j]
  <2>1. ASSUME NEW j \in 1..N
        PROVE  mid[j].pid = list[j].pid
               /\ mid[j].key = IF j = i + 1 THEN K[j] + K[i] ELSE K[j]
    <3>1. PICK x \in ClockEntries : x = list[j]
      BY <1>1
    <3>2. x.key = K[j] /\ list[i].key = K[i]
      BY <1>3, <3>1
    <3>3. mid[j] = IF j = i + 1 THEN [x EXCEPT !.key = @ + K[i]] ELSE x
      BY <1>5, <3>1, <3>2 DEF Lengthened
    <3> QED
      BY <3>1, <3>2, <3>3 DEF ClockEntries
  <2> QED
    BY <2>1
<1> HIDE DEF N
<1> DEFINE f == [j \in 0..N - 1 |-> IF j <= i - 1 THEN T[j] ELSE T[j + 1]]
           at(j) == IF j <= i - 1 THEN j ELSE j + 1
<1>10. i \in 1..N
  BY <1>6
<1>11. \A j \in 1..N - 1 : /\ at(j) \in 1..N /\ r[j].pid = list[at(j)].pid
                           /\ r[j].key = IF j = i THEN K[i + 1] + K[i] ELSE K[at(j)]
  <2>1. ASSUME NEW j \in 1..N - 1
        PROVE  /\ at(j) \in 1..N /\ r[j].pid = list[at(j)].pid
               /\ r[j].key = IF j = i THEN K[i + 1] + K[i] ELSE K[at(j)]
    <3>1. CASE j <= i - 1
      <4>1. j \in 1..N /\ j # i + 1 /\ j # i /\ at(j) = j
        BY <1>1, <1>10, <3>1
      <4>2. r[j] = mid[j]
        BY <1>8, <3>1
      <4> QED
        BY <1>9, <4>1, <4>2
    <3>2. CASE ~(j <= i - 1)
      <4>1. j + 1 \in 1..N /\ at(j) = j + 1 /\ (j + 1 = i + 1 <=> j = i)
        BY <1>1, <1>10, <3>2
      <4>2. r[j] = mid[j + 1]
        BY <1>8, <3>2
      <4> QED
        BY <1>9, <4>1, <4>2
    <3> QED
      BY <3>1, <3>2
  <2> QED
    BY <2>1
<1>12. f[0] = 0
  BY <1>1, <1>3, <1>10
<1>13. ASSUME NEW j \in 1..N - 1 PROVE f[j] = f[j - 1] + r[j].key /\ f[j] = T[at(j)]
  <2>1. j \in 0..N - 1 /\ j - 1 \in 0..N - 1 /\ j \in 1..N /\ j + 1 \in 1..N /\ j \in Int
        /\ i \in Int
    BY <1>1, <1>10
  <2>2. CASE j <= i - 1
    <3>1. f[j] = T[j] /\ f[j - 1] = T[j - 1] /\ at(j) = j /\ j # i
      BY <2>1, <2>2
    <3> QED
      BY <1>3, <1>11, <2>1, <3>1
  <2>3. CASE j = i
    <3>1. f[j] = T[j + 1] /\ f[j - 1] = T[j - 1] /\ at(j) = j + 1
      BY <2>1, <2>3
    <3>2. r[j].key = K[j + 1] + K[j]
      BY <1>11, <2>3
    <3>3. T[j + 1] = T[j] + K[j + 1] /\ T[j] = T[j - 1] + K[j]
      <4>1. (j + 1) - 1 = j
        BY <2>1
      <4> QED
        BY <1>3, <2>1, <4>1
    <3>4. T[j - 1] \in Int /\ K[j] \in Int /\ K[j + 1] \in Int
      <4>1. j - 1 \in 0..N
        BY <1>1, <2>1
      <4> QED
        BY <1>3, <2>1, <4>1
    <3> HIDE DEF f, at
    <3> QED
      BY <3>1, <3>2, <3>3, <3>4
  <2>4. CASE j > i
    <3>1. f[j] = T[j + 1] /\ f[j - 1] = T[(j - 1) + 1] /\ at(j) = j + 1 /\ (j - 1) + 1 = j
          /\ (j + 1) - 1 = j /\ j # i
      BY <2>1, <2>4
    <3>2. r[j].key = K[j + 1]
      BY <1>11, <3>1
    <3> QED
      BY <1>3, <2>1, <3>1, <3>2
  <2> QED
    BY <2>1, <2>2, <2>3, <2>4
<1>14. \A j \in 0..N - 1 : TicksUntil(r, j) = f[j]
  <2>1. PICK g : g = f
    OBVIOUS
  <2>2. g[0] = 0 /\ \A n \in 1..Len(r) : g[n] = g[n - 1] + r[n].key
    BY <1>8, <1>12, <1>13, <2>1
  <2> HIDE DEF f, at
  <2>3. \A n \in 0..Len(r) : TicksUntil(r, n) = g[n]
    BY <2>2, TicksAre
  <2> QED
    BY <1>8, <2>1, <2>3
<1> HIDE DEF f, at
<1>15. ASSUME NEW j \in 1..Len(r)
       PROVE  /\ r[j].key >= 0 /\ TicksUntil(r, j) >= d[r[j].pid]
              /\ ~late => TicksUntil(r, j) = d[r[j].pid]
  <2>1. j \in 1..N - 1 /\ j \in 0..N - 1
    BY <1>1, <1>8
  <2>2. TicksUntil(r, j) = T[at(j)] /\ at(j) \in 1..N /\ r[j].pid = list[at(j)].pid
    BY <1>11, <1>13, <1>14, <2>1
  <2>3. r[j].key >= 0
    <3>1. K[at(j)] >= 0
      BY <1>4, <2>2
    <3>2. j = i => K[i] >= 0 /\ K[i + 1] >= 0 /\ K[i] \in Int /\ K[i + 1] \in Int
      <4>1. j = i => i \in 1..N /\ i + 1 \in 1..N
        BY <1>1, <2>1
      <4> QED
        BY <1>3, <1>4, <4>1
    <3> QED
      BY <1>11, <2>1, <3>1, <3>2
  <2> QED
    BY <1>4, <2>2, <2>3
<1>16. DelaysGoOn(r, d, late)
  BY <1>15 DEF DelaysGoOn
<1> QED
  BY <1>5, <1>7, <1>16

\* A tick takes one off every delay, unless the one at the head was over.
LEMMA DelaysCount ==
  ASSUME NEW list \in Seq(ClockEntries), NEW d \in [Procs -> Int], NEW late,
         DelaysGoOn(list, d, late), Len(list) >= 1,
         NEW mid \in Seq(ClockEntries), Shortened(mid, list, 1, 1),
         NEW k \in 0..Len(mid), NEW a, NEW b \in Seq(ClockEntries), CutAt(a, b, mid, k),
         \A j \in 1..k : mid[j].key <= 0, k < Len(mid) => mid[k + 1].key > 0,
         NEW e \in [Procs -> Int], NEW over,
         \A p \in Pids(b) : e[p] = (IF d[p] <= 0 THEN 0 ELSE d[p]) - 1,
         late => over, list[1].key <= 0 => over
  PROVE  DelaysGoOn(b, e, over)
<1> DEFINE N == Len(list)
<1>1. N \in Nat /\ N >= 1 /\ DOMAIN list = 1..N /\ \A n \in 1..N : list[n] \in ClockEntries
  BY LenProperties
<1>2. PICK T, K : TicksAndKeys(T, K, list)
  BY TicksAndKeysExist
<1>3. /\ T \in [0..N -> Int] /\ K \in [1..N -> Int] /\ T[0] = 0
      /\ \A n \in 1..N : /\ K[n] = list[n].key /\ T[n] = TicksUntil(list, n)
                         /\ T[n] = T[n - 1] + K[n] /\ n \in 0..N
  BY <1>1, <1>2 DEF TicksAndKeys
<1>4. \A n \in 1..N : /\ K[n] >= 0 /\ T[n] >= d[list[n].pid]
                      /\ ~late => T[n] = d[list[n].pid]
  BY <1>3 DEF DelaysGoOn
<1>5. Len(mid) = N /\ k \in 0..N
  BY DEF Shortened
<1>6. \A n \in 1..N : mid[n].pid = list[n].pid
                      /\ mid[n].key = IF n = 1 THEN K[1] - 1 ELSE K[n]
  <2>1. ASSUME NEW n \in 1..N
        PROVE  mid[n].pid = list[n].pid
               /\ mid[n].key = IF n = 1 THEN K[1] - 1 ELSE K[n]
    <3>1. PICK x \in ClockEntries : x = list[n]
      BY <1>1
    <3>2. x.key = K[n]
      BY <1>3, <3>1
    <3>3. mid[n] = IF n = 1 THEN [x EXCEPT !.key = @ - 1] ELSE x
      BY <3>1 DEF Shortened
    <3> QED
      BY <3>1, <3>2, <3>3 DEF ClockEntries
  <2> QED
    BY <2>1
<1>7. /\ Len(b) = N - k
      /\ \A j \in 1..N - k : /\ b[j] = mid[k + j] /\ k + j \in 1..N
                             /\ b[j].pid = list[k + j].pid
  <2>1. Len(b) = N - k /\ \A j \in 1..N - k : b[j] = mid[k + j]
    BY <1>5 DEF CutAt
  <2>2. \A j \in 1..N - k : k + j \in 1..N
    BY <1>1, <1>5
  <2> QED
    BY <1>6, <2>1, <2>2
<1> HIDE DEF N
<1>8. \A n \in 0..N : T[n] >= 0
  <2> DEFINE S == {n \in 0..N : T[n] >= 0}
  <2>1. 0 \in S
    BY <1>1, <1>3
  <2>2. ASSUME NEW n \in 1..N, n - 1 \in S PROVE n \in S
    <3>1. T[n] = T[n - 1] + K[n] /\ K[n] >= 0 /\ T[n - 1] >= 0 /\ n \in 0..N /\ n - 1 \in 0..N
      BY <1>1, <1>3, <1>4, <2>2
    <3>2. T[n] \in Int /\ T[n - 1] \in Int /\ K[n] \in Int
      BY <1>3, <3>1
    <3>3. T[n] >= 0
      BY <3>1, <3>2
    <3> QED
      BY <3>1, <3>3
  <2> HIDE DEF S
  <2>3. \A n \in 0..N : n \in S
    BY <1>1, <2>1, <2>2, UpTo
  <2> QED
    BY <2>3 DEF S
<1>9. \A n \in 0..k : n >= 1 => T[n] = K[1]
  <2> DEFINE S == {n \in 0..k : n >= 1 => T[n] = K[1]}
  <2>1. 0 \in S /\ k \in Nat
    BY <1>1, <1>5
  <2>2. ASSUME NEW n \in 1..k, n - 1 \in S PROVE n \in S
    <3>1. n \in 1..N /\ n - 1 \in 0..N /\ n \in 0..k /\ n \in Int
      BY <1>1, <1>5
    <3>2. T[n] = T[n - 1] + K[n] /\ T[n - 1] \in Int /\ K[n] \in Int
      BY <1>3, <3>1
    <3>3. CASE n = 1
      <4>1. T[n - 1] = 0
        BY <1>3, <3>3
      <4> QED
        BY <3>1, <3>2, <3>3, <4>1
    <3>4. CASE n # 1
      <4>1. K[n] >= 0 /\ K[n] <= 0
        <5>1. mid[n].key = K[n] /\ mid[n].key <= 0
          BY <1>6, <3>1, <3>4
        <5> QED
          BY <1>4, <3>1, <5>1
      <4>2. T[n - 1] = K[1]
        BY <2>2, <3>1, <3>4
      <4> QED
        BY <3>1, <3>2, <4>1, <4>2
    <3> QED
      BY <3>3, <3>4
  <2> HIDE DEF S
  <2>3. \A n \in 0..k : n \in S
    BY <2>1, <2>2, UpTo
  <2> QED
    BY <2>3 DEF S
<1>10. 1 \in 1..N /\ K[1] \in Int /\ K[1] >= 0 /\ k \in Int
  BY <1>1, <1>3, <1>4, <1>5
<1> DEFINE lost == IF k = 0 THEN 0 ELSE K[1] - 1
           f == [j \in 0..N - k |-> IF k + j = 0 THEN 0 ELSE T[k + j] - 1 - lost]
<1>11. /\ lost \in Int /\ (lost = 0 \/ lost = -1) /\ (lost = -1 => over)
       /\ k # 0 => T[k] - 1 = lost
  <2>1. CASE k = 0
    BY <2>1
  <2>2. CASE k # 0
    <3>1. 1 \in 1..k /\ k \in 0..k /\ k >= 1
      BY <1>5, <2>2
    <3>2. mid[1].key <= 0 /\ mid[1].key = K[1] - 1 /\ list[1].key = K[1]
      BY <1>3, <1>6, <1>10, <3>1
    <3>3. T[k] = K[1]
      BY <1>9, <3>1
    <3> QED
      BY <1>10, <2>2, <3>2, <3>3
  <2> QED
    BY <2>1, <2>2
<1> HIDE DEF lost
<1>12. f[0] = 0
  <2>1. 0 \in 0..N - k
    BY <1>1, <1>5
  <2>2. k + 0 = k
    BY <1>10
  <2>3. CASE k = 0
    BY <2>1, <2>2, <2>3
  <2>4. CASE k # 0
    <3>1. f[0] = T[k] - 1 - lost
      BY <2>1, <2>2, <2>4
    <3>2. T[k] \in Int
      BY <1>3, <1>5
    <3> QED
      BY <1>11, <2>4, <3>1, <3>2
  <2> QED
    BY <2>3, <2>4
<1>13. ASSUME NEW j \in 1..N - k
       PROVE  /\ f[j] = f[j - 1] + b[j].key /\ f[j] = T[k + j] - 1 - lost
              /\ b[j].key >= 0
  <2>1. /\ j \in 0..N - k /\ j - 1 \in 0..N - k /\ k + j \in 1..N /\ k + j # 0
        /\ k + (j - 1) = k + j - 1 /\ j \in Int /\ k + j \in Int
        /\ k + j - 1 \in 0..N /\ k + j \in 0..N
    BY <1>1, <1>5, <1>7
  <2>2. f[j] = T[k + j] - 1 - lost
    BY <2>1
  <2>3. b[j] = mid[k + j] /\ T[k + j] = T[k + j - 1] + K[k + j] /\ T[k + j - 1] \in Int
        /\ K[k + j] \in Int /\ K[k + j] >= 0
    <3>1. PICK m \in 1..N : m = k + j /\ m - 1 \in 0..N
      BY <2>1
    <3>2. T[m] = T[m - 1] + K[m] /\ T[m - 1] \in Int /\ K[m] \in Int /\ K[m] >= 0
      BY <1>3, <1>4, <3>1
    <3>3. m - 1 = k + j - 1
      BY <3>1
    <3>4. b[j] = mid[m]
      BY <1>7, <3>1
    <3> QED
      BY <3>1, <3>2, <3>3, <3>4, Zenon
  <2>4. CASE k + j = 1
    <3>1. k = 0 /\ j = 1 /\ lost = 0
      BY <1>5, <2>1, <2>4 DEF lost
    <3>2. f[j - 1] = 0 /\ T[k + j - 1] = 0
      BY <1>3, <1>12, <3>1
    <3>3. b[j].key = K[k + j] - 1
      BY <1>6, <1>10, <2>3, <2>4
    <3>4. mid[k + 1].key > 0
      BY <1>1, <1>5, <3>1
    <3> HIDE DEF f
    <3> QED
      BY <2>2, <2>3, <3>1, <3>2, <3>3, <3>4
  <2>5. CASE k + j # 1
    <3>1. f[j - 1] = T[k + j - 1] - 1 - lost
      BY <2>1, <2>5
    <3>2. b[j].key = K[k + j]
      BY <1>6, <2>1, <2>3, <2>5
    <3> HIDE DEF f
    <3> QED
      BY <1>11, <2>2, <2>3, <3>1, <3>2
  <2> QED
    BY <2>4, <2>5
<1>14. \A j \in 0..N - k : TicksUntil(b, j) = f[j]
  <2>1. PICK g : g = f
    OBVIOUS
  <2>2. g[0] = 0 /\ \A n \in 1..Len(b) : g[n] = g[n - 1] + b[n].key
    BY <1>7, <1>12, <1>13, <2>1
  <2> HIDE DEF f
  <2>3. \A n \in 0..Len(b) : TicksUntil(b, n) = g[n]
    BY <2>2, TicksAre
  <2> QED
    BY <1>7, <2>1, <2>3
<1> HIDE DEF f
<1>15. ASSUME NEW j \in 1..Len(b)
       PROVE  /\ b[j].key >= 0 /\ TicksUntil(b, j) >= e[b[j].pid]
              /\ ~over => TicksUntil(b, j) = e[b[j].pid]
  <2>1. j \in 1..N - k /\ j \in 0..N - k /\ k + j \in 1..N /\ k + j \in 0..N
        /\ b[j].pid = list[k + j].pid /\ DOMAIN b = 1..Len(b)
    BY <1>1, <1>5, <1>7, LenProperties
  <2>2. TicksUntil(b, j) = T[k + j] - 1 - lost /\ b[j].key >= 0
    BY <1>13, <1>14, <2>1
  <2>3. PICK p \in Procs : p = list[k + j].pid
    BY <1>1, <2>1 DEF ClockEntries
  <2>4. p \in Pids(b)
    BY <2>1, <2>3 DEF Pids
  <2>5. e[p] = (IF d[p] <= 0 THEN 0 ELSE d[p]) - 1 /\ d[p] \in Int
    BY <2>4
  <2>6. T[k + j] >= d[p] /\ (~late => T[k + j] = d[p]) /\ T[k + j] >= 0 /\ T[k + j] \in Int
    BY <1>3, <1>4, <1>8, <2>1, <2>3
  <2>7. PICK u, v, t : u = TicksUntil(b, j) /\ v = T[k + j] /\ t = d[p]
    OBVIOUS
  <2>8. /\ u = v - 1 - lost /\ v \in Int /\ t \in Int
        /\ v >= t /\ v >= 0 /\ (~late => v = t)
        /\ e[b[j].pid] = (IF t <= 0 THEN 0 ELSE t) - 1
    BY <2>1, <2>2, <2>3, <2>5, <2>6, <2>7
  <2>9. PICK w, c : w = e[b[j].pid] /\ c = lost
    OBVIOUS
  <2>10. /\ u = v - 1 - c /\ v \in Int /\ t \in Int /\ v >= t /\ v >= 0
         /\ w = (IF t <= 0 THEN 0 ELSE t) - 1 /\ (c = 0 \/ c = -1)
    BY <1>11, <2>8, <2>9
  <2>11. u >= w
    BY <2>10
  <2>12. ASSUME ~over PROVE u = w
    <3>1. c = 0 /\ v = t
      BY <1>11, <2>8, <2>9, <2>12
    <3> QED
      BY <2>10, <3>1
  <2> QED
    BY <2>2, <2>7, <2>9, <2>11, <2>12
<1> QED
  BY <1>15 DEF DelaysGoOn

DelayInv == DelaysGoOn(clockq, due, idled)

\* Every step leaves the delta list and what it is compared with alone, starts
\* a delay, ends one before its time, or is a clock interrupt.
LEMMA ClockSteps ==
  ASSUME ServInv, [ServNext]_servVars
  PROVE  \/ UNCHANGED timeVars
         \/ \E n \in Nat : StartDelay(n)
         \/ \E p \in Pids(clockq) : Unsleep(p)
         \/ ClockInterrupt
<1>1. \A p \in Procs : pstate[p] \in {"PRSLEEP", "PRTRECV"} => p \in Pids(clockq)
  BY DEF ServInv, ClockInv
<1>2. ASSUME NEW p \in UserPids, Deliver(p)
      PROVE  UNCHANGED timeVars \/ \E q \in Pids(clockq) : Unsleep(q)
  <2>1. pstate[p] = "PRTRECV" => p \in Pids(clockq)
    BY <1>1, UserIsProc
  <2> QED
    BY <1>2, <2>1 DEF Deliver
<1>3. CASE \E n \in Counts : Screate(n)
  BY <1>3 DEF Screate, ScreateWith
<1>4. CASE \E s \in Sems : Wait(s) \/ Signal(s) \/ Sdelete(s)
  BY <1>4 DEF Wait, WaitOn, Signal, SignalOn, SignalTimes, Sdelete
<1>5. CASE \E s \in Sems, n \in Counts : Signaln(s, n) \/ Sreset(s, n)
  BY <1>5 DEF Signaln, SignalTimes, Sreset
<1>6. CASE \E n \in Delays : Sleep(n) \/ Recvtim(n)
  BY <1>6, DelaysAssumption DEF Sleep, Recvtim
<1>7. CASE Tick \/ Preempt
  BY <1>7 DEF Tick, Preempt, QuantumEnds
<1>8. CASE WaitReturns \/ TakeMessage \/ Receive \/ ReceiveReturns
  BY <1>8 DEF WaitReturns, TakeMessage, Receive, ReceiveReturns
<1>9. CASE \E p \in UserPids : Send(p)
  BY <1>2, <1>9 DEF Send
<1>10. CASE \E p \in UserPids : Resume(p) \/ Suspend(p)
  BY <1>10 DEF Resume, Suspend
<1>11. CASE \E v \in UserPids : Kill(v)
  <2>1. PICK v \in UserPids : Kill(v)
    BY <1>11
  <2>2. CASE Accepts(pnxtkin[v])
    <3>1. PICK p \in UserPids : p = pnxtkin[v]
      BY <2>2 DEF Accepts
    <3>2. Deliver(p)
      BY <2>1, <2>2, <3>1 DEF Kill
    <3> QED
      BY <1>2, <3>2
  <2>3. CASE ~Accepts(pnxtkin[v])
    BY <2>1, <2>3 DEF Kill
  <2> QED
    BY <2>2, <2>3
<1>12. CASE \E nok \in Kin, p \in UserPids : Setnok(nok, p)
  BY <1>12 DEF Setnok
<1>13. CASE \E n \in NewPrios : Create(n)
  BY <1>13 DEF Create
<1>14. CASE KillEnds
  <2>1. /\ currpid \in Procs /\ kcall[currpid] = "kill" /\ kvictim[currpid] \in UserPids
    BY <1>14 DEF ServInv, TableInv, ProcTypeOK, CallInv, KillEnds
  <2>2. PICK p \in Procs : p = kvictim[currpid]
    BY <2>1, UserIsProc
  <2>3. pstate[p] \in {"PRSLEEP", "PRTRECV"} => p \in Pids(clockq)
    BY <1>1
  <2> QED
    BY <1>14, <2>2, <2>3
       DEF KillEnds, Suicide, BuryWaiter, BuryReady, BurySleeper, BuryOther
<1>15. CASE UNCHANGED servVars
  BY <1>15 DEF servVars
<1> QED
  BY <1>3, <1>4, <1>5, <1>6, <1>7, <1>8, <1>9, <1>10, <1>11, <1>12, <1>13, <1>14, <1>15
     DEF ServNext

\* Every step keeps the delays.
LEMMA ServNextDelays ==
  ASSUME ServInv, DelayInv, [ServNext]_servVars
  PROVE  DelayInv'
<1>1. PICK list \in Seq(ClockEntries) : list = clockq
  BY DEF ServInv, ClockInv
<1>2. PICK d \in [Procs -> Int] : d = due
  BY DEF ServInv, ClockInv
<1>3. Distinct(list) /\ DelaysGoOn(list, d, idled)
  BY <1>1, <1>2 DEF ServInv, ClockInv, DelayInv
<1>4. CASE UNCHANGED timeVars
  BY <1>4 DEF DelayInv, timeVars, DelaysGoOn
<1>5. CASE \E n \in Nat : StartDelay(n)
  <2>1. PICK n \in Nat : StartDelay(n)
    BY <1>5
  <2>2. PICK c \in Procs : c = currpid
    BY DEF ServInv, TableInv, ProcTypeOK
  <2>3. c \notin Pids(list)
    BY <1>1, <2>2 DEF ServInv, TableInv, ClockInv
  <2>4. PICK late : late = idled
    OBVIOUS
  <2>5. DelaysGoOn(list, d, late)
    BY <1>3, <2>4
  <2>6. DelaysGoOn(InsertDelta(list, c, n), [d EXCEPT ![c] = n], late)
    BY <2>3, <2>5, DelaysStart
  <2>7. /\ clockq' = InsertDelta(list, c, n) /\ due' = [d EXCEPT ![c] = n]
        /\ idled' = late
    BY <1>1, <1>2, <2>1, <2>2, <2>4 DEF StartDelay
  <2> QED
    BY <2>6, <2>7 DEF DelayInv
<1>6. CASE \E p \in Pids(clockq) : Unsleep(p)
  <2>1. PICK p \in Pids(list) : Unsleep(p)
    BY <1>1, <1>6
  <2>2. PICK late : late = idled
    OBVIOUS
  <2>3. DelaysGoOn(list, d, late)
    BY <1>3, <2>2
  <2>4. DelaysGoOn(RemoveDelta(list, p), d, late)
    BY <1>3, <2>3, DelaysStop
  <2>5. clockq' = RemoveDelta(list, p) /\ due' = d /\ idled' = late
    BY <1>1, <1>2, <2>1, <2>2 DEF Unsleep
  <2> QED
    BY <2>4, <2>5 DEF DelayInv
<1>7. CASE ClockInterrupt
  <2>1. slnempty /\ ClockInv /\ ClockInv'
    <3>1. ClockInv' /\ ClockInv
      BY <1>7, TickClock DEF ServInv
    <3> QED
      BY <1>7, <3>1 DEF ClockInterrupt
  <2>2. PICK mid \in Seq(ClockEntries) : mid = CountedDown
    BY <2>1, CountedDownShape
  <2>3. Shortened(mid, list, 1, 1) /\ Len(mid) >= 1 /\ Len(mid) = Len(list)
    BY <1>1, <2>1, <2>2, CountedDownShape DEF Shortened
  <2>4. PICK k \in 0..Len(mid) :
          /\ DuePrefix(mid) = SubSeq(mid, 1, k)
          /\ \A j \in 1..k : mid[j].key <= 0
          /\ k < Len(mid) => mid[k + 1].key > 0
    BY DuePrefixShape
  <2>5. /\ SubSeq(mid, 1, k) \in Seq(ClockEntries)
        /\ SubSeq(mid, k + 1, Len(mid)) \in Seq(ClockEntries)
        /\ CutAt(SubSeq(mid, 1, k), SubSeq(mid, k + 1, Len(mid)), mid, k)
    BY CutShape
  <2>6. PICK a \in Seq(ClockEntries) : a = SubSeq(mid, 1, k)
    BY <2>5
  <2>7. PICK b \in Seq(ClockEntries) : b = SubSeq(mid, k + 1, Len(mid))
    BY <2>5
  <2>8. CutAt(a, b, mid, k) /\ Len(a) = k
    BY <2>5, <2>6, <2>7 DEF CutAt
  <2>9. clockq' = b
    BY <1>7, <2>2, <2>4, <2>6, <2>7, <2>8 DEF ClockInterrupt
  <2>10. PICK e \in [Procs -> Int] : e = due'
    BY <2>1 DEF ClockInv
  <2>11. \A p \in Pids(b) : e[p] = (IF d[p] <= 0 THEN 0 ELSE d[p]) - 1
    <3>1. ASSUME NEW p \in Pids(b) PROVE e[p] = (IF d[p] <= 0 THEN 0 ELSE d[p]) - 1
      <4>1. p \in Procs
        <5>1. \A j \in 1..Len(b) : b[j] \in ClockEntries
          BY LenProperties
        <5>2. DOMAIN b = 1..Len(b)
          BY LenProperties
        <5> QED
          BY <5>1, <5>2 DEF Pids, ClockEntries
      <4>2. e[p] = Max({d[p], 0}) - 1
        BY <1>2, <1>7, <2>9, <2>10, <3>1, <4>1 DEF ClockInterrupt
      <4>3. PICK x \in Int : x = d[p]
        BY <4>1
      <4> DEFINE m == Max({x, 0})
      <4>4. m = IF 0 <= x THEN x ELSE 0
        BY Surplus
      <4> HIDE DEF m
      <4>5. m - 1 = (IF x <= 0 THEN 0 ELSE x) - 1
        BY <4>4
      <4> QED
        BY <4>2, <4>3, <4>5 DEF m
    <3> QED
      BY <3>1
  <2>12. PICK late, over : late = idled /\ over = idled'
    OBVIOUS
  <2>13. idled' = (idled \/ \E i \in DOMAIN list : list[i].pid = sltop /\ list[i].key <= 0)
    BY <1>1, <1>7 DEF ClockInterrupt
  <2>14. late => over
    BY <2>12, <2>13
  <2>15. list[1].key <= 0 => over
    <3>1. list # <<>> /\ sltop = Head(list).pid
      BY <1>1, <2>1 DEF ClockInv, CountsHead
    <3>2. Head(list).pid = list[1].pid /\ 1 \in DOMAIN list
      BY <2>3, <3>1, HeadPid, LenProperties
    <3> QED
      BY <2>12, <2>13, <3>1, <3>2
  <2>16. DelaysGoOn(list, d, late)
    BY <1>3, <2>12
  <2>17. DelaysGoOn(b, e, over)
    BY <2>3, <2>4, <2>8, <2>11, <2>14, <2>15, <2>16, DelaysCount
  <2> QED
    BY <2>9, <2>10, <2>12, <2>17 DEF DelayInv
<1> QED
  BY <1>4, <1>5, <1>6, <1>7, ClockSteps

\* No delay ends early, and none late but for a tick wasted on a delay of 0:
\* whoever else goes to sleep, is woken or dies in between.
THEOREM NobodyWakesEarly == ServSpec => []DelaysKept
<1>1. ServInit => DelayInv
  <2>1. ServInit => clockq = <<>> /\ Len(clockq) = 0
    BY DEF ServInit
  <2> QED
    BY <2>1 DEF DelayInv, DelaysGoOn
<1>2. ServInv /\ DelayInv /\ [ServNext]_servVars => DelayInv'
  BY ServNextDelays
<1>3. ServInv /\ DelayInv => DelaysKept
  <2> SUFFICES ASSUME ServInv, DelayInv PROVE DelaysKept
    OBVIOUS
  <2>1. DOMAIN clockq = 1..Len(clockq)
    BY LenProperties DEF ServInv, ClockInv
  <2> QED
    BY <2>1 DEF DelayInv, DelaysGoOn, DelaysKept
<1> QED
  BY <1>1, <1>2, <1>3, ServInvariant, PTL DEF ServSpec
-------------------------------------------------------------------------------
(***************************************************************************)
(* The refinement: ServSpec => ImplementsSemaphores.                       *)
(***************************************************************************)

\* The variables of CountingSemaphore under the refinement mapping.
SemVarsOf == <<OpenSems, Units, semq, StageOf, "sreset" \in uses>>

\* A process in line has not been refused yet.
WaitersNotRefused == \A p \in Procs : pstate[p] = "PRWAIT" => pwaitret[p] = "OK"

SemRefInv == ServInv /\ WaitersNotRefused

\* The actions of CountingSemaphore in the words of this module: those that
\* move one process or the units.
LEMMA SemActions ==
  ASSUME NEW s, NEW p
  PROVE  /\ Semaphores!OnlyUnitsOf(s) <=>
              /\ Units'[s] \in Nat
              /\ Units' = [Units EXCEPT ![s] = Units'[s]]
         /\ Semaphores!Open(s) <=>
              /\ s \notin OpenSems
              /\ OpenSems' = OpenSems \cup {s}
              /\ Semaphores!OnlyUnitsOf(s)
              /\ UNCHANGED <<semq, StageOf, "sreset" \in uses>>
         /\ Semaphores!Take(s) <=>
              /\ s \in OpenSems /\ Units[s] > 0
              /\ Units' = [Units EXCEPT ![s] = @ - 1]
              /\ UNCHANGED <<OpenSems, semq, StageOf, "sreset" \in uses>>
         /\ Semaphores!Join(s, p) <=>
              /\ s \in OpenSems /\ Units[s] = 0 /\ StageOf[p] = "out"
              /\ semq' = [semq EXCEPT ![s] = Append(@, p)]
              /\ StageOf' = [StageOf EXCEPT ![p] = "waiting"]
              /\ UNCHANGED <<OpenSems, Units, "sreset" \in uses>>
         /\ Semaphores!Leave(p) <=>
              /\ StageOf[p] \in {"passed", "refused"}
              /\ StageOf' = [StageOf EXCEPT ![p] = "out"]
              /\ UNCHANGED <<OpenSems, Units, semq, "sreset" \in uses>>
BY DEF Semaphores!Open, Semaphores!Take, Semaphores!Join, Semaphores!Leave,
       Semaphores!OnlyUnitsOf

\* CountingSemaphore's Stages under the mapping.
StagesOf(pids, new) ==
  [p \in Procs |-> IF p \in Range(pids) THEN new ELSE StageOf[p]]

\* Those that let a part of a line go.
LEMMA LineActions ==
  ASSUME NEW s
  PROVE  /\ Semaphores!Post(s) <=>
              /\ s \in OpenSems
              /\ \E served \in 0..Len(semq[s]) :
                   /\ semq' = [semq EXCEPT ![s] = SubSeq(@, served + 1, Len(@))]
                   /\ StageOf' = StagesOf(SubSeq(semq[s], 1, served), "passed")
                   /\ Units'[s] >= Units[s]
                   /\ Units'[s] > Units[s] => served = Len(semq[s])
              /\ Semaphores!OnlyUnitsOf(s)
              /\ UNCHANGED <<OpenSems, "sreset" \in uses>>
         /\ Semaphores!Reset(s) <=>
              /\ "sreset" \in uses /\ s \in OpenSems
              /\ semq' = [semq EXCEPT ![s] = <<>>]
              /\ StageOf' = StagesOf(semq[s], "passed")
              /\ Semaphores!OnlyUnitsOf(s)
              /\ UNCHANGED <<OpenSems, "sreset" \in uses>>
         /\ Semaphores!Close(s) <=>
              /\ s \in OpenSems /\ OpenSems' = OpenSems \ {s}
              /\ Units' = [Units EXCEPT ![s] = 0]
              /\ semq' = [semq EXCEPT ![s] = <<>>]
              /\ StageOf' = StagesOf(semq[s], "refused")
              /\ UNCHANGED ("sreset" \in uses)
BY DEF Semaphores!Post, Semaphores!Reset, Semaphores!Close, Semaphores!Stages,
       Semaphores!Range, StagesOf, Range

\* The death of a process in line.
LEMMA GivesUp ==
  ASSUME NEW p
  PROVE  Semaphores!GiveUp(p) <=>
           /\ StageOf[p] = "waiting"
           /\ StageOf' = [StageOf EXCEPT ![p] = "out"]
           /\ semq' = [s \in Sems |-> RemoveFirst(semq[s], p)]
           /\ UNCHANGED <<OpenSems, Units, "sreset" \in uses>>
BY DEF Semaphores!GiveUp, Semaphores!RemoveFirst, RemoveFirst, Semaphores!RemoveAt, RemoveAt, Semaphores!SelectInSeq, SelectInSeq, Semaphores!Min, Min

\* A step of one of these kinds is a step of CountingSemaphore.
LEMMA SemNext ==
  ASSUME NEW s \in Sems, NEW p \in Procs,
         \/ Semaphores!Open(s) \/ Semaphores!Take(s) \/ Semaphores!Post(s)
         \/ Semaphores!Reset(s) \/ Semaphores!Close(s) \/ Semaphores!Join(s, p)
         \/ Semaphores!Leave(p) \/ Semaphores!GiveUp(p)
         \/ UNCHANGED SemVarsOf
  PROVE  [Semaphores!Next]_(Semaphores!semaphoreVars)
BY DEF Semaphores!Next, Semaphores!semaphoreVars, SemVarsOf

\* Where a process is in line follows from four facts about it.
LEMMA StageOfProc ==
  ASSUME NEW p \in Procs
  PROVE  StageOf[p] = IF kcall[p] # "wait" \/ pstate[p] = "PRFREE" THEN "out"
                      ELSE IF pstate[p] = "PRWAIT" THEN "waiting"
                      ELSE IF pwaitret[p] = "OK" THEN "passed" ELSE "refused"
BY DEF StageOf, Stage

\* The units a count stands for.
LEMMA UnitsOfCount ==
  ASSUME NEW c \in Int
  PROVE  Max({0, c}) = IF c > 0 THEN c ELSE 0
<1> DEFINE m == Max({0, c})
<1>1. m = IF 0 <= c THEN c ELSE 0
  BY Surplus
<1> HIDE DEF m
<1>2. m = IF c > 0 THEN c ELSE 0
  BY <1>1
<1> QED
  BY <1>2 DEF m

\* The units of a semaphore follow from its state and its count, before and
\* after a step.
LEMMA UnitsOfSem ==
  ASSUME SemType, SemType', NEW s \in Sems
  PROVE  /\ Units[s] = IF s \in OpenSems /\ semcnt[s] > 0 THEN semcnt[s] ELSE 0
         /\ Units'[s] = IF s \in OpenSems' /\ semcnt'[s] > 0 THEN semcnt'[s] ELSE 0
<1>1. PICK c \in Int : c = semcnt[s]
  BY DEF SemType
<1>2. PICK d \in Int : d = semcnt'[s]
  BY DEF SemType
<1>3. /\ Units[s] = IF s \in OpenSems THEN Max({0, c}) ELSE 0
      /\ Units'[s] = IF s \in OpenSems' THEN Max({0, d}) ELSE 0
  BY <1>1, <1>2 DEF Units
<1>4. /\ Max({0, c}) = IF c > 0 THEN c ELSE 0
      /\ Max({0, d}) = IF d > 0 THEN d ELSE 0
  BY UnitsOfCount
<1> QED
  BY <1>1, <1>2, <1>3, <1>4

\* Only the units of one semaphore have changed.
LEMMA OneUnitMoves ==
  ASSUME NEW s \in Sems, \A r \in Sems \ {s} : Units'[r] = Units[r]
  PROVE  Units' = [Units EXCEPT ![s] = Units'[s]]
<1>1. PICK U : U = Units
  OBVIOUS
<1>2. PICK V : V = Units'
  OBVIOUS
<1>3. U = [r \in Sems |-> U[r]] /\ V = [r \in Sems |-> V[r]]
  BY <1>1, <1>2 DEF Units
<1>4. V = [U EXCEPT ![s] = V[s]]
  BY <1>1, <1>2, <1>3
<1> QED
  BY <1>1, <1>2, <1>4

\* Only one process has moved.
LEMMA OneStageMoves ==
  ASSUME NEW p \in Procs, NEW new, StageOf'[p] = new,
         \A q \in Procs \ {p} : StageOf'[q] = StageOf[q]
  PROVE  StageOf' = [StageOf EXCEPT ![p] = new]
<1>1. PICK U : U = StageOf
  OBVIOUS
<1>2. PICK V : V = StageOf'
  OBVIOUS
<1>3. U = [r \in Procs |-> U[r]] /\ V = [r \in Procs |-> V[r]]
  BY <1>1, <1>2 DEF StageOf
<1>4. V = [U EXCEPT ![p] = new]
  BY <1>1, <1>2, <1>3
<1> QED
  BY <1>1, <1>2, <1>4

\* Who waits follows from the lines.
LEMMA WaitersFromLines ==
  ASSUME SemInv, SemInv', psem' = psem, NEW s \in Sems,
         \A r \in Sems \ {s} : semq'[r] = semq[r],
         Range(semq'[s]) \subseteq Range(semq[s])
  PROVE  /\ \A p \in Range(semq[s]) \ Range(semq'[s]) :
              p \in Procs /\ pstate[p] = "PRWAIT" /\ pstate'[p] # "PRWAIT"
         /\ \A p \in Procs : p \notin Range(semq[s]) \ Range(semq'[s])
                             => (pstate'[p] = "PRWAIT" <=> pstate[p] = "PRWAIT")
<1>1. /\ \A r \in Sems : InLine(r)
      /\ \A r \in Sems : InLine(r)'
      /\ psem \in [Procs -> Sems]
  BY DEF SemInv, SemType
<1>2. ASSUME NEW p \in Range(semq[s]) \ Range(semq'[s])
      PROVE  p \in Procs /\ pstate[p] = "PRWAIT" /\ pstate'[p] # "PRWAIT"
  <2>1. p \in Procs /\ pstate[p] = "PRWAIT" /\ psem[p] = s
    BY WaitersWait
  <2> QED
    BY <1>1, <1>2, <2>1 DEF InLine
<1>3. ASSUME NEW p \in Procs, p \notin Range(semq[s]) \ Range(semq'[s])
      PROVE  pstate'[p] = "PRWAIT" <=> pstate[p] = "PRWAIT"
  <2>1. p \in Range(semq'[psem[p]]) <=> p \in Range(semq[psem[p]])
    BY <1>1, <1>3
  <2>2. /\ pstate[p] = "PRWAIT" <=> p \in Range(semq[psem[p]])
        /\ pstate'[p] = "PRWAIT" <=> p \in Range(semq'[psem[p]])
    BY <1>1 DEF InLine
  <2> QED
    BY <2>1, <2>2
<1> QED
  BY <1>2, <1>3

\* A call that touches no semaphore, neither enters nor leaves wait() and
\* neither creates nor ends a process does not show.
LEMMA QuietStep ==
  ASSUME SemRefInv, ServInv', SameProcesses, UNCHANGED semVars, uses' = uses,
         \A p \in Procs : kcall'[p] = "wait" <=> kcall[p] = "wait"
  PROVE  WaitersNotRefused' /\ UNCHANGED SemVarsOf
<1>1. /\ SemInv /\ SemInv' /\ psem' = psem /\ semq' = semq /\ pwaitret' = pwaitret
      /\ sstate' = sstate /\ semcnt' = semcnt
  BY DEF SemRefInv, ServInv, semVars
<1>2. PICK s \in Sems : TRUE
  BY NSEMAssumption DEF Sems
<1>3. \A p \in Procs : pstate'[p] = "PRWAIT" <=> pstate[p] = "PRWAIT"
  BY <1>1, WaitersFromLines
<1>4. \A p \in Procs : Stage(p)' = Stage(p)
  BY <1>1, <1>3 DEF Stage, SameProcesses
<1>5. StageOf' = StageOf
  BY <1>4 DEF StageOf
<1>6. OpenSems' = OpenSems /\ Units' = Units
  BY <1>1 DEF OpenSems, Units
<1> QED
  BY <1>1, <1>3, <1>5, <1>6 DEF SemRefInv, WaitersNotRefused, SemVarsOf

\* screate() opens a semaphore.
LEMMA ScreateOpens ==
  ASSUME SemRefInv, NEW n \in Counts, Screate(n)
  PROVE  WaitersNotRefused' /\ [Semaphores!Next]_(Semaphores!semaphoreVars)
<1>1. NewSem \in FreeSems /\ NewSem \in Sems
  BY NewSemFree DEF SemRefInv, ServInv, SemInv, SemType, Screate, ScreateWith
<1>2. PICK s \in Sems : s = NewSem
  BY <1>1
<1>3. /\ sstate' = [sstate EXCEPT ![s] = "SUSED"] /\ sstate[s] = "SFREE"
      /\ semcnt' = [semcnt EXCEPT ![s] = n]
      /\ semq' = semq /\ pwaitret' = pwaitret /\ pstate' = pstate
      /\ kcall' = kcall /\ uses' = uses
  BY <1>1, <1>2 DEF Screate, ScreateWith, procVars, callVars, FreeSems
<1>4. SemType /\ SemType' /\ n \in Nat
  BY ScreateKeeps, DelaysAssumption DEF SemRefInv, ServInv, SemInv
<1>5. s \notin OpenSems /\ OpenSems' = OpenSems \cup {s}
  BY <1>3, <1>4 DEF OpenSems, SemType
<1>6. \A r \in Sems : /\ Units[r] = IF r \in OpenSems /\ semcnt[r] > 0 THEN semcnt[r] ELSE 0
                      /\ Units'[r] = IF r \in OpenSems' /\ semcnt'[r] > 0
                                     THEN semcnt'[r] ELSE 0
  BY <1>4, UnitsOfSem
<1>7. Units'[s] \in Nat /\ \A r \in Sems \ {s} : Units'[r] = Units[r]
  <2>1. semcnt'[s] = n /\ \A r \in Sems \ {s} : semcnt'[r] = semcnt[r]
    BY <1>3, <1>4 DEF SemType
  <2>2. \A r \in Sems \ {s} : r \in OpenSems' <=> r \in OpenSems
    BY <1>5
  <2>3. Units'[s] \in Nat
    BY <1>4, <1>6, <2>1
  <2> QED
    BY <1>6, <2>1, <2>2, <2>3
<1>8. Units' = [Units EXCEPT ![s] = Units'[s]]
  BY <1>7, OneUnitMoves
<1>9. StageOf' = StageOf
  BY <1>3 DEF StageOf, Stage
<1>10. Semaphores!Open(s)
  BY <1>3, <1>5, <1>7, <1>8, <1>9, SemActions
<1> QED
  BY <1>3, <1>10, NullIsProc, SemNext DEF SemRefInv, WaitersNotRefused

\* wait() takes a unit or joins the line.
LEMMA WaitTakesOrJoins ==
  ASSUME SemRefInv, NEW s \in Sems, Wait(s)
  PROVE  WaitersNotRefused' /\ [Semaphores!Next]_(Semaphores!semaphoreVars)
<1>1. /\ ServInv' /\ SameProcesses
      /\ SemType /\ SemType' /\ SemInv /\ SemInv' /\ CallType
  BY WaitKeeps DEF SemRefInv, ServInv, SemInv, CallInv
<1>2. /\ currpid \in Procs /\ currpid \in UserPids /\ pstate[currpid] = "PRCURR"
      /\ kcall[currpid] = "none"
  BY CallerRuns DEF Wait, SemRefInv
<1>3. /\ sstate[s] = "SUSED" /\ sstate' = sstate /\ uses' = uses
      /\ semcnt' = [semcnt EXCEPT ![s] = semcnt[s] - 1]
  BY DEF Wait, WaitOn
<1>4. s \in OpenSems /\ OpenSems' = OpenSems
  BY <1>3 DEF OpenSems
<1>5. \A r \in Sems : /\ Units[r] = IF r \in OpenSems /\ semcnt[r] > 0 THEN semcnt[r] ELSE 0
                      /\ Units'[r] = IF r \in OpenSems' /\ semcnt'[r] > 0
                                     THEN semcnt'[r] ELSE 0
  BY <1>1, UnitsOfSem
<1>6. /\ \A r \in Sems \ {s} : Units'[r] = Units[r]
      /\ semcnt[s] \in Int /\ semcnt'[s] = semcnt[s] - 1
  BY <1>1, <1>3, <1>4, <1>5 DEF SemType
<1>7. Units' = [Units EXCEPT ![s] = Units'[s]]
  BY <1>6, OneUnitMoves
<1>8. CASE semcnt[s] > 0
  <2>1. UNCHANGED <<pstate, kcall, semq, pwaitret>>
    BY <1>8 DEF Wait, WaitOn
  <2>2. StageOf' = StageOf
    BY <2>1 DEF StageOf, Stage
  <2>3. Units[s] > 0 /\ Units'[s] = Units[s] - 1
    BY <1>4, <1>5, <1>6, <1>8
  <2>4. Semaphores!Take(s)
    BY <1>3, <1>4, <1>7, <2>1, <2>2, <2>3, SemActions
  <2> QED
    BY <2>1, <2>4, NullIsProc, SemNext DEF SemRefInv, WaitersNotRefused
<1>9. CASE ~(semcnt[s] > 0)
  <2>1. PICK c \in Procs : c = currpid
    BY <1>2
  <2>2. /\ kcall' = [kcall EXCEPT ![c] = "wait"] /\ psem' = [psem EXCEPT ![c] = s]
        /\ semq' = [semq EXCEPT ![s] = Append(semq[s], c)]
        /\ pwaitret' = [pwaitret EXCEPT ![c] = "OK"]
    BY <1>9, <2>1 DEF Wait, WaitOn, Entering, Enqueued
  <2>3. /\ kcall'[c] = "wait" /\ psem'[c] = s /\ pwaitret'[c] = "OK"
        /\ \A q \in Procs \ {c} : kcall'[q] = kcall[q] /\ pwaitret'[q] = pwaitret[q]
    BY <1>1, <2>2 DEF SemType, CallType
  <2>4. \A p \in Procs : \/ Stays(p)
                         \/ p = c /\ pstate'[p] = "PRWAIT" /\ kcall'[p] = "wait"
    <3>1. UNCHANGED <<pprio, pinh, nextproc>>
      BY DEF Wait, WaitOn
    <3>2. WaitOn(s) /\ currpid # NULLPROC
      BY DEF Wait, Calling
    <3> QED
      BY <2>1, <3>1, <3>2, WaitSem DEF SemRefInv
  <2>5. pstate'[c] = "PRWAIT"
    <3>1. semq'[s] = Append(semq[s], c) /\ semq[s] \in Seq(UserPids)
      BY <1>1, <2>2 DEF SemType
    <3>2. c \in Range(semq'[s])
      <4>1. PICK line \in Seq(UserPids) : line = semq[s]
        BY <3>1
      <4>2. Len(line) + 1 \in DOMAIN Append(line, c) /\ Append(line, c)[Len(line) + 1] = c
        BY <1>2, <2>1, LenProperties
      <4> QED
        BY <3>1, <4>1, <4>2 DEF Range
    <3> QED
      BY <1>1, <3>2 DEF SemInv, InLine
  <2>6. /\ StageOf[c] = "out" /\ StageOf'[c] = "waiting"
        /\ \A q \in Procs \ {c} : StageOf'[q] = StageOf[q]
    <3>1. StageOf[c] = "out"
      BY <1>2, <2>1 DEF StageOf, Stage
    <3>2. StageOf'[c] = "waiting"
      BY <2>3, <2>5 DEF StageOf, Stage
    <3>3. ASSUME NEW q \in Procs \ {c} PROVE Stage(q)' = Stage(q)
      <4>1. Stays(q)
        BY <2>4
      <4> QED
        BY <2>3, <4>1, StaysMeans DEF Stage
    <3> QED
      BY <3>1, <3>2, <3>3 DEF StageOf
  <2>7. StageOf' = [StageOf EXCEPT ![c] = "waiting"]
    BY <2>6, OneStageMoves
  <2>8. Units[s] = 0 /\ Units' = Units
    <3>1. Units[s] = 0 /\ Units'[s] = 0
      BY <1>4, <1>5, <1>6, <1>9
    <3> QED
      BY <1>6, <3>1 DEF Units
  <2>9. Semaphores!Join(s, c)
    BY <1>3, <1>4, <2>2, <2>6, <2>7, <2>8, SemActions
  <2>10. WaitersNotRefused'
    BY <2>3, <2>4, StaysMeans DEF SemRefInv, WaitersNotRefused
  <2> QED
    BY <2>9, <2>10, SemNext
<1> QED
  BY <1>8, <1>9

\* A line loses its head, or all of it, and those who left it are on their way:
\* how the stages move.
LEMMA StagesMove ==
  ASSUME SemRefInv, ServInv', SameProcesses, UNCHANGED <<psem, kcall>>,
         NEW s \in Sems, NEW pids \in Seq(UserPids),
         \A r \in Sems \ {s} : semq'[r] = semq[r],
         Range(pids) \subseteq Range(semq[s]),
         Range(semq'[s]) = Range(semq[s]) \ Range(pids),
         NEW ret \in {"OK", "DELETED"},
         \A p \in Range(pids) : pwaitret'[p] = ret,
         \A p \in Procs \ Range(pids) : pwaitret'[p] = pwaitret[p]
  PROVE  /\ WaitersNotRefused'
         /\ StageOf' = StagesOf(pids, IF ret = "OK" THEN "passed" ELSE "refused")
<1>1. SemInv /\ SemInv' /\ CallInv
  BY DEF SemRefInv, ServInv
<1>2. Range(semq[s]) \ Range(semq'[s]) = Range(pids)
  OBVIOUS
<1>3. /\ \A p \in Range(pids) : p \in Procs /\ pstate[p] = "PRWAIT" /\ pstate'[p] # "PRWAIT"
      /\ \A p \in Procs : p \notin Range(pids)
                          => (pstate'[p] = "PRWAIT" <=> pstate[p] = "PRWAIT")
  BY <1>1, <1>2, WaitersFromLines
<1>4. ASSUME NEW p \in Procs, p \in Range(pids)
      PROVE  Stage(p)' = IF ret = "OK" THEN "passed" ELSE "refused"
  <2>1. kcall[p] = "wait" /\ pstate[p] = "PRWAIT" /\ pstate'[p] # "PRWAIT"
        /\ pstate'[p] # "PRFREE"
    BY <1>1, <1>3, <1>4 DEF CallInv, SameProcesses
  <2> QED
    BY <1>4, <2>1 DEF Stage
<1>5. ASSUME NEW p \in Procs, p \notin Range(pids) PROVE Stage(p)' = Stage(p)
  BY <1>3, <1>5 DEF Stage, SameProcesses
<1>6. WaitersNotRefused'
  BY <1>3 DEF SemRefInv, WaitersNotRefused
<1> QED
  BY <1>4, <1>5, <1>6 DEF StageOf, StagesOf

\* signal() and signaln() post units.
LEMMA SignalsPost ==
  ASSUME SemRefInv, ServInv', SameProcesses, NEW s \in Sems, NEW n \in Nat,
         SignalTimes(s, n)
  PROVE  WaitersNotRefused' /\ [Semaphores!Next]_(Semaphores!semaphoreVars)
<1>1. SemInv /\ SemType /\ SemType'
  BY DEF SemRefInv, ServInv, SemInv
<1>2. /\ sstate[s] = "SUSED" /\ sstate' = sstate /\ UNCHANGED <<psem, pwaitret, kcall, uses>>
      /\ semcnt' = [semcnt EXCEPT ![s] = semcnt[s] + n]
      /\ semq' = [semq EXCEPT ![s] =
                    SubSeq(semq[s], Len(Woken(s, n)) + 1, Len(semq[s]))]
  BY DEF SignalTimes, callVars
<1>3. PICK a, b \in Seq(UserPids) :
           /\ a = Woken(s, n) /\ b = SubSeq(semq[s], Len(Woken(s, n)) + 1, Len(semq[s]))
           /\ IsInjective(a) /\ IsInjective(b)
           /\ Range(a) \subseteq Range(semq[s]) /\ Range(b) = Range(semq[s]) \ Range(a)
           /\ Len(a) = IF n <= Len(semq[s]) THEN n ELSE Len(semq[s])
           /\ Len(b) = Len(semq[s]) - Len(a)
  BY <1>1, <1>2, WokenLine
<1>4. /\ semq[s] \in Seq(UserPids) /\ semq'[s] = b
      /\ \A r \in Sems \ {s} : semq'[r] = semq[r]
  BY <1>1, <1>2, <1>3 DEF SemType
<1>5. /\ semcnt[s] \in Int /\ semcnt'[s] = semcnt[s] + n
      /\ \A r \in Sems \ {s} : semcnt'[r] = semcnt[r]
      /\ Len(semq[s]) \in Nat
      /\ Len(semq[s]) = IF 0 <= semcnt[s] THEN 0 ELSE 0 - semcnt[s]
  <2>1. semcnt[s] \in Int /\ Len(semq[s]) = -Min({0, semcnt[s]})
    BY <1>1, <1>2 DEF SemInv, SemType, CountIsWaiters
  <2>2. -Min({0, semcnt[s]}) = IF 0 <= semcnt[s] THEN 0 ELSE 0 - semcnt[s]
    BY <2>1, Deficit
  <2> QED
    BY <1>1, <1>2, <1>4, <2>1, <2>2, LenProperties DEF SemType
<1>6. PICK k \in 0..Len(semq[s]) :
        k = Len(a) /\ k = IF n <= Len(semq[s]) THEN n ELSE Len(semq[s])
  BY <1>3, <1>5
<1>7. a = SubSeq(semq[s], 1, k)
  <2>1. PICK line \in Seq(UserPids) : line = semq[s]
    BY <1>4
  <2>2. PICK j : j = Min({n, -Min({0, semcnt[s]})})
    OBVIOUS
  <2>3. a = SubSeq(line, 1, j)
    BY <1>3, <2>1, <2>2 DEF Woken
  <2>4. j = k
    <3>1. -Min({0, semcnt[s]}) = Len(semq[s])
      BY <1>1, <1>2 DEF SemInv, CountIsWaiters
    <3>2. PICK len \in Int : len = Len(semq[s])
      BY <1>5
    <3>3. j = Min({n, len})
      BY <2>2, <3>1, <3>2
    <3>4. Min({n, len}) = IF n <= len THEN n ELSE len
      BY MinMaxOfTwo
    <3> QED
      BY <1>6, <3>2, <3>3, <3>4
  <2> QED
    BY <2>1, <2>3, <2>4
<1>8. semq' = [semq EXCEPT ![s] = SubSeq(semq[s], k + 1, Len(semq[s]))]
  BY <1>2, <1>3, <1>6
<1>9. PICK ret \in {"OK", "DELETED"} : ret = "OK"
  OBVIOUS
<1>10. /\ \A p \in Range(a) : pwaitret'[p] = ret
       /\ \A p \in Procs \ Range(a) : pwaitret'[p] = pwaitret[p]
  <2>1. \A p \in Range(a) : p \in Procs /\ pstate[p] = "PRWAIT"
    BY <1>1, <1>3, WaitersWait
  <2> QED
    BY <1>2, <1>9, <2>1 DEF SemRefInv, WaitersNotRefused
<1>11. /\ WaitersNotRefused'
       /\ StageOf' = StagesOf(a, IF ret = "OK" THEN "passed" ELSE "refused")
  <2>1. UNCHANGED <<psem, kcall>> /\ Range(semq'[s]) = Range(semq[s]) \ Range(a)
    BY <1>2, <1>3, <1>4
  <2> QED
    BY <1>3, <1>4, <1>10, <2>1, StagesMove
<1>12. StageOf' = StagesOf(SubSeq(semq[s], 1, k), "passed")
  BY <1>7, <1>9, <1>11
<1>13. s \in OpenSems /\ OpenSems' = OpenSems
  BY <1>2 DEF OpenSems
<1>14. \A r \in Sems : /\ Units[r] = IF r \in OpenSems /\ semcnt[r] > 0 THEN semcnt[r] ELSE 0
                       /\ Units'[r] = IF r \in OpenSems' /\ semcnt'[r] > 0
                                      THEN semcnt'[r] ELSE 0
  BY <1>1, UnitsOfSem
<1>15. \A r \in Sems \ {s} : Units'[r] = Units[r]
  BY <1>5, <1>13, <1>14
<1>16. /\ Units'[s] \in Nat /\ Units'[s] >= Units[s]
       /\ Units'[s] > Units[s] => k = Len(semq[s])
  <2>1. /\ Units[s] = IF semcnt[s] > 0 THEN semcnt[s] ELSE 0
        /\ Units'[s] = IF semcnt[s] + n > 0 THEN semcnt[s] + n ELSE 0
    BY <1>5, <1>13, <1>14
  <2> QED
    BY <1>5, <1>6, <2>1
<1>17. Units' = [Units EXCEPT ![s] = Units'[s]]
  BY <1>15, OneUnitMoves
<1>18. Semaphores!OnlyUnitsOf(s)
  BY <1>16, <1>17, SemActions
<1>19. Semaphores!Post(s)
  BY <1>2, <1>6, <1>8, <1>12, <1>13, <1>16, <1>18, LineActions
<1> QED
  BY <1>11, <1>19, NullIsProc, SemNext

\* sreset() lets everybody pass.
LEMMA SresetResets ==
  ASSUME SemRefInv, NEW s \in Sems, NEW n \in Counts, Sreset(s, n)
  PROVE  WaitersNotRefused' /\ [Semaphores!Next]_(Semaphores!semaphoreVars)
<1>1. /\ ServInv' /\ SameProcesses /\ SemInv /\ SemType /\ SemType' /\ n \in Nat
      /\ "sreset" \in uses
  BY SresetKeeps, DelaysAssumption DEF SemRefInv, ServInv, SemInv, Sreset, Calling
<1>2. /\ sstate[s] = "SUSED" /\ sstate' = sstate /\ UNCHANGED <<psem, pwaitret, kcall, uses>>
      /\ semcnt' = [semcnt EXCEPT ![s] = n] /\ semq' = [semq EXCEPT ![s] = <<>>]
  BY DEF Sreset, callVars
<1>3. PICK a \in Seq(UserPids) : a = semq[s]
  BY <1>1 DEF SemType
<1>4. semq'[s] = <<>> /\ \A r \in Sems \ {s} : semq'[r] = semq[r]
  BY <1>1, <1>2 DEF SemType
<1>5. Range(semq'[s]) = Range(semq[s]) \ Range(a) /\ Range(a) \subseteq Range(semq[s])
  BY <1>3, <1>4 DEF Range
<1>6. PICK ret \in {"OK", "DELETED"} : ret = "OK"
  OBVIOUS
<1>7. /\ \A p \in Range(a) : pwaitret'[p] = ret
      /\ \A p \in Procs \ Range(a) : pwaitret'[p] = pwaitret[p]
  <2>1. \A p \in Range(a) : p \in Procs /\ pstate[p] = "PRWAIT"
    BY <1>1, <1>3, WaitersWait
  <2> QED
    BY <1>2, <1>6, <2>1 DEF SemRefInv, WaitersNotRefused
<1>8. /\ WaitersNotRefused'
      /\ StageOf' = StagesOf(a, IF ret = "OK" THEN "passed" ELSE "refused")
  <2>1. UNCHANGED <<psem, kcall>>
    BY <1>2
  <2> QED
    BY <1>1, <1>4, <1>5, <1>7, <2>1, StagesMove
<1>9. StageOf' = StagesOf(semq[s], "passed")
  BY <1>3, <1>6, <1>8
<1>10. s \in OpenSems /\ OpenSems' = OpenSems
  BY <1>2 DEF OpenSems
<1>11. \A r \in Sems : /\ Units[r] = IF r \in OpenSems /\ semcnt[r] > 0 THEN semcnt[r] ELSE 0
                       /\ Units'[r] = IF r \in OpenSems' /\ semcnt'[r] > 0
                                      THEN semcnt'[r] ELSE 0
  BY <1>1, UnitsOfSem
<1>12. semcnt'[s] = n /\ \A r \in Sems \ {s} : semcnt'[r] = semcnt[r]
  BY <1>1, <1>2 DEF SemType
<1>13. Units'[s] \in Nat /\ \A r \in Sems \ {s} : Units'[r] = Units[r]
  BY <1>1, <1>10, <1>11, <1>12
<1>14. Units' = [Units EXCEPT ![s] = Units'[s]]
  BY <1>13, OneUnitMoves
<1>15. Semaphores!OnlyUnitsOf(s)
  BY <1>13, <1>14, SemActions
<1>16. Semaphores!Reset(s)
  BY <1>1, <1>2, <1>9, <1>10, <1>15, LineActions
<1> QED
  BY <1>8, <1>16, NullIsProc, SemNext

\* sdelete() refuses everybody.
LEMMA SdeleteCloses ==
  ASSUME SemRefInv, NEW s \in Sems, Sdelete(s)
  PROVE  WaitersNotRefused' /\ [Semaphores!Next]_(Semaphores!semaphoreVars)
<1>1. ServInv' /\ SameProcesses /\ SemInv /\ SemType /\ SemType'
  BY SdeleteKeeps DEF SemRefInv, ServInv, SemInv
<1>2. /\ sstate[s] = "SUSED" /\ sstate' = [sstate EXCEPT ![s] = "SFREE"]
      /\ UNCHANGED <<psem, semcnt, kcall, uses>>
      /\ semq' = [semq EXCEPT ![s] = <<>>]
      /\ pwaitret' = [p \in Procs |->
                        IF p \in Range(semq[s]) THEN "DELETED" ELSE pwaitret[p]]
  BY DEF Sdelete, callVars
<1>3. PICK a \in Seq(UserPids) : a = semq[s]
  BY <1>1 DEF SemType
<1>4. semq'[s] = <<>> /\ \A r \in Sems \ {s} : semq'[r] = semq[r]
  BY <1>1, <1>2 DEF SemType
<1>5. Range(semq'[s]) = Range(semq[s]) \ Range(a) /\ Range(a) \subseteq Range(semq[s])
  BY <1>3, <1>4 DEF Range
<1>6. PICK ret \in {"OK", "DELETED"} : ret = "DELETED"
  OBVIOUS
<1>7. /\ \A p \in Range(a) : pwaitret'[p] = ret
      /\ \A p \in Procs \ Range(a) : pwaitret'[p] = pwaitret[p]
  <2>1. \A p \in Range(a) : p \in Procs
    BY <1>1, <1>3, WaitersWait
  <2> QED
    BY <1>2, <1>3, <1>6, <2>1
<1>8. /\ WaitersNotRefused'
      /\ StageOf' = StagesOf(a, IF ret = "OK" THEN "passed" ELSE "refused")
  <2>1. UNCHANGED <<psem, kcall>>
    BY <1>2
  <2> QED
    BY <1>1, <1>4, <1>5, <1>7, <2>1, StagesMove
<1>9. StageOf' = StagesOf(semq[s], "refused")
  BY <1>3, <1>6, <1>8
<1>10. s \in OpenSems /\ OpenSems' = OpenSems \ {s}
  BY <1>1, <1>2 DEF OpenSems, SemType
<1>11. \A r \in Sems : /\ Units[r] = IF r \in OpenSems /\ semcnt[r] > 0 THEN semcnt[r] ELSE 0
                       /\ Units'[r] = IF r \in OpenSems' /\ semcnt'[r] > 0
                                      THEN semcnt'[r] ELSE 0
  BY <1>1, UnitsOfSem
<1>12. Units'[s] = 0 /\ \A r \in Sems \ {s} : Units'[r] = Units[r]
  BY <1>2, <1>10, <1>11
<1>13. Units' = [Units EXCEPT ![s] = Units'[s]]
  BY <1>12, OneUnitMoves
<1>14. Units' = [Units EXCEPT ![s] = 0]
  BY <1>12, <1>13
<1>15. Semaphores!Close(s)
  BY <1>2, <1>9, <1>10, <1>14, LineActions
<1> QED
  BY <1>8, <1>15, NullIsProc, SemNext

\* A wait() that has come to an end returns.
LEMMA WaitReturnsLeaves ==
  ASSUME SemRefInv, WaitReturns
  PROVE  WaitersNotRefused' /\ [Semaphores!Next]_(Semaphores!semaphoreVars)
<1>1. PICK c \in Procs : c = currpid
  BY DEF SemRefInv, ServInv, TableInv, ProcTypeOK
<1>2. pstate[c] = "PRCURR" /\ kcall[c] = "wait" /\ kcall \in [Procs -> {"none", "wait", "receive", "recvtim", "kill"}]
  BY <1>1 DEF SemRefInv, ServInv, TableInv, CallInv, CallType, WaitReturns
<1>3. /\ kcall' = [kcall EXCEPT ![c] = "none"] /\ pstate' = pstate
      /\ UNCHANGED <<sstate, semcnt, semq, pwaitret, uses>>
  BY <1>1 DEF WaitReturns, Leaving, procVars, semVars
<1>4. StageOf[c] \in {"passed", "refused"} /\ StageOf'[c] = "out"
  BY <1>2, <1>3 DEF StageOf, Stage
<1>5. \A q \in Procs \ {c} : StageOf'[q] = StageOf[q]
  <2>1. ASSUME NEW q \in Procs \ {c} PROVE Stage(q)' = Stage(q)
    BY <1>2, <1>3 DEF Stage
  <2> QED
    BY <2>1 DEF StageOf
<1>6. StageOf' = [StageOf EXCEPT ![c] = "out"]
  BY <1>4, <1>5, OneStageMoves
<1>7. Semaphores!Leave(c)
  BY <1>3, <1>4, <1>6, SemActions DEF OpenSems, Units
<1>8. PICK s \in Sems : TRUE
  BY NSEMAssumption DEF Sems
<1> QED
  BY <1>3, <1>7, <1>8, SemNext DEF SemRefInv, WaitersNotRefused

\* create() makes a process that waits for nothing.
LEMMA CreateIsQuiet ==
  ASSUME SemRefInv, NEW n \in NewPrios, Create(n)
  PROVE  WaitersNotRefused' /\ UNCHANGED SemVarsOf
<1>1. NewPid \in FreeSlots
  BY NewPidFree DEF SemRefInv, ServInv, TableInv, Create
<1>2. PICK p \in Procs : p = NewPid /\ pstate[p] = "PRFREE"
  BY <1>1, UserIsProc DEF FreeSlots
<1>3. /\ pstate' = [pstate EXCEPT ![p] = "PRSUSP"] /\ kcall' = [kcall EXCEPT ![p] = "none"]
      /\ UNCHANGED <<sstate, semcnt, semq, pwaitret, uses>>
  BY <1>1, <1>2 DEF Create
<1>4. /\ pstate'[p] = "PRSUSP" /\ kcall'[p] = "none"
      /\ \A q \in Procs \ {p} : pstate'[q] = pstate[q] /\ kcall'[q] = kcall[q]
  BY <1>3 DEF SemRefInv, ServInv, TableInv, ProcTypeOK, CallInv, CallType
<1>5. \A q \in Procs : Stage(q)' = Stage(q)
  BY <1>2, <1>3, <1>4 DEF Stage
<1>6. StageOf' = StageOf
  BY <1>5 DEF StageOf
<1> QED
  BY <1>3, <1>4, <1>6 DEF SemRefInv, WaitersNotRefused, SemVarsOf, OpenSems, Units

\* A process that is not in line leaves the line as it is.
LEMMA RemoveAbsent ==
  ASSUME NEW E, NEW s \in Seq(E), NEW e, e \notin Range(s)
  PROVE  RemoveFirst(s, e) = s
<1>1. DOMAIN s = 1..Len(s)
  BY LenProperties
<1>2. ~ \E i \in 1..Len(s) : s[i] = e
  BY <1>1 DEF Range
<1> QED
  BY <1>2 DEF RemoveFirst

\* The end of kill(): a waiter gives up its place, a process whose wait has
\* ended and has not run yet leaves, anybody else was in no line.
LEMMA KillEndsGivesUp ==
  ASSUME SemRefInv, KillEnds
  PROVE  WaitersNotRefused' /\ [Semaphores!Next]_(Semaphores!semaphoreVars)
<1>1. /\ SemInv /\ SemType /\ CountIsWaiters /\ CallInv /\ CallType /\ SemType'
      /\ \A q \in Procs : pstate[q] = "PRWAIT" => kcall[q] = "wait"
  BY KillEndsKeeps DEF SemRefInv, ServInv, SemInv, CallInv
<1>2. PICK c \in Procs : c = currpid
  BY DEF SemRefInv, ServInv, TableInv, ProcTypeOK
<1>3. kcall[c] = "kill" /\ kvictim[c] \in UserPids
  BY <1>1, <1>2 DEF KillEnds, CallInv
<1>4. PICK v \in UserPids : v = kvictim[c]
  BY <1>3
<1>5. v \in Procs /\ pstate'[v] = "PRFREE" /\ \A q \in Procs \ {v} : Stays(q)
  BY <1>2, <1>4, UserIsProc, KillEndsKeeps DEF SemRefInv
<1>6. /\ kcall' = [kcall EXCEPT ![c] = "none"] /\ UNCHANGED <<uses, sstate, pwaitret>>
      /\ \/ pstate[v] = "PRCURR" /\ Suicide
         \/ pstate[v] = "PRWAIT" /\ BuryWaiter(v)
         \/ pstate[v] = "PRREADY" /\ BuryReady(v)
         \/ pstate[v] \in {"PRSLEEP", "PRTRECV"} /\ BurySleeper(v)
         \/ pstate[v] \in {"PRSUSP", "PRRECV", "PRFREE"} /\ BuryOther(v)
  BY <1>2, <1>4 DEF KillEnds, Leaving
<1>7. \A q \in Procs : kcall'[q] = "wait" <=> kcall[q] = "wait"
  BY <1>1, <1>3, <1>6 DEF CallType
<1>8. StageOf'[v] = "out" /\ \A q \in Procs \ {v} : StageOf'[q] = StageOf[q]
  <2>1. Stage(v)' = "out"
    BY <1>5 DEF Stage
  <2>2. ASSUME NEW q \in Procs \ {v} PROVE Stage(q)' = Stage(q)
    <3>1. Stays(q)
      BY <1>5
    <3> QED
      BY <1>6, <1>7, <3>1, StaysMeans DEF Stage
  <2> QED
    BY <1>5, <2>1, <2>2 DEF StageOf
<1>9. StageOf' = [StageOf EXCEPT ![v] = "out"]
  BY <1>5, <1>8, OneStageMoves
<1>10. WaitersNotRefused'
  <2>1. ASSUME NEW q \in Procs, pstate'[q] = "PRWAIT" PROVE pwaitret'[q] = "OK"
    <3>1. q # v /\ Stays(q)
      BY <1>5, <2>1
    <3>2. pstate[q] = "PRWAIT"
      BY <2>1, <3>1, StaysMeans
    <3> QED
      BY <1>6, <3>2 DEF SemRefInv, WaitersNotRefused
  <2> QED
    BY <2>1 DEF WaitersNotRefused
<1>11. OpenSems' = OpenSems
  BY <1>6 DEF OpenSems
<1>12. PICK z \in Sems : TRUE
  BY NSEMAssumption DEF Sems
<1>13. CASE pstate[v] = "PRWAIT"
  <2>1. PICK s \in Sems : s = psem[v]
    BY <1>1, <1>5 DEF SemType
  <2>2. /\ semq' = [semq EXCEPT ![s] = RemoveFirst(semq[s], v)]
        /\ semcnt' = [semcnt EXCEPT ![s] = semcnt[s] + 1]
    BY <1>6, <1>13, <2>1 DEF BuryWaiter
  <2>3. v \in Range(semq[s]) /\ \A r \in Sems \ {s} : v \notin Range(semq[r])
    BY <1>1, <1>5, <1>13, <2>1 DEF SemInv, InLine
  <2>4. \A r \in Sems \ {s} : RemoveFirst(semq[r], v) = semq[r]
    <3>1. ASSUME NEW r \in Sems \ {s} PROVE RemoveFirst(semq[r], v) = semq[r]
      <4>1. PICK line \in Seq(UserPids) : line = semq[r]
        BY <1>1 DEF SemType
      <4>2. RemoveFirst(line, v) = line
        BY <2>3, <4>1, RemoveAbsent
      <4> QED
        BY <4>1, <4>2
    <3> QED
      BY <3>1
  <2>5. semq' = [r \in Sems |-> RemoveFirst(semq[r], v)]
    BY <1>1, <2>2, <2>4 DEF SemType
  <2>6. semcnt[s] \in Int /\ semcnt[s] < 0
    <3>1. semcnt[s] \in Int /\ semq[s] # <<>> /\ semq[s] \in Seq(UserPids)
      BY <1>1, <2>3, EmptySeq DEF SemType, Range
    <3>2. sstate[s] = "SUSED"
      BY <1>1, <3>1 DEF SemType, CountIsWaiters
    <3>3. Len(semq[s]) = -Min({0, semcnt[s]})
      BY <1>1, <3>2 DEF CountIsWaiters
    <3>4. -Min({0, semcnt[s]}) = IF 0 <= semcnt[s] THEN 0 ELSE 0 - semcnt[s]
      BY <3>1, Deficit
    <3>5. Len(semq[s]) # 0
      BY <3>1, EmptySeq
    <3> QED
      BY <3>1, <3>3, <3>4, <3>5
  <2>7. \A r \in Sems : Units'[r] = Units[r]
    <3>1. \A r \in Sems : /\ Units[r] = IF r \in OpenSems /\ semcnt[r] > 0
                                        THEN semcnt[r] ELSE 0
                          /\ Units'[r] = IF r \in OpenSems' /\ semcnt'[r] > 0
                                         THEN semcnt'[r] ELSE 0
      BY <1>1, UnitsOfSem
    <3>2. semcnt'[s] = semcnt[s] + 1 /\ \A r \in Sems \ {s} : semcnt'[r] = semcnt[r]
      BY <1>1, <2>2 DEF SemType
    <3>3. Units[s] = 0 /\ Units'[s] = 0
      BY <2>6, <3>1, <3>2
    <3> QED
      BY <1>11, <3>1, <3>2, <3>3
  <2>8. Units' = Units
    BY <2>7 DEF Units
  <2>9. StageOf[v] = "waiting"
    BY <1>1, <1>5, <1>13 DEF StageOf, Stage
  <2>10. Semaphores!GiveUp(v)
    BY <1>6, <1>9, <1>11, <2>5, <2>8, <2>9, GivesUp
  <2> QED
    BY <1>5, <1>10, <1>12, <2>10, SemNext
<1>14. CASE pstate[v] # "PRWAIT"
  <2>1. UNCHANGED <<semcnt, semq>>
    BY <1>6, <1>14 DEF Suicide, BuryReady, BurySleeper, BuryOther
  <2>2. Units' = Units
    BY <1>6, <1>11, <2>1 DEF Units
  <2>3. CASE StageOf[v] = "out"
    <3>1. StageOf' = StageOf
      BY <1>8, <2>3 DEF StageOf
    <3>2. UNCHANGED SemVarsOf
      BY <1>6, <1>11, <2>1, <2>2, <3>1 DEF SemVarsOf
    <3> QED
      BY <1>5, <1>10, <1>12, <3>2, SemNext
  <2>4. CASE StageOf[v] # "out"
    <3>1. StageOf[v] \in {"passed", "refused"}
      BY <1>5, <1>14, <2>4 DEF StageOf, Stage
    <3>2. Semaphores!Leave(v)
      BY <1>6, <1>9, <1>11, <2>1, <2>2, <3>1, SemActions
    <3> QED
      BY <1>5, <1>10, <1>12, <3>2, SemNext
  <2> QED
    BY <2>3, <2>4
<1> QED
  BY <1>13, <1>14

\* A call that neither is nor becomes a wait().
LEMMA NoWaitEntered ==
  ASSUME CallType, currpid \in Procs, NEW c, c # "wait", kcall[currpid] # "wait",
         kcall' = [kcall EXCEPT ![currpid] = c]
  PROVE  \A p \in Procs : kcall'[p] = "wait" <=> kcall[p] = "wait"
BY DEF CallType

\* Every other call leaves the semaphores and those who wait for them alone.
LEMMA OtherCallsAreQuiet ==
  ASSUME SemRefInv,
         \/ \E n \in Delays : Sleep(n) \/ Recvtim(n)
         \/ Tick \/ Preempt \/ TakeMessage \/ Receive \/ ReceiveReturns
         \/ \E p \in UserPids : Send(p) \/ Resume(p) \/ Suspend(p) \/ Kill(p)
         \/ \E nok \in Kin, p \in UserPids : Setnok(nok, p)
  PROVE  WaitersNotRefused' /\ UNCHANGED SemVarsOf
<1>1. ServInv /\ CallType /\ currpid \in Procs
  BY DEF SemRefInv, ServInv, CallInv, TableInv, ProcTypeOK
<1>2. ServInv' /\ SameProcesses
  BY <1>1, SleepKeeps, RecvtimKeeps, TickKeeps, PreemptKeeps, TakesMessage, ReceiveKeeps,
     SendKeeps, ResumeKeeps, SuspendKeeps, KillKeeps, SetnokKeeps DEF Tick, Preempt
<1>3. UNCHANGED semVars /\ uses' = uses
  BY DEF Sleep, Recvtim, Tick, ClockInterrupt, Preempt, QuantumEnds, TakeMessage, Receive,
         ReceiveReturns, Send, Resume, Suspend, Kill, Setnok, callVars
<1>4. \/ kcall' = kcall
      \/ kcall[currpid] # "wait" /\ kcall' = [kcall EXCEPT ![currpid] = "none"]
      \/ kcall[currpid] # "wait" /\ kcall' = [kcall EXCEPT ![currpid] = "receive"]
      \/ kcall[currpid] # "wait" /\ kcall' = [kcall EXCEPT ![currpid] = "recvtim"]
      \/ kcall[currpid] # "wait" /\ kcall' = [kcall EXCEPT ![currpid] = "kill"]
  BY DEF Sleep, Recvtim, Tick, ClockInterrupt, Preempt, QuantumEnds, TakeMessage, Receive,
         ReceiveReturns, Send, Resume, Suspend, Kill, Setnok, callVars, Calling, Entering,
         Leaving
<1>5. \A p \in Procs : kcall'[p] = "wait" <=> kcall[p] = "wait"
  BY <1>1, <1>4, NoWaitEntered
<1> QED
  BY <1>2, <1>3, <1>5, QuietStep

\* Every step of the services is a step of CountingSemaphore or does not show.
LEMMA ServNextRefines ==
  ASSUME SemRefInv, [ServNext]_servVars
  PROVE  WaitersNotRefused' /\ [Semaphores!Next]_(Semaphores!semaphoreVars)
<1>1. PICK s \in Sems : TRUE
  BY NSEMAssumption DEF Sems
<1>2. ASSUME UNCHANGED SemVarsOf PROVE [Semaphores!Next]_(Semaphores!semaphoreVars)
  BY <1>1, <1>2, NullIsProc, SemNext
<1>3. CASE \E n \in Counts : Screate(n)
  BY <1>3, ScreateOpens
<1>4. CASE \E r \in Sems : Wait(r)
  BY <1>4, WaitTakesOrJoins
<1>5. CASE \E r \in Sems : Signal(r)
  <2>1. PICK r \in Sems : Signal(r)
    BY <1>5
  <2>2. PICK n \in Nat : n = 1
    OBVIOUS
  <2>3. ServInv' /\ SameProcesses /\ SignalTimes(r, n)
    BY <2>1, <2>2, SignalKeeps DEF SemRefInv, Signal, SignalOn
  <2> QED
    BY <2>3, SignalsPost
<1>6. CASE \E r \in Sems, n \in Counts : Signaln(r, n)
  <2>1. PICK r \in Sems, n \in Counts : Signaln(r, n)
    BY <1>6
  <2>2. PICK m \in Nat : m = n
    BY DelaysAssumption
  <2>3. ServInv' /\ SameProcesses /\ SignalTimes(r, m)
    BY <2>1, <2>2, SignalnKeeps DEF SemRefInv, Signaln
  <2> QED
    BY <2>3, SignalsPost
<1>7. CASE \E r \in Sems, n \in Counts : Sreset(r, n)
  BY <1>7, SresetResets
<1>8. CASE \E r \in Sems : Sdelete(r)
  BY <1>8, SdeleteCloses
<1>9. CASE WaitReturns
  BY <1>9, WaitReturnsLeaves
<1>10. CASE \E n \in NewPrios : Create(n)
  BY <1>2, <1>10, CreateIsQuiet
<1>11. CASE KillEnds
  BY <1>11, KillEndsGivesUp
<1>12. CASE UNCHANGED servVars
  <2>1. UNCHANGED <<sstate, semcnt, semq, pwaitret, pstate, kcall, uses>>
    BY <1>12 DEF servVars, procVars, callVars, semVars
  <2>2. UNCHANGED SemVarsOf
    BY <2>1 DEF SemVarsOf, OpenSems, Units, StageOf, Stage
  <2> QED
    BY <1>2, <2>1, <2>2 DEF SemRefInv, WaitersNotRefused
<1>13. CASE \/ \E n \in Delays : Sleep(n) \/ Recvtim(n)
            \/ Tick \/ Preempt \/ TakeMessage \/ Receive \/ ReceiveReturns
            \/ \E p \in UserPids : Send(p) \/ Resume(p) \/ Suspend(p) \/ Kill(p)
            \/ \E nok \in Kin, p \in UserPids : Setnok(nok, p)
  BY <1>2, <1>13, OtherCallsAreQuiet
<1> QED
  BY <1>3, <1>4, <1>5, <1>6, <1>7, <1>8, <1>9, <1>10, <1>11, <1>12, <1>13 DEF ServNext

\* The semaphores implement CountingSemaphore: units are taken at once or in
\* arrival order, and a wait ends with a unit, a reset, a refusal or a death,
\* whatever the other calls of the kernel do to the processes that wait.
THEOREM SemaphoresImplement == ServSpec => ImplementsSemaphores
<1>1. ServInit => WaitersNotRefused /\ Semaphores!Init
  <2> SUFFICES ASSUME ServInit PROVE WaitersNotRefused /\ Semaphores!Init
    OBVIOUS
  <2>1. /\ \A s \in Sems : sstate[s] = "SFREE" /\ semq[s] = <<>>
        /\ \A p \in Procs : kcall[p] = "none" /\ pwaitret[p] = "OK"
        /\ semq = [s \in Sems |-> <<>>]
    BY DEF ServInit
  <2>2. OpenSems = {}
    BY <2>1 DEF OpenSems
  <2>3. Units = [s \in Sems |-> 0]
    BY <2>2 DEF Units
  <2>4. StageOf = [p \in Procs |-> "out"]
    BY <2>1 DEF StageOf, Stage
  <2>5. ("sreset" \in uses) \in BOOLEAN
    OBVIOUS
  <2> QED
    BY <2>1, <2>2, <2>3, <2>4, <2>5 DEF Semaphores!Init, WaitersNotRefused
<1>2. ServInv /\ WaitersNotRefused /\ [ServNext]_servVars
      => WaitersNotRefused' /\ [Semaphores!Next]_(Semaphores!semaphoreVars)
  BY ServNextRefines DEF SemRefInv
<1> QED
  BY <1>1, <1>2, ServInvariant, PTL DEF ServSpec, ImplementsSemaphores, Semaphores!Spec

-------------------------------------------------------------------------------
(***************************************************************************)
(* What the components built on the semaphores know of a step.             *)
(***************************************************************************)

\* Who waits can be read off the lines of the semaphores.
LEMMA SameWaiters ==
  ASSUME SemInv, SemInv', semq' = semq, psem' = psem
  PROVE  \A p \in Procs : pstate'[p] = "PRWAIT" <=> pstate[p] = "PRWAIT"
<1> SUFFICES ASSUME NEW p \in Procs
             PROVE  pstate'[p] = "PRWAIT" <=> pstate[p] = "PRWAIT"
  OBVIOUS
<1>1. PICK s \in Sems : s = psem[p]
  BY DEF SemInv, SemType
<1>2. pstate[p] = "PRWAIT" <=> p \in Range(semq[s])
  BY <1>1 DEF SemInv, InLine
<1>3. pstate'[p] = "PRWAIT" <=> p \in Range(semq'[s])
  <2>1. InLine(s)' /\ psem'[p] = s
    BY <1>1 DEF SemInv
  <2> QED
    BY <2>1 DEF InLine
<1> QED
  BY <1>2, <1>3

\* wait() takes a unit at once, or its caller waits and nobody else begins to.
LEMMA WaitOnWaits ==
  ASSUME ServInv, NEW s \in Sems, WaitOn(s), kcall[currpid] = "none",
         currpid # NULLPROC \/ semcnt[s] > 0
  PROVE  /\ ServInv' /\ SameProcesses /\ sstate[s] = "SUSED" /\ sstate' = sstate
         /\ semcnt' = [semcnt EXCEPT ![s] = @ - 1] /\ uses' = uses
         /\ \/ semcnt[s] > 0 /\ UNCHANGED <<pstate, currpid, psem, kcall>>
            \/ /\ ~(semcnt[s] > 0) /\ currpid # NULLPROC
               /\ pstate[currpid] = "PRCURR" /\ pstate'[currpid] = "PRWAIT"
               /\ psem' = [psem EXCEPT ![currpid] = s]
               /\ kcall' = [kcall EXCEPT ![currpid] = "wait"]
               /\ \A p \in Procs \ {currpid} :
                    pstate'[p] = "PRWAIT" <=> pstate[p] = "PRWAIT"
<1>1. ServInv' /\ SameProcesses
  BY WaitOnKeeps
<1>2. /\ sstate[s] = "SUSED" /\ sstate' = sstate /\ uses' = uses
      /\ semcnt' = [semcnt EXCEPT ![s] = @ - 1]
  BY DEF WaitOn
<1>3. CASE semcnt[s] > 0
  BY <1>1, <1>2, <1>3 DEF WaitOn
<1>4. CASE ~(semcnt[s] > 0)
  <2>1. /\ currpid # NULLPROC /\ psem' = [psem EXCEPT ![currpid] = s]
        /\ semq' = [semq EXCEPT ![s] = Append(semq[s], currpid)]
        /\ kcall' = [kcall EXCEPT ![currpid] = "wait"]
    BY <1>4 DEF WaitOn, Entering, Enqueued
  <2>2. /\ currpid \in UserPids /\ currpid \in Procs /\ pstate[currpid] = "PRCURR"
        /\ SemInv /\ SemType /\ SemInv' /\ InLine(s)
    BY <2>1, <1>1 DEF ServInv, TableInv, ProcTypeOK, UserPids, SemInv
  <2>3. PICK c \in UserPids : c = currpid /\ c \in Procs
    BY <2>2
  <2>4. /\ semq[s] \in Seq(UserPids) /\ c \notin Range(semq[s]) /\ IsInjective(semq[s])
    <3>1. pstate[c] # "PRWAIT"
      BY <2>2, <2>3
    <3> QED
      BY <2>2, <2>3, <3>1 DEF SemType, InLine
  <2>5. Range(semq'[s]) = Range(semq[s]) \cup {c}
    <3>1. semq'[s] = Append(semq[s], c)
      BY <2>1, <2>2, <2>3 DEF SemType
    <3> QED
      BY <2>3, <2>4, <3>1, JoinInjective
  <2>6. psem'[c] = s /\ pstate'[c] = "PRWAIT"
    <3>1. psem'[c] = s
      BY <2>1, <2>2, <2>3 DEF SemType
    <3>2. InLine(s)' /\ c \in Range(semq'[s])
      BY <2>2, <2>5 DEF SemInv
    <3> QED
      BY <2>3, <3>1, <3>2 DEF InLine
  <2>7. ASSUME NEW p \in Procs, p # c PROVE pstate'[p] = "PRWAIT" <=> pstate[p] = "PRWAIT"
    <3>1. PICK r \in Sems : r = psem[p]
      BY <2>2 DEF SemType
    <3>2. psem'[p] = r
      BY <2>1, <2>2, <2>3, <2>7, <3>1 DEF SemType
    <3>3. p \in Range(semq'[r]) <=> p \in Range(semq[r])
      <4>1. CASE r = s
        BY <2>5, <2>7, <4>1
      <4>2. CASE r # s
        BY <2>1, <2>2, <4>2 DEF SemType
      <4> QED
        BY <4>1, <4>2
    <3>4. pstate[p] = "PRWAIT" <=> p \in Range(semq[r])
      BY <2>2, <3>1 DEF SemInv, InLine
    <3>5. pstate'[p] = "PRWAIT" <=> p \in Range(semq'[r])
      <4>1. InLine(r)'
        BY <2>2 DEF SemInv
      <4> QED
        BY <3>2, <4>1 DEF InLine
    <3> QED
      BY <3>3, <3>4, <3>5
  <2> QED
    BY <1>1, <1>2, <1>4, <2>1, <2>2, <2>3, <2>6, <2>7
<1> QED
  BY <1>3, <1>4

\* signal() adds a unit, or wakes one process of the line and no other.
LEMMA SignalOnWakes ==
  ASSUME ServInv, NEW s \in Sems, SignalOn(s)
  PROVE  /\ ServInv' /\ SameProcesses /\ sstate[s] = "SUSED"
         /\ UNCHANGED <<sstate, psem, kcall, uses>>
         /\ semcnt' = [semcnt EXCEPT ![s] = @ + 1]
         /\ \/ ~(semcnt[s] < 0) /\ UNCHANGED <<pstate, currpid>>
            \/ /\ semcnt[s] < 0
               /\ \E w \in UserPids :
                    /\ pstate[w] = "PRWAIT" /\ psem[w] = s /\ pstate'[w] # "PRWAIT"
                    /\ \A p \in Procs \ {w} :
                         pstate'[p] = "PRWAIT" <=> pstate[p] = "PRWAIT"
<1>1. ServInv' /\ SameProcesses
  BY SignalOnKeeps
<1>2. /\ sstate[s] = "SUSED" /\ UNCHANGED <<sstate, psem, kcall, uses>>
      /\ semcnt' = [semcnt EXCEPT ![s] = @ + 1] /\ SignalTimes(s, 1)
  BY DEF SignalOn, SignalTimes, callVars
<1>3. CASE ~(semcnt[s] < 0)
  BY <1>1, <1>2, <1>3 DEF SignalOn
<1>4. CASE semcnt[s] < 0
  <2>1. SemInv /\ SemType /\ SemInv' /\ CountIsWaiters
    BY <1>1 DEF ServInv, SemInv
  <2>2. PICK n \in Nat : n = 1
    OBVIOUS
  <2>3. PICK a \in Seq(UserPids), b \in Seq(UserPids) :
          /\ a = Woken(s, n) /\ b = SubSeq(semq[s], Len(Woken(s, n)) + 1, Len(semq[s]))
          /\ Range(a) \subseteq Range(semq[s]) /\ Range(b) = Range(semq[s]) \ Range(a)
          /\ Len(a) = IF n <= Len(semq[s]) THEN n ELSE Len(semq[s])
    BY <1>2, <2>1, WokenLine
  <2>4. PICK c \in Int : c = semcnt[s]
    BY <2>1 DEF SemType
  <2>5. Len(semq[s]) = 0 - c
    <3>1. -Min({0, c}) = 0 - c
      BY <1>4, <2>4, Deficit
    <3> QED
      BY <1>2, <2>1, <2>4, <3>1 DEF CountIsWaiters
  <2>6. Len(a) = 1
    BY <1>4, <2>2, <2>3, <2>4, <2>5
  <2>7. Range(a) = {a[1]} /\ a[1] \in UserPids
    <3>1. DOMAIN a = 1..1
      BY <2>3, <2>6, LenProperties
    <3>2. 1 \in DOMAIN a /\ \A i \in DOMAIN a : i = 1
      BY <3>1
    <3>3. a[1] \in UserPids
      <4>1. 1 \in 1..Len(a)
        BY <2>6
      <4> QED
        BY <4>1, ElementOfSeq
    <3>4. a[1] \in Range(a) /\ \A x \in Range(a) : x = a[1]
      BY <3>2 DEF Range
    <3> QED
      BY <3>3, <3>4
  <2>8. PICK w \in UserPids : w = a[1]
    BY <2>7
  <2>9. /\ \A r \in Sems \ {s} : semq'[r] = semq[r]
        /\ semq'[s] = b
    BY <1>2, <2>1, <2>2, <2>3 DEF SignalTimes, SemType
  <2>10. Range(semq[s]) \ Range(semq'[s]) = {w}
    BY <2>3, <2>7, <2>8, <2>9
  <2>11. /\ \A p \in Range(semq[s]) \ Range(semq'[s]) :
              p \in Procs /\ pstate[p] = "PRWAIT" /\ pstate'[p] # "PRWAIT"
         /\ \A p \in Procs : p \notin Range(semq[s]) \ Range(semq'[s])
                             => (pstate'[p] = "PRWAIT" <=> pstate[p] = "PRWAIT")
    BY <1>2, <2>1, <2>3, <2>9, WaitersFromLines
  <2>12. psem[w] = s
    BY <2>1, <2>10, WaitersWait
  <2> QED
    BY <1>1, <1>2, <1>4, <2>10, <2>11, <2>12
<1> QED
  BY <1>3, <1>4
==============================================================================
