--------------------------- MODULE GuardedQueueProofs ---------------------------
(***************************************************************************)
(* Theorems about GuardedQueue, for every number of slots, items and       *)
(* consumers:                                                              *)
(*                                                                         *)
(*   CountStaysInBounds   QueueSpec => []CountInBounds                     *)
(*   ContentsAreKept      QueueSpec => []QueueContents                     *)
(***************************************************************************)
EXTENDS GuardedQueue, XinuQueueProofs, FiniteSetTheorems

\* The consumers that have passed the test of deq().
Deqers == {c \in Consumers : q_inside[c] = "deq"}

\* Once the count is 0 or less, it has gone down once for each consumer that has
\* left since, and at least one had left to bring it to 0.
CountInv ==
  /\ q_inside \in [Clients -> {"none", "enq", "deq", "seeq"}]
  /\ q_count \in Int
  /\ q_count <= QMax
  /\ q_inside["producer"] = "enq" => q_count < QMax
  /\ q_count <= 0 => Cardinality(Deqers) <= Cardinality(Consumers) - 1 + q_count

-------------------------------------------------------------------------------
\* The repaired count is the count, or 0 for one below it.
LEMMA RepairedValue ==
  ASSUME NEW n \in Int
  PROVE  Repaired(n) = IF n < 0 THEN 0 ELSE n
<1> DEFINE m == IF n < 0 THEN 0 ELSE n
<1>1. m \in {0, n} /\ \A y \in {0, n} : m >= y
  OBVIOUS
<1>2. \A x \in {0, n} : (\A y \in {0, n} : x >= y) => x = m
  OBVIOUS
<1>3. (CHOOSE x \in {0, n} : \A y \in {0, n} : x >= y) = m
  <2> HIDE DEF m
  <2> QED
    BY <1>1, <1>2
<1> QED
  BY <1>3 DEF Repaired, Max

\* The clients are the consumers and two others, and some consumer exists.
LEMMA ClientsDistinct ==
  /\ "producer" \in Clients /\ "peeker" \in Clients
  /\ Consumers \subseteq Clients
  /\ "producer" \notin Consumers /\ "peeker" \notin Consumers
  /\ IsFiniteSet(Consumers)
  /\ Cardinality(Consumers) \in Nat /\ Cardinality(Consumers) >= 1
<1>1. IsFiniteSet(Consumers) /\ Consumers # {}
  BY ConsumersAssumption
<1>2. Cardinality(Consumers) \in Nat /\ Cardinality(Consumers) # 0
  BY <1>1, FS_CardinalityType, FS_EmptySet
<1> QED
  BY <1>1, <1>2, ConsumersAssumption DEF Clients

\* A set of consumers has at most as many members as there are consumers.
LEMMA DeqersCount ==
  ASSUME NEW D, D \subseteq Consumers
  PROVE  /\ IsFiniteSet(D)
         /\ Cardinality(D) \in Nat
         /\ Cardinality(D) <= Cardinality(Consumers)
BY ClientsDistinct, FS_Subset, FS_CardinalityType

-------------------------------------------------------------------------------
\* No consumer has begun, and there is at least one.
LEMMA CountInvInit == QueueInit => CountInv
<1> SUFFICES ASSUME QueueInit PROVE CountInv
  OBVIOUS
<1> USE ClientsDistinct, QMaxAssumption DEF QueueInit
<1>1. Deqers = {}
  BY DEF Deqers
<1>2. Cardinality(Deqers) = 0
  BY <1>1, FS_EmptySet
<1> QED
  BY <1>2 DEF CountInv

\* A call that begins or ends outside of deq() leaves those inside alone.
LEMMA CountInvNext == CountInv /\ [QueueNext]_queueVars => CountInv'
<1> SUFFICES ASSUME CountInv, [QueueNext]_queueVars PROVE CountInv'
  OBVIOUS
<1> USE ClientsDistinct, QMaxAssumption DEF CountInv
<1>1. CASE EnqTests
  <2>1. Deqers' = Deqers
    BY <1>1 DEF EnqTests, Begins, Deqers
  <2> QED
    BY <1>1, <2>1 DEF EnqTests, Begins
<1>2. CASE SeeqTests
  <2>1. Deqers' = Deqers
    BY <1>2 DEF SeeqTests, Begins, Deqers
  <2> QED
    BY <1>2, <2>1 DEF SeeqTests, Begins
<1>3. CASE SeeqShows
  <2>1. Deqers' = Deqers
    BY <1>3 DEF SeeqShows, Ends, Deqers
  <2> QED
    BY <1>3, <2>1 DEF SeeqShows, Ends
<1>4. ASSUME NEW key \in QKeys, EnqInserts(key)
      PROVE  CountInv'
  <2>1. q_count < QMax
    BY <1>4 DEF EnqInserts, Ends
  <2>2. q_count' = (IF q_count < 0 THEN 0 ELSE q_count) + 1
    BY <1>4, RepairedValue DEF EnqInserts
  <2> QED
    BY <1>4, <2>1, <2>2 DEF EnqInserts, Ends
<1>5. ASSUME NEW c \in Consumers, DeqTests(c)
      PROVE  CountInv'
  BY <1>5 DEF DeqTests, Begins
<1>6. ASSUME NEW c \in Consumers, DeqRemoves(c)
      PROVE  CountInv'
  <2>1. c \in Deqers /\ Deqers' = Deqers \ {c}
    BY <1>6 DEF DeqRemoves, Ends, Deqers
  <2>2. Deqers \subseteq Consumers
    BY DEF Deqers
  <2>3. Cardinality(Deqers') = Cardinality(Deqers) - 1
    BY <2>1, <2>2, DeqersCount, FS_RemoveElement
  <2>4. q_count' = q_count - 1
    BY <1>6 DEF DeqRemoves
  <2>5. q_count' <= 0 =>
          Cardinality(Deqers') <= Cardinality(Consumers) - 1 + q_count'
    BY <2>2, <2>3, <2>4, DeqersCount
  <2> QED
    BY <1>6, <2>4, <2>5 DEF DeqRemoves, Ends
<1>7. CASE UNCHANGED queueVars
  BY <1>7 DEF queueVars, Deqers
<1> QED
  BY <1>1, <1>2, <1>3, <1>4, <1>5, <1>6, <1>7 DEF QueueNext

\* The bound of the property: the number of consumers inside is not negative.
LEMMA CountInvBounds == CountInv => CountInBounds
<1> SUFFICES ASSUME CountInv PROVE CountInBounds
  OBVIOUS
<1>1. Cardinality(Deqers) \in Nat
  BY DeqersCount DEF Deqers
<1> QED
  BY <1>1, ClientsDistinct, QMaxAssumption DEF CountInv, CountInBounds

\* gpq.c tests before it takes the mutex, so a count may go below 0, but never
\* further than one for each consumer but one, and never above q_max: with one
\* producer the arrays are not overrun.
THEOREM CountStaysInBounds == QueueSpec => []CountInBounds
<1>1. CountInv /\ [QueueNext]_queueVars => CountInv'
  BY CountInvNext
<1> QED
  BY <1>1, CountInvInit, CountInvBounds, PTL DEF QueueSpec

-------------------------------------------------------------------------------
(***************************************************************************)
(* The contents of the queue.                                              *)
(***************************************************************************)

\* What the search of the items from the tail finds.
LEMMA FromTailStops ==
  ASSUME NEW count \in Nat, NEW key \in Int, \A s \in 0..count - 1 : q_cell[s].key \in Int
  PROVE  /\ FromTail(count, key) \in -1..count - 1
         /\ FromTail(count, key) # -1 => key <= q_cell[FromTail(count, key)].key
         /\ \A j \in 0..count - 1 : j > FromTail(count, key) => q_cell[j].key < key
<1> DEFINE J == {-1} \cup {j \in 0..count - 1 : key <= q_cell[j].key}
<1>1. J \subseteq -1..count - 1 /\ -1 \in J
  OBVIOUS
<1>2. J \in SUBSET Int /\ J # {} /\ (\A y \in J : y <= count) /\ count \in Int
  BY <1>1
<1>3. PICK m : m = Max(J)
  OBVIOUS
<1>4. FromTail(count, key) = m
  BY <1>3 DEF FromTail
<1>5. m \in J /\ \A j \in J : j <= m
  <2> HIDE DEF J
  <2> QED
    BY <1>2, <1>3, MaxOfBounded
<1>6. m \in -1..count - 1 /\ (m # -1 => key <= q_cell[m].key)
  BY <1>1, <1>5
<1>7. \A j \in 0..count - 1 : j > m => q_cell[j].key < key
  BY <1>1, <1>5
<1> QED
  BY <1>4, <1>6, <1>7

\* The items in the queue, each in one slot, and what is left in the others.
ItemsInv ==
  /\ accepted \in Nat /\ delivered \subseteq 0..accepted
  /\ q_cell \in [Slots -> [elt : 0..accepted, key : Int]]
  /\ \A s, t \in 0..q_count - 1 : q_cell[s].elt = q_cell[t].elt => s = t
  /\ QueueContents

\* enq() puts the item behind those that it does not overtake.
LEMMA EnqKeepsItems ==
  ASSUME CountInv, ItemsInv, NEW key \in QKeys, EnqInserts(key)
  PROVE  ItemsInv'
<1>1. PICK count \in Nat : count = Repaired(q_count) /\ count = IF q_count < 0 THEN 0 ELSE q_count
  BY RepairedValue DEF CountInv
<1>2. count < QMax /\ key \in Int /\ q_count \in Int /\ QMax \in Nat
  BY <1>1, ClientsDistinct, QMaxAssumption, QKeysAssumption DEF CountInv, EnqInserts, Ends
<1>3. PICK i : i = FromTail(count, key)
  OBVIOUS
<1>4. \A s \in 0..count - 1 : s \in Slots /\ s \in 0..q_count - 1
  <2>1. q_count < 0 => count - 1 < 0
    BY <1>1
  <2>2. ~(q_count < 0) => count = q_count
    BY <1>1
  <2> QED
    BY <1>2, <2>1, <2>2 DEF Slots
<1>5. \A s \in 0..count - 1 : q_cell[s].key \in Int
  BY <1>4 DEF ItemsInv
<1>6. /\ i \in -1..count - 1 /\ (i # -1 => key <= q_cell[i].key)
      /\ \A j \in 0..count - 1 : j > i => q_cell[j].key < key
  <2>1. PICK k \in Int : k = key
    BY <1>2
  <2>2. /\ FromTail(count, k) \in -1..count - 1
        /\ FromTail(count, k) # -1 => k <= q_cell[FromTail(count, k)].key
        /\ \A j \in 0..count - 1 : j > FromTail(count, k) => q_cell[j].key < k
    BY <1>5, FromTailStops
  <2> QED
    BY <1>3, <2>1, <2>2
<1>7. /\ q_count' = count + 1 /\ accepted' = accepted + 1 /\ delivered' = delivered
      /\ q_cell' = [s \in Slots |-> IF s = i + 1 THEN [elt |-> accepted + 1, key |-> key]
                                    ELSE IF s \in i + 2..count THEN q_cell[s - 1]
                                    ELSE q_cell[s]]
  BY <1>1, <1>3 DEF EnqInserts, InsertBehind
<1>8. accepted \in Nat /\ q_cell \in [Slots -> [elt : 0..accepted, key : Int]]
  BY DEF ItemsInv
<1>9. \A s \in i + 2..count : s - 1 \in Slots
  BY <1>2, <1>6 DEF Slots
<1>10. q_cell' \in [Slots -> [elt : 0..accepted + 1, key : Int]]
  BY <1>2, <1>7, <1>8, <1>9
<1> DEFINE back(s) == IF s <= i THEN s ELSE s - 1
<1>11. ASSUME NEW s \in 0..count
       PROVE  /\ s = i + 1 => q_cell'[s] = [elt |-> accepted + 1, key |-> key]
              /\ s # i + 1 => q_cell'[s] = q_cell[back(s)] /\ back(s) \in 0..count - 1
  <2>1. s \in Slots
    BY <1>2 DEF Slots
  <2> QED
    BY <1>6, <1>7, <2>1
<1>12. ASSUME NEW j \in 0..count - 1 PROVE \E s \in 0..count : s # i + 1 /\ back(s) = j
  <2>1. CASE j <= i
    BY <1>6, <2>1
  <2>2. CASE j > i
    <3>1. j + 1 \in 0..count /\ j + 1 # i + 1 /\ back(j + 1) = j
      BY <1>6, <2>2
    <3> QED
      BY <3>1
  <2> QED
    BY <1>6, <2>1, <2>2
<1>13. 0..q_count - 1 = 0..count - 1
  BY <1>1, <1>2
<1>14. /\ \A s, t \in 0..count - 1 : q_cell[s].elt = q_cell[t].elt => s = t
       /\ {q_cell[s].elt : s \in 0..count - 1} = 1..accepted \ delivered
       /\ \A s, t \in 0..count - 1 : s < t =>
            \/ q_cell[s].key > q_cell[t].key
            \/ q_cell[s].key = q_cell[t].key /\ q_cell[s].elt < q_cell[t].elt
       /\ \A s \in 0..count - 1 : q_cell[s].elt \in 1..accepted
  BY <1>13 DEF ItemsInv, QueueContents
<1>15. 0..q_count' - 1 = 0..count
  BY <1>7
<1>16. \A s \in 0..count : q_cell'[s].elt = IF s = i + 1 THEN accepted + 1 ELSE q_cell[back(s)].elt
  BY <1>11
<1>17. \A s, t \in 0..count : s # t /\ s # i + 1 /\ t # i + 1 => back(s) # back(t)
  BY <1>6
<1>18. \A s, t \in 0..count : q_cell'[s].elt = q_cell'[t].elt => s = t
  BY <1>8, <1>11, <1>14, <1>16, <1>17
<1>19. {q_cell'[s].elt : s \in 0..count} = 1..accepted + 1 \ delivered
  <2>1. {q_cell'[s].elt : s \in 0..count} = {q_cell[s].elt : s \in 0..count - 1} \cup {accepted + 1}
    <3>1. i + 1 \in 0..count
      BY <1>6
    <3>2. \A s \in 0..count : s # i + 1 => back(s) \in 0..count - 1
      BY <1>11
    <3> HIDE DEF back
    <3> QED
      BY <1>12, <1>16, <3>1, <3>2
  <2>2. accepted + 1 \notin delivered
    BY DEF ItemsInv
  <2> QED
    BY <1>8, <1>14, <2>1, <2>2
<1>20. ASSUME NEW s \in 0..count, NEW t \in 0..count, s < t
       PROVE  \/ q_cell'[s].key > q_cell'[t].key
              \/ q_cell'[s].key = q_cell'[t].key /\ q_cell'[s].elt < q_cell'[t].elt
  <2>1. CASE s # i + 1 /\ t # i + 1
    <3>1. back(s) < back(t)
      BY <1>6, <1>20, <2>1
    <3> HIDE DEF back
    <3> QED
      BY <1>11, <1>14, <2>1, <3>1
  <2>2. CASE s = i + 1
    <3>1. back(t) \in 0..count - 1 /\ back(t) > i /\ q_cell'[t] = q_cell[back(t)]
      BY <1>6, <1>11, <1>20, <2>2
    <3> QED
      BY <1>2, <1>6, <1>11, <2>2, <3>1
  <2>3. CASE t = i + 1
    <3>1. s <= i /\ i # -1 /\ s \in 0..count - 1 /\ i \in 0..count - 1 /\ q_cell'[s] = q_cell[s]
      BY <1>6, <1>11, <1>20, <2>3
    <3>2. q_cell[s].key >= q_cell[i].key
      BY <1>5, <1>14, <3>1
    <3>3. q_cell[s].key >= key /\ q_cell[s].key \in Int /\ q_cell[s].elt \in 1..accepted
      BY <1>2, <1>5, <1>6, <1>14, <3>1, <3>2
    <3> QED
      BY <1>2, <1>8, <1>11, <2>3, <3>1, <3>3
  <2> QED
    BY <2>1, <2>2, <2>3
<1>21. QueueContents'
  BY <1>7, <1>15, <1>19, <1>20 DEF QueueContents
<1> QED
  BY <1>7, <1>8, <1>10, <1>15, <1>18, <1>21 DEF ItemsInv

\* deq() of an empty queue returns what was returned before; otherwise it moves
\* the items one slot forward.
LEMMA DeqKeepsItems ==
  ASSUME CountInv, ItemsInv, NEW c \in Consumers, DeqRemoves(c)
  PROVE  ItemsInv'
<1>1. q_count \in Int /\ q_count <= QMax /\ QMax \in Nat \ {0}
  BY QMaxAssumption DEF CountInv
<1>2. /\ delivered' = delivered \cup {q_cell[0].elt} /\ q_count' = q_count - 1
      /\ q_cell' = [s \in Slots |-> IF s < q_count - 1 THEN q_cell[s + 1] ELSE q_cell[s]]
      /\ accepted' = accepted
  BY DEF DeqRemoves
<1>3. accepted \in Nat /\ delivered \subseteq 0..accepted
      /\ q_cell \in [Slots -> [elt : 0..accepted, key : Int]]
  BY DEF ItemsInv
<1>4. 0 \in Slots /\ q_cell[0].elt \in 0..accepted
  BY <1>1, <1>3 DEF Slots
<1>5. \A s \in Slots : s < q_count - 1 => s + 1 \in Slots
  BY <1>1 DEF Slots
<1>6. q_cell' \in [Slots -> [elt : 0..accepted, key : Int]]
  BY <1>2, <1>3, <1>5
<1>7. delivered' \subseteq 0..accepted
  BY <1>2, <1>3, <1>4
<1>8. \A s \in 0..q_count - 2 : q_cell'[s] = q_cell[s + 1] /\ s + 1 \in 0..q_count - 1
  BY <1>1, <1>2 DEF Slots
<1>9. 0..q_count' - 1 = 0..q_count - 2
  BY <1>1, <1>2
<1>10. /\ \A s, t \in 0..q_count - 1 : q_cell[s].elt = q_cell[t].elt => s = t
       /\ {q_cell[s].elt : s \in 0..q_count - 1} = 1..accepted \ delivered
       /\ \A s, t \in 0..q_count - 1 : s < t =>
            \/ q_cell[s].key > q_cell[t].key
            \/ q_cell[s].key = q_cell[t].key /\ q_cell[s].elt < q_cell[t].elt
  BY DEF ItemsInv, QueueContents
<1>11. \A s, t \in 0..q_count - 2 : q_cell'[s].elt = q_cell'[t].elt => s = t
  BY <1>1, <1>8, <1>10
<1>12. {q_cell'[s].elt : s \in 0..q_count - 2} = 1..accepted \ delivered'
  <2>1. CASE q_count <= 0
    <3>1. {q_cell[s].elt : s \in 0..q_count - 1} = {} /\ {q_cell'[s].elt : s \in 0..q_count - 2} = {}
      BY <1>1, <2>1
    <3> QED
      BY <1>2, <1>10, <3>1
  <2>2. CASE q_count > 0
    <3>1. 0 \in 0..q_count - 1
      BY <1>1, <2>2
    <3>2. ASSUME NEW s \in 0..q_count - 1, s # 0
          PROVE  \E t \in 0..q_count - 2 : q_cell'[t] = q_cell[s]
      <4>1. s - 1 \in 0..q_count - 2 /\ (s - 1) + 1 = s
        BY <1>1, <3>2
      <4> QED
        BY <1>8, <4>1
    <3>3. {q_cell'[s].elt : s \in 0..q_count - 2}
          = {q_cell[s].elt : s \in 0..q_count - 1} \ {q_cell[0].elt}
      <4>1. ASSUME NEW t \in 0..q_count - 2
            PROVE  q_cell'[t].elt \in {q_cell[s].elt : s \in 0..q_count - 1} \ {q_cell[0].elt}
        <5>1. t + 1 \in 0..q_count - 1 /\ t + 1 # 0 /\ q_cell'[t] = q_cell[t + 1]
          BY <1>8
        <5> QED
          BY <1>10, <3>1, <5>1
      <4>2. ASSUME NEW s \in 0..q_count - 1, q_cell[s].elt # q_cell[0].elt
            PROVE  q_cell[s].elt \in {q_cell'[t].elt : t \in 0..q_count - 2}
        BY <3>2, <4>2
      <4> QED
        BY <4>1, <4>2
    <3> QED
      BY <1>2, <1>10, <3>3
  <2> QED
    BY <1>1, <2>1, <2>2
<1>13. \A s, t \in 0..q_count - 2 : s < t =>
            \/ q_cell'[s].key > q_cell'[t].key
            \/ q_cell'[s].key = q_cell'[t].key /\ q_cell'[s].elt < q_cell'[t].elt
  BY <1>1, <1>8, <1>10
<1>14. QueueContents'
  BY <1>2, <1>9, <1>12, <1>13 DEF QueueContents
<1> QED
  BY <1>2, <1>3, <1>6, <1>7, <1>9, <1>11, <1>14 DEF ItemsInv

\* The items in the queue are those put in and not yet returned, by priority and
\* age: a consumer that finds the queue empty behind its test returns an item
\* that was returned before and loses none.
THEOREM ContentsAreKept == QueueSpec => []QueueContents
<1>1. QueueInit => ItemsInv
  <2> SUFFICES ASSUME QueueInit PROVE ItemsInv
    OBVIOUS
  <2>1. 0..q_count - 1 = {} /\ 1..accepted = {} /\ accepted = 0
    BY DEF QueueInit
  <2> QED
    BY <2>1 DEF QueueInit, ItemsInv, QueueContents
<1>2. CountInv /\ ItemsInv /\ [QueueNext]_queueVars => ItemsInv'
  <2> SUFFICES ASSUME CountInv, ItemsInv, [QueueNext]_queueVars PROVE ItemsInv'
    OBVIOUS
  <2>1. CASE UNCHANGED <<q_cell, q_count, accepted, delivered>>
    BY <2>1 DEF ItemsInv, QueueContents
  <2>2. CASE \E key \in QKeys : EnqInserts(key)
    BY <2>2, EnqKeepsItems
  <2>3. CASE \E c \in Consumers : DeqRemoves(c)
    BY <2>3, DeqKeepsItems
  <2> QED
    BY <2>1, <2>2, <2>3
       DEF QueueNext, EnqTests, SeeqTests, SeeqShows, DeqTests, Begins, queueVars
<1>3. ItemsInv => QueueContents
  BY DEF ItemsInv
<1> QED
  BY <1>1, <1>2, <1>3, CountInvInit, CountInvNext, PTL DEF QueueSpec
=============================================================================
