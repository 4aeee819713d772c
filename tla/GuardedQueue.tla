------------------------------ MODULE GuardedQueue ------------------------------
(***************************************************************************)
(* The generic priority queues (sys/gpq.c; mon/mongpq.c is the same code   *)
(* for the boot monitor).  enq(), deq() and seeq() test the queue before   *)
(* they take its mutex, so each of them is two steps here.                 *)
(*                                                                         *)
(* One process puts items in and any number take them out.  Two processes  *)
(* that put items in can run past the end of the arrays (gpq.c:46): what   *)
(* they overwrite then is not modelled.                                    *)
(***************************************************************************)
EXTENDS Integers, FiniteSetsExt

CONSTANTS QMax,       \* q_max, the slots of the queue
          QKeys,      \* priorities of the items
          Consumers,  \* the processes that take items out
          MaxItems    \* bound on the items put in

ASSUME QMaxAssumption == QMax \in Nat \ {0} /\ MaxItems \in Nat
ASSUME QKeysAssumption == QKeys \subseteq Int
ASSUME ConsumersAssumption ==
  IsFiniteSet(Consumers) /\ Consumers # {} /\ {"producer", "peeker"} \cap Consumers = {}

Slots   == 0..QMax - 1
Clients == Consumers \cup {"producer", "peeker"}

VARIABLES
  q_cell,     \* q_elt and q_key of each slot
  q_count,    \* items in the queue
  q_seen,     \* the slot seeq() returned last
  q_inside,   \* the call a client has begun and not ended
  accepted,   \* history: items put in; they are numbered in this order
  delivered   \* history: the items returned by deq()

queueVars == <<q_cell, q_count, q_seen, q_inside, accepted, delivered>>

Begins(c, call) ==
  /\ q_inside[c] = "none"
  /\ q_inside' = [q_inside EXCEPT ![c] = call]
  /\ UNCHANGED <<q_cell, q_count, q_seen, accepted, delivered>>

Ends(c, call) ==
  /\ q_inside[c] = call
  /\ q_inside' = [q_inside EXCEPT ![c] = "none"]

EnqTests == q_count < QMax /\ accepted < MaxItems /\ Begins("producer", "enq")

\* Mutant of FromTail: an item overtakes those of the same priority.
FromTailAbove(count, key) ==
  Max({-1} \cup {j \in 0..count - 1 : key < q_cell[j].key})

\* The search from the tail stops at the last item that is not overtaken.
FromTail(count, key) ==
  Max({-1} \cup {j \in 0..count - 1 : key <= q_cell[j].key})

InsertBehind(i, count, item) ==
  [s \in Slots |-> IF s = i + 1 THEN item
                   ELSE IF s \in i + 2..count THEN q_cell[s - 1] ELSE q_cell[s]]

\* "this shouldn't happen, but...": a negative count becomes 0.
Repaired(count) == Max({0, count})

EnqInserts(key) ==
  /\ Ends("producer", "enq")
  /\ LET count == Repaired(q_count)
     IN  /\ q_cell' = InsertBehind(FromTail(count, key), count,
                                   [elt |-> accepted + 1, key |-> key])
         /\ q_count' = count + 1
  /\ accepted' = accepted + 1
  /\ UNCHANGED <<q_seen, delivered>>

\* Mutant of DeqTests: a queue whose count is negative is not empty.
DeqTestsNonzero(c) == q_count # 0 /\ Begins(c, "deq")

DeqTests(c) == q_count > 0 /\ Begins(c, "deq")

DeqRemoves(c) ==
  /\ Ends(c, "deq")
  /\ delivered' = delivered \cup {q_cell[0].elt}
  /\ q_cell' = [s \in Slots |-> IF s < q_count - 1 THEN q_cell[s + 1] ELSE q_cell[s]]
  /\ q_count' = q_count - 1
  /\ UNCHANGED <<q_seen, accepted>>

SeeqTests == q_count # 0 /\ Begins("peeker", "seeq")

SeeqShows ==
  /\ Ends("peeker", "seeq")
  /\ q_seen' = IF q_seen + 1 >= q_count THEN -1 ELSE q_seen + 1
  /\ UNCHANGED <<q_cell, q_count, accepted, delivered>>

QueueInit ==
  /\ q_cell = [s \in Slots |-> [elt |-> 0, key |-> 0]]
  /\ q_count = 0
  /\ q_seen = -1
  /\ q_inside = [c \in Clients |-> "none"]
  /\ accepted = 0
  /\ delivered = {}

QueueNext ==
  \/ EnqTests \/ SeeqTests \/ SeeqShows
  \/ \E key \in QKeys : EnqInserts(key)
  \/ \E c \in Consumers : DeqTests(c) \/ DeqRemoves(c)

QueueSpec == QueueInit /\ [][QueueNext]_queueVars

-------------------------------------------------------------------------------
\* Nothing is lost and the order is kept, whatever happens between the test of
\* a call and its mutex: the items in the queue are those put in and not yet
\* returned, by priority, and by age within a priority.  An item may well be
\* returned twice, to two processes that both saw a count of 1.
QueueContents ==
  LET used == 0..q_count - 1
  IN  /\ {q_cell[s].elt : s \in used} = 1..accepted \ delivered
      /\ \A s, t \in used : s < t =>
           \/ q_cell[s].key > q_cell[t].key
           \/ q_cell[s].key = q_cell[t].key /\ q_cell[s].elt < q_cell[t].elt

\* A count below 0 is one for each consumer that took an item that was no longer
\* there, so it never exceeds their number; the arrays are never overrun.
CountInBounds == q_count \in 1 - Cardinality(Consumers)..QMax
==============================================================================
