------------------------------ MODULE XinuQueue ------------------------------
(***************************************************************************)
(* The priority-ordered process lists kept in q[] (sys/insert.c,           *)
(* sys/queue.c, sys/getitem.c).  A list is the sequence of its entries     *)
(* from head to tail; the head and tail cells, whose keys are MININT and   *)
(* MAXINT, are the two ends of the sequence.  An entry is a record that    *)
(* holds at least the process id and the key it was inserted with: the     *)
(* fields of q[pid] are only meaningful while pid is on a list.            *)
(***************************************************************************)
EXTENDS Integers, Sequences, SequencesExt

\* The processes on a list.
Pids(list) == {list[i].pid : i \in DOMAIN list}

(***************************************************************************)
(* insert(proc, head, key): walk from the head past every smaller key, so  *)
(* a new entry lands in front of those with an equal key.                  *)
(***************************************************************************)
InsertPos(list, key) ==
  Min({i \in 1..Len(list) + 1 : i <= Len(list) => key <= list[i].key})

Insert(list, entry) == InsertAt(list, InsertPos(list, entry.key), entry)

\* Mutant of Dequeue: unlinks the head instead of the process.
DequeueHead(list, p) == IF p \in Pids(list) THEN Tail(list) ELSE list

\* dequeue(item): unlink the process from whichever place it has.
Dequeue(list, p) ==
  IF p \in Pids(list)
  THEN RemoveAt(list, CHOOSE i \in DOMAIN list : list[i].pid = p)
  ELSE list

\* The keys rise from head to tail.
Sorted(list) == \A i, j \in DOMAIN list : i < j => list[i].key <= list[j].key

\* No process is linked twice.
Distinct(list) ==
  \A i, j \in DOMAIN list : list[i].pid = list[j].pid => i = j
==============================================================================
