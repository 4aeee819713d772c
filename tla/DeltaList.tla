------------------------------- MODULE DeltaList -------------------------------
(***************************************************************************)
(* The list of sleeping processes (sys/insertd.c, sys/unsleep.c).  It is a *)
(* delta list: the key of an entry is the number of ticks between the end  *)
(* of the delay before it and the end of its own.  As in XinuQueue a list  *)
(* is the sequence of its entries from head to tail.                       *)
(***************************************************************************)
EXTENDS XinuQueue

\* The ticks until the delay of the i-th entry ends.
TicksUntil(list, i) ==
  LET ticks[n \in 0..Len(list)] ==
        IF n = 0 THEN 0 ELSE ticks[n - 1] + list[n].key
  IN  ticks[i]

\* insertd() walks past every delay that ends before the new one.
DeltaPos(list, ticks) ==
  Min({i \in 1..Len(list) + 1 : i <= Len(list) => ticks <= TicksUntil(list, i)})

InsertDelta(list, p, ticks) ==
  LET i   == DeltaPos(list, ticks)
      key == ticks - TicksUntil(list, i - 1)
      reduced == IF i > Len(list) THEN list
                 ELSE [list EXCEPT ![i].key = @ - key]
  IN  InsertAt(reduced, i, [pid |-> p, key |-> key])

\* Mutant of RemoveDelta: the entry behind does not get the key.
RemoveDeltaOnly(list, p) == Dequeue(list, p)

\* unsleep(): the key of the process goes to the entry behind it.
RemoveDelta(list, p) ==
  LET i == CHOOSE i \in DOMAIN list : list[i].pid = p
      raised == IF i = Len(list) THEN list
                ELSE [list EXCEPT ![i + 1].key = @ + list[i].key]
  IN  RemoveAt(raised, i)

\* wakeup(): the entries at the head whose delay has run out.
DuePrefix(list) ==
  SubSeq(list, 1, Max({0} \cup {i \in DOMAIN list :
                                 \A j \in 1..i : list[j].key <= 0}))
==============================================================================
