----------------------------- MODULE LockService -----------------------------
(***************************************************************************)
(* What the readers/writer locks promise to processes that release what    *)
(* they hold: who may hold a lock together, when a process may be made to  *)
(* wait, and the only ways a wait can end.  It knows nothing of counts,    *)
(* priorities, lists or the scheduler.                                     *)
(***************************************************************************)
CONSTANTS P, L    \* processes and locks

VARIABLES open,     \* the locks that exist
          rd, wr,   \* who holds a lock, for reading and for writing
          waiting   \* who waits for a lock, and for what

svars == <<open, rd, wr, waiting>>

Requests == {"READ", "WRITE"}

Busy(l) == rd[l] \cup wr[l] # {}

WaitsSomewhere(p) == \E l \in L, t \in Requests : <<p, t>> \in waiting[l]

Init ==
  /\ open = {}
  /\ rd = [l \in L |-> {}]
  /\ wr = [l \in L |-> {}]
  /\ waiting = [l \in L |-> {}]

\* A descriptor is handed out only when no process waits on its last owner.
Open(l) ==
  /\ l \notin open /\ waiting[l] = {}
  /\ open' = open \cup {l}
  /\ UNCHANGED <<rd, wr, waiting>>

Close(l) ==
  /\ l \in open
  /\ open' = open \ {l}
  /\ rd' = [rd EXCEPT ![l] = {}]
  /\ wr' = [wr EXCEPT ![l] = {}]
  /\ UNCHANGED waiting

\* A process waits only for a lock that somebody holds, and a reader among
\* readers only when a writer waits.
Wait(l, p, t) ==
  /\ l \in open /\ Busy(l) /\ ~WaitsSomewhere(p)
  /\ t = "READ" => wr[l] # {} \/ \E w \in P : <<w, "WRITE">> \in waiting[l]
  /\ waiting' = [waiting EXCEPT ![l] = @ \cup {<<p, t>>}]
  /\ UNCHANGED <<open, rd, wr>>

\* Readers share, a writer is alone.  The process has just asked, or it waits.
Acquire(l, p, t) ==
  /\ l \in open /\ wr[l] = {}
  /\ <<p, t>> \in waiting[l] \/ ~WaitsSomewhere(p)
  /\ waiting' = [waiting EXCEPT ![l] = @ \ {<<p, t>>}]
  /\ \/ /\ t = "READ"
        /\ rd' = [rd EXCEPT ![l] = @ \cup {p}]
        /\ UNCHANGED wr
     \/ /\ t = "WRITE" /\ rd[l] = {}
        /\ wr' = [wr EXCEPT ![l] = @ \cup {p}]
        /\ UNCHANGED rd
  /\ UNCHANGED open

Release(l, p) ==
  /\ p \in rd[l] \cup wr[l]
  /\ rd' = [rd EXCEPT ![l] = @ \ {p}]
  /\ wr' = [wr EXCEPT ![l] = @ \ {p}]
  /\ UNCHANGED <<open, waiting>>

\* A waiter is turned away only from a lock that has been deleted.
TurnAway(l, p, t) ==
  /\ l \notin open /\ <<p, t>> \in waiting[l]
  /\ waiting' = [waiting EXCEPT ![l] = @ \ {<<p, t>>}]
  /\ UNCHANGED <<open, rd, wr>>

Next ==
  \E l \in L :
    \/ Open(l)
    \/ Close(l)
    \/ \E p \in P :
         \/ Release(l, p)
         \/ \E t \in Requests : Wait(l, p, t) \/ Acquire(l, p, t) \/ TurnAway(l, p, t)

Spec == Init /\ [][Next]_svars
==============================================================================
