--------------------------- MODULE CountingSemaphore ---------------------------
(***************************************************************************)
(* What the semaphores of the kernel promise: units that are taken at once *)
(* or waited for in arrival order, never lost and never handed out twice;  *)
(* a wait ends with a unit, a reset, a refusal when the semaphore is       *)
(* deleted, or the death of the process.                                   *)
(***************************************************************************)
EXTENDS Integers, Sequences, SequencesExt

CONSTANTS Sems, Procs

VARIABLES open,     \* the semaphores that exist
          units,    \* units[s]: units nobody has taken
          waiting,  \* waiting[s]: the processes in line
          stage,    \* stage[p]: "out", "waiting", "passed", "refused"
          resets    \* may a semaphore be reset?  It does not change

semaphoreVars == <<open, units, waiting, stage, resets>>

Stages(pids, new) == [p \in Procs |-> IF p \in Range(pids) THEN new ELSE stage[p]]

Init == /\ open = {}
        /\ units = [s \in Sems |-> 0]
        /\ waiting = [s \in Sems |-> <<>>]
        /\ stage = [p \in Procs |-> "out"]
        /\ resets \in BOOLEAN

\* Only the units of s change.
OnlyUnitsOf(s) == /\ units'[s] \in Nat
                  /\ units' = [units EXCEPT ![s] = units'[s]]

Open(s) == /\ s \notin open
           /\ open' = open \cup {s}
           /\ OnlyUnitsOf(s)
           /\ UNCHANGED <<waiting, stage, resets>>

Take(s) == /\ s \in open /\ units[s] > 0
           /\ units' = [units EXCEPT ![s] = @ - 1]
           /\ UNCHANGED <<open, waiting, stage, resets>>

Join(s, p) == /\ s \in open /\ units[s] = 0 /\ stage[p] = "out"
              /\ waiting' = [waiting EXCEPT ![s] = Append(@, p)]
              /\ stage' = [stage EXCEPT ![p] = "waiting"]
              /\ UNCHANGED <<open, units, resets>>

\* New units: the first in line get theirs, what nobody waits for is kept.
Post(s) ==
  /\ s \in open
  /\ \E served \in 0..Len(waiting[s]) :
       /\ waiting' = [waiting EXCEPT ![s] = SubSeq(@, served + 1, Len(@))]
       /\ stage' = Stages(SubSeq(waiting[s], 1, served), "passed")
       /\ units'[s] >= units[s]
       /\ units'[s] > units[s] => served = Len(waiting[s])
  /\ OnlyUnitsOf(s)
  /\ UNCHANGED <<open, resets>>

Reset(s) == /\ resets /\ s \in open
            /\ waiting' = [waiting EXCEPT ![s] = <<>>]
            /\ stage' = Stages(waiting[s], "passed")
            /\ OnlyUnitsOf(s)
            /\ UNCHANGED <<open, resets>>

Close(s) == /\ s \in open
            /\ open' = open \ {s}
            /\ units' = [units EXCEPT ![s] = 0]
            /\ waiting' = [waiting EXCEPT ![s] = <<>>]
            /\ stage' = Stages(waiting[s], "refused")
            /\ UNCHANGED resets

Leave(p) == /\ stage[p] \in {"passed", "refused"}
            /\ stage' = [stage EXCEPT ![p] = "out"]
            /\ UNCHANGED <<open, units, waiting, resets>>

GiveUp(p) == /\ stage[p] = "waiting"
             /\ stage' = [stage EXCEPT ![p] = "out"]
             /\ waiting' = [s \in Sems |-> RemoveFirst(waiting[s], p)]
             /\ UNCHANGED <<open, units, resets>>

Next == \/ \E s \in Sems : Open(s) \/ Take(s) \/ Post(s) \/ Reset(s) \/ Close(s)
        \/ \E s \in Sems, p \in Procs : Join(s, p)
        \/ \E p \in Procs : Leave(p) \/ GiveUp(p)

Spec == Init /\ [][Next]_semaphoreVars
==============================================================================
