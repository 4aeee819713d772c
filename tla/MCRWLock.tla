------------------------------ MODULE MCRWLock -------------------------------
(***************************************************************************)
(* Values of the constants for the runs of RWLock, RWLockRefines and       *)
(* RWLockClaims.  A process list <<a, b, c>> is main with priority a and   *)
(* the processes it has created, with priorities b and c.                  *)
(***************************************************************************)
EXTENDS RWLockClaims, RWLockRefines

\* Processes.
Two      == <<1, 1>>
Three    == <<1, 1, 1>>
MainHigh == <<2, 1>>
Rising   == <<1, 2, 3>>

\* Arguments of releaseall(); NLOCK is the first descriptor out of range.
One     == {<<0>>}
Lists   == {<<0>>, <<0, NLOCK>>}
TwoLock == {<<0>>, <<0, 1>>}

\* System calls.
Core      == {"lcreate", "lock", "releaseall", "resume"}
Deleting  == Core \cup {"ldelete"}
Adjusting == Core \cup {"chprio", "kill", "suspend", "create", "sleep"}
Parking   == Core \cup {"suspend"}
==============================================================================
