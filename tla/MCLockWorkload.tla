--------------------------- MODULE MCLockWorkload ----------------------------
(***************************************************************************)
(* Values of the constants for the runs of LockWorkload.                   *)
(***************************************************************************)
EXTENDS LockWorkload

Three    == <<1, 1, 1>>
One      == {<<0>>}
Programs == {"lcreate", "lock", "releaseall", "resume", "kill"}
==============================================================================
