---------------------------- MODULE RWLockRefines ----------------------------
(***************************************************************************)
(* The kernel's locks implement LockService.                               *)
(***************************************************************************)
EXTENDS RWLock

Service == INSTANCE LockService WITH
  P       <- Procs,
  L       <- Locks,
  open    <- {l \in Locks : lstate[l] = "ACQUIRED"},
  rd      <- readers,
  wr      <- writers,
  waiting <- [l \in Locks |->
                {<<waitq[l][i].pid, waitq[l][i].type>> : i \in DOMAIN waitq[l]}]

\* Every step of the kernel is a step of LockService or changes nothing it
\* can see: lock() makes a process wait only when it must, releaseall() hands
\* a lock only to a waiter it is compatible with, and ldelete() turns every
\* waiter away before the descriptor can be handed out again.  For processes
\* that release what they hold and are not killed.
ImplementsService == Service!Spec
==============================================================================
