---------------------------- MODULE RWLockClaims -----------------------------
(***************************************************************************)
(* What the README and the comments say of the locks, where the code does  *)
(* something else.                                                         *)
(***************************************************************************)
EXTENDS RWLock

\* README.md:69: a lock that is not held by the caller of releaseall() is not
\* released.
ReleasesOnlyHeld ==
  [][\A l \in Locks :
       /\ lstate[l] = "ACQUIRED"
       /\ num_reader'[l] < num_reader[l] \/ num_writer'[l] < num_writer[l]
       => currpid \in Holders(l)]_vars

\* README.md:44: when a writer or the last reader releases a lock, the lock is
\* next given to a waiter.
FreeLockHandedOn ==
  \A l \in Locks :
    /\ kpc = "user" /\ lstate[l] = "ACQUIRED"
    /\ num_reader[l] = 0 /\ num_writer[l] = 0
    => waitq[l] = <<>>

\* README.md:85: a process that holds a lock runs with at least the priority of
\* each process that waits for it.
HolderInherits ==
  kpc = "user" =>
    \A l \in Locks : \A p \in Holders(l), w \in Pids(waitq[l]) :
      pprio[w] <= Eff(pinh, p)

\* sys/resched.c:11: resched() gives the processor to the highest priority
\* ready process: when it returns from resume(), no ready process has a larger
\* scheduling priority than the running one.
RunsHighestPriority ==
  [][(\E r \in UserPids : Resume(r)) => \A p \in Procs :
       pstate'[p] = "PRREADY" => Eff(pinh, p)' <= Eff(pinh, currpid)']_vars
==============================================================================
