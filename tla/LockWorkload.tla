---------------------------- MODULE LockWorkload -----------------------------
(***************************************************************************)
(* The locks under a workload that ends: main creates a lock and resumes   *)
(* the other processes; then every process takes the lock once, releases   *)
(* it and returns from its main procedure.  The programs have the shape of *)
(* the readers and writers of sys/main.c.                                 *)
(***************************************************************************)
EXTENDS RWLock

CONSTANTS Tickets,       \* wait priorities, each used by one request
          WriteRequests  \* how many of the requests are for writing

ASSUME TicketsAssumption == Tickets \subseteq Int
ASSUME WriteRequestsAssumption == WriteRequests \in Nat

VARIABLES stage,    \* how far each process is in its program
          tickets,  \* the wait priorities not used yet
          writes    \* the write requests not made yet

workVars == <<stage, tickets, writes>>
allVars == <<vars, workVars>>

TheLock == 0

\* main has created the lock and resumed everybody.
Started == FreeLocks = {} /\ \A p \in UserPids : pstate[p] # "PRSUSP"

SetUp(p) ==
  /\ p = MAIN
  /\ Lcreate \/ \E q \in UserPids : Resume(q)
  /\ UNCHANGED workVars

Request(p) ==
  /\ p = MAIN => Started
  /\ stage[p] = "start"
  /\ \E type \in Types, ticket \in tickets :
       /\ type = "WRITE" => writes > 0
       /\ LockWait(TheLock, type, ticket) \/ LockGrant(TheLock, type, ticket)
       /\ tickets' = tickets \ {ticket}
       /\ writes' = IF type = "WRITE" THEN writes - 1 ELSE writes
  /\ stage' = [stage EXCEPT ![p] = "asked"]

GiveBack(p) ==
  /\ stage[p] = "asked" /\ p \in Holders(TheLock)
  /\ Releaseall(<<TheLock>>)
  /\ stage' = [stage EXCEPT ![p] = "released"]
  /\ UNCHANGED <<tickets, writes>>

Exit(p) ==
  /\ stage[p] = "released"
  /\ KillSelf
  /\ UNCHANGED workVars

\* A step of the program of the process that has the CPU.
Run(p) ==
  /\ currpid = p
  /\ SetUp(p) \/ Request(p) \/ GiveBack(p) \/ Exit(p)

Kernel == KernelStep /\ UNCHANGED workVars

WorkInit ==
  /\ Init
  /\ stage = [p \in Procs |-> "start"]
  /\ tickets = Tickets
  /\ writes = WriteRequests

WorkNext ==
  \/ \E p \in UserPids : Run(p)
  \/ Kernel
  \/ ClockStep /\ UNCHANGED workVars

(***************************************************************************)
(* A kernel call in progress keeps the CPU, so it continues (WF).  Between *)
(* two clock ticks the running process executes instructions, so a process *)
(* that is given the CPU again and again gets on with its program (SF).    *)
(***************************************************************************)
Fairness ==
  /\ WF_allVars(Kernel)
  /\ \A p \in UserPids : SF_allVars(Run(p))

WorkSpec == WorkInit /\ [][WorkNext]_allVars /\ Fairness

-------------------------------------------------------------------------------
\* Every system call returns to user mode: sys/releaseall.c:157 unblocks the
\* readers above the waiting writers, and then goes on.
KernelCallsReturn == kpc # "user" ~> kpc = "user"

\* Every process that waits for the lock gets it in the end, whatever the
\* order of requests, releases and clock ticks.
WaitersServed ==
  \A p \in UserPids :
    pstate[p] = "PROCESS_LOCK" ~> p \in Holders(TheLock)
==============================================================================
