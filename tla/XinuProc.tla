------------------------------ MODULE XinuProc -------------------------------
(***************************************************************************)
(* The process table, the ready list and the dispatcher                    *)
(* (h/proc.h, sys/ready.c, sys/resched.c, sys/create.c).                   *)
(*                                                                         *)
(* Process ids and lock descriptors are the integers the code uses: one    *)
(* system call passes a lock descriptor where a process id is expected.    *)
(***************************************************************************)
EXTENDS XinuQueue

CONSTANTS NPROC,   \* slots of the process table
          MAXINT   \* largest priority or key of an int

ASSUME NPROCAssumption == NPROC \in Nat /\ NPROC >= 2
ASSUME MAXINTAssumption == MAXINT \in Nat

Procs    == 0..NPROC - 1
NULLPROC == 0                  \* the process that is always eligible to run
UserPids == Procs \ {NULLPROC} \* the pids that pass isbadpid()

PStates ==
  {"PRCURR", "PRFREE", "PRREADY", "PRRECV", "PRSLEEP", "PRSUSP", "PRWAIT",
   "PRTRECV", "PROCESS_LOCK"}

VARIABLES pstate,    \* proctab[p].pstate
          pprio,     \* proctab[p].pprio, the priority the process was given
          pinh,      \* proctab[p].pinh, the inherited priority, 0 for none
          rdy,       \* the ready list, keyed by pprio
          currpid,   \* the process that has the CPU
          nextproc   \* where newpid() starts its search

procVars == <<pstate, pprio, pinh, rdy, currpid, nextproc>>

\* The priority a process is scheduled with; ih stands for pinh.
Eff(ih, p) == IF ih[p] = 0 THEN pprio[p] ELSE ih[p]

ReadyEntry(pp, p) == [pid |-> p, key |-> pp[p]]

(***************************************************************************)
(* resched().  The operators take the process states, the ready list and   *)
(* the inherited priorities as the caller has left them.                   *)
(***************************************************************************)

\* The first test compares the base priority of the process at the tail with
\* the base priority of the caller; an empty list has the head's key MININT.
TailBelowCurrent(rd) == rd # <<>> => rd[Len(rd)].key < pprio[currpid]

\* Mutant of Contenders: the scan ignores the inherited priorities.
ContendersByBase(rd, ih) ==
  {i \in DOMAIN rd : \A j \in DOMAIN rd : pprio[rd[j].pid] <= pprio[rd[i].pid]}

\* The scan starts at the tail and a later process needs a larger priority.
Contenders(rd, ih) ==
  {i \in DOMAIN rd : \A j \in DOMAIN rd : Eff(ih, rd[j].pid) <= Eff(ih, rd[i].pid)}

Chosen(rd, ih) == rd[Max(Contenders(rd, ih))].pid

GivesUpCpu(ps, rd, ih) ==
  ps[currpid] = "PRCURR" =>
    /\ ~TailBelowCurrent(rd)
    /\ Eff(ih, currpid) <= Eff(ih, Chosen(rd, ih))

SwitchTo(p, ps, rd) ==
  LET yields == ps[currpid] = "PRCURR"
      states == IF yields THEN [ps EXCEPT ![currpid] = "PRREADY"] ELSE ps
      list   == IF yields THEN Insert(rd, ReadyEntry(pprio, currpid)) ELSE rd
  IN  /\ currpid' = p
      /\ pstate'  = [states EXCEPT ![p] = "PRCURR"]
      /\ rdy'     = Dequeue(list, p)

Resched(ps, rd, ih) ==
  \/ /\ ~GivesUpCpu(ps, rd, ih)
     /\ pstate' = ps
     /\ rdy' = rd
     /\ UNCHANGED currpid
  \/ /\ GivesUpCpu(ps, rd, ih)
     /\ SwitchTo(Chosen(rd, ih), ps, rd)

(***************************************************************************)
(* newpid(): the first free slot at or below nextproc, wrapping around.    *)
(***************************************************************************)
FreeSlots == {p \in UserPids : pstate[p] = "PRFREE"}

SearchDistance(p) == (nextproc - p) % NPROC

NewPid ==
  CHOOSE p \in FreeSlots :
    \A r \in FreeSlots : SearchDistance(p) <= SearchDistance(r)

SlotAfter(p) == IF p <= 0 THEN NPROC - 1 ELSE p - 1

ProcTypeOK ==
  /\ pstate \in [Procs -> PStates]
  /\ pprio \in [Procs -> 0..MAXINT]
  /\ pinh \in [Procs -> 0..MAXINT]
  /\ rdy \in Seq([pid : Procs, key : 0..MAXINT])
  /\ currpid \in Procs
  /\ nextproc \in Procs
==============================================================================
