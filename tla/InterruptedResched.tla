--------------------------- MODULE InterruptedResched ---------------------------
(***************************************************************************)
(* The end of releaseall() (sys/releaseall.c:342): restore() comes before  *)
(* resched(), so the clock can interrupt resched() and reschedule inside   *)
(* of it.  Every other caller of resched() has interrupts disabled.        *)
(*                                                                         *)
(* Here resched() is the three parts an interrupt is let in between; an    *)
(* interrupt inside of the scan or of insert() is left out.                *)
(***************************************************************************)
EXTENDS KernelServices

VARIABLES rpc,      \* where in resched() process p is, "out" for elsewhere
          max_pid   \* the local variable of that resched()

opened == <<rpc, max_pid>>
rschVars == <<servVars, opened>>

\* restore(); resched() up to the end of its second test.
ReleaseallScans ==
  /\ Calling("releaseall")
  /\ rpc[currpid] = "out"
  /\ GivesUpCpu(pstate, rdy, pinh)
  /\ rpc' = [rpc EXCEPT ![currpid] = "scanned"]
  /\ max_pid' = [max_pid EXCEPT ![currpid] = Chosen(rdy, pinh)]
  /\ UNCHANGED servVars

\* The current process goes back to the ready list.
PutsCurrentBack ==
  /\ rpc[currpid] = "scanned"
  /\ rpc' = [rpc EXCEPT ![currpid] = "listed"]
  /\ IF pstate[currpid] = "PRCURR"
     THEN /\ pstate' = [pstate EXCEPT ![currpid] = "PRREADY"]
          /\ rdy' = Insert(rdy, ReadyEntry(pprio, currpid))
     ELSE UNCHANGED <<pstate, rdy>>
  /\ UNCHANGED <<currpid, pprio, pinh, nextproc, callVars, semVars, msgVars,
                 timeVars, max_pid>>

\* dequeue() unlinks max_pid from whichever list it is on by now.
TakesMaxPid ==
  /\ rpc[currpid] = "listed"
  /\ LET p == max_pid[currpid]
     IN  /\ currpid' = p
         /\ pstate' = [pstate EXCEPT ![p] = "PRCURR"]
         /\ rdy' = Dequeue(rdy, p)
         /\ clockq' = Dequeue(clockq, p)
  /\ rpc' = [rpc EXCEPT ![currpid] = "out"]
  /\ UNCHANGED <<pprio, pinh, nextproc, callVars, semVars, msgVars,
                 slnempty, sltop, due, idled, max_pid>>

Interrupts == (ClockInterrupt \/ QuantumEnds) /\ UNCHANGED opened

UserCall ==
  /\ rpc[currpid] = "out"
  /\ \/ \E n \in Delays : Sleep(n)
     \/ \E p \in UserPids : Resume(p)
  /\ UNCHANGED opened

RschInit ==
  /\ ServInit
  /\ rpc = [p \in Procs |-> "out"]
  /\ max_pid = [p \in Procs |-> NULLPROC]

RschNext == ReleaseallScans \/ PutsCurrentBack \/ TakesMaxPid \/ Interrupts
            \/ UserCall

RschSpec == RschInit /\ [][RschNext]_rschVars

\* h/proc.h:24-28: a process in state PRCURR is the one that is running, one in
\* state PRREADY is on the ready queue and one in state PRSLEEP is sleeping,
\* whenever the running process is outside of resched().
StatesAsDocumented ==
  rpc[currpid] = "out" =>
    \A p \in Procs : /\ pstate[p] = "PRCURR" <=> p = currpid
                     /\ pstate[p] = "PRREADY" <=> p \in Pids(rdy)
                     /\ pstate[p] = "PRSLEEP" <=> p \in Pids(clockq)
==============================================================================
