----------------------------- MODULE KernelServices -----------------------------
(***************************************************************************)
(* Semaphores, messages, sleeping and the death of a process that waits    *)
(* for one of them (sys/screate.c, sdelete.c, wait.c, signal.c, signaln.c, *)
(* sreset.c, send.c, receive.c, recvclr.c, recvtim.c, setnok.c, sleep.c,   *)
(* sleep10.c, sleep100.c, sleep1000.c, wakeup.c, clkint.S, kill.c,         *)
(* create.c, suspend.c, resume.c) on the process table of XinuProc.        *)
(*                                                                         *)
(* A call runs with interrupts disabled, but resched() in the middle of it *)
(* hands the CPU to others: kcall[p] is the call process p is inside of,   *)
(* and what is left of that call is the first thing p does when it runs    *)
(* again.                                                                  *)
(***************************************************************************)
EXTENDS XinuProc, DeltaList, FiniteSets

CONSTANTS NSEM,       \* entries of semaph
          NewPrios,   \* priorities passed to create()
          Kin,        \* processes passed to setnok() as next of kin
          Delays,     \* delays, in ticks, passed to sleep and recvtim()
          Counts,     \* counts passed to screate(), sreset(), signaln()
          MaxCount,   \* bound: no signal of a semaphore beyond this count
          Workloads   \* the processes that exist and the calls they use; a
                      \* behaviour has one of these

ASSUME NSEMAssumption == NSEM \in Nat \ {0}
ASSUME WorkloadsAssumption ==
  \A w \in Workloads : w.prios \in Seq(1..MAXINT) /\ Len(w.prios) \in 1..NPROC - 1
ASSUME DelaysAssumption == Delays \subseteq Nat /\ Counts \subseteq Nat
ASSUME NewPriosAssumption == NewPrios \subseteq 1..MAXINT
ASSUME KinAssumption == Kin \subseteq UserPids
ASSUME MaxCountAssumption == MaxCount \in Nat

Sems   == 0..NSEM - 1
BADPID == -1

VARIABLES
  uses,      \* the system calls the processes of this behaviour use
  kcall,     \* the call a process is inside of, "none" in user mode
  kvictim,   \* kill(): the process being killed
  sstate,    \* semaph[s].sstate
  semcnt,    \* semaph[s].semcnt
  semq,      \* the waiters of a semaphore, first in first out
  nextsem,   \* where newsem() starts its search
  psem,      \* proctab[p].psem, the semaphore last waited for
  pwaitret,  \* proctab[p].pwaitret, what that wait returns
  phasmsg,   \* proctab[p].phasmsg
  pnxtkin,   \* proctab[p].pnxtkin, told when p dies
  clockq,    \* the delta list of sleeping processes
  slnempty,  \* is there a sleeper to count down for?
  sltop,     \* the process whose key the clock counts down
  due,       \* history: ticks left of the delay a sleeper asked for, -1 for late
  idled      \* history: a tick was spent on a delay that was 0 already

callVars == <<uses, kcall, kvictim>>
semVars  == <<sstate, semcnt, semq, nextsem, psem, pwaitret>>
msgVars  == <<phasmsg, pnxtkin>>
timeVars == <<clockq, slnempty, sltop, due, idled>>
servVars == <<procVars, callVars, semVars, msgVars, timeVars>>

-------------------------------------------------------------------------------
(***************************************************************************)
(* ready() for each process of a sequence, without a resched().            *)
(***************************************************************************)
ReadyStates(pids) ==
  [p \in Procs |-> IF p \in Range(pids) THEN "PRREADY" ELSE pstate[p]]

ReadyList(pids) ==
  LET list[n \in 0..Len(pids)] ==
        IF n = 0 THEN rdy ELSE Insert(list[n - 1], ReadyEntry(pprio, pids[n]))
  IN  list[Len(pids)]

ReadyAndResched(pids) == Resched(ReadyStates(pids), ReadyList(pids), pinh)

\* The running process leaves the CPU in a waiting state.
Block(state) == Resched([pstate EXCEPT ![currpid] = state], rdy, pinh)

\* A process in user mode makes a call.
Calling(call) ==
  currpid # NULLPROC /\ kcall[currpid] = "none" /\ call \in uses

Entering(call) == kcall' = [kcall EXCEPT ![currpid] = call]
Leaving == kcall' = [kcall EXCEPT ![currpid] = "none"]

-------------------------------------------------------------------------------
(***************************************************************************)
(* Semaphores.                                                             *)
(***************************************************************************)
FreeSems == {s \in Sems : sstate[s] = "SFREE"}

\* Mutant of SemAfter: the search never wraps around.
SemAfterNoWrap(s) == s - 1

SemAfter(s) == IF s = 0 THEN NSEM - 1 ELSE s - 1

\* newsem() searches downwards from nextsem and wraps around.
NewSem == CHOOSE s \in FreeSems :
            \A r \in FreeSems : (nextsem - s) % NSEM <= (nextsem - r) % NSEM

ScreateWith(count) ==
  /\ FreeSems # {}
  /\ sstate' = [sstate EXCEPT ![NewSem] = "SUSED"]
  /\ semcnt' = [semcnt EXCEPT ![NewSem] = count]
  /\ nextsem' = SemAfter(NewSem)
  /\ UNCHANGED <<procVars, callVars, semq, psem, pwaitret, msgVars, timeVars>>

Screate(count) == Calling("screate") /\ ScreateWith(count)

\* Mutant of Enqueued: the list is a stack.
EnqueuedInFront(list, p) == <<p>> \o list

\* enqueue(): at the tail.
Enqueued(list, p) == Append(list, p)

WaitOn(s) ==
  /\ sstate[s] = "SUSED"
  /\ semcnt' = [semcnt EXCEPT ![s] = @ - 1]
  /\ IF semcnt[s] > 0
     THEN UNCHANGED <<pstate, rdy, currpid, kcall, semq, psem, pwaitret>>
     ELSE /\ Entering("wait")
          /\ psem' = [psem EXCEPT ![currpid] = s]
          /\ semq' = [semq EXCEPT ![s] = Enqueued(@, currpid)]
          /\ pwaitret' = [pwaitret EXCEPT ![currpid] = "OK"]
          /\ Block("PRWAIT")
  /\ UNCHANGED <<pprio, pinh, nextproc, uses, kvictim, sstate, nextsem,
                 msgVars, timeVars>>

Wait(s) == Calling("wait") /\ WaitOn(s)

\* n signals wake a waiter as long as the count is negative.
Woken(s, n) == SubSeq(semq[s], 1, Min({n, -Min({0, semcnt[s]})}))

SignalTimes(s, n) ==
  LET woken == Woken(s, n)
  IN  /\ semcnt[s] + n <= MaxCount
      /\ sstate[s] = "SUSED"
      /\ semcnt' = [semcnt EXCEPT ![s] = @ + n]
      /\ semq' = [semq EXCEPT ![s] = SubSeq(@, Len(woken) + 1, Len(@))]
      /\ UNCHANGED <<pprio, pinh, nextproc, callVars, sstate, nextsem, psem,
                     pwaitret, msgVars, timeVars>>

\* signal() reschedules only when it wakes a process.
SignalOn(s) ==
  /\ SignalTimes(s, 1)
  /\ IF semcnt[s] < 0 THEN ReadyAndResched(Woken(s, 1))
                      ELSE UNCHANGED <<pstate, rdy, currpid>>

Signal(s) == Calling("signal") /\ SignalOn(s)

Signaln(s, n) ==
  /\ Calling("signaln")
  /\ n > 0
  /\ SignalTimes(s, n)
  /\ ReadyAndResched(Woken(s, n))

\* sreset() lets every waiter go; each of them returns OK from its wait.
Sreset(s, count) ==
  /\ Calling("sreset")
  /\ sstate[s] = "SUSED"
  /\ semcnt' = [semcnt EXCEPT ![s] = count]
  /\ semq' = [semq EXCEPT ![s] = <<>>]
  /\ ReadyAndResched(semq[s])
  /\ UNCHANGED <<pprio, pinh, nextproc, callVars, sstate, nextsem, psem,
                 pwaitret, msgVars, timeVars>>

Sdelete(s) ==
  /\ Calling("sdelete")
  /\ sstate[s] = "SUSED"
  /\ sstate' = [sstate EXCEPT ![s] = "SFREE"]
  /\ semq' = [semq EXCEPT ![s] = <<>>]
  /\ pwaitret' = [p \in Procs |->
                    IF p \in Range(semq[s]) THEN "DELETED" ELSE pwaitret[p]]
  /\ IF semq[s] = <<>> THEN UNCHANGED <<pstate, rdy, currpid>>
                       ELSE ReadyAndResched(semq[s])
  /\ UNCHANGED <<pprio, pinh, nextproc, callVars, semcnt, nextsem, psem,
                 msgVars, timeVars>>

\* A process that waited runs again: wait() returns pwaitret.
WaitReturns ==
  /\ kcall[currpid] = "wait"
  /\ Leaving
  /\ UNCHANGED <<procVars, uses, kvictim, semVars, msgVars, timeVars>>

-------------------------------------------------------------------------------
(***************************************************************************)
(* The delta list of the clock.                                            *)
(***************************************************************************)

\* insertd(currpid, clockq, ticks), and the two globals the clock looks at.
StartDelay(ticks) ==
  /\ clockq' = InsertDelta(clockq, currpid, ticks)
  /\ slnempty' = TRUE
  /\ sltop' = Head(clockq').pid
  /\ due' = [due EXCEPT ![currpid] = ticks]
  /\ UNCHANGED idled

\* Mutant of Unsleep: the clock keeps counting for the process that left.
UnsleepKeepsTop(p) ==
  /\ clockq' = RemoveDelta(clockq, p)
  /\ UNCHANGED <<slnempty, sltop, due, idled>>

Unsleep(p) ==
  /\ clockq' = RemoveDelta(clockq, p)
  /\ IF clockq' = <<>> THEN slnempty' = FALSE /\ UNCHANGED sltop
                       ELSE sltop' = Head(clockq').pid /\ UNCHANGED slnempty
  /\ UNCHANGED <<due, idled>>

\* sleep10(), sleep100(), sleep1000(); a delay of 0 ends the time slice.
Sleep(ticks) ==
  /\ Calling("sleep")
  /\ IF ticks = 0
     THEN Resched(pstate, rdy, pinh) /\ UNCHANGED timeVars
     ELSE Block("PRSLEEP") /\ StartDelay(ticks)
  /\ UNCHANGED <<pprio, pinh, nextproc, callVars, semVars, msgVars>>

\* clkint() counts down the key sltop points at, if it is still on the list.
CountedDown ==
  [i \in DOMAIN clockq |->
     IF clockq[i].pid = sltop THEN [clockq[i] EXCEPT !.key = @ - 1] ELSE clockq[i]]

\* A clock interrupt; it calls wakeup() when the count has run out.
ClockInterrupt ==
  /\ slnempty
  /\ LET list  == CountedDown
         woken == DuePrefix(list)
         pids  == [i \in DOMAIN woken |-> woken[i].pid]
     IN  /\ clockq' = SubSeq(list, Len(woken) + 1, Len(list))
         /\ IF woken = <<>>
            THEN UNCHANGED <<pstate, rdy, currpid, slnempty, sltop>>
            ELSE /\ ReadyAndResched(pids)
                 /\ slnempty' = (clockq' # <<>>)
                 /\ sltop' = IF clockq' = <<>> THEN sltop ELSE Head(clockq').pid
  /\ due' = [p \in Procs |-> IF p \in Pids(clockq') THEN Max({due[p], 0}) - 1
                             ELSE 0]
  /\ idled' = (idled \/ \E i \in DOMAIN clockq : clockq[i].pid = sltop
                                               /\ clockq[i].key <= 0)
  /\ UNCHANGED <<pprio, pinh, nextproc, callVars, semVars, msgVars>>

\* A clock interrupt that ends the quantum.
QuantumEnds ==
  /\ Resched(pstate, rdy, pinh)
  /\ UNCHANGED <<pprio, pinh, nextproc, callVars, semVars, msgVars, timeVars>>

\* A process inside of a call has interrupts disabled.
Tick == kcall[currpid] = "none" /\ ClockInterrupt
Preempt == kcall[currpid] = "none" /\ QuantumEnds

-------------------------------------------------------------------------------
(***************************************************************************)
(* Messages.                                                               *)
(***************************************************************************)
Accepts(p) == p \in UserPids /\ pstate[p] # "PRFREE" /\ ~phasmsg[p]

\* send() to a process that accepts: a receiver that waits is made ready.
Deliver(p) ==
  /\ phasmsg' = [phasmsg EXCEPT ![p] = TRUE]
  /\ IF pstate[p] \in {"PRRECV", "PRTRECV"}
     THEN ReadyAndResched(<<p>>)
     ELSE UNCHANGED <<pstate, rdy, currpid>>
  /\ IF pstate[p] = "PRTRECV" THEN Unsleep(p) ELSE UNCHANGED timeVars

Send(p) ==
  /\ Calling("send")
  /\ Accepts(p)
  /\ Deliver(p)
  /\ UNCHANGED <<pprio, pinh, nextproc, callVars, semVars, pnxtkin>>

\* receive(), recvclr() or recvtim() with a message waiting takes it.
TakeMessage ==
  /\ \E call \in {"receive", "recvclr", "recvtim"} : Calling(call)
  /\ phasmsg[currpid]
  /\ phasmsg' = [phasmsg EXCEPT ![currpid] = FALSE]
  /\ UNCHANGED <<procVars, callVars, semVars, pnxtkin, timeVars>>

Receive ==
  /\ Calling("receive")
  /\ ~phasmsg[currpid]
  /\ Entering("receive")
  /\ Block("PRRECV")
  /\ UNCHANGED <<pprio, pinh, nextproc, uses, kvictim, semVars, msgVars, timeVars>>

\* Mutant of Recvtim: the state is that of a receive() without a limit.
RecvtimAsReceive(ticks) ==
  /\ Calling("recvtim")
  /\ ~phasmsg[currpid]
  /\ Entering("recvtim")
  /\ Block("PRRECV")
  /\ StartDelay(ticks)
  /\ UNCHANGED <<pprio, pinh, nextproc, uses, kvictim, semVars, msgVars>>

Recvtim(ticks) ==
  /\ Calling("recvtim")
  /\ ~phasmsg[currpid]
  /\ Entering("recvtim")
  /\ Block("PRTRECV")
  /\ StartDelay(ticks)
  /\ UNCHANGED <<pprio, pinh, nextproc, uses, kvictim, semVars, msgVars>>

\* What is left of a receive: the message, or TIMEOUT when there is none.
ReceiveReturns ==
  /\ kcall[currpid] \in {"receive", "recvtim"}
  /\ phasmsg' = [phasmsg EXCEPT ![currpid] = FALSE]
  /\ Leaving
  /\ UNCHANGED <<procVars, uses, kvictim, semVars, pnxtkin, timeVars>>

\* setnok() tests the process whose kin is set, not the kin.
Setnok(nok, p) ==
  /\ Calling("setnok")
  /\ pnxtkin' = [pnxtkin EXCEPT ![p] = nok]
  /\ UNCHANGED <<procVars, callVars, semVars, phasmsg, timeVars>>

-------------------------------------------------------------------------------
(***************************************************************************)
(* The life of a process.                                                  *)
(***************************************************************************)

\* pmsg, pwaitret and the q[] cell of the last owner stay as they are.
Create(prio) ==
  /\ Calling("create")
  /\ FreeSlots # {}
  /\ LET p == NewPid
     IN  /\ pstate' = [pstate EXCEPT ![p] = "PRSUSP"]
         /\ pprio' = [pprio EXCEPT ![p] = prio]
         /\ nextproc' = SlotAfter(p)
         /\ psem' = [psem EXCEPT ![p] = 0]
         /\ phasmsg' = [phasmsg EXCEPT ![p] = FALSE]
         /\ pnxtkin' = [pnxtkin EXCEPT ![p] = BADPID]
         /\ kcall' = [kcall EXCEPT ![p] = "none"]
  /\ UNCHANGED <<pinh, rdy, currpid, uses, kvictim, sstate, semcnt, semq,
                 nextsem, pwaitret, timeVars>>

\* Mutant of Resume: a process that waits for a message is resumed too.
ResumeReceiver(p) ==
  /\ Calling("resume")
  /\ pstate[p] \in {"PRSUSP", "PRRECV"}
  /\ ReadyAndResched(<<p>>)
  /\ UNCHANGED <<pprio, pinh, nextproc, callVars, semVars, msgVars, timeVars>>

Resume(p) ==
  /\ Calling("resume")
  /\ pstate[p] = "PRSUSP"
  /\ ReadyAndResched(<<p>>)
  /\ UNCHANGED <<pprio, pinh, nextproc, callVars, semVars, msgVars, timeVars>>

Suspend(p) ==
  /\ Calling("suspend")
  /\ \/ /\ pstate[p] = "PRREADY"
        /\ pstate' = [pstate EXCEPT ![p] = "PRSUSP"]
        /\ rdy' = Dequeue(rdy, p)
        /\ UNCHANGED currpid
     \/ /\ p = currpid
        /\ Block("PRSUSP")
  /\ UNCHANGED <<pprio, pinh, nextproc, callVars, semVars, msgVars, timeVars>>

\* kill() first tells the next of kin.  If that process was waiting for a
\* message it may take the CPU before anything has happened to the victim.
\* The death of the last process stops the machine (xdone) and is left out.
Kill(p) ==
  /\ Calling("kill")
  /\ pstate[p] # "PRFREE"
  /\ \E r \in UserPids \ {p} : pstate[r] # "PRFREE"
  /\ Entering("kill")
  /\ kvictim' = [kvictim EXCEPT ![currpid] = p]
  /\ IF Accepts(pnxtkin[p])
     THEN Deliver(pnxtkin[p])
     ELSE UNCHANGED <<pstate, rdy, currpid, phasmsg, timeVars>>
  /\ UNCHANGED <<pprio, pinh, nextproc, uses, semVars, pnxtkin>>

\* Mutant of BuryWaiter: the count of the semaphore is not raised.
BuryWaiterUncounted(p) ==
  /\ semq' = [semq EXCEPT ![psem[p]] = RemoveFirst(@, p)]
  /\ pstate' = [pstate EXCEPT ![p] = "PRFREE"]
  /\ UNCHANGED <<rdy, currpid, semcnt, timeVars>>

BuryWaiter(p) ==
  /\ semq' = [semq EXCEPT ![psem[p]] = RemoveFirst(@, p)]
  /\ semcnt' = [semcnt EXCEPT ![psem[p]] = @ + 1]
  /\ pstate' = [pstate EXCEPT ![p] = "PRFREE"]
  /\ UNCHANGED <<rdy, currpid, timeVars>>

BuryReady(p) ==
  /\ rdy' = Dequeue(rdy, p)
  /\ pstate' = [pstate EXCEPT ![p] = "PRFREE"]
  /\ UNCHANGED <<currpid, semcnt, semq, timeVars>>

BurySleeper(p) ==
  /\ Unsleep(p)
  /\ pstate' = [pstate EXCEPT ![p] = "PRFREE"]
  /\ UNCHANGED <<rdy, currpid, semcnt, semq>>

BuryOther(p) ==
  /\ pstate' = [pstate EXCEPT ![p] = "PRFREE"]
  /\ UNCHANGED <<rdy, currpid, semcnt, semq, timeVars>>

Suicide ==
  /\ Block("PRFREE")
  /\ UNCHANGED <<semcnt, semq, timeVars>>

\* The rest of kill() acts on the state the victim is in by now.
KillEnds ==
  /\ kcall[currpid] = "kill"
  /\ LET p == kvictim[currpid]
     IN  \/ pstate[p] = "PRCURR" /\ Suicide
         \/ pstate[p] = "PRWAIT" /\ BuryWaiter(p)
         \/ pstate[p] = "PRREADY" /\ BuryReady(p)
         \/ pstate[p] \in {"PRSLEEP", "PRTRECV"} /\ BurySleeper(p)
         \/ pstate[p] \in {"PRSUSP", "PRRECV", "PRFREE"} /\ BuryOther(p)
  /\ Leaving
  /\ kvictim' = [kvictim EXCEPT ![currpid] = NULLPROC]
  /\ UNCHANGED <<pprio, pinh, nextproc, uses, sstate, nextsem, psem, pwaitret,
                 msgVars>>

-------------------------------------------------------------------------------
ServInit ==
  /\ \E w \in Workloads :
       /\ uses = w.calls
       /\ pstate = [p \in Procs |-> IF p = 1 THEN "PRCURR"
                                    ELSE IF p = NULLPROC THEN "PRREADY"
                                    ELSE IF p \in DOMAIN w.prios THEN "PRSUSP"
                                    ELSE "PRFREE"]
       /\ pprio = [p \in Procs |-> IF p \in DOMAIN w.prios THEN w.prios[p] ELSE 0]
  /\ pinh = [p \in Procs |-> 0]
  /\ rdy = <<[pid |-> NULLPROC, key |-> 0]>>
  /\ currpid = 1
  /\ nextproc = NPROC - 1
  /\ kcall = [p \in Procs |-> "none"]
  /\ kvictim = [p \in Procs |-> NULLPROC]
  /\ sstate = [s \in Sems |-> "SFREE"]
  /\ semcnt = [s \in Sems |-> 0]
  /\ semq = [s \in Sems |-> <<>>]
  /\ nextsem = NSEM - 1
  /\ psem = [p \in Procs |-> 0]
  /\ pwaitret = [p \in Procs |-> "OK"]
  /\ phasmsg = [p \in Procs |-> FALSE]
  /\ pnxtkin = [p \in Procs |-> BADPID]
  /\ clockq = <<>>
  /\ slnempty = FALSE
  /\ sltop = NULLPROC
  /\ due = [p \in Procs |-> 0]
  /\ idled = FALSE

ServNext ==
  \/ \E n \in Counts : Screate(n)
  \/ \E s \in Sems : Wait(s) \/ Signal(s) \/ Sdelete(s)
  \/ \E s \in Sems, n \in Counts : Signaln(s, n) \/ Sreset(s, n)
  \/ WaitReturns
  \/ \E n \in Delays : Sleep(n) \/ Recvtim(n)
  \/ Tick \/ Preempt
  \/ TakeMessage \/ Receive \/ ReceiveReturns
  \/ \E p \in UserPids : Send(p) \/ Resume(p) \/ Suspend(p) \/ Kill(p)
  \/ \E nok \in Kin, p \in UserPids : Setnok(nok, p)
  \/ \E n \in NewPrios : Create(n)
  \/ KillEnds

ServSpec == ServInit /\ [][ServNext]_servVars

-------------------------------------------------------------------------------
(***************************************************************************)
(* Properties.                                                             *)
(***************************************************************************)

\* The types of the variables (h/sem.h, h/proc.h).
ServTypeOK ==
  /\ ProcTypeOK
  /\ kcall \in [Procs -> {"none", "wait", "receive", "recvtim", "kill"}]
  /\ kvictim \in [Procs -> Procs]
  /\ sstate \in [Sems -> {"SFREE", "SUSED"}]
  /\ semcnt \in [Sems -> Int]
  /\ semq \in [Sems -> Seq(UserPids)]
  /\ nextsem \in Sems
  /\ psem \in [Procs -> Sems]
  /\ pwaitret \in [Procs -> {"OK", "DELETED"}]
  /\ phasmsg \in [Procs -> BOOLEAN]
  /\ pnxtkin \in [Procs -> UserPids \cup {BADPID}]
  /\ clockq \in Seq([pid : Procs, key : Int])
  /\ slnempty \in BOOLEAN /\ sltop \in Procs
  /\ due \in [Procs -> Int]

\* A negative count is the number of waiters, and only then does anybody wait:
\* signal() takes a process from the list on the word of the count alone, and
\* kill(), sreset(), sdelete() and signaln() each keep the two together.
CountIsWaiters ==
  \A s \in Sems :
    /\ sstate[s] = "SUSED" => Len(semq[s]) = -Min({0, semcnt[s]})
    /\ sstate[s] = "SFREE" => semq[s] = <<>>

\* Every process is on the one list its state names and on no other (the
\* comments of the states in h/proc.h): each pid has a single q[] cell, which
\* the ready list, the semaphores and the clock share.
InItsPlace ==
  /\ \A p \in Procs :
       /\ pstate[p] = "PRCURR" <=> p = currpid
       /\ pstate[p] = "PRREADY" <=> p \in Pids(rdy)
       /\ pstate[p] \in {"PRSLEEP", "PRTRECV"} <=> p \in Pids(clockq)
       /\ \A s \in Sems : pstate[p] = "PRWAIT" /\ psem[p] = s
                          <=> p \in Range(semq[s])
  /\ Distinct(rdy) /\ Sorted(rdy) /\ Distinct(clockq)
  /\ \A s \in Sems : IsInjective(semq[s])

\* receive() does not test phasmsg again after its resched(): whoever makes a
\* receiver run must have left it a message.
WokenHasMessage == kcall[currpid] = "receive" => phasmsg[currpid]

\* The clock counts down the head of the list and nothing else.
CountsHead == /\ slnempty <=> clockq # <<>>
              /\ slnempty => sltop = Head(clockq).pid

\* No delay ends early, whoever else starts, ends or dies in between, and
\* unless a tick was wasted on a delay of 0 (recvtim(0)) none ends late.
DelaysKept ==
  \A i \in DOMAIN clockq :
    /\ TicksUntil(clockq, i) >= due[clockq[i].pid]
    /\ ~idled => TicksUntil(clockq, i) = due[clockq[i].pid]

(***************************************************************************)
(* The semaphores implement CountingSemaphore.                             *)
(***************************************************************************)
OpenSems == {s \in Sems : sstate[s] = "SUSED"}

Units == [s \in Sems |-> IF s \in OpenSems THEN Max({0, semcnt[s]}) ELSE 0]

Stage(p) ==
  IF kcall[p] # "wait" \/ pstate[p] = "PRFREE" THEN "out"
  ELSE IF pstate[p] = "PRWAIT" THEN "waiting"
  ELSE IF pwaitret[p] = "OK" THEN "passed" ELSE "refused"

StageOf == [p \in Procs |-> Stage(p)]

Semaphores == INSTANCE CountingSemaphore WITH
  open <- OpenSems,
  units <- Units,
  waiting <- semq,
  stage <- StageOf,
  resets <- "sreset" \in uses

\* Units are taken at once or in arrival order, and a wait ends with a unit, a
\* reset, a refusal or a death: across wait(), signal(), signaln(), sreset(),
\* sdelete() and kill(), and a process that is readied by one call and runs
\* only after several others.
ImplementsSemaphores == Semaphores!Spec
==============================================================================
