------------------------------- MODULE RWLock --------------------------------
(***************************************************************************)
(* The readers/writer locks of the kernel (sys/linit.c, lcreate.c,         *)
(* ldelete.c, lock.c, releaseall.c, change_lck_proc_prio.c,                *)
(* change_pinh_proc.c) and every process operation that touches them:      *)
(* create, resume, suspend, chprio, kill, sleep, the clock interrupt.      *)
(*                                                                         *)
(* A kernel call runs with interrupts disabled.  The calls without a loop  *)
(* of grants are one step.  The loops of releaseall(), ldelete() and the   *)
(* clock interrupt are a sequence of steps; while kpc is not "user" only   *)
(* the call in progress can take a step.                                   *)
(***************************************************************************)
EXTENDS XinuProc, FiniteSets

CONSTANTS NLOCK,        \* entries of lock_table
          InitPrio,     \* priorities of the processes that exist initially
          Prios,        \* priorities passed to create() and chprio()
          WaitPrios,    \* wait priorities passed to lock()
          Types,        \* lock types passed to lock()
          ArgLists,     \* descriptor lists passed to releaseall()
          Calls,        \* the system calls the processes use
          Disciplined,  \* processes release exactly what they hold
          MaxReaders    \* bound: no READ grant by lock() beyond this count

\* change_pinh_proc() is called with a lock descriptor for a process id.
ASSUME NLOCKAssumption == NLOCK \in 1..NPROC
ASSUME InitPrioAssumption ==
  InitPrio \in Seq(1..MAXINT) /\ Len(InitPrio) \in 1..NPROC - 1
ASSUME PriosAssumption == Prios \subseteq 0..MAXINT /\ WaitPrios \subseteq Int
ASSUME TypesAssumption == Types \subseteq {"READ", "WRITE"}
ASSUME ArgListsAssumption == ArgLists \subseteq Seq(Int)
ASSUME MaxReadersAssumption == MaxReaders \in Nat

Locks == 0..NLOCK - 1
Waiters == [pid : Procs, key : Int, type : {"READ", "WRITE"}]

VARIABLES
  lstate,      \* lock_table[l].lstate
  num_reader,  \* lock_table[l].num_reader
  num_writer,  \* lock_table[l].num_writer
  lprio,       \* lock_table[l].lprio, the priority of the waiters
  waitq,       \* the wait list, keyed by wait priority, with q[].qtype
  process_holding_lock,  \* the pids whose flag is set in the lock's entry
  have_lock,   \* the locks whose flag is set in the process's entry
  plock,       \* proctab[p].plock, the lock last waited for
  plockret,    \* proctab[p].plockret, what that wait returns
  masked       \* processes that run with interrupts disabled in user mode

lockVars == <<lstate, num_reader, num_writer, lprio, waitq,
              process_holding_lock, have_lock, plock, plockret>>

VARIABLES
  kpc,     \* "user", or the loop the current kernel call is in
  klock,   \* the lock that loop works on, 0 outside of a loop
  kargs,   \* releaseall(): the descriptors not yet looked at
  kerr,    \* releaseall(): anyerr
  kdue     \* clock interrupt: the sleepers whose delay has run out

kernelVars == <<kpc, klock, kargs, kerr, kdue>>

(***************************************************************************)
(* History variables, for the properties only: the processes lock() has    *)
(* returned OK to, or been readied to return OK to, that have not released *)
(* the lock, died, or seen it deleted.                                     *)
(***************************************************************************)
VARIABLES readers, writers

holderVars == <<readers, writers>>

vars == <<procVars, lockVars, masked, kernelVars, holderVars>>

Holders(l) == readers[l] \cup writers[l]

-------------------------------------------------------------------------------
(***************************************************************************)
(* Priority inheritance.                                                   *)
(***************************************************************************)

\* Mutant of WaitersPrio: only the waiter at the tail counts.
WaitersPrioOfTail(pp, list) ==
  IF list = <<>> THEN -1 ELSE pp[list[Len(list)].pid]

\* change_lck_proc_prio(): the largest base priority on the wait list.
WaitersPrio(pp, list) == Max({pp[list[i].pid] : i \in DOMAIN list} \cup {-1})

\* Mutant of NewPinh: the comparison with the base priority is missing.
NewPinhUncompared(pp, hl, lp, p) == Max({lp[k] : k \in hl[p]} \cup {-1})

\* change_pinh_proc(): from the locks flagged in the process's entry.
NewPinh(pp, hl, lp, p) ==
  LET m == Max({lp[k] : k \in hl[p]} \cup {-1})
  IN  IF pp[p] <= m THEN m ELSE 0

\* change_pinh_proc() for each of a set of processes.
Inherit(pp, hl, lp, ps) ==
  [p \in Procs |-> IF p \in ps THEN NewPinh(pp, hl, lp, p) ELSE pinh[p]]

-------------------------------------------------------------------------------
(***************************************************************************)
(* Creation, deletion.                                                     *)
(***************************************************************************)

\* A process in user mode about to make a system call; the null process
\* only loops.
InUser(call) == kpc = "user" /\ currpid # NULLPROC /\ call \in Calls

FreeLocks == {l \in Locks : lstate[l] = "FREE"}

Lcreate ==
  /\ InUser("lcreate")
  /\ FreeLocks # {}
  /\ LET l == Min(FreeLocks)
     IN  /\ lstate' = [lstate EXCEPT ![l] = "ACQUIRED"]
         /\ num_reader' = [num_reader EXCEPT ![l] = 0]
         /\ num_writer' = [num_writer EXCEPT ![l] = 0]
  /\ UNCHANGED <<procVars, lprio, waitq, process_holding_lock, have_lock,
                 plock, plockret, masked, kernelVars, holderVars>>

\* A full table: the call returns without restoring the interrupt mask.
LcreateFull ==
  /\ InUser("lcreate")
  /\ FreeLocks = {}
  /\ masked' = masked \cup {currpid}
  /\ UNCHANGED <<procVars, lockVars, kernelVars, holderVars>>

Ldelete(l) ==
  /\ InUser("ldelete")
  /\ lstate[l] = "ACQUIRED"
  /\ lstate' = [lstate EXCEPT ![l] = "FREE"]
  /\ kpc' = IF waitq[l] = <<>> THEN "user" ELSE "drain"
  /\ klock' = IF waitq[l] = <<>> THEN 0 ELSE l
  /\ readers' = [readers EXCEPT ![l] = {}]
  /\ writers' = [writers EXCEPT ![l] = {}]
  /\ UNCHANGED <<procVars, num_reader, num_writer, lprio, waitq,
                 process_holding_lock, have_lock, plock, plockret, masked,
                 kargs, kerr, kdue>>

\* One turn of ldelete()'s loop: the process at the head is made ready.
DrainOne ==
  /\ kpc = "drain"
  /\ waitq[klock] # <<>>
  /\ LET p == Head(waitq[klock]).pid
     IN  /\ waitq' = [waitq EXCEPT ![klock] = Tail(@)]
         /\ plockret' = [plockret EXCEPT ![p] = "DELETED"]
         /\ pstate' = [pstate EXCEPT ![p] = "PRREADY"]
         /\ rdy' = Insert(rdy, ReadyEntry(pprio, p))
  /\ UNCHANGED <<pprio, pinh, currpid, nextproc, lstate, num_reader,
                 num_writer, lprio, process_holding_lock, have_lock, plock,
                 masked, kernelVars, holderVars>>

\* The loop ends with process_ret_del[EMPTY] = 1, one element before the
\* array, which is num_reader of the deleted lock.
DrainEnd ==
  /\ kpc = "drain"
  /\ waitq[klock] = <<>>
  /\ num_reader' = [num_reader EXCEPT ![klock] = 1]
  /\ kpc' = "user" /\ klock' = 0
  /\ Resched(pstate, rdy, pinh)
  /\ UNCHANGED <<pprio, pinh, nextproc, lstate, num_writer, lprio, waitq,
                 process_holding_lock, have_lock, plock, plockret, masked,
                 kargs, kerr, kdue, holderVars>>

-------------------------------------------------------------------------------
(***************************************************************************)
(* lock(l, type, priority).                                                *)
(***************************************************************************)

\* Mutant of HoldingWith: the caller is flagged, not the process that gets the
\* lock.
HoldingWithCaller(l, p) == [process_holding_lock EXCEPT ![l] = @ \cup {currpid}]

\* The flag of a process that gets the lock is set in the lock's entry.
HoldingWith(l, p) == [process_holding_lock EXCEPT ![l] = @ \cup {p}]

\* Some waiting writer stands above the requested wait priority.
WriterAbove(l, priority) ==
  \E i \in DOMAIN waitq[l] :
    waitq[l][i].type = "WRITE" /\ waitq[l][i].key > priority

\* Mutant of MustWait: a writer does not wait for readers.
MustWaitReadersIgnored(l, type, priority) ==
  \/ num_reader[l] = 0 /\ num_writer[l] # 0
  \/ num_reader[l] # 0 /\ num_writer[l] = 0 /\ WriterAbove(l, priority)

\* The waiting decision: for a writer in the lock, for readers when a writer
\* asks, and for a waiting writer of a higher wait priority.
MustWait(l, type, priority) ==
  \/ num_reader[l] = 0 /\ num_writer[l] # 0
  \/ /\ num_reader[l] # 0 /\ num_writer[l] = 0
     /\ type = "WRITE" \/ WriterAbove(l, priority)

MayLock(l) == Disciplined => currpid \notin Holders(l)

LockWait(l, type, priority) ==
  /\ InUser("lock") /\ MayLock(l)
  /\ lstate[l] = "ACQUIRED"
  /\ MustWait(l, type, priority)
  /\ LET entry == [pid |-> currpid, key |-> priority, type |-> type]
         wq    == [waitq EXCEPT ![l] = Insert(@, entry)]
         lp    == [lprio EXCEPT ![l] = WaitersPrio(pprio, wq[l])]
         ih    == Inherit(pprio, have_lock, lp, process_holding_lock[l])
     IN  /\ waitq' = wq
         /\ lprio' = lp
         /\ pinh' = ih
         /\ plock' = [plock EXCEPT ![currpid] = l]
         /\ plockret' = [plockret EXCEPT ![currpid] = "OK"]
         /\ Resched([pstate EXCEPT ![currpid] = "PROCESS_LOCK"], rdy, ih)
  /\ UNCHANGED <<pprio, nextproc, lstate, num_reader, num_writer,
                 process_holding_lock, have_lock, masked, kernelVars,
                 holderVars>>

LockGrant(l, type, priority) ==
  /\ InUser("lock") /\ MayLock(l)
  /\ lstate[l] = "ACQUIRED"
  /\ ~MustWait(l, type, priority)
  /\ type = "READ" => num_reader[l] < MaxReaders
  /\ process_holding_lock' = HoldingWith(l, currpid)
  /\ have_lock' = [have_lock EXCEPT ![currpid] = @ \cup {l}]
  /\ pinh' = Inherit(pprio, have_lock', lprio, {currpid})
  /\ IF type = "WRITE"
     THEN /\ num_writer' = [num_writer EXCEPT ![l] = @ + 1]
          /\ writers' = [writers EXCEPT ![l] = @ \cup {currpid}]
          /\ UNCHANGED <<num_reader, readers>>
     ELSE /\ num_reader' = [num_reader EXCEPT ![l] = @ + 1]
          /\ readers' = [readers EXCEPT ![l] = @ \cup {currpid}]
          /\ UNCHANGED <<num_writer, writers>>
  /\ UNCHANGED <<pstate, pprio, rdy, currpid, nextproc, lstate, lprio, waitq,
                 plock, plockret, masked, kernelVars>>

-------------------------------------------------------------------------------
(***************************************************************************)
(* releaseall(n, ldes1, ..., ldesN).                                       *)
(***************************************************************************)

\* What a process with discipline passes: distinct locks that it holds.
MayRelease(ds) ==
  Disciplined => /\ \A i \in DOMAIN ds : \E l \in Locks :
                      ds[i] = l /\ currpid \in Holders(l)
                 /\ \A i, j \in DOMAIN ds : ds[i] = ds[j] => i = j

Releaseall(ds) ==
  /\ InUser("releaseall") /\ MayRelease(ds)
  /\ kpc' = "release"
  /\ kargs' = ds
  /\ UNCHANGED <<procVars, lockVars, masked, klock, kerr, kdue, holderVars>>

\* A descriptor out of range ends the call at once, without a resched().
ReleaseBad ==
  /\ kpc = "release" /\ kargs # <<>>
  /\ Head(kargs) \notin Locks
  /\ kpc' = "user" /\ klock' = 0
  /\ kargs' = <<>> /\ kerr' = FALSE
  /\ UNCHANGED <<procVars, lockVars, masked, kdue, holderVars>>

ReleaseFree ==
  /\ kpc = "release" /\ kargs # <<>>
  /\ Head(kargs) \in FreeLocks
  /\ kerr' = TRUE
  /\ kargs' = Tail(kargs)
  /\ UNCHANGED <<procVars, lockVars, masked, kpc, klock, kdue, holderVars>>

\* The caller gives the lock up; who gets it is decided in the next steps.
ReleaseOne ==
  /\ kpc = "release" /\ kargs # <<>>
  /\ LET l == Head(kargs)
     IN  /\ l \in Locks /\ lstate[l] = "ACQUIRED"
         /\ klock' = l
         /\ num_writer' = [num_writer EXCEPT ![l] = IF @ > 0 THEN @ - 1 ELSE @]
         /\ num_reader' = [num_reader EXCEPT ![l] =
              IF num_writer[l] = 0 /\ @ > 0 THEN @ - 1 ELSE @]
         /\ process_holding_lock' =
              [process_holding_lock EXCEPT ![l] = @ \ {currpid}]
         /\ have_lock' = [have_lock EXCEPT ![currpid] = @ \ {l}]
         /\ readers' = [readers EXCEPT ![l] = @ \ {currpid}]
         /\ writers' = [writers EXCEPT ![l] = @ \ {currpid}]
  /\ pinh' = Inherit(pprio, have_lock', lprio, {currpid})
  /\ kpc' = "choose"
  /\ kargs' = Tail(kargs)
  /\ UNCHANGED <<pstate, pprio, rdy, currpid, nextproc, lstate, lprio, waitq,
                 plock, plockret, masked, kerr, kdue>>

\* After the last descriptor: an error skips the resched().  The mask is restored
\* before it; a clock tick before or inside this resched() is not modelled.
ReleaseEnd ==
  /\ kpc = "release" /\ kargs = <<>>
  /\ kpc' = "user" /\ klock' = 0 /\ kerr' = FALSE
  /\ IF kerr THEN UNCHANGED <<pstate, rdy, currpid>>
             ELSE Resched(pstate, rdy, pinh)
  /\ UNCHANGED <<pprio, pinh, nextproc, lockVars, masked, kargs, kdue, holderVars>>

(***************************************************************************)
(* Which waiter the released lock goes to.  The candidate is the process   *)
(* at the tail.  When the entry before it has the same key the code looks  *)
(* for the longest wait in max_read_time and max_write_time, which are     *)
(* never assigned: choice stays 0, the null process, or -100, and neither  *)
(* has a qtype, so nobody is granted the lock.                             *)
(***************************************************************************)
Top(list) == list[Len(list)]

\* Mutant of TopTied: any second waiter counts as a tie.
TopNotAlone(list) == Len(list) > 1

TopTied(list) == Len(list) > 1 /\ list[Len(list) - 1].key = Top(list).key

ReaderNext(l) ==
  /\ waitq[l] # <<>> /\ ~TopTied(waitq[l])
  /\ Top(waitq[l]).type = "READ"
  /\ num_writer[l] = 0

\* Mutant of WriterNext: the test of num_reader is missing.
WriterNextAmongReaders(l) ==
  /\ waitq[l] # <<>> /\ ~TopTied(waitq[l])
  /\ Top(waitq[l]).type = "WRITE"
  /\ num_writer[l] = 0

WriterNext(l) ==
  /\ waitq[l] # <<>> /\ ~TopTied(waitq[l])
  /\ Top(waitq[l]).type = "WRITE"
  /\ num_writer[l] = 0 /\ num_reader[l] = 0

\* max_prio_writer; -100 when no writer waits.
MaxPrioWriter(list) ==
  Max({list[i].key : i \in {j \in DOMAIN list : list[j].type = "WRITE"}} \cup {-100})

(***************************************************************************)
(* The waiter at the tail gets the lock.  have_lock is set for the process *)
(* that runs releaseall(), not for the one that gets the lock, and lprio   *)
(* is recomputed while that one is still on the wait list.                 *)
(***************************************************************************)
GrantTop(l) ==
  LET p == Top(waitq[l]).pid
  IN  /\ process_holding_lock' = HoldingWith(l, p)
      /\ have_lock' = [have_lock EXCEPT ![currpid] = @ \cup {l}]
      /\ lprio' = [lprio EXCEPT ![l] = WaitersPrio(pprio, waitq[l])]
      /\ pinh' = Inherit(pprio, have_lock', lprio', process_holding_lock'[l])
      /\ waitq' = [waitq EXCEPT ![l] = Dequeue(@, p)]
      /\ pstate' = [pstate EXCEPT ![p] = "PRREADY"]
      /\ rdy' = Insert(rdy, ReadyEntry(pprio, p))
      /\ UNCHANGED <<pprio, currpid, nextproc, lstate, plock, plockret, masked,
                     klock, kargs, kerr, kdue>>

\* Mutant of GrantTopReader: num_reader is not incremented.
GrantTopReaderUncounted(l) ==
  /\ GrantTop(l)
  /\ readers' = [readers EXCEPT ![l] = @ \cup {Top(waitq[l]).pid}]
  /\ UNCHANGED <<num_reader, num_writer, writers>>

GrantTopReader(l) ==
  /\ GrantTop(l)
  /\ num_reader' = [num_reader EXCEPT ![l] = @ + 1]
  /\ readers' = [readers EXCEPT ![l] = @ \cup {Top(waitq[l]).pid}]
  /\ UNCHANGED <<num_writer, writers>>

GrantTopWriter(l) ==
  /\ GrantTop(l)
  /\ num_writer' = [num_writer EXCEPT ![l] = @ + 1]
  /\ writers' = [writers EXCEPT ![l] = @ \cup {Top(waitq[l]).pid}]
  /\ UNCHANGED <<num_reader, readers>>

ChooseNobody ==
  /\ kpc = "choose"
  /\ ~ReaderNext(klock) /\ ~WriterNext(klock)
  /\ kpc' = "release"
  /\ UNCHANGED <<procVars, lockVars, masked, klock, kargs, kerr, kdue, holderVars>>

ChooseWriter ==
  /\ kpc = "choose"
  /\ WriterNext(klock)
  /\ kpc' = "release"
  /\ GrantTopWriter(klock)

ChooseReaders ==
  /\ kpc = "choose"
  /\ ReaderNext(klock)
  /\ kpc' = "admit"
  /\ UNCHANGED <<procVars, lockVars, masked, klock, kargs, kerr, kdue, holderVars>>

\* The loop that admits readers, from the tail.
AdmitReader ==
  /\ kpc = "admit"
  /\ waitq[klock] # <<>>
  /\ Top(waitq[klock]).type = "READ"
  /\ Top(waitq[klock]).key >= MaxPrioWriter(waitq[klock])
  /\ UNCHANGED kpc
  /\ GrantTopReader(klock)

AdmitEnd ==
  /\ kpc = "admit"
  /\ waitq[klock] = <<>>
  /\ kpc' = "release"
  /\ UNCHANGED <<procVars, lockVars, masked, klock, kargs, kerr, kdue, holderVars>>

\* The loop variable only moves when a reader is admitted: at a writer, or a
\* reader below every writer, the loop never ends.
AdmitSpin ==
  /\ kpc = "admit"
  /\ waitq[klock] # <<>>
  /\ \/ Top(waitq[klock]).type # "READ"
     \/ Top(waitq[klock]).key < MaxPrioWriter(waitq[klock])
  /\ UNCHANGED vars

-------------------------------------------------------------------------------
(***************************************************************************)
(* Process operations.                                                     *)
(***************************************************************************)

\* A slot is reused as its last owner left it: pinh, have_lock, plock and
\* plockret are not reset.  The new process starts with interrupts enabled.
Create(prio) ==
  /\ InUser("create")
  /\ FreeSlots # {} /\ prio >= 1
  /\ pstate' = [pstate EXCEPT ![NewPid] = "PRSUSP"]
  /\ pprio' = [pprio EXCEPT ![NewPid] = prio]
  /\ nextproc' = SlotAfter(NewPid)
  /\ masked' = masked \ {NewPid}
  /\ UNCHANGED <<pinh, rdy, currpid, lockVars, kernelVars, holderVars>>

\* The slot search runs before the priority is tested.
CreateBadPrio(prio) ==
  /\ InUser("create")
  /\ FreeSlots # {} /\ prio < 1
  /\ nextproc' = SlotAfter(NewPid)
  /\ UNCHANGED <<pstate, pprio, pinh, rdy, currpid, lockVars, masked,
                 kernelVars, holderVars>>

Resume(p) ==
  /\ InUser("resume")
  /\ p \in UserPids /\ pstate[p] = "PRSUSP"
  /\ Resched([pstate EXCEPT ![p] = "PRREADY"], Insert(rdy, ReadyEntry(pprio, p)), pinh)
  /\ UNCHANGED <<pprio, pinh, nextproc, lockVars, masked, kernelVars, holderVars>>

Suspend(p) ==
  /\ InUser("suspend")
  /\ p \in UserPids
  /\ LET ps == [pstate EXCEPT ![p] = "PRSUSP"]
     IN  \/ /\ pstate[p] = "PRREADY"
            /\ pstate' = ps
            /\ rdy' = Dequeue(rdy, p)
            /\ UNCHANGED currpid
         \/ /\ pstate[p] = "PRCURR"
            /\ Resched(ps, rdy, pinh)
  /\ UNCHANGED <<pprio, pinh, nextproc, lockVars, masked, kernelVars, holderVars>>

(***************************************************************************)
(* chprio(pid, newprio).  A ready process moves to its new place.  For a   *)
(* process that waits for a lock, lprio is recomputed and then             *)
(* change_pinh_proc() is called with plock, the lock's descriptor.         *)
(***************************************************************************)
Chprio(p, prio) ==
  /\ InUser("chprio")
  /\ p \in UserPids /\ pstate[p] # "PRFREE" /\ prio > 0
  /\ pprio' = [pprio EXCEPT ![p] = prio]
  /\ rdy' = IF pstate[p] = "PRREADY"
            THEN Insert(Dequeue(rdy, p), ReadyEntry(pprio', p)) ELSE rdy
  /\ LET l  == plock[p]
         ih == [pinh EXCEPT ![p] = NewPinh(pprio', have_lock, lprio, p)]
         lp == [lprio EXCEPT ![l] = WaitersPrio(pprio', waitq[l])]
     IN  IF pstate[p] = "PROCESS_LOCK"
         THEN /\ lprio' = lp
              /\ pinh' = [ih EXCEPT ![l] = NewPinh(pprio', have_lock, lp, l)]
         ELSE pinh' = ih /\ UNCHANGED lprio
  /\ UNCHANGED <<pstate, currpid, nextproc, lstate, num_reader, num_writer,
                 waitq, process_holding_lock, have_lock, plock, plockret,
                 masked, kernelVars, holderVars>>

(***************************************************************************)
(* kill(pid), by the state of the victim.  Locks it holds stay held: only  *)
(* the history forgets it.                                                 *)
(***************************************************************************)
KillEnds(p) ==
  /\ readers' = [l \in Locks |-> readers[l] \ {p}]
  /\ writers' = [l \in Locks |-> writers[l] \ {p}]
  /\ UNCHANGED <<pprio, nextproc, lstate, num_reader, num_writer, have_lock,
                 plock, plockret, masked, kernelVars>>

\* The running process kills itself or returns from its main procedure.
KillSelf ==
  /\ InUser("kill")
  /\ Resched([pstate EXCEPT ![currpid] = "PRFREE"], rdy, pinh)
  /\ KillEnds(currpid)
  /\ UNCHANGED <<pinh, lprio, waitq, process_holding_lock>>

\* A ready or a suspended process.
KillIdle(p) ==
  /\ InUser("kill")
  /\ p \in UserPids /\ pstate[p] \in {"PRREADY", "PRSUSP"}
  /\ pstate' = [pstate EXCEPT ![p] = "PRFREE"]
  /\ rdy' = Dequeue(rdy, p)
  /\ KillEnds(p)
  /\ UNCHANGED <<currpid, pinh, lprio, waitq, process_holding_lock>>

\* A sleeping process falls through to the case of a waiting one: plock is
\* the lock it waited for last.
KillBlocked(p) ==
  /\ InUser("kill")
  /\ p \in UserPids /\ pstate[p] \in {"PROCESS_LOCK", "PRSLEEP"}
  /\ LET l == plock[p]
     IN  /\ waitq' = [waitq EXCEPT ![l] = Dequeue(@, p)]
         /\ process_holding_lock' = [process_holding_lock EXCEPT ![l] = @ \ {p}]
         /\ lprio' = [lprio EXCEPT ![l] = WaitersPrio(pprio, waitq'[l])]
         /\ pinh' = Inherit(pprio, have_lock, lprio', process_holding_lock'[l])
  /\ pstate' = [pstate EXCEPT ![p] = "PRFREE"]
  /\ KillEnds(p)
  /\ UNCHANGED <<rdy, currpid>>

Sleep ==
  /\ InUser("sleep")
  /\ Resched([pstate EXCEPT ![currpid] = "PRSLEEP"], rdy, pinh)
  /\ UNCHANGED <<pprio, pinh, nextproc, lockVars, masked, kernelVars, holderVars>>

(***************************************************************************)
(* The clock interrupt, in user mode with interrupts enabled.  Time is     *)
(* abstracted: at any tick the quantum may end, and any of the sleepers    *)
(* may be due.                                                             *)
(***************************************************************************)
ClockTicks == kpc = "user" /\ currpid \notin masked

Sleepers == {p \in Procs : pstate[p] = "PRSLEEP"}

Preempt ==
  /\ ClockTicks
  /\ Resched(pstate, rdy, pinh)
  /\ UNCHANGED <<pprio, pinh, nextproc, lockVars, masked, kernelVars, holderVars>>

ClockDue(due) ==
  /\ ClockTicks
  /\ due # {}
  /\ kpc' = "wakeup"
  /\ kdue' = due
  /\ UNCHANGED <<procVars, lockVars, masked, klock, kargs, kerr, holderVars>>

\* wakeup(): the due sleepers are made ready one after the other, ...
WakeOne(p) ==
  /\ kpc = "wakeup"
  /\ kdue' = kdue \ {p}
  /\ pstate' = [pstate EXCEPT ![p] = "PRREADY"]
  /\ rdy' = Insert(rdy, ReadyEntry(pprio, p))
  /\ UNCHANGED <<pprio, pinh, currpid, nextproc, lockVars, masked, kpc, klock,
                 kargs, kerr, holderVars>>

\* ... and then the CPU is rescheduled.
WakeEnd ==
  /\ kpc = "wakeup"
  /\ kdue = {}
  /\ kpc' = "user"
  /\ Resched(pstate, rdy, pinh)
  /\ UNCHANGED <<pprio, pinh, nextproc, lockVars, masked, klock, kargs, kerr,
                 kdue, holderVars>>

-------------------------------------------------------------------------------
(***************************************************************************)
(* Initially main and the processes it has created exist, main runs and    *)
(* the others are suspended: create() hands out the slots from the top of  *)
(* the table down.                                                         *)
(***************************************************************************)
Existing == {p \in Procs : NPROC - p <= Len(InitPrio)}

MAIN == NPROC - 1

Init ==
  /\ pstate = [p \in Procs |-> CASE p = NULLPROC -> "PRREADY"
                                 [] p = MAIN -> "PRCURR"
                                 [] p \in Existing \ {MAIN} -> "PRSUSP"
                                 [] OTHER -> "PRFREE"]
  /\ pprio = [p \in Procs |-> IF p \in Existing THEN InitPrio[NPROC - p] ELSE 0]
  /\ pinh = [p \in Procs |-> 0]
  /\ rdy = <<[pid |-> NULLPROC, key |-> 0]>>
  /\ currpid = MAIN
  /\ nextproc = NPROC - 1 - Len(InitPrio)
  /\ lstate = [l \in Locks |-> "FREE"]
  /\ num_reader = [l \in Locks |-> 0]
  /\ num_writer = [l \in Locks |-> 0]
  /\ lprio = [l \in Locks |-> -1]
  /\ waitq = [l \in Locks |-> <<>>]
  /\ process_holding_lock = [l \in Locks |-> {}]
  /\ have_lock = [p \in Procs |-> {}]
  /\ plock = [p \in Procs |-> 0]
  /\ plockret = [p \in Procs |-> "OK"]
  /\ masked = {}
  /\ kpc = "user"
  /\ klock = 0
  /\ kargs = <<>>
  /\ kerr = FALSE
  /\ kdue = {}
  /\ readers = [l \in Locks |-> {}]
  /\ writers = [l \in Locks |-> {}]

LockCall ==
  \/ Lcreate
  \/ LcreateFull
  \/ \E l \in Locks : Ldelete(l)
  \/ \E l \in Locks, type \in Types, priority \in WaitPrios :
       LockWait(l, type, priority) \/ LockGrant(l, type, priority)
  \/ \E ds \in ArgLists : Releaseall(ds)

ProcessCall ==
  \/ \E prio \in Prios : Create(prio) \/ CreateBadPrio(prio)
  \/ \E p \in UserPids : Resume(p) \/ Suspend(p) \/ KillIdle(p) \/ KillBlocked(p)
  \/ \E p \in UserPids, prio \in Prios : Chprio(p, prio)
  \/ KillSelf
  \/ Sleep

\* The loops that run with interrupts disabled.
KernelStep ==
  \/ DrainOne
  \/ DrainEnd
  \/ ReleaseBad
  \/ ReleaseFree
  \/ ReleaseOne
  \/ ReleaseEnd
  \/ ChooseNobody
  \/ ChooseWriter
  \/ ChooseReaders
  \/ AdmitReader
  \/ AdmitEnd
  \/ AdmitSpin
  \/ \E p \in kdue : WakeOne(p)
  \/ WakeEnd

ClockStep ==
  \/ Preempt
  \/ \E due \in SUBSET Sleepers : ClockDue(due)

Next == LockCall \/ ProcessCall \/ KernelStep \/ ClockStep

Spec == Init /\ [][Next]_vars

-------------------------------------------------------------------------------
(***************************************************************************)
(* Properties.                                                             *)
(***************************************************************************)

LockTypeOK ==
  /\ lstate \in [Locks -> {"FREE", "ACQUIRED"}]
  /\ num_reader \in [Locks -> Nat]
  /\ num_writer \in [Locks -> Nat]
  /\ lprio \in [Locks -> -1..MAXINT]
  /\ waitq \in [Locks -> Seq(Waiters)]
  /\ process_holding_lock \in [Locks -> SUBSET Procs]
  /\ have_lock \in [Procs -> SUBSET Locks]
  /\ plock \in [Procs -> Locks]
  /\ plockret \in [Procs -> {"OK", "DELETED"}]
  /\ masked \in SUBSET Procs

KernelTypeOK ==
  /\ kpc \in {"user", "release", "choose", "admit", "drain", "wakeup"}
  /\ klock \in Locks
  /\ kargs \in Seq(Int)
  /\ kerr \in BOOLEAN
  /\ kdue \in SUBSET Procs

HolderTypeOK ==
  /\ readers \in [Locks -> SUBSET Procs]
  /\ writers \in [Locks -> SUBSET Procs]

\* The type of every variable of the process table, the lock table, the call
\* in progress and the history: no priority that is computed leaves the range
\* of priorities, no count becomes negative, no list holds a stray entry.
TypeOK == ProcTypeOK /\ LockTypeOK /\ KernelTypeOK /\ HolderTypeOK

\* The counts of a lock in use never say that it is held in both modes, nor by
\* two writers, whatever descriptors the processes pass to releaseall(), and
\* while lock(), releaseall() and its admission loop decide by them.
CountsExclusive ==
  \A l \in Locks : lstate[l] = "ACQUIRED" =>
    /\ num_reader[l] = 0 \/ num_writer[l] = 0
    /\ num_writer[l] <= 1

\* A process that lock() has let in as a writer is alone: no other writer and
\* no reader believes it holds the lock, through admissions, deletion and
\* re-creation of the descriptor and the death of holders.  For processes
\* that release only what they hold.
MutualExclusion ==
  \A l \in Locks : \A w \in writers[l] : Holders(l) = {w} /\ readers[l] = {}

\* The counts account for the holders: they never fall below the number of
\* processes let in, and as long as nobody is killed they are equal to it, so
\* that a lock nobody holds is free to take.
CountsMatchHolders ==
  \A l \in Locks : lstate[l] = "ACQUIRED" =>
    LET r == Cardinality(readers[l])
        w == Cardinality(writers[l])
    IN  /\ r <= num_reader[l] /\ w <= num_writer[l]
        /\ "kill" \notin Calls => num_reader[l] = r /\ num_writer[l] = w

\* A process is linked where its state says and nowhere else: the ready
\* processes on the ready list, the ones blocked in lock() on the wait list of
\* plock, the running one on no list; and every list is in key order.
QueuesMatchStates ==
  /\ \A p \in Procs : (pstate[p] = "PRCURR") = (p = currpid)
  /\ Pids(rdy) = {p \in Procs : pstate[p] = "PRREADY"}
  /\ \A l \in Locks :
       Pids(waitq[l]) = {p \in Procs : pstate[p] = "PROCESS_LOCK" /\ plock[p] = l}
  /\ Sorted(rdy) /\ Distinct(rdy)
  /\ \A l \in Locks : Sorted(waitq[l]) /\ Distinct(waitq[l])

\* lprio never understates the priority of a process on the wait list, after
\* any sequence of waits, grants, chprio() and kill() on the waiters: what the
\* holders inherit is computed from it.
LprioCoversWaiters ==
  \A l \in Locks : \A p \in Pids(waitq[l]) : pprio[p] <= lprio[l]

WakeupStep ==
  \A p \in Procs : pstate[p] = "PROCESS_LOCK" /\ pstate'[p] # "PROCESS_LOCK" =>
    \/ /\ pstate'[p] = "PRREADY" /\ plockret'[p] = "OK"
       /\ p \in process_holding_lock'[plock[p]] /\ p \in Holders(plock[p])'
    \/ /\ pstate'[p] = "PRREADY" /\ plockret'[p] = "DELETED"
       /\ lstate'[plock[p]] = "FREE"
    \/ pstate'[p] = "PRFREE"

\* A process leaves a wait list only because it was granted the lock (lock()
\* will return OK and the lock's entry names it as a holder), because the lock
\* was deleted (lock() will return DELETED), or because it was killed.
WakeupJustified == [][WakeupStep]_vars

SwitchStep ==
  currpid' # currpid =>
    \A p \in Procs : pstate'[p] = "PRREADY" => Eff(pinh, p)' <= Eff(pinh, currpid)'

\* When resched() takes the CPU from one process and gives it to another, no
\* process left on the ready list has a larger scheduling priority, inherited
\* priorities included.
SwitchPicksHighest == [][SwitchStep]_vars

\* A process that took a lock by itself and still holds it runs with at least
\* the priority of every process on the lock's wait list.  For systems in
\* which nobody calls chprio() or create() any more.
DirectInheritance ==
  \A l \in Locks : \A p \in process_holding_lock[l] : l \in have_lock[p] =>
    \A w \in Pids(waitq[l]) : pprio[w] <= Eff(pinh, p)
==============================================================================
