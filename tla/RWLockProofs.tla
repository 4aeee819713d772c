----------------------------- MODULE RWLockProofs -----------------------------
(***************************************************************************)
(* Theorems about RWLock, for every number of processes and locks, every   *)
(* priority, argument list and choice of system calls:                     *)
(*                                                                         *)
(*   TypeCorrect        Spec => []TypeOK                                   *)
(*   CountsCorrect      Spec => []CountsExclusive                          *)
(*   Exclusion          Disciplined => (Spec => []MutualExclusion)         *)
(*   QueuesCorrect      Spec => []QueuesMatchStates                        *)
(*   WakeupsJustified   Spec => WakeupJustified                            *)
(*   HighestRuns        Spec => SwitchPicksHighest                         *)
(*   LprioCorrect       Spec => []LprioCoversWaiters                       *)
(*   CountsAccount      Disciplined => (Spec => []CountsMatchHolders)      *)
(*   HoldersInherit     without chprio() and create():                     *)
(*                      Spec => []DirectInheritance                        *)
(*   LocksImplement     Disciplined, without kill():                       *)
(*                      Spec => ImplementsService                          *)
(***************************************************************************)
EXTENDS RWLockRefines, XinuProcProofs, FiniteSetTheorems

-------------------------------------------------------------------------------
(***************************************************************************)
(* Lemmas about the operators.                                             *)
(***************************************************************************)

\* A lock descriptor is in the range of process ids, and 0 is a descriptor.
LEMMA LocksAreProcs == Locks \subseteq Procs /\ 0 \in Locks
BY NLOCKAssumption, NPROCAssumption DEF Locks, Procs

\* change_lck_proc_prio() computes -1 or a priority.
LEMMA WaitersPrioType ==
  ASSUME NEW pp \in [Procs -> 0..MAXINT], NEW list \in Seq(Waiters)
  PROVE  WaitersPrio(pp, list) \in -1..MAXINT
<1> DEFINE S == {pp[list[i].pid] : i \in DOMAIN list} \cup {-1}
<1>1. \A i \in DOMAIN list : list[i].pid \in Procs
  <2>1. list \in [1..Len(list) -> Waiters] /\ DOMAIN list = 1..Len(list)
    BY LenProperties
  <2> QED
    BY <2>1 DEF Waiters
<1>2. MAXINT \in Int /\ MAXINT >= 0
  BY MAXINTAssumption
<1>3. S \in SUBSET (-1..MAXINT) /\ -1 \in S
  BY <1>1, <1>2
<1>4. S \in SUBSET Int /\ S # {} /\ \A y \in S : y <= MAXINT
  BY <1>2, <1>3
<1>5. Max(S) \in S
  <2> HIDE DEF S
  <2> QED
    BY <1>2, <1>4, MaxOfBounded, Zenon
<1> QED
  BY <1>3, <1>5 DEF WaitersPrio

\* change_pinh_proc() computes 0 or a priority.
LEMMA NewPinhType ==
  ASSUME NEW pp \in [Procs -> 0..MAXINT], NEW hl \in [Procs -> SUBSET Locks],
         NEW lp \in [Locks -> -1..MAXINT], NEW p \in Procs
  PROVE  NewPinh(pp, hl, lp, p) \in 0..MAXINT
<1> DEFINE S == {lp[k] : k \in hl[p]} \cup {-1}
<1>1. MAXINT \in Int /\ MAXINT >= 0
  BY MAXINTAssumption
<1>2. S \in SUBSET (-1..MAXINT) /\ -1 \in S
  BY <1>1
<1>3. S \in SUBSET Int /\ S # {} /\ \A y \in S : y <= MAXINT
  BY <1>1, <1>2
<1>4. Max(S) \in S
  <2> HIDE DEF S
  <2> QED
    BY <1>1, <1>3, MaxOfBounded, Zenon
<1>5. Max(S) \in -1..MAXINT /\ pp[p] \in 0..MAXINT
  BY <1>2, <1>4
<1> HIDE DEF S
<1>6. (IF pp[p] <= Max(S) THEN Max(S) ELSE 0) \in 0..MAXINT
  BY <1>1, <1>5
<1> QED
  BY <1>6 DEF NewPinh, S

\* Recomputing the inherited priorities of any set of processes.
LEMMA InheritType ==
  ASSUME NEW pp \in [Procs -> 0..MAXINT], NEW hl \in [Procs -> SUBSET Locks],
         NEW lp \in [Locks -> -1..MAXINT], NEW ps, ProcTypeOK
  PROVE  Inherit(pp, hl, lp, ps) \in [Procs -> 0..MAXINT]
BY NewPinhType DEF Inherit, ProcTypeOK

\* A count goes up by one.
LEMMA CountUp ==
  ASSUME NEW f \in [Locks -> Nat], NEW l \in Locks
  PROVE  [f EXCEPT ![l] = @ + 1] \in [Locks -> Nat]
<1>1. f[l] + 1 \in Nat
  OBVIOUS
<1> QED
  BY <1>1

\* The waiter at the tail of a wait list is a process.
LEMMA TopType ==
  ASSUME NEW list \in Seq(Waiters), list # <<>>
  PROVE  Top(list) \in Waiters /\ Top(list).pid \in Procs
<1>1. list \in [1..Len(list) -> Waiters] /\ Len(list) \in 1..Len(list)
  BY LenProperties, EmptySeq
<1> QED
  BY <1>1 DEF Top, Waiters

-------------------------------------------------------------------------------
(***************************************************************************)
(* Type correctness.  TypeOK alone is not inductive: resched() reads the   *)
(* tail of the ready list, which must not be empty when the caller blocks. *)
(***************************************************************************)
ProcInv == ProcTypeOK /\ NullCanRun(pstate, rdy, currpid)

TypeInv == ProcInv /\ LockTypeOK /\ KernelTypeOK /\ HolderTypeOK

\* What ProcInv says, with the name of the set of list entries.
LEMMA ProcInvParts ==
  ASSUME ProcInv
  PROVE  /\ ProcTypeOK /\ NullCanRun(pstate, rdy, currpid)
         /\ pstate \in [Procs -> PStates] /\ pprio \in [Procs -> 0..MAXINT]
         /\ pinh \in [Procs -> 0..MAXINT] /\ rdy \in Seq(ReadyEntries)
         /\ currpid \in Procs /\ nextproc \in Procs
BY DEF ProcInv, ProcTypeOK, ReadyEntries

\* What a step must establish for ProcInv.
LEMMA ProcInvNext ==
  ASSUME pstate' \in [Procs -> PStates], pprio' \in [Procs -> 0..MAXINT],
         pinh' \in [Procs -> 0..MAXINT], rdy' \in Seq(ReadyEntries),
         currpid' \in Procs, nextproc' \in Procs,
         NullCanRun(pstate', rdy', currpid')
  PROVE  ProcInv'
BY DEF ProcInv, ProcTypeOK, ReadyEntries, NullCanRun

\* A process other than the one with the CPU, or the null process, changes
\* its state and leaves the ready list, or anyone joins it.
LEMMA NullStays ==
  ASSUME ProcInv, currpid # NULLPROC, NEW p \in UserPids
  PROVE  NULLPROC \in Pids(rdy) /\ NULLPROC \in Pids(Dequeue(rdy, p))
<1>1. NULLPROC \in Pids(rdy) /\ NULLPROC \notin {p}
  BY DEF ProcInv, NullCanRun, UserPids
<1> QED
  BY <1>1, ProcInvParts, DequeueProperties

\* The steps that leave the process table alone.
LEMMA ProcInvFrame ==
  ASSUME ProcInv, UNCHANGED procVars
  PROVE  ProcInv'
BY DEF ProcInv, ProcTypeOK, NullCanRun, procVars

\* A step that makes one process ready, and may change inherited priorities.
LEMMA ReadyStep ==
  ASSUME ProcInv, NEW p \in Procs,
         pstate' = [pstate EXCEPT ![p] = "PRREADY"],
         rdy' = Insert(rdy, ReadyEntry(pprio, p)),
         pinh' \in [Procs -> 0..MAXINT],
         UNCHANGED <<pprio, currpid, nextproc>>
  PROVE  ProcInv'
<1>1. /\ rdy' \in Seq(ReadyEntries)
      /\ Pids(rdy') = Pids(rdy) \cup {p}
  BY ProcInvParts, ReadyInsert
<1>2. pstate' \in [Procs -> PStates]
  BY ProcInvParts DEF PStates
<1>3. NullCanRun(pstate', rdy', currpid')
  BY <1>1, ProcInvParts DEF NullCanRun
<1> QED
  BY <1>1, <1>2, <1>3, ProcInvParts, ProcInvNext

\* A step that ends in resched().
LEMMA ReschedStep ==
  ASSUME ProcInv, NEW ps \in [Procs -> PStates], NEW rd \in Seq(ReadyEntries),
         NULLPROC \in Pids(rd) \/ (currpid = NULLPROC /\ ps[NULLPROC] = "PRCURR"),
         pinh' \in [Procs -> 0..MAXINT], Resched(ps, rd, pinh'),
         UNCHANGED <<pprio, nextproc>>
  PROVE  ProcInv'
<1>1. /\ pstate' \in [Procs -> PStates] /\ rdy' \in Seq(ReadyEntries)
      /\ currpid' \in Procs /\ NullCanRun(pstate', rdy', currpid')
  <2>1. \A ih \in [Procs -> 0..MAXINT] : Resched(ps, rd, ih) =>
          /\ pstate' \in [Procs -> PStates] /\ rdy' \in Seq(ReadyEntries)
          /\ currpid' \in Procs /\ NullCanRun(pstate', rdy', currpid')
    BY ProcInvParts, ReschedType DEF NullCanRun
  <2> QED
    BY <2>1
<1> QED
  BY <1>1, ProcInvParts, ProcInvNext

\* Every step keeps the process table well-typed and the null process able to
\* run.
LEMMA ProcInvStep ==
  ASSUME TypeInv, [Next]_vars
  PROVE  ProcInv'
<1> USE DEF TypeInv
<1>1. /\ waitq \in [Locks -> Seq(Waiters)] /\ lprio \in [Locks -> -1..MAXINT]
      /\ have_lock \in [Procs -> SUBSET Locks] /\ plock \in [Procs -> Locks]
      /\ process_holding_lock \in [Locks -> SUBSET Procs]
      /\ klock \in Locks /\ kdue \in SUBSET Procs
  BY DEF LockTypeOK, KernelTypeOK
<1>2. CASE UNCHANGED procVars
  BY <1>2, ProcInvFrame
<1>3. CASE DrainOne
  <2>1. Head(waitq[klock]).pid \in Procs
    <3>1. waitq[klock] \in Seq(Waiters) /\ waitq[klock] # <<>>
      BY <1>1, <1>3 DEF DrainOne
    <3>2. Head(waitq[klock]) \in Waiters
      BY <3>1, HeadTailProperties
    <3> QED
      BY <3>2 DEF Waiters
  <2> QED
    BY <1>3, <2>1, ReadyStep, ProcInvParts DEF DrainOne
<1>4. CASE DrainEnd
  BY <1>4, ReschedStep, ProcInvParts DEF DrainEnd, NullCanRun
<1>5. ASSUME NEW l \in Locks, NEW type \in Types, NEW priority \in WaitPrios,
             LockWait(l, type, priority)
      PROVE  ProcInv'
  <2> DEFINE entry == [pid |-> currpid, key |-> priority, type |-> type]
             wq    == [waitq EXCEPT ![l] = Insert(@, entry)]
             lp    == [lprio EXCEPT ![l] = WaitersPrio(pprio, wq[l])]
             ps    == [pstate EXCEPT ![currpid] = "PROCESS_LOCK"]
  <2>1. entry \in Waiters
    BY ProcInvParts, TypesAssumption, PriosAssumption DEF Waiters
  <2>2. wq[l] \in Seq(Waiters)
    <3> HIDE DEF entry
    <3>1. Insert(waitq[l], entry) \in Seq(Waiters)
      BY <1>1, <2>1, InsertProperties
    <3> QED
      BY <1>1, <3>1
  <2>3. lp \in [Locks -> -1..MAXINT]
    <3> HIDE DEF wq
    <3> QED
      BY <1>1, <2>2, WaitersPrioType, ProcInvParts
  <2>4. pinh' \in [Procs -> 0..MAXINT]
    <3>1. pinh' = Inherit(pprio, have_lock, lp, process_holding_lock[l])
      BY <1>5 DEF LockWait
    <3> HIDE DEF lp
    <3> QED
      BY <1>1, <2>3, <3>1, InheritType, ProcInvParts
  <2>5. ps \in [Procs -> PStates]
    BY ProcInvParts DEF PStates
  <2>6. NULLPROC \in Pids(rdy)
    BY <1>5, ProcInvParts DEF LockWait, InUser, NullCanRun
  <2>7. Resched(ps, rdy, pinh') /\ UNCHANGED <<pprio, nextproc>>
    BY <1>5 DEF LockWait
  <2> HIDE DEF ps
  <2> QED
    BY <2>4, <2>5, <2>6, <2>7, ReschedStep, ProcInvParts
<1>6. ASSUME NEW l \in Locks, NEW type \in Types, NEW priority \in WaitPrios,
             LockGrant(l, type, priority)
      PROVE  ProcInv'
  <2>1. have_lock' \in [Procs -> SUBSET Locks]
    BY <1>1, <1>6 DEF LockGrant
  <2>2. pinh' \in [Procs -> 0..MAXINT]
    BY <1>1, <1>6, <2>1, InheritType, ProcInvParts DEF LockGrant
  <2> QED
    BY <1>6, <2>2, ProcInvParts, ProcInvNext DEF LockGrant
<1>7. CASE ReleaseOne
  <2>1. have_lock' \in [Procs -> SUBSET Locks]
    BY <1>1, <1>7, ProcInvParts DEF ReleaseOne
  <2>2. pinh' \in [Procs -> 0..MAXINT]
    BY <1>1, <1>7, <2>1, InheritType, ProcInvParts DEF ReleaseOne
  <2> QED
    BY <1>7, <2>2, ProcInvParts, ProcInvNext DEF ReleaseOne
<1>8. CASE ReleaseEnd
  BY <1>8, ReschedStep, ProcInvParts, ProcInvNext DEF ReleaseEnd, NullCanRun
<1>9. ASSUME NEW l \in Locks, GrantTop(l), waitq[l] # <<>>
      PROVE  ProcInv'
  <2>1. have_lock' \in [Procs -> SUBSET Locks]
    BY <1>1, <1>9, ProcInvParts DEF GrantTop
  <2>2. lprio' \in [Locks -> -1..MAXINT]
    BY <1>1, <1>9, WaitersPrioType, ProcInvParts DEF GrantTop
  <2>3. pinh' \in [Procs -> 0..MAXINT]
    BY <1>9, <2>1, <2>2, InheritType, ProcInvParts DEF GrantTop
  <2>4. Top(waitq[l]).pid \in Procs
    BY <1>1, <1>9, TopType
  <2> QED
    BY <1>9, <2>3, <2>4, ReadyStep DEF GrantTop
<1>10. CASE ChooseWriter
  BY <1>1, <1>9, <1>10 DEF ChooseWriter, WriterNext, GrantTopWriter
<1>11. CASE AdmitReader
  BY <1>1, <1>9, <1>11 DEF AdmitReader, GrantTopReader
<1>12. ASSUME NEW prio \in Prios, Create(prio) \/ CreateBadPrio(prio)
       PROVE  ProcInv'
  <2>1. NewPid \in UserPids /\ SlotAfter(NewPid) \in Procs
    BY <1>12, NewPidFree, ProcInvParts DEF Create, CreateBadPrio
  <2>2. NULLPROC \in Pids(rdy)
    BY <1>12, ProcInvParts DEF Create, CreateBadPrio, InUser, NullCanRun
  <2> HIDE DEF TypeInv
  <2>3. pstate' \in [Procs -> PStates] /\ pprio' \in [Procs -> 0..MAXINT]
    BY <1>12, <2>1, ProcInvParts, PriosAssumption
       DEF Create, CreateBadPrio, UserPids, PStates, TypeInv
  <2>4. UNCHANGED <<pinh, rdy, currpid>> /\ nextproc' = SlotAfter(NewPid)
    BY <1>12 DEF Create, CreateBadPrio
  <2> QED
    BY <2>1, <2>2, <2>3, <2>4, ProcInvParts, ProcInvNext DEF NullCanRun, TypeInv
<1>13. ASSUME NEW p \in UserPids, Resume(p)
       PROVE  ProcInv'
  <2> DEFINE ps == [pstate EXCEPT ![p] = "PRREADY"]
             rd == Insert(rdy, ReadyEntry(pprio, p))
  <2>1. ps \in [Procs -> PStates]
    BY ProcInvParts DEF PStates
  <2>2. rd \in Seq(ReadyEntries) /\ NULLPROC \in Pids(rd)
    BY <1>13, NullStays, ReadyInsert, ProcInvParts DEF Resume, InUser, UserPids
  <2>3. Resched(ps, rd, pinh') /\ UNCHANGED <<pprio, pinh, nextproc>>
    BY <1>13 DEF Resume
  <2> HIDE DEF ps, rd
  <2> QED
    BY <2>1, <2>2, <2>3, ReschedStep, ProcInvParts
<1>14. ASSUME NEW p \in UserPids, Suspend(p)
       PROVE  ProcInv'
  <2> DEFINE ps == [pstate EXCEPT ![p] = "PRSUSP"]
  <2>1. ps \in [Procs -> PStates]
    BY ProcInvParts DEF PStates
  <2>2. NULLPROC \in Pids(rdy) /\ NULLPROC \in Pids(Dequeue(rdy, p))
    BY <1>14, NullStays DEF Suspend, InUser
  <2>3. UNCHANGED <<pprio, pinh, nextproc>>
    BY <1>14 DEF Suspend
  <2>4. CASE pstate' = ps /\ rdy' = Dequeue(rdy, p) /\ UNCHANGED currpid
    <3>1. rdy' \in Seq(ReadyEntries)
      BY <2>4, DequeueProperties, ProcInvParts
    <3> HIDE DEF ps
    <3> QED
      BY <2>1, <2>2, <2>3, <2>4, <3>1, ProcInvNext, ProcInvParts DEF NullCanRun
  <2>5. CASE Resched(ps, rdy, pinh)
    <3> HIDE DEF ps
    <3>1. Resched(ps, rdy, pinh')
      BY <2>3, <2>5
    <3> QED
      BY <2>1, <2>2, <2>3, <3>1, ReschedStep, ProcInvParts
  <2> QED
    BY <1>14, <2>4, <2>5 DEF Suspend
<1>15. ASSUME NEW p \in UserPids, NEW prio \in Prios, Chprio(p, prio)
       PROVE  ProcInv'
  <2> DEFINE l  == plock[p]
             ih == [pinh EXCEPT ![p] = NewPinh(pprio', have_lock, lprio, p)]
             lp == [lprio EXCEPT ![l] = WaitersPrio(pprio', waitq[l])]
  <2>1. p \in Procs /\ l \in Locks /\ l \in Procs
    BY <1>1, LocksAreProcs DEF UserPids
  <2>2. pprio' \in [Procs -> 0..MAXINT]
    BY <1>15, ProcInvParts, PriosAssumption DEF Chprio
  <2>3. lp \in [Locks -> -1..MAXINT]
    <3>1. \A pp \in [Procs -> 0..MAXINT] : WaitersPrio(pp, waitq[l]) \in -1..MAXINT
      BY <1>1, <2>1, WaitersPrioType
    <3> QED
      BY <1>1, <2>2, <3>1
  <2>4. \A pp \in [Procs -> 0..MAXINT], q \in Procs, f \in [Locks -> -1..MAXINT] :
          NewPinh(pp, have_lock, f, q) \in 0..MAXINT
    BY <1>1, NewPinhType
  <2>5. ih \in [Procs -> 0..MAXINT]
    BY <1>1, <2>1, <2>2, <2>4, ProcInvParts
  <2>6. pinh' \in [Procs -> 0..MAXINT]
    <3>1. pinh' = ih \/ pinh' = [ih EXCEPT ![l] = NewPinh(pprio', have_lock, lp, l)]
      BY <1>15 DEF Chprio
    <3>2. NewPinh(pprio', have_lock, lp, l) \in 0..MAXINT
      BY <2>1, <2>2, <2>3, <2>4
    <3> HIDE DEF ih, lp, l
    <3> QED
      BY <2>1, <2>5, <3>1, <3>2
  <2>7. rdy' \in Seq(ReadyEntries) /\ NULLPROC \in Pids(rdy')
    <3>1. NULLPROC \in Pids(rdy) /\ NULLPROC \in Pids(Dequeue(rdy, p))
      BY <1>15, NullStays DEF Chprio, InUser
    <3>2. Dequeue(rdy, p) \in Seq(ReadyEntries)
      BY DequeueProperties, ProcInvParts
    <3>3. \A pp \in [Procs -> 0..MAXINT], rd \in Seq(ReadyEntries) :
            /\ Insert(rd, ReadyEntry(pp, p)) \in Seq(ReadyEntries)
            /\ Pids(Insert(rd, ReadyEntry(pp, p))) = Pids(rd) \cup {p}
      BY <2>1, ReadyInsert
    <3>4. rdy' = Insert(Dequeue(rdy, p), ReadyEntry(pprio', p)) \/ rdy' = rdy
      BY <1>15 DEF Chprio
    <3> QED
      BY <2>2, <3>1, <3>2, <3>3, <3>4, ProcInvParts
  <2>8. UNCHANGED <<pstate, currpid, nextproc>>
    BY <1>15 DEF Chprio
  <2> HIDE DEF ih, lp, l
  <2> QED
    BY <2>2, <2>6, <2>7, <2>8, ProcInvNext, ProcInvParts DEF NullCanRun
<1>16. CASE KillSelf
  <2> DEFINE ps == [pstate EXCEPT ![currpid] = "PRFREE"]
  <2>1. ps \in [Procs -> PStates]
    BY ProcInvParts DEF PStates
  <2>2. NULLPROC \in Pids(rdy)
    BY <1>16, ProcInvParts DEF KillSelf, InUser, NullCanRun
  <2>3. Resched(ps, rdy, pinh') /\ UNCHANGED <<pprio, pinh, nextproc>>
    BY <1>16 DEF KillSelf, KillEnds
  <2> HIDE DEF ps
  <2> QED
    BY <2>1, <2>2, <2>3, ReschedStep, ProcInvParts
<1>17. ASSUME NEW p \in UserPids, KillIdle(p)
       PROVE  ProcInv'
  <2>1. NULLPROC \in Pids(Dequeue(rdy, p))
    BY <1>17, NullStays DEF KillIdle, InUser
  <2>2. rdy' \in Seq(ReadyEntries)
    BY <1>17, DequeueProperties, ProcInvParts DEF KillIdle
  <2>3. pstate' \in [Procs -> PStates]
    BY <1>17, ProcInvParts DEF KillIdle, PStates
  <2>4. UNCHANGED <<pprio, pinh, currpid, nextproc>> /\ rdy' = Dequeue(rdy, p)
    BY <1>17 DEF KillIdle, KillEnds
  <2> QED
    BY <2>1, <2>2, <2>3, <2>4, ProcInvNext, ProcInvParts DEF NullCanRun
<1>18. ASSUME NEW p \in UserPids, KillBlocked(p)
       PROVE  ProcInv'
  <2> DEFINE l == plock[p]
  <2>1. p \in Procs /\ l \in Locks
    BY <1>1 DEF UserPids
  <2>2. waitq'[l] \in Seq(Waiters)
    BY <1>1, <1>18, <2>1, DequeueProperties DEF KillBlocked
  <2>3. lprio' = [lprio EXCEPT ![l] = WaitersPrio(pprio, waitq'[l])]
    BY <1>18 DEF KillBlocked
  <2>4. lprio' \in [Locks -> -1..MAXINT]
    <3>1. \A list \in Seq(Waiters) : WaitersPrio(pprio, list) \in -1..MAXINT
      BY WaitersPrioType, ProcInvParts
    <3> QED
      BY <1>1, <2>2, <2>3, <3>1
  <2>5. pinh' \in [Procs -> 0..MAXINT]
    <3>1. \A f \in [Locks -> -1..MAXINT] : \A ps :
            Inherit(pprio, have_lock, f, ps) \in [Procs -> 0..MAXINT]
      BY <1>1, InheritType, ProcInvParts
    <3>2. pinh' = Inherit(pprio, have_lock, lprio', process_holding_lock'[l])
      BY <1>18 DEF KillBlocked
    <3> QED
      BY <2>4, <3>1, <3>2
  <2>6. pstate' \in [Procs -> PStates]
    BY <1>18, ProcInvParts DEF KillBlocked, PStates
  <2>7. NULLPROC \in Pids(rdy)
    BY <1>18, NullStays DEF KillBlocked, InUser
  <2>8. UNCHANGED <<pprio, rdy, currpid, nextproc>>
    BY <1>18 DEF KillBlocked, KillEnds
  <2> QED
    BY <2>5, <2>6, <2>7, <2>8, ProcInvNext, ProcInvParts DEF NullCanRun
<1>19. CASE Sleep
  <2> DEFINE ps == [pstate EXCEPT ![currpid] = "PRSLEEP"]
  <2>1. ps \in [Procs -> PStates]
    BY ProcInvParts DEF PStates
  <2>2. NULLPROC \in Pids(rdy)
    BY <1>19, ProcInvParts DEF Sleep, InUser, NullCanRun
  <2>3. Resched(ps, rdy, pinh') /\ UNCHANGED <<pprio, pinh, nextproc>>
    BY <1>19 DEF Sleep
  <2> HIDE DEF ps
  <2> QED
    BY <2>1, <2>2, <2>3, ReschedStep, ProcInvParts
<1>20. CASE Preempt \/ WakeEnd
  <2>1. Resched(pstate, rdy, pinh') /\ UNCHANGED <<pprio, pinh, nextproc>>
    BY <1>20 DEF Preempt, WakeEnd
  <2> QED
    BY <2>1, ReschedStep, ProcInvParts DEF NullCanRun
<1>21. ASSUME NEW p \in kdue, WakeOne(p)
       PROVE  ProcInv'
  BY <1>1, <1>21, ReadyStep, ProcInvParts DEF WakeOne
<1>22. CASE LockCall
  BY <1>2, <1>5, <1>6, <1>22
     DEF LockCall, Lcreate, LcreateFull, Ldelete, Releaseall, procVars
<1>23. CASE ProcessCall
  BY <1>12, <1>13, <1>14, <1>15, <1>16, <1>17, <1>18, <1>19, <1>23 DEF ProcessCall
<1>24. CASE KernelStep
  BY <1>2, <1>3, <1>4, <1>7, <1>8, <1>10, <1>11, <1>20, <1>21, <1>24
     DEF KernelStep, ReleaseBad, ReleaseFree, ChooseNobody, ChooseReaders,
         AdmitEnd, AdmitSpin, vars
<1>25. CASE ClockStep
  BY <1>2, <1>20, <1>25 DEF ClockStep, ClockDue
<1> QED
  BY <1>2, <1>22, <1>23, <1>24, <1>25 DEF Next, vars

\* Every step keeps the lock table well-typed: the counts never fall below 0,
\* and lprio is -1 or a priority.
LEMMA LockTypeStep ==
  ASSUME TypeInv, [Next]_vars
  PROVE  LockTypeOK'
<1> USE DEF LockTypeOK
<1>1. LockTypeOK /\ KernelTypeOK /\ ProcInv
  BY DEF TypeInv
<1>2. /\ currpid \in Procs /\ pprio \in [Procs -> 0..MAXINT]
      /\ klock \in Locks /\ kdue \in SUBSET Procs
  BY <1>1, ProcInvParts DEF KernelTypeOK
<1>3. CASE UNCHANGED <<lockVars, masked>>
  BY <1>1, <1>3 DEF lockVars
<1>4. CASE Lcreate \/ LcreateFull
  <2>1. FreeLocks \in SUBSET Nat
    BY NLOCKAssumption DEF FreeLocks, Locks
  <2>2. CASE Lcreate
    <3>1. Min(FreeLocks) \in Locks
      BY <2>1, <2>2, MinOfNaturals DEF Lcreate, FreeLocks
    <3> QED
      BY <1>1, <2>2, <3>1 DEF Lcreate
  <2>3. CASE LcreateFull
    BY <1>1, <1>2, <2>3 DEF LcreateFull, lockVars
  <2> QED
    BY <1>4, <2>2, <2>3
<1>5. ASSUME NEW l \in Locks, Ldelete(l) PROVE LockTypeOK'
  BY <1>1, <1>5 DEF Ldelete
<1>6. CASE DrainOne
  <2>1. waitq[klock] \in Seq(Waiters) /\ waitq[klock] # <<>>
    BY <1>1, <1>2, <1>6 DEF DrainOne
  <2>2. Head(waitq[klock]) \in Waiters /\ Tail(waitq[klock]) \in Seq(Waiters)
    BY <2>1, HeadTailProperties
  <2>3. Head(waitq[klock]).pid \in Procs
    BY <2>2 DEF Waiters
  <2> QED
    BY <1>1, <1>2, <1>6, <2>2, <2>3 DEF DrainOne
<1>7. CASE DrainEnd
  BY <1>1, <1>2, <1>7 DEF DrainEnd
<1>8. ASSUME NEW l \in Locks, NEW type \in Types, NEW priority \in WaitPrios,
             LockWait(l, type, priority)
      PROVE  LockTypeOK'
  <2> DEFINE entry == [pid |-> currpid, key |-> priority, type |-> type]
             wq    == [waitq EXCEPT ![l] = Insert(@, entry)]
             lp    == [lprio EXCEPT ![l] = WaitersPrio(pprio, wq[l])]
  <2>1. entry \in Waiters
    BY <1>2, TypesAssumption, PriosAssumption DEF Waiters
  <2>2. wq \in [Locks -> Seq(Waiters)]
    <3> HIDE DEF entry
    <3>1. Insert(waitq[l], entry) \in Seq(Waiters)
      BY <1>1, <2>1, InsertProperties
    <3> QED
      BY <1>1, <3>1
  <2>3. lp \in [Locks -> -1..MAXINT]
    <3> HIDE DEF wq
    <3> QED
      BY <1>1, <1>2, <2>2, WaitersPrioType
  <2>4. waitq' = wq /\ lprio' = lp
    BY <1>8 DEF LockWait
  <2>5. /\ plock' = [plock EXCEPT ![currpid] = l]
        /\ plockret' = [plockret EXCEPT ![currpid] = "OK"]
        /\ UNCHANGED <<lstate, num_reader, num_writer, process_holding_lock,
                       have_lock, masked>>
    BY <1>8 DEF LockWait
  <2> HIDE DEF wq, lp
  <2> QED
    BY <1>1, <1>2, <2>2, <2>3, <2>4, <2>5
<1>9. ASSUME NEW l \in Locks, NEW type \in Types, NEW priority \in WaitPrios,
             LockGrant(l, type, priority)
      PROVE  LockTypeOK'
  <2>2. num_reader' \in [Locks -> Nat] /\ num_writer' \in [Locks -> Nat]
    <3>1. \/ UNCHANGED num_reader /\ num_writer' = [num_writer EXCEPT ![l] = @ + 1]
          \/ UNCHANGED num_writer /\ num_reader' = [num_reader EXCEPT ![l] = @ + 1]
      BY <1>9 DEF LockGrant
    <3>2. /\ [num_reader EXCEPT ![l] = @ + 1] \in [Locks -> Nat]
          /\ [num_writer EXCEPT ![l] = @ + 1] \in [Locks -> Nat]
      BY <1>1, CountUp
    <3> QED
      BY <1>1, <3>1, <3>2
  <2>3. process_holding_lock' \in [Locks -> SUBSET Procs]
    BY <1>1, <1>2, <1>9 DEF LockGrant, HoldingWith
  <2>4. have_lock' \in [Procs -> SUBSET Locks]
    BY <1>1, <1>2, <1>9 DEF LockGrant
  <2>5. UNCHANGED <<lstate, lprio, waitq, plock, plockret, masked>>
    BY <1>9 DEF LockGrant
  <2> QED
    BY <1>1, <2>2, <2>3, <2>4, <2>5
<1>10. CASE ReleaseOne
  <2> DEFINE l == Head(kargs)
  <2>1. \A n \in Nat : n > 0 => n - 1 \in Nat
    OBVIOUS
  <2>2. l \in Locks /\ num_reader[l] \in Nat /\ num_writer[l] \in Nat
    BY <1>1, <1>10 DEF ReleaseOne
  <2>3. num_writer' \in [Locks -> Nat]
    BY <1>1, <1>10, <2>1, <2>2 DEF ReleaseOne
  <2>4. num_reader' \in [Locks -> Nat]
    BY <1>1, <1>10, <2>1, <2>2 DEF ReleaseOne
  <2>5. process_holding_lock' \in [Locks -> SUBSET Procs]
    BY <1>1, <1>10 DEF ReleaseOne
  <2>6. have_lock' \in [Procs -> SUBSET Locks]
    BY <1>1, <1>2, <1>10 DEF ReleaseOne
  <2>7. UNCHANGED <<lstate, lprio, waitq, plock, plockret, masked>>
    BY <1>10 DEF ReleaseOne
  <2> QED
    BY <1>1, <2>3, <2>4, <2>5, <2>6, <2>7
<1>11. ASSUME NEW l \in Locks, waitq[l] # <<>>,
              GrantTopReader(l) \/ GrantTopWriter(l)
       PROVE  LockTypeOK'
  <2>1. GrantTop(l) /\ num_reader' \in [Locks -> Nat] /\ num_writer' \in [Locks -> Nat]
    <3>2. \/ UNCHANGED num_reader /\ num_writer' = [num_writer EXCEPT ![l] = @ + 1]
          \/ UNCHANGED num_writer /\ num_reader' = [num_reader EXCEPT ![l] = @ + 1]
      BY <1>11 DEF GrantTopReader, GrantTopWriter
    <3>3. GrantTop(l)
      BY <1>11 DEF GrantTopReader, GrantTopWriter
    <3>4. /\ [num_reader EXCEPT ![l] = @ + 1] \in [Locks -> Nat]
          /\ [num_writer EXCEPT ![l] = @ + 1] \in [Locks -> Nat]
      BY <1>1, CountUp
    <3> QED
      BY <1>1, <3>2, <3>3, <3>4
  <2>2. Top(waitq[l]).pid \in Procs
    BY <1>1, <1>11, TopType
  <2>3. lprio' \in [Locks -> -1..MAXINT]
    BY <1>1, <1>2, <2>1, WaitersPrioType DEF GrantTop
  <2>4. waitq' \in [Locks -> Seq(Waiters)]
    BY <1>1, <2>1, DequeueProperties DEF GrantTop
  <2> QED
    <3>1. process_holding_lock' \in [Locks -> SUBSET Procs]
      BY <1>1, <2>1, <2>2 DEF GrantTop, HoldingWith
    <3>2. have_lock' \in [Procs -> SUBSET Locks]
      BY <1>1, <1>2, <2>1 DEF GrantTop
    <3>3. UNCHANGED <<lstate, plock, plockret, masked>>
      BY <2>1 DEF GrantTop
    <3> QED
      BY <1>1, <2>1, <2>3, <2>4, <3>1, <3>2, <3>3
<1>12. CASE ChooseWriter
  BY <1>2, <1>11, <1>12 DEF ChooseWriter, WriterNext
<1>13. CASE AdmitReader
  BY <1>2, <1>11, <1>13 DEF AdmitReader
<1>14. ASSUME NEW prio \in Prios, Create(prio) \/ CreateBadPrio(prio)
       PROVE  LockTypeOK'
  BY <1>1, <1>14 DEF Create, CreateBadPrio, lockVars
<1>15. ASSUME NEW p \in UserPids, NEW prio \in Prios, Chprio(p, prio)
       PROVE  LockTypeOK'
  <2> DEFINE l == plock[p]
  <2>1. l \in Locks
    BY <1>1 DEF UserPids
  <2>2. pprio' \in [Procs -> 0..MAXINT]
    BY <1>2, <1>15, PriosAssumption DEF Chprio
  <2>3. \A pp \in [Procs -> 0..MAXINT] : WaitersPrio(pp, waitq[l]) \in -1..MAXINT
    BY <1>1, <2>1, WaitersPrioType
  <2>4. [lprio EXCEPT ![l] = WaitersPrio(pprio', waitq[l])] \in [Locks -> -1..MAXINT]
    BY <1>1, <2>1, <2>2, <2>3
  <2>5. lprio' \in [Locks -> -1..MAXINT]
    BY <1>1, <1>15, <2>4 DEF Chprio
  <2> QED
    BY <1>1, <1>15, <2>5 DEF Chprio
<1>16. CASE KillSelf
  BY <1>1, <1>16 DEF KillSelf, KillEnds
<1>17. ASSUME NEW p \in UserPids, KillIdle(p) PROVE LockTypeOK'
  BY <1>1, <1>17 DEF KillIdle, KillEnds
<1>18. ASSUME NEW p \in UserPids, KillBlocked(p) PROVE LockTypeOK'
  <2> DEFINE l == plock[p]
  <2>1. l \in Locks
    BY <1>1 DEF UserPids
  <2>2. waitq' \in [Locks -> Seq(Waiters)]
    BY <1>1, <1>18, <2>1, DequeueProperties DEF KillBlocked
  <2>3. \A list \in Seq(Waiters) : WaitersPrio(pprio, list) \in -1..MAXINT
    BY <1>2, WaitersPrioType
  <2>4. lprio' \in [Locks -> -1..MAXINT]
    BY <1>1, <1>18, <2>1, <2>2, <2>3 DEF KillBlocked
  <2> QED
    BY <1>1, <1>18, <2>2, <2>4 DEF KillBlocked, KillEnds
<1>19. CASE LockCall
  BY <1>3, <1>4, <1>5, <1>8, <1>9, <1>19 DEF LockCall, Releaseall
<1>20. CASE ProcessCall
  BY <1>3, <1>14, <1>15, <1>16, <1>17, <1>18, <1>20
     DEF ProcessCall, Resume, Suspend, Sleep
<1>21. CASE KernelStep
  BY <1>3, <1>6, <1>7, <1>10, <1>12, <1>13, <1>21
     DEF KernelStep, ReleaseBad, ReleaseFree, ReleaseEnd, ChooseNobody,
         ChooseReaders, AdmitEnd, AdmitSpin, WakeOne, WakeEnd, vars
<1>22. CASE ClockStep
  BY <1>3, <1>22 DEF ClockStep, ClockDue, Preempt
<1> QED
  BY <1>3, <1>19, <1>20, <1>21, <1>22 DEF Next, vars

\* Every step keeps the type of the kernel call in progress.
LEMMA KernelTypeStep ==
  ASSUME TypeInv, [Next]_vars
  PROVE  KernelTypeOK'
<1> USE DEF KernelTypeOK
<1>1. KernelTypeOK /\ 0 \in Locks
  BY LocksAreProcs DEF TypeInv
<1>2. CASE UNCHANGED kernelVars
  BY <1>1, <1>2 DEF kernelVars
<1>3. ASSUME kargs # <<>> PROVE Tail(kargs) \in Seq(Int)
  BY <1>1, <1>3, HeadTailProperties
<1>4. CASE LockCall
  <2>1. ASSUME NEW l \in Locks, Ldelete(l) PROVE KernelTypeOK'
    BY <1>1, <2>1 DEF Ldelete
  <2>2. ASSUME NEW ds \in ArgLists, Releaseall(ds) PROVE KernelTypeOK'
    BY <1>1, <2>2, ArgListsAssumption DEF Releaseall
  <2>3. ASSUME NEW l \in Locks, NEW type \in Types, NEW priority \in WaitPrios,
               LockWait(l, type, priority) \/ LockGrant(l, type, priority)
        PROVE  UNCHANGED kernelVars
    BY <2>3 DEF LockWait, LockGrant
  <2>4. CASE Lcreate \/ LcreateFull
    BY <1>2, <2>4 DEF Lcreate, LcreateFull
  <2> QED
    BY <1>2, <1>4, <2>1, <2>2, <2>3, <2>4 DEF LockCall
<1>5. CASE ProcessCall
  BY <1>2, <1>5 DEF ProcessCall, Create, CreateBadPrio, Resume, Suspend, Chprio,
                    KillSelf, KillIdle, KillBlocked, KillEnds, Sleep, kernelVars
<1>6. CASE KernelStep
  <2>1. CASE DrainOne \/ DrainEnd
    BY <1>1, <2>1 DEF DrainOne, DrainEnd, kernelVars
  <2>2. CASE ReleaseBad \/ ReleaseFree \/ ReleaseOne \/ ReleaseEnd
    <3>1. <<>> \in Seq(Int)
      OBVIOUS
    <3>2. CASE ReleaseBad
      BY <1>1, <3>1, <3>2 DEF ReleaseBad
    <3>3. CASE ReleaseFree
      BY <1>1, <1>3, <3>3 DEF ReleaseFree
    <3>4. CASE ReleaseOne
      <4>1. Tail(kargs) \in Seq(Int) /\ kargs' = Tail(kargs)
        BY <1>3, <3>4 DEF ReleaseOne
      <4>2. klock' \in Locks /\ kpc' = "choose" /\ UNCHANGED <<kerr, kdue>>
        BY <3>4 DEF ReleaseOne
      <4> QED
        BY <1>1, <4>1, <4>2
    <3>5. CASE ReleaseEnd
      BY <1>1, <3>5 DEF ReleaseEnd
    <3> QED
      BY <2>2, <3>2, <3>3, <3>4, <3>5
  <2>3. CASE ChooseNobody \/ ChooseWriter \/ ChooseReaders
    BY <1>1, <2>3
       DEF ChooseNobody, ChooseWriter, ChooseReaders, GrantTopWriter, GrantTop
  <2>4. CASE AdmitReader \/ AdmitEnd \/ AdmitSpin
    BY <1>1, <2>4
       DEF AdmitReader, AdmitEnd, AdmitSpin, GrantTopReader, GrantTop, vars, kernelVars
  <2>5. ASSUME (\E p \in kdue : WakeOne(p)) \/ WakeEnd PROVE KernelTypeOK'
    BY <1>1, <2>5 DEF WakeOne, WakeEnd
  <2> QED
    BY <1>6, <2>1, <2>2, <2>3, <2>4, <2>5 DEF KernelStep
<1>7. CASE ClockStep
  BY <1>1, <1>2, <1>7 DEF ClockStep, ClockDue, Preempt, Sleepers
<1> QED
  BY <1>2, <1>4, <1>5, <1>6, <1>7 DEF Next, vars

\* Every step keeps the holders processes.
LEMMA HolderTypeStep ==
  ASSUME TypeInv, [Next]_vars
  PROVE  HolderTypeOK'
<1> USE DEF HolderTypeOK
<1>1. HolderTypeOK /\ currpid \in Procs /\ klock \in Locks /\ waitq \in [Locks -> Seq(Waiters)]
  BY ProcInvParts DEF TypeInv, KernelTypeOK, LockTypeOK
<1>2. CASE UNCHANGED holderVars
  BY <1>1, <1>2 DEF holderVars
<1>3. CASE LockCall
  <2>1. ASSUME NEW l \in Locks, Ldelete(l) PROVE HolderTypeOK'
    BY <1>1, <2>1 DEF Ldelete
  <2>2. ASSUME NEW l \in Locks, NEW type \in Types, NEW priority \in WaitPrios,
               LockGrant(l, type, priority)
        PROVE  HolderTypeOK'
    <3>1. \/ UNCHANGED readers /\ writers' = [writers EXCEPT ![l] = @ \cup {currpid}]
          \/ UNCHANGED writers /\ readers' = [readers EXCEPT ![l] = @ \cup {currpid}]
      BY <2>2 DEF LockGrant
    <3> QED
      BY <1>1, <3>1
  <2> QED
    BY <1>2, <1>3, <2>1, <2>2 DEF LockCall, Lcreate, LcreateFull, LockWait, Releaseall
<1>4. CASE ProcessCall
  <2>1. ASSUME NEW p, KillEnds(p) PROVE HolderTypeOK'
    BY <1>1, <2>1 DEF KillEnds
  <2> QED
    BY <1>2, <1>4, <2>1 DEF ProcessCall, Create, CreateBadPrio, Resume, Suspend,
       Chprio, KillSelf, KillIdle, KillBlocked, Sleep
<1>5. CASE KernelStep
  <2>1. CASE ReleaseOne
    BY <1>1, <2>1 DEF ReleaseOne
  <2>2. ASSUME waitq[klock] # <<>>, GrantTopReader(klock) \/ GrantTopWriter(klock)
        PROVE  HolderTypeOK'
    <3>1. Top(waitq[klock]).pid \in Procs
      BY <1>1, <2>2, TopType
    <3> DEFINE p == Top(waitq[klock]).pid
    <3>2. \/ UNCHANGED readers /\ writers' = [writers EXCEPT ![klock] = @ \cup {p}]
          \/ UNCHANGED writers /\ readers' = [readers EXCEPT ![klock] = @ \cup {p}]
      BY <2>2 DEF GrantTopReader, GrantTopWriter
    <3> HIDE DEF p
    <3> QED
      BY <1>1, <3>1, <3>2 DEF p
  <2> QED
    BY <1>2, <1>5, <2>1, <2>2
       DEF KernelStep, DrainOne, DrainEnd, ReleaseBad, ReleaseFree, ReleaseEnd,
           ChooseNobody, ChooseWriter, WriterNext, ChooseReaders, AdmitReader,
           AdmitEnd, AdmitSpin, WakeOne, WakeEnd, vars
<1>6. CASE ClockStep
  BY <1>2, <1>6 DEF ClockStep, ClockDue, Preempt
<1> QED
  BY <1>2, <1>3, <1>4, <1>5, <1>6 DEF Next, vars

\* Initially main runs, the null process is ready and no lock exists.
LEMMA TypeInit == Init => TypeInv
<1> SUFFICES ASSUME Init PROVE TypeInv
  OBVIOUS
<1> USE DEF Init
<1>1. InitPrio \in [1..Len(InitPrio) -> 1..MAXINT] /\ Len(InitPrio) \in 1..NPROC - 1
  BY InitPrioAssumption, LenProperties
<1>2. ProcInv
  <2>1. pstate \in [Procs -> PStates]
    BY DEF PStates
  <2>2. pprio \in [Procs -> 0..MAXINT]
    <3>1. \A p \in Existing : NPROC - p \in 1..Len(InitPrio)
      BY NPROCAssumption DEF Existing, Procs
    <3> QED
      BY <1>1, <3>1, MAXINTAssumption
  <2>3. /\ pinh \in [Procs -> 0..MAXINT] /\ currpid \in Procs /\ nextproc \in Procs
    BY <1>1, NPROCAssumption, MAXINTAssumption DEF MAIN, Procs
  <2>4. rdy \in Seq(ReadyEntries) /\ NULLPROC \in Pids(rdy)
    <3>1. [pid |-> NULLPROC, key |-> 0] \in ReadyEntries
      BY NullIsProc, MAXINTAssumption DEF ReadyEntries
    <3> QED
      BY <3>1 DEF Pids
  <2> QED
    BY <2>1, <2>2, <2>3, <2>4 DEF ProcInv, ProcTypeOK, NullCanRun, ReadyEntries
<1>3. LockTypeOK
  <2>1. -1 \in -1..MAXINT /\ <<>> \in Seq(Waiters)
    BY MAXINTAssumption
  <2> QED
    BY <2>1, LocksAreProcs DEF LockTypeOK
<1>4. KernelTypeOK /\ HolderTypeOK
  <2>1. <<>> \in Seq(Int)
    OBVIOUS
  <2> QED
    BY <2>1, LocksAreProcs DEF KernelTypeOK, HolderTypeOK
<1> QED
  BY <1>2, <1>3, <1>4 DEF TypeInv

\* TypeInv is an invariant.
LEMMA TypeInvariant == Spec => []TypeInv
<1>1. TypeInv /\ [Next]_vars => TypeInv'
  BY ProcInvStep, LockTypeStep, KernelTypeStep, HolderTypeStep DEF TypeInv
<1> QED
  BY <1>1, TypeInit, PTL DEF Spec

\* Type correctness: in every reachable state every priority that is computed
\* is in range, no count of a lock is negative and the lists hold processes.
THEOREM TypeCorrect == Spec => []TypeOK
<1>1. TypeInv => TypeOK
  BY DEF TypeInv, ProcInv, TypeOK
<1> QED
  BY <1>1, TypeInvariant, PTL

-------------------------------------------------------------------------------
(***************************************************************************)
(* The counts of a lock.  The decision to admit readers is taken in one    *)
(* step and acted on in later ones, and the loop of ldelete() writes a     *)
(* count of the deleted lock: the invariant says what holds in between.    *)
(***************************************************************************)
CountsInv ==
  /\ CountsExclusive
  /\ kpc \in {"choose", "admit"} => lstate[klock] = "ACQUIRED"
  /\ kpc = "admit" => num_writer[klock] = 0
  /\ kpc = "drain" => lstate[klock] = "FREE"

\* Every step keeps the counts exclusive.
LEMMA CountsStep ==
  ASSUME TypeInv, CountsInv, [Next]_vars
  PROVE  CountsInv'
<1> USE DEF CountsInv, CountsExclusive
<1>1. /\ lstate \in [Locks -> {"FREE", "ACQUIRED"}]
      /\ num_reader \in [Locks -> Nat] /\ num_writer \in [Locks -> Nat]
      /\ klock \in Locks /\ 0 \in Locks
  BY LocksAreProcs DEF TypeInv, LockTypeOK, KernelTypeOK
<1>2. CASE UNCHANGED <<lstate, num_reader, num_writer, kpc, klock>>
  BY <1>1, <1>2
<1>3. CASE UNCHANGED <<lstate, num_reader, num_writer>> /\ kpc' \in {"user", "release", "wakeup"}
  BY <1>1, <1>3
<1>4. CASE LockCall
  <2>1. CASE Lcreate
    BY <1>1, <2>1 DEF Lcreate, InUser, kernelVars
  <2>2. ASSUME NEW l \in Locks, Ldelete(l) PROVE CountsInv'
    BY <1>1, <2>2 DEF Ldelete, InUser
  <2>3. ASSUME NEW l \in Locks, NEW type \in Types, NEW priority \in WaitPrios,
               LockGrant(l, type, priority)
        PROVE  CountsInv'
    <3>1. type \in {"READ", "WRITE"}
      BY TypesAssumption
    <3>2. num_writer[l] = 0 /\ (type = "WRITE" => num_reader[l] = 0)
      BY <1>1, <2>3, <3>1 DEF LockGrant, MustWait
    <3>3. lstate[l] = "ACQUIRED" /\ kpc = "user" /\ UNCHANGED <<lstate, kpc, klock>>
      BY <2>3 DEF LockGrant, InUser, kernelVars
    <3>4. \/ /\ type = "WRITE" /\ UNCHANGED num_reader
             /\ num_writer' = [num_writer EXCEPT ![l] = @ + 1]
          \/ /\ type # "WRITE" /\ UNCHANGED num_writer
             /\ num_reader' = [num_reader EXCEPT ![l] = @ + 1]
      BY <2>3 DEF LockGrant
    <3> QED
      BY <1>1, <3>2, <3>3, <3>4
  <2>4. CASE LcreateFull
    BY <1>2, <2>4 DEF LcreateFull, lockVars, kernelVars
  <2>5. ASSUME NEW l \in Locks, NEW type \in Types, NEW priority \in WaitPrios,
               LockWait(l, type, priority)
        PROVE  CountsInv'
    <3>1. UNCHANGED <<lstate, num_reader, num_writer, kpc, klock>>
      BY <2>5 DEF LockWait, kernelVars
    <3> QED
      BY <1>2, <3>1
  <2>6. ASSUME NEW ds \in ArgLists, Releaseall(ds) PROVE CountsInv'
    BY <1>3, <2>6 DEF Releaseall, lockVars
  <2> QED
    BY <1>4, <2>1, <2>2, <2>3, <2>4, <2>5, <2>6 DEF LockCall
<1>5. CASE ProcessCall
  BY <1>2, <1>5 DEF ProcessCall, Create, CreateBadPrio, Resume, Suspend, Chprio,
     KillSelf, KillIdle, KillBlocked, KillEnds, Sleep, lockVars, kernelVars
<1>6. CASE KernelStep
  <2>1. CASE DrainEnd
    BY <1>1, <2>1 DEF DrainEnd
  <2>2. CASE ReleaseOne
    <3> DEFINE l == Head(kargs)
    <3>1. l \in Locks /\ lstate[l] = "ACQUIRED" /\ UNCHANGED lstate
      BY <2>2 DEF ReleaseOne
    <3>2. kpc' = "choose" /\ klock' = l
      BY <2>2 DEF ReleaseOne
    <3>3. /\ num_writer' = [num_writer EXCEPT ![l] = IF @ > 0 THEN @ - 1 ELSE @]
          /\ num_reader' = [num_reader EXCEPT ![l] =
               IF num_writer[l] = 0 /\ @ > 0 THEN @ - 1 ELSE @]
      BY <2>2 DEF ReleaseOne
    <3> HIDE DEF l
    <3> QED
      BY <1>1, <3>1, <3>2, <3>3
  <2>3. CASE ChooseWriter
    BY <1>1, <2>3 DEF ChooseWriter, WriterNext, GrantTopWriter, GrantTop
  <2>4. CASE ChooseReaders
    BY <1>1, <2>4 DEF ChooseReaders, ReaderNext, lockVars
  <2>5. CASE AdmitReader
    BY <1>1, <2>5 DEF AdmitReader, GrantTopReader, GrantTop
  <2> QED
    BY <1>2, <1>3, <1>6, <2>1, <2>2, <2>3, <2>4, <2>5
       DEF KernelStep, DrainOne, ReleaseBad, ReleaseFree, ReleaseEnd, ChooseNobody,
           AdmitEnd, AdmitSpin, WakeOne, WakeEnd, vars, lockVars, kernelVars
<1>7. CASE ClockStep
  BY <1>2, <1>3, <1>7 DEF ClockStep, ClockDue, Preempt, lockVars, kernelVars
<1> QED
  BY <1>2, <1>4, <1>5, <1>6, <1>7 DEF Next, vars, lockVars, kernelVars

\* CountsInv is an invariant.
LEMMA CountsInvariant == Spec => []CountsInv
<1>1. Init => CountsInv
  BY DEF Init, CountsInv, CountsExclusive
<1>2. TypeInv /\ CountsInv /\ [Next]_vars => CountsInv'
  BY CountsStep
<1> QED
  BY <1>1, <1>2, TypeInvariant, PTL DEF Spec

\* The counts of a lock in use never say that it is held in both modes, nor by
\* two writers, whatever the processes release.
THEOREM CountsCorrect == Spec => []CountsExclusive
<1>1. CountsInv => CountsExclusive
  BY DEF CountsInv
<1> QED
  BY <1>1, CountsInvariant, PTL

-------------------------------------------------------------------------------
(***************************************************************************)
(* Mutual exclusion.  releaseall() decides by the counts whether the       *)
(* caller is a reader or a writer, so the argument counts the holders: the *)
(* counts cover them, and the descriptors not yet looked at are still held *)
(* by the caller.                                                          *)
(***************************************************************************)
HoldersInv ==
  /\ \A l \in Locks : lstate[l] = "ACQUIRED" =>
       /\ Cardinality(readers[l]) <= num_reader[l]
       /\ Cardinality(writers[l]) <= num_writer[l]
  /\ \A l \in Locks : lstate[l] = "FREE" => readers[l] = {} /\ writers[l] = {}
  /\ kpc \in {"release", "choose", "admit"} => MayRelease(kargs)

\* Counting a set of processes that one of them joins or leaves.
LEMMA CountOfProcs ==
  ASSUME NEW S \in SUBSET Procs, NEW p
  PROVE  /\ Cardinality(S) \in Nat
         /\ Cardinality(S \cup {p}) \in Nat /\ Cardinality(S \ {p}) \in Nat
         /\ Cardinality(S \cup {p}) <= Cardinality(S) + 1
         /\ Cardinality(S \ {p}) <= Cardinality(S)
         /\ p \in S => Cardinality(S \ {p}) = Cardinality(S) - 1
         /\ Cardinality(S) <= 0 => S = {}
         /\ Cardinality(S) <= 1 /\ p \in S => S = {p}
<1>1. IsFiniteSet(Procs)
  BY FS_Interval, NPROCAssumption DEF Procs
<1>2. IsFiniteSet(S)
  BY <1>1, FS_Subset
<1>3. Cardinality(S) \in Nat
  BY <1>2, FS_CardinalityType
<1>4. /\ IsFiniteSet(S \cup {p})
      /\ Cardinality(S \cup {p}) = IF p \in S THEN Cardinality(S) ELSE Cardinality(S) + 1
  BY <1>2, FS_AddElement
<1>5. /\ IsFiniteSet(S \ {p})
      /\ Cardinality(S \ {p}) = IF p \in S THEN Cardinality(S) - 1 ELSE Cardinality(S)
  BY <1>2, FS_RemoveElement
<1>6. Cardinality(S \ {p}) \in Nat
  BY <1>5, FS_CardinalityType
<1>7. Cardinality(S) <= 0 => S = {}
  BY <1>2, <1>3, FS_EmptySet
<1>8. ASSUME Cardinality(S) <= 1, p \in S PROVE S = {p}
  <2>1. Cardinality(S) = 0 \/ Cardinality(S) = 1
    BY <1>3, <1>8
  <2>2. Cardinality(S) # 0
    BY <1>2, <1>8, FS_EmptySet
  <2>3. PICK x : S = {x}
    BY <1>2, <2>1, <2>2, FS_Singleton
  <2> QED
    BY <1>8, <2>3
<1> QED
  BY <1>3, <1>4, <1>5, <1>6, <1>7, <1>8

\* The counts of a deleted or a new lock cover nobody.
LEMMA CountOfNobody == Cardinality({}) = 0
BY FS_EmptySet

\* A process with discipline that has given up the first of its descriptors
\* still holds the others, once.
LEMMA RestStillHeld ==
  ASSUME Disciplined, kargs \in Seq(Int), kargs # <<>>, MayRelease(kargs),
         \A l \in Locks : l # Head(kargs) => Holders(l)' = Holders(l),
         kargs' = Tail(kargs), UNCHANGED currpid
  PROVE  /\ Head(kargs) \in Locks /\ currpid \in Holders(Head(kargs))
         /\ MayRelease(kargs)'
<1>1. /\ Len(kargs) \in Nat /\ DOMAIN kargs = 1..Len(kargs) /\ 1 \in DOMAIN kargs
      /\ Head(kargs) = kargs[1]
  BY LenProperties, EmptySeq, HeadTailProperties
<1>2. /\ DOMAIN kargs' = 1..Len(kargs) - 1
      /\ \A i \in 1..Len(kargs) - 1 : kargs'[i] = kargs[i + 1]
  BY HeadTailProperties, LenProperties
<1>3. /\ \A i \in DOMAIN kargs : kargs[i] \in Locks /\ currpid \in Holders(kargs[i])
      /\ \A i, j \in DOMAIN kargs : kargs[i] = kargs[j] => i = j
  BY DEF MayRelease
<1>4. ASSUME NEW i \in DOMAIN kargs'
      PROVE  /\ i \in Nat /\ i + 1 \in DOMAIN kargs /\ kargs'[i] = kargs[i + 1]
             /\ kargs'[i] \in Locks /\ kargs'[i] # Head(kargs)
             /\ currpid \in Holders(kargs'[i])
  <2>1. i \in Nat /\ i + 1 \in DOMAIN kargs /\ i + 1 # 1
    BY <1>1, <1>2
  <2> QED
    BY <1>1, <1>2, <1>3, <2>1
<1>5. ASSUME NEW i \in DOMAIN kargs', NEW j \in DOMAIN kargs', kargs'[i] = kargs'[j]
      PROVE  i = j
  <2>1. i + 1 = j + 1 /\ i \in Nat /\ j \in Nat
    BY <1>3, <1>4, <1>5
  <2> QED
    BY <2>1
<1>6. ASSUME NEW i \in DOMAIN kargs'
      PROVE  \E l \in Locks : kargs'[i] = l /\ currpid' \in Holders(l)'
  <2>1. PICK l \in Locks : kargs'[i] = l /\ l # Head(kargs) /\ currpid \in Holders(l)
    BY <1>4
  <2> QED
    BY <2>1
<1> QED
  BY <1>1, <1>3, <1>5, <1>6 DEF MayRelease

\* Every step keeps the counts above the numbers of holders.
LEMMA HoldersStep ==
  ASSUME Disciplined, TypeInv, CountsInv, HoldersInv, [Next]_vars
  PROVE  HoldersInv'
<1> USE DEF HoldersInv
<1>1. /\ lstate \in [Locks -> {"FREE", "ACQUIRED"}]
      /\ num_reader \in [Locks -> Nat] /\ num_writer \in [Locks -> Nat]
      /\ readers \in [Locks -> SUBSET Procs] /\ writers \in [Locks -> SUBSET Procs]
      /\ kargs \in Seq(Int) /\ currpid \in Procs
      /\ klock \in Locks /\ waitq \in [Locks -> Seq(Waiters)]
  BY ProcInvParts DEF TypeInv, LockTypeOK, KernelTypeOK, HolderTypeOK
<1>2. CASE /\ UNCHANGED <<lstate, num_reader, num_writer, readers, writers>>
           /\ kpc' \notin {"release", "choose", "admit"}
  BY <1>1, <1>2
<1>3. CASE /\ UNCHANGED <<lstate, num_reader, num_writer, readers, writers>>
           /\ kpc \in {"release", "choose", "admit"} /\ UNCHANGED <<kargs, currpid>>
  BY <1>1, <1>3 DEF MayRelease, Holders
<1>4. CASE UNCHANGED vars
  BY <1>1, <1>4 DEF vars, procVars, lockVars, kernelVars, holderVars, MayRelease, Holders
<1>5. ASSUME NEW l \in Locks, NEW p \in Procs, lstate[l] = "ACQUIRED",
             UNCHANGED <<lstate, kargs, currpid>>,
             \/ /\ UNCHANGED <<num_reader, readers>>
                /\ num_writer' = [num_writer EXCEPT ![l] = @ + 1]
                /\ writers' = [writers EXCEPT ![l] = @ \cup {p}]
             \/ /\ UNCHANGED <<num_writer, writers>>
                /\ num_reader' = [num_reader EXCEPT ![l] = @ + 1]
                /\ readers' = [readers EXCEPT ![l] = @ \cup {p}],
             kpc' \in {"release", "choose", "admit"} => kpc \in {"release", "choose", "admit"}
      PROVE  HoldersInv'
  <2>1. \A S \in SUBSET Procs :
          /\ Cardinality(S) \in Nat /\ Cardinality(S \cup {p}) \in Nat
          /\ Cardinality(S \cup {p}) <= Cardinality(S) + 1
    BY CountOfProcs
  <2>2. ASSUME NEW k \in Locks, lstate'[k] = "ACQUIRED"
        PROVE  /\ Cardinality(readers'[k]) <= num_reader'[k]
               /\ Cardinality(writers'[k]) <= num_writer'[k]
    <3>1. /\ Cardinality(readers[k]) <= num_reader[k]
          /\ Cardinality(writers[k]) <= num_writer[k]
      BY <1>5, <2>2
    <3>2. CASE k # l
      BY <1>1, <1>5, <3>1, <3>2
    <3>3. CASE k = l
      <4>1. /\ num_reader[l] \in Nat /\ num_writer[l] \in Nat
            /\ readers[l] \in SUBSET Procs /\ writers[l] \in SUBSET Procs
        BY <1>1
      <4>2. \/ /\ UNCHANGED <<num_reader[l], readers[l]>>
               /\ num_writer'[l] = num_writer[l] + 1
               /\ writers'[l] = writers[l] \cup {p}
            \/ /\ UNCHANGED <<num_writer[l], writers[l]>>
               /\ num_reader'[l] = num_reader[l] + 1
               /\ readers'[l] = readers[l] \cup {p}
        BY <1>1, <1>5
      <4> QED
        BY <2>1, <3>1, <3>3, <4>1, <4>2
    <3> QED
      BY <3>2, <3>3
  <2>3. \A k \in Locks : lstate'[k] = "FREE" => readers'[k] = {} /\ writers'[k] = {}
    BY <1>1, <1>5
  <2>4. ASSUME NEW k \in Locks PROVE Holders(k) \subseteq Holders(k)'
    <3>1. readers[k] \subseteq readers'[k]
      BY <1>1, <1>5
    <3>2. writers[k] \subseteq writers'[k]
      BY <1>1, <1>5
    <3> QED
      BY <3>1, <3>2 DEF Holders
  <2>5. kpc' \in {"release", "choose", "admit"} => MayRelease(kargs)'
    BY <1>5, <2>4 DEF MayRelease
  <2> QED
    BY <2>2, <2>3, <2>5
<1>6. CASE LockCall
  <2>1. CASE Lcreate
    <3> DEFINE l == Min(FreeLocks)
    <3>1. l \in Locks /\ lstate[l] = "FREE"
      <4>1. FreeLocks \in SUBSET Nat /\ FreeLocks # {}
        BY <2>1, NLOCKAssumption DEF Lcreate, FreeLocks, Locks
      <4> QED
        BY <4>1, MinOfNaturals DEF FreeLocks
    <3>2. readers[l] = {} /\ writers[l] = {}
      BY <3>1
    <3>3. /\ lstate' = [lstate EXCEPT ![l] = "ACQUIRED"]
          /\ num_reader' = [num_reader EXCEPT ![l] = 0]
          /\ num_writer' = [num_writer EXCEPT ![l] = 0]
          /\ UNCHANGED <<readers, writers>> /\ kpc' = "user"
      BY <2>1 DEF Lcreate, InUser, kernelVars, holderVars
    <3> HIDE DEF l
    <3>4. num_reader'[l] = 0 /\ num_writer'[l] = 0
      BY <1>1, <3>1, <3>3
    <3>5. ASSUME NEW k \in Locks, k # l
          PROVE  UNCHANGED <<lstate[k], num_reader[k], num_writer[k]>>
      BY <1>1, <3>3, <3>5
    <3>6. ASSUME NEW k \in Locks, lstate'[k] = "ACQUIRED"
          PROVE  /\ Cardinality(readers'[k]) <= num_reader'[k]
                 /\ Cardinality(writers'[k]) <= num_writer'[k]
      <4>1. CASE k = l
        <5>1. readers'[k] = {} /\ writers'[k] = {}
          BY <3>2, <3>3, <4>1
        <5>2. Cardinality(readers'[k]) = 0 /\ Cardinality(writers'[k]) = 0
          BY <5>1, CountOfNobody
        <5> QED
          BY <3>4, <4>1, <5>2
      <4>2. CASE k # l
        BY <3>3, <3>5, <3>6, <4>2
      <4> QED
        BY <4>1, <4>2
    <3>7. \A k \in Locks : lstate'[k] = "FREE" => readers'[k] = {} /\ writers'[k] = {}
      BY <1>1, <3>1, <3>3
    <3> QED
      BY <3>3, <3>6, <3>7
  <2>2. ASSUME NEW l \in Locks, Ldelete(l) PROVE HoldersInv'
    BY <1>1, <2>2 DEF Ldelete
  <2>3. ASSUME NEW l \in Locks, NEW type \in Types, NEW priority \in WaitPrios,
               LockGrant(l, type, priority)
        PROVE  HoldersInv'
    <3>1. /\ lstate[l] = "ACQUIRED" /\ kpc' = "user"
          /\ UNCHANGED <<lstate, kargs, currpid>>
      BY <2>3 DEF LockGrant, InUser, kernelVars
    <3>2. \/ /\ UNCHANGED <<num_reader, readers>>
             /\ num_writer' = [num_writer EXCEPT ![l] = @ + 1]
             /\ writers' = [writers EXCEPT ![l] = @ \cup {currpid}]
          \/ /\ UNCHANGED <<num_writer, writers>>
             /\ num_reader' = [num_reader EXCEPT ![l] = @ + 1]
             /\ readers' = [readers EXCEPT ![l] = @ \cup {currpid}]
      BY <2>3 DEF LockGrant
    <3> QED
      BY <1>1, <1>5, <3>1, <3>2
  <2>4. ASSUME NEW l \in Locks, NEW type \in Types, NEW priority \in WaitPrios,
               LockWait(l, type, priority)
        PROVE  HoldersInv'
    <3>1. /\ UNCHANGED <<lstate, num_reader, num_writer, readers, writers>>
          /\ kpc' = "user"
      BY <2>4 DEF LockWait, InUser, kernelVars, holderVars
    <3> QED
      BY <1>2, <3>1
  <2>5. ASSUME NEW ds \in ArgLists, Releaseall(ds) PROVE HoldersInv'
    <3>1. /\ UNCHANGED <<lstate, num_reader, num_writer, readers, writers, currpid>>
          /\ MayRelease(ds) /\ kargs' = ds
      BY <2>5 DEF Releaseall, lockVars, holderVars, procVars
    <3>2. MayRelease(kargs)'
      BY <3>1 DEF MayRelease, Holders
    <3> QED
      BY <1>1, <3>1, <3>2
  <2>6. CASE LcreateFull
    BY <1>2, <2>6 DEF LcreateFull, InUser, lockVars, kernelVars, holderVars
  <2> QED
    BY <1>6, <2>1, <2>2, <2>3, <2>4, <2>5, <2>6 DEF LockCall
<1>7. CASE ProcessCall
  <2>1. ASSUME NEW p, KillEnds(p), kpc = "user" PROVE HoldersInv'
    <3>1. /\ readers' = [l \in Locks |-> readers[l] \ {p}]
          /\ writers' = [l \in Locks |-> writers[l] \ {p}]
          /\ UNCHANGED <<lstate, num_reader, num_writer>> /\ kpc' = "user"
      BY <2>1 DEF KillEnds, kernelVars
    <3>2. ASSUME NEW l \in Locks
          PROVE  readers'[l] = readers[l] \ {p} /\ writers'[l] = writers[l] \ {p}
      BY <3>1
    <3>3. \A S \in SUBSET Procs :
            /\ Cardinality(S) \in Nat /\ Cardinality(S \ {p}) \in Nat
            /\ Cardinality(S \ {p}) <= Cardinality(S)
      BY CountOfProcs
    <3>4. ASSUME NEW l \in Locks, lstate'[l] = "ACQUIRED"
          PROVE  /\ Cardinality(readers'[l]) <= num_reader'[l]
                 /\ Cardinality(writers'[l]) <= num_writer'[l]
      <4>1. /\ Cardinality(readers[l]) <= num_reader[l]
            /\ Cardinality(writers[l]) <= num_writer[l]
        BY <3>1, <3>4
      <4>2. /\ num_reader[l] \in Nat /\ num_writer[l] \in Nat
            /\ readers[l] \in SUBSET Procs /\ writers[l] \in SUBSET Procs
        BY <1>1
      <4>3. Cardinality(readers'[l]) <= num_reader[l]
        BY <3>2, <3>3, <4>1, <4>2
      <4>4. Cardinality(writers'[l]) <= num_writer[l]
        BY <3>2, <3>3, <4>1, <4>2
      <4> QED
        BY <3>1, <4>3, <4>4
    <3>5. \A l \in Locks : lstate'[l] = "FREE" => readers'[l] = {} /\ writers'[l] = {}
      BY <3>1, <3>2
    <3> QED
      BY <3>1, <3>4, <3>5
  <2>2. CASE KillSelf \/ \E p \in UserPids : KillIdle(p) \/ KillBlocked(p)
    BY <2>1, <2>2 DEF KillSelf, KillIdle, KillBlocked, InUser
  <2>3. ASSUME NEW p \in UserPids, Resume(p) \/ Suspend(p)
        PROVE  HoldersInv'
    BY <1>2, <2>3 DEF Resume, Suspend, InUser, lockVars, kernelVars, holderVars
  <2>4. ASSUME NEW prio \in Prios, Create(prio) \/ CreateBadPrio(prio)
        PROVE  HoldersInv'
    BY <1>2, <2>4 DEF Create, CreateBadPrio, InUser, lockVars, kernelVars, holderVars
  <2>5. ASSUME NEW p \in UserPids, NEW prio \in Prios, Chprio(p, prio)
        PROVE  HoldersInv'
    BY <1>2, <2>5 DEF Chprio, InUser, kernelVars, holderVars
  <2>6. CASE Sleep
    BY <1>2, <2>6 DEF Sleep, InUser, lockVars, kernelVars, holderVars
  <2> QED
    BY <1>7, <2>2, <2>3, <2>4, <2>5, <2>6 DEF ProcessCall
<1>8. CASE KernelStep
  <2>1. CASE DrainOne
    BY <1>2, <2>1 DEF DrainOne, kernelVars, holderVars
  <2>2. CASE DrainEnd
    <3>1. lstate[klock] = "FREE" /\ UNCHANGED <<lstate, num_writer, readers, writers>>
      BY <2>2 DEF DrainEnd, CountsInv, holderVars
    <3>2. num_reader' = [num_reader EXCEPT ![klock] = 1] /\ kpc' = "user"
      BY <2>2 DEF DrainEnd
    <3> QED
      BY <1>1, <3>1, <3>2
  <2>3. CASE ReleaseBad \/ ReleaseEnd
    BY <1>2, <2>3 DEF ReleaseBad, ReleaseEnd, lockVars, holderVars
  <2>4. CASE ReleaseFree
    <3>1. MayRelease(kargs) /\ kargs # <<>> /\ kargs' = Tail(kargs)
      BY <2>4 DEF ReleaseFree
    <3>2. UNCHANGED <<lstate, num_reader, num_writer, readers, writers, currpid>>
      BY <2>4 DEF ReleaseFree, lockVars, holderVars, procVars
    <3>3. \A l \in Locks : Holders(l)' = Holders(l)
      BY <3>2 DEF Holders
    <3>4. MayRelease(kargs)'
      BY <1>1, <3>1, <3>2, <3>3, RestStillHeld
    <3> QED
      BY <1>1, <3>2, <3>4
  <2>5. CASE ReleaseOne
    <3> DEFINE l == Head(kargs)
    <3>1. /\ l \in Locks /\ lstate[l] = "ACQUIRED" /\ UNCHANGED <<lstate, currpid>>
          /\ num_writer' = [num_writer EXCEPT ![l] = IF @ > 0 THEN @ - 1 ELSE @]
          /\ num_reader' = [num_reader EXCEPT ![l] =
               IF num_writer[l] = 0 /\ @ > 0 THEN @ - 1 ELSE @]
          /\ readers' = [readers EXCEPT ![l] = @ \ {currpid}]
          /\ writers' = [writers EXCEPT ![l] = @ \ {currpid}]
      BY <2>5 DEF ReleaseOne
    <3>2. kargs # <<>> /\ MayRelease(kargs) /\ kargs' = Tail(kargs)
      BY <2>5 DEF ReleaseOne
    <3>3. \A k \in Locks : k # l => Holders(k)' = Holders(k)
      <4>1. ASSUME NEW k \in Locks, k # l
            PROVE  readers'[k] = readers[k] /\ writers'[k] = writers[k]
        BY <1>1, <3>1, <4>1
      <4> QED
        BY <4>1 DEF Holders
    <3>4. currpid \in Holders(l) /\ MayRelease(kargs)'
      BY <1>1, <3>1, <3>2, <3>3, RestStillHeld
    <3>6. \A S \in SUBSET Procs :
            /\ Cardinality(S) \in Nat /\ Cardinality(S \ {currpid}) \in Nat
            /\ Cardinality(S \ {currpid}) <= Cardinality(S)
            /\ currpid \in S => Cardinality(S \ {currpid}) = Cardinality(S) - 1
            /\ Cardinality(S) <= 0 => S = {}
      BY CountOfProcs
    <3>7. /\ Cardinality(readers[l]) <= num_reader[l]
          /\ Cardinality(writers[l]) <= num_writer[l]
          /\ num_reader[l] = 0 \/ num_writer[l] = 0
          /\ readers[l] \in SUBSET Procs /\ writers[l] \in SUBSET Procs
          /\ num_reader[l] \in Nat /\ num_writer[l] \in Nat
      BY <1>1, <3>1 DEF CountsInv, CountsExclusive
    <3> HIDE DEF l
    <3>8. /\ Cardinality(readers'[l]) <= num_reader'[l]
          /\ Cardinality(writers'[l]) <= num_writer'[l]
      <4>1. /\ readers'[l] = readers[l] \ {currpid}
            /\ writers'[l] = writers[l] \ {currpid}
            /\ num_writer'[l] = IF num_writer[l] > 0 THEN num_writer[l] - 1 ELSE num_writer[l]
            /\ num_reader'[l] = IF num_writer[l] = 0 /\ num_reader[l] > 0
                                THEN num_reader[l] - 1 ELSE num_reader[l]
        BY <1>1, <3>1
      <4>2. CASE num_writer[l] > 0
        <5>0. num_reader[l] = 0 /\ Cardinality(readers[l]) <= 0
          BY <3>7, <4>2
        <5>1. readers[l] = {} /\ currpid \in writers[l] /\ num_reader[l] = 0
          BY <3>4, <3>6, <3>7, <5>0 DEF Holders
        <5>2. Cardinality(writers[l] \ {currpid}) = Cardinality(writers[l]) - 1
          BY <3>6, <3>7, <5>1
        <5>3. readers'[l] = {}
          BY <4>1, <5>1
        <5> QED
          BY <3>6, <3>7, <4>1, <4>2, <5>1, <5>2, <5>3, CountOfNobody
      <4>3. CASE num_writer[l] = 0
        <5>0. Cardinality(writers[l]) <= 0
          BY <3>7, <4>3
        <5>1. writers[l] = {} /\ currpid \in readers[l]
          BY <3>4, <3>6, <3>7, <5>0 DEF Holders
        <5>2. Cardinality(readers[l] \ {currpid}) = Cardinality(readers[l]) - 1
          BY <3>6, <3>7, <5>1
        <5>3. writers'[l] = {}
          BY <4>1, <5>1
        <5> QED
          BY <3>6, <3>7, <4>1, <4>3, <5>1, <5>2, <5>3, CountOfNobody
      <4> QED
        BY <3>7, <4>2, <4>3
    <3>9. ASSUME NEW k \in Locks, k # l, lstate'[k] = "ACQUIRED"
          PROVE  /\ Cardinality(readers'[k]) <= num_reader'[k]
                 /\ Cardinality(writers'[k]) <= num_writer'[k]
      <4>1. UNCHANGED <<lstate[k], num_reader[k], num_writer[k], readers[k], writers[k]>>
        BY <1>1, <3>1, <3>9
      <4> QED
        BY <3>9, <4>1
    <3>10. \A k \in Locks : lstate'[k] = "FREE" => readers'[k] = {} /\ writers'[k] = {}
      BY <1>1, <3>1
    <3> QED
      BY <3>4, <3>8, <3>9, <3>10
  <2>6. ASSUME kpc \in {"choose", "admit"}, kpc' \in {"release", "admit"},
               waitq[klock] # <<>>, GrantTopReader(klock) \/ GrantTopWriter(klock)
        PROVE  HoldersInv'
    <3> DEFINE p == Top(waitq[klock]).pid
    <3>1. p \in Procs
      BY <1>1, <2>6, TopType
    <3>2. lstate[klock] = "ACQUIRED" /\ UNCHANGED <<lstate, kargs, currpid>>
      BY <2>6 DEF GrantTopReader, GrantTopWriter, GrantTop, CountsInv
    <3>3. \/ /\ UNCHANGED <<num_reader, readers>>
             /\ num_writer' = [num_writer EXCEPT ![klock] = @ + 1]
             /\ writers' = [writers EXCEPT ![klock] = @ \cup {p}]
          \/ /\ UNCHANGED <<num_writer, writers>>
             /\ num_reader' = [num_reader EXCEPT ![klock] = @ + 1]
             /\ readers' = [readers EXCEPT ![klock] = @ \cup {p}]
      BY <2>6 DEF GrantTopReader, GrantTopWriter
    <3> HIDE DEF p
    <3> QED
      BY <1>1, <1>5, <2>6, <3>1, <3>2, <3>3
  <2>7. CASE ChooseWriter
    BY <2>6, <2>7 DEF ChooseWriter, WriterNext
  <2>8. CASE AdmitReader
    BY <2>6, <2>8 DEF AdmitReader
  <2>9. CASE ChooseNobody \/ ChooseReaders \/ AdmitEnd
    BY <1>3, <2>9 DEF ChooseNobody, ChooseReaders, AdmitEnd, procVars, lockVars, holderVars
  <2>10. ASSUME (\E p \in kdue : WakeOne(p)) \/ WakeEnd PROVE HoldersInv'
    BY <1>2, <2>10 DEF WakeOne, WakeEnd, lockVars, holderVars
  <2>11. CASE AdmitSpin
    BY <1>4, <2>11 DEF AdmitSpin
  <2> QED
    BY <1>8, <2>1, <2>2, <2>3, <2>4, <2>5, <2>7, <2>8, <2>9, <2>10, <2>11 DEF KernelStep
<1>9. CASE ClockStep
  BY <1>2, <1>9 DEF ClockStep, ClockTicks, ClockDue, Preempt, lockVars, kernelVars, holderVars
<1> QED
  BY <1>4, <1>6, <1>7, <1>8, <1>9 DEF Next

\* A writer is alone when the counts are exclusive and cover the holders.
LEMMA ExclusionFromCounts ==
  ASSUME TypeInv, CountsInv, HoldersInv
  PROVE  MutualExclusion
<1> SUFFICES ASSUME NEW l \in Locks, NEW w \in writers[l]
             PROVE  Holders(l) = {w} /\ readers[l] = {}
  BY DEF MutualExclusion
<1>1. /\ num_reader[l] \in Nat /\ num_writer[l] \in Nat
      /\ readers[l] \in SUBSET Procs /\ writers[l] \in SUBSET Procs
      /\ lstate[l] = "ACQUIRED"
  BY DEF TypeInv, LockTypeOK, HolderTypeOK, HoldersInv
<1>2. /\ Cardinality(readers[l]) <= num_reader[l]
      /\ Cardinality(writers[l]) <= num_writer[l]
      /\ num_reader[l] = 0 \/ num_writer[l] = 0
      /\ num_writer[l] <= 1
  BY <1>1 DEF HoldersInv, CountsInv, CountsExclusive
<1>3. \A S \in SUBSET Procs :
        /\ Cardinality(S) \in Nat
        /\ Cardinality(S) <= 0 => S = {}
        /\ Cardinality(S) <= 1 /\ w \in S => S = {w}
  BY CountOfProcs
<1>4. writers[l] = {w} /\ num_writer[l] # 0
  BY <1>1, <1>2, <1>3
<1>5. readers[l] = {}
  <2>1. Cardinality(readers[l]) <= 0
    BY <1>1, <1>2, <1>3, <1>4
  <2> QED
    BY <1>1, <1>3, <2>1
<1> QED
  BY <1>4, <1>5 DEF Holders

\* Mutual exclusion: if the processes release only what they hold, a process
\* that lock() or releaseall() has let in as a writer is alone in the lock,
\* for any number of processes and locks, whatever is deleted, re-created,
\* killed or interrupted.
THEOREM Exclusion == Disciplined => (Spec => []MutualExclusion)
<1> SUFFICES ASSUME Disciplined PROVE Spec => []MutualExclusion
  OBVIOUS
<1>1. Init => HoldersInv
  BY CountOfNobody DEF Init, HoldersInv
<1>2. TypeInv /\ CountsInv /\ HoldersInv /\ [Next]_vars => HoldersInv'
  BY HoldersStep
<1>3. TypeInv /\ CountsInv /\ HoldersInv => MutualExclusion
  BY ExclusionFromCounts
<1> QED
  BY <1>1, <1>2, <1>3, TypeInvariant, CountsInvariant, PTL DEF Spec

-------------------------------------------------------------------------------
(***************************************************************************)
(* The wait lists against the states of the processes.                     *)
(***************************************************************************)

\* The wait list of a lock holds the processes blocked on it, each once and in
\* key order.
WaitsMatch(ps, wq, pl) ==
  \A l \in Locks :
    /\ Pids(wq[l]) = {p \in Procs : ps[p] = "PROCESS_LOCK" /\ pl[p] = l}
    /\ Sorted(wq[l]) /\ Distinct(wq[l])

\* Nobody starts or ends a wait for a lock.
LEMMA WaitsKept ==
  ASSUME NEW ps, NEW qs, NEW wq, NEW pl, WaitsMatch(ps, wq, pl),
         \A p \in Procs : qs[p] = "PROCESS_LOCK" <=> ps[p] = "PROCESS_LOCK"
  PROVE  WaitsMatch(qs, wq, pl)
<1>1. ASSUME NEW l \in Locks
      PROVE  {p \in Procs : ps[p] = "PROCESS_LOCK" /\ pl[p] = l}
             = {p \in Procs : qs[p] = "PROCESS_LOCK" /\ pl[p] = l}
  OBVIOUS
<1> QED
  BY <1>1 DEF WaitsMatch

\* A process leaves the list of the lock it waits for, if it waits for one, and
\* is in another state.
LEMMA WaitsLess ==
  ASSUME NEW ps \in [Procs -> PStates], NEW wq \in [Locks -> Seq(Waiters)],
         NEW pl \in [Procs -> Locks], WaitsMatch(ps, wq, pl),
         NEW l \in Locks, NEW p \in Procs, ps[p] = "PROCESS_LOCK" => pl[p] = l,
         NEW list, Sorted(list), Distinct(list), Pids(list) = Pids(wq[l]) \ {p},
         NEW st, st # "PROCESS_LOCK"
  PROVE  WaitsMatch([ps EXCEPT ![p] = st], [wq EXCEPT ![l] = list], pl)
<1> DEFINE qs == [ps EXCEPT ![p] = st]
           vq == [wq EXCEPT ![l] = list]
<1>1. ASSUME NEW k \in Locks
      PROVE  /\ Pids(vq[k]) = {q \in Procs : qs[q] = "PROCESS_LOCK" /\ pl[q] = k}
             /\ Sorted(vq[k]) /\ Distinct(vq[k])
  <2>1. CASE k = l
    <3>1. vq[k] = list
      BY <2>1
    <3>2. Pids(wq[l]) = {q \in Procs : ps[q] = "PROCESS_LOCK" /\ pl[q] = l}
      BY DEF WaitsMatch
    <3> QED
      BY <2>1, <3>1, <3>2
  <2>2. CASE k # l
    <3>1. vq[k] = wq[k]
      BY <2>2
    <3>2. /\ Pids(wq[k]) = {q \in Procs : ps[q] = "PROCESS_LOCK" /\ pl[q] = k}
          /\ Sorted(wq[k]) /\ Distinct(wq[k])
      BY DEF WaitsMatch
    <3>3. ASSUME NEW q \in Procs, pl[q] = k
          PROVE  qs[q] = "PROCESS_LOCK" <=> ps[q] = "PROCESS_LOCK"
      BY <2>2, <3>3
    <3> QED
      BY <3>1, <3>2, <3>3
  <2> QED
    BY <2>1, <2>2
<1> QED
  BY <1>1 DEF WaitsMatch

\* A process that does not wait for a lock starts to wait for one.
LEMMA WaitsMore ==
  ASSUME NEW ps \in [Procs -> PStates], NEW wq \in [Locks -> Seq(Waiters)],
         NEW pl \in [Procs -> Locks], WaitsMatch(ps, wq, pl),
         NEW l \in Locks, NEW p \in Procs, ps[p] # "PROCESS_LOCK",
         NEW entry \in Waiters, entry.pid = p
  PROVE  WaitsMatch([ps EXCEPT ![p] = "PROCESS_LOCK"],
                    [wq EXCEPT ![l] = Insert(@, entry)], [pl EXCEPT ![p] = l])
<1> DEFINE qs == [ps EXCEPT ![p] = "PROCESS_LOCK"]
           vq == [wq EXCEPT ![l] = Insert(@, entry)]
           ql == [pl EXCEPT ![p] = l]
<1>1. \A e \in Waiters : e.key \in Int
  BY DEF Waiters
<1>2. /\ Pids(wq[l]) = {q \in Procs : ps[q] = "PROCESS_LOCK" /\ pl[q] = l}
      /\ Sorted(wq[l]) /\ Distinct(wq[l]) /\ wq[l] \in Seq(Waiters)
  BY DEF WaitsMatch
<1>3. /\ Sorted(Insert(wq[l], entry)) /\ Distinct(Insert(wq[l], entry))
      /\ Pids(Insert(wq[l], entry)) = Pids(wq[l]) \cup {p}
  <2>1. entry.pid \notin Pids(wq[l])
    BY <1>2
  <2>2. Sorted(Insert(wq[l], entry))
    BY <1>1, <1>2, InsertOrder, Zenon
  <2>3. Distinct(Insert(wq[l], entry))
    BY <1>2, <2>1, InsertDistinct, Zenon
  <2>4. Pids(Insert(wq[l], entry)) = Pids(wq[l]) \cup {entry.pid}
    <3>1. wq[l] \in Seq(Waiters)
      OBVIOUS
    <3> QED
      BY <3>1, InsertProperties, Zenon
  <2> QED
    BY <2>2, <2>3, <2>4
<1>4. ASSUME NEW k \in Locks
      PROVE  /\ Pids(vq[k]) = {q \in Procs : qs[q] = "PROCESS_LOCK" /\ ql[q] = k}
             /\ Sorted(vq[k]) /\ Distinct(vq[k])
  <2>1. CASE k = l
    BY <1>2, <1>3, <2>1
  <2>2. CASE k # l
    <3>1. vq[k] = wq[k]
      BY <2>2
    <3>2. /\ Pids(wq[k]) = {q \in Procs : ps[q] = "PROCESS_LOCK" /\ pl[q] = k}
          /\ Sorted(wq[k]) /\ Distinct(wq[k])
      BY DEF WaitsMatch
    <3>3. ASSUME NEW q \in Procs
          PROVE  (qs[q] = "PROCESS_LOCK" /\ ql[q] = k)
                 <=> (ps[q] = "PROCESS_LOCK" /\ pl[q] = k)
      BY <2>2
    <3> QED
      BY <3>1, <3>2, <3>3
  <2> QED
    BY <2>1, <2>2
<1> QED
  BY <1>4 DEF WaitsMatch

-------------------------------------------------------------------------------
(***************************************************************************)
(* Every process is where its state says.  The clock interrupt picks the   *)
(* due sleepers in one step and readies them in later ones: until then     *)
(* they must still sleep.  What lock() will return to a waiter is OK until *)
(* ldelete() says otherwise.                                               *)
(***************************************************************************)
QueuesInv ==
  /\ \A p \in Procs : pstate[p] = "PROCESS_LOCK" => plockret[p] = "OK"
  /\ \A p \in Procs : pstate[p] = "PRCURR" <=> p = currpid
  /\ ReadyMatches(pstate, rdy)
  /\ WaitsMatch(pstate, waitq, plock)
  /\ kpc = "wakeup" => kdue \subseteq Sleepers

\* The steps that move no process.
LEMMA QueuesFrame ==
  ASSUME QueuesInv, UNCHANGED <<pstate, rdy, currpid, waitq, plock, plockret>>,
         kpc' = "wakeup" => kdue' \subseteq Sleepers
  PROVE  QueuesInv' /\ WakeupStep
BY DEF QueuesInv, Sleepers, WakeupStep

\* A step that ends in resched().
LEMMA QueuesResched ==
  ASSUME ProcInv, NEW ps \in [Procs -> PStates], NEW rd \in Seq(ReadyEntries),
         NULLPROC \in Pids(rd) \/ (currpid = NULLPROC /\ ps[NULLPROC] = "PRCURR"),
         pinh' \in [Procs -> 0..MAXINT], Resched(ps, rd, pinh'),
         ReadyMatches(ps, rd), \A p \in Procs : ps[p] = "PRCURR" => p = currpid,
         WaitsMatch(ps, waitq', plock'), kpc' # "wakeup",
         \A p \in Procs : ps[p] = "PROCESS_LOCK" => plockret'[p] = "OK"
  PROVE  /\ QueuesInv'
         /\ \A p \in Procs : pstate'[p] = "PROCESS_LOCK" <=> ps[p] = "PROCESS_LOCK"
<1>1. /\ ReadyMatches(pstate', rdy')
      /\ \A p \in Procs : pstate'[p] = "PRCURR" <=> p = currpid'
      /\ \A p \in Procs : ps[p] \notin {"PRCURR", "PRREADY"} => pstate'[p] = ps[p]
      /\ \A p \in Procs : ps[p] \in {"PRCURR", "PRREADY"} =>
                            pstate'[p] \in {"PRCURR", "PRREADY"}
  <2>1. \A ih \in [Procs -> 0..MAXINT] : Resched(ps, rd, ih) =>
          /\ ReadyMatches(pstate', rdy')
          /\ \A p \in Procs : pstate'[p] = "PRCURR" <=> p = currpid'
          /\ \A p \in Procs : ps[p] \notin {"PRCURR", "PRREADY"} => pstate'[p] = ps[p]
          /\ \A p \in Procs : ps[p] \in {"PRCURR", "PRREADY"} =>
                                pstate'[p] \in {"PRCURR", "PRREADY"}
    BY ProcInvParts, ReschedMatches DEF NullCanRun
  <2> QED
    BY <2>1
<1>2. \A p \in Procs : pstate'[p] = "PROCESS_LOCK" <=> ps[p] = "PROCESS_LOCK"
  BY <1>1
<1>3. WaitsMatch(pstate', waitq', plock')
  <2>1. \A qs : (\A p \in Procs : qs[p] = "PROCESS_LOCK" <=> ps[p] = "PROCESS_LOCK")
                => WaitsMatch(qs, waitq', plock')
    BY WaitsKept, Zenon
  <2> QED
    BY <1>2, <2>1
<1>4. ReadyMatches(pstate, rdy)' /\ WaitsMatch(pstate, waitq, plock)'
  BY <1>1, <1>3 DEF ReadyMatches, WaitsMatch
<1> QED
  BY <1>1, <1>2, <1>4 DEF QueuesInv

\* A step that makes one process ready.
LEMMA QueuesReady ==
  ASSUME ProcInv, QueuesInv, NEW p \in Procs, pstate[p] \notin {"PRREADY", "PRCURR"},
         pstate' = [pstate EXCEPT ![p] = "PRREADY"],
         rdy' = Insert(rdy, ReadyEntry(pprio, p)), UNCHANGED currpid,
         WaitsMatch(pstate', waitq', plock'),
         \A q \in Procs \ {p} : plockret'[q] = plockret[q],
         kpc' = "wakeup" => kdue' \subseteq Sleepers \ {p}
  PROVE  QueuesInv'
<1>1. /\ pstate \in [Procs -> PStates] /\ rdy \in Seq(ReadyEntries)
      /\ pprio \in [Procs -> 0..MAXINT] /\ ReadyMatches(pstate, rdy)
      /\ \A q \in Procs : pstate[q] = "PRCURR" <=> q = currpid
  BY ProcInvParts DEF QueuesInv
<1>2. ReadyMatches(pstate', rdy')
  BY <1>1, ReadyOne
<1>3. \A q \in Procs : pstate'[q] = IF q = p THEN "PRREADY" ELSE pstate[q]
  BY <1>1
<1>4. Sleepers \ {p} \subseteq Sleepers'
  BY <1>3 DEF Sleepers
<1>5. ReadyMatches(pstate, rdy)' /\ WaitsMatch(pstate, waitq, plock)'
  BY <1>2 DEF ReadyMatches, WaitsMatch
<1>6. \A q \in Procs : pstate'[q] = "PRCURR" <=> q = currpid'
  BY <1>1, <1>3
<1>7. \A q \in Procs : pstate'[q] = "PROCESS_LOCK" => plockret'[q] = "OK"
  BY <1>3 DEF QueuesInv
<1> QED
  BY <1>4, <1>5, <1>6, <1>7 DEF QueuesInv

\* A step in which nobody ends a wait for a lock.
LEMMA NobodyWoken ==
  ASSUME \A p \in Procs : pstate[p] = "PROCESS_LOCK" => pstate'[p] = "PROCESS_LOCK"
  PROVE  WakeupStep
BY DEF WakeupStep

\* Every step keeps the processes where their states say, and ends a wait only
\* with the lock, after its deletion or by the death of the waiter.
LEMMA QueuesStep ==
  ASSUME TypeInv, CountsInv, QueuesInv, [Next]_vars
  PROVE  QueuesInv' /\ WakeupStep
<1>1. /\ ProcInv /\ TypeInv'
      /\ pstate \in [Procs -> PStates] /\ pprio \in [Procs -> 0..MAXINT]
      /\ pinh \in [Procs -> 0..MAXINT] /\ rdy \in Seq(ReadyEntries)
      /\ currpid \in Procs /\ NullCanRun(pstate, rdy, currpid)
      /\ waitq \in [Locks -> Seq(Waiters)] /\ plock \in [Procs -> Locks]
      /\ plockret \in [Procs -> {"OK", "DELETED"}]
      /\ process_holding_lock \in [Locks -> SUBSET Procs]
      /\ readers \in [Locks -> SUBSET Procs] /\ writers \in [Locks -> SUBSET Procs]
      /\ klock \in Locks /\ kdue \in SUBSET Procs
  <2>1. TypeInv'
    BY ProcInvStep, LockTypeStep, KernelTypeStep, HolderTypeStep DEF TypeInv
  <2> QED
    BY <2>1, ProcInvParts DEF TypeInv, LockTypeOK, KernelTypeOK, HolderTypeOK
<1>2. pinh' \in [Procs -> 0..MAXINT]
  BY <1>1 DEF TypeInv, ProcInv, ProcTypeOK
<1>3. /\ \A p \in Procs : pstate[p] = "PRCURR" <=> p = currpid
      /\ ReadyMatches(pstate, rdy) /\ WaitsMatch(pstate, waitq, plock)
      /\ kpc = "wakeup" => kdue \subseteq Sleepers
      /\ \A p \in Procs : pstate[p] = "PROCESS_LOCK" => plockret[p] = "OK"
  BY DEF QueuesInv
<1>4. pstate[currpid] = "PRCURR"
  BY <1>1, <1>3
<1>5. CASE UNCHANGED <<pstate, rdy, currpid, waitq, plock, plockret, kpc, kdue>>
  BY <1>3, <1>5, QueuesFrame
<1>6. CASE /\ UNCHANGED <<pstate, rdy, currpid, waitq, plock, plockret>>
           /\ kpc' # "wakeup"
  BY <1>6, QueuesFrame
<1>7. ASSUME NEW st \in PStates, st \notin {"PRCURR", "PRREADY", "PROCESS_LOCK"},
             currpid # NULLPROC, Resched([pstate EXCEPT ![currpid] = st], rdy, pinh'),
             UNCHANGED <<waitq, plock, plockret>>, kpc' # "wakeup"
      PROVE  QueuesInv' /\ WakeupStep
  <2> DEFINE ps == [pstate EXCEPT ![currpid] = st]
  <2>1. ps \in [Procs -> PStates] /\ \A p \in Procs : ps[p] = IF p = currpid THEN st ELSE pstate[p]
    BY <1>1, <1>7
  <2>2. NULLPROC \in Pids(rdy)
    BY <1>1, <1>7 DEF NullCanRun
  <2>3. ReadyMatches(ps, rdy)
    BY <1>1, <1>3, <1>4, <1>7, UnreadyOne
  <2> HIDE DEF ps
  <2>4. WaitsMatch(ps, waitq', plock')
    BY <1>3, <1>4, <1>7, <2>1, WaitsKept
  <2>5. \A p \in Procs : ps[p] = "PROCESS_LOCK" => plockret'[p] = "OK"
    BY <1>3, <1>7, <2>1
  <2>6. /\ QueuesInv'
        /\ \A p \in Procs : pstate'[p] = "PROCESS_LOCK" <=> ps[p] = "PROCESS_LOCK"
    BY <1>1, <1>2, <1>3, <1>7, <2>1, <2>2, <2>3, <2>4, <2>5, QueuesResched DEF ps
  <2> QED
    BY <1>4, <2>1, <2>6, NobodyWoken
<1>8. ASSUME Resched(pstate, rdy, pinh'), UNCHANGED <<waitq, plock, plockret>>,
             kpc' # "wakeup"
      PROVE  QueuesInv' /\ WakeupStep
  <2>1. /\ QueuesInv'
        /\ \A p \in Procs : pstate'[p] = "PROCESS_LOCK" <=> pstate[p] = "PROCESS_LOCK"
    BY <1>1, <1>2, <1>3, <1>8, QueuesResched DEF NullCanRun
  <2> QED
    BY <2>1, NobodyWoken
<1>9. ASSUME NEW p \in Procs, pstate[p] \notin {"PRREADY", "PRCURR"},
             NEW l \in Locks, pstate[p] = "PROCESS_LOCK" => plock[p] = l,
             NEW list, Sorted(list), Distinct(list), Pids(list) = Pids(waitq[l]) \ {p},
             waitq' = [waitq EXCEPT ![l] = list],
             pstate' = [pstate EXCEPT ![p] = "PRREADY"],
             rdy' = Insert(rdy, ReadyEntry(pprio, p)), UNCHANGED <<currpid, plock>>,
             \A q \in Procs \ {p} : plockret'[q] = plockret[q], kpc' # "wakeup"
      PROVE  QueuesInv'
  <2>1. WaitsMatch([pstate EXCEPT ![p] = "PRREADY"], [waitq EXCEPT ![l] = list], plock)
    BY <1>1, <1>3, <1>9, WaitsLess
  <2>2. WaitsMatch(pstate', waitq', plock')
    BY <1>9, <2>1
  <2> QED
    BY <1>1, <1>9, <2>2, QueuesReady
<1>10. CASE DrainOne
  <2> DEFINE p == Head(waitq[klock]).pid
  <2>1. /\ waitq[klock] \in Seq(Waiters) /\ waitq[klock] # <<>>
        /\ Sorted(waitq[klock]) /\ Distinct(waitq[klock])
    BY <1>1, <1>3, <1>10 DEF DrainOne, WaitsMatch
  <2>2. /\ p \in Pids(waitq[klock]) /\ Sorted(Tail(waitq[klock]))
        /\ Distinct(Tail(waitq[klock]))
        /\ Pids(Tail(waitq[klock])) = Pids(waitq[klock]) \ {p}
    BY <2>1, TailProperties
  <2>3. p \in Procs /\ pstate[p] = "PROCESS_LOCK" /\ plock[p] = klock
    BY <1>1, <1>3, <2>2 DEF WaitsMatch
  <2>4. /\ waitq' = [waitq EXCEPT ![klock] = Tail(waitq[klock])]
        /\ pstate' = [pstate EXCEPT ![p] = "PRREADY"]
        /\ rdy' = Insert(rdy, ReadyEntry(pprio, p))
        /\ plockret' = [plockret EXCEPT ![p] = "DELETED"]
        /\ UNCHANGED <<currpid, plock, lstate>> /\ kpc' # "wakeup" /\ kpc = "drain"
    BY <1>10 DEF DrainOne, kernelVars
  <2>5. lstate[klock] = "FREE"
    BY <2>4 DEF CountsInv
  <2> HIDE DEF p
  <2>6. \A q \in Procs \ {p} : plockret'[q] = plockret[q] /\ pstate'[q] = pstate[q]
    BY <1>1, <2>4
  <2>7. QueuesInv'
    BY <1>1, <1>9, <2>2, <2>3, <2>4, <2>6
  <2>8. pstate'[p] = "PRREADY" /\ plockret'[p] = "DELETED"
    BY <1>1, <2>3, <2>4
  <2>9. WakeupStep
    BY <2>3, <2>4, <2>5, <2>6, <2>8 DEF WakeupStep
  <2> QED
    BY <2>7, <2>9
<1>11. ASSUME kpc' # "wakeup", waitq[klock] # <<>>,
              GrantTopReader(klock) \/ GrantTopWriter(klock)
       PROVE  QueuesInv' /\ WakeupStep
  <2> DEFINE p    == Top(waitq[klock]).pid
             list == Dequeue(waitq[klock], p)
  <2>1. /\ waitq[klock] \in Seq(Waiters) /\ Sorted(waitq[klock]) /\ Distinct(waitq[klock])
    BY <1>1, <1>3 DEF WaitsMatch
  <2>2. p \in Pids(waitq[klock])
    <3>1. Len(waitq[klock]) \in DOMAIN waitq[klock]
      BY <1>11, <2>1, LenProperties, EmptySeq
    <3> QED
      BY <3>1 DEF Top, Pids
  <2>3. p \in Procs /\ pstate[p] = "PROCESS_LOCK" /\ plock[p] = klock
    BY <1>1, <1>3, <2>2 DEF WaitsMatch
  <2>4. GrantTop(klock)
    BY <1>11 DEF GrantTopReader, GrantTopWriter
  <2>5. /\ waitq' = [waitq EXCEPT ![klock] = list]
        /\ pstate' = [pstate EXCEPT ![p] = "PRREADY"]
        /\ rdy' = Insert(rdy, ReadyEntry(pprio, p))
        /\ process_holding_lock' = [process_holding_lock EXCEPT ![klock] = @ \cup {p}]
        /\ UNCHANGED <<currpid, plock, plockret>>
    BY <2>4 DEF GrantTop, HoldingWith
  <2>6. p \in readers'[klock] \cup writers'[klock]
    <3>1. \/ readers' = [readers EXCEPT ![klock] = @ \cup {p}]
          \/ writers' = [writers EXCEPT ![klock] = @ \cup {p}]
      BY <1>11 DEF GrantTopReader, GrantTopWriter
    <3> QED
      BY <1>1, <3>1
  <2> HIDE DEF p
  <2>7. Sorted(list) /\ Distinct(list) /\ Pids(list) = Pids(waitq[klock]) \ {p}
    BY <2>1, DequeueOrder, DequeueDistinct
  <2> HIDE DEF list
  <2>8. QueuesInv'
    BY <1>1, <1>9, <1>11, <2>3, <2>5, <2>7
  <2>9. /\ \A q \in Procs \ {p} : pstate'[q] = pstate[q]
        /\ pstate'[p] = "PRREADY" /\ p \in process_holding_lock'[klock]
        /\ plockret'[p] = "OK"
    BY <1>1, <1>3, <2>3, <2>5
  <2>10. WakeupStep
    BY <2>3, <2>5, <2>6, <2>9 DEF WakeupStep, Holders
  <2> QED
    BY <2>8, <2>10
<1>12. ASSUME NEW l \in Locks, NEW type \in Types, NEW priority \in WaitPrios,
              LockWait(l, type, priority)
       PROVE  QueuesInv' /\ WakeupStep
  <2> DEFINE entry == [pid |-> currpid, key |-> priority, type |-> type]
             ps    == [pstate EXCEPT ![currpid] = "PROCESS_LOCK"]
  <2>1. entry \in Waiters /\ entry.pid = currpid
    BY <1>1, TypesAssumption, PriosAssumption DEF Waiters
  <2>2. /\ waitq' = [waitq EXCEPT ![l] = Insert(@, entry)]
        /\ plock' = [plock EXCEPT ![currpid] = l]
        /\ plockret' = [plockret EXCEPT ![currpid] = "OK"]
        /\ Resched(ps, rdy, pinh')
        /\ currpid # NULLPROC /\ kpc' # "wakeup"
    BY <1>12 DEF LockWait, InUser, kernelVars
  <2> HIDE DEF entry
  <2>3. WaitsMatch(ps, waitq', plock')
    <3>1. WaitsMatch([pstate EXCEPT ![currpid] = "PROCESS_LOCK"],
                     [waitq EXCEPT ![l] = Insert(@, entry)],
                     [plock EXCEPT ![currpid] = l])
      BY <1>1, <1>3, <1>4, <2>1, WaitsMore
    <3> QED
      BY <2>2, <3>1
  <2>4. ReadyMatches(ps, rdy)
    BY <1>1, <1>3, <1>4, UnreadyOne
  <2>5. /\ ps \in [Procs -> PStates]
        /\ \A p \in Procs : ps[p] = IF p = currpid THEN "PROCESS_LOCK" ELSE pstate[p]
    BY <1>1 DEF PStates
  <2>6. NULLPROC \in Pids(rdy)
    BY <1>1, <2>2 DEF NullCanRun
  <2> HIDE DEF ps
  <2>7. \A p \in Procs : ps[p] = "PROCESS_LOCK" => plockret'[p] = "OK"
    BY <1>1, <1>3, <2>2, <2>5
  <2>8. \A p \in Procs : ps[p] = "PRCURR" => p = currpid
    BY <1>3, <2>5
  <2>9. /\ QueuesInv'
        /\ \A p \in Procs : pstate'[p] = "PROCESS_LOCK" <=> ps[p] = "PROCESS_LOCK"
    BY <1>1, <1>2, <2>2, <2>3, <2>4, <2>5, <2>6, <2>7, <2>8, QueuesResched
  <2> QED
    BY <2>5, <2>9, NobodyWoken
<1>13. CASE LockCall
  <2>1. CASE Lcreate \/ LcreateFull
    BY <1>5, <2>1 DEF Lcreate, LcreateFull, procVars, lockVars, kernelVars
  <2>2. ASSUME NEW l \in Locks, Ldelete(l) PROVE QueuesInv' /\ WakeupStep
    BY <1>6, <2>2 DEF Ldelete, procVars
  <2>3. ASSUME NEW l \in Locks, NEW type \in Types, NEW priority \in WaitPrios,
               LockGrant(l, type, priority)
        PROVE  QueuesInv' /\ WakeupStep
    <3>1. UNCHANGED <<pstate, rdy, currpid, waitq, plock, plockret, kpc, kdue>>
      BY <2>3 DEF LockGrant, kernelVars
    <3> QED
      BY <1>5, <3>1
  <2>4. ASSUME NEW ds \in ArgLists, Releaseall(ds) PROVE QueuesInv' /\ WakeupStep
    BY <1>6, <2>4 DEF Releaseall, procVars, lockVars
  <2> QED
    BY <1>12, <1>13, <2>1, <2>2, <2>3, <2>4 DEF LockCall
<1>14. ASSUME NEW prio \in Prios, Create(prio) \/ CreateBadPrio(prio)
       PROVE  QueuesInv' /\ WakeupStep
  <2>1. CASE CreateBadPrio(prio)
    BY <1>5, <2>1 DEF CreateBadPrio, lockVars, kernelVars
  <2>2. CASE Create(prio)
    <3>1. NewPid \in Procs /\ pstate[NewPid] = "PRFREE"
      <4>1. FreeSlots # {} /\ ProcTypeOK
        BY <1>1, <2>2, ProcInvParts DEF Create
      <4> QED
        BY <4>1, NewPidFree DEF FreeSlots, UserPids
    <3> DEFINE n  == NewPid
               ps == [pstate EXCEPT ![n] = "PRSUSP"]
    <3>2. /\ pstate' = ps /\ UNCHANGED <<rdy, currpid, waitq, plock, plockret>>
          /\ kpc' # "wakeup"
      BY <2>2 DEF Create, InUser, lockVars, kernelVars
    <3> HIDE DEF n
    <3>3. n \in Procs /\ pstate[n] = "PRFREE"
      BY <3>1 DEF n
    <3>4. ReadyMatches(ps, rdy)
      BY <1>1, <1>3, <3>3, UnreadyOne
    <3>5. \A p \in Procs : ps[p] = IF p = n THEN "PRSUSP" ELSE pstate[p]
      BY <1>1
    <3> HIDE DEF ps
    <3>6. WaitsMatch(ps, waitq, plock)
      BY <1>3, <3>3, <3>5, WaitsKept
    <3>7. ReadyMatches(pstate, rdy)' /\ WaitsMatch(pstate, waitq, plock)'
      BY <3>2, <3>4, <3>6 DEF ReadyMatches, WaitsMatch
    <3>8. QueuesInv'
      BY <1>3, <3>2, <3>3, <3>5, <3>7 DEF QueuesInv
    <3> QED
      BY <3>2, <3>3, <3>5, <3>8, NobodyWoken
  <2> QED
    BY <1>14, <2>1, <2>2
<1>15. ASSUME NEW p \in UserPids, Resume(p)
       PROVE  QueuesInv' /\ WakeupStep
  <2> DEFINE ps == [pstate EXCEPT ![p] = "PRREADY"]
             rd == Insert(rdy, ReadyEntry(pprio, p))
  <2>1. /\ p \in Procs /\ pstate[p] = "PRSUSP" /\ currpid # NULLPROC
        /\ Resched(ps, rd, pinh') /\ UNCHANGED <<waitq, plock, plockret>>
        /\ kpc' # "wakeup"
    BY <1>15 DEF Resume, InUser, UserPids, lockVars, kernelVars
  <2>2. /\ ps \in [Procs -> PStates]
        /\ \A q \in Procs : ps[q] = IF q = p THEN "PRREADY" ELSE pstate[q]
    BY <1>1 DEF PStates
  <2>3. ReadyMatches(ps, rd)
    BY <1>1, <1>3, <2>1, ReadyOne
  <2>4. rd \in Seq(ReadyEntries) /\ NULLPROC \in Pids(rd)
    <3>1. NULLPROC \in Pids(rdy)
      BY <1>1, <2>1 DEF NullCanRun
    <3>2. pprio \in [Procs -> 0..MAXINT] /\ rdy \in Seq(ReadyEntries)
      BY <1>1
    <3>3. /\ Insert(rdy, ReadyEntry(pprio, p)) \in Seq(ReadyEntries)
          /\ Pids(Insert(rdy, ReadyEntry(pprio, p))) = Pids(rdy) \cup {p}
      BY <2>1, <3>2, ReadyInsert
    <3> QED
      BY <3>1, <3>3
  <2> HIDE DEF ps, rd
  <2>5. WaitsMatch(ps, waitq', plock')
    BY <1>3, <2>1, <2>2, WaitsKept
  <2>6. \A q \in Procs : ps[q] = "PROCESS_LOCK" => plockret'[q] = "OK"
    BY <1>3, <2>1, <2>2
  <2>7. /\ QueuesInv'
        /\ \A q \in Procs : pstate'[q] = "PROCESS_LOCK" <=> ps[q] = "PROCESS_LOCK"
    BY <1>1, <1>2, <1>3, <2>1, <2>2, <2>3, <2>4, <2>5, <2>6, QueuesResched
  <2> QED
    BY <2>1, <2>2, <2>7, NobodyWoken
<1>16. ASSUME NEW p \in Procs, NEW st,
              st \notin {"PRCURR", "PRREADY", "PROCESS_LOCK"},
              pstate[p] \notin {"PRCURR", "PROCESS_LOCK"},
              pstate' = [pstate EXCEPT ![p] = st], rdy' = Dequeue(rdy, p),
              UNCHANGED <<currpid, waitq, plock, plockret>>, kpc' # "wakeup"
       PROVE  QueuesInv' /\ WakeupStep
  <2> DEFINE ps == [pstate EXCEPT ![p] = st]
             rd == Dequeue(rdy, p)
  <2>1. ReadyMatches(ps, rd)
    BY <1>1, <1>3, <1>16, UnreadyOne
  <2>2. \A q \in Procs : ps[q] = IF q = p THEN st ELSE pstate[q]
    BY <1>1
  <2>3. pstate' = ps /\ rdy' = rd
    BY <1>16
  <2> HIDE DEF ps, rd
  <2>4. WaitsMatch(ps, waitq, plock)
    BY <1>3, <1>16, <2>2, WaitsKept
  <2>5. ReadyMatches(pstate, rdy)' /\ WaitsMatch(pstate, waitq, plock)'
    BY <1>16, <2>1, <2>3, <2>4 DEF ReadyMatches, WaitsMatch
  <2>6. QueuesInv'
    BY <1>3, <1>16, <2>2, <2>3, <2>5 DEF QueuesInv
  <2> QED
    BY <1>16, <2>2, <2>3, <2>6, NobodyWoken
<1>17. ASSUME NEW p \in UserPids, Suspend(p)
       PROVE  QueuesInv' /\ WakeupStep
  <2>1. /\ p \in Procs /\ currpid # NULLPROC /\ kpc' # "wakeup"
        /\ UNCHANGED <<waitq, plock, plockret>>
    BY <1>17 DEF Suspend, InUser, UserPids, lockVars, kernelVars
  <2>2. CASE /\ pstate[p] = "PRREADY" /\ rdy' = Dequeue(rdy, p)
             /\ pstate' = [pstate EXCEPT ![p] = "PRSUSP"] /\ UNCHANGED currpid
    BY <1>16, <2>1, <2>2
  <2>3. CASE pstate[p] = "PRCURR" /\ Resched([pstate EXCEPT ![p] = "PRSUSP"], rdy, pinh')
    <3>1. p = currpid /\ "PRSUSP" \in PStates
      BY <1>3, <2>1, <2>3 DEF PStates
    <3> QED
      BY <1>7, <2>1, <2>3, <3>1
  <2> QED
    BY <1>17, <2>2, <2>3 DEF Suspend
<1>18. ASSUME NEW p \in UserPids, NEW prio \in Prios, Chprio(p, prio)
       PROVE  QueuesInv' /\ WakeupStep
  <2>1. /\ p \in Procs /\ pprio' \in [Procs -> 0..MAXINT] /\ kpc' # "wakeup"
        /\ UNCHANGED <<pstate, currpid, waitq, plock, plockret>>
        /\ rdy' = IF pstate[p] = "PRREADY"
                  THEN Insert(Dequeue(rdy, p), ReadyEntry(pprio', p)) ELSE rdy
    BY <1>1, <1>18, PriosAssumption DEF Chprio, InUser, UserPids, kernelVars
  <2>2. ReadyMatches(pstate, rdy')
    <3>1. CASE pstate[p] = "PRREADY"
      <4> DEFINE ps == [pstate EXCEPT ![p] = "PRSUSP"]
      <4>1. /\ ps \in [Procs -> PStates] /\ ps[p] = "PRSUSP"
            /\ [ps EXCEPT ![p] = "PRREADY"] = pstate
        BY <1>1, <2>1, <3>1 DEF PStates
      <4>2. ReadyMatches(ps, Dequeue(rdy, p))
        BY <1>1, <1>3, <2>1, UnreadyOne
      <4>3. Dequeue(rdy, p) \in Seq(ReadyEntries)
        BY <1>1, DequeueProperties
      <4> HIDE DEF ps
      <4>4. \A pp \in [Procs -> 0..MAXINT] :
              ReadyMatches([ps EXCEPT ![p] = "PRREADY"],
                           Insert(Dequeue(rdy, p), ReadyEntry(pp, p)))
        BY <2>1, <4>1, <4>2, <4>3, ReadyOne
      <4> QED
        BY <2>1, <3>1, <4>1, <4>4
    <3>2. CASE pstate[p] # "PRREADY"
      BY <1>3, <2>1, <3>2
    <3> QED
      BY <3>1, <3>2
  <2>3. ReadyMatches(pstate, rdy)'
    BY <2>1, <2>2 DEF ReadyMatches
  <2>4. QueuesInv'
    BY <1>3, <2>1, <2>3 DEF QueuesInv, WaitsMatch
  <2> QED
    BY <2>1, <2>4, NobodyWoken
<1>19. CASE KillSelf \/ Sleep
  <2>1. PICK st \in {"PRFREE", "PRSLEEP"} :
          Resched([pstate EXCEPT ![currpid] = st], rdy, pinh')
    BY <1>19 DEF KillSelf, Sleep
  <2>2. /\ currpid # NULLPROC /\ kpc' # "wakeup" /\ UNCHANGED <<waitq, plock, plockret>>
    BY <1>19 DEF KillSelf, KillEnds, Sleep, InUser, lockVars, kernelVars
  <2>3. st \in PStates /\ st \notin {"PRCURR", "PRREADY", "PROCESS_LOCK"}
    BY DEF PStates
  <2> QED
    BY <1>7, <2>1, <2>2, <2>3
<1>20. ASSUME NEW p \in UserPids, KillIdle(p)
       PROVE  QueuesInv' /\ WakeupStep
  BY <1>16, <1>20 DEF KillIdle, KillEnds, InUser, UserPids, kernelVars
<1>21. ASSUME NEW p \in UserPids, KillBlocked(p)
       PROVE  QueuesInv' /\ WakeupStep
  <2> DEFINE l    == plock[p]
             list == Dequeue(waitq[l], p)
             ps   == [pstate EXCEPT ![p] = "PRFREE"]
  <2>1. /\ p \in Procs /\ l \in Locks /\ pstate[p] \in {"PROCESS_LOCK", "PRSLEEP"}
        /\ pstate' = ps /\ waitq' = [waitq EXCEPT ![l] = list]
        /\ UNCHANGED <<rdy, currpid, plock, plockret>> /\ kpc' # "wakeup"
    BY <1>1, <1>21 DEF KillBlocked, KillEnds, InUser, UserPids, kernelVars
  <2>2. waitq[l] \in Seq(Waiters) /\ Sorted(waitq[l]) /\ Distinct(waitq[l])
    BY <1>1, <1>3, <2>1 DEF WaitsMatch
  <2>3. Sorted(list) /\ Distinct(list) /\ Pids(list) = Pids(waitq[l]) \ {p}
    BY <2>2, DequeueOrder, DequeueDistinct
  <2> HIDE DEF list
  <2>4. WaitsMatch(ps, [waitq EXCEPT ![l] = list], plock)
    BY <1>1, <1>3, <2>1, <2>3, WaitsLess
  <2>5. ReadyMatches(ps, rdy)
    BY <1>1, <1>3, <2>1, UnreadyOne
  <2>6. \A q \in Procs : ps[q] = IF q = p THEN "PRFREE" ELSE pstate[q]
    BY <1>1
  <2> HIDE DEF ps
  <2>7. ReadyMatches(pstate, rdy)' /\ WaitsMatch(pstate, waitq, plock)'
    BY <2>1, <2>4, <2>5 DEF ReadyMatches, WaitsMatch
  <2>8. QueuesInv'
    BY <1>3, <2>1, <2>6, <2>7 DEF QueuesInv
  <2>9. WakeupStep
    BY <2>1, <2>6 DEF WakeupStep
  <2> QED
    BY <2>8, <2>9
<1>22. ASSUME NEW p \in kdue, WakeOne(p)
       PROVE  QueuesInv' /\ WakeupStep
  <2>1. /\ kpc = "wakeup" /\ kdue' = kdue \ {p} /\ rdy' = Insert(rdy, ReadyEntry(pprio, p))
        /\ pstate' = [pstate EXCEPT ![p] = "PRREADY"]
        /\ UNCHANGED <<currpid, waitq, plock, plockret>>
    BY <1>22 DEF WakeOne, lockVars
  <2>2. p \in Procs /\ pstate[p] = "PRSLEEP" /\ kdue' \subseteq Sleepers \ {p}
    BY <1>1, <1>3, <1>22, <2>1 DEF Sleepers
  <2>3. \A q \in Procs : pstate'[q] = IF q = p THEN "PRREADY" ELSE pstate[q]
    BY <1>1, <2>1
  <2>4. WaitsMatch(pstate', waitq', plock')
    <3> DEFINE ps == [pstate EXCEPT ![p] = "PRREADY"]
    <3>1. \A q \in Procs : ps[q] = "PROCESS_LOCK" <=> pstate[q] = "PROCESS_LOCK"
      BY <1>1, <2>2
    <3> HIDE DEF ps
    <3>2. WaitsMatch(ps, waitq, plock)
      BY <1>3, <3>1, WaitsKept
    <3> QED
      BY <2>1, <3>2 DEF ps
  <2>5. QueuesInv'
    BY <1>1, <2>1, <2>2, <2>4, QueuesReady
  <2> QED
    BY <2>2, <2>3, <2>5, NobodyWoken
<1>23. CASE ProcessCall
  BY <1>14, <1>15, <1>17, <1>18, <1>19, <1>20, <1>21, <1>23 DEF ProcessCall
<1>24. CASE KernelStep
  <2>1. CASE DrainEnd
    <3>1. Resched(pstate, rdy, pinh') /\ UNCHANGED <<waitq, plock, plockret>> /\ kpc' # "wakeup"
      BY <2>1 DEF DrainEnd
    <3> QED
      BY <1>8, <3>1
  <2>2. CASE WakeEnd
    <3>1. Resched(pstate, rdy, pinh') /\ UNCHANGED <<waitq, plock, plockret>> /\ kpc' # "wakeup"
      BY <2>2 DEF WakeEnd, lockVars
    <3> QED
      BY <1>8, <3>1
  <2>3. CASE ReleaseEnd
    <3>1. /\ kpc' # "wakeup" /\ UNCHANGED <<waitq, plock, plockret>>
          /\ UNCHANGED <<pstate, rdy, currpid>> \/ Resched(pstate, rdy, pinh')
      BY <2>3 DEF ReleaseEnd, lockVars
    <3> QED
      BY <1>6, <1>8, <3>1
  <2>4. CASE ReleaseBad \/ ReleaseFree \/ ReleaseOne
    <3>1. UNCHANGED <<pstate, rdy, currpid, waitq, plock, plockret>> /\ kpc' # "wakeup"
      BY <2>4 DEF ReleaseBad, ReleaseFree, ReleaseOne, procVars, lockVars
    <3> QED
      BY <1>6, <3>1
  <2>5. CASE ChooseNobody \/ ChooseReaders \/ AdmitEnd \/ AdmitSpin
    <3>1. UNCHANGED <<pstate, rdy, currpid, waitq, plock, plockret>> /\ kpc' # "wakeup"
      BY <2>5 DEF ChooseNobody, ChooseReaders, AdmitEnd, AdmitSpin, procVars, lockVars,
                  vars, kernelVars
    <3> QED
      BY <1>6, <3>1
  <2>6. CASE ChooseWriter
    BY <1>11, <2>6 DEF ChooseWriter, WriterNext
  <2>7. CASE AdmitReader
    BY <1>11, <2>7 DEF AdmitReader
  <2> QED
    BY <1>10, <1>22, <1>24, <2>1, <2>2, <2>3, <2>4, <2>5, <2>6, <2>7 DEF KernelStep
<1>25. CASE ClockStep
  <2>1. CASE Preempt
    <3>1. Resched(pstate, rdy, pinh') /\ UNCHANGED <<waitq, plock, plockret>> /\ kpc' # "wakeup"
      BY <2>1 DEF Preempt, ClockTicks, lockVars, kernelVars
    <3> QED
      BY <1>8, <3>1
  <2>2. ASSUME NEW due \in SUBSET Sleepers, ClockDue(due)
        PROVE  QueuesInv' /\ WakeupStep
    <3>1. /\ UNCHANGED <<pstate, rdy, currpid, waitq, plock, plockret>>
          /\ kdue' \subseteq Sleepers
      BY <2>2 DEF ClockDue, procVars, lockVars
    <3> QED
      BY <3>1, QueuesFrame
  <2> QED
    BY <1>25, <2>1, <2>2 DEF ClockStep
<1>26. CASE UNCHANGED vars
  BY <1>5, <1>26 DEF vars, procVars, lockVars, kernelVars
<1> QED
  BY <1>13, <1>23, <1>24, <1>25, <1>26 DEF Next

\* QueuesInv is an invariant.
LEMMA QueuesInvariant == Spec => []QueuesInv
<1>1. Init => QueuesInv
  <2> SUFFICES ASSUME Init PROVE QueuesInv
    OBVIOUS
  <2>1. MAIN \in Procs /\ MAIN # NULLPROC
    BY NPROCAssumption DEF MAIN, NULLPROC, Procs
  <2>2. \A p \in Procs : /\ pstate[p] = "PRCURR" <=> p = MAIN
                         /\ pstate[p] = "PRREADY" <=> p = NULLPROC
                         /\ pstate[p] # "PROCESS_LOCK"
    <3>1. pstate = [p \in Procs |-> CASE p = NULLPROC -> "PRREADY"
                                      [] p = MAIN -> "PRCURR"
                                      [] p \in Existing \ {MAIN} -> "PRSUSP"
                                      [] OTHER -> "PRFREE"]
      BY DEF Init
    <3>2. ASSUME NEW p \in Procs
          PROVE  \/ p = NULLPROC /\ pstate[p] = "PRREADY"
                 \/ p = MAIN /\ pstate[p] = "PRCURR"
                 \/ p \notin {NULLPROC, MAIN} /\ pstate[p] \in {"PRSUSP", "PRFREE"}
      <4>1. NULLPROC \notin Existing
        BY InitPrioAssumption, NPROCAssumption DEF Existing, NULLPROC
      <4>2. CASE p = NULLPROC
        BY <2>1, <3>1, <4>1, <4>2
      <4>3. CASE p # NULLPROC
        BY <2>1, <3>1, <4>3
      <4> QED
        BY <4>2, <4>3
    <3> QED
      BY <2>1, <3>2
  <2>3. ReadyMatches(pstate, rdy)
    <3>1. rdy = <<[pid |-> NULLPROC, key |-> 0]>>
      BY DEF Init
    <3>2. Pids(rdy) = {NULLPROC} /\ Sorted(rdy) /\ Distinct(rdy)
      BY <3>1 DEF Pids, Sorted, Distinct
    <3> QED
      BY <2>2, <3>2, NullIsProc DEF ReadyMatches
  <2>4. WaitsMatch(pstate, waitq, plock)
    BY <2>2, EmptyList DEF Init, WaitsMatch
  <2> QED
    BY <2>2, <2>3, <2>4 DEF Init, QueuesInv
<1>2. TypeInv /\ CountsInv /\ QueuesInv /\ [Next]_vars => QueuesInv'
  BY QueuesStep
<1> QED
  BY <1>1, <1>2, TypeInvariant, CountsInvariant, PTL DEF Spec

\* In every reachable state the processes are linked where their states say:
\* the ready list and the wait lists hold exactly the ready and the blocked
\* processes, each once and in key order.
THEOREM QueuesCorrect == Spec => []QueuesMatchStates
<1>1. QueuesInv => QueuesMatchStates
  BY DEF QueuesInv, QueuesMatchStates, ReadyMatches, WaitsMatch
<1> QED
  BY <1>1, QueuesInvariant, PTL

\* A process leaves a wait list only with the lock, after the deletion of the
\* lock or by being killed, and lock() will return accordingly.
THEOREM WakeupsJustified == Spec => WakeupJustified
<1>1. TypeInv /\ CountsInv /\ QueuesInv /\ [Next]_vars => [WakeupStep]_vars
  BY QueuesStep
<1> QED
  BY <1>1, TypeInvariant, CountsInvariant, QueuesInvariant, PTL DEF Spec, WakeupJustified

-------------------------------------------------------------------------------
(***************************************************************************)
(* Who gets the CPU.                                                       *)
(***************************************************************************)

\* The CPU changes hands only in resched(), which finds the ready list in
\* accord with the states, whatever its caller has just done to them.
LEMMA OnlyReschedSwitches ==
  ASSUME TypeInv, QueuesInv, [Next]_vars, currpid' # currpid
  PROVE  /\ UNCHANGED pprio
         /\ \E ps \in [Procs -> PStates], rd \in Seq(ReadyEntries) :
              /\ NullCanRun(ps, rd, currpid) /\ ReadyMatches(ps, rd)
              /\ Resched(ps, rd, pinh')
<1>1. /\ ProcInv /\ pstate \in [Procs -> PStates] /\ rdy \in Seq(ReadyEntries)
      /\ pprio \in [Procs -> 0..MAXINT]
      /\ currpid \in Procs /\ NullCanRun(pstate, rdy, currpid)
      /\ ReadyMatches(pstate, rdy) /\ pstate[currpid] = "PRCURR"
  BY ProcInvParts DEF TypeInv, QueuesInv
<1>2. ASSUME Resched(pstate, rdy, pinh')
      PROVE  \E ps \in [Procs -> PStates], rd \in Seq(ReadyEntries) :
               /\ NullCanRun(ps, rd, currpid) /\ ReadyMatches(ps, rd)
               /\ Resched(ps, rd, pinh')
  BY <1>1, <1>2
<1>3. ASSUME NEW st \in PStates, st # "PRREADY", currpid # NULLPROC,
             Resched([pstate EXCEPT ![currpid] = st], rdy, pinh')
      PROVE  \E ps \in [Procs -> PStates], rd \in Seq(ReadyEntries) :
               /\ NullCanRun(ps, rd, currpid) /\ ReadyMatches(ps, rd)
               /\ Resched(ps, rd, pinh')
  <2> DEFINE ps == [pstate EXCEPT ![currpid] = st]
  <2>1. ps \in [Procs -> PStates]
    BY <1>1, <1>3
  <2>2. NullCanRun(ps, rdy, currpid)
    BY <1>1, <1>3 DEF NullCanRun
  <2>3. ReadyMatches(ps, rdy)
    BY <1>1, <1>3, UnreadyOne
  <2> HIDE DEF ps
  <2> QED
    BY <1>1, <1>3, <2>1, <2>2, <2>3 DEF ps
<1>4. CASE LockCall
  <2>1. PICK l \in Locks, type \in Types, priority \in WaitPrios :
          LockWait(l, type, priority)
    BY <1>4 DEF LockCall, Lcreate, LcreateFull, Ldelete, LockGrant, Releaseall, procVars
  <2>2. Resched([pstate EXCEPT ![currpid] = "PROCESS_LOCK"], rdy, pinh')
    BY <2>1 DEF LockWait
  <2>3. currpid # NULLPROC /\ UNCHANGED pprio /\ "PROCESS_LOCK" \in PStates
    BY <2>1 DEF LockWait, InUser, PStates
  <2> QED
    BY <1>3, <2>2, <2>3
<1>5. CASE ProcessCall
  <2>1. ASSUME NEW p \in UserPids, Resume(p)
        PROVE  /\ UNCHANGED pprio
               /\ \E ps \in [Procs -> PStates], rd \in Seq(ReadyEntries) :
                    /\ NullCanRun(ps, rd, currpid) /\ ReadyMatches(ps, rd)
                    /\ Resched(ps, rd, pinh')
    <3> DEFINE ps == [pstate EXCEPT ![p] = "PRREADY"]
               rd == Insert(rdy, ReadyEntry(pprio, p))
    <3>1. /\ p \in Procs /\ pstate[p] = "PRSUSP" /\ currpid # NULLPROC
          /\ Resched(ps, rd, pinh') /\ UNCHANGED pprio
      BY <2>1 DEF Resume, InUser, UserPids
    <3>2. ps \in [Procs -> PStates]
      BY <1>1 DEF PStates
    <3>3. ReadyMatches(ps, rd)
      BY <1>1, <3>1, ReadyOne
    <3>4. rd \in Seq(ReadyEntries) /\ NullCanRun(ps, rd, currpid)
      BY <1>1, <3>1, ReadyInsert DEF NullCanRun
    <3> HIDE DEF ps, rd
    <3> QED
      BY <3>1, <3>2, <3>3, <3>4
  <2>2. ASSUME NEW p \in UserPids, Suspend(p)
        PROVE  /\ UNCHANGED pprio /\ currpid # NULLPROC
               /\ Resched([pstate EXCEPT ![currpid] = "PRSUSP"], rdy, pinh')
    <3>1. /\ pstate[p] = "PRCURR" /\ Resched([pstate EXCEPT ![p] = "PRSUSP"], rdy, pinh')
          /\ currpid # NULLPROC /\ UNCHANGED pprio
      BY <2>2 DEF Suspend, InUser
    <3>2. p = currpid
      BY <3>1 DEF QueuesInv, UserPids
    <3> QED
      BY <3>1, <3>2
  <2>3. ASSUME KillSelf \/ Sleep
        PROVE  /\ UNCHANGED pprio /\ currpid # NULLPROC
               /\ \E st \in {"PRFREE", "PRSLEEP"} :
                    Resched([pstate EXCEPT ![currpid] = st], rdy, pinh')
    BY <2>3 DEF KillSelf, KillEnds, Sleep, InUser
  <2>4. \/ KillSelf \/ Sleep
        \/ \E p \in UserPids : Resume(p) \/ Suspend(p)
    BY <1>5 DEF ProcessCall, Create, CreateBadPrio, Chprio, KillIdle, KillBlocked
  <2>5. {"PRFREE", "PRSLEEP", "PRSUSP"} \subseteq PStates
    BY DEF PStates
  <2> QED
    BY <1>3, <2>1, <2>2, <2>3, <2>4, <2>5
<1>6. CASE KernelStep
  <2>1. ASSUME NEW l, GrantTopReader(l) \/ GrantTopWriter(l)
        PROVE  FALSE
    BY <2>1 DEF GrantTopReader, GrantTopWriter, GrantTop
  <2>2. DrainEnd \/ ReleaseEnd \/ WakeEnd
    BY <1>6, <2>1 DEF KernelStep, DrainOne, ReleaseBad, ReleaseFree, ReleaseOne,
       ChooseNobody, ChooseWriter, ChooseReaders, AdmitReader, AdmitEnd, AdmitSpin,
       WakeOne, procVars, vars
  <2>3. Resched(pstate, rdy, pinh') /\ UNCHANGED pprio
    BY <2>2 DEF DrainEnd, ReleaseEnd, WakeEnd
  <2> QED
    BY <1>2, <2>3
<1>7. CASE ClockStep
  <2>1. Resched(pstate, rdy, pinh') /\ UNCHANGED pprio
    BY <1>7 DEF ClockStep, ClockDue, Preempt, procVars
  <2> QED
    BY <1>2, <2>1
<1> QED
  BY <1>4, <1>5, <1>6, <1>7 DEF Next, vars, procVars

\* The process that gets the CPU has the largest scheduling priority.
LEMMA SwitchStepHolds ==
  ASSUME TypeInv, QueuesInv, [Next]_vars
  PROVE  SwitchStep
<1> SUFFICES ASSUME currpid' # currpid
             PROVE  \A p \in Procs : pstate'[p] = "PRREADY" =>
                      Eff(pinh, p)' <= Eff(pinh, currpid)'
  BY DEF SwitchStep
<1>1. UNCHANGED pprio
  BY OnlyReschedSwitches
<1>2. PICK ps \in [Procs -> PStates], rd \in Seq(ReadyEntries) :
        /\ NullCanRun(ps, rd, currpid) /\ ReadyMatches(ps, rd)
        /\ Resched(ps, rd, pinh')
  BY OnlyReschedSwitches
<1>3. ProcTypeOK /\ pinh' \in [Procs -> 0..MAXINT]
  BY ProcInvStep DEF TypeInv, ProcInv, ProcTypeOK
<1>4. \A ih \in [Procs -> 0..MAXINT] : Resched(ps, rd, ih) =>
        \A p \in Procs : pstate'[p] = "PRREADY" => Eff(ih, p) <= Eff(ih, currpid')
  BY <1>2, <1>3, ReschedPicksHighest
<1>5. \A p \in Procs : pstate'[p] = "PRREADY" => Eff(pinh', p) <= Eff(pinh', currpid')
  BY <1>2, <1>3, <1>4
<1> QED
  BY <1>1, <1>5 DEF Eff

\* resched() gives the CPU to a process of the largest scheduling priority,
\* inherited priorities included.
THEOREM HighestRuns == Spec => SwitchPicksHighest
<1>1. TypeInv /\ QueuesInv /\ [Next]_vars => [SwitchStep]_vars
  BY SwitchStepHolds
<1> QED
  BY <1>1, TypeInvariant, QueuesInvariant, PTL DEF Spec, SwitchPicksHighest

-------------------------------------------------------------------------------
(***************************************************************************)
(* The priority of the waiters.                                            *)
(***************************************************************************)

\* What change_lck_proc_prio() computes bounds the priority of every waiter.
LEMMA WaitersPrioCovers ==
  ASSUME NEW pp \in [Procs -> 0..MAXINT], NEW list \in Seq(Waiters),
         NEW p \in Pids(list)
  PROVE  pp[p] <= WaitersPrio(pp, list)
<1> DEFINE S == {pp[list[i].pid] : i \in DOMAIN list} \cup {-1}
<1>1. \A i \in DOMAIN list : list[i].pid \in Procs
  <2>1. list \in [1..Len(list) -> Waiters] /\ DOMAIN list = 1..Len(list)
    BY LenProperties
  <2> QED
    BY <2>1 DEF Waiters
<1>2. MAXINT \in Int /\ MAXINT >= 0
  BY MAXINTAssumption
<1>3. S \in SUBSET Int /\ S # {} /\ \A y \in S : y <= MAXINT
  BY <1>1, <1>2
<1>4. pp[p] \in S
  BY DEF Pids
<1>5. \A y \in S : y <= Max(S)
  <2> HIDE DEF S
  <2> QED
    BY <1>2, <1>3, MaxOfBounded, Zenon
<1>6. pp[p] <= Max(S)
  <2> HIDE DEF S
  <2> QED
    BY <1>4, <1>5
<1> QED
  BY <1>6 DEF WaitersPrio

\* lprio is computed from a list that names every process that waits
\* afterwards, and no waiter of another lock changes its priority.
LEMMA LprioComputed ==
  ASSUME LprioCoversWaiters, waitq \in [Locks -> Seq(Waiters)],
         lprio \in [Locks -> -1..MAXINT], pprio' \in [Procs -> 0..MAXINT],
         NEW l \in Locks, NEW list, NEW over \in Seq(Waiters),
         Pids(list) \subseteq Pids(over),
         waitq' = [waitq EXCEPT ![l] = list],
         lprio' = [lprio EXCEPT ![l] = WaitersPrio(pprio', over)],
         \A k \in Locks \ {l} : \A p \in Pids(waitq[k]) : pprio'[p] = pprio[p]
  PROVE  LprioCoversWaiters'
<1>1. \A pp \in [Procs -> 0..MAXINT] : \A p \in Pids(over) : pp[p] <= WaitersPrio(pp, over)
  BY WaitersPrioCovers
<1> SUFFICES ASSUME NEW k \in Locks, NEW p \in Pids(waitq'[k])
             PROVE  pprio'[p] <= lprio'[k]
  BY DEF LprioCoversWaiters
<1>2. CASE k = l
  <2>1. waitq'[k] = list /\ lprio'[k] = WaitersPrio(pprio', over)
    BY <1>2
  <2> QED
    BY <1>1, <2>1
<1>3. CASE k # l
  <2>1. waitq'[k] = waitq[k] /\ lprio'[k] = lprio[k]
    BY <1>3
  <2>2. pprio[p] <= lprio[k] /\ pprio'[p] = pprio[p]
    BY <1>3, <2>1 DEF LprioCoversWaiters
  <2> QED
    BY <2>1, <2>2
<1> QED
  BY <1>2, <1>3

\* Every step keeps lprio above the priorities of the waiters.
LEMMA LprioStep ==
  ASSUME TypeInv, QueuesInv, LprioCoversWaiters, [Next]_vars
  PROVE  LprioCoversWaiters'
<1>1. /\ pprio \in [Procs -> 0..MAXINT] /\ pprio' \in [Procs -> 0..MAXINT]
      /\ waitq \in [Locks -> Seq(Waiters)] /\ lprio \in [Locks -> -1..MAXINT]
      /\ plock \in [Procs -> Locks] /\ klock \in Locks
      /\ WaitsMatch(pstate, waitq, plock)
  BY ProcInvStep DEF TypeInv, ProcInv, ProcTypeOK, LockTypeOK, KernelTypeOK, QueuesInv
<1>2. CASE UNCHANGED <<pprio, waitq, lprio>>
  BY <1>2 DEF LprioCoversWaiters
<1>3. CASE DrainOne
  <2>1. /\ waitq[klock] \in Seq(Waiters) /\ waitq[klock] # <<>>
        /\ waitq' = [waitq EXCEPT ![klock] = Tail(@)] /\ UNCHANGED <<pprio, lprio>>
    BY <1>1, <1>3 DEF DrainOne
  <2>2. Pids(Tail(waitq[klock])) \subseteq Pids(waitq[klock])
    BY <2>1, TailProperties
  <2>3. \A k \in Locks : Pids(waitq'[k]) \subseteq Pids(waitq[k])
    BY <1>1, <2>1, <2>2
  <2> QED
    BY <2>1, <2>3 DEF LprioCoversWaiters
<1>4. ASSUME NEW l \in Locks, NEW type \in Types, NEW priority \in WaitPrios,
             LockWait(l, type, priority)
      PROVE  LprioCoversWaiters'
  <2> DEFINE entry == [pid |-> currpid, key |-> priority, type |-> type]
             wq    == [waitq EXCEPT ![l] = Insert(@, entry)]
  <2>1. entry \in Waiters
    BY ProcInvParts, TypesAssumption, PriosAssumption DEF TypeInv, Waiters
  <2>2. waitq' = wq /\ lprio' = [lprio EXCEPT ![l] = WaitersPrio(pprio, wq[l])]
        /\ UNCHANGED pprio
    BY <1>4 DEF LockWait
  <2> HIDE DEF entry
  <2>3. Insert(waitq[l], entry) \in Seq(Waiters)
    BY <1>1, <2>1, InsertProperties
  <2>4. wq[l] = Insert(waitq[l], entry)
    BY <1>1
  <2> HIDE DEF wq
  <2>5. waitq' = [waitq EXCEPT ![l] = wq[l]]
    BY <2>2 DEF wq
  <2> QED
    BY <1>1, <2>2, <2>3, <2>4, <2>5, LprioComputed
<1>5. ASSUME GrantTop(klock)
      PROVE  LprioCoversWaiters'
  <2>1. PICK p : /\ waitq' = [waitq EXCEPT ![klock] = Dequeue(@, p)]
                 /\ lprio' = [lprio EXCEPT ![klock] = WaitersPrio(pprio, waitq[klock])]
                 /\ UNCHANGED pprio
    BY <1>5 DEF GrantTop
  <2>2. Pids(Dequeue(waitq[klock], p)) \subseteq Pids(waitq[klock])
    BY <1>1, DequeueProperties
  <2> QED
    BY <1>1, <2>1, <2>2, LprioComputed
<1>6. ASSUME NEW p \in UserPids, NEW prio \in Prios, Chprio(p, prio)
      PROVE  LprioCoversWaiters'
  <2>1. /\ p \in Procs /\ pprio' = [pprio EXCEPT ![p] = prio] /\ UNCHANGED waitq
        /\ IF pstate[p] = "PROCESS_LOCK"
           THEN lprio' = [lprio EXCEPT ![plock[p]] = WaitersPrio(pprio', waitq[plock[p]])]
           ELSE UNCHANGED lprio
    BY <1>6 DEF Chprio, UserPids
  <2>2. \A q \in Procs \ {p} : pprio'[q] = pprio[q]
    BY <1>1, <2>1
  <2>3. CASE pstate[p] = "PROCESS_LOCK"
    <3>1. \A k \in Locks \ {plock[p]} : p \notin Pids(waitq[k])
      BY <1>1 DEF WaitsMatch
    <3>2. \A k \in Locks : Pids(waitq[k]) \subseteq Procs
      BY <1>1 DEF WaitsMatch
    <3>3. \A k \in Locks \ {plock[p]} : \A q \in Pids(waitq[k]) : pprio'[q] = pprio[q]
      BY <2>2, <3>1, <3>2
    <3>4. waitq' = [waitq EXCEPT ![plock[p]] = waitq[plock[p]]]
      BY <1>1, <2>1
    <3>5. /\ plock[p] \in Locks /\ waitq[plock[p]] \in Seq(Waiters)
          /\ lprio' = [lprio EXCEPT ![plock[p]] = WaitersPrio(pprio', waitq[plock[p]])]
      BY <1>1, <2>1, <2>3
    <3> QED
      BY <1>1, <3>3, <3>4, <3>5, LprioComputed
  <2>4. CASE pstate[p] # "PROCESS_LOCK"
    <3>1. \A k \in Locks : p \notin Pids(waitq[k]) /\ Pids(waitq[k]) \subseteq Procs
      BY <1>1, <2>4 DEF WaitsMatch
    <3> QED
      BY <2>1, <2>2, <2>4, <3>1 DEF LprioCoversWaiters
  <2> QED
    BY <2>3, <2>4
<1>7. ASSUME NEW prio \in Prios, Create(prio) PROVE LprioCoversWaiters'
  <2>1. FreeSlots # {} /\ ProcTypeOK
    BY <1>7, ProcInvParts DEF Create, TypeInv
  <2>2. NewPid \in Procs /\ pstate[NewPid] = "PRFREE"
    BY <2>1, NewPidFree DEF FreeSlots, UserPids
  <2>3. pprio' = [pprio EXCEPT ![NewPid] = prio] /\ UNCHANGED <<waitq, lprio>>
    BY <1>7 DEF Create, lockVars
  <2>4. \A k \in Locks : NewPid \notin Pids(waitq[k]) /\ Pids(waitq[k]) \subseteq Procs
    BY <1>1, <2>2 DEF WaitsMatch
  <2>5. \A q \in Procs : q # NewPid => pprio'[q] = pprio[q]
    BY <1>1, <2>3
  <2> QED
    BY <2>3, <2>4, <2>5 DEF LprioCoversWaiters
<1>8. ASSUME NEW p \in UserPids, KillBlocked(p) PROVE LprioCoversWaiters'
  <2> DEFINE l == plock[p]
             list == Dequeue(waitq[l], p)
  <2>1. l \in Locks /\ waitq[l] \in Seq(Waiters)
    BY <1>1 DEF UserPids
  <2>2. list \in Seq(Waiters)
    BY <2>1, DequeueProperties
  <2>3. waitq' = [waitq EXCEPT ![l] = list] /\ UNCHANGED pprio
    BY <1>8 DEF KillBlocked, KillEnds
  <2>4. lprio' = [lprio EXCEPT ![l] = WaitersPrio(pprio, waitq'[l])] /\ waitq'[l] = list
    BY <1>1, <1>8, <2>1, <2>3 DEF KillBlocked
  <2> HIDE DEF list, l
  <2> QED
    BY <1>1, <2>1, <2>2, <2>3, <2>4, LprioComputed
<1>9. CASE LockCall
  <2>1. ASSUME NEW l \in Locks, NEW type \in Types, NEW priority \in WaitPrios,
               LockGrant(l, type, priority)
        PROVE  UNCHANGED <<pprio, waitq, lprio>>
    BY <2>1 DEF LockGrant
  <2> QED
    BY <1>2, <1>4, <1>9, <2>1
       DEF LockCall, Lcreate, LcreateFull, Ldelete, Releaseall, procVars, lockVars
<1>10. CASE ProcessCall
  BY <1>2, <1>6, <1>7, <1>8, <1>10
     DEF ProcessCall, CreateBadPrio, Resume, Suspend, KillSelf, KillIdle, KillEnds,
         Sleep, lockVars
<1>11. CASE KernelStep
  BY <1>2, <1>3, <1>5, <1>11
     DEF KernelStep, DrainEnd, ReleaseBad, ReleaseFree, ReleaseOne, ReleaseEnd,
         ChooseNobody, ChooseWriter, GrantTopWriter, ChooseReaders, AdmitReader,
         GrantTopReader, AdmitEnd, AdmitSpin, WakeOne, WakeEnd, procVars, lockVars, vars
<1>12. CASE ClockStep
  BY <1>2, <1>12 DEF ClockStep, ClockDue, Preempt, procVars, lockVars
<1> QED
  BY <1>2, <1>9, <1>10, <1>11, <1>12 DEF Next, vars, procVars, lockVars

\* lprio never understates the priority of a process on the wait list, from
\* which the holders inherit.
THEOREM LprioCorrect == Spec => []LprioCoversWaiters
<1>1. Init => LprioCoversWaiters
  BY EmptyList DEF Init, LprioCoversWaiters
<1>2. TypeInv /\ QueuesInv /\ LprioCoversWaiters /\ [Next]_vars => LprioCoversWaiters'
  BY LprioStep
<1> QED
  BY <1>1, <1>2, TypeInvariant, QueuesInvariant, PTL DEF Spec

-------------------------------------------------------------------------------
(***************************************************************************)
(* The counts against the holders.  releaseall() adds one to a count for   *)
(* the waiter it lets in: the number of holders grows with it because a    *)
(* process that waits for a lock does not hold it.                         *)
(***************************************************************************)
WaitersHoldNothing == \A l \in Locks : Holders(l) \cap Pids(waitq[l]) = {}

\* The waiter at the tail of a wait list that is not empty is on it.
LEMMA TopOnList ==
  ASSUME NEW list \in Seq(Waiters), list # <<>>
  PROVE  Top(list).pid \in Pids(list)
<1>1. Len(list) \in DOMAIN list
  BY LenProperties, EmptySeq
<1> QED
  BY <1>1 DEF Top, Pids

\* A running process is on no wait list.
LEMMA CurrWaitsNowhere ==
  ASSUME TypeInv, QueuesInv, NEW l \in Locks
  PROVE  currpid \notin Pids(waitq[l])
<1>1. pstate[currpid] = "PRCURR" /\ WaitsMatch(pstate, waitq, plock)
  BY ProcInvParts DEF TypeInv, QueuesInv
<1> QED
  BY <1>1 DEF WaitsMatch

\* Every step keeps the waiters of a lock apart from its holders.
LEMMA WaitersHoldNothingStep ==
  ASSUME Disciplined, TypeInv, QueuesInv, WaitersHoldNothing, [Next]_vars
  PROVE  WaitersHoldNothing'
<1>1. /\ waitq \in [Locks -> Seq(Waiters)] /\ klock \in Locks
      /\ readers \in [Locks -> SUBSET Procs] /\ writers \in [Locks -> SUBSET Procs]
      /\ \A l \in Locks : Distinct(waitq[l]) /\ currpid \notin Pids(waitq[l])
      /\ plock \in [Procs -> Locks] /\ currpid \in Procs
  BY CurrWaitsNowhere, ProcInvParts
     DEF TypeInv, LockTypeOK, KernelTypeOK, HolderTypeOK, QueuesInv, WaitsMatch
<1>2. ASSUME \A l \in Locks : /\ Pids(waitq'[l]) \subseteq Pids(waitq[l])
                              /\ readers'[l] \subseteq readers[l]
                              /\ writers'[l] \subseteq writers[l]
      PROVE  WaitersHoldNothing'
  BY <1>2 DEF WaitersHoldNothing, Holders
<1>3. CASE UNCHANGED <<waitq, readers, writers>>
  BY <1>2, <1>3
<1>4. CASE DrainOne
  <2>1. /\ waitq[klock] \in Seq(Waiters) /\ waitq[klock] # <<>>
        /\ waitq' = [waitq EXCEPT ![klock] = Tail(@)] /\ UNCHANGED <<readers, writers>>
    BY <1>1, <1>4 DEF DrainOne, holderVars
  <2>2. Pids(Tail(waitq[klock])) \subseteq Pids(waitq[klock])
    BY <2>1, TailProperties
  <2>3. \A k \in Locks : Pids(waitq'[k]) \subseteq Pids(waitq[k])
    BY <1>1, <2>1, <2>2
  <2> QED
    BY <1>2, <2>1, <2>3
<1>5. ASSUME NEW l \in Locks, NEW type \in Types, NEW priority \in WaitPrios,
             LockWait(l, type, priority)
      PROVE  WaitersHoldNothing'
  <2> DEFINE entry == [pid |-> currpid, key |-> priority, type |-> type]
  <2>1. entry \in Waiters /\ entry.pid = currpid
    BY <1>1, TypesAssumption, PriosAssumption DEF Waiters
  <2>2. /\ currpid \notin Holders(l) /\ UNCHANGED <<readers, writers>>
        /\ waitq' = [waitq EXCEPT ![l] = Insert(@, entry)]
    BY <1>5 DEF LockWait, MayLock, holderVars
  <2> HIDE DEF entry
  <2>3. waitq[l] \in Seq(Waiters)
    BY <1>1
  <2>4. Pids(Insert(waitq[l], entry)) = Pids(waitq[l]) \cup {entry.pid}
    <3>1. PICK list \in Seq(Waiters) : list = waitq[l]
      BY <2>3
    <3>2. PICK e \in Waiters : e = entry
      BY <2>1
    <3>3. Pids(Insert(list, e)) = Pids(list) \cup {e.pid}
      BY InsertProperties
    <3> QED
      BY <3>1, <3>2, <3>3
  <2>5. \A k \in Locks : Pids(waitq'[k]) \subseteq
                           Pids(waitq[k]) \cup (IF k = l THEN {currpid} ELSE {})
    BY <1>1, <2>1, <2>2, <2>4
  <2> QED
    BY <2>2, <2>5 DEF WaitersHoldNothing, Holders
<1>6. ASSUME NEW l \in Locks, NEW type \in Types, NEW priority \in WaitPrios,
             LockGrant(l, type, priority)
      PROVE  WaitersHoldNothing'
  <2>1. /\ UNCHANGED waitq
        /\ \/ UNCHANGED readers /\ writers' = [writers EXCEPT ![l] = @ \cup {currpid}]
           \/ UNCHANGED writers /\ readers' = [readers EXCEPT ![l] = @ \cup {currpid}]
    BY <1>6 DEF LockGrant
  <2>2. \A k \in Locks : /\ readers'[k] \subseteq readers[k] \cup {currpid}
                         /\ writers'[k] \subseteq writers[k] \cup {currpid}
    BY <1>1, <2>1
  <2> QED
    BY <1>1, <2>1, <2>2 DEF WaitersHoldNothing, Holders
<1>7. ASSUME waitq[klock] # <<>>, GrantTopReader(klock) \/ GrantTopWriter(klock)
      PROVE  WaitersHoldNothing'
  <2> DEFINE p == Top(waitq[klock]).pid
  <2>1. /\ waitq' = [waitq EXCEPT ![klock] = Dequeue(@, p)]
        /\ \/ UNCHANGED readers /\ writers' = [writers EXCEPT ![klock] = @ \cup {p}]
           \/ UNCHANGED writers /\ readers' = [readers EXCEPT ![klock] = @ \cup {p}]
    BY <1>7 DEF GrantTopReader, GrantTopWriter, GrantTop
  <2> HIDE DEF p
  <2>2. Pids(Dequeue(waitq[klock], p)) = Pids(waitq[klock]) \ {p}
    BY <1>1, DequeueDistinct
  <2>3. \A k \in Locks : IF k = klock THEN Pids(waitq'[k]) = Pids(waitq[k]) \ {p}
                                      ELSE waitq'[k] = waitq[k]
    BY <1>1, <2>1, <2>2
  <2>4. \A k \in Locks : IF k = klock THEN /\ readers'[k] \subseteq readers[k] \cup {p}
                                           /\ writers'[k] \subseteq writers[k] \cup {p}
                                      ELSE UNCHANGED <<readers[k], writers[k]>>
    BY <1>1, <2>1
  <2> QED
    BY <2>3, <2>4 DEF WaitersHoldNothing, Holders
<1>8. ASSUME NEW p, KillEnds(p), NEW l, Pids(Dequeue(waitq[l], p)) \subseteq Pids(waitq[l]),
             waitq' = [waitq EXCEPT ![l] = Dequeue(@, p)] \/ UNCHANGED waitq
      PROVE  WaitersHoldNothing'
  <2>1. \A k \in Locks : Pids(waitq'[k]) \subseteq Pids(waitq[k])
    BY <1>1, <1>8
  <2>2. \A k \in Locks : readers'[k] \subseteq readers[k] /\ writers'[k] \subseteq writers[k]
    BY <1>8 DEF KillEnds
  <2> QED
    BY <1>2, <2>1, <2>2
<1>9. CASE LockCall
  <2>1. ASSUME NEW l \in Locks, Ldelete(l) PROVE WaitersHoldNothing'
    <3>1. /\ UNCHANGED waitq /\ readers' = [readers EXCEPT ![l] = {}]
          /\ writers' = [writers EXCEPT ![l] = {}]
      BY <2>1 DEF Ldelete
    <3>2. \A k \in Locks : readers'[k] \subseteq readers[k] /\ writers'[k] \subseteq writers[k]
      BY <1>1, <3>1
    <3> QED
      BY <1>2, <3>1, <3>2
  <2> QED
    BY <1>3, <1>5, <1>6, <1>9, <2>1
       DEF LockCall, Lcreate, LcreateFull, Releaseall, lockVars, holderVars
<1>10. CASE ProcessCall
  <2>1. ASSUME NEW p, NEW l \in Locks
        PROVE  Pids(Dequeue(waitq[l], p)) \subseteq Pids(waitq[l])
    BY <1>1, DequeueProperties
  <2>2. ASSUME NEW p \in UserPids, KillBlocked(p) PROVE WaitersHoldNothing'
    <3>1. plock[p] \in Locks
      BY <1>1 DEF UserPids
    <3> QED
      BY <1>8, <2>1, <2>2, <3>1 DEF KillBlocked
  <2>3. ASSUME KillSelf \/ \E p \in UserPids : KillIdle(p) PROVE WaitersHoldNothing'
    BY <1>1, <1>8, <2>1, <2>3 DEF KillSelf, KillIdle
  <2> QED
    BY <1>3, <1>10, <2>2, <2>3 DEF ProcessCall, Create, CreateBadPrio, Resume,
       Suspend, Chprio, Sleep, lockVars, holderVars
<1>11. CASE KernelStep
  <2>1. CASE ReleaseOne
    <3>1. UNCHANGED waitq /\ \E l : /\ readers' = [readers EXCEPT ![l] = @ \ {currpid}]
                                    /\ writers' = [writers EXCEPT ![l] = @ \ {currpid}]
      BY <2>1 DEF ReleaseOne
    <3>2. \A k \in Locks : readers'[k] \subseteq readers[k] /\ writers'[k] \subseteq writers[k]
      BY <1>1, <3>1
    <3> QED
      BY <1>2, <3>1, <3>2
  <2> QED
    BY <1>3, <1>4, <1>7, <1>11, <2>1
       DEF KernelStep, DrainEnd, ReleaseBad, ReleaseFree, ReleaseEnd, ChooseNobody,
           ChooseWriter, WriterNext, ChooseReaders, AdmitReader, AdmitEnd, AdmitSpin,
           WakeOne, WakeEnd, vars, lockVars, holderVars
<1>12. CASE ClockStep
  BY <1>3, <1>12 DEF ClockStep, ClockDue, Preempt, lockVars, holderVars
<1> QED
  BY <1>3, <1>9, <1>10, <1>11, <1>12 DEF Next, vars, lockVars, holderVars

\* As long as nobody is killed the counts are the numbers of holders.
CountsEqual ==
  \A l \in Locks : lstate[l] = "ACQUIRED" =>
    /\ num_reader[l] = Cardinality(readers[l])
    /\ num_writer[l] = Cardinality(writers[l])

\* Counting a set of processes that another one joins.
LEMMA CountJoin ==
  ASSUME NEW S \in SUBSET Procs, NEW p, p \notin S
  PROVE  Cardinality(S \cup {p}) = Cardinality(S) + 1
<1>1. IsFiniteSet(Procs)
  BY FS_Interval, NPROCAssumption DEF Procs
<1>2. IsFiniteSet(S)
  BY <1>1, FS_Subset
<1> QED
  BY <1>2, FS_AddElement

\* Every step but a kill keeps the counts equal to the numbers of holders.
LEMMA CountsEqualStep ==
  ASSUME Disciplined, "kill" \notin Calls, TypeInv, CountsInv, HoldersInv,
         QueuesInv, WaitersHoldNothing, CountsEqual, [Next]_vars
  PROVE  CountsEqual'
<1>1. /\ lstate \in [Locks -> {"FREE", "ACQUIRED"}]
      /\ num_reader \in [Locks -> Nat] /\ num_writer \in [Locks -> Nat]
      /\ readers \in [Locks -> SUBSET Procs] /\ writers \in [Locks -> SUBSET Procs]
      /\ kargs \in Seq(Int) /\ currpid \in Procs
      /\ klock \in Locks /\ waitq \in [Locks -> Seq(Waiters)]
  BY ProcInvParts DEF TypeInv, LockTypeOK, KernelTypeOK, HolderTypeOK
<1>2. CASE UNCHANGED <<lstate, num_reader, num_writer, readers, writers>>
  BY <1>2 DEF CountsEqual
<1>3. ASSUME NEW l \in Locks, NEW p \in Procs \ Holders(l), UNCHANGED lstate,
             \/ /\ UNCHANGED <<num_reader, readers>>
                /\ num_writer' = [num_writer EXCEPT ![l] = @ + 1]
                /\ writers' = [writers EXCEPT ![l] = @ \cup {p}]
             \/ /\ UNCHANGED <<num_writer, writers>>
                /\ num_reader' = [num_reader EXCEPT ![l] = @ + 1]
                /\ readers' = [readers EXCEPT ![l] = @ \cup {p}]
      PROVE  CountsEqual'
  <2>1. /\ readers[l] \in SUBSET Procs /\ writers[l] \in SUBSET Procs
        /\ p \notin readers[l] /\ p \notin writers[l]
    BY <1>1 DEF Holders
  <2>2. /\ Cardinality(readers[l] \cup {p}) = Cardinality(readers[l]) + 1
        /\ Cardinality(writers[l] \cup {p}) = Cardinality(writers[l]) + 1
    BY <2>1, CountJoin
  <2> SUFFICES ASSUME NEW k \in Locks, lstate'[k] = "ACQUIRED"
               PROVE  /\ num_reader'[k] = Cardinality(readers'[k])
                      /\ num_writer'[k] = Cardinality(writers'[k])
    BY DEF CountsEqual
  <2>3. /\ num_reader[k] = Cardinality(readers[k])
        /\ num_writer[k] = Cardinality(writers[k])
    BY <1>3 DEF CountsEqual
  <2>4. CASE k # l
    BY <1>1, <1>3, <2>3, <2>4
  <2>5. CASE k = l
    <3>1. \/ /\ num_reader'[l] = num_reader[l] /\ readers'[l] = readers[l]
             /\ num_writer'[l] = num_writer[l] + 1
             /\ writers'[l] = writers[l] \cup {p}
          \/ /\ num_writer'[l] = num_writer[l] /\ writers'[l] = writers[l]
             /\ num_reader'[l] = num_reader[l] + 1
             /\ readers'[l] = readers[l] \cup {p}
      BY <1>1, <1>3
    <3> QED
      BY <2>2, <2>3, <2>5, <3>1
  <2> QED
    BY <2>4, <2>5
<1>4. CASE LockCall
  <2>1. CASE Lcreate
    <3> DEFINE l == Min(FreeLocks)
    <3>1. l \in Locks /\ lstate[l] = "FREE"
      <4>1. FreeLocks \in SUBSET Nat /\ FreeLocks # {}
        BY <2>1, NLOCKAssumption DEF Lcreate, FreeLocks, Locks
      <4> QED
        BY <4>1, MinOfNaturals DEF FreeLocks
    <3>2. readers[l] = {} /\ writers[l] = {}
      BY <3>1 DEF HoldersInv
    <3>3. /\ lstate' = [lstate EXCEPT ![l] = "ACQUIRED"]
          /\ num_reader' = [num_reader EXCEPT ![l] = 0]
          /\ num_writer' = [num_writer EXCEPT ![l] = 0]
          /\ UNCHANGED <<readers, writers>>
      BY <2>1 DEF Lcreate, holderVars
    <3> HIDE DEF l
    <3>4. num_reader'[l] = Cardinality(readers'[l]) /\ num_writer'[l] = Cardinality(writers'[l])
      <4>1. readers'[l] = {} /\ writers'[l] = {}
        BY <3>2, <3>3
      <4>2. num_reader'[l] = 0 /\ num_writer'[l] = 0
        BY <1>1, <3>1, <3>3
      <4> QED
        BY <4>1, <4>2, CountOfNobody
    <3>5. ASSUME NEW k \in Locks, k # l
          PROVE  UNCHANGED <<lstate[k], num_reader[k], num_writer[k]>>
      BY <1>1, <3>3, <3>5
    <3> QED
      BY <3>3, <3>4, <3>5 DEF CountsEqual
  <2>2. ASSUME NEW l \in Locks, Ldelete(l) PROVE CountsEqual'
    <3>1. /\ lstate' = [lstate EXCEPT ![l] = "FREE"] /\ UNCHANGED <<num_reader, num_writer>>
          /\ readers' = [readers EXCEPT ![l] = {}] /\ writers' = [writers EXCEPT ![l] = {}]
      BY <2>2 DEF Ldelete
    <3>2. ASSUME NEW k \in Locks, lstate'[k] = "ACQUIRED"
          PROVE  k # l /\ UNCHANGED <<lstate[k], readers[k], writers[k]>>
      BY <1>1, <3>1, <3>2
    <3> QED
      BY <3>1, <3>2 DEF CountsEqual
  <2>3. ASSUME NEW l \in Locks, NEW type \in Types, NEW priority \in WaitPrios,
               LockGrant(l, type, priority)
        PROVE  CountsEqual'
    <3>1. currpid \in Procs \ Holders(l) /\ UNCHANGED lstate
      BY <1>1, <2>3 DEF LockGrant, MayLock
    <3>2. \/ /\ UNCHANGED <<num_reader, readers>>
             /\ num_writer' = [num_writer EXCEPT ![l] = @ + 1]
             /\ writers' = [writers EXCEPT ![l] = @ \cup {currpid}]
          \/ /\ UNCHANGED <<num_writer, writers>>
             /\ num_reader' = [num_reader EXCEPT ![l] = @ + 1]
             /\ readers' = [readers EXCEPT ![l] = @ \cup {currpid}]
      BY <2>3 DEF LockGrant
    <3> QED
      BY <1>3, <3>1, <3>2
  <2>4. ASSUME NEW l \in Locks, NEW type \in Types, NEW priority \in WaitPrios,
               LockWait(l, type, priority)
        PROVE  CountsEqual'
    BY <1>2, <2>4 DEF LockWait, holderVars
  <2> QED
    BY <1>2, <1>4, <2>1, <2>2, <2>3, <2>4
       DEF LockCall, LcreateFull, Releaseall, lockVars, holderVars
<1>5. CASE ProcessCall
  <2>1. ~KillSelf /\ \A p \in UserPids : ~KillIdle(p) /\ ~KillBlocked(p)
    BY DEF KillSelf, KillIdle, KillBlocked, InUser
  <2> QED
    BY <1>2, <1>5, <2>1 DEF ProcessCall, Create, CreateBadPrio, Resume, Suspend,
       Chprio, Sleep, lockVars, holderVars
<1>6. CASE KernelStep
  <2>1. CASE DrainEnd
    <3>1. /\ lstate[klock] = "FREE" /\ UNCHANGED <<lstate, num_writer, readers, writers>>
          /\ num_reader' = [num_reader EXCEPT ![klock] = 1]
      BY <2>1 DEF DrainEnd, CountsInv, holderVars
    <3> QED
      BY <1>1, <3>1 DEF CountsEqual
  <2>2. CASE ReleaseOne
    <3> DEFINE l == Head(kargs)
    <3>1. /\ l \in Locks /\ lstate[l] = "ACQUIRED" /\ UNCHANGED <<lstate, currpid>>
          /\ num_writer' = [num_writer EXCEPT ![l] = IF @ > 0 THEN @ - 1 ELSE @]
          /\ num_reader' = [num_reader EXCEPT ![l] =
               IF num_writer[l] = 0 /\ @ > 0 THEN @ - 1 ELSE @]
          /\ readers' = [readers EXCEPT ![l] = @ \ {currpid}]
          /\ writers' = [writers EXCEPT ![l] = @ \ {currpid}]
      BY <2>2 DEF ReleaseOne
    <3>2. kargs # <<>> /\ MayRelease(kargs) /\ kargs' = Tail(kargs)
      BY <2>2 DEF ReleaseOne, HoldersInv
    <3>3. currpid \in Holders(l)
      <4>1. 1 \in DOMAIN kargs /\ l = kargs[1]
        BY <1>1, <3>2, LenProperties, EmptySeq, HeadTailProperties
      <4> QED
        BY <3>2, <4>1 DEF MayRelease
    <3>4. \A S \in SUBSET Procs :
            /\ Cardinality(S) \in Nat
            /\ currpid \in S => Cardinality(S \ {currpid}) = Cardinality(S) - 1
            /\ Cardinality(S) <= 0 => S = {}
      BY CountOfProcs
    <3>0. \A S \in SUBSET Procs : Cardinality(S \ {currpid}) \in Nat
      BY CountOfProcs
    <3>5. /\ num_reader[l] = Cardinality(readers[l])
          /\ num_writer[l] = Cardinality(writers[l])
          /\ num_reader[l] = 0 \/ num_writer[l] = 0
          /\ readers[l] \in SUBSET Procs /\ writers[l] \in SUBSET Procs
          /\ num_reader[l] \in Nat /\ num_writer[l] \in Nat
      BY <1>1, <3>1 DEF CountsEqual, CountsInv, CountsExclusive
    <3> HIDE DEF l
    <3>6. /\ num_reader'[l] = Cardinality(readers'[l])
          /\ num_writer'[l] = Cardinality(writers'[l])
      <4>1. /\ readers'[l] = readers[l] \ {currpid}
            /\ writers'[l] = writers[l] \ {currpid}
            /\ num_writer'[l] = IF num_writer[l] > 0 THEN num_writer[l] - 1 ELSE num_writer[l]
            /\ num_reader'[l] = IF num_writer[l] = 0 /\ num_reader[l] > 0
                                THEN num_reader[l] - 1 ELSE num_reader[l]
        BY <1>1, <3>1
      <4>2. CASE num_writer[l] > 0
        <5>1. num_reader[l] = 0 /\ readers[l] = {} /\ currpid \in writers[l]
          <6>1. num_reader[l] = 0 /\ Cardinality(readers[l]) <= 0
            BY <3>5, <4>2
          <6> QED
            BY <3>3, <3>4, <3>5, <6>1 DEF Holders
        <5>2. Cardinality(writers[l] \ {currpid}) = Cardinality(writers[l]) - 1
          BY <3>4, <3>5, <5>1
        <5>3. readers'[l] = {}
          BY <4>1, <5>1
        <5> QED
          BY <3>5, <4>1, <4>2, <5>1, <5>2, <5>3, CountOfNobody
      <4>3. CASE num_writer[l] = 0
        <5>1. writers[l] = {} /\ currpid \in readers[l]
          <6>1. Cardinality(writers[l]) <= 0
            BY <3>5, <4>3
          <6> QED
            BY <3>3, <3>4, <3>5, <6>1 DEF Holders
        <5>2. Cardinality(readers[l] \ {currpid}) = Cardinality(readers[l]) - 1
          BY <3>4, <3>5, <5>1
        <5>3. num_reader[l] > 0
          <6>1. Cardinality(readers[l] \ {currpid}) \in Nat
            BY <3>0, <3>5
          <6> QED
            BY <3>5, <5>2, <6>1
        <5>4. writers'[l] = {} /\ Cardinality(writers'[l]) = 0
          BY <4>1, <5>1, CountOfNobody
        <5>5. num_reader'[l] = num_reader[l] - 1 /\ num_writer'[l] = 0
          BY <3>5, <4>1, <4>3, <5>3
        <5> QED
          BY <3>5, <4>1, <5>2, <5>4, <5>5
      <4> QED
        BY <3>5, <4>2, <4>3
    <3>7. ASSUME NEW k \in Locks, k # l
          PROVE  UNCHANGED <<lstate[k], num_reader[k], num_writer[k], readers[k], writers[k]>>
      BY <1>1, <3>1, <3>7
    <3> QED
      BY <3>6, <3>7 DEF CountsEqual
  <2>3. ASSUME waitq[klock] # <<>>, GrantTopReader(klock) \/ GrantTopWriter(klock)
        PROVE  CountsEqual'
    <3> DEFINE p == Top(waitq[klock]).pid
    <3>1. p \in Procs \ Holders(klock)
      <4>1. p \in Procs /\ p \in Pids(waitq[klock])
        BY <1>1, <2>3, TopType, TopOnList
      <4> QED
        BY <1>1, <4>1 DEF WaitersHoldNothing
    <3>2. /\ UNCHANGED lstate
          /\ \/ /\ UNCHANGED <<num_reader, readers>>
                /\ num_writer' = [num_writer EXCEPT ![klock] = @ + 1]
                /\ writers' = [writers EXCEPT ![klock] = @ \cup {p}]
             \/ /\ UNCHANGED <<num_writer, writers>>
                /\ num_reader' = [num_reader EXCEPT ![klock] = @ + 1]
                /\ readers' = [readers EXCEPT ![klock] = @ \cup {p}]
      BY <2>3 DEF GrantTopReader, GrantTopWriter, GrantTop
    <3> HIDE DEF p
    <3> QED
      BY <1>1, <1>3, <3>1, <3>2
  <2> QED
    BY <1>2, <1>6, <2>1, <2>2, <2>3
       DEF KernelStep, DrainOne, ReleaseBad, ReleaseFree, ReleaseEnd, ChooseNobody,
           ChooseWriter, WriterNext, ChooseReaders, AdmitReader, AdmitEnd, AdmitSpin,
           WakeOne, WakeEnd, vars, lockVars, holderVars
<1>7. CASE ClockStep
  BY <1>2, <1>7 DEF ClockStep, ClockDue, Preempt, lockVars, holderVars
<1> QED
  BY <1>2, <1>4, <1>5, <1>6, <1>7 DEF Next, vars, lockVars, holderVars

\* The invariants that the discipline of the processes buys.
LEMMA DisciplineInvariant ==
  Disciplined => (Spec => [](HoldersInv /\ WaitersHoldNothing))
<1> SUFFICES ASSUME Disciplined PROVE Spec => [](HoldersInv /\ WaitersHoldNothing)
  OBVIOUS
<1>1. Init => HoldersInv /\ WaitersHoldNothing
  BY CountOfNobody, EmptyList DEF Init, HoldersInv, WaitersHoldNothing
<1>2. TypeInv /\ CountsInv /\ QueuesInv /\ HoldersInv /\ WaitersHoldNothing /\ [Next]_vars
      => HoldersInv' /\ WaitersHoldNothing'
  BY HoldersStep, WaitersHoldNothingStep
<1> QED
  BY <1>1, <1>2, TypeInvariant, CountsInvariant, QueuesInvariant, PTL DEF Spec

\* CountsEqual is an invariant where nobody is killed.
LEMMA CountsEqualInvariant ==
  Disciplined /\ "kill" \notin Calls => (Spec => []CountsEqual)
<1> SUFFICES ASSUME Disciplined, "kill" \notin Calls PROVE Spec => []CountsEqual
  OBVIOUS
<1>1. Init => CountsEqual
  BY CountOfNobody DEF Init, CountsEqual
<1>2. /\ TypeInv /\ CountsInv /\ QueuesInv
      /\ HoldersInv /\ WaitersHoldNothing /\ CountsEqual /\ [Next]_vars
      => CountsEqual'
  BY CountsEqualStep
<1>3. Spec => [](HoldersInv /\ WaitersHoldNothing)
  BY DisciplineInvariant
<1> QED
  BY <1>1, <1>2, <1>3, TypeInvariant, CountsInvariant, QueuesInvariant, PTL DEF Spec

\* The counts of a lock in use account for its holders: they are never below
\* their number, and equal to it where nobody is killed.
THEOREM CountsAccount == Disciplined => (Spec => []CountsMatchHolders)
<1> SUFFICES ASSUME Disciplined PROVE Spec => []CountsMatchHolders
  OBVIOUS
<1>1. Spec => []HoldersInv
  <2>1. Spec => [](HoldersInv /\ WaitersHoldNothing)
    BY DisciplineInvariant
  <2> QED
    BY <2>1, PTL
<1>2. CASE "kill" \in Calls
  <2>1. HoldersInv => CountsMatchHolders
    BY <1>2 DEF HoldersInv, CountsMatchHolders
  <2> QED
    BY <1>1, <2>1, PTL
<1>3. CASE "kill" \notin Calls
  <2>1. HoldersInv /\ CountsEqual => CountsMatchHolders
    BY DEF HoldersInv, CountsEqual, CountsMatchHolders
  <2>2. Spec => []CountsEqual
    BY <1>3, CountsEqualInvariant
  <2> QED
    BY <1>1, <2>1, <2>2, PTL
<1> QED
  BY <1>2, <1>3

-------------------------------------------------------------------------------
(***************************************************************************)
(* Direct inheritance.  change_pinh_proc() takes lprio of every lock that  *)
(* is flagged for the process, so a process flagged on both sides is       *)
(* scheduled with at least lprio: as long as base priorities do not move.  *)
(***************************************************************************)
LprioInherited ==
  \A l \in Locks : \A p \in process_holding_lock[l] :
    l \in have_lock[p] => lprio[l] <= Eff(pinh, p)

\* change_pinh_proc() leaves the process with a scheduling priority of at
\* least lprio of every lock flagged for it.
LEMMA NewPinhCovers ==
  ASSUME NEW pp \in [Procs -> 0..MAXINT], NEW hl \in [Procs -> SUBSET Locks],
         NEW lp \in [Locks -> -1..MAXINT], NEW p \in Procs, NEW k \in hl[p]
  PROVE  lp[k] <= IF NewPinh(pp, hl, lp, p) = 0 THEN pp[p]
                                                ELSE NewPinh(pp, hl, lp, p)
<1> DEFINE S == {lp[j] : j \in hl[p]} \cup {-1}
<1>1. MAXINT \in Int /\ MAXINT >= 0
  BY MAXINTAssumption
<1>2. S \in SUBSET Int /\ S # {} /\ \A y \in S : y <= MAXINT
  BY <1>1
<1>3. lp[k] \in S
  OBVIOUS
<1> HIDE DEF S
<1>4. Max(S) \in S /\ \A y \in S : y <= Max(S)
  BY <1>1, <1>2, MaxOfBounded, Zenon
<1>5. lp[k] <= Max(S) /\ Max(S) \in Int /\ lp[k] \in Int
  BY <1>2, <1>3, <1>4
<1>6. NewPinh(pp, hl, lp, p) = IF pp[p] <= Max(S) THEN Max(S) ELSE 0
  BY DEF NewPinh, S
<1> QED
  BY <1>5, <1>6

\* A step that recomputes the inherited priorities of some processes, among
\* them every one that is newly flagged or flagged for a lock whose lprio is
\* new, and leaves the base priorities alone.
LEMMA InheritCovers ==
  ASSUME LprioInherited, ProcTypeOK,
         have_lock' \in [Procs -> SUBSET Locks], lprio' \in [Locks -> -1..MAXINT],
         process_holding_lock' \in [Locks -> SUBSET Procs],
         UNCHANGED pprio, NEW ps, pinh' = Inherit(pprio, have_lock', lprio', ps),
         \A l \in Locks : \A p \in process_holding_lock'[l] \ ps :
           l \in have_lock'[p] => /\ p \in process_holding_lock[l]
                                  /\ l \in have_lock[p] /\ lprio'[l] = lprio[l]
  PROVE  LprioInherited'
<1>1. pprio \in [Procs -> 0..MAXINT]
  BY DEF ProcTypeOK
<1> SUFFICES ASSUME NEW l \in Locks, NEW p \in process_holding_lock'[l], l \in have_lock'[p]
             PROVE  lprio'[l] <= IF pinh'[p] = 0 THEN pprio[p] ELSE pinh'[p]
  BY DEF LprioInherited, Eff
<1>2. /\ p \in Procs
      /\ pinh'[p] = IF p \in ps THEN NewPinh(pprio, have_lock', lprio', p) ELSE pinh[p]
  BY DEF Inherit
<1>3. CASE p \in ps
  <2>1. \A hl \in [Procs -> SUBSET Locks], lp \in [Locks -> -1..MAXINT] :
          l \in hl[p] => lp[l] <= IF NewPinh(pprio, hl, lp, p) = 0 THEN pprio[p]
                                  ELSE NewPinh(pprio, hl, lp, p)
    BY <1>1, <1>2, NewPinhCovers
  <2>2. lprio'[l] <= IF NewPinh(pprio, have_lock', lprio', p) = 0 THEN pprio[p]
                     ELSE NewPinh(pprio, have_lock', lprio', p)
    BY <2>1
  <2> QED
    BY <1>2, <1>3, <2>2
<1>4. CASE p \notin ps
  BY <1>2, <1>4 DEF LprioInherited, Eff
<1> QED
  BY <1>3, <1>4

\* Every step but a change of a base priority keeps lprio inherited.
LEMMA LprioInheritedStep ==
  ASSUME "chprio" \notin Calls, "create" \notin Calls, TypeInv, LprioInherited,
         [Next]_vars
  PROVE  LprioInherited'
<1>1. /\ have_lock \in [Procs -> SUBSET Locks] /\ have_lock' \in [Procs -> SUBSET Locks]
      /\ lprio \in [Locks -> -1..MAXINT] /\ lprio' \in [Locks -> -1..MAXINT]
      /\ process_holding_lock \in [Locks -> SUBSET Procs]
      /\ process_holding_lock' \in [Locks -> SUBSET Procs]
      /\ klock \in Locks /\ currpid \in Procs /\ ProcTypeOK
      /\ plock \in [Procs -> Locks] /\ waitq \in [Locks -> Seq(Waiters)]
  BY LockTypeStep, ProcInvParts DEF TypeInv, LockTypeOK, KernelTypeOK
<1>2. CASE UNCHANGED <<pprio, pinh, lprio, process_holding_lock, have_lock>>
  BY <1>2 DEF LprioInherited, Eff
<1>3. ASSUME NEW l \in Locks, NEW type \in Types, NEW priority \in WaitPrios,
             LockWait(l, type, priority)
      PROVE  LprioInherited'
  <2>1. /\ \E x : lprio' = [lprio EXCEPT ![l] = x]
        /\ pinh' = Inherit(pprio, have_lock', lprio', process_holding_lock[l])
        /\ UNCHANGED <<pprio, process_holding_lock, have_lock>>
    BY <1>3 DEF LockWait
  <2>2. \A k \in Locks : k # l => lprio'[k] = lprio[k]
    BY <1>1, <2>1
  <2> QED
    BY <1>1, <2>1, <2>2, InheritCovers
<1>4. ASSUME NEW l \in Locks, NEW type \in Types, NEW priority \in WaitPrios,
             LockGrant(l, type, priority)
      PROVE  LprioInherited'
  <2>1. /\ process_holding_lock' = [process_holding_lock EXCEPT ![l] = @ \cup {currpid}]
        /\ have_lock' = [have_lock EXCEPT ![currpid] = @ \cup {l}]
        /\ pinh' = Inherit(pprio, have_lock', lprio', {currpid})
        /\ UNCHANGED <<pprio, lprio>>
    BY <1>4 DEF LockGrant, HoldingWith
  <2>2. ASSUME NEW k \in Locks, NEW p \in process_holding_lock'[k] \ {currpid}
        PROVE  p \in process_holding_lock[k] /\ have_lock'[p] = have_lock[p]
    BY <1>1, <2>1
  <2>3. \A k \in Locks : \A p \in process_holding_lock'[k] \ {currpid} :
          k \in have_lock'[p] => /\ p \in process_holding_lock[k]
                                 /\ k \in have_lock[p] /\ lprio'[k] = lprio[k]
    BY <2>1, <2>2
  <2> QED
    BY <1>1, <2>1, <2>3, InheritCovers
<1>5. CASE ReleaseOne
  <2>1. /\ process_holding_lock' =
             [process_holding_lock EXCEPT ![Head(kargs)] = @ \ {currpid}]
        /\ have_lock' = [have_lock EXCEPT ![currpid] = @ \ {Head(kargs)}]
        /\ pinh' = Inherit(pprio, have_lock', lprio', {currpid})
        /\ UNCHANGED <<pprio, lprio>>
    BY <1>5 DEF ReleaseOne
  <2>2. ASSUME NEW k \in Locks, NEW p \in process_holding_lock'[k] \ {currpid}
        PROVE  p \in process_holding_lock[k] /\ have_lock'[p] = have_lock[p]
    BY <1>1, <2>1
  <2>3. \A k \in Locks : \A p \in process_holding_lock'[k] \ {currpid} :
          k \in have_lock'[p] => /\ p \in process_holding_lock[k]
                                 /\ k \in have_lock[p] /\ lprio'[k] = lprio[k]
    BY <2>1, <2>2
  <2> QED
    BY <1>1, <2>1, <2>3, InheritCovers
<1>6. ASSUME GrantTop(klock) PROVE LprioInherited'
  <2>1. PICK q, x :
          /\ process_holding_lock' = [process_holding_lock EXCEPT ![klock] = @ \cup {q}]
          /\ have_lock' = [have_lock EXCEPT ![currpid] = @ \cup {klock}]
          /\ lprio' = [lprio EXCEPT ![klock] = x]
          /\ pinh' = Inherit(pprio, have_lock', lprio', process_holding_lock'[klock])
          /\ UNCHANGED pprio
    BY <1>6 DEF GrantTop, HoldingWith
  <2>2. ASSUME NEW k \in Locks,
               NEW p \in process_holding_lock'[k] \ process_holding_lock'[klock],
               k \in have_lock'[p]
        PROVE  /\ p \in process_holding_lock[k] /\ k \in have_lock[p]
               /\ lprio'[k] = lprio[k]
    <3>1. k # klock
      BY <2>2
    <3>2. p \in process_holding_lock[k] /\ lprio'[k] = lprio[k] /\ p \in Procs
      BY <1>1, <2>1, <2>2, <3>1
    <3>3. have_lock'[p] \subseteq have_lock[p] \cup {klock}
      BY <1>1, <2>1, <3>2
    <3> QED
      BY <2>2, <3>1, <3>2, <3>3
  <2> QED
    BY <1>1, <2>1, <2>2, InheritCovers
<1>7. ASSUME NEW p \in UserPids, KillBlocked(p) PROVE LprioInherited'
  <2> DEFINE l == plock[p]
  <2>1. /\ process_holding_lock' = [process_holding_lock EXCEPT ![l] = @ \ {p}]
        /\ \E x : lprio' = [lprio EXCEPT ![l] = x]
        /\ pinh' = Inherit(pprio, have_lock', lprio', process_holding_lock'[l])
        /\ UNCHANGED <<pprio, have_lock>>
    BY <1>7 DEF KillBlocked, KillEnds
  <2>2. l \in Locks
    BY <1>1 DEF UserPids
  <2> HIDE DEF l
  <2>3. ASSUME NEW k \in Locks,
               NEW q \in process_holding_lock'[k] \ process_holding_lock'[l]
        PROVE  q \in process_holding_lock[k] /\ lprio'[k] = lprio[k]
    BY <1>1, <2>1, <2>2, <2>3
  <2> QED
    BY <1>1, <2>1, <2>3, InheritCovers
<1>8. CASE LockCall
  BY <1>2, <1>3, <1>4, <1>8
     DEF LockCall, Lcreate, LcreateFull, Ldelete, Releaseall, procVars, lockVars
<1>9. CASE ProcessCall
  <2>1. /\ \A prio \in Prios : ~Create(prio) /\ ~CreateBadPrio(prio)
        /\ \A p \in UserPids, prio \in Prios : ~Chprio(p, prio)
    BY DEF Create, CreateBadPrio, Chprio, InUser
  <2> QED
    BY <1>2, <1>7, <1>9, <2>1
       DEF ProcessCall, Resume, Suspend, KillSelf, KillIdle, KillEnds, Sleep, lockVars
<1>10. CASE KernelStep
  BY <1>2, <1>5, <1>6, <1>10
     DEF KernelStep, DrainOne, DrainEnd, ReleaseBad, ReleaseFree, ReleaseEnd,
         ChooseNobody, ChooseWriter, GrantTopWriter, ChooseReaders, AdmitReader,
         GrantTopReader, AdmitEnd, AdmitSpin, WakeOne, WakeEnd, procVars, lockVars, vars
<1>11. CASE ClockStep
  BY <1>2, <1>11 DEF ClockStep, ClockDue, Preempt, procVars, lockVars
<1> QED
  BY <1>2, <1>8, <1>9, <1>10, <1>11 DEF Next, vars, procVars, lockVars

\* Where base priorities do not change, a process that took a lock by itself
\* and still holds it is scheduled with at least the priority of every waiter.
THEOREM HoldersInherit ==
  "chprio" \notin Calls /\ "create" \notin Calls => (Spec => []DirectInheritance)
<1> SUFFICES ASSUME "chprio" \notin Calls, "create" \notin Calls
             PROVE  Spec => []DirectInheritance
  OBVIOUS
<1>1. Init => LprioInherited
  BY DEF Init, LprioInherited
<1>2. TypeInv /\ LprioInherited /\ [Next]_vars => LprioInherited'
  BY LprioInheritedStep
<1>3. TypeInv /\ QueuesInv /\ LprioCoversWaiters /\ LprioInherited => DirectInheritance
  <2> SUFFICES ASSUME TypeInv, QueuesInv, LprioCoversWaiters, LprioInherited,
                      NEW l \in Locks, NEW p \in process_holding_lock[l], l \in have_lock[p],
                      NEW w \in Pids(waitq[l])
               PROVE  pprio[w] <= Eff(pinh, p)
    BY DEF DirectInheritance
  <2>1. pprio[w] <= lprio[l] /\ lprio[l] <= Eff(pinh, p)
    BY DEF LprioCoversWaiters, LprioInherited
  <2>2. p \in Procs /\ w \in Procs /\ lprio[l] \in Int
    BY MAXINTAssumption DEF TypeInv, LockTypeOK, QueuesInv, WaitsMatch
  <2>3. pprio[w] \in Int /\ Eff(pinh, p) \in Int
    BY <2>2, EffType, ProcInvParts, MAXINTAssumption DEF TypeInv
  <2> QED
    BY <2>1, <2>2, <2>3
<1> QED
  BY <1>1, <1>2, <1>3, TypeInvariant, QueuesInvariant, LprioCorrect, PTL DEF Spec

-------------------------------------------------------------------------------
(***************************************************************************)
(* The implementation of LockService.                                      *)
(***************************************************************************)

\* Who asks for what on a wait list, and the state LockService sees.
Asks(list) == {<<list[i].pid, list[i].type>> : i \in DOMAIN list}
OpenLocks  == {l \in Locks : lstate[l] = "ACQUIRED"}
Waiting    == [l \in Locks |-> Asks(waitq[l])]

\* The requests on a list are those of its entries.
LEMMA AsksOfEntries ==
  ASSUME NEW list
  PROVE  Asks(list) = {<<e.pid, e.type>> : e \in ToSet(list)}
BY DEF Asks, ToSet

\* Two entries of a list without duplicates are of different processes.
LEMMA EntryOfPid ==
  ASSUME NEW list, Distinct(list), NEW d \in ToSet(list), NEW e \in ToSet(list),
         d.pid = e.pid
  PROVE  d = e
BY DEF Distinct, ToSet

\* A list without duplicates that loses a process loses its request.
LEMMA AsksLess ==
  ASSUME NEW list, Distinct(list), NEW e \in ToSet(list), NEW rest,
         ToSet(rest) = {d \in ToSet(list) : d.pid # e.pid}
  PROVE  Asks(rest) = Asks(list) \ {<<e.pid, e.type>>}
<1>1. Asks(rest) = {<<d.pid, d.type>> : d \in ToSet(rest)}
  BY AsksOfEntries
<1>2. Asks(list) = {<<d.pid, d.type>> : d \in ToSet(list)}
  BY AsksOfEntries
<1>3. Asks(rest) \subseteq Asks(list) \ {<<e.pid, e.type>>}
  BY <1>1, <1>2
<1>4. ASSUME NEW d \in ToSet(list), <<d.pid, d.type>> # <<e.pid, e.type>>
      PROVE  d \in ToSet(rest)
  <2>1. d.pid # e.pid
    BY <1>4, EntryOfPid
  <2> QED
    BY <2>1
<1>5. Asks(list) \ {<<e.pid, e.type>>} \subseteq Asks(rest)
  BY <1>1, <1>2, <1>4
<1> QED
  BY <1>3, <1>5

\* One wait list changes.
LEMMA WaitingChanges ==
  ASSUME waitq \in [Locks -> Seq(Waiters)], NEW l \in Locks, NEW list,
         waitq' = [waitq EXCEPT ![l] = list]
  PROVE  Waiting' = [Waiting EXCEPT ![l] = Asks(list)]
<1>1. ASSUME NEW k \in Locks
      PROVE  Asks(waitq'[k]) = IF k = l THEN Asks(list) ELSE Asks(waitq[k])
  OBVIOUS
<1>2. Waiting' = [k \in Locks |-> Asks(waitq'[k])]
  BY DEF Waiting, Asks
<1>3. [Waiting EXCEPT ![l] = Asks(list)]
      = [k \in Locks |-> IF k = l THEN Asks(list) ELSE Asks(waitq[k])]
  BY DEF Waiting
<1> QED
  BY <1>1, <1>2, <1>3

(***************************************************************************)
(* A descriptor that is free has no waiters left from its last owner, but  *)
(* while ldelete() is turning them away.                                   *)
(***************************************************************************)
FreeAreEmpty ==
  \A l \in Locks : lstate[l] = "FREE" => waitq[l] = <<>> \/ (kpc = "drain" /\ klock = l)

\* Every step keeps the free descriptors without waiters.
LEMMA FreeAreEmptyStep ==
  ASSUME TypeInv, CountsInv, FreeAreEmpty, [Next]_vars
  PROVE  FreeAreEmpty'
<1>1. /\ waitq \in [Locks -> Seq(Waiters)] /\ klock \in Locks
      /\ lstate \in [Locks -> {"FREE", "ACQUIRED"}] /\ plock \in [Procs -> Locks]
  BY DEF TypeInv, LockTypeOK, KernelTypeOK
<1>2. CASE UNCHANGED <<lstate, waitq, kpc, klock>>
  BY <1>2 DEF FreeAreEmpty
<1>3. CASE UNCHANGED <<lstate, waitq>> /\ kpc # "drain"
  BY <1>3 DEF FreeAreEmpty
<1>4. ASSUME kpc # "drain", UNCHANGED lstate, NEW l \in Locks, NEW p,
             waitq' = [waitq EXCEPT ![l] = Dequeue(@, p)]
      PROVE  FreeAreEmpty'
  <2>1. waitq[l] = <<>> => Dequeue(waitq[l], p) = <<>>
    BY EmptyList DEF Dequeue
  <2>2. \A k \in Locks : waitq[k] = <<>> => waitq'[k] = <<>>
    BY <1>1, <1>4, <2>1
  <2> QED
    BY <1>4, <2>2 DEF FreeAreEmpty
<1>5. CASE LockCall
  <2>1. CASE Lcreate
    <3>1. /\ UNCHANGED <<waitq, kpc, klock>>
          /\ lstate' = [lstate EXCEPT ![Min(FreeLocks)] = "ACQUIRED"]
      BY <2>1 DEF Lcreate, kernelVars
    <3>2. \A l \in Locks : lstate'[l] = "FREE" => lstate[l] = "FREE"
      BY <1>1, <3>1
    <3> QED
      BY <3>1, <3>2 DEF FreeAreEmpty
  <2>2. ASSUME NEW l \in Locks, Ldelete(l) PROVE FreeAreEmpty'
    <3>1. /\ UNCHANGED waitq /\ kpc = "user"
          /\ lstate' = [lstate EXCEPT ![l] = "FREE"]
          /\ waitq[l] = <<>> \/ (kpc' = "drain" /\ klock' = l)
      BY <2>2 DEF Ldelete, InUser
    <3>2. \A k \in Locks : k # l => lstate'[k] = lstate[k]
      BY <1>1, <3>1
    <3> QED
      BY <3>1, <3>2 DEF FreeAreEmpty
  <2>3. ASSUME NEW l \in Locks, NEW type \in Types, NEW priority \in WaitPrios,
               LockWait(l, type, priority)
        PROVE  FreeAreEmpty'
    <3>1. /\ lstate[l] = "ACQUIRED" /\ UNCHANGED <<lstate, kpc, klock>>
          /\ \E x : waitq' = [waitq EXCEPT ![l] = x]
      BY <2>3 DEF LockWait, kernelVars
    <3>2. \A k \in Locks : k # l => waitq'[k] = waitq[k]
      BY <1>1, <3>1
    <3> QED
      BY <3>1, <3>2 DEF FreeAreEmpty
  <2>4. ASSUME NEW l \in Locks, NEW type \in Types, NEW priority \in WaitPrios,
               LockGrant(l, type, priority)
        PROVE  FreeAreEmpty'
    BY <1>2, <2>4 DEF LockGrant, kernelVars
  <2> QED
    BY <1>2, <1>3, <1>5, <2>1, <2>2, <2>3, <2>4
       DEF LockCall, LcreateFull, Releaseall, InUser, lockVars, kernelVars
<1>6. CASE ProcessCall
  <2>1. ASSUME NEW p \in UserPids, KillBlocked(p) PROVE FreeAreEmpty'
    <3>1. plock[p] \in Locks
      BY <1>1 DEF UserPids
    <3>2. /\ waitq' = [waitq EXCEPT ![plock[p]] = Dequeue(@, p)]
          /\ UNCHANGED lstate /\ kpc # "drain"
      BY <2>1 DEF KillBlocked, KillEnds, InUser
    <3> QED
      BY <1>4, <3>1, <3>2
  <2> QED
    BY <1>2, <1>6, <2>1 DEF ProcessCall, Create, CreateBadPrio, Resume, Suspend,
       Chprio, KillSelf, KillIdle, KillEnds, Sleep, lockVars, kernelVars
<1>7. CASE KernelStep
  <2>1. CASE DrainOne
    <3>1. /\ waitq' = [waitq EXCEPT ![klock] = Tail(@)] /\ UNCHANGED <<lstate, kpc, klock>>
          /\ kpc = "drain"
      BY <2>1 DEF DrainOne, kernelVars
    <3>2. \A k \in Locks : k # klock => waitq'[k] = waitq[k]
      BY <1>1, <3>1
    <3> QED
      BY <3>1, <3>2 DEF FreeAreEmpty
  <2>2. CASE DrainEnd
    BY <2>2 DEF DrainEnd, FreeAreEmpty
  <2>3. ASSUME GrantTop(klock), kpc # "drain" PROVE FreeAreEmpty'
    BY <1>1, <1>4, <2>3 DEF GrantTop
  <2>4. CASE WakeEnd \/ \E p \in kdue : WakeOne(p)
    BY <1>3, <2>4 DEF WakeOne, WakeEnd, lockVars
  <2>5. CASE ReleaseBad \/ ReleaseFree \/ ReleaseOne \/ ReleaseEnd
    BY <1>3, <2>5 DEF ReleaseBad, ReleaseFree, ReleaseOne, ReleaseEnd, lockVars
  <2>6. CASE ChooseNobody \/ ChooseReaders \/ AdmitEnd \/ AdmitSpin
    BY <1>3, <2>6 DEF ChooseNobody, ChooseReaders, AdmitEnd, AdmitSpin, vars, lockVars
  <2>7. CASE ChooseWriter \/ AdmitReader
    BY <2>3, <2>7 DEF ChooseWriter, AdmitReader, GrantTopReader, GrantTopWriter
  <2> QED
    BY <1>7, <2>1, <2>2, <2>4, <2>5, <2>6, <2>7 DEF KernelStep
<1>8. CASE ClockStep
  BY <1>3, <1>8 DEF ClockStep, ClockTicks, ClockDue, Preempt, lockVars, kernelVars
<1> QED
  BY <1>2, <1>5, <1>6, <1>7, <1>8 DEF Next, vars, lockVars, kernelVars

-------------------------------------------------------------------------------
(***************************************************************************)
(* Each operation of the kernel as the step of LockService it implements.  *)
(***************************************************************************)
ServiceVars == <<OpenLocks, readers, writers, Waiting>>

\* The actions of LockService in the words of this module.
LEMMA ServiceActions ==
  ASSUME NEW l, NEW p, NEW t
  PROVE  /\ Service!Open(l) <=>
              /\ l \notin OpenLocks /\ Waiting[l] = {}
              /\ OpenLocks' = OpenLocks \cup {l}
              /\ UNCHANGED <<readers, writers, Waiting>>
         /\ Service!Close(l) <=>
              /\ l \in OpenLocks /\ OpenLocks' = OpenLocks \ {l}
              /\ readers' = [readers EXCEPT ![l] = {}]
              /\ writers' = [writers EXCEPT ![l] = {}]
              /\ UNCHANGED Waiting
         /\ Service!TurnAway(l, p, t) <=>
              /\ l \notin OpenLocks /\ <<p, t>> \in Waiting[l]
              /\ Waiting' = [Waiting EXCEPT ![l] = @ \ {<<p, t>>}]
              /\ UNCHANGED <<OpenLocks, readers, writers>>
         /\ Service!Release(l, p) <=>
              /\ p \in readers[l] \cup writers[l]
              /\ readers' = [readers EXCEPT ![l] = @ \ {p}]
              /\ writers' = [writers EXCEPT ![l] = @ \ {p}]
              /\ UNCHANGED <<OpenLocks, Waiting>>
BY DEF Service!Open, Service!Close, Service!TurnAway, Service!Release, OpenLocks,
       Waiting, Asks

\* LockService's Wait, read off the state of the locks.
LEMMA ServiceWaits ==
  ASSUME NEW l, NEW p, NEW t
  PROVE  /\ Service!Wait(l, p, t) <=>
              /\ l \in OpenLocks /\ readers[l] \cup writers[l] # {}
              /\ ~Service!WaitsSomewhere(p)
              /\ t = "READ" => \/ writers[l] # {}
                               \/ \E w \in Procs : <<w, "WRITE">> \in Waiting[l]
              /\ Waiting' = [Waiting EXCEPT ![l] = @ \cup {<<p, t>>}]
              /\ UNCHANGED <<OpenLocks, readers, writers>>
         /\ Service!Acquire(l, p, t) <=>
              /\ l \in OpenLocks /\ writers[l] = {}
              /\ <<p, t>> \in Waiting[l] \/ ~Service!WaitsSomewhere(p)
              /\ Waiting' = [Waiting EXCEPT ![l] = @ \ {<<p, t>>}]
              /\ \/ /\ t = "READ" /\ readers' = [readers EXCEPT ![l] = @ \cup {p}]
                    /\ UNCHANGED writers
                 \/ /\ t = "WRITE" /\ readers[l] = {}
                    /\ writers' = [writers EXCEPT ![l] = @ \cup {p}]
                    /\ UNCHANGED readers
              /\ UNCHANGED OpenLocks
         /\ Service!WaitsSomewhere(p) <=>
              \E k \in Locks, u \in {"READ", "WRITE"} : <<p, u>> \in Waiting[k]
BY DEF Service!Wait, Service!Acquire, Service!Busy, Service!WaitsSomewhere,
       Service!Requests, OpenLocks, Waiting, Asks

\* A step of one of these kinds is a step of LockService.
LEMMA ServiceNext ==
  ASSUME NEW l \in Locks, NEW p \in Procs, NEW t \in {"READ", "WRITE"},
         \/ Service!Open(l) \/ Service!Close(l) \/ Service!Release(l, p)
         \/ Service!Wait(l, p, t) \/ Service!Acquire(l, p, t)
         \/ Service!TurnAway(l, p, t)
         \/ UNCHANGED ServiceVars
  PROVE  [Service!Next]_(Service!svars)
BY DEF Service!Next, Service!svars, Service!Requests, ServiceVars, OpenLocks, Waiting,
       Asks

\* A process that does not wait for a lock has no request on a list.
LEMMA CurrAsksNothing ==
  ASSUME TypeInv, QueuesInv
  PROVE  /\ ~Service!WaitsSomewhere(currpid)
         /\ \A l \in Locks : \A t : <<currpid, t>> \notin Waiting[l]
<1>1. ASSUME NEW l \in Locks, NEW t, <<currpid, t>> \in Waiting[l]
      PROVE  currpid \in Pids(waitq[l])
  BY <1>1 DEF Waiting, Asks, Pids
<1>2. \A l \in Locks : \A t : <<currpid, t>> \notin Waiting[l]
  BY <1>1, CurrWaitsNowhere
<1> QED
  BY <1>2, ServiceWaits

\* A count is 0 exactly when nobody is counted.
LEMMA NobodyCounted ==
  ASSUME TypeInv, CountsEqual, NEW l \in Locks, lstate[l] = "ACQUIRED"
  PROVE  (num_reader[l] = 0 <=> readers[l] = {}) /\ (num_writer[l] = 0 <=> writers[l] = {})
<1>1. readers[l] \in SUBSET Procs /\ writers[l] \in SUBSET Procs
  BY DEF TypeInv, HolderTypeOK
<1>2. IsFiniteSet(Procs)
  BY FS_Interval, NPROCAssumption DEF Procs
<1>3. IsFiniteSet(readers[l]) /\ IsFiniteSet(writers[l])
  BY <1>1, <1>2, FS_Subset
<1>4. /\ Cardinality(readers[l]) = 0 <=> readers[l] = {}
      /\ Cardinality(writers[l]) = 0 <=> writers[l] = {}
  BY <1>3, FS_EmptySet
<1> QED
  BY <1>4 DEF CountsEqual

\* lcreate() opens the lock it hands out.
LEMMA LcreateOpens ==
  ASSUME TypeInv, FreeAreEmpty, Lcreate
  PROVE  [Service!Next]_(Service!svars)
<1>1. Min(FreeLocks) \in FreeLocks
  BY MinOfNaturals DEF Lcreate, FreeLocks, Locks
<1> PICK l \in FreeLocks : l = Min(FreeLocks)
  BY <1>1
<1>2. /\ kpc = "user" /\ lstate' = [lstate EXCEPT ![l] = "ACQUIRED"]
      /\ UNCHANGED <<waitq, readers, writers>>
  BY DEF Lcreate, InUser, holderVars
<1>3. l \in Locks /\ lstate[l] = "FREE" /\ waitq[l] = <<>>
  BY <1>2 DEF FreeLocks, FreeAreEmpty
<1>4. Waiting[l] = {} /\ UNCHANGED Waiting
  BY <1>2, <1>3 DEF Waiting, Asks
<1>5. lstate \in [Locks -> {"FREE", "ACQUIRED"}]
  BY DEF TypeInv, LockTypeOK
<1>6. l \notin OpenLocks /\ OpenLocks' = OpenLocks \cup {l}
  BY <1>2, <1>3, <1>5 DEF OpenLocks
<1>7. Service!Open(l)
  BY <1>2, <1>4, <1>6, ServiceActions
<1> QED
  BY <1>3, <1>7 DEF Service!Next

\* ldelete() closes it.
LEMMA LdeleteCloses ==
  ASSUME TypeInv, NEW l \in Locks, Ldelete(l)
  PROVE  [Service!Next]_(Service!svars)
<1>1. /\ lstate[l] = "ACQUIRED" /\ lstate' = [lstate EXCEPT ![l] = "FREE"]
      /\ readers' = [readers EXCEPT ![l] = {}] /\ writers' = [writers EXCEPT ![l] = {}]
      /\ UNCHANGED waitq
  BY DEF Ldelete
<1>2. lstate \in [Locks -> {"FREE", "ACQUIRED"}]
  BY DEF TypeInv, LockTypeOK
<1>3. l \in OpenLocks /\ OpenLocks' = OpenLocks \ {l}
  BY <1>1, <1>2 DEF OpenLocks
<1>4. UNCHANGED Waiting
  BY <1>1 DEF Waiting, Asks
<1>5. Service!Close(l)
  BY <1>1, <1>3, <1>4, ServiceActions
<1> QED
  BY <1>5 DEF Service!Next

\* A process that lock() makes wait waits for a lock that is held, and a reader
\* among readers because a writer waits.
LEMMA LockWaits ==
  ASSUME TypeInv, QueuesInv, CountsEqual,
         NEW l \in Locks, NEW type \in Types, NEW priority \in WaitPrios,
         LockWait(l, type, priority)
  PROVE  [Service!Next]_(Service!svars)
<1> PICK p \in Procs : p = currpid
  BY ProcInvParts DEF TypeInv
<1> DEFINE entry == [pid |-> p, key |-> priority, type |-> type]
<1>1. /\ type \in {"READ", "WRITE"} /\ entry \in Waiters
      /\ <<entry.pid, entry.type>> = <<p, type>>
  BY TypesAssumption, PriosAssumption DEF Waiters
<1>2. /\ lstate[l] = "ACQUIRED" /\ MustWait(l, type, priority)
      /\ waitq' = [waitq EXCEPT ![l] = Insert(@, entry)]
      /\ UNCHANGED <<lstate, readers, writers>>
  BY DEF LockWait, holderVars
<1> HIDE DEF entry
<1>3. waitq \in [Locks -> Seq(Waiters)] /\ waitq[l] \in Seq(Waiters)
  BY DEF TypeInv, LockTypeOK
<1>4. Asks(Insert(waitq[l], entry)) = Asks(waitq[l]) \cup {<<p, type>>}
  <2>1. ToSet(Insert(waitq[l], entry)) = ToSet(waitq[l]) \cup {entry}
    <3>1. waitq[l] \in Seq(Waiters)
      BY <1>3
    <3>2. entry \in Waiters
      BY <1>1
    <3> QED
      BY <3>1, <3>2, InsertElements
  <2>2. /\ Asks(waitq[l]) = {<<e.pid, e.type>> : e \in ToSet(waitq[l])}
        /\ Asks(Insert(waitq[l], entry))
             = {<<e.pid, e.type>> : e \in ToSet(Insert(waitq[l], entry))}
    BY AsksOfEntries
  <2> QED
    BY <1>1, <2>1, <2>2
<1>5. Waiting' = [Waiting EXCEPT ![l] = @ \cup {<<p, type>>}]
  <2>1. waitq' = [waitq EXCEPT ![l] = Insert(waitq[l], entry)]
    BY <1>2
  <2>2. Waiting' = [Waiting EXCEPT ![l] = Asks(Insert(waitq[l], entry))]
    BY <1>3, <2>1, WaitingChanges
  <2> QED
    BY <1>4, <2>2 DEF Waiting
<1>6. readers[l] \cup writers[l] # {}
  BY <1>2, NobodyCounted DEF MustWait
<1>7. ASSUME type = "READ"
      PROVE  writers[l] # {} \/ \E w \in Procs : <<w, "WRITE">> \in Waiting[l]
  <2>1. CASE num_writer[l] # 0
    BY <1>2, <2>1, NobodyCounted
  <2>2. CASE WriterAbove(l, priority)
    <3>1. PICK i \in DOMAIN waitq[l] : waitq[l][i].type = "WRITE"
      BY <2>2 DEF WriterAbove
    <3>2. waitq[l][i].pid \in Procs
      <4>1. waitq[l] \in Seq(Waiters) /\ DOMAIN waitq[l] = 1..Len(waitq[l])
        BY <1>3, LenProperties
      <4>2. waitq[l][i] \in Waiters
        BY <4>1
      <4> QED
        BY <4>2 DEF Waiters
    <3>3. <<waitq[l][i].pid, "WRITE">> \in Waiting[l]
      BY <3>1 DEF Waiting, Asks
    <3> QED
      BY <3>2, <3>3
  <2> QED
    BY <1>2, <1>7, <2>1, <2>2 DEF MustWait
<1>8. /\ l \in OpenLocks /\ UNCHANGED OpenLocks
      /\ ~Service!WaitsSomewhere(p)
  BY <1>2, CurrAsksNothing DEF OpenLocks
<1>9. Service!Wait(l, p, type)
  BY <1>2, <1>5, <1>6, <1>7, <1>8, ServiceWaits
<1> QED
  BY <1>1, <1>9, ServiceNext

\* A process that lock() lets in takes a lock it may hold.
LEMMA LockAcquires ==
  ASSUME TypeInv, CountsInv, QueuesInv, CountsEqual,
         NEW l \in Locks, NEW type \in Types, NEW priority \in WaitPrios,
         LockGrant(l, type, priority)
  PROVE  [Service!Next]_(Service!svars)
<1> PICK p \in Procs : p = currpid
  BY ProcInvParts DEF TypeInv
<1>1. /\ type \in {"READ", "WRITE"} /\ lstate[l] = "ACQUIRED"
      /\ ~MustWait(l, type, priority) /\ UNCHANGED <<lstate, waitq>>
      /\ IF type = "WRITE"
         THEN writers' = [writers EXCEPT ![l] = @ \cup {p}] /\ UNCHANGED readers
         ELSE readers' = [readers EXCEPT ![l] = @ \cup {p}] /\ UNCHANGED writers
  BY TypesAssumption DEF LockGrant
<1>2. num_reader[l] = 0 \/ num_writer[l] = 0
  BY <1>1 DEF CountsInv, CountsExclusive
<1>3. writers[l] = {} /\ (type = "WRITE" => readers[l] = {})
  BY <1>1, <1>2, NobodyCounted DEF MustWait
<1>4. /\ l \in OpenLocks /\ UNCHANGED <<OpenLocks, Waiting>>
      /\ ~Service!WaitsSomewhere(p) /\ <<p, type>> \notin Waiting[l]
  BY <1>1, CurrAsksNothing DEF OpenLocks, Waiting
<1>5. Waiting' = [Waiting EXCEPT ![l] = @ \ {<<p, type>>}]
  BY <1>4 DEF Waiting
<1>6. Service!Acquire(l, p, type)
  BY <1>1, <1>3, <1>4, <1>5, ServiceWaits
<1> QED
  BY <1>1, <1>6, ServiceNext

\* The waiter at the tail, once releaseall() lets it in, is no longer among
\* the waiters, and the lock it takes was held by readers at most.
LEMMA GrantAcquires ==
  ASSUME TypeInv, QueuesInv, CountsEqual, waitq[klock] # <<>>,
         lstate[klock] = "ACQUIRED", num_writer[klock] = 0,
         \/ Top(waitq[klock]).type = "READ" /\ GrantTopReader(klock)
         \/ Top(waitq[klock]).type = "WRITE" /\ num_reader[klock] = 0
                                             /\ GrantTopWriter(klock)
  PROVE  [Service!Next]_(Service!svars)
<1> PICK l \in Locks : l = klock
  BY DEF TypeInv, KernelTypeOK
<1>1. /\ waitq \in [Locks -> Seq(Waiters)] /\ waitq[l] \in Seq(Waiters)
      /\ Distinct(waitq[l])
  BY DEF TypeInv, LockTypeOK, QueuesInv, WaitsMatch
<1>2. Len(waitq[l]) \in DOMAIN waitq[l]
  BY <1>1, LenProperties, EmptySeq
<1>3. Top(waitq[l]) \in ToSet(waitq[l]) /\ Top(waitq[l]) \in Waiters
  BY <1>1, <1>2, LenProperties DEF Top, ToSet
<1> PICK e \in Waiters : e = Top(waitq[l])
  BY <1>3
<1>4. e.pid \in Procs /\ e.type \in {"READ", "WRITE"}
  BY DEF Waiters
<1>5. /\ waitq' = [waitq EXCEPT ![l] = Dequeue(waitq[l], e.pid)] /\ UNCHANGED lstate
      /\ \/ /\ e.type = "READ" /\ readers' = [readers EXCEPT ![l] = @ \cup {e.pid}]
            /\ UNCHANGED writers
         \/ /\ e.type = "WRITE" /\ num_reader[l] = 0
            /\ writers' = [writers EXCEPT ![l] = @ \cup {e.pid}] /\ UNCHANGED readers
  BY DEF GrantTopReader, GrantTopWriter, GrantTop
<1>6. Asks(Dequeue(waitq[l], e.pid)) = Asks(waitq[l]) \ {<<e.pid, e.type>>}
  <2>1. ToSet(Dequeue(waitq[l], e.pid)) = {d \in ToSet(waitq[l]) : d.pid # e.pid}
    BY <1>1, DequeueElements
  <2> QED
    BY <1>1, <1>3, <2>1, AsksLess
<1>7. Waiting' = [Waiting EXCEPT ![l] = Asks(Dequeue(waitq[l], e.pid))]
  BY <1>1, <1>5, WaitingChanges
<1>8. /\ Waiting' = [Waiting EXCEPT ![l] = @ \ {<<e.pid, e.type>>}]
      /\ <<e.pid, e.type>> \in Waiting[l]
  <2>1. Waiting[l] = Asks(waitq[l]) /\ Asks(waitq[l]) = {<<d.pid, d.type>> : d \in ToSet(waitq[l])}
    BY AsksOfEntries DEF Waiting
  <2>2. Waiting' = [Waiting EXCEPT ![l] = Waiting[l] \ {<<e.pid, e.type>>}]
    BY <1>6, <1>7, <2>1
  <2> QED
    BY <1>3, <2>1, <2>2 DEF Waiting
<1>9. /\ l \in OpenLocks /\ UNCHANGED OpenLocks /\ writers[l] = {}
      /\ num_reader[l] = 0 => readers[l] = {}
  BY <1>5, NobodyCounted DEF OpenLocks
<1> PICK p \in Procs, t \in {"READ", "WRITE"} : p = e.pid /\ t = e.type
  BY <1>4
<1>10. Service!Acquire(l, p, t)
  <2>1. /\ Waiting' = [Waiting EXCEPT ![l] = @ \ {<<p, t>>}]
        /\ <<p, t>> \in Waiting[l]
    BY <1>8
  <2>2. \/ t = "READ" /\ readers' = [readers EXCEPT ![l] = @ \cup {p}] /\ UNCHANGED writers
        \/ /\ t = "WRITE" /\ readers[l] = {}
           /\ writers' = [writers EXCEPT ![l] = @ \cup {p}] /\ UNCHANGED readers
    BY <1>5, <1>9
  <2>3. /\ l \in OpenLocks /\ writers[l] = {}
        /\ <<p, t>> \in Waiting[l] \/ ~Service!WaitsSomewhere(p)
        /\ Waiting' = [Waiting EXCEPT ![l] = @ \ {<<p, t>>}]
        /\ \/ /\ t = "READ" /\ readers' = [readers EXCEPT ![l] = @ \cup {p}]
              /\ UNCHANGED writers
           \/ /\ t = "WRITE" /\ readers[l] = {}
              /\ writers' = [writers EXCEPT ![l] = @ \cup {p}]
              /\ UNCHANGED readers
        /\ UNCHANGED OpenLocks
    BY <1>9, <2>1, <2>2
  <2> QED
    BY <2>3 DEF Service!Acquire, Service!WaitsSomewhere, Service!Requests, OpenLocks,
       Waiting, Asks
<1> QED
  BY <1>10, ServiceNext

\* ldelete() turns the waiter at the head away from a lock that is closed.
LEMMA DrainTurnsAway ==
  ASSUME TypeInv, CountsInv, QueuesInv, DrainOne
  PROVE  [Service!Next]_(Service!svars)
<1> PICK l \in Locks : l = klock
  BY DEF TypeInv, KernelTypeOK
<1>1. /\ waitq \in [Locks -> Seq(Waiters)] /\ waitq[l] \in Seq(Waiters)
      /\ Distinct(waitq[l]) /\ waitq[l] # <<>>
      /\ lstate[l] = "FREE" /\ waitq' = [waitq EXCEPT ![l] = Tail(waitq[l])]
      /\ UNCHANGED <<lstate, readers, writers>>
  BY DEF TypeInv, LockTypeOK, QueuesInv, WaitsMatch, CountsInv, DrainOne, holderVars
<1>2. Len(waitq[l]) \in Nat /\ Len(waitq[l]) # 0 /\ DOMAIN waitq[l] = 1..Len(waitq[l])
  BY <1>1, LenProperties, EmptySeq
<1>3. 1 \in DOMAIN waitq[l] /\ Head(waitq[l]) = waitq[l][1]
  BY <1>1, <1>2
<1>4. Head(waitq[l]) \in ToSet(waitq[l]) /\ Head(waitq[l]) \in Waiters
  BY <1>1, <1>3, TailProperties DEF ToSet
<1> PICK e \in Waiters : e = Head(waitq[l])
  BY <1>4
<1>5. e.pid \in Procs /\ e.type \in {"READ", "WRITE"}
  BY DEF Waiters
<1>11. e \in ToSet(waitq[l])
  BY <1>4
<1>6. Asks(Tail(waitq[l])) = Asks(waitq[l]) \ {<<e.pid, e.type>>}
  <2>1. ToSet(Tail(waitq[l])) = {d \in ToSet(waitq[l]) : d.pid # e.pid}
    BY <1>1, TailElements
  <2> DEFINE list == waitq[l]
             rest == Tail(waitq[l])
  <2>2. Distinct(list) /\ e \in ToSet(list)
    BY <1>1, <1>11
  <2>3. ToSet(rest) = {d \in ToSet(list) : d.pid # e.pid}
    BY <2>1
  <2> HIDE DEF list, rest
  <2>4. Asks(rest) = Asks(list) \ {<<e.pid, e.type>>}
    BY <2>2, <2>3, AsksLess
  <2> QED
    BY <2>4 DEF list, rest
<1>7. Waiting' = [Waiting EXCEPT ![l] = Asks(Tail(waitq[l]))]
  BY <1>1, WaitingChanges
<1>8. /\ Waiting' = [Waiting EXCEPT ![l] = @ \ {<<e.pid, e.type>>}]
      /\ <<e.pid, e.type>> \in Waiting[l]
  <2>1. Waiting[l] = Asks(waitq[l]) /\ Asks(waitq[l]) = {<<d.pid, d.type>> : d \in ToSet(waitq[l])}
    BY AsksOfEntries DEF Waiting
  <2>2. Waiting' = [Waiting EXCEPT ![l] = Waiting[l] \ {<<e.pid, e.type>>}]
    BY <1>6, <1>7, <2>1
  <2> QED
    BY <1>4, <2>1, <2>2 DEF Waiting
<1>9. l \notin OpenLocks /\ UNCHANGED OpenLocks
  BY <1>1 DEF OpenLocks
<1>10. Service!TurnAway(l, e.pid, e.type)
  BY <1>1, <1>8, <1>9, ServiceActions
<1> QED
  BY <1>5, <1>10, ServiceNext

\* A process with discipline releases a lock it holds.
LEMMA ReleaseReleases ==
  ASSUME Disciplined, TypeInv, HoldersInv, ReleaseOne
  PROVE  [Service!Next]_(Service!svars)
<1> PICK p \in Procs : p = currpid
  BY ProcInvParts DEF TypeInv
<1>1. /\ kargs \in Seq(Int) /\ kargs # <<>> /\ Head(kargs) \in Locks
      /\ MayRelease(kargs)
  BY DEF TypeInv, KernelTypeOK, HoldersInv, ReleaseOne
<1> PICK l \in Locks : l = Head(kargs)
  BY <1>1
<1>2. /\ lstate[l] = "ACQUIRED" /\ UNCHANGED <<lstate, waitq>>
      /\ readers' = [readers EXCEPT ![l] = @ \ {p}]
      /\ writers' = [writers EXCEPT ![l] = @ \ {p}]
  BY DEF ReleaseOne
<1>3. p \in readers[l] \cup writers[l]
  <2>1. 1 \in DOMAIN kargs /\ kargs[1] = l
    BY <1>1
  <2>2. \E k \in Locks : kargs[1] = k /\ currpid \in Holders(k)
    BY <1>1, <2>1 DEF MayRelease
  <2> QED
    BY <2>1, <2>2 DEF Holders
<1>4. UNCHANGED <<OpenLocks, Waiting>>
  BY <1>2 DEF OpenLocks, Waiting, Asks
<1>5. Service!Release(l, p)
  BY <1>2, <1>3, <1>4, ServiceActions
<1> QED
  BY <1>5, ServiceNext

\* Every step but a kill is a step of LockService or changes nothing it sees.
LEMMA ServiceStep ==
  ASSUME Disciplined, "kill" \notin Calls, TypeInv, CountsInv, HoldersInv,
         QueuesInv, CountsEqual, FreeAreEmpty, [Next]_vars
  PROVE  [Service!Next]_(Service!svars)
<1>1. CASE UNCHANGED <<lstate, waitq, readers, writers>>
  BY <1>1 DEF Service!svars
<1>2. CASE LockCall
  BY <1>1, <1>2, LcreateOpens, LdeleteCloses, LockWaits, LockAcquires
     DEF LockCall, LcreateFull, Releaseall, lockVars, holderVars
<1>3. CASE ProcessCall
  BY <1>1, <1>3 DEF ProcessCall, Create, CreateBadPrio, Resume, Suspend, Chprio,
     KillSelf, KillIdle, KillBlocked, Sleep, InUser, lockVars, holderVars
<1>4. CASE KernelStep
  <2>1. CASE DrainOne
    BY <2>1, DrainTurnsAway
  <2>2. CASE ReleaseOne
    BY <2>2, ReleaseReleases
  <2>3. CASE ChooseWriter
    <3>1. /\ kpc = "choose" /\ waitq[klock] # <<>> /\ Top(waitq[klock]).type = "WRITE"
          /\ num_writer[klock] = 0 /\ num_reader[klock] = 0 /\ GrantTopWriter(klock)
      BY <2>3 DEF ChooseWriter, WriterNext
    <3>2. lstate[klock] = "ACQUIRED"
      BY <3>1 DEF CountsInv
    <3> QED
      BY <3>1, <3>2, GrantAcquires
  <2>4. CASE AdmitReader
    <3>1. /\ kpc = "admit" /\ waitq[klock] # <<>> /\ Top(waitq[klock]).type = "READ"
          /\ GrantTopReader(klock)
      BY <2>4 DEF AdmitReader
    <3>2. lstate[klock] = "ACQUIRED" /\ num_writer[klock] = 0
      BY <3>1 DEF CountsInv
    <3> QED
      BY <3>1, <3>2, GrantAcquires
  <2>5. CASE \/ DrainEnd \/ ReleaseBad \/ ReleaseFree \/ ReleaseEnd \/ ChooseNobody
             \/ ChooseReaders \/ AdmitEnd \/ AdmitSpin \/ WakeEnd
             \/ \E p \in kdue : WakeOne(p)
    BY <1>1, <2>5 DEF DrainEnd, ReleaseBad, ReleaseFree, ReleaseEnd, ChooseNobody,
       ChooseReaders, AdmitEnd, AdmitSpin, WakeEnd, WakeOne, vars, lockVars, holderVars
  <2> QED
    BY <1>4, <2>1, <2>2, <2>3, <2>4, <2>5 DEF KernelStep
<1>5. CASE ClockStep
  BY <1>1, <1>5 DEF ClockStep, ClockDue, Preempt, lockVars, holderVars
<1> QED
  BY <1>1, <1>2, <1>3, <1>4, <1>5 DEF Next, vars, lockVars, holderVars

\* Initially no lock is open, nobody holds one and nobody waits.
LEMMA ServiceInit ==
  ASSUME Init
  PROVE  Service!Init
<1>1. /\ lstate = [l \in Locks |-> "FREE"] /\ waitq = [l \in Locks |-> <<>>]
      /\ readers = [l \in Locks |-> {}] /\ writers = [l \in Locks |-> {}]
  BY DEF Init
<1>2. \A l \in Locks : Asks(waitq[l]) = {}
  BY <1>1 DEF Asks
<1>3. OpenLocks = {} /\ Waiting = [l \in Locks |-> {}]
  BY <1>1, <1>2 DEF OpenLocks, Waiting
<1> QED
  BY <1>1, <1>3 DEF Service!Init, OpenLocks, Waiting, Asks

\* The free descriptors have no waiters left in any state.
LEMMA FreeAreEmptyInvariant == Spec => []FreeAreEmpty
<1>1. Init => FreeAreEmpty
  BY DEF Init, FreeAreEmpty
<1>2. TypeInv /\ CountsInv /\ FreeAreEmpty /\ [Next]_vars => FreeAreEmpty'
  BY FreeAreEmptyStep
<1> QED
  BY <1>1, <1>2, TypeInvariant, CountsInvariant, PTL DEF Spec

(***************************************************************************)
(* The locks implement LockService: lock() makes a process wait only when  *)
(* it must, releaseall() hands a lock only to a waiter it is compatible    *)
(* with, and ldelete() turns every waiter away before lcreate() hands the  *)
(* descriptor out again, for processes with discipline that nobody kills   *)
(* (sys/lock.c, sys/releaseall.c, sys/ldelete.c).                          *)
(***************************************************************************)
THEOREM LocksImplement ==
  ASSUME Disciplined, "kill" \notin Calls
  PROVE  Spec => ImplementsService
<1>1. Init => Service!Init
  BY ServiceInit
<1>2. TypeInv /\ CountsInv /\ HoldersInv /\ QueuesInv /\ CountsEqual /\ FreeAreEmpty
        /\ [Next]_vars => [Service!Next]_(Service!svars)
  BY ServiceStep
<1>3. Spec => [](HoldersInv /\ WaitersHoldNothing) /\ []CountsEqual
  BY DisciplineInvariant, CountsEqualInvariant
<1> QED
  BY <1>1, <1>2, <1>3, TypeInvariant, CountsInvariant, QueuesInvariant,
     FreeAreEmptyInvariant, PTL DEF Spec, ImplementsService, Service!Spec

================================================================================
