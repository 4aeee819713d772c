---------------------------- MODULE XinuProcProofs ----------------------------
(***************************************************************************)
(* What resched() and newpid() return, for every number of processes.      *)
(***************************************************************************)
EXTENDS XinuProc, XinuQueueProofs

ReadyEntries == [pid : Procs, key : 0..MAXINT]

\* The null process can run: it is ready, or it has the CPU.  It keeps the
\* ready list from being empty whenever a process gives up the CPU.
NullCanRun(ps, rd, c) ==
  NULLPROC \in Pids(rd) \/ (c = NULLPROC /\ ps[NULLPROC] = "PRCURR")

\* The table has a slot for the null process.
LEMMA NullIsProc == NULLPROC \in Procs
BY NPROCAssumption DEF NULLPROC, Procs

\* What ready() links is an entry for the process, keyed by its priority.
LEMMA ReadyEntryType ==
  ASSUME NEW pp \in [Procs -> 0..MAXINT], NEW p \in Procs
  PROVE  ReadyEntry(pp, p) \in ReadyEntries /\ ReadyEntry(pp, p).pid = p
BY DEF ReadyEntry, ReadyEntries

\* ready() links the process and keeps the others.
LEMMA ReadyInsert ==
  ASSUME NEW pp \in [Procs -> 0..MAXINT], NEW p \in Procs,
         NEW rd \in Seq(ReadyEntries)
  PROVE  /\ Insert(rd, ReadyEntry(pp, p)) \in Seq(ReadyEntries)
         /\ Pids(Insert(rd, ReadyEntry(pp, p))) = Pids(rd) \cup {p}
<1> DEFINE e == ReadyEntry(pp, p)
<1>1. e \in ReadyEntries /\ e.pid = p
  BY ReadyEntryType
<1> HIDE DEF e
<1>2. Insert(rd, e) \in Seq(ReadyEntries) /\ Pids(Insert(rd, e)) = Pids(rd) \cup {e.pid}
  BY <1>1, InsertProperties, Zenon
<1> QED
  BY <1>1, <1>2 DEF e

\* The scheduling priority is never negative: pinh is 0 or a priority.
LEMMA EffType ==
  ASSUME ProcTypeOK, NEW ih \in [Procs -> 0..MAXINT], NEW p \in Procs
  PROVE  Eff(ih, p) \in 0..MAXINT
BY DEF Eff, ProcTypeOK

\* The scan of a list that is not empty finds a process on it, and none on it
\* has a larger scheduling priority.
LEMMA ChosenOnList ==
  ASSUME ProcTypeOK, NEW ih \in [Procs -> 0..MAXINT],
         NEW rd \in Seq(ReadyEntries), rd # <<>>
  PROVE  /\ Chosen(rd, ih) \in Pids(rd) /\ Chosen(rd, ih) \in Procs
         /\ \A q \in Pids(rd) : Eff(ih, q) <= Eff(ih, Chosen(rd, ih))
<1> DEFINE n == Len(rd)
           S == {Eff(ih, rd[i].pid) : i \in DOMAIN rd}
           C == Contenders(rd, ih)
<1>1. n \in Nat /\ n >= 1 /\ DOMAIN rd = 1..n /\ rd \in [1..n -> ReadyEntries]
  BY LenProperties, EmptySeq
<1>2. \A i \in 1..n : rd[i].pid \in Procs
  BY <1>1 DEF ReadyEntries
<1>3. S \in SUBSET Int /\ S # {} /\ \A y \in S : y <= MAXINT
  BY <1>1, <1>2, EffType, MAXINTAssumption
<1>4. Max(S) \in S /\ \A y \in S : y <= Max(S)
  <2> HIDE DEF S
  <2>1. MAXINT \in Int
    BY MAXINTAssumption
  <2> QED
    BY <1>3, <2>1, MaxOfBounded, Zenon
<1>5. C # {}
  <2>1. PICK i \in DOMAIN rd : Max(S) = Eff(ih, rd[i].pid)
    BY <1>4
  <2>2. \A j \in DOMAIN rd : Eff(ih, rd[j].pid) <= Eff(ih, rd[i].pid)
    BY <1>4, <2>1
  <2> QED
    BY <2>2 DEF Contenders
<1>6. C \in SUBSET Int /\ \A y \in C : y <= n
  BY <1>1 DEF Contenders
<1>7. Max(C) \in C
  <2> HIDE DEF C, n
  <2>1. n \in Int
    BY <1>1
  <2> QED
    BY <2>1, <1>5, <1>6, MaxOfBounded, Zenon
<1>8. Max(C) \in DOMAIN rd
  BY <1>7 DEF Contenders
<1>9. \A j \in DOMAIN rd : Eff(ih, rd[j].pid) <= Eff(ih, rd[Max(C)].pid)
  BY <1>7 DEF Contenders
<1> QED
  BY <1>1, <1>2, <1>8, <1>9 DEF Chosen, Pids

\* resched() leaves a well-typed table and list, on which the null process
\* can run, if its caller has.
LEMMA ReschedType ==
  ASSUME ProcTypeOK, NEW ps \in [Procs -> PStates],
         NEW rd \in Seq(ReadyEntries), NEW ih \in [Procs -> 0..MAXINT],
         NullCanRun(ps, rd, currpid), Resched(ps, rd, ih)
  PROVE  /\ pstate' \in [Procs -> PStates]
         /\ rdy' \in Seq(ReadyEntries)
         /\ currpid' \in Procs
         /\ NullCanRun(pstate', rdy', currpid')
<1>1. CASE ~GivesUpCpu(ps, rd, ih)
  BY <1>1 DEF Resched, ProcTypeOK
<1>2. CASE GivesUpCpu(ps, rd, ih)
  <2> DEFINE p == Chosen(rd, ih)
             yields == ps[currpid] = "PRCURR"
             states == IF yields THEN [ps EXCEPT ![currpid] = "PRREADY"] ELSE ps
             list   == IF yields THEN Insert(rd, ReadyEntry(pprio, currpid)) ELSE rd
  <2>1. currpid \in Procs /\ pprio \in [Procs -> 0..MAXINT]
    BY DEF ProcTypeOK
  <2>2. rd # <<>>
    <3>1. CASE NULLPROC \in Pids(rd)
      BY <3>1 DEF Pids
    <3>2. CASE currpid = NULLPROC /\ ps[NULLPROC] = "PRCURR"
      BY <3>2, <1>2 DEF GivesUpCpu, TailBelowCurrent
    <3> QED
      BY <3>1, <3>2 DEF NullCanRun
  <2>3. p \in Procs
    BY <2>2, ChosenOnList
  <2>4. /\ currpid' = p
        /\ pstate' = [states EXCEPT ![p] = "PRCURR"]
        /\ rdy' = Dequeue(list, p)
    BY <1>2 DEF Resched, SwitchTo
  <2>5. states \in [Procs -> PStates]
    BY <2>1 DEF PStates
  <2>6. /\ list \in Seq(ReadyEntries)
        /\ Pids(rd) \subseteq Pids(list)
        /\ yields => currpid \in Pids(list)
    BY <2>1, ReadyInsert
  <2> HIDE DEF p, states, list
  <2>7. rdy' \in Seq(ReadyEntries) /\ Pids(list) \ {p} \subseteq Pids(rdy')
    BY <2>4, <2>6, DequeueProperties
  <2>8. pstate' \in [Procs -> PStates] /\ pstate'[p] = "PRCURR"
    BY <2>3, <2>4, <2>5 DEF PStates
  <2>9. NULLPROC \in Pids(list)
    BY <2>6 DEF NullCanRun
  <2> QED
    BY <2>3, <2>4, <2>7, <2>8, <2>9 DEF NullCanRun
<1> QED
  BY <1>1, <1>2

-------------------------------------------------------------------------------
(***************************************************************************)
(* The ready list against the states of the processes.                     *)
(***************************************************************************)

\* The ready list holds the ready processes, each once and in key order.
ReadyMatches(ps, rd) ==
  /\ Pids(rd) = {p \in Procs : ps[p] = "PRREADY"}
  /\ Sorted(rd) /\ Distinct(rd)

\* A process that is not ready is made ready and linked.
LEMMA ReadyOne ==
  ASSUME NEW ps \in [Procs -> PStates], NEW rd \in Seq(ReadyEntries),
         ReadyMatches(ps, rd), NEW pp \in [Procs -> 0..MAXINT],
         NEW p \in Procs, ps[p] # "PRREADY"
  PROVE  ReadyMatches([ps EXCEPT ![p] = "PRREADY"], Insert(rd, ReadyEntry(pp, p)))
<1> DEFINE e == ReadyEntry(pp, p)
<1>1. e \in ReadyEntries /\ e.pid = p
  BY ReadyEntryType
<1>2. \A x \in ReadyEntries : x.key \in Int
  BY MAXINTAssumption DEF ReadyEntries
<1>3. Sorted(rd) /\ Distinct(rd) /\ p \notin Pids(rd)
  BY DEF ReadyMatches
<1> HIDE DEF e
<1>4. Sorted(Insert(rd, e))
  BY <1>1, <1>2, <1>3, InsertOrder, Zenon
<1>5. Distinct(Insert(rd, e))
  BY <1>1, <1>3, InsertDistinct, Zenon
<1>6. Pids(Insert(rd, e)) = Pids(rd) \cup {p}
  BY ReadyInsert DEF e
<1>7. Pids(rd) \cup {p} = {q \in Procs : [ps EXCEPT ![p] = "PRREADY"][q] = "PRREADY"}
  BY DEF ReadyMatches
<1> QED
  BY <1>4, <1>5, <1>6, <1>7 DEF ReadyMatches, e

\* A process is taken off the list, if it is on it, and gets another state.
LEMMA UnreadyOne ==
  ASSUME NEW ps \in [Procs -> PStates], NEW rd \in Seq(ReadyEntries),
         ReadyMatches(ps, rd), NEW p \in Procs, NEW st, st # "PRREADY"
  PROVE  /\ ReadyMatches([ps EXCEPT ![p] = st], Dequeue(rd, p))
         /\ ps[p] # "PRREADY" => ReadyMatches([ps EXCEPT ![p] = st], rd)
<1>1. /\ Sorted(Dequeue(rd, p)) /\ Distinct(Dequeue(rd, p))
      /\ Pids(Dequeue(rd, p)) = Pids(rd) \ {p}
  BY DequeueOrder, DequeueDistinct DEF ReadyMatches
<1>2. Pids(rd) \ {p} = {q \in Procs : [ps EXCEPT ![p] = st][q] = "PRREADY"}
  BY DEF ReadyMatches
<1>3. ps[p] # "PRREADY" => Pids(rd) \ {p} = Pids(rd)
  BY DEF ReadyMatches
<1> QED
  BY <1>1, <1>2, <1>3 DEF ReadyMatches

\* resched() leaves one process running and the ready ones on the list; the
\* others keep the state its caller left them in.
LEMMA ReschedMatches ==
  ASSUME ProcTypeOK, NEW ps \in [Procs -> PStates],
         NEW rd \in Seq(ReadyEntries), NEW ih \in [Procs -> 0..MAXINT],
         NullCanRun(ps, rd, currpid), Resched(ps, rd, ih),
         ReadyMatches(ps, rd), \A p \in Procs : ps[p] = "PRCURR" => p = currpid
  PROVE  /\ ReadyMatches(pstate', rdy')
         /\ \A p \in Procs : pstate'[p] = "PRCURR" <=> p = currpid'
         /\ \A p \in Procs : ps[p] \notin {"PRCURR", "PRREADY"} => pstate'[p] = ps[p]
         /\ \A p \in Procs : ps[p] \in {"PRCURR", "PRREADY"} =>
                               pstate'[p] \in {"PRCURR", "PRREADY"}
<1>0. currpid \in Procs /\ pprio \in [Procs -> 0..MAXINT]
  BY DEF ProcTypeOK
<1>1. CASE ~GivesUpCpu(ps, rd, ih)
  <2>1. pstate' = ps /\ rdy' = rd /\ currpid' = currpid
    BY <1>1 DEF Resched
  <2>2. ps[currpid] = "PRCURR"
    BY <1>1 DEF GivesUpCpu
  <2> QED
    BY <2>1, <2>2
<1>2. CASE GivesUpCpu(ps, rd, ih)
  <2> DEFINE p == Chosen(rd, ih)
             yields == ps[currpid] = "PRCURR"
             states == IF yields THEN [ps EXCEPT ![currpid] = "PRREADY"] ELSE ps
             list   == IF yields THEN Insert(rd, ReadyEntry(pprio, currpid)) ELSE rd
  <2>1. rd # <<>>
    <3>1. CASE NULLPROC \in Pids(rd)
      BY <3>1 DEF Pids
    <3>2. CASE currpid = NULLPROC /\ ps[NULLPROC] = "PRCURR"
      BY <3>2, <1>2 DEF GivesUpCpu, TailBelowCurrent
    <3> QED
      BY <3>1, <3>2 DEF NullCanRun
  <2>2. p \in Procs /\ ps[p] = "PRREADY"
    BY <2>1, ChosenOnList DEF ReadyMatches
  <2>3. /\ currpid' = p
        /\ pstate' = [states EXCEPT ![p] = "PRCURR"]
        /\ rdy' = Dequeue(list, p)
    BY <1>2 DEF Resched, SwitchTo
  <2>4. /\ states \in [Procs -> PStates] /\ list \in Seq(ReadyEntries)
        /\ ReadyMatches(states, list)
    <3>1. CASE yields
      BY <1>0, <3>1, ReadyOne, ReadyInsert DEF PStates
    <3>2. CASE ~yields
      BY <3>2
    <3> QED
      BY <3>1, <3>2
  <2>5. /\ \A q \in Procs : states[q] # "PRCURR"
        /\ \A q \in Procs : q # currpid => states[q] = ps[q]
        /\ ps[currpid] # "PRCURR" => states[currpid] = ps[currpid]
        /\ ps[currpid] = "PRCURR" => states[currpid] = "PRREADY"
    BY <1>0
  <2> HIDE DEF p, states, list
  <2>6. ReadyMatches(pstate', rdy')
    BY <2>2, <2>3, <2>4, UnreadyOne
  <2>7. \A q \in Procs : pstate'[q] = IF q = p THEN "PRCURR" ELSE states[q]
    BY <2>2, <2>3, <2>4
  <2> QED
    BY <1>0, <2>2, <2>3, <2>5, <2>6, <2>7
<1> QED
  BY <1>1, <1>2

\* When resched() hands the CPU over, no process it leaves ready has a larger
\* scheduling priority than the one that runs now.
LEMMA ReschedPicksHighest ==
  ASSUME ProcTypeOK, NEW ps \in [Procs -> PStates],
         NEW rd \in Seq(ReadyEntries), NEW ih \in [Procs -> 0..MAXINT],
         NullCanRun(ps, rd, currpid), Resched(ps, rd, ih),
         ReadyMatches(ps, rd), currpid' # currpid
  PROVE  \A p \in Procs : pstate'[p] = "PRREADY" => Eff(ih, p) <= Eff(ih, currpid')
<1> DEFINE c == Chosen(rd, ih)
           yields == ps[currpid] = "PRCURR"
           states == IF yields THEN [ps EXCEPT ![currpid] = "PRREADY"] ELSE ps
<1>0. currpid \in Procs
  BY DEF ProcTypeOK
<1>1. GivesUpCpu(ps, rd, ih)
  BY DEF Resched
<1>2. rd # <<>>
  <2>1. CASE NULLPROC \in Pids(rd)
    BY <2>1 DEF Pids
  <2>2. CASE currpid = NULLPROC /\ ps[NULLPROC] = "PRCURR"
    BY <2>2, <1>1 DEF GivesUpCpu, TailBelowCurrent
  <2> QED
    BY <2>1, <2>2 DEF NullCanRun
<1>3. currpid' = c /\ pstate' = [states EXCEPT ![c] = "PRCURR"]
  BY <1>1 DEF Resched, SwitchTo
<1>4. c \in Procs /\ \A q \in Pids(rd) : Eff(ih, q) <= Eff(ih, c)
  BY <1>2, ChosenOnList
<1>5. yields => Eff(ih, currpid) <= Eff(ih, c)
  BY <1>1 DEF GivesUpCpu
<1> HIDE DEF c
<1>6. ASSUME NEW p \in Procs, pstate'[p] = "PRREADY"
      PROVE  Eff(ih, p) <= Eff(ih, c)
  <2>1. states[p] = "PRREADY"
    BY <1>3, <1>4, <1>6
  <2>2. ps[p] = "PRREADY" \/ (yields /\ p = currpid)
    BY <1>0, <2>1
  <2> QED
    BY <1>4, <1>5, <2>2 DEF ReadyMatches
<1> QED
  BY <1>3, <1>6

-------------------------------------------------------------------------------
\* newpid() finds a free slot if there is one, and the next search starts at
\* a slot of the table.
LEMMA NewPidFree ==
  ASSUME ProcTypeOK, FreeSlots # {}
  PROVE  NewPid \in FreeSlots /\ NewPid \in UserPids /\ SlotAfter(NewPid) \in Procs
<1> DEFINE D == {SearchDistance(p) : p \in FreeSlots}
<1>1. \A p \in FreeSlots : SearchDistance(p) \in Nat
  BY NPROCAssumption DEF ProcTypeOK, FreeSlots, UserPids, Procs, SearchDistance
<1>2. \E d \in D : \A e \in D : d <= e
  BY <1>1, LeastNatural
<1>3. \E p \in FreeSlots : \A r \in FreeSlots : SearchDistance(p) <= SearchDistance(r)
  BY <1>2
<1>4. NewPid \in FreeSlots
  BY <1>3 DEF NewPid
<1>5. NewPid \in UserPids
  BY <1>4 DEF FreeSlots
<1> QED
  BY <1>4, <1>5, NPROCAssumption DEF SlotAfter, UserPids, Procs, NULLPROC
==============================================================================
