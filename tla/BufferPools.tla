------------------------------ MODULE BufferPools ------------------------------
(***************************************************************************)
(* Buffer pools (sys/mkpool.c, getbuf.c, freebuf.c, poolinit.c, mark.c) on *)
(* the semaphores of KernelServices.                                       *)
(*                                                                         *)
(* getbuf() and freebuf() are library code: interrupts are enabled between *)
(* the wait or signal and the few instructions that unlink or link a       *)
(* buffer, so another process may come in between.  pc[p] is where p is.   *)
(***************************************************************************)
EXTENDS KernelServices

CONSTANTS NBPOOLS,   \* entries of bptab
          NumBufs    \* numbers of buffers passed to mkpool()

ASSUME NBPOOLSAssumption == NBPOOLS \in Nat \ {0}
ASSUME NumBufsAssumption == NumBufs \subseteq Nat \ {0}

VARIABLES
  bpmarked,  \* the pool routines have been initialised
  bptab,     \* the pools, in the order they were made: semaphore, free buffers
  pc,        \* "idle", or the step of a library call that comes next
  poolid,    \* the pool that call works on
  held       \* buffers a process has been given, as <<pool, buffer>>

poolVars == <<bpmarked, bptab, pc, poolid, held>>
bufVars  == <<servVars, poolVars>>

PoolIds == DOMAIN bptab

At(step) == /\ currpid # NULLPROC /\ kcall[currpid] = "none"
            /\ pc[currpid] = step

Begin(call) == Calling(call) /\ pc[currpid] = "idle"

GoTo(step) == pc' = [pc EXCEPT ![currpid] = step]

-------------------------------------------------------------------------------
\* mkpool() looks at the mark with interrupts enabled.
MkpoolTest ==
  /\ Begin("mkpool")
  /\ GoTo(IF bpmarked THEN "make" ELSE "poolinit")
  /\ UNCHANGED <<servVars, bpmarked, bptab, poolid, held>>

\* Mutant of Poolinit: mark() does not look whether the location is marked.
PoolinitAlways ==
  /\ At("poolinit")
  /\ bpmarked' = TRUE
  /\ bptab' = <<>>
  /\ GoTo("make")
  /\ UNCHANGED <<servVars, poolid, held>>

\* poolinit(): mark() is OK only for the first caller, who sets nbpools to 0.
Poolinit ==
  /\ At("poolinit")
  /\ bpmarked' = TRUE
  /\ bptab' = IF bpmarked THEN bptab ELSE <<>>
  /\ GoTo("make")
  /\ UNCHANGED <<servVars, poolid, held>>

\* The buffers are linked in the order of their addresses.
Mkpool(n) ==
  /\ At("make")
  /\ GoTo("idle")
  /\ IF Len(bptab) < NBPOOLS
     THEN /\ ScreateWith(n)
          /\ bptab' = Append(bptab, [sem |-> NewSem, total |-> n,
                                     free |-> [i \in 1..n |-> i]])
     ELSE UNCHANGED <<servVars, bptab>>
  /\ UNCHANGED <<bpmarked, poolid, held>>

-------------------------------------------------------------------------------
\* getbuf(): the semaphore first, with interrupts enabled.
GetbufWait(pool) ==
  /\ Begin("getbuf")
  /\ WaitOn(bptab[pool].sem)
  /\ poolid' = [poolid EXCEPT ![currpid] = pool]
  /\ GoTo("unlink")
  /\ UNCHANGED <<bpmarked, bptab, held>>

\* Mutant of TakeFrom: bpnext is left as it was.
TakeFromKeeping(pool) ==
  /\ held' = [held EXCEPT ![currpid] = @ \cup {<<pool, Head(bptab[pool].free)>>}]
  /\ UNCHANGED bptab

\* The first free buffer; the header of a NULL bpnext is not a buffer.
TakeFrom(pool) ==
  /\ held' = [held EXCEPT ![currpid] = @ \cup {<<pool, Head(bptab[pool].free)>>}]
  /\ bptab' = [bptab EXCEPT ![pool].free = Tail(@)]

GetbufUnlink ==
  /\ At("unlink")
  /\ bptab[poolid[currpid]].free # <<>>
  /\ TakeFrom(poolid[currpid])
  /\ GoTo("idle")
  /\ UNCHANGED <<servVars, bpmarked, poolid>>

\* Mutant of Nbgetbuf: a count of 0 is taken for a free buffer.
NbgetbufAtZero(pool) ==
  /\ Begin("nbgetbuf")
  /\ semcnt[bptab[pool].sem] >= 0
  /\ bptab[pool].free # <<>>
  /\ semcnt' = [semcnt EXCEPT ![bptab[pool].sem] = @ - 1]
  /\ TakeFrom(pool)
  /\ UNCHANGED <<procVars, callVars, sstate, semq, nextsem, psem, pwaitret,
                 msgVars, timeVars, bpmarked, pc, poolid>>

\* nbgetbuf(): nothing comes between the count and the buffer.
Nbgetbuf(pool) ==
  /\ Begin("nbgetbuf")
  /\ semcnt[bptab[pool].sem] > 0
  /\ bptab[pool].free # <<>>
  /\ semcnt' = [semcnt EXCEPT ![bptab[pool].sem] = @ - 1]
  /\ TakeFrom(pool)
  /\ UNCHANGED <<procVars, callVars, sstate, semq, nextsem, psem, pwaitret,
                 msgVars, timeVars, bpmarked, pc, poolid>>

\* freebuf(): linked in front, and only then signalled.
FreebufLink(buf) ==
  /\ Begin("freebuf")
  /\ buf \in held[currpid]
  /\ held' = [held EXCEPT ![currpid] = @ \ {buf}]
  /\ bptab' = [bptab EXCEPT ![buf[1]].free = <<buf[2]>> \o @]
  /\ poolid' = [poolid EXCEPT ![currpid] = buf[1]]
  /\ GoTo("signal")
  /\ UNCHANGED <<servVars, bpmarked>>

FreebufSignal ==
  /\ At("signal")
  /\ SignalOn(bptab[poolid[currpid]].sem)
  /\ GoTo("idle")
  /\ UNCHANGED <<bpmarked, bptab, poolid, held>>

-------------------------------------------------------------------------------
\* The services between the steps of a library call: what is left of a wait, the
\* clock, and calls of processes that are not inside of a library call.  A new
\* process in an old slot holds no buffer; what its last owner held is lost.
Service ==
  /\ pc[currpid] = "idle" \/ kcall[currpid] # "none" \/ currpid = NULLPROC
  /\ ServNext
  /\ LET died == {p \in Procs : pstate[p] # "PRFREE" /\ pstate'[p] = "PRFREE"}
     IN  /\ pc' = [p \in Procs |-> IF p \in died THEN "idle" ELSE pc[p]]
         /\ held' = [p \in Procs |-> IF p \in died THEN {} ELSE held[p]]
  /\ UNCHANGED <<bpmarked, bptab, poolid>>

Interrupt ==
  /\ pc[currpid] # "idle" /\ currpid # NULLPROC
  /\ Tick \/ Preempt
  /\ UNCHANGED poolVars

BufInit ==
  /\ ServInit
  /\ bpmarked = FALSE
  /\ bptab = <<>>
  /\ pc = [p \in Procs |-> "idle"]
  /\ poolid = [p \in Procs |-> 1]
  /\ held = [p \in Procs |-> {}]

BufNext ==
  \/ Service \/ Interrupt
  \/ MkpoolTest \/ Poolinit
  \/ \E n \in NumBufs : Mkpool(n)
  \/ \E pool \in PoolIds : GetbufWait(pool) \/ Nbgetbuf(pool)
  \/ GetbufUnlink
  \/ \E buf \in UNION {held[p] : p \in Procs} : FreebufLink(buf)
  \/ FreebufSignal

BufSpec == BufInit /\ [][BufNext]_bufVars

-------------------------------------------------------------------------------
\* A process that got past the semaphore finds a buffer: getbuf() does not look
\* at bpnext before it follows it, and other processes take and return buffers,
\* or die, between its wait and its unlink.
UnlinkFindsBuffer ==
  \A p \in Procs :
    pc[p] = "unlink" /\ kcall[p] = "none" => bptab[poolid[p]].free # <<>>

\* A buffer is in one place only: once on the free list of its pool, or with one
\* process.
BufferInOnePlace ==
  /\ \A pool \in PoolIds : IsInjective(bptab[pool].free)
  /\ \A p, r \in Procs : p # r => held[p] \cap held[r] = {}
  /\ \A p \in Procs : \A buf \in held[p] : buf[2] \notin Range(bptab[buf[1]].free)

\* A pool once made stays: two processes whose first mkpool() calls race both see
\* the routines unmarked.
PoolsStay == [][Len(bptab') >= Len(bptab)]_bufVars
==============================================================================
