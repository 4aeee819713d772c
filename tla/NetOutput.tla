------------------------------- MODULE NetOutput -------------------------------
(***************************************************************************)
(* Sending frames on the EtherExpress (mon/ethwrite.c, ethwstrt.c,         *)
(* eep_xintr() in ethintr.c): the output queue, the ring of blocks in the  *)
(* memory of the adapter, and the transmit interrupt.                      *)
(*                                                                         *)
(* The boot loader's main loop writes with interrupts enabled, interrupts  *)
(* write in one step, and the adapter works beside both.  What the adapter *)
(* makes of a ring that has overrun itself (tight) is not modelled.        *)
(***************************************************************************)
EXTENDS Integers, Sequences, SequencesExt

CONSTANTS TxSize,     \* ed_txbuf_size
          TxHeader,   \* EEP_TX_HEADER
          FrameLens,  \* lengths of frames, after ethwrite() has padded them
          OutqMax     \* slots of ed_outq, 16 in the code

ASSUME TxAssumption ==
  /\ TxSize \in Nat /\ TxHeader \in 1..TxSize - 1 /\ OutqMax \in Nat \ {0}
  /\ \A n \in FrameLens : n \in Nat /\ n + 1 + 2 * TxHeader < TxSize

VARIABLES
  outq,     \* ed_outq: the lengths of the frames in it
  ring,     \* ed_tx_start, ed_tx_end, and the blocks between them
  tx_int,   \* EEP_TX_INT in the status register
  stopped,  \* a transmission has failed and the adapter waits for a command
  writing,  \* the main loop is between mon_enq() and mon_ethwstrt()
  in_xintr, \* the interrupt is acknowledged and the blocks not yet looked at
  tight     \* history: a block has filled the ring

outVars == <<outq, ring, tx_int, stopped, writing, in_xintr, tight>>

\* To a word boundary, and a header.
BlockLen(n) == n + (n % 2) + TxHeader

\* The free part of the ring; equal ends mean an empty one.
Avail(r) == IF r.end < r.start THEN r.start - r.end
                               ELSE TxSize - (r.end - r.start)

\* Mutant of Advance: no room is left for the header of the next block.
AdvanceToEdge(at, len) == IF at + len >= TxSize THEN at + len - TxSize ELSE at + len

\* Where the next block goes: its header must not wrap around.
Advance(at, len) ==
  IF at + len + TxHeader >= TxSize THEN at + len + TxHeader - TxSize ELSE at + len

\* A block is appended to the ring.
Chained(r, n) ==
  LET next == Advance(r.end, BlockLen(n))
  IN  [r EXCEPT !.end = next,
                !.blocks = Append(@, [at |-> r.end, len |-> BlockLen(n),
                                      next |-> next, done |-> FALSE, ok |-> TRUE])]

Fills(r, n) == (Advance(r.end, BlockLen(n)) - r.end) % TxSize >= Avail(r)

\* The loop of mon_ethwstrt() at a frame: once one has been left, all are.
Considered(s, n) ==
  IF s.left = <<>> /\ ~s.tight /\ BlockLen(n) <= Avail(s.ring)
  THEN [s EXCEPT !.ring = Chained(@, n), !.tight = Fills(s.ring, n)]
  ELSE [s EXCEPT !.left = Append(@, n)]

\* The whole loop: frames in order, as long as they fit.
Taken(queue, r) ==
  LET taken[i \in 0..Len(queue)] ==
        IF i = 0 THEN [ring |-> r, left |-> <<>>, tight |-> FALSE]
                 ELSE Considered(taken[i - 1], queue[i])
  IN  taken[Len(queue)]

\* mon_ethwstrt(): the first block of an empty ring starts the transmitter, one
\* that is chained clears the interrupt and has the transmitter go on.
Ethwstrt(queue, r, halted) ==
  LET s == Taken(queue, r)
      n == Len(s.ring.blocks) - Len(r.blocks)
  IN  /\ outq' = s.left
      /\ ring' = s.ring
      /\ tight' = s.tight
      /\ tx_int' = (tx_int /\ (n = 0 \/ (n = 1 /\ r.start = r.end)))
      /\ stopped' = (halted /\ n = 0)

\* mon_enq(), and the frame is dropped when the queue is full.
Enq(n) == IF Len(outq) < OutqMax THEN Append(outq, n) ELSE outq

\* mon_ethwrite() in the main loop.
MainEnqueues(n) ==
  /\ ~tight /\ ~in_xintr /\ ~writing
  /\ outq' = Enq(n)
  /\ writing' = TRUE
  /\ UNCHANGED <<ring, tx_int, stopped, in_xintr, tight>>

MainStarts ==
  /\ ~tight /\ ~in_xintr /\ writing
  /\ Ethwstrt(outq, ring, stopped)
  /\ writing' = FALSE
  /\ UNCHANGED in_xintr

\* mon_ethwrite() in an interrupt.
InterruptWrites(n) ==
  /\ ~tight /\ ~in_xintr
  /\ Ethwstrt(Enq(n), ring, stopped)
  /\ UNCHANGED <<writing, in_xintr>>

\* mon_ethintr() acknowledges the interrupt before it looks at the blocks.
Acknowledge ==
  /\ ~tight /\ ~in_xintr /\ tx_int
  /\ tx_int' = FALSE
  /\ in_xintr' = TRUE
  /\ UNCHANGED <<outq, ring, stopped, writing, tight>>

\* The blocks at the front that are done.
Done ==
  Max({0} \cup {i \in DOMAIN ring.blocks : \A j \in 1..i : ring.blocks[j].done})

Reclaimed(n) ==
  [start  |-> IF n = 0 THEN ring.start ELSE ring.blocks[n].next,
   end    |-> ring.end,
   blocks |-> SubSeq(ring.blocks, n + 1, Len(ring.blocks))]

\* Mutant of Restarted: a failed transmission is taken for a good one.
NeverRestarted(n) == FALSE

\* A failed block has the transmitter started again if there is a next one.
Restarted(n) ==
  (\E i \in 1..n : ~ring.blocks[i].ok) /\ Reclaimed(n).start # ring.end

\* eep_xintr(): reclaim, restart, and fill the ring again.
Xintr ==
  /\ in_xintr
  /\ Ethwstrt(outq, Reclaimed(Done), stopped /\ ~Restarted(Done))
  /\ in_xintr' = FALSE
  /\ UNCHANGED writing

\* The adapter has sent a block, or failed to and waits for a command.
Transmitted(good) ==
  /\ ~tight /\ ~stopped
  /\ \E i \in DOMAIN ring.blocks :
       /\ ~ring.blocks[i].done
       /\ \A j \in 1..i - 1 : ring.blocks[j].done
       /\ ring' = [ring EXCEPT !.blocks[i].done = TRUE, !.blocks[i].ok = good]
  /\ tx_int' = TRUE
  /\ stopped' = ~good
  /\ UNCHANGED <<outq, writing, in_xintr, tight>>

OutInit ==
  /\ outq = <<>>
  /\ ring = [start |-> 0, end |-> 0, blocks |-> <<>>]
  /\ tx_int = FALSE
  /\ stopped = FALSE
  /\ writing = FALSE
  /\ in_xintr = FALSE
  /\ tight = FALSE

OutNext ==
  \/ \E n \in FrameLens : MainEnqueues(n) \/ InterruptWrites(n)
  \/ MainStarts \/ Acknowledge \/ Xintr
  \/ \E good \in BOOLEAN : Transmitted(good)

OutSpec == OutInit /\ [][OutNext]_outVars

-------------------------------------------------------------------------------
Cells(b) == {(b.at + k) % TxSize : k \in 0..b.len - 1}

\* Until a block fills the ring, the two ends say which blocks are in flight: no
\* two share a word, no header wraps around, and equal ends mean there is none.
BlocksApart ==
  ~tight =>
    /\ ring.start = ring.end <=> ring.blocks = <<>>
    /\ \A i, j \in DOMAIN ring.blocks :
         i # j => Cells(ring.blocks[i]) \cap Cells(ring.blocks[j]) = {}
    /\ \A i \in DOMAIN ring.blocks : ring.blocks[i].at + TxHeader <= TxSize

\* A frame that is queued or in the ring is never forgotten, though appending to
\* the ring clears an interrupt that may just have come: either the adapter is
\* sending, or an interrupt or the main loop is about to look.
FramesNotStranded ==
  ~tight /\ (outq # <<>> \/ ring.blocks # <<>>) =>
    \/ writing \/ tx_int \/ in_xintr
    \/ ~stopped /\ \E i \in DOMAIN ring.blocks : ~ring.blocks[i].done
=============================================================================
