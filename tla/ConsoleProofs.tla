------------------------------ MODULE ConsoleProofs ------------------------------
(***************************************************************************)
(* Theorems about the console driver, for every size of the ring and every *)
(* number of readers and writers:                                          *)
(*                                                                         *)
(*   InputIsBounded      InputSpec => []InputSemaphoreBounded              *)
(*   LineImplemented     InputSpec => ImplementsLineInput                  *)
(*   WordIsErased        InputSpec => WordErased                           *)
(*   OutputGoesOn        ConsoleSpec => []OutputKeepsGoing                 *)
(*   ConsoleKeepsKernel  ConsoleSpec => [](InItsPlace /\ CountIsWaiters)   *)
(*                                                                         *)
(* and where only the driver uses its semaphore and nobody is killed:      *)
(*                                                                         *)
(*   SlotsAccount        []SlotsAccountedFor                               *)
(*   WritersGoOn         fewer newlines than slots: WritersNotStranded     *)
(*   CharactersInOrder   []OutputInOrder                                   *)
(***************************************************************************)
EXTENDS ConsoleInput, ConsoleOutput, KernelServicesProofs

(***************************************************************************)
(* Input.                                                                  *)
(***************************************************************************)

ReaderSteps == {"out", "tested", "reading", "peeking", "to_read", "to_peek"}

\* The processes that were woken to look and still owe a signal.
Peekers == {r \in Readers : rpc[r] = "to_peek"}

\* The queue of tty_isema is made of the processes that wait, its length is what
\* the count says, and a positive count leaves room for those that peek.
InputInv ==
  /\ rpc \in [Readers -> ReaderSteps]
  /\ isema \in Int
  /\ iqueue \in Seq(Readers) /\ IsInjective(iqueue)
  /\ Len(iqueue) = IF isema < 0 THEN 0 - isema ELSE 0
  /\ \A r \in Range(iqueue) : rpc[r] \in {"reading", "peeking"}
  /\ isema > 0 => isema + Cardinality(Peekers) <= 1 + Cardinality(Readers)

\* Who peeks is one of the readers.
LEMMA PeekersCounted ==
  /\ IsFiniteSet(Peekers) /\ Cardinality(Peekers) \in Nat /\ Cardinality(Readers) \in Nat
  /\ Cardinality(Peekers) <= Cardinality(Readers)
<1>1. Peekers \subseteq Readers
  BY DEF Peekers
<1> QED
  BY <1>1, ReadersAssumption, FS_Subset, FS_CardinalityType

\* A process that waits stays where it is in a step that leaves the queue alone.
WaitersKept == \A r \in Readers : rpc[r] \in {"reading", "peeking"} => rpc'[r] = rpc[r]

\* No unit is given: the count stays or a unit is taken.
LEMMA NoUnitGiven ==
  ASSUME InputInv, rpc' \in [Readers -> ReaderSteps], WaitersKept,
         iqueue' = iqueue, isema' = isema \/ (isema > 0 /\ isema' = isema - 1),
         \A r \in Readers : rpc'[r] = "to_peek" => rpc[r] = "to_peek"
  PROVE  InputInv'
<1>1. IsFiniteSet(Peekers) /\ Cardinality(Peekers) \in Nat /\ Cardinality(Readers) \in Nat
  BY PeekersCounted
<1>2. Peekers' \subseteq Peekers
  BY DEF Peekers
<1>3. Cardinality(Peekers') \in Nat /\ Cardinality(Peekers') <= Cardinality(Peekers)
  BY <1>1, <1>2, FS_Subset, FS_CardinalityType
<1>4. isema' \in Int /\ Len(iqueue') = IF isema' < 0 THEN 0 - isema' ELSE 0
  BY DEF InputInv
<1>5. isema' > 0 => isema' + Cardinality(Peekers') <= 1 + Cardinality(Readers)
  BY <1>1, <1>3 DEF InputInv
<1>6. \A r \in Range(iqueue') : rpc'[r] \in {"reading", "peeking"}
  <2>1. Range(iqueue) \subseteq Readers
    BY LenProperties DEF InputInv, Range
  <2> QED
    BY <2>1 DEF InputInv, WaitersKept
<1> QED
  BY <1>4, <1>5, <1>6 DEF InputInv

\* A unit is given that nobody waits for: by a line when there was none, or by a
\* process that has looked.
LEMMA UnitGiven ==
  ASSUME InputInv, isema >= 0, isema' = isema + 1, iqueue' = iqueue,
         rpc' \in [Readers -> ReaderSteps], WaitersKept,
         \/ isema = 0 /\ rpc' = rpc
         \/ \E r \in Peekers : Peekers' = Peekers \ {r}
  PROVE  InputInv'
<1>1. /\ IsFiniteSet(Peekers) /\ Cardinality(Peekers) \in Nat
      /\ Cardinality(Readers) \in Nat /\ Cardinality(Peekers) <= Cardinality(Readers)
  BY PeekersCounted
<1>2. isema \in Int /\ (isema > 0 => isema + Cardinality(Peekers) <= 1 + Cardinality(Readers))
  BY DEF InputInv
<1>3. isema' + Cardinality(Peekers') <= 1 + Cardinality(Readers)
  <2>1. CASE isema = 0 /\ rpc' = rpc
    <3>1. Peekers' = Peekers
      BY <2>1 DEF Peekers
    <3> QED
      BY <1>1, <2>1, <3>1
  <2>2. CASE \E r \in Peekers : Peekers' = Peekers \ {r}
    <3>1. Cardinality(Peekers') = Cardinality(Peekers) - 1
      BY <1>1, <2>2, FS_RemoveElement
    <3> QED
      BY <1>1, <1>2, <3>1
  <2> QED
    BY <2>1, <2>2
<1>4. isema' \in Int /\ Len(iqueue') = IF isema' < 0 THEN 0 - isema' ELSE 0
  BY DEF InputInv
<1>5. \A r \in Range(iqueue') : rpc'[r] \in {"reading", "peeking"}
  <2>1. Range(iqueue) \subseteq Readers
    BY LenProperties DEF InputInv, Range
  <2> QED
    BY <2>1 DEF InputInv, WaitersKept
<1> QED
  BY <1>3, <1>4, <1>5 DEF InputInv

\* A unit is given to the first of the queue.
LEMMA UnitHandedOver ==
  ASSUME InputInv, isema < 0, isema' = isema + 1, iqueue' = Tail(iqueue),
         rpc' \in [Readers -> ReaderSteps],
         \A r \in Range(iqueue) \ {Head(iqueue)} : rpc'[r] = rpc[r]
  PROVE  InputInv'
<1>1. iqueue # <<>> /\ Len(iqueue) = 0 - isema
  BY EmptySeq DEF InputInv
<1>2. /\ Tail(iqueue) \in Seq(Readers) /\ IsInjective(Tail(iqueue))
      /\ Len(Tail(iqueue)) = Len(iqueue) - 1
      /\ Range(Tail(iqueue)) = Range(iqueue) \ {Head(iqueue)}
  BY <1>1, TailInjective DEF InputInv
<1>3. isema' \in Int /\ ~(isema' > 0) /\ Len(iqueue') = IF isema' < 0 THEN 0 - isema' ELSE 0
  BY <1>1, <1>2 DEF InputInv
<1> QED
  BY <1>2, <1>3 DEF InputInv

\* A process joins the queue when there is no unit.
LEMMA WaiterJoins ==
  ASSUME InputInv, NEW r \in Readers, rpc[r] \in {"out", "tested"}, isema <= 0,
         NEW why \in {"reading", "peeking"}, WaitInput(r, why)
  PROVE  InputInv'
<1>1. r \notin Range(iqueue) /\ isema \in Int
  BY DEF InputInv
<1>2. /\ Append(iqueue, r) \in Seq(Readers) /\ IsInjective(Append(iqueue, r))
      /\ Range(Append(iqueue, r)) = Range(iqueue) \cup {r}
      /\ Len(Append(iqueue, r)) = Len(iqueue) + 1
  BY <1>1, JoinInjective DEF InputInv
<1>3. /\ isema' \in Int /\ ~(isema' > 0)
      /\ Len(iqueue') = IF isema' < 0 THEN 0 - isema' ELSE 0
  BY <1>2 DEF InputInv, WaitInput
<1>4. /\ rpc' \in [Readers -> ReaderSteps] /\ rpc'[r] = why
      /\ \A q \in Readers \ {r} : rpc'[q] = rpc[q]
  BY DEF InputInv, WaitInput, ReaderSteps
<1>5. \A q \in Range(iqueue') : rpc'[q] \in {"reading", "peeking"}
  <2>1. Range(iqueue) \subseteq Readers
    BY LenProperties DEF InputInv, Range
  <2> QED
    BY <1>2, <1>4, <2>1 DEF InputInv, WaitInput
<1> QED
  BY <1>2, <1>3, <1>4, <1>5 DEF InputInv, WaitInput

\* The end of a line gives a unit only when there is none.
LEMMA EndsLineKeeps ==
  ASSUME InputInv, EndsLine
  PROVE  InputInv'
<1>1. isema \in Int /\ rpc \in [Readers -> ReaderSteps]
  BY DEF InputInv
<1>2. CASE isema > 0
  <2>1. isema' = isema /\ iqueue' = iqueue /\ rpc' = rpc
    BY <1>1, <1>2 DEF EndsLine, inSema
  <2> QED
    BY <1>1, <2>1, NoUnitGiven DEF WaitersKept
<1>3. CASE isema = 0
  <2>1. isema' = isema + 1 /\ iqueue' = iqueue /\ rpc' = rpc
    BY <1>1, <1>3 DEF EndsLine, SignalInput
  <2> QED
    BY <1>1, <1>3, <2>1, UnitGiven DEF WaitersKept
<1>4. CASE isema < 0
  <2>1. /\ isema' = isema + 1 /\ iqueue' = Tail(iqueue)
        /\ rpc' = [rpc EXCEPT ![Head(iqueue)] =
                     IF @ = "reading" THEN "to_read" ELSE "to_peek"]
    BY <1>1, <1>4 DEF EndsLine, SignalInput
  <2>2. rpc' \in [Readers -> ReaderSteps]
    BY <1>1, <2>1 DEF ReaderSteps
  <2>3. \A r \in Range(iqueue) \ {Head(iqueue)} : rpc'[r] = rpc[r]
    BY <1>1, <2>1, LenProperties DEF InputInv, Range
  <2> QED
    BY <1>4, <2>1, <2>2, <2>3, UnitHandedOver
<1> QED
  BY <1>1, <1>2, <1>3, <1>4

\* A process that has looked gives its unit back.
LEMMA PeekSignalsKeeps ==
  ASSUME InputInv, NEW r \in Readers, PeekSignals(r)
  PROVE  InputInv'
<1>1. /\ isema \in Int /\ rpc \in [Readers -> ReaderSteps] /\ rpc[r] = "to_peek"
      /\ isema' = isema + 1 /\ r \in Peekers
  BY DEF InputInv, PeekSignals, Peekers
<1>2. rpc' \in [Readers -> ReaderSteps]
  BY <1>1 DEF PeekSignals, ReaderSteps
<1>3. CASE isema >= 0
  <2>1. /\ iqueue' = iqueue
        /\ rpc' = [q \in Readers |-> IF q = r THEN "out" ELSE rpc[q]]
    BY <1>1, <1>3 DEF PeekSignals
  <2>2. Peekers' = Peekers \ {r}
    BY <1>1, <2>1 DEF Peekers
  <2>3. WaitersKept
    BY <1>1, <2>1 DEF WaitersKept
  <2> QED
    BY <1>1, <1>2, <1>3, <2>1, <2>2, <2>3, UnitGiven
<1>4. CASE isema < 0
  <2>1. iqueue' = Tail(iqueue)
    BY <1>4 DEF PeekSignals
  <2>2. \A q \in Range(iqueue) \ {Head(iqueue)} : q \in Readers /\ q # r
    BY <1>1, LenProperties DEF InputInv, Range
  <2>3. \A q \in Range(iqueue) \ {Head(iqueue)} : rpc'[q] = rpc[q]
    BY <2>2 DEF PeekSignals
  <2> QED
    BY <1>1, <1>2, <1>4, <2>1, <2>3, UnitHandedOver
<1> QED
  BY <1>1, <1>3, <1>4

\* Every step of the input line keeps the invariant.
LEMMA InputNextInv == InputInv /\ [InputNext]_inVars => InputInv'
<1> SUFFICES ASSUME InputInv, [InputNext]_inVars PROVE InputInv'
  OBVIOUS
<1>1. isema \in Int /\ rpc \in [Readers -> ReaderSteps]
  BY DEF InputInv
<1>2. ASSUME UNCHANGED inSema PROVE InputInv'
  BY <1>1, <1>2, NoUnitGiven DEF inSema, WaitersKept
<1>3. ASSUME NEW h \in Contexts, NEW c \in Letters, TypeLetter(h, c) PROVE InputInv'
  BY <1>2, <1>3 DEF TypeLetter
<1>4. ASSUME NEW h \in Contexts, NEW return \in BOOLEAN, TypeNewline(h, return)
      PROVE  InputInv'
  BY <1>2, <1>4 DEF TypeNewline
<1>5. ASSUME NEW h \in Contexts, TypeOther(h) \/ TypeEof(h) PROVE InputInv'
  BY <1>2, <1>5 DEF TypeOther, TypeEof
<1>6. ASSUME NEW h \in Contexts, LineEnds(h) PROVE InputInv'
  BY <1>6, EndsLineKeeps DEF LineEnds
<1>7. ASSUME NEW h \in Contexts, Delchar(h) \/ Delword(h) \/ WordGoesOn(h) PROVE InputInv'
  BY <1>2, <1>7 DEF Delchar, Delword, WordGoesOn
<1>8. ASSUME NEW r \in Readers, ReadTests(r) PROVE InputInv'
  <2>1. /\ isema' = isema /\ iqueue' = iqueue /\ rpc[r] = "out"
        /\ rpc' = rpc \/ rpc' = [rpc EXCEPT ![r] = "tested"]
    BY <1>8 DEF ReadTests
  <2>2. rpc' \in [Readers -> ReaderSteps] /\ WaitersKept
        /\ \A q \in Readers : rpc'[q] = "to_peek" => rpc[q] = "to_peek"
    BY <1>1, <2>1 DEF ReaderSteps, WaitersKept
  <2> QED
    BY <2>1, <2>2, NoUnitGiven
<1>9. ASSUME NEW r \in Readers, PeekWaits(r) PROVE InputInv'
  BY <1>9, WaiterJoins DEF PeekWaits
<1>10. ASSUME NEW r \in Readers, PeekSignals(r) PROVE InputInv'
  BY <1>10, PeekSignalsKeeps
<1>11. ASSUME NEW r \in Readers, NEW len \in ReadLens, ReadWaits(r, len) PROVE InputInv'
  <2>1. CASE isema > 0
    <3>1. /\ isema' = isema - 1 /\ iqueue' = iqueue /\ rpc[r] = "tested"
          /\ rpc' = [rpc EXCEPT ![r] = "out"]
      BY <1>11, <2>1 DEF ReadWaits
    <3>2. rpc' \in [Readers -> ReaderSteps] /\ WaitersKept
          /\ \A q \in Readers : rpc'[q] = "to_peek" => rpc[q] = "to_peek"
      BY <1>1, <3>1 DEF ReaderSteps, WaitersKept
    <3> QED
      BY <2>1, <3>1, <3>2, NoUnitGiven
  <2>2. CASE ~(isema > 0)
    BY <1>1, <1>11, <2>2, WaiterJoins DEF ReadWaits
  <2> QED
    BY <2>1, <2>2
<1>12. ASSUME NEW r \in Readers, NEW len \in ReadLens, ReadCopies(r, len) PROVE InputInv'
  <2>1. /\ isema' = isema /\ iqueue' = iqueue /\ rpc[r] = "to_read"
        /\ rpc' = [rpc EXCEPT ![r] = "out"]
    BY <1>12 DEF ReadCopies
  <2>2. rpc' \in [Readers -> ReaderSteps] /\ WaitersKept
        /\ \A q \in Readers : rpc'[q] = "to_peek" => rpc[q] = "to_peek"
    BY <1>1, <2>1 DEF ReaderSteps, WaitersKept
  <2> QED
    BY <2>1, <2>2, NoUnitGiven
<1>13. CASE UNCHANGED inVars
  BY <1>2, <1>13 DEF inVars
<1> QED
  BY <1>3, <1>4, <1>5, <1>6, <1>7, <1>8, <1>9, <1>10, <1>11, <1>12, <1>13 DEF InputNext

LEMMA InputInitInv == InputInit => InputInv
<1> SUFFICES ASSUME InputInit PROVE InputInv
  OBVIOUS
<1>1. rpc \in [Readers -> ReaderSteps] /\ isema = 0 /\ iqueue = <<>>
  BY DEF InputInit, ReaderSteps
<1>2. iqueue \in Seq(Readers) /\ Len(iqueue) = 0 /\ Range(iqueue) = {} /\ IsInjective(iqueue)
  BY <1>1, EmptySeq DEF Range, IsInjective
<1> QED
  BY <1>1, <1>2 DEF InputInv

\* The queue of tty_isema is exactly as long as its count says, and the count
\* exceeds 1 by the number of processes that peek at most, whatever is typed and
\* whoever reads or peeks in between (tty/ttyiin.c, ttyread.c, ttycntl.c).
THEOREM InputIsBounded == InputSpec => []InputSemaphoreBounded
<1>1. InputInv => InputSemaphoreBounded
  <2> SUFFICES ASSUME InputInv PROVE InputSemaphoreBounded
    OBVIOUS
  <2>1. isema \in Int /\ Cardinality(Peekers) \in Nat /\ Cardinality(Readers) \in Nat
    BY PeekersCounted DEF InputInv
  <2>2. isema <= 1 + Cardinality(Readers)
    BY <2>1 DEF InputInv
  <2>3. PICK c \in Int : c = isema
    BY <2>1
  <2>4. -Min({0, c}) = IF 0 <= c THEN 0 ELSE 0 - c
    BY Deficit
  <2>5. Len(iqueue) = IF 0 <= c THEN 0 ELSE 0 - c
    BY <2>3 DEF InputInv
  <2> QED
    BY <2>2, <2>3, <2>4, <2>5 DEF InputSemaphoreBounded
<1> QED
  BY <1>1, InputInitInv, InputNextInv, PTL DEF InputSpec

-------------------------------------------------------------------------------
(***************************************************************************)
(* Output: the transmitter.                                                *)
(***************************************************************************)

TransmitterInv == com_count \in Int /\ OutputKeepsGoing

\* Sending one character leaves the interrupt enabled as long as there are more.
LEMMA WstrtKeepsGoing ==
  ASSUME NEW count \in Int, Wstrt(count)
  PROVE  TransmitterInv'
<1>1. com_count' = count - 1 /\ thre' = FALSE /\ thri' = (count > 1)
  BY DEF Wstrt
<1>2. com_count' \in Int /\ (com_count' > 0 => count > 1)
  BY <1>1
<1>3. count > 1 => thri'
  BY <1>1, Zenon
<1> QED
  BY <1>1, <1>2, <1>3 DEF TransmitterInv, OutputKeepsGoing

\* So does storing characters, whether the transmitter is idle or busy.
LEMMA StoreKeepsGoing ==
  ASSUME TransmitterInv, NEW pos, NEW chars, Len(chars) \in Nat, Store(pos, chars)
  PROVE  TransmitterInv'
<1>1. PICK count \in Int : count = com_count + Len(chars)
  BY DEF TransmitterInv
<1>2. CASE thre
  BY <1>1, <1>2, WstrtKeepsGoing DEF Store
<1>3. CASE ~thre
  BY <1>1, <1>3 DEF Store, TransmitterInv, OutputKeepsGoing
<1> QED
  BY <1>2, <1>3

LEMMA TransmitterNext == TransmitterInv /\ [ConsoleNext]_consoleVars => TransmitterInv'
<1> SUFFICES ASSUME TransmitterInv, [ConsoleNext]_consoleVars PROVE TransmitterInv'
  OBVIOUS
<1>1. ASSUME UNCHANGED <<com_count, uartVars>> PROVE TransmitterInv'
  BY <1>1 DEF TransmitterInv, OutputKeepsGoing, uartVars
<1>2. CASE Cominit
  BY <1>1, <1>2 DEF Cominit, ringVars
<1>3. CASE OtherService
  BY <1>1, <1>3 DEF OtherService, conVars, ringVars
<1>4. ASSUME NEW c \in OutChars, Computc(c) \/ Echo(c) PROVE TransmitterInv'
  BY <1>1, <1>4 DEF Computc, Echo, PutcWaits, ringVars
<1>5. CASE PutcStores
  <2>1. Len(<<cchar[currpid]>>) \in Nat
    OBVIOUS
  <2> QED
    BY <1>5, <2>1, StoreKeepsGoing DEF PutcStores
<1>6. CASE PutcWaitsAgain
  BY <1>1, <1>6 DEF PutcWaitsAgain, ringVars
<1>7. CASE PutcStoresNewline
  <2>1. Len(<<"CR", "NL">>) \in Nat
    OBVIOUS
  <2> QED
    BY <1>7, <2>1, StoreKeepsGoing DEF PutcStoresNewline
<1>8. CASE Comsputc
  BY <1>8 DEF Comsputc, ringVars, TransmitterInv, OutputKeepsGoing
<1>9. CASE SetSync
  BY <1>1, <1>9 DEF SetSync, ringVars
<1>10. CASE TransmitInterrupt
  <2>1. com_count \in Int
    BY DEF TransmitterInv
  <2>2. CASE com_count > 0
    BY <1>10, <2>1, <2>2, WstrtKeepsGoing DEF TransmitInterrupt
  <2>3. CASE ~(com_count > 0)
    BY <1>10, <2>1, <2>3 DEF TransmitInterrupt, TransmitterInv, OutputKeepsGoing
  <2> QED
    BY <2>2, <2>3
<1>11. CASE CharacterSent
  BY <1>11 DEF CharacterSent, ringVars, TransmitterInv, OutputKeepsGoing
<1>12. CASE UNCHANGED consoleVars
  BY <1>1, <1>12 DEF consoleVars, conVars, ringVars
<1> QED
  BY <1>2, <1>3, <1>4, <1>5, <1>6, <1>7, <1>8, <1>9, <1>10, <1>11, <1>12 DEF ConsoleNext

\* Output never stops with characters in the ring: between them, the writers that
\* start the transmitter and the interrupt that stops it never leave a character
\* with nobody to send it (com/comintr.c, comoutput.c).
THEOREM OutputGoesOn == ConsoleSpec => []OutputKeepsGoing
<1>1. ConsoleInit => TransmitterInv
  BY DEF ConsoleInit, TransmitterInv, OutputKeepsGoing
<1>2. TransmitterInv => OutputKeepsGoing
  BY DEF TransmitterInv
<1> QED
  BY <1>1, <1>2, TransmitterNext, PTL DEF ConsoleSpec

-------------------------------------------------------------------------------
(***************************************************************************)
(* Output: the writers on the semaphores of the kernel.                    *)
(***************************************************************************)

WriterType ==
  /\ com_osema \in Sems \cup {-1}
  /\ cpc \in [Procs -> {"out", "first", "second"}]
  /\ ~Open => \A p \in Procs : cpc[p] = "out"

\* The null process writes only on behalf of the echo, without losing the CPU,
\* and its second wait finds a unit.
NullWrites ==
  cpc[NULLPROC] # "out" =>
    /\ currpid = NULLPROC
    /\ cpc[NULLPROC] = "first" => semcnt[com_osema] > 0

WritersInv == ServInv /\ WriterType /\ NullWrites

\* A writer waits for a slot: the invariant of the kernel goes on to hold.
LEMMA WriterWaits ==
  ASSUME WritersInv, Open, kcall[currpid] = "none", WaitOn(com_osema),
         com_osema' = com_osema, NEW step \in {"first", "second"},
         cpc' = [cpc EXCEPT ![currpid] = step],
         currpid = NULLPROC => /\ semcnt[com_osema] > 0
                               /\ step = "first" => semcnt[com_osema] > 1
  PROVE  WritersInv'
<1>1. PICK s \in Sems : s = com_osema
  BY DEF WritersInv, WriterType, Open
<1>2. /\ ServInv' /\ semcnt' = [semcnt EXCEPT ![s] = @ - 1]
      /\ \/ semcnt[s] > 0 /\ UNCHANGED <<pstate, currpid, psem, kcall>>
         \/ ~(semcnt[s] > 0) /\ currpid # NULLPROC
  BY <1>1, WaitOnWaits DEF WritersInv
<1>3. currpid \in Procs /\ NULLPROC \in Procs /\ semcnt \in [Sems -> Int]
  BY NullIsProc DEF WritersInv, ServInv, TableInv, ProcTypeOK, SemInv, SemType
<1>4. WriterType'
  BY <1>3 DEF WritersInv, WriterType, Open
<1>5. NullWrites'
  <2>1. CASE currpid = NULLPROC
    <3>1. currpid' = NULLPROC /\ semcnt'[s] = semcnt[s] - 1
      BY <1>2, <1>3, <2>1
    <3>2. cpc'[NULLPROC] = step
      BY <1>3, <2>1 DEF WritersInv, WriterType
    <3>3. step = "first" => semcnt'[s] > 0
      BY <1>1, <1>3, <2>1, <3>1
    <3> QED
      BY <1>1, <3>1, <3>2, <3>3 DEF NullWrites
  <2>2. CASE currpid # NULLPROC
    <3>1. cpc'[NULLPROC] = cpc[NULLPROC] /\ cpc[NULLPROC] = "out"
      BY <1>3, <2>2 DEF WritersInv, WriterType, NullWrites
    <3> QED
      BY <3>1 DEF NullWrites
  <2> QED
    BY <2>1, <2>2
<1> QED
  BY <1>2, <1>4, <1>5 DEF WritersInv

\* A writer has stored its characters, or nobody writes: a signal may follow.
LEMMA WriterSignals ==
  ASSUME WritersInv, Open, com_osema' = com_osema,
         SignalOn(com_osema) \/ UNCHANGED servVars,
         cpc' = [cpc EXCEPT ![currpid] = "out"]
  PROVE  WritersInv'
<1>1. PICK s \in Sems : s = com_osema
  BY DEF WritersInv, WriterType, Open
<1>2. ServInv'
  <2>1. CASE SignalOn(com_osema)
    BY <1>1, <2>1, SignalOnKeeps DEF WritersInv
  <2>2. CASE UNCHANGED servVars
    BY <2>2, ServNextInv DEF WritersInv
  <2> QED
    BY <2>1, <2>2
<1>3. currpid \in Procs /\ NULLPROC \in Procs
  BY NullIsProc DEF WritersInv, ServInv, TableInv, ProcTypeOK
<1>4. WriterType'
  BY <1>3 DEF WritersInv, WriterType, Open
<1>5. cpc'[NULLPROC] = "out"
  BY <1>3 DEF WritersInv, WriterType, NullWrites
<1> QED
  BY <1>2, <1>4, <1>5 DEF WritersInv, NullWrites

LEMMA StoreWrites ==
  ASSUME WritersInv, cpc[currpid] # "out", NEW pos, NEW chars, Store(pos, chars)
  PROVE  WritersInv'
<1>1. Open
  BY DEF WritersInv, WriterType, ServInv, TableInv, ProcTypeOK
<1>2. SignalOn(com_osema) \/ UNCHANGED servVars
  BY DEF Store, Wstrt
<1> QED
  BY <1>1, <1>2, WriterSignals DEF Store

\* Every step of the driver keeps the kernel's invariant.
LEMMA WritersNext == WritersInv /\ [ConsoleNext]_consoleVars => WritersInv'
<1> SUFFICES ASSUME WritersInv, [ConsoleNext]_consoleVars PROVE WritersInv'
  OBVIOUS
<1>1. /\ ServInv /\ currpid \in Procs /\ NULLPROC \in Procs /\ kcall[NULLPROC] = "none"
      /\ cpc \in [Procs -> {"out", "first", "second"}]
  BY NullIsProc DEF WritersInv, WriterType, ServInv, TableInv, ProcTypeOK, CallInv
<1>2. ASSUME ServInv', UNCHANGED <<com_osema, cpc>>,
             InUserMode \/ kcall[currpid] # "none" \/ UNCHANGED servVars
      PROVE  WritersInv'
  <2>1. WriterType'
    BY <1>2 DEF WritersInv, WriterType, Open
  <2>2. CASE UNCHANGED servVars
    BY <1>2, <2>1, <2>2 DEF WritersInv, NullWrites, servVars, procVars, semVars
  <2>3. CASE InUserMode \/ kcall[currpid] # "none"
    <3>1. cpc[NULLPROC] = "out"
      BY <1>1, <2>3 DEF WritersInv, NullWrites, InUserMode
    <3> QED
      BY <1>2, <2>1, <3>1 DEF WritersInv, NullWrites
  <2> QED
    BY <1>2, <2>2, <2>3
<1>3. CASE Cominit
  <2>1. COMBUFSZ \in Nat /\ ScreateWith(COMBUFSZ) /\ ~Open
    BY <1>3, COMBUFSZAssumption DEF Cominit
  <2>2. ServInv'
    BY <1>1, <2>1, ScreateWithKeeps
  <2>3. nextsem \in Sems /\ FreeSems # {}
    BY <1>1, <2>1 DEF ScreateWith, ServInv, SemInv, SemType
  <2>4. com_osema' \in Sems /\ cpc' = cpc
    BY <1>3, <2>3, NewSemFree DEF Cominit, putcVars
  <2>5. \A p \in Procs : cpc'[p] = "out"
    BY <2>1, <2>4 DEF WritersInv, WriterType
  <2> QED
    BY <1>1, <2>2, <2>4, <2>5 DEF WritersInv, WriterType, NullWrites
<1>4. CASE OtherService
  BY <1>1, <1>2, <1>4, ServNextInv DEF OtherService, conVars, putcVars
<1>5. ASSUME NEW c \in OutChars, Computc(c) \/ Echo(c) PROVE WritersInv'
  <2>1. /\ PutcWaits(c) /\ Open /\ kcall[currpid] = "none"
        /\ currpid = NULLPROC => semcnt[com_osema] > 1
    BY <1>5 DEF Computc, Echo, Calling, PutcWaits, InUserMode
  <2>2. com_osema \in Sems /\ semcnt \in [Sems -> Int]
    BY <2>1 DEF WritersInv, WriterType, Open, ServInv, SemInv, SemType
  <2>3. currpid = NULLPROC => semcnt[com_osema] > 0
    BY <2>1, <2>2
  <2> QED
    BY <2>1, <2>3, WriterWaits DEF PutcWaits
<1>6. CASE PutcStores
  BY <1>6, StoreWrites DEF PutcStores, AtStep
<1>7. CASE PutcWaitsAgain
  <2>1. /\ kcall[currpid] = "none" /\ cpc[currpid] = "first" /\ WaitOn(com_osema)
        /\ com_osema' = com_osema /\ cpc' = [cpc EXCEPT ![currpid] = "second"]
    BY <1>7 DEF PutcWaitsAgain, AtStep
  <2>2. Open
    BY <1>1, <2>1 DEF WritersInv, WriterType
  <2>3. currpid = NULLPROC => semcnt[com_osema] > 0
    BY <2>1 DEF WritersInv, NullWrites
  <2> QED
    BY <2>1, <2>2, <2>3, WriterWaits
<1>8. CASE PutcStoresNewline
  BY <1>8, StoreWrites DEF PutcStoresNewline, AtStep
<1>9. ASSUME UNCHANGED servVars PROVE ServInv'
  BY <1>1, <1>9, ServNextInv
<1>10. CASE Comsputc
  BY <1>2, <1>9, <1>10 DEF Comsputc, putcVars
<1>11. CASE SetSync
  BY <1>2, <1>9, <1>11 DEF SetSync, putcVars
<1>12. CASE TransmitInterrupt
  <2>1. /\ InUserMode /\ UNCHANGED <<com_osema, cpc>>
        /\ Wstrt(com_count) \/ UNCHANGED servVars
    BY <1>12 DEF TransmitInterrupt, putcVars
  <2>2. com_osema \in Sems
    BY <2>1 DEF WritersInv, WriterType, Open, InUserMode
  <2>3. ServInv'
    BY <1>1, <1>9, <2>1, <2>2, SignalOnKeeps DEF Wstrt
  <2> QED
    BY <1>2, <2>1, <2>3
<1>13. CASE CharacterSent
  BY <1>2, <1>9, <1>13 DEF CharacterSent, putcVars
<1>14. CASE UNCHANGED consoleVars
  BY <1>2, <1>9, <1>14 DEF consoleVars, conVars, putcVars
<1> QED
  BY <1>3, <1>4, <1>5, <1>6, <1>7, <1>8, <1>10, <1>11, <1>12, <1>13, <1>14 DEF ConsoleNext

LEMMA WritersInit == ConsoleInit => WritersInv
<1> SUFFICES ASSUME ConsoleInit PROVE WritersInv
  OBVIOUS
<1>1. ServInv
  BY ServInitInv DEF ConsoleInit
<1>2. /\ com_osema = -1 /\ cpc = [p \in Procs |-> "out"]
  BY DEF ConsoleInit
<1>3. WriterType /\ NullWrites
  BY <1>2, NullIsProc DEF WriterType, NullWrites
<1> QED
  BY <1>1, <1>3 DEF WritersInv

LEMMA WritersInvariant == ConsoleSpec => []WritersInv
BY WritersInit, WritersNext, PTL DEF ConsoleSpec

\* The driver uses the semaphores as the kernel needs it: on top of it every
\* process stays in the place its state names, the counts are the numbers of the
\* waiters, and the null process never waits, not even for its echo.
THEOREM ConsoleKeepsKernel == ConsoleSpec => [](InItsPlace /\ CountIsWaiters)
<1>1. WritersInv => InItsPlace /\ CountIsWaiters
  BY ServInvMeans DEF WritersInv
<1> QED
  BY <1>1, WritersInvariant, PTL

-------------------------------------------------------------------------------
(***************************************************************************)
(* Output: the slots of the ring.                                          *)
(***************************************************************************)

\* Nobody but the driver waits for a semaphore or signals one, and nobody is
\* killed: a slot that was claimed by a process that died is lost.
DriverOnly == uses \cap {"wait", "signal", "signaln", "sreset", "sdelete", "kill"} = {}

\* The sum of small numbers, one for each process.
ClaimsIn(f) == {c \in Procs \X (1..2) : c[2] <= f[c[1]]}
Total(f) == Cardinality(ClaimsIn(f))

LEMMA ClaimsFinite ==
  ASSUME NEW f
  PROVE  IsFiniteSet(ClaimsIn(f)) /\ Total(f) \in Nat
<1>1. IsFiniteSet(Procs) /\ IsFiniteSet(1..2)
  <2>1. 1 \in Int /\ 2 \in Int
    OBVIOUS
  <2> QED
    BY <2>1, ProcsFinite, FS_Interval
<1>2. IsFiniteSet(Procs \X (1..2))
  BY <1>1, FS_Product
<1>3. ClaimsIn(f) \subseteq Procs \X (1..2)
  BY DEF ClaimsIn
<1> QED
  BY <1>2, <1>3, FS_Subset, FS_CardinalityType DEF Total

\* The claims of one process are as many as its number says.
ClaimsOf(p, n) == {<<p, k>> : k \in 1..n}

LEMMA ClaimsOfOne ==
  ASSUME NEW R, IsFiniteSet(R), NEW p, <<p, 1>> \notin R, <<p, 2>> \notin R, NEW n \in 0..2
  PROVE  Cardinality(R \cup ClaimsOf(p, n)) = Cardinality(R) + n
<1>0. PICK T : T = ClaimsOf(p, n) /\ T = {<<p, k>> : k \in 1..n}
  BY DEF ClaimsOf
<1>1. Cardinality(R) \in Nat
  BY FS_CardinalityType
<1>2. CASE n = 0
  <2>1. 1..n = {}
    BY <1>2
  <2>2. T = {}
    BY <1>0, <2>1
  <2>3. Cardinality(R) = Cardinality(R) + n
    BY <1>1, <1>2
  <2> QED
    BY <1>0, <2>2, <2>3
<1>3. Cardinality(R \cup {<<p, 1>>}) = Cardinality(R) + 1 /\ IsFiniteSet(R \cup {<<p, 1>>})
  BY FS_AddElement
<1>4. CASE n = 1
  <2>1. 1..n = {1}
    BY <1>4
  <2>2. R \cup T = R \cup {<<p, 1>>}
    BY <1>0, <2>1
  <2> QED
    BY <1>0, <1>3, <1>4, <2>2
<1>5. CASE n = 2
  <2>1. 1..n = {1, 2}
    BY <1>5
  <2>2. R \cup T = (R \cup {<<p, 1>>}) \cup {<<p, 2>>}
    BY <1>0, <2>1
  <2>3. PICK Q : Q = R \cup {<<p, 1>>}
    OBVIOUS
  <2>4. <<p, 2>> \notin Q /\ IsFiniteSet(Q) /\ Cardinality(Q) = Cardinality(R) + 1
    BY <1>3, <2>3
  <2>5. Cardinality(Q \cup {<<p, 2>>}) = Cardinality(Q) + 1
    BY <2>4, FS_AddElement
  <2>6. Cardinality(Q \cup {<<p, 2>>}) = Cardinality(R) + n
    BY <1>1, <1>5, <2>4, <2>5
  <2> QED
    BY <1>0, <2>2, <2>3, <2>6
<1> QED
  BY <1>2, <1>4, <1>5

LEMMA TotalMoves ==
  ASSUME NEW f \in [Procs -> 0..2], NEW p \in Procs, NEW g \in [Procs -> 0..2],
         \A q \in Procs \ {p} : g[q] = f[q]
  PROVE  Total(g) = Total(f) - f[p] + g[p]
<1> DEFINE R == {c \in ClaimsIn(f) : c[1] # p}
<1>1. R \subseteq ClaimsIn(f) /\ IsFiniteSet(R) /\ Cardinality(R) \in Nat
  BY ClaimsFinite, FS_Subset, FS_CardinalityType
<1>2. <<p, 1>> \notin R /\ <<p, 2>> \notin R
  OBVIOUS
<1>4. ASSUME NEW h \in [Procs -> 0..2], \A q \in Procs \ {p} : h[q] = f[q]
      PROVE  ClaimsIn(h) = R \cup ClaimsOf(p, h[p])
  <2>1. ASSUME NEW c \in ClaimsIn(h) PROVE c \in R \cup ClaimsOf(p, h[p])
    <3>1. PICK q \in Procs, k \in 1..2 : c = <<q, k>> /\ k <= h[q]
      BY <2>1 DEF ClaimsIn
    <3>2. CASE q = p
      <4>1. k \in 1..h[p] /\ c = <<p, k>>
        BY <3>1, <3>2
      <4> QED
        BY <4>1 DEF ClaimsOf
    <3>3. CASE q # p
      BY <1>4, <3>1, <3>3 DEF ClaimsIn
    <3> QED
      BY <3>2, <3>3
  <2>2. ASSUME NEW c \in R PROVE c \in ClaimsIn(h)
    <3>1. PICK q \in Procs, k \in 1..2 : c = <<q, k>> /\ k <= f[q] /\ q # p
      BY <2>2 DEF ClaimsIn
    <3>2. k <= h[q]
      BY <1>4, <3>1
    <3> QED
      BY <3>1, <3>2 DEF ClaimsIn
  <2>3. ASSUME NEW c \in ClaimsOf(p, h[p]) PROVE c \in ClaimsIn(h)
    <3>1. PICK k \in 1..h[p] : c = <<p, k>>
      BY <2>3 DEF ClaimsOf
    <3>2. k \in 1..2 /\ k <= h[p]
      BY <3>1
    <3> QED
      BY <3>1, <3>2 DEF ClaimsIn
  <2> QED
    BY <2>1, <2>2, <2>3
<1>5. /\ f[p] \in 0..2 /\ g[p] \in 0..2
      /\ ClaimsIn(f) = R \cup ClaimsOf(p, f[p]) /\ ClaimsIn(g) = R \cup ClaimsOf(p, g[p])
  BY <1>4
<1> HIDE DEF R
<1>6. /\ Cardinality(R \cup ClaimsOf(p, f[p])) = Cardinality(R) + f[p]
      /\ Cardinality(R \cup ClaimsOf(p, g[p])) = Cardinality(R) + g[p]
  BY <1>1, <1>2, <1>5, ClaimsOfOne
<1>7. Total(f) = Cardinality(R) + f[p] /\ Total(g) = Cardinality(R) + g[p]
  BY <1>5, <1>6 DEF Total
<1> QED
  BY <1>1, <1>5, <1>7

Claiming == [p \in Procs |-> Claims(p)]

Free == IF semcnt[com_osema] > 0 THEN semcnt[com_osema] ELSE 0

\* Only writers wait, all of them for the slots of the ring, and the slots that
\* are full, free and claimed are those of the ring.
SlotsInv ==
  /\ WritersInv /\ DriverOnly
  /\ com_count \in Nat
  /\ \A p \in Procs : kcall[p] # "kill"
  /\ \A p \in Procs : pstate[p] = "PRWAIT" => cpc[p] # "out" /\ psem[p] = com_osema
  /\ ~Open => com_count = 0
  /\ Open => /\ sstate[com_osema] = "SUSED"
             /\ com_count + Free + Total(Claiming) = COMBUFSZ

LEMMA ClaimsByStep ==
  ASSUME WriterType, NEW p \in Procs
  PROVE  /\ Claiming \in [Procs -> 0..2] /\ Claiming[p] \in 0..2
         /\ cpc[p] = "out" => Claiming[p] = 0
         /\ cpc[p] = "first" => Claiming[p] = IF pstate[p] = "PRWAIT" THEN 0 ELSE 1
         /\ cpc[p] = "second" => Claiming[p] = IF pstate[p] = "PRWAIT" THEN 1 ELSE 2
<1>1. \A q \in Procs :
        /\ Claims(q) \in 0..2
        /\ cpc[q] = "out" => Claims(q) = 0
        /\ cpc[q] = "first" => Claims(q) = IF pstate[q] = "PRWAIT" THEN 0 ELSE 1
        /\ cpc[q] = "second" => Claims(q) = IF pstate[q] = "PRWAIT" THEN 1 ELSE 2
  BY DEF WriterType, Claims
<1> QED
  BY <1>1 DEF Claiming

\* Only the claims of one process change.
LEMMA OneClaimMoves ==
  ASSUME WriterType, WriterType', NEW p \in Procs,
         \A q \in Procs \ {p} : /\ cpc'[q] = cpc[q]
                                /\ pstate'[q] = "PRWAIT" <=> pstate[q] = "PRWAIT"
  PROVE  Total(Claiming)' = Total(Claiming) - Claiming[p] + Claiming'[p]
<1>1. PICK f \in [Procs -> 0..2] : f = Claiming
  BY ClaimsByStep
<1>2. \A q \in Procs : Claims(q)' \in 0..2
  BY DEF WriterType, Claims
<1>3. PICK g \in [Procs -> 0..2] : g = Claiming'
  BY <1>2 DEF Claiming
<1>4. \A q \in Procs \ {p} : g[q] = f[q]
  <2> SUFFICES ASSUME NEW q \in Procs \ {p} PROVE g[q] = f[q]
    OBVIOUS
  <2>1. Claims(q)' = Claims(q)
    BY DEF Claims
  <2> QED
    BY <1>1, <1>3, <2>1 DEF Claiming
<1>5. Total(g) = Total(f) - f[p] + g[p]
  BY <1>4, TotalMoves
<1>6. Total(Claiming)' = Total(g)
  BY <1>3 DEF Total, ClaimsIn
<1> QED
  BY <1>1, <1>3, <1>5, <1>6

\* A service in which nobody waits for a semaphore or is woken.
LEMMA SlotsKept ==
  ASSUME SlotsInv, WritersInv', UNCHANGED <<com_osema, com_count, cpc, uses>>,
         \A p \in Procs : kcall'[p] # "kill",
         \A p \in Procs : pstate'[p] = "PRWAIT" <=> pstate[p] = "PRWAIT",
         \A p \in Procs : pstate[p] = "PRWAIT" => psem'[p] = psem[p],
         Open => /\ sstate'[com_osema] = "SUSED"
                 /\ semcnt'[com_osema] = semcnt[com_osema]
  PROVE  SlotsInv'
<1>1. Claiming' = Claiming
  BY DEF Claiming, Claims
<1>2. Total(Claiming)' = Total(Claiming)
  BY <1>1 DEF Total, ClaimsIn
<1>3. Open => Free' = Free
  BY DEF Free
<1> QED
  BY <1>2, <1>3 DEF SlotsInv, DriverOnly, Open

\* Nobody is woken, begins to wait or to kill, and the counts stay.
Quiet ==
  /\ \A p \in Procs : kcall'[p] # "kill"
  /\ \A p \in Procs : pstate'[p] = "PRWAIT" <=> pstate[p] = "PRWAIT"
  /\ \A p \in Procs : pstate[p] = "PRWAIT" => psem'[p] = psem[p]
  /\ \A s \in Sems : sstate[s] = "SUSED"
                     => sstate'[s] = "SUSED" /\ semcnt'[s] = semcnt[s]
  /\ uses' = uses

\* The services that are left for the other processes do not touch the slots.
LEMMA QuietService ==
  ASSUME ServInv, ServNext, DriverOnly, \A p \in Procs : kcall[p] # "kill"
  PROVE  Quiet
<1>1. /\ ServInv' /\ SemInv /\ SemInv' /\ SemType
      /\ currpid \in Procs /\ pstate \in [Procs -> PStates]
      /\ kcall \in [Procs -> {"none", "wait", "receive", "recvtim", "kill"}]
  BY ServNextInv DEF ServInv, SemInv, TableInv, ProcTypeOK, CallInv, CallType
<1>2. ASSUME UNCHANGED <<semVars, uses>>,
             \/ kcall' = kcall
             \/ \E c \in {"none", "receive", "recvtim"} : kcall' = [kcall EXCEPT ![currpid] = c]
      PROVE  Quiet
  <2>1. \A p \in Procs : pstate'[p] = "PRWAIT" <=> pstate[p] = "PRWAIT"
    BY <1>1, <1>2, SameWaiters DEF semVars
  <2>2. \A p \in Procs : kcall'[p] # "kill"
    BY <1>1, <1>2
  <2> QED
    BY <1>2, <2>1, <2>2 DEF Quiet, semVars
<1>3. ASSUME NEW n \in Counts, Screate(n) PROVE Quiet
  <2>1. /\ FreeSems # {} /\ UNCHANGED <<semq, psem, kcall, uses>>
        /\ sstate' = [sstate EXCEPT ![NewSem] = "SUSED"]
        /\ semcnt' = [semcnt EXCEPT ![NewSem] = n]
    BY <1>3 DEF Screate, ScreateWith, callVars
  <2>2. PICK new \in FreeSems : new = NewSem /\ new \in Sems
    BY <1>1, <2>1, NewSemFree DEF SemType
  <2>3. \A s \in Sems : sstate[s] = "SUSED"
                        => sstate'[s] = "SUSED" /\ semcnt'[s] = semcnt[s]
    BY <1>1, <2>1, <2>2 DEF SemType, FreeSems
  <2>4. \A p \in Procs : pstate'[p] = "PRWAIT" <=> pstate[p] = "PRWAIT"
    BY <1>1, <2>1, SameWaiters
  <2> QED
    BY <2>1, <2>3, <2>4 DEF Quiet
<1>4. ASSUME NEW n \in NewPrios, Create(n) PROVE Quiet
  <2>1. FreeSlots # {} /\ NewPid \in FreeSlots
    BY <1>4, NewPidFree DEF Create, ServInv, TableInv
  <2>2. PICK q \in FreeSlots : q = NewPid
    BY <2>1
  <2>3. /\ pstate' = [pstate EXCEPT ![q] = "PRSUSP"] /\ psem' = [psem EXCEPT ![q] = 0]
        /\ kcall' = [kcall EXCEPT ![q] = "none"] /\ UNCHANGED <<uses, sstate, semcnt>>
    BY <1>4, <2>2 DEF Create
  <2>4. q \in Procs /\ pstate[q] = "PRFREE"
    BY <2>2, UserIsProc DEF FreeSlots
  <2>5. psem \in [Procs -> Sems]
    BY <1>1 DEF SemType
  <2> QED
    BY <1>1, <2>3, <2>4, <2>5 DEF Quiet
<1>5. ASSUME NEW call \in {"wait", "signal", "signaln", "sreset", "sdelete", "kill"},
             Calling(call)
      PROVE  FALSE
  BY <1>5 DEF Calling, DriverOnly
<1>6. ASSUME NEW s \in Sems, Wait(s) \/ Signal(s) \/ Sdelete(s) PROVE Quiet
  BY <1>5, <1>6 DEF Wait, Signal, Sdelete
<1>7. ASSUME NEW s \in Sems, NEW n \in Counts, Signaln(s, n) \/ Sreset(s, n) PROVE Quiet
  BY <1>5, <1>7 DEF Signaln, Sreset
<1>8. CASE WaitReturns
  BY <1>2, <1>8 DEF WaitReturns, Leaving
<1>9. ASSUME NEW n \in Delays, Sleep(n) \/ Recvtim(n) PROVE Quiet
  BY <1>2, <1>9 DEF Sleep, Recvtim, Entering, callVars
<1>10. CASE Tick \/ Preempt
  BY <1>2, <1>10 DEF Tick, Preempt, ClockInterrupt, QuantumEnds, callVars
<1>11. CASE TakeMessage \/ Receive \/ ReceiveReturns
  BY <1>2, <1>11 DEF TakeMessage, Receive, ReceiveReturns, Entering, Leaving, callVars
<1>12. ASSUME NEW p \in UserPids, Send(p) \/ Resume(p) \/ Suspend(p) PROVE Quiet
  BY <1>2, <1>12 DEF Send, Resume, Suspend, callVars
<1>13. ASSUME NEW p \in UserPids, Kill(p) PROVE Quiet
  BY <1>5, <1>13 DEF Kill
<1>14. ASSUME NEW nok \in Kin, NEW p \in UserPids, Setnok(nok, p) PROVE Quiet
  BY <1>2, <1>14 DEF Setnok, callVars
<1>15. CASE KillEnds
  BY <1>1, <1>15 DEF KillEnds
<1> QED
  BY <1>3, <1>4, <1>6, <1>7, <1>8, <1>9, <1>10, <1>11, <1>12, <1>13, <1>14, <1>15 DEF ServNext

LEMMA ClaimsByNextStep ==
  ASSUME WriterType', NEW p \in Procs
  PROVE  /\ Claiming' \in [Procs -> 0..2] /\ Claiming'[p] \in 0..2
         /\ cpc'[p] = "out" => Claiming'[p] = 0
         /\ cpc'[p] = "first" => Claiming'[p] = IF pstate'[p] = "PRWAIT" THEN 0 ELSE 1
         /\ cpc'[p] = "second" => Claiming'[p] = IF pstate'[p] = "PRWAIT" THEN 1 ELSE 2
<1>1. \A q \in Procs :
        /\ Claims(q)' \in 0..2
        /\ cpc'[q] = "out" => Claims(q)' = 0
        /\ cpc'[q] = "first" => Claims(q)' = IF pstate'[q] = "PRWAIT" THEN 0 ELSE 1
        /\ cpc'[q] = "second" => Claims(q)' = IF pstate'[q] = "PRWAIT" THEN 1 ELSE 2
  BY DEF WriterType, Claims
<1> QED
  BY <1>1 DEF Claiming

\* A writer that gets a slot claims it; one that has to wait gets it later.
LEMMA SlotClaimed ==
  ASSUME SlotsInv, WritersInv', Open, kcall[currpid] = "none", WaitOn(com_osema),
         UNCHANGED <<com_osema, com_count>>,
         currpid = NULLPROC => semcnt[com_osema] > 0,
         NEW step \in {"first", "second"}, cpc' = [cpc EXCEPT ![currpid] = step],
         cpc[currpid] = IF step = "first" THEN "out" ELSE "first"
  PROVE  SlotsInv'
<1>1. PICK s \in Sems : s = com_osema
  BY DEF SlotsInv, WritersInv, WriterType, Open
<1>2. /\ sstate[s] = "SUSED" /\ sstate' = sstate
      /\ semcnt' = [semcnt EXCEPT ![s] = @ - 1] /\ uses' = uses
      /\ \/ semcnt[s] > 0 /\ UNCHANGED <<pstate, currpid, psem, kcall>>
         \/ /\ ~(semcnt[s] > 0) /\ currpid # NULLPROC
            /\ pstate[currpid] = "PRCURR" /\ pstate'[currpid] = "PRWAIT"
            /\ psem' = [psem EXCEPT ![currpid] = s]
            /\ kcall' = [kcall EXCEPT ![currpid] = "wait"]
            /\ \A p \in Procs \ {currpid} :
                 pstate'[p] = "PRWAIT" <=> pstate[p] = "PRWAIT"
  <2>1. ServInv /\ (currpid # NULLPROC \/ semcnt[s] > 0)
    BY <1>1 DEF SlotsInv, WritersInv
  <2> QED
    BY <1>1, <2>1, WaitOnWaits
<1>3. PICK c \in Procs : c = currpid /\ pstate[c] = "PRCURR"
  BY DEF SlotsInv, WritersInv, ServInv, TableInv, ProcTypeOK
<1>4. /\ WriterType /\ WriterType' /\ semcnt[s] \in Int /\ semcnt'[s] = semcnt[s] - 1
      /\ psem \in [Procs -> Sems] /\ com_count \in Nat /\ COMBUFSZ \in Nat
      /\ kcall \in [Procs -> {"none", "wait", "receive", "recvtim", "kill"}]
  <2>1. WriterType /\ WriterType' /\ com_count \in Nat /\ COMBUFSZ \in Nat
    BY COMBUFSZAssumption DEF SlotsInv, WritersInv
  <2>2. semcnt \in [Sems -> Int] /\ psem \in [Procs -> Sems]
    BY DEF SlotsInv, WritersInv, ServInv, SemInv, SemType
  <2>3. kcall \in [Procs -> {"none", "wait", "receive", "recvtim", "kill"}]
    BY DEF SlotsInv, WritersInv, ServInv, CallInv, CallType
  <2> QED
    BY <1>2, <2>1, <2>2, <2>3
<1>5. /\ cpc'[c] = step /\ \A q \in Procs \ {c} : cpc'[q] = cpc[q]
  BY <1>3, <1>4 DEF WriterType
<1>6. \A q \in Procs \ {c} : pstate'[q] = "PRWAIT" <=> pstate[q] = "PRWAIT"
  BY <1>2, <1>3
<1>7. Total(Claiming)' = Total(Claiming) - Claiming[c] + Claiming'[c]
  BY <1>4, <1>5, <1>6, OneClaimMoves
<1>8. Claiming[c] = IF step = "first" THEN 0 ELSE 1
  BY <1>3, <1>4, ClaimsByStep
<1>9. Claiming'[c] = IF pstate'[c] = "PRWAIT" THEN Claiming[c] ELSE Claiming[c] + 1
  BY <1>4, <1>5, <1>8, ClaimsByNextStep
<1>10. Total(Claiming) \in Nat /\ com_count + Free + Total(Claiming) = COMBUFSZ
  BY ClaimsFinite DEF SlotsInv
<1>11. com_count' + Free' + Total(Claiming)' = COMBUFSZ
  <2>1. CASE semcnt[s] > 0
    <3>1. pstate'[c] # "PRWAIT"
      BY <1>2, <1>3, <2>1
    <3>2. Free = semcnt[s] /\ Free' = semcnt[s] - 1
      BY <1>1, <1>4, <2>1 DEF Free
    <3>3. Claiming[c] \in {0, 1} /\ Claiming'[c] = Claiming[c] + 1
      BY <1>8, <1>9, <3>1
    <3>4. Total(Claiming)' = Total(Claiming) + 1
      BY <1>7, <1>10, <3>3
    <3> QED
      BY <1>4, <1>10, <3>2, <3>4
  <2>2. CASE ~(semcnt[s] > 0)
    <3>1. pstate'[c] = "PRWAIT"
      BY <1>2, <1>3, <2>2
    <3>2. Free = 0 /\ Free' = 0
      BY <1>1, <1>4, <2>2 DEF Free
    <3>3. Claiming[c] \in {0, 1} /\ Claiming'[c] = Claiming[c]
      BY <1>8, <1>9, <3>1
    <3>4. Total(Claiming)' = Total(Claiming)
      BY <1>7, <1>10, <3>3
    <3> QED
      BY <1>4, <1>10, <3>2, <3>4
  <2> QED
    BY <2>1, <2>2
<1>12. \A p \in Procs : pstate'[p] = "PRWAIT" => cpc'[p] # "out" /\ psem'[p] = com_osema'
  <2> SUFFICES ASSUME NEW p \in Procs, pstate'[p] = "PRWAIT"
               PROVE  cpc'[p] # "out" /\ psem'[p] = s
    BY <1>1
  <2>1. CASE p = c
    <3>1. psem' = [psem EXCEPT ![c] = s]
      BY <1>2, <1>3, <2>1
    <3> QED
      BY <1>4, <1>5, <2>1, <3>1
  <2>2. CASE p # c
    <3>1. pstate[p] = "PRWAIT" /\ cpc'[p] = cpc[p] /\ psem'[p] = psem[p]
      BY <1>2, <1>3, <1>4, <1>5, <1>6, <2>2
    <3> QED
      BY <1>1, <3>1 DEF SlotsInv
  <2> QED
    BY <2>1, <2>2
<1>13. \A p \in Procs : kcall'[p] # "kill"
  BY <1>2, <1>3, <1>4 DEF SlotsInv
<1> QED
  BY <1>1, <1>2, <1>4, <1>11, <1>12, <1>13 DEF SlotsInv, DriverOnly, Open

\* A writer stores its characters in the slots it claimed.
LEMMA SlotsFilled ==
  ASSUME SlotsInv, WritersInv', Open, UNCHANGED com_osema, UNCHANGED servVars,
         cpc' = [cpc EXCEPT ![currpid] = "out"],
         com_count' = com_count + Claiming[currpid]
  PROVE  SlotsInv'
<1>1. PICK c \in Procs : c = currpid /\ pstate[c] = "PRCURR"
  BY DEF SlotsInv, WritersInv, ServInv, TableInv, ProcTypeOK
<1>2. WriterType /\ WriterType' /\ com_count \in Nat /\ UNCHANGED <<pstate, kcall, psem, uses>>
      /\ UNCHANGED <<sstate, semcnt>>
  BY DEF SlotsInv, WritersInv, servVars, procVars, callVars, semVars
<1>3. cpc'[c] = "out" /\ \A q \in Procs \ {c} : cpc'[q] = cpc[q]
  BY <1>1, <1>2 DEF WriterType
<1>4. Total(Claiming)' = Total(Claiming) - Claiming[c] + Claiming'[c]
  BY <1>2, <1>3, OneClaimMoves
<1>5. Claiming'[c] = 0 /\ Claiming[c] \in 0..2
  BY <1>2, <1>3, ClaimsByStep, ClaimsByNextStep
<1>6. Total(Claiming) \in Nat /\ com_count + Free + Total(Claiming) = COMBUFSZ
  BY ClaimsFinite DEF SlotsInv
<1>7. Free' = Free /\ Free \in Int
  <2>1. com_osema \in Sems /\ semcnt \in [Sems -> Int]
    BY <1>2 DEF WriterType, Open, SlotsInv, WritersInv, ServInv, SemInv, SemType
  <2> QED
    BY <1>2, <2>1 DEF Free
<1>8. com_count' \in Nat /\ com_count' + Free' + Total(Claiming)' = COMBUFSZ
  <2>1. PICK n \in 0..2 : n = Claiming[c]
    BY <1>5
  <2>2. com_count' = com_count + n /\ Total(Claiming)' = Total(Claiming) - n + 0
    BY <1>1, <1>4, <1>5, <2>1
  <2> QED
    BY <1>2, <1>6, <1>7, <2>2
<1>9. \A p \in Procs : pstate'[p] = "PRWAIT" => cpc'[p] # "out" /\ psem'[p] = com_osema'
  BY <1>1, <1>2, <1>3 DEF SlotsInv
<1> QED
  BY <1>2, <1>8, <1>9 DEF SlotsInv, DriverOnly, Open

\* A character is sent: its slot is free, or goes to the first that waits.
LEMMA SlotFreed ==
  ASSUME SlotsInv, WritersInv', Open, UNCHANGED com_osema, SignalOn(com_osema),
         cpc' = [cpc EXCEPT ![currpid] = "out"],
         com_count + Claiming[currpid] > 0,
         com_count' = com_count + Claiming[currpid] - 1
  PROVE  SlotsInv'
<1>1. PICK c \in Procs : c = currpid /\ pstate[c] = "PRCURR"
  BY DEF SlotsInv, WritersInv, ServInv, TableInv, ProcTypeOK
<1>2. PICK s \in Sems : s = com_osema
  BY DEF SlotsInv, WritersInv, WriterType, Open
<1>3. /\ sstate[s] = "SUSED"
      /\ UNCHANGED <<sstate, psem, kcall, uses>>
      /\ semcnt' = [semcnt EXCEPT ![s] = @ + 1]
      /\ \/ ~(semcnt[s] < 0) /\ UNCHANGED <<pstate, currpid>>
         \/ /\ semcnt[s] < 0
            /\ \E w \in UserPids :
                 /\ pstate[w] = "PRWAIT" /\ psem[w] = s /\ pstate'[w] # "PRWAIT"
                 /\ \A p \in Procs \ {w} :
                      pstate'[p] = "PRWAIT" <=> pstate[p] = "PRWAIT"
  BY <1>2, SignalOnWakes DEF SlotsInv, WritersInv
<1>4. /\ WriterType /\ WriterType' /\ semcnt[s] \in Int /\ semcnt'[s] = semcnt[s] + 1
      /\ com_count \in Nat /\ COMBUFSZ \in Nat
  <2>1. WriterType /\ WriterType' /\ com_count \in Nat /\ COMBUFSZ \in Nat
    BY COMBUFSZAssumption DEF SlotsInv, WritersInv
  <2>2. semcnt \in [Sems -> Int]
    BY DEF SlotsInv, WritersInv, ServInv, SemInv, SemType
  <2> QED
    BY <1>3, <2>1, <2>2
<1>5. cpc'[c] = "out" /\ \A q \in Procs \ {c} : cpc'[q] = cpc[q]
  BY <1>1, <1>4 DEF WriterType
<1>6. PICK f \in [Procs -> 0..2] : f = Claiming
  BY <1>4, <1>1, ClaimsByStep
<1>7. PICK h \in [Procs -> 0..2] : h = Claiming'
  BY <1>4, <1>1, ClaimsByNextStep
<1>8. PICK g \in [Procs -> 0..2] : g[c] = 0 /\ \A q \in Procs \ {c} : g[q] = f[q]
  <2>1. c \in Procs /\ f \in [Procs -> 0..2]
    OBVIOUS
  <2> DEFINE e == [f EXCEPT ![c] = 0]
  <2>2. e \in [Procs -> 0..2] /\ e[c] = 0 /\ \A q \in Procs \ {c} : e[q] = f[q]
    BY <2>1
  <2> QED
    BY <2>2
<1>9. Total(g) = Total(f) - f[c] /\ Total(f) \in Nat /\ f[c] \in 0..2 /\ Total(g) \in Int
  <2>1. g[c] = 0 /\ \A q \in Procs \ {c} : g[q] = f[q]
    BY <1>8
  <2>2. Total(g) = Total(f) - f[c] + g[c]
    BY <2>1, TotalMoves
  <2>3. Total(f) \in Nat /\ f[c] \in 0..2
    BY ClaimsFinite
  <2> QED
    BY <2>1, <2>2, <2>3
<1>10. h[c] = 0
  BY <1>4, <1>5, <1>7, ClaimsByNextStep
<1>11. com_count + Free + Total(f) = COMBUFSZ
  BY <1>6 DEF SlotsInv
<1>12. Free' + Total(h) = Free + Total(f) - f[c] + 1 /\ Free \in Int /\ Free' \in Int
       /\ Total(h) \in Int
  <2>1. CASE ~(semcnt[s] < 0)
    <3>1. \A q \in Procs \ {c} : h[q] = g[q]
      <4> SUFFICES ASSUME NEW q \in Procs \ {c} PROVE h[q] = f[q]
        BY <1>8
      <4>1. Claims(q)' = Claims(q)
        BY <1>3, <1>5, <2>1 DEF Claims
      <4> QED
        BY <1>6, <1>7, <4>1 DEF Claiming
    <3>2. h[c] = g[c]
      BY <1>8, <1>10
    <3>3. h = g
      BY <3>1, <3>2
    <3>4. Free = semcnt[s] /\ Free' = semcnt[s] + 1
      BY <1>2, <1>4, <2>1 DEF Free
    <3> QED
      BY <1>4, <1>9, <3>3, <3>4
  <2>2. CASE semcnt[s] < 0
    <3>1. PICK w \in UserPids :
            /\ pstate[w] = "PRWAIT" /\ psem[w] = s /\ pstate'[w] # "PRWAIT"
            /\ \A p \in Procs \ {w} : pstate'[p] = "PRWAIT" <=> pstate[p] = "PRWAIT"
      BY <1>3, <2>2
    <3>2. w \in Procs /\ w # c
      BY <1>1, <3>1, UserIsProc
    <3>3. \A q \in Procs \ {w} : h[q] = g[q]
      <4>1. ASSUME NEW q \in Procs \ {w}, q # c PROVE h[q] = f[q]
        <5>1. Claims(q)' = Claims(q)
          BY <1>5, <3>1, <4>1 DEF Claims
        <5> QED
          BY <1>6, <1>7, <5>1 DEF Claiming
      <4> QED
        BY <1>8, <1>10, <4>1
    <3>4. h[w] = f[w] + 1 /\ g[w] = f[w] /\ f[w] \in 0..2
      <4>1. cpc[w] # "out" /\ cpc'[w] = cpc[w] /\ cpc[w] \in {"out", "first", "second"}
        BY <1>4, <1>5, <3>1, <3>2 DEF SlotsInv, WriterType
      <4>2. /\ cpc[w] = "first" => f[w] = 0 /\ h[w] = 1
            /\ cpc[w] = "second" => f[w] = 1 /\ h[w] = 2
        BY <1>4, <1>6, <1>7, <3>1, <3>2, <4>1, ClaimsByStep, ClaimsByNextStep
      <4> QED
        BY <1>8, <3>2, <4>1, <4>2
    <3>5. Total(h) = Total(g) - g[w] + h[w]
      BY <3>2, <3>3, TotalMoves
    <3>6. Free = 0 /\ Free' = 0
      BY <1>2, <1>4, <2>2 DEF Free
    <3>7. Total(h) = Total(g) + 1
      BY <1>9, <3>4, <3>5
    <3> QED
      BY <1>9, <3>6, <3>7
  <2> QED
    BY <2>1, <2>2
<1>13. com_count' \in Nat /\ com_count' + Free' + Total(Claiming)' = COMBUFSZ
  <2>1. Total(Claiming)' = Total(h)
    BY <1>7 DEF Total, ClaimsIn
  <2>2. com_count' = com_count + f[c] - 1 /\ com_count + f[c] > 0
    BY <1>1, <1>6
  <2> QED
    BY <1>4, <1>9, <1>11, <1>12, <2>1, <2>2
<1>14. \A p \in Procs : pstate'[p] = "PRWAIT" => cpc'[p] # "out" /\ psem'[p] = com_osema'
  <2> SUFFICES ASSUME NEW p \in Procs, pstate'[p] = "PRWAIT"
               PROVE  cpc'[p] # "out" /\ psem'[p] = s
    BY <1>2
  <2>1. pstate[p] = "PRWAIT"
    BY <1>3
  <2>2. p # c
    BY <1>1, <2>1
  <2> QED
    BY <1>2, <1>3, <1>5, <2>1, <2>2 DEF SlotsInv
<1> QED
  BY <1>2, <1>3, <1>13, <1>14 DEF SlotsInv, DriverOnly, Open

\* The end of computc(): as many characters are stored as slots were claimed.
LEMMA StoreFills ==
  ASSUME SlotsInv, WritersInv', cpc[currpid] # "out", NEW pos, NEW chars,
         Len(chars) = Claiming[currpid], Claiming[currpid] \in {1, 2}, Store(pos, chars)
  PROVE  SlotsInv'
<1>1. currpid \in Procs /\ Open /\ com_count \in Nat
  BY DEF SlotsInv, WritersInv, WriterType, ServInv, TableInv, ProcTypeOK
<1>2. cpc' = [cpc EXCEPT ![currpid] = "out"] /\ com_osema' = com_osema
  BY DEF Store
<1>3. CASE thre
  <2>1. SignalOn(com_osema) /\ com_count' = (com_count + Len(chars)) - 1
    BY <1>3, Zenon DEF Store, Wstrt
  <2>2. /\ com_count + Claiming[currpid] > 0
        /\ com_count' = com_count + Claiming[currpid] - 1
    BY <1>1, <2>1
  <2> QED
    BY <1>1, <1>2, <2>1, <2>2, SlotFreed
<1>4. CASE ~thre
  <2>1. UNCHANGED servVars /\ com_count' = com_count + Claiming[currpid]
    BY <1>4 DEF Store
  <2> QED
    BY <1>1, <1>2, <2>1, SlotsFilled
<1> QED
  BY <1>3, <1>4

\* cominit() makes every slot of the ring a free one.
LEMMA SlotsOpened ==
  ASSUME SlotsInv, WritersInv', Cominit
  PROVE  SlotsInv'
<1>1. /\ ~Open /\ COMBUFSZ \in Nat /\ COMBUFSZ >= 2 /\ ScreateWith(COMBUFSZ)
      /\ com_osema' = NewSem /\ UNCHANGED <<com_count, cpc>>
  BY COMBUFSZAssumption DEF Cominit, ringVars, putcVars
<1>2. WriterType /\ WriterType' /\ com_count = 0
  BY <1>1 DEF SlotsInv, WritersInv
<1>3. sstate \in [Sems -> {"SFREE", "SUSED"}] /\ semcnt \in [Sems -> Int] /\ nextsem \in Sems
  BY DEF SlotsInv, WritersInv, ServInv, SemInv, SemType
<1>4. /\ FreeSems # {} /\ UNCHANGED <<procVars, callVars, semq, psem>>
      /\ sstate' = [sstate EXCEPT ![NewSem] = "SUSED"]
      /\ semcnt' = [semcnt EXCEPT ![NewSem] = COMBUFSZ]
  BY <1>1 DEF ScreateWith
<1>5. PICK s \in Sems : s = NewSem
  BY <1>3, <1>4, NewSemFree
<1>6. com_osema' = s /\ sstate'[s] = "SUSED" /\ semcnt'[s] = COMBUFSZ
  BY <1>1, <1>3, <1>4, <1>5
<1>7. \A p \in Procs : cpc[p] = "out"
  BY <1>1, <1>2 DEF WriterType
<1>8. Total(Claiming)' = 0
  <2>1. \A p \in Procs : Claims(p)' = 0
    BY <1>1, <1>7 DEF Claims
  <2>2. Claiming' = [p \in Procs |-> 0]
    BY <2>1 DEF Claiming
  <2>3. PICK f : f = Claiming' /\ \A p \in Procs : f[p] = 0
    BY <2>2
  <2>4. ClaimsIn(f) = {}
    BY <2>3 DEF ClaimsIn
  <2>5. Total(f) = 0
    BY <2>4, FS_EmptySet DEF Total
  <2> QED
    BY <2>3, <2>5 DEF Total, ClaimsIn
<1>9. Free' = COMBUFSZ
  BY <1>1, <1>6 DEF Free
<1>10. com_count' + Free' + Total(Claiming)' = COMBUFSZ /\ com_count' \in Nat
  BY <1>1, <1>2, <1>8, <1>9
<1>11. UNCHANGED <<pstate, kcall, uses>>
  BY <1>4 DEF procVars, callVars
<1>12. \A p \in Procs : pstate'[p] # "PRWAIT"
  BY <1>7, <1>11 DEF SlotsInv
<1>13. DriverOnly' /\ \A p \in Procs : kcall'[p] # "kill"
  BY <1>11 DEF SlotsInv, DriverOnly
<1>14. Open'
  BY <1>2, <1>6, <1>3 DEF Open, Sems
<1> QED
  BY <1>6, <1>10, <1>12, <1>13, <1>14 DEF SlotsInv

\* Every step of the driver accounts for the slots.
LEMMA SlotsNext == SlotsInv /\ [ConsoleNext]_consoleVars => SlotsInv'
<1> SUFFICES ASSUME SlotsInv, [ConsoleNext]_consoleVars PROVE SlotsInv'
  OBVIOUS
<1>1. /\ WritersInv' /\ ServInv /\ WriterType /\ currpid \in Procs
      /\ pstate[currpid] = "PRCURR" /\ com_count \in Nat
      /\ cpc \in [Procs -> {"out", "first", "second"}]
  BY WritersNext DEF SlotsInv, WritersInv, WriterType, ServInv, TableInv, ProcTypeOK
<1>2. Open => com_osema \in Sems /\ sstate[com_osema] = "SUSED"
  BY <1>1 DEF SlotsInv, WriterType, Open
<1>3. ASSUME UNCHANGED <<servVars, com_osema, com_count, cpc>> PROVE SlotsInv'
  BY <1>1, <1>2, <1>3, SlotsKept
     DEF SlotsInv, servVars, procVars, callVars, semVars
<1>4. CASE Cominit
  BY <1>1, <1>4, SlotsOpened
<1>5. CASE OtherService
  <2>1. Quiet /\ UNCHANGED <<com_osema, com_count, cpc>>
    BY <1>1, <1>5, QuietService
       DEF OtherService, SlotsInv, conVars, ringVars, putcVars
  <2> QED
    BY <1>1, <1>2, <2>1, SlotsKept DEF Quiet
<1>6. ASSUME NEW c \in OutChars, Computc(c) \/ Echo(c) PROVE SlotsInv'
  <2>1. /\ Open /\ kcall[currpid] = "none" /\ cpc[currpid] = "out" /\ WaitOn(com_osema)
        /\ UNCHANGED <<com_osema, com_count>> /\ cpc' = [cpc EXCEPT ![currpid] = "first"]
        /\ currpid = NULLPROC => semcnt[com_osema] > 1
    BY <1>6 DEF Computc, Echo, Calling, PutcWaits, InUserMode, ringVars
  <2>2. com_osema \in Sems /\ semcnt \in [Sems -> Int]
    BY <1>1, <1>2, <2>1 DEF ServInv, SemInv, SemType
  <2>3. currpid = NULLPROC => semcnt[com_osema] > 0
    BY <2>1, <2>2
  <2> QED
    BY <1>1, <2>1, <2>3, SlotClaimed
<1>7. CASE PutcWaitsAgain
  <2>1. /\ kcall[currpid] = "none" /\ cpc[currpid] = "first" /\ WaitOn(com_osema)
        /\ UNCHANGED <<com_osema, com_count>> /\ cpc' = [cpc EXCEPT ![currpid] = "second"]
    BY <1>7 DEF PutcWaitsAgain, AtStep, ringVars
  <2>2. Open
    BY <1>1, <2>1 DEF WriterType
  <2>3. currpid = NULLPROC => semcnt[com_osema] > 0
    BY <2>1 DEF SlotsInv, WritersInv, NullWrites
  <2> QED
    BY <1>1, <2>1, <2>2, <2>3, SlotClaimed
<1>8. CASE PutcStores
  <2>1. cpc[currpid] = "first" /\ Store(com_start + com_count, <<cchar[currpid]>>)
    BY <1>8 DEF PutcStores, AtStep
  <2>2. Claiming[currpid] = 1 /\ Len(<<cchar[currpid]>>) = 1
    BY <1>1, <2>1, ClaimsByStep
  <2> QED
    BY <1>1, <2>1, <2>2, StoreFills
<1>9. CASE PutcStoresNewline
  <2>1. cpc[currpid] = "second" /\ Store(cpos[currpid], <<"CR", "NL">>)
    BY <1>9 DEF PutcStoresNewline, AtStep
  <2>2. Claiming[currpid] = 2 /\ Len(<<"CR", "NL">>) = 2
    BY <1>1, <2>1, ClaimsByStep
  <2> QED
    BY <1>1, <2>1, <2>2, StoreFills
<1>10. CASE Comsputc
  BY <1>3, <1>10 DEF Comsputc, ringVars, putcVars
<1>11. CASE SetSync
  BY <1>3, <1>11 DEF SetSync, ringVars, putcVars
<1>12. CASE TransmitInterrupt
  <2>1. /\ Open /\ cpc[currpid] = "out" /\ UNCHANGED <<com_osema, cpc>>
        /\ \/ com_count > 0 /\ Wstrt(com_count)
           \/ UNCHANGED <<servVars, com_count>>
    BY <1>12 DEF TransmitInterrupt, InUserMode, putcVars
  <2>2. CASE com_count > 0 /\ Wstrt(com_count)
    <3>1. SignalOn(com_osema) /\ com_count' = com_count - 1
      BY <2>2 DEF Wstrt
    <3>2. cpc' = [cpc EXCEPT ![currpid] = "out"]
      BY <1>1, <2>1
    <3>3. Claiming[currpid] = 0
      BY <1>1, <2>1, ClaimsByStep
    <3>4. /\ com_count + Claiming[currpid] > 0
          /\ com_count' = com_count + Claiming[currpid] - 1
      BY <1>1, <2>2, <3>1, <3>3
    <3> QED
      BY <1>1, <2>1, <3>1, <3>2, <3>4, SlotFreed
  <2> QED
    BY <1>3, <2>1, <2>2
<1>13. CASE CharacterSent
  BY <1>3, <1>13 DEF CharacterSent, ringVars, putcVars
<1>14. CASE UNCHANGED consoleVars
  BY <1>3, <1>14 DEF consoleVars, conVars, ringVars, putcVars
<1> QED
  BY <1>4, <1>5, <1>6, <1>7, <1>8, <1>9, <1>10, <1>11, <1>12, <1>13, <1>14
     DEF ConsoleNext

LEMMA SlotsInit == ConsoleInit /\ DriverOnly => SlotsInv
<1> SUFFICES ASSUME ConsoleInit, DriverOnly PROVE SlotsInv
  OBVIOUS
<1>1. WritersInv /\ com_count = 0 /\ ~Open
  BY WritersInit DEF ConsoleInit, Open
<1>2. /\ kcall = [p \in Procs |-> "none"]
      /\ \A p \in Procs : pstate[p] \in {"PRCURR", "PRREADY", "PRSUSP", "PRFREE"}
  BY DEF ConsoleInit, ServInit
<1> QED
  BY <1>1, <1>2 DEF SlotsInv

LEMMA SlotsInvariant == ConsoleSpec /\ DriverOnly => []SlotsInv
BY SlotsInit, SlotsNext, PTL DEF ConsoleSpec

\* Of a ring whose semaphore only the driver uses, every slot is full, free or
\* claimed, whoever waits and however the interrupt and the writers interleave.
THEOREM SlotsAccount == ConsoleSpec /\ DriverOnly => []SlotsAccountedFor
<1>1. ASSUME SlotsInv PROVE SlotsAccountedFor
  <2>1. ASSUME Open
        PROVE  com_count + Max({0, semcnt[com_osema]}) + Cardinality(SlotClaims) = COMBUFSZ
    <3>1. com_osema \in Sems /\ semcnt \in [Sems -> Int]
      BY <1>1, <2>1 DEF SlotsInv, WritersInv, WriterType, Open, ServInv, SemInv, SemType
    <3>2. semcnt[com_osema] \in Int
      BY <3>1
    <3>3. Max({0, semcnt[com_osema]}) = Free
      <4>1. PICK n \in Int : n = semcnt[com_osema]
        BY <3>2
      <4>2. Max({0, n}) = IF 0 <= n THEN n ELSE 0
        BY Surplus
      <4>3. (IF 0 <= n THEN n ELSE 0) = IF n > 0 THEN n ELSE 0
        OBVIOUS
      <4> QED
        BY <4>1, <4>2, <4>3 DEF Free
    <3>4. ClaimsIn(Claiming) = SlotClaims
      <4>1. \A c \in Procs \X (1..2) : Claiming[c[1]] = Claims(c[1])
        BY DEF Claiming
      <4> QED
        BY <4>1 DEF ClaimsIn, SlotClaims
    <3>5. com_count + Free + Total(Claiming) = COMBUFSZ
      BY <1>1, <2>1 DEF SlotsInv
    <3> QED
      BY <3>3, <3>4, <3>5 DEF Total
  <2> QED
    BY <2>1 DEF SlotsAccountedFor
<1> QED
  BY <1>1, SlotsInvariant, PTL

\* The processes that hold a slot for the carriage return of a newline and wait
\* for another.
Newlines == {p \in Procs : cpc[p] = "second"}

\* Writers wait for each other, with every slot claimed and none full, only when
\* there are as many newlines under way as the ring has slots.
THEOREM WritersGoOn ==
  ConsoleSpec /\ DriverOnly
    => [](Cardinality(Newlines) < COMBUFSZ => WritersNotStranded)
<1>1. ASSUME SlotsInv, Cardinality(Newlines) < COMBUFSZ PROVE WritersNotStranded
  <2> SUFFICES ASSUME Open, semq[com_osema] # <<>>, ~(com_count > 0),
                      \A p \in Procs : cpc[p] # "out" => pstate[p] = "PRWAIT"
               PROVE  FALSE
    BY DEF WritersNotStranded
  <2>1. /\ com_osema \in Sems /\ semcnt \in [Sems -> Int] /\ semq \in [Sems -> Seq(UserPids)]
        /\ sstate[com_osema] = "SUSED" /\ WriterType /\ CountIsWaiters
    BY <1>1, ServInvMeans
       DEF SlotsInv, WritersInv, WriterType, Open, ServInv, SemInv, SemType
  <2>2. PICK n \in Int : n = semcnt[com_osema]
    BY <2>1
  <2>3. Len(semq[com_osema]) = -Min({0, n}) /\ Len(semq[com_osema]) # 0
    <3>1. Len(semq[com_osema]) = -Min({0, n})
      BY <2>1, <2>2 DEF CountIsWaiters
    <3>2. semq[com_osema] \in Seq(UserPids)
      BY <2>1
    <3> QED
      BY <3>1, <3>2, EmptySeq
  <2>4. Min({0, n}) = IF 0 <= n THEN 0 ELSE n
    BY MinMaxOfTwo
  <2>5. Free = 0
    BY <2>2, <2>3, <2>4 DEF Free
  <2>6. com_count = 0 /\ Total(Claiming) = COMBUFSZ
    <3>1. com_count \in Nat /\ com_count + Free + Total(Claiming) = COMBUFSZ
      BY <1>1 DEF SlotsInv
    <3>2. Total(Claiming) \in Nat
      BY ClaimsFinite
    <3> QED
      BY <2>5, <3>1, <3>2
  <2>7. IsFiniteSet(Newlines)
    BY ProcsFinite, FS_Subset DEF Newlines
  <2>8. PICK F : F = ClaimsIn(Claiming)
    OBVIOUS
  <2>9. \A c \in F : c[2] = 1 /\ c[1] \in Newlines /\ c = <<c[1], c[2]>>
    <3> SUFFICES ASSUME NEW c \in F PROVE c[2] = 1 /\ c[1] \in Newlines /\ c = <<c[1], c[2]>>
      OBVIOUS
    <3>1. PICK q \in Procs, k \in 1..2 : c = <<q, k>> /\ k <= Claiming[q]
      BY <2>8 DEF ClaimsIn
    <3>2. cpc[q] \in {"out", "first", "second"}
      BY <2>1 DEF WriterType
    <3>3. /\ cpc[q] = "out" => Claiming[q] = 0
          /\ cpc[q] = "first" => Claiming[q] = 0
          /\ cpc[q] = "second" => Claiming[q] = 1
      BY <2>1, ClaimsByStep
    <3>4. cpc[q] = "second" /\ k = 1
      BY <3>1, <3>2, <3>3
    <3> QED
      BY <3>1, <3>4 DEF Newlines
  <2>10. Cardinality(F) <= Cardinality(Newlines)
    <3> DEFINE first == [c \in F |-> c[1]]
    <3>1. first \in [F -> Newlines]
      BY <2>9
    <3>2. \A c, d \in F : first[c] = first[d] => c = d
      BY <2>9
    <3>3. first \in Injection(F, Newlines)
      BY <3>1, <3>2 DEF Injection, IsInjective
    <3> QED
      BY <2>7, <3>3, FS_Injection
  <2> QED
    BY <1>1, <2>6, <2>7, <2>8, <2>10, FS_CardinalityType, COMBUFSZAssumption DEF Total
<1> QED
  BY <1>1, SlotsInvariant, PTL

-------------------------------------------------------------------------------
(***************************************************************************)
(* Output: the characters of the ring.                                     *)
(***************************************************************************)

\* The slots of the ring b after n characters were stored from pos on.
Overwritten(b, pos, chars, n, N) ==
  [s \in 0..N - 1 |-> IF \E i \in 1..n : s = (pos + i - 1) % N
                      THEN chars[((s - pos) % N) + 1] ELSE b[s]]

\* The c characters of the ring stay and chars follows them.
Behind(N, C, b, st, c, n, chars, pos) ==
  LET r == Overwritten(b, pos, chars, n, N)
  IN  /\ r \in [0..N - 1 -> C]
      /\ \A i \in 1..c + n : r[(st + i - 1) % N] = IF i <= c THEN b[(st + i - 1) % N]
                                                  ELSE chars[i - c]

\* Characters that are stored at the end of what the ring holds follow it and
\* leave it alone, wherever the end was wrapped around.
LEMMA StoredBehind ==
  ASSUME NEW N \in Nat, N >= 2, NEW C, NEW b \in [0..N - 1 -> C],
         NEW st \in 0..N - 1, NEW c \in Nat, NEW n \in {1, 2}, c + n <= N,
         NEW chars \in [1..n -> C], NEW pos \in 0..2 * N - 1, pos % N = (st + c) % N
  PROVE  Behind(N, C, b, st, c, n, chars, pos)
<1> PICK r : r = Overwritten(b, pos, chars, n, N)
  OBVIOUS
<1>0. ASSUME NEW x \in Int, 0 - 2 * N <= x, x < 3 * N
      PROVE  x % N = IF x < 0 - N THEN x + 2 * N ELSE IF x < 0 THEN x + N
                     ELSE IF x < N THEN x ELSE IF x < 2 * N THEN x - N ELSE x - 2 * N
  <2>1. N > 0
    OBVIOUS
  <2> QED
    BY <1>0, <2>1, Wraps
<1>1. PICK q \in 0..N - 1 : q = pos % N /\ q = (st + c) % N
  <2>1. pos \in Int /\ pos % N \in 0..N - 1
    OBVIOUS
  <2> QED
    BY <2>1
<1>2. /\ q = IF pos < N THEN pos ELSE pos - N
      /\ q = IF st + c < N THEN st + c ELSE st + c - N
  <2>1. ASSUME NEW x \in Int, 0 <= x, x < 2 * N
        PROVE  x % N = IF x < N THEN x ELSE x - N
    <3>1. 0 - 2 * N <= x /\ x < 3 * N /\ ~(x < 0 - N) /\ ~(x < 0)
      BY <2>1
    <3>2. x % N = IF x < 0 - N THEN x + 2 * N ELSE IF x < 0 THEN x + N
                  ELSE IF x < N THEN x ELSE IF x < 2 * N THEN x - N ELSE x - 2 * N
      BY <1>0, <3>1
    <3> QED
      BY <2>1, <3>1, <3>2, Zenon
  <2>2. pos \in Int /\ 0 <= pos /\ pos < 2 * N
    OBVIOUS
  <2>3. pos % N = IF pos < N THEN pos ELSE pos - N
    BY <2>1, <2>2
  <2>4. (st + c) % N = IF st + c < N THEN st + c ELSE st + c - N
    <3>1. PICK x \in Int : x = st + c
      OBVIOUS
    <3>2. 0 <= x /\ x < 2 * N
      BY <3>1
    <3>3. x % N = IF x < N THEN x ELSE x - N
      BY <2>1, <3>2
    <3> QED
      BY <3>1, <3>3
  <2> QED
    BY <1>1, <2>3, <2>4
\* The slots of the new characters.
<1>3. ASSUME NEW i \in 1..n
      PROVE  (pos + i - 1) % N = IF q + i - 1 < N THEN q + i - 1 ELSE q + i - 1 - N
  <2>1. PICK x \in Int : x = pos + i - 1
    OBVIOUS
  <2>2. /\ 0 <= x /\ x <= 2 * N /\ N > 0
        /\ x = q + i - 1 \/ x = q + i - 1 + N
        /\ q + i - 1 <= N
    BY <1>2, <2>1
  <2>3. x % N = IF x < N THEN x ELSE IF x < 2 * N THEN x - N ELSE x - 2 * N
    BY <1>0, <2>2
  <2>4. x % N = IF q + i - 1 < N THEN q + i - 1 ELSE q + i - 1 - N
    BY <2>2, <2>3
  <2> QED
    BY <2>1, <2>4
<1>4. ASSUME NEW s \in 0..N - 1
      PROVE  (s - pos) % N = IF s < q THEN s - q + N ELSE s - q
  <2>1. PICK x \in Int : x = s - pos
    OBVIOUS
  <2>2. /\ 0 - 2 * N <= x /\ x < N /\ N > 0
        /\ x = s - q \/ x = s - q - N
    BY <1>2, <2>1
  <2>3. x % N = IF x < 0 - N THEN x + 2 * N ELSE IF x < 0 THEN x + N ELSE x
    BY <1>0, <2>2
  <2>4. x % N = IF s < q THEN s - q + N ELSE s - q
    BY <2>2, <2>3
  <2> QED
    BY <2>1, <2>4
\* The slots of all characters.
<1>5. ASSUME NEW i \in 1..c + n
      PROVE  /\ (st + i - 1) % N \in 0..N - 1
             /\ (st + i - 1) % N = IF st + i - 1 < N THEN st + i - 1 ELSE st + i - 1 - N
  <2>1. PICK x \in Int : x = st + i - 1
    OBVIOUS
  <2>2. 0 <= x /\ x < 2 * N /\ N > 0
    BY <2>1
  <2>3. x % N = IF x < N THEN x ELSE x - N
    BY <1>0, <2>2
  <2>4. x % N \in 0..N - 1
    BY <2>2, <2>3
  <2> QED
    BY <2>1, <2>3, <2>4
<1>6. ASSUME NEW s \in 0..N - 1 PROVE r[s] \in C
  <2>1. CASE \E i \in 1..n : s = (pos + i - 1) % N
    <3>1. PICK i \in 1..n : s = (pos + i - 1) % N
      BY <2>1
    <3>2. s = IF q + i - 1 < N THEN q + i - 1 ELSE q + i - 1 - N
      BY <1>3, <3>1
    <3>3. (s - pos) % N = IF s < q THEN s - q + N ELSE s - q
      BY <1>4
    <3>4. ((s - pos) % N) + 1 = i
      BY <3>2, <3>3
    <3> QED
      BY <2>1, <3>4 DEF Overwritten
  <2>2. CASE ~\E i \in 1..n : s = (pos + i - 1) % N
    BY <2>2 DEF Overwritten
  <2> QED
    BY <2>1, <2>2
<1>7. ASSUME NEW i \in 1..c, i \in 1..c + n
      PROVE  r[(st + i - 1) % N] = b[(st + i - 1) % N]
  <2>1. PICK s \in 0..N - 1 : /\ s = (st + i - 1) % N
                              /\ s = IF st + i - 1 < N THEN st + i - 1 ELSE st + i - 1 - N
    BY <1>5, <1>7
  <2>2. ASSUME NEW j \in 1..n, s = (pos + j - 1) % N PROVE FALSE
    <3>1. s = IF q + j - 1 < N THEN q + j - 1 ELSE q + j - 1 - N
      BY <1>3, <2>2
    <3> QED
      BY <1>2, <2>1, <3>1
  <2>3. r[s] = b[s]
    BY <2>2 DEF Overwritten
  <2> QED
    BY <2>1, <2>3
<1>8. ASSUME NEW j \in 1..n, c + j \in 1..c + n
      PROVE  r[(st + (c + j) - 1) % N] = chars[j]
  <2>1. PICK s \in 0..N - 1 :
          /\ s = (st + (c + j) - 1) % N
          /\ s = IF st + (c + j) - 1 < N THEN st + (c + j) - 1 ELSE st + (c + j) - 1 - N
    BY <1>5, <1>8
  <2>2. (pos + j - 1) % N = IF q + j - 1 < N THEN q + j - 1 ELSE q + j - 1 - N
    BY <1>3
  <2>3. s = (pos + j - 1) % N
    BY <1>2, <2>1, <2>2
  <2>4. (s - pos) % N = IF s < q THEN s - q + N ELSE s - q
    BY <1>4
  <2>5. ((s - pos) % N) + 1 = j
    BY <2>2, <2>3, <2>4
  <2>6. r[s] = chars[j]
    BY <2>3, <2>5 DEF Overwritten
  <2> QED
    BY <2>1, <2>6
<1>9. r \in [0..N - 1 -> C]
  BY <1>6 DEF Overwritten
<1>10. ASSUME NEW i \in 1..c + n
       PROVE  r[(st + i - 1) % N] = IF i <= c THEN b[(st + i - 1) % N] ELSE chars[i - c]
  <2>1. CASE i <= c
    <3>1. i \in 1..c
      BY <2>1
    <3> QED
      BY <1>7, <2>1, <3>1
  <2>2. CASE ~(i <= c)
    <3>1. PICK j \in 1..n : i = c + j /\ j = i - c
      <4>1. i - c \in 1..n /\ i = c + (i - c)
        BY <2>2
      <4> QED
        BY <4>1
    <3>2. r[(st + (c + j) - 1) % N] = chars[j]
      BY <1>8, <3>1
    <3> QED
      BY <2>2, <3>1, <3>2
  <2> QED
    BY <2>1, <2>2
<1> QED
  BY <1>9, <1>10 DEF Behind

Characters == OutChars \cup {"none", "CR", "NL"}

\* The ring holds the characters e.
InRing(e, b, st, c) ==
  Len(e) = c /\ \A i \in 1..c : e[i] = b[(st + i - 1) % COMBUFSZ]

\* The ring holds what is expected, and the position kept over the second wait
\* of a newline is still the end of the ring.
OrderInv ==
  /\ SlotsInv
  /\ com_start \in 0..COMBUFSZ - 1
  /\ com_buf \in [0..COMBUFSZ - 1 -> Characters]
  /\ cchar \in [Procs -> Characters]
  /\ cpos \in [Procs -> 0..2 * COMBUFSZ - 1]
  /\ expected \in Seq(Characters) /\ raced \in BOOLEAN
  /\ ~raced => InRing(expected, com_buf, com_start, com_count)
  /\ ~raced => \A p \in Procs : cpc[p] = "second"
                 => cpos[p] % COMBUFSZ = (com_start + com_count) % COMBUFSZ

\* The slots a process claimed are free for its characters.
LEMMA RoomForClaims ==
  ASSUME SlotsInv, NEW p \in Procs
  PROVE  /\ com_count \in Nat /\ com_count <= COMBUFSZ
         /\ Open => com_count + Claiming[p] <= COMBUFSZ
<1>1. com_count \in Nat /\ WriterType /\ (~Open => com_count = 0) /\ COMBUFSZ \in Nat
  BY COMBUFSZAssumption DEF SlotsInv, WritersInv
<1>2. ASSUME Open PROVE com_count + Claiming[p] <= COMBUFSZ /\ com_count <= COMBUFSZ
  <2>1. PICK f \in [Procs -> 0..2] : f = Claiming
    BY <1>1, ClaimsByStep
  <2> DEFINE g == [f EXCEPT ![p] = 0]
  <2>2. g \in [Procs -> 0..2] /\ g[p] = 0 /\ \A q \in Procs \ {p} : g[q] = f[q]
    OBVIOUS
  <2> HIDE DEF g
  <2>3. Total(g) = Total(f) - f[p] + g[p]
    BY <2>2, TotalMoves
  <2>4. Total(g) \in Nat /\ Total(f) \in Nat /\ f[p] \in 0..2
    BY ClaimsFinite
  <2>5. Free \in Nat
    <3>1. com_osema \in Sems /\ semcnt \in [Sems -> Int]
      BY <1>1, <1>2 DEF SlotsInv, WritersInv, WriterType, Open, ServInv, SemInv, SemType
    <3> QED
      BY <3>1 DEF Free
  <2>6. com_count + Free + Total(f) = COMBUFSZ
    BY <1>2, <2>1 DEF SlotsInv
  <2>7. f[p] <= Total(f)
    BY <2>2, <2>3, <2>4
  <2> QED
    BY <1>1, <2>1, <2>4, <2>5, <2>6, <2>7
<1> QED
  BY <1>1, <1>2

\* The first character leaves the ring.
LEMMA FirstLeaves ==
  ASSUME NEW b, NEW st \in 0..COMBUFSZ - 1, NEW m \in Nat, m > 0, m <= COMBUFSZ,
         NEW e \in Seq(Characters), InRing(e, b, st, m)
  PROVE  /\ (st + 1) % COMBUFSZ \in 0..COMBUFSZ - 1 /\ Tail(e) \in Seq(Characters)
         /\ InRing(Tail(e), b, (st + 1) % COMBUFSZ, m - 1)
         /\ (((st + 1) % COMBUFSZ) + (m - 1)) % COMBUFSZ = (st + m) % COMBUFSZ
<1>1. PICK N \in Nat : N = COMBUFSZ /\ N >= 2
  BY COMBUFSZAssumption
<1>2. Len(e) = m /\ e # <<>>
  BY EmptySeq DEF InRing
<1>3. /\ Tail(e) \in Seq(Characters) /\ Len(Tail(e)) = m - 1
      /\ \A i \in 1..m - 1 : Tail(e)[i] = e[i + 1]
  BY <1>2, HeadTailProperties
<1>4. ASSUME NEW x \in Int, 0 <= x, x <= 2 * N
      PROVE  x % N = IF x < N THEN x ELSE IF x < 2 * N THEN x - N ELSE x - 2 * N
  <2>1. 0 - 2 * N <= x /\ x < 3 * N /\ ~(x < 0 - N) /\ ~(x < 0) /\ N > 0
    BY <1>1, <1>4
  <2>2. x % N = IF x < 0 - N THEN x + 2 * N ELSE IF x < 0 THEN x + N
                ELSE IF x < N THEN x ELSE IF x < 2 * N THEN x - N ELSE x - 2 * N
    BY <2>1, Wraps
  <2> QED
    BY <2>1, <2>2, Zenon
<1>5. PICK t \in 0..N - 1 : t = (st + 1) % N /\ t = IF st + 1 < N THEN st + 1 ELSE st + 1 - N
  <2>1. PICK x \in Int : x = st + 1
    BY <1>1
  <2>2. 0 <= x /\ x <= 2 * N /\ x < 2 * N
    BY <1>1, <2>1
  <2>3. x % N = IF x < N THEN x ELSE x - N
    BY <1>4, <2>2
  <2>4. x % N \in 0..N - 1
    BY <1>1, <2>2, <2>3
  <2> QED
    BY <2>1, <2>3, <2>4
<1>6. ASSUME NEW i \in 0..m - 1 PROVE (t + i) % N = (st + (i + 1)) % N
  <2>1. PICK x \in Int, y \in Int : x = t + i /\ y = st + (i + 1)
    BY <1>1
  <2>2. 0 <= x /\ x <= 2 * N /\ 0 <= y /\ y <= 2 * N
    BY <1>1, <1>5, <2>1
  <2>3. x % N = IF x < N THEN x ELSE IF x < 2 * N THEN x - N ELSE x - 2 * N
    BY <1>4, <2>2
  <2>4. y % N = IF y < N THEN y ELSE IF y < 2 * N THEN y - N ELSE y - 2 * N
    BY <1>4, <2>2
  <2>5. x % N = y % N
    BY <1>1, <1>5, <2>1, <2>3, <2>4
  <2> QED
    BY <2>1, <2>5
<1>7. ASSUME NEW i \in 1..m - 1 PROVE Tail(e)[i] = b[(t + i - 1) % COMBUFSZ]
  <2>1. i - 1 \in 0..m - 1 /\ i + 1 \in 1..m /\ i - 1 + 1 = i
    OBVIOUS
  <2>2. (t + (i - 1)) % N = (st + (i - 1 + 1)) % N
    BY <1>6, <2>1
  <2>3. t + i - 1 = t + (i - 1) /\ st + (i + 1) - 1 = st + (i - 1 + 1)
    BY <1>1
  <2>4. e[i + 1] = b[(st + (i + 1) - 1) % COMBUFSZ]
    BY <2>1 DEF InRing
  <2> QED
    BY <1>1, <1>3, <2>2, <2>3, <2>4
<1>8. (t + (m - 1)) % N = (st + m) % N
  <2>1. m - 1 \in 0..m - 1 /\ m - 1 + 1 = m
    OBVIOUS
  <2>2. (t + (m - 1)) % N = (st + (m - 1 + 1)) % N
    BY <1>6, <2>1
  <2> QED
    BY <2>1, <2>2
<1> QED
  BY <1>1, <1>3, <1>5, <1>7, <1>8 DEF InRing

\* The characters of computc() are stored behind those that wait to be sent.
LEMMA StoreOrdered ==
  ASSUME OrderInv, SlotsInv', cpc[currpid] # "out", NEW n \in {1, 2},
         Claiming[currpid] = n, NEW chars \in Seq(Characters), Len(chars) = n,
         NEW pos \in 0..2 * COMBUFSZ - 1,
         ~raced => pos % COMBUFSZ = (com_start + com_count) % COMBUFSZ,
         Store(pos, chars)
  PROVE  OrderInv'
<1>1. PICK N \in Nat : N = COMBUFSZ /\ N >= 2
  BY COMBUFSZAssumption
<1>2. /\ currpid \in Procs /\ Open /\ com_count \in Nat /\ com_count + n <= N
      /\ cpc \in [Procs -> {"out", "first", "second"}]
  BY <1>1, RoomForClaims
     DEF OrderInv, SlotsInv, WritersInv, WriterType, ServInv, TableInv, ProcTypeOK
<1>3. /\ com_start \in 0..N - 1 /\ com_buf \in [0..N - 1 -> Characters]
      /\ expected \in Seq(Characters) /\ raced \in BOOLEAN
      /\ cchar \in [Procs -> Characters] /\ cpos \in [Procs -> 0..2 * N - 1]
      /\ DOMAIN com_buf = 0..N - 1 /\ DOMAIN chars = 1..n /\ chars \in [1..n -> Characters]
      /\ pos \in 0..2 * N - 1 /\ n \in {1, 2}
  BY <1>1, LenProperties DEF OrderInv
<1>4. PICK r : r = com_buf' /\ r = Overwritten(com_buf, pos, chars, n, N)
  BY <1>1, <1>3 DEF Store, StoreAt, Overwritten
<1>5. r \in [0..N - 1 -> Characters]
  <2>1. PICK q \in 0..N - 1 : q = pos % N
    BY <1>1
  <2>2. pos % N = (q + 0) % N /\ 0 + n <= N /\ 0 \in Nat
    BY <1>1, <2>1
  <2>3. Behind(N, Characters, com_buf, q, 0, n, chars, pos)
    BY <1>1, <1>3, <2>1, <2>2, StoredBehind
  <2> QED
    BY <1>4, <2>3 DEF Behind
<1>6. raced' \in BOOLEAN /\ (~raced' => ~raced /\ \A p \in Procs \ {currpid} : cpc[p] # "second")
  BY <1>3, Zenon DEF Store
<1>7. /\ cchar' = [cchar EXCEPT ![currpid] = "none"] /\ cpos' = [cpos EXCEPT ![currpid] = 0]
      /\ cpc' = [cpc EXCEPT ![currpid] = "out"]
  BY DEF Store
<1>8. cchar' \in [Procs -> Characters] /\ cpos' \in [Procs -> 0..2 * N - 1]
  <2>1. "none" \in Characters /\ 0 \in 0..2 * N - 1
    BY <1>1 DEF Characters
  <2> QED
    BY <1>2, <1>3, <1>7, <2>1
<1>9. \A p \in Procs : cpc'[p] = "second" => cpc[p] = "second" /\ p # currpid
  BY <1>2, <1>7
<1>10. PICK queued \in Seq(Characters) : /\ queued = expected \o chars
                                         /\ Len(queued) = Len(expected) + n /\ queued # <<>>
  <2>1. /\ expected \o chars \in Seq(Characters)
        /\ Len(expected \o chars) = Len(expected) + n /\ Len(expected) \in Nat
    BY <1>3, ConcatProperties, LenProperties
  <2>2. expected \o chars # <<>>
    BY <2>1, EmptySeq
  <2> QED
    BY <2>1, <2>2
<1>11. ~raced => InRing(queued, r, com_start, com_count + n)
  <2> SUFFICES ASSUME ~raced PROVE InRing(queued, r, com_start, com_count + n)
    OBVIOUS
  <2>1. InRing(expected, com_buf, com_start, com_count)
    BY DEF OrderInv
  <2>2. Len(expected) = com_count /\ Len(queued) = com_count + n
    BY <1>10, <2>1 DEF InRing
  <2>3. \A i \in 1..com_count + n : queued[i] = IF i <= com_count THEN expected[i]
                                                ELSE chars[i - com_count]
    BY <1>3, <1>10, <2>2, ConcatProperties
  <2>4. pos % N = (com_start + com_count) % N
    BY <1>1
  <2>5. Behind(N, Characters, com_buf, com_start, com_count, n, chars, pos)
    BY <1>1, <1>2, <1>3, <2>4, StoredBehind
  <2>6. \A i \in 1..com_count + n :
          r[(com_start + i - 1) % N] = IF i <= com_count THEN com_buf[(com_start + i - 1) % N]
                                       ELSE chars[i - com_count]
    BY <1>4, <2>5 DEF Behind
  <2>7. ASSUME NEW i \in 1..com_count + n PROVE queued[i] = r[(com_start + i - 1) % N]
    <3>1. CASE i <= com_count
      <4>1. i \in 1..com_count
        BY <1>2, <3>1
      <4>2. expected[i] = com_buf[(com_start + i - 1) % N]
        BY <1>1, <2>1, <4>1 DEF InRing
      <4> QED
        BY <2>3, <2>6, <3>1, <4>2
    <3>2. CASE ~(i <= com_count)
      BY <2>3, <2>6, <3>2
    <3> QED
      BY <3>1, <3>2
  <2> QED
    BY <1>1, <2>2, <2>7 DEF InRing
<1>12. /\ com_start' \in 0..N - 1 /\ expected' \in Seq(Characters)
       /\ ~raced' => InRing(expected', r, com_start', com_count')
  <2>1. expected' = IF raced' THEN <<>> ELSE IF thre THEN Tail(queued) ELSE queued
    BY <1>10 DEF Store
  <2>2. CASE thre
    <3>1. com_start' = (com_start + 1) % N /\ com_count' = com_count + n - 1
      <4>1. com_start' = (com_start + 1) % COMBUFSZ /\ com_count' = (com_count + Len(chars)) - 1
        BY <2>2, Zenon DEF Store, Wstrt
      <4>2. com_count' = com_count + n - 1
        BY <1>2, <4>1
      <4> QED
        BY <1>1, <4>1, <4>2, Zenon
    <3>2. Tail(queued) \in Seq(Characters)
      BY <1>10, HeadTailProperties
    <3>3. com_start' \in 0..N - 1
      BY <1>1, <1>3, <3>1
    <3>4. ASSUME ~raced' PROVE InRing(expected', r, com_start', com_count')
      <4>1. expected' = Tail(queued) /\ ~raced
        BY <1>6, <2>1, <2>2, <3>4
      <4>2. PICK m \in Nat : m = com_count + n /\ m > 0 /\ m <= N
        BY <1>2
      <4>3. InRing(Tail(queued), r, (com_start + 1) % COMBUFSZ, m - 1)
        BY <1>1, <1>3, <1>10, <1>11, <4>1, <4>2, FirstLeaves
      <4>4. com_count' = m - 1
        BY <1>2, <3>1, <4>2
      <4> QED
        BY <1>1, <3>1, <4>1, <4>3, <4>4, Zenon
    <3> QED
      BY <2>1, <2>2, <3>2, <3>3, <3>4
  <2>3. CASE ~thre
    <3>1. com_start' = com_start /\ com_count' = com_count + n
      <4>1. com_start' = com_start /\ com_count' = com_count + Len(chars)
        BY <2>3, Zenon DEF Store
      <4> QED
        BY <4>1
    <3> QED
      BY <1>3, <1>6, <1>11, <2>1, <2>3, <3>1
  <2> QED
    BY <2>2, <2>3
<1>13. ~raced' => \A p \in Procs : cpc'[p] # "second"
  BY <1>6, <1>9
<1> QED
  BY <1>1, <1>4, <1>5, <1>6, <1>8, <1>12, <1>13 DEF OrderInv

\* Every step of the driver keeps the order of the characters.
LEMMA OrderNext == OrderInv /\ [ConsoleNext]_consoleVars => OrderInv'
<1> SUFFICES ASSUME OrderInv, [ConsoleNext]_consoleVars PROVE OrderInv'
  OBVIOUS
<1>1. /\ SlotsInv' /\ currpid \in Procs /\ com_count \in Nat /\ com_count <= COMBUFSZ
      /\ WriterType /\ COMBUFSZ \in Nat /\ COMBUFSZ >= 2
      /\ pstate[currpid] = "PRCURR"
  BY SlotsNext, RoomForClaims, COMBUFSZAssumption
     DEF OrderInv, SlotsInv, WritersInv, ServInv, TableInv, ProcTypeOK
<1>2. ASSUME UNCHANGED <<com_start, com_count, com_buf, cchar, cpos, expected, raced>>,
             \A p \in Procs : cpc'[p] = "second" => cpc[p] = "second"
      PROVE  OrderInv'
  BY <1>1, <1>2 DEF OrderInv
<1>3. CASE Cominit
  BY <1>2, <1>3 DEF Cominit, ringVars, putcVars
<1>4. CASE OtherService
  BY <1>2, <1>4 DEF OtherService, conVars, ringVars, putcVars
<1>5. ASSUME NEW c \in OutChars, Computc(c) \/ Echo(c) PROVE OrderInv'
  <2>1. /\ UNCHANGED <<com_start, com_count, com_buf, cpos, expected, raced>>
        /\ cpc' = [cpc EXCEPT ![currpid] = "first"]
        /\ cchar' = [cchar EXCEPT ![currpid] = c]
    BY <1>5 DEF Computc, Echo, PutcWaits, ringVars
  <2>2. \A p \in Procs : cpc'[p] = "second" => cpc[p] = "second"
    BY <1>1, <2>1 DEF WriterType
  <2>3. cchar' \in [Procs -> Characters]
    BY <1>1, <2>1 DEF OrderInv, Characters
  <2> QED
    BY <1>1, <2>1, <2>2, <2>3 DEF OrderInv
<1>6. CASE PutcWaitsAgain
  <2>1. /\ UNCHANGED <<com_start, com_count, com_buf, cchar, expected, raced>>
        /\ cpc' = [cpc EXCEPT ![currpid] = "second"]
        /\ cpos' = [cpos EXCEPT ![currpid] = com_start + com_count]
    BY <1>6 DEF PutcWaitsAgain, ringVars
  <2>2. com_start + com_count \in 0..2 * COMBUFSZ - 1
    BY <1>1 DEF OrderInv
  <2>3. cpos' \in [Procs -> 0..2 * COMBUFSZ - 1]
    BY <1>1, <2>1, <2>2 DEF OrderInv
  <2>4. ASSUME ~raced, NEW p \in Procs, cpc'[p] = "second"
        PROVE  cpos'[p] % COMBUFSZ = (com_start + com_count) % COMBUFSZ
    <3>1. CASE p = currpid
      BY <1>1, <2>1, <3>1 DEF OrderInv
    <3>2. CASE p # currpid
      BY <1>1, <2>1, <2>4, <3>2 DEF OrderInv, WriterType
    <3> QED
      BY <3>1, <3>2
  <2> QED
    BY <1>1, <2>1, <2>3, <2>4 DEF OrderInv
<1>7. CASE PutcStores
  <2>1. cpc[currpid] = "first" /\ Store(com_start + com_count, <<cchar[currpid]>>)
    BY <1>7 DEF PutcStores, AtStep
  <2>2. Claiming[currpid] = 1
    BY <1>1, <2>1, ClaimsByStep
  <2>3. PICK chars \in Seq(Characters) : chars = <<cchar[currpid]>> /\ Len(chars) = 1
    <3>1. PICK c \in Characters : c = cchar[currpid]
      BY <1>1 DEF OrderInv
    <3>2. <<c>> \in Seq(Characters) /\ Len(<<c>>) = 1
      OBVIOUS
    <3> QED
      BY <3>1, <3>2
  <2>4. PICK pos \in 0..2 * COMBUFSZ - 1 : pos = com_start + com_count
    BY <1>1 DEF OrderInv
  <2> QED
    BY <1>1, <2>1, <2>2, <2>3, <2>4, StoreOrdered
<1>8. CASE PutcStoresNewline
  <2>1. cpc[currpid] = "second" /\ Store(cpos[currpid], <<"CR", "NL">>)
    BY <1>8 DEF PutcStoresNewline, AtStep
  <2>2. Claiming[currpid] = 2
    BY <1>1, <2>1, ClaimsByStep
  <2>3. PICK chars \in Seq(Characters) : chars = <<"CR", "NL">> /\ Len(chars) = 2
    <3>1. PICK c \in Characters, d \in Characters : c = "CR" /\ d = "NL"
      BY DEF Characters
    <3>2. <<c, d>> \in Seq(Characters) /\ Len(<<c, d>>) = 2
      OBVIOUS
    <3> QED
      BY <3>1, <3>2
  <2>4. PICK pos \in 0..2 * COMBUFSZ - 1 : pos = cpos[currpid]
    BY <1>1 DEF OrderInv
  <2>5. ~raced => pos % COMBUFSZ = (com_start + com_count) % COMBUFSZ
    BY <1>1, <2>1, <2>4 DEF OrderInv
  <2> QED
    BY <1>1, <2>1, <2>2, <2>3, <2>4, <2>5, StoreOrdered
<1>9. CASE Comsputc
  BY <1>2, <1>9 DEF Comsputc, ringVars, putcVars
<1>10. CASE SetSync
  BY <1>2, <1>10 DEF SetSync, ringVars, putcVars
<1>11. CASE TransmitInterrupt
  <2>1. /\ UNCHANGED <<com_buf, raced, cchar, cpos, cpc>>
        /\ \/ /\ com_count > 0 /\ Wstrt(com_count)
              /\ expected' = IF raced THEN <<>> ELSE Tail(expected)
           \/ UNCHANGED <<com_start, com_count, expected>>
    BY <1>11 DEF TransmitInterrupt, putcVars
  <2>2. CASE com_count > 0 /\ Wstrt(com_count)
             /\ expected' = IF raced THEN <<>> ELSE Tail(expected)
    <3>1. com_start' = (com_start + 1) % COMBUFSZ /\ com_count' = com_count - 1
      BY <2>2 DEF Wstrt
    <3>2. com_start' \in 0..COMBUFSZ - 1
      BY <1>1, <3>1 DEF OrderInv
    <3>3. CASE raced
      BY <1>1, <2>1, <2>2, <3>2, <3>3, EmptySeq DEF OrderInv
    <3>4. CASE ~raced
      <4>1. /\ expected' = Tail(expected) /\ InRing(expected, com_buf, com_start, com_count)
            /\ expected \in Seq(Characters) /\ com_start \in 0..COMBUFSZ - 1
        BY <2>2, <3>4 DEF OrderInv
      <4>2. PICK m \in Nat : m = com_count /\ m > 0 /\ m <= COMBUFSZ
        BY <1>1, <2>2
      <4>3. /\ Tail(expected) \in Seq(Characters)
            /\ InRing(Tail(expected), com_buf, (com_start + 1) % COMBUFSZ, m - 1)
            /\ (((com_start + 1) % COMBUFSZ) + (m - 1)) % COMBUFSZ
               = (com_start + m) % COMBUFSZ
        BY <4>1, <4>2, FirstLeaves
      <4>4. /\ InRing(expected', com_buf', com_start', com_count')
            /\ (com_start' + com_count') % COMBUFSZ = (com_start + com_count) % COMBUFSZ
        BY <2>1, <3>1, <4>1, <4>2, <4>3
      <4> QED
        BY <1>1, <2>1, <3>2, <4>1, <4>3, <4>4 DEF OrderInv
    <3> QED
      BY <3>3, <3>4
  <2> QED
    BY <1>2, <2>1, <2>2
<1>12. CASE CharacterSent
  BY <1>2, <1>12 DEF CharacterSent, ringVars, putcVars
<1>13. CASE UNCHANGED consoleVars
  BY <1>2, <1>13 DEF consoleVars, conVars, ringVars, putcVars
<1> QED
  BY <1>3, <1>4, <1>5, <1>6, <1>7, <1>8, <1>9, <1>10, <1>11, <1>12, <1>13 DEF ConsoleNext

LEMMA OrderInit == ConsoleInit /\ DriverOnly => OrderInv
<1> SUFFICES ASSUME ConsoleInit, DriverOnly PROVE OrderInv
  OBVIOUS
<1>1. SlotsInv
  BY SlotsInit
<1>2. /\ com_start = 0 /\ com_count = 0 /\ expected = <<>> /\ raced = FALSE
      /\ com_buf = [s \in 0..COMBUFSZ - 1 |-> "none"]
      /\ cchar = [p \in Procs |-> "none"] /\ cpos = [p \in Procs |-> 0]
      /\ \A p \in Procs : cpc[p] = "out"
  BY DEF ConsoleInit
<1>3. /\ com_start \in 0..COMBUFSZ - 1 /\ 0 \in 0..2 * COMBUFSZ - 1
      /\ "none" \in Characters /\ expected \in Seq(Characters) /\ Len(expected) = 0
  BY <1>2, COMBUFSZAssumption, EmptySeq DEF Characters
<1>4. InRing(expected, com_buf, com_start, com_count)
  BY <1>2, <1>3 DEF InRing
<1> QED
  BY <1>1, <1>2, <1>3, <1>4 DEF OrderInv

\* The ring sends the characters in the order in which they were stored, wherever
\* it wraps around and whatever is sent between the two waits of a newline.
THEOREM CharactersInOrder == ConsoleSpec /\ DriverOnly => []OutputInOrder
<1>1. ASSUME OrderInv PROVE OutputInOrder
  <2> SUFFICES ASSUME ~raced
               PROVE  [i \in 1..com_count |-> com_buf[(com_start + i - 1) % COMBUFSZ]]
                      = expected
    BY DEF OutputInOrder
  <2>1. InRing(expected, com_buf, com_start, com_count) /\ expected \in Seq(Characters)
    BY <1>1 DEF OrderInv
  <2>2. expected = [i \in 1..com_count |-> expected[i]]
    BY <2>1, LenProperties DEF InRing
  <2> QED
    BY <2>1, <2>2 DEF InRing
<1> QED
  BY <1>1, OrderInit, OrderNext, PTL DEF ConsoleSpec

-------------------------------------------------------------------------------
(***************************************************************************)
(* Input: the line that the ring implements.                               *)
(***************************************************************************)

Typed == Letters \cup {"NL", "EOF"}

RingInv ==
  /\ tty_in \in [0..IBLEN - 1 -> Typed \cup {"none"}]
  /\ tty_istart \in 0..IBLEN - 1 /\ tty_icount \in 0..IBLEN

\* The characters of a ring b of which c are in use from st on.
Slot(st, i) == (st + (i - 1)) % IBLEN
LineOf(b, st, c) == [i \in 1..c |-> b[Slot(st, i)]]

\* An index that wraps around once.
LEMMA WrapsOnce ==
  ASSUME NEW x \in Int, 0 <= x, x < 2 * IBLEN
  PROVE  /\ x % IBLEN = IF x < IBLEN THEN x ELSE x - IBLEN
         /\ x % IBLEN \in 0..IBLEN - 1
<1>1. IBLEN \in Nat /\ IBLEN > 0
  BY IBLENAssumption
<1>2. 0 - 2 * IBLEN <= x /\ x < 3 * IBLEN /\ ~(x < 0 - IBLEN) /\ ~(x < 0)
  BY <1>1
<1>3. x % IBLEN = IF x < 0 - IBLEN THEN x + 2 * IBLEN ELSE IF x < 0 THEN x + IBLEN
                  ELSE IF x < IBLEN THEN x ELSE IF x < 2 * IBLEN THEN x - IBLEN
                  ELSE x - 2 * IBLEN
  BY <1>1, <1>2, Wraps
<1>4. x % IBLEN = IF x < IBLEN THEN x ELSE x - IBLEN
  BY <1>2, <1>3, Zenon
<1> QED
  BY <1>1, <1>4

\* Where the i-th character of a line is.
LEMMA LineIndex ==
  ASSUME NEW st \in 0..IBLEN - 1, NEW i \in 1..IBLEN + 1
  PROVE  /\ Slot(st, i) \in 0..IBLEN - 1
         /\ Slot(st, i) = IF st + (i - 1) < IBLEN THEN st + (i - 1) ELSE st + (i - 1) - IBLEN
<1>1. PICK x \in Int : x = st + (i - 1)
  BY IBLENAssumption
<1>2. 0 <= x /\ x < 2 * IBLEN
  BY <1>1, IBLENAssumption
<1>3. PICK y \in 0..IBLEN - 1 : y = x % IBLEN /\ y = IF x < IBLEN THEN x ELSE x - IBLEN
  BY <1>2, WrapsOnce
<1>4. Slot(st, i) = y
  BY <1>1, <1>3, Zenon DEF Slot
<1> QED
  BY <1>1, <1>3, <1>4, IBLENAssumption

\* L is the line in the first c of these characters.
IsLine(L, S, b, st, c) ==
  L \in Seq(S) /\ Len(L) = c /\ \A i \in 1..c : L[i] = b[Slot(st, i)]

LEMMA LineType ==
  ASSUME NEW S, NEW b \in [0..IBLEN - 1 -> S], NEW st \in 0..IBLEN - 1, NEW c \in 0..IBLEN
  PROVE  IsLine(LineOf(b, st, c), S, b, st, c)
<1>1. ASSUME NEW i \in 1..c PROVE b[Slot(st, i)] \in S
  <2>1. i \in 1..IBLEN + 1
    BY IBLENAssumption
  <2>2. Slot(st, i) \in 0..IBLEN - 1
    BY <2>1, LineIndex
  <2> QED
    BY <2>2
<1>2. c \in Nat /\ LineOf(b, st, c) \in [1..c -> S]
  BY <1>1, IBLENAssumption DEF LineOf
<1>3. LineOf(b, st, c) \in Seq(S)
  BY <1>2, SeqDef
<1> QED
  BY <1>2, <1>3, LenProperties DEF LineOf, IsLine

\* A character stored behind a line that leaves room for it.
Grown(S, b, st, c, x, pos) ==
  /\ [b EXCEPT ![pos] = x] \in [0..IBLEN - 1 -> S]
  /\ LineOf([b EXCEPT ![pos] = x], st, c + 1) = Append(LineOf(b, st, c), x)

LEMMA LineGrows ==
  ASSUME NEW S, NEW b \in [0..IBLEN - 1 -> S], NEW st \in 0..IBLEN - 1, NEW c \in 0..IBLEN,
         c < IBLEN, NEW x \in S,
         NEW pos, pos = IF st + c >= IBLEN THEN st + c - IBLEN ELSE st + c
  PROVE  Grown(S, b, st, c, x, pos)
<1>1. pos \in 0..IBLEN - 1 /\ c + 1 \in 0..IBLEN
  BY IBLENAssumption
<1>2. PICK d \in [0..IBLEN - 1 -> S] : d = [b EXCEPT ![pos] = x]
  BY <1>1
<1>3. IsLine(LineOf(b, st, c), S, b, st, c)
  BY LineType
<1>4. IsLine(LineOf(d, st, c + 1), S, d, st, c + 1)
  BY <1>1, LineType
<1>5. /\ Append(LineOf(b, st, c), x) \in Seq(S) /\ Len(Append(LineOf(b, st, c), x)) = c + 1
      /\ \A i \in 1..c : Append(LineOf(b, st, c), x)[i] = LineOf(b, st, c)[i]
      /\ Append(LineOf(b, st, c), x)[c + 1] = x
  BY <1>3, AppendProperties DEF IsLine
<1>6. ASSUME NEW i \in 1..c + 1
      PROVE  LineOf(d, st, c + 1)[i] = Append(LineOf(b, st, c), x)[i]
  <2>1. i \in 1..IBLEN + 1 /\ c \in Nat
    BY <1>1, IBLENAssumption
  <2>2. PICK j \in 0..IBLEN - 1 :
          /\ j = Slot(st, i)
          /\ j = IF st + (i - 1) < IBLEN THEN st + (i - 1) ELSE st + (i - 1) - IBLEN
    BY <2>1, LineIndex
  <2>3. CASE i = c + 1
    <3>1. j = pos
      BY <2>2, <2>3, IBLENAssumption
    <3>2. d[j] = x
      BY <1>2, <3>1
    <3> QED
      BY <1>4, <1>5, <2>2, <2>3, <3>2 DEF IsLine
  <2>4. CASE i # c + 1
    <3>1. i \in 1..c
      BY <2>1, <2>4
    <3>2. j # pos
      BY <2>2, <3>1, IBLENAssumption
    <3>3. d[j] = b[j]
      BY <1>2, <3>2
    <3> QED
      BY <1>3, <1>4, <1>5, <2>2, <3>1, <3>3 DEF IsLine
  <2> QED
    BY <2>3, <2>4
<1>7. c + 1 \in Nat
  BY <1>1, IBLENAssumption
<1> QED
  BY <1>2, <1>4, <1>5, <1>6, <1>7, SeqEqual DEF IsLine, Grown

\* The first n characters of a line are taken off, or the last ones erased.
Parted(b, st, c, n) ==
  /\ LineOf(b, st, n) = SubSeq(LineOf(b, st, c), 1, n)
  /\ (st + n) % IBLEN \in 0..IBLEN - 1
  /\ LineOf(b, (st + n) % IBLEN, c - n) = SubSeq(LineOf(b, st, c), n + 1, c)

LEMMA LineParts ==
  ASSUME NEW S, NEW b \in [0..IBLEN - 1 -> S], NEW st \in 0..IBLEN - 1, NEW c \in 0..IBLEN,
         NEW n \in 0..c
  PROVE  Parted(b, st, c, n)
<1>1. PICK t \in 0..IBLEN - 1 :
        /\ t = (st + n) % IBLEN
        /\ t = IF st + n < IBLEN THEN st + n ELSE st + n - IBLEN
  <2>1. PICK x \in Int : x = st + n
    BY IBLENAssumption
  <2>2. 0 <= x /\ x < 2 * IBLEN
    BY <2>1, IBLENAssumption
  <2>3. PICK y \in 0..IBLEN - 1 : y = x % IBLEN /\ y = IF x < IBLEN THEN x ELSE x - IBLEN
    BY <2>2, WrapsOnce
  <2>4. y = (st + n) % IBLEN
    BY <2>1, <2>3, Zenon
  <2> QED
    BY <2>1, <2>3, <2>4, IBLENAssumption
<1>2. PICK L : L = LineOf(b, st, c) /\ IsLine(L, S, b, st, c)
  BY LineType
<1>3. n \in 0..IBLEN /\ c - n \in 0..IBLEN /\ c \in Nat /\ n \in Nat /\ c - n \in Nat
  BY IBLENAssumption
<1>4. IsLine(LineOf(b, st, n), S, b, st, n)
  BY <1>3, LineType
<1>5. PICK M : M = LineOf(b, t, c - n) /\ IsLine(M, S, b, t, c - n)
  BY <1>3, LineType
<1>6. LineOf(b, st, n) = SubSeq(L, 1, n)
  <2>1. /\ SubSeq(L, 1, n) \in Seq(S) /\ Len(SubSeq(L, 1, n)) = n
        /\ \A i \in 1..n : SubSeq(L, 1, n)[i] = L[i]
    BY <1>2, <1>3 DEF IsLine
  <2>2. \A i \in 1..n : LineOf(b, st, n)[i] = SubSeq(L, 1, n)[i]
    BY <1>2, <1>3, <1>4, <2>1 DEF IsLine
  <2> QED
    BY <1>3, <1>4, <2>1, <2>2, SeqEqual DEF IsLine
<1>7. M = SubSeq(L, n + 1, c)
  <2>1. /\ SubSeq(L, n + 1, c) \in Seq(S) /\ Len(SubSeq(L, n + 1, c)) = c - n
        /\ \A i \in 1..c - n : SubSeq(L, n + 1, c)[i] = L[n + i]
    BY <1>2, <1>3 DEF IsLine
  <2>2. ASSUME NEW i \in 1..c - n PROVE M[i] = L[n + i]
    <3>1. PICK k \in 1..c : k = n + i /\ k \in 1..IBLEN + 1 /\ i \in 1..IBLEN + 1
      BY <1>3, IBLENAssumption
    <3>2. Slot(t, i) =
            IF t + (i - 1) < IBLEN THEN t + (i - 1) ELSE t + (i - 1) - IBLEN
      BY <3>1, LineIndex
    <3>3. Slot(st, k) =
            IF st + (k - 1) < IBLEN THEN st + (k - 1) ELSE st + (k - 1) - IBLEN
      BY <3>1, LineIndex
    <3>4. Slot(t, i) = Slot(st, k)
      BY <1>1, <1>3, <3>1, <3>2, <3>3, IBLENAssumption
    <3> QED
      BY <1>2, <1>5, <3>1, <3>4 DEF IsLine
  <2>3. \A i \in 1..c - n : M[i] = SubSeq(L, n + 1, c)[i]
    BY <2>1, <2>2
  <2> QED
    BY <1>3, <1>5, <2>1, <2>3, SeqEqual DEF IsLine
<1> QED
  BY <1>1, <1>2, <1>5, <1>6, <1>7 DEF Parted

Chars == Typed \cup {"none"}

\* The characters behind the last newline of a line.
LastLine(L) == {i \in DOMAIN L : \A j \in i..Len(L) : L[j] # "NL"}

\* The two ways to write the line.
LEMMA TheLineIs ==
  /\ TheLine = LineOf(tty_in, tty_istart, tty_icount)
  /\ TheLine' = LineOf(tty_in', tty_istart', tty_icount')
BY DEF TheLine, LineOf, Slot, Char

\* What each operation of the abstract line is in the ring.
LEMMA LineOperations ==
  ASSUME NEW L, NEW M, L = TheLine, M = TheLine'
  PROVE  /\ \A c \in Typed : Len(L) < IBLEN /\ M = Append(L, c) => Lines!Next
         /\ LastLine(L) # {} /\ M = SubSeq(L, 1, Len(L) - 1) => Lines!Next
         /\ \A n \in 0..Len(L) : M = SubSeq(L, n + 1, Len(L)) => Lines!Next
<1>1. ASSUME NEW c \in Typed, Len(L) < IBLEN, M = Append(L, c) PROVE Lines!Next
  BY <1>1 DEF Lines!Next, Lines!TypeOne, TheLine, Typed
<1>2. ASSUME LastLine(L) # {}, M = SubSeq(L, 1, Len(L) - 1) PROVE Lines!Next
  BY <1>2 DEF Lines!Next, Lines!EraseOne, Lines!Editable, Lines!Front, LastLine, TheLine
<1>3. ASSUME NEW n \in 0..Len(L), M = SubSeq(L, n + 1, Len(L)) PROVE Lines!Next
  BY <1>3 DEF Lines!Next, Lines!Take, TheLine
<1> QED
  BY <1>1, <1>2, <1>3

\* What delchar() and delword() look at is the last character of the line.
LEMMA LastCharacter ==
  ASSUME RingInv
  PROVE  /\ tty_icount \in Nat /\ DOMAIN TheLine = 1..tty_icount
         /\ Len(TheLine) = tty_icount /\ TheLine \in Seq(Chars)
         /\ tty_icount > 0 => /\ LastPos \in 0..IBLEN - 1
                              /\ LastPos = Slot(tty_istart, tty_icount)
                              /\ tty_in[LastPos] = TheLine[tty_icount]
<1>1. PICK b \in [0..IBLEN - 1 -> Chars], st \in 0..IBLEN - 1, c \in 0..IBLEN :
        b = tty_in /\ st = tty_istart /\ c = tty_icount
  BY DEF RingInv, Chars
<1>2. IsLine(LineOf(b, st, c), Chars, b, st, c)
  BY LineType
<1>3. TheLine = LineOf(b, st, c)
  BY <1>1, TheLineIs
<1>4. c \in Nat /\ DOMAIN TheLine = 1..tty_icount
  BY IBLENAssumption DEF TheLine
<1>5. ASSUME c > 0 PROVE LastPos = Slot(st, c) /\ LastPos \in 0..IBLEN - 1
  <2>1. PICK sum \in Int : sum = st + c - 1 /\ sum = st + (c - 1)
    BY IBLENAssumption
  <2>2. LastPos = IF sum >= IBLEN THEN sum - IBLEN ELSE sum
    BY <1>1, <2>1, Zenon DEF LastPos
  <2>3. c \in 1..IBLEN + 1
    BY <1>5, IBLENAssumption
  <2>4. /\ Slot(st, c) \in 0..IBLEN - 1
        /\ Slot(st, c) = IF st + (c - 1) < IBLEN THEN st + (c - 1) ELSE st + (c - 1) - IBLEN
    BY <2>3, LineIndex
  <2> QED
    BY <2>1, <2>2, <2>4, IBLENAssumption
<1>6. ASSUME c > 0 PROVE TheLine[c] = b[Slot(st, c)]
  BY <1>2, <1>3, <1>4, <1>6 DEF IsLine
<1> QED
  BY <1>1, <1>2, <1>3, <1>4, <1>5, <1>6 DEF IsLine

\* A step of the ring is one of the line, or none.
Refined == RingInv' /\ (Lines!Next \/ TheLine' = TheLine)

\* Storing a character is typing it, or nothing in a full ring.
LEMMA StoringTypes ==
  ASSUME RingInv, NEW x \in Typed, Iputchar(x)
  PROVE  Refined
<1>1. PICK b \in [0..IBLEN - 1 -> Chars], st \in 0..IBLEN - 1, c \in 0..IBLEN :
        b = tty_in /\ st = tty_istart /\ c = tty_icount
  BY DEF RingInv, Chars
<1>2. CASE c >= IBLEN
  <2>1. tty_in' = tty_in /\ tty_icount' = tty_icount /\ tty_istart' = tty_istart
    BY <1>1, <1>2 DEF Iputchar
  <2>2. TheLine' = TheLine
    BY <2>1, TheLineIs
  <2> QED
    BY <2>1, <2>2 DEF Refined, RingInv
<1>3. CASE ~(c >= IBLEN)
  <2>1. PICK slot : slot = IF st + c >= IBLEN THEN st + c - IBLEN ELSE st + c
    OBVIOUS
  <2>2. StorePos = slot
    <3>1. PICK sum \in Int : sum = st + c /\ sum = tty_istart + tty_icount
      BY <1>1, IBLENAssumption
    <3>2. StorePos = IF sum >= IBLEN THEN sum - IBLEN ELSE sum
      BY <3>1, Zenon DEF StorePos
    <3> QED
      BY <2>1, <3>1, <3>2, IBLENAssumption
  <2>3. /\ tty_in' = [b EXCEPT ![slot] = x] /\ tty_icount' = c + 1 /\ tty_istart' = st
    BY <1>1, <1>3, <2>2 DEF Iputchar
  <2>4. c < IBLEN /\ x \in Chars /\ c + 1 \in 0..IBLEN
    BY <1>3, IBLENAssumption DEF Chars
  <2>5. Grown(Chars, b, st, c, x, slot)
    BY <2>1, <2>4, LineGrows
  <2>6. PICK L, M : /\ L = TheLine /\ M = TheLine' /\ L = LineOf(b, st, c)
                    /\ M = LineOf([b EXCEPT ![slot] = x], st, c + 1)
    BY <1>1, <2>3, TheLineIs
  <2>7. Len(L) = c
    <3>1. IsLine(L, Chars, b, st, c)
      BY <2>6, LineType
    <3> QED
      BY <3>1 DEF IsLine
  <2>8. M = Append(L, x)
    BY <2>5, <2>6 DEF Grown
  <2>9. Lines!Next
    BY <2>4, <2>6, <2>7, <2>8, LineOperations
  <2> QED
    BY <2>3, <2>4, <2>5, <2>9 DEF Refined, RingInv, Chars, Grown
<1> QED
  BY <1>2, <1>3

\* What is erased is the end of the line, what is read its front.
LEMMA CuttingLine ==
  ASSUME RingInv, NEW n \in 0..tty_icount, tty_in' = tty_in,
         \/ tty_istart' = tty_istart /\ tty_icount' = n
         \/ tty_istart' = (tty_istart + n) % IBLEN /\ tty_icount' = tty_icount - n
  PROVE  /\ RingInv'
         /\ tty_icount' = n /\ tty_istart' = tty_istart => TheLine' = SubSeq(TheLine, 1, n)
         /\ tty_istart' = (tty_istart + n) % IBLEN /\ tty_icount' = tty_icount - n
              => Lines!Next
<1>1. PICK b \in [0..IBLEN - 1 -> Chars], st \in 0..IBLEN - 1, c \in 0..IBLEN :
        b = tty_in /\ st = tty_istart /\ c = tty_icount
  BY DEF RingInv, Chars
<1>2. n \in 0..c /\ n \in 0..IBLEN /\ c - n \in 0..IBLEN
  BY <1>1, IBLENAssumption
<1>9. Parted(b, st, c, n)
  BY <1>2, LineParts
<1>3. PICK t \in 0..IBLEN - 1 : t = (st + n) % IBLEN
  BY <1>9 DEF Parted
<1>4. /\ LineOf(b, st, n) = SubSeq(LineOf(b, st, c), 1, n)
      /\ LineOf(b, t, c - n) = SubSeq(LineOf(b, st, c), n + 1, c)
  BY <1>3, <1>9, Zenon DEF Parted
<1>5. tty_icount' \in 0..IBLEN /\ tty_istart' \in 0..IBLEN - 1
  <2>1. CASE tty_istart' = tty_istart /\ tty_icount' = n
    BY <1>1, <1>2, <2>1
  <2>2. CASE tty_istart' = (tty_istart + n) % IBLEN /\ tty_icount' = tty_icount - n
    <3>1. tty_istart' = t
      BY <1>1, <1>3, <2>2, Zenon
    <3> QED
      BY <1>1, <1>2, <2>2, <3>1
  <2> QED
    BY <2>1, <2>2
<1>6. RingInv'
  BY <1>5 DEF RingInv
<1>7. ASSUME tty_icount' = n, tty_istart' = tty_istart
      PROVE  TheLine' = SubSeq(TheLine, 1, n)
  BY <1>1, <1>4, <1>7, TheLineIs
<1>8. ASSUME tty_istart' = (tty_istart + n) % IBLEN, tty_icount' = tty_icount - n
      PROVE  Lines!Next
  <2>1. tty_istart' = t
    BY <1>1, <1>3, <1>8, Zenon
  <2>2. PICK L, M : /\ L = TheLine /\ M = TheLine' /\ L = LineOf(b, st, c)
                    /\ M = LineOf(b, t, c - n)
    BY <1>1, <1>8, <2>1, TheLineIs
  <2>3. Len(L) = c
    <3>1. IsLine(L, Chars, b, st, c)
      BY <2>2, LineType
    <3> QED
      BY <3>1 DEF IsLine
  <2> QED
    BY <1>2, <1>4, <2>2, <2>3, LineOperations
<1> QED
  BY <1>6, <1>7, <1>8

\* delchar(), and delword() with each of its characters, erases the last character of
\* the last line, or nothing.
LEMMA ErasingCuts ==
  ASSUME RingInv, tty_in' = tty_in, tty_istart' = tty_istart,
         tty_icount' = tty_icount \/ (Erasable /\ tty_icount' = tty_icount - 1)
  PROVE  Refined
<1>1. CASE tty_icount' = tty_icount
  BY <1>1, TheLineIs DEF Refined, RingInv
<1>2. CASE Erasable /\ tty_icount' = tty_icount - 1
  <2>1. /\ tty_icount \in Nat /\ DOMAIN TheLine = 1..tty_icount
        /\ Len(TheLine) = tty_icount /\ tty_icount > 0 /\ TheLine[tty_icount] # "NL"
    BY <1>2, LastCharacter DEF Erasable
  <2>2. PICK L, n : L = TheLine /\ n = tty_icount /\ n \in Nat
    BY <2>1, Zenon
  <2>3. n > 0 /\ n - 1 \in 0..n /\ Len(L) = n /\ L[n] # "NL" /\ DOMAIN L = 1..n
    BY <2>1, <2>2
  <2>4. n \in LastLine(L)
    <3>1. n \in DOMAIN L /\ \A j \in n..n : j = n
      BY <2>3
    <3> QED
      BY <2>3, <3>1 DEF LastLine
  <2>5. RingInv' /\ TheLine' = SubSeq(L, 1, n - 1)
    <3>1. PICK r \in 0..tty_icount : r = n - 1
      BY <2>2, <2>3
    <3>2. /\ RingInv'
          /\ tty_icount' = r /\ tty_istart' = tty_istart
               => TheLine' = SubSeq(TheLine, 1, r)
      BY <1>2, <2>2, <3>1, CuttingLine
    <3> QED
      BY <1>2, <2>2, <3>1, <3>2
  <2>6. TheLine' = SubSeq(L, 1, Len(L) - 1) /\ LastLine(L) # {}
    BY <2>3, <2>4, <2>5
  <2>7. Lines!Next
    BY <2>2, <2>6, LineOperations
  <2> QED
    BY <2>5, <2>7 DEF Refined
<1> QED
  BY <1>1, <1>2

\* A read takes characters from the front.
LEMMA CopyingTakes ==
  ASSUME RingInv, NEW len \in ReadLens, NEW r, Copy(r, len)
  PROVE  Refined
<1>1. tty_icount \in Nat /\ len \in Nat
  BY IBLENAssumption, ReadLensAssumption DEF RingInv
<1>2. PICK n \in 0..tty_icount : n = Min({len, tty_icount})
  <2>1. Min({len, tty_icount}) \in {len, tty_icount} /\ Min({len, tty_icount}) <= tty_icount
    <3>1. {len, tty_icount} \in SUBSET Nat /\ {len, tty_icount} # {}
      BY <1>1
    <3> QED
      BY <3>1, MinOfNaturals
  <2> QED
    BY <1>1, <2>1
<1>3. /\ tty_in' = tty_in /\ tty_istart' = (tty_istart + n) % IBLEN
      /\ tty_icount' = tty_icount - n
  BY <1>2, Zenon DEF Copy
<1> QED
  BY <1>3, CuttingLine, Zenon DEF Refined

\* Every step of the ring is one of the line, or leaves it alone.
LEMMA InputRefines ==
  ASSUME RingInv, [InputNext]_inVars
  PROVE  Refined
<1>1. ASSUME UNCHANGED inRing PROVE Refined
  BY <1>1, TheLineIs DEF inRing, Refined, RingInv
<1>2. ASSUME NEW h \in Contexts, NEW c \in Letters, TypeLetter(h, c) PROVE Refined
  BY <1>2, StoringTypes DEF TypeLetter, Typed
<1>3. ASSUME NEW h \in Contexts, NEW return \in BOOLEAN, TypeNewline(h, return)
      PROVE  Refined
  BY <1>3, StoringTypes DEF TypeNewline, Typed
<1>4. ASSUME NEW h \in Contexts, TypeEof(h) PROVE Refined
  BY <1>4, StoringTypes DEF TypeEof, Typed
<1>5. ASSUME NEW h \in Contexts, TypeOther(h) \/ LineEnds(h) PROVE Refined
  BY <1>1, <1>5 DEF TypeOther, LineEnds
<1>9. ASSUME NEW h \in Contexts, Delchar(h) \/ Delword(h) \/ WordGoesOn(h) PROVE Refined
  <2>1. /\ tty_in' = tty_in /\ tty_istart' = tty_istart
        /\ tty_icount' = tty_icount \/ (Erasable /\ tty_icount' = tty_icount - 1)
    BY <1>9, Zenon DEF Delchar, Delword, WordGoesOn
  <2> QED
    BY <2>1, ErasingCuts
<1>6. ASSUME NEW r \in Readers, ReadTests(r) \/ PeekWaits(r) \/ PeekSignals(r)
      PROVE  Refined
  BY <1>1, <1>6 DEF ReadTests, PeekWaits, PeekSignals
<1>7. ASSUME NEW r \in Readers, NEW len \in ReadLens, ReadWaits(r, len) \/ ReadCopies(r, len)
      PROVE  Refined
  BY <1>1, <1>7, CopyingTakes DEF ReadWaits, ReadCopies
<1>8. CASE UNCHANGED inVars
  BY <1>1, <1>8 DEF inVars
<1> QED
  BY <1>2, <1>3, <1>4, <1>5, <1>6, <1>7, <1>8, <1>9 DEF InputNext

\* The ring with its start and its count behaves as one line that is edited at its
\* end and read at its front, for a ring of any size, any characters and any number
\* of readers (tty/ttyiin.c, ttyread.c).
THEOREM LineImplemented == InputSpec => ImplementsLineInput
<1>1. InputInit => RingInv /\ Lines!Init
  <2> SUFFICES ASSUME InputInit PROVE RingInv /\ Lines!Init
    OBVIOUS
  <2>1. RingInv
    BY IBLENAssumption DEF InputInit, RingInv
  <2>2. tty_icount = 0 /\ 1..0 = {}
    BY DEF InputInit
  <2>3. Len(TheLine) = 0 /\ TheLine \in Seq(Chars)
    BY <2>1, <2>2, LastCharacter
  <2>4. TheLine = <<>>
    BY <2>3, EmptySeq
  <2> QED
    BY <2>1, <2>4 DEF Lines!Init, TheLine
<1>2. RingInv /\ [InputNext]_inVars
      => RingInv' /\ [Lines!Next]_TheLine
  BY InputRefines DEF Refined
<1> QED
  BY <1>1, <1>2, PTL DEF InputSpec, ImplementsLineInput, Lines!Spec, TheLine

-------------------------------------------------------------------------------
(***************************************************************************)
(* Input: a word that is erased while its echoes let others run.           *)
(***************************************************************************)

Handlers == [step : {"none", "signal", "word"}, kind : 0..2, pos : 0..IBLEN - 1,
             alone : BOOLEAN]

\* The slot behind the line.
EndOf(st, c) == Slot(st, c + 1)

\* As long as nobody else stores or erases, the index that delword() keeps is that of
\* the slot behind the line.
AtEnd(h, st, c) == h.step = "word" /\ h.alone => h.pos = EndOf(st, c)

HandlerInv ==
  /\ handler \in [Contexts -> Handlers]
  /\ \A h \in Contexts : AtEnd(handler[h], tty_istart, tty_icount)

LEMMA HandlerTypes ==
  /\ Nothing \in Handlers /\ Nothing.step = "none" /\ LineDone \in Handlers
  /\ LineDone.step = "signal"
  /\ \A c : Kind(c) \in 0..2
<1>1. Nothing \in Handlers /\ Nothing.step = "none"
  BY IBLENAssumption DEF Nothing, Handlers
<1>2. LineDone \in Handlers /\ LineDone.step = "signal"
  <2>1. LineDone = [Nothing EXCEPT !.step = "signal"]
    BY DEF LineDone
  <2>2. Nothing.kind \in 0..2 /\ Nothing.pos \in 0..IBLEN - 1 /\ Nothing.alone \in BOOLEAN
    BY <1>1 DEF Handlers
  <2> QED
    BY <1>1, <2>1, <2>2 DEF Handlers
<1>3. \A blank, slash, c : (IF c = blank THEN 0 ELSE IF c = slash THEN 2 ELSE 1) \in 0..2
  OBVIOUS
<1>4. \A c : Kind(c) \in 0..2
  BY <1>3, Zenon DEF Kind
<1> QED
  BY <1>1, <1>2, <1>4

\* A handler that comes to its echo leaves the others where they are, and they know
\* when it has changed the end of the line.
LEMMA EchoesKeep ==
  ASSUME HandlerInv, NEW h \in Contexts, NEW rest \in Handlers, Echoes(h, rest),
         tty_istart' = tty_istart, AtEnd(rest, tty_istart, tty_icount')
  PROVE  HandlerInv'
<1>1. handler \in [Contexts -> Handlers]
  BY DEF HandlerInv
<1>2. ASSUME NEW g \in Contexts
      PROVE  handler'[g] \in Handlers /\ AtEnd(handler'[g], tty_istart, tty_icount')
  <2>1. CASE g = h
    BY <2>1 DEF Echoes
  <2>2. CASE g # h /\ handler[g].step = "word" /\ tty_icount' # tty_icount
    <3>1. handler'[g] = [handler[g] EXCEPT !.alone = FALSE]
      BY <2>2 DEF Echoes
    <3>2. handler'[g] \in Handlers /\ ~handler'[g].alone
      BY <1>1, <3>1 DEF Handlers
    <3> QED
      BY <3>2 DEF AtEnd
  <2>3. CASE g # h /\ ~(handler[g].step = "word" /\ tty_icount' # tty_icount)
    <3>1. handler'[g] = handler[g]
      BY <2>3 DEF Echoes
    <3>2. AtEnd(handler[g], tty_istart, tty_icount)
      BY DEF HandlerInv
    <3> QED
      BY <1>1, <2>3, <3>1, <3>2 DEF AtEnd
  <2> QED
    BY <2>1, <2>2, <2>3
<1>3. handler' \in [Contexts -> Handlers]
  <2>1. handler' = [g \in Contexts |-> handler'[g]]
    BY DEF Echoes
  <2> QED
    BY <1>2, <2>1
<1> QED
  BY <1>2, <1>3 DEF HandlerInv

\* Characters read from the front leave the end of the line where it is.
LEMMA ReadingKeepsEnd ==
  ASSUME NEW st \in 0..IBLEN - 1, NEW c \in 0..IBLEN, NEW n \in 0..c
  PROVE  EndOf((st + n) % IBLEN, c - n) = EndOf(st, c)
<1>1. PICK x \in Int : x = st + n /\ 0 <= x /\ x < 2 * IBLEN
  BY IBLENAssumption
<1>2. PICK t \in 0..IBLEN - 1 : t = x % IBLEN /\ t = IF x < IBLEN THEN x ELSE x - IBLEN
  BY <1>1, WrapsOnce
<1>3. c + 1 \in 1..IBLEN + 1 /\ (c - n) + 1 \in 1..IBLEN + 1
  BY IBLENAssumption
<1>4. Slot(st, c + 1) =
        IF st + ((c + 1) - 1) < IBLEN THEN st + ((c + 1) - 1) ELSE st + ((c + 1) - 1) - IBLEN
  BY <1>3, LineIndex
<1>5. Slot(t, (c - n) + 1) =
        IF t + (((c - n) + 1) - 1) < IBLEN THEN t + (((c - n) + 1) - 1)
        ELSE t + (((c - n) + 1) - 1) - IBLEN
  BY <1>3, LineIndex
<1>6. Slot(t, (c - n) + 1) = Slot(st, c + 1)
  BY <1>1, <1>2, <1>4, <1>5, IBLENAssumption
<1>7. t = (st + n) % IBLEN
  BY <1>1, <1>2, Zenon
<1> QED
  BY <1>6, <1>7, Zenon DEF EndOf

LEMMA CopyKeepsHandlers ==
  ASSUME RingInv, HandlerInv, NEW len \in ReadLens, NEW r, Copy(r, len),
         handler' = handler
  PROVE  HandlerInv'
<1>1. PICK n \in 0..tty_icount : n = Min({len, tty_icount})
  <2>1. tty_icount \in Nat /\ len \in Nat
    BY IBLENAssumption, ReadLensAssumption DEF RingInv
  <2>2. {len, tty_icount} \in SUBSET Nat /\ {len, tty_icount} # {}
    BY <2>1
  <2>3. Min({len, tty_icount}) \in {len, tty_icount} /\ Min({len, tty_icount}) <= tty_icount
    BY <2>2, MinOfNaturals
  <2> QED
    BY <2>1, <2>3
<1>2. tty_istart' = (tty_istart + n) % IBLEN /\ tty_icount' = tty_icount - n
  BY <1>1, Zenon DEF Copy
<1>3. EndOf((tty_istart + n) % IBLEN, tty_icount - n) = EndOf(tty_istart, tty_icount)
  BY ReadingKeepsEnd DEF RingInv
<1>4. EndOf(tty_istart', tty_icount') = EndOf(tty_istart, tty_icount)
  BY <1>2, <1>3, Zenon
<1> QED
  BY <1>4 DEF HandlerInv, AtEnd

\* The slot of the last character is the one before the end.
LEMMA BackFromEnd ==
  ASSUME RingInv, tty_icount > 0
  PROVE  /\ Back(EndOf(tty_istart, tty_icount)) = LastPos
         /\ LastPos = EndOf(tty_istart, tty_icount - 1)
         /\ LastPos \in 0..IBLEN - 1
         /\ tty_in[LastPos] = Char(tty_icount - 1)
<1>1. PICK st \in 0..IBLEN - 1, c \in 1..IBLEN : st = tty_istart /\ c = tty_icount
  BY IBLENAssumption DEF RingInv
<1>2. c \in 1..IBLEN + 1 /\ c + 1 \in 1..IBLEN + 1 /\ (c - 1) + 1 = c
  BY IBLENAssumption
<1>3. Slot(st, c) = IF st + (c - 1) < IBLEN THEN st + (c - 1) ELSE st + (c - 1) - IBLEN
  BY <1>2, LineIndex
<1>4. Slot(st, c + 1) =
        IF st + ((c + 1) - 1) < IBLEN THEN st + ((c + 1) - 1) ELSE st + ((c + 1) - 1) - IBLEN
  BY <1>2, LineIndex
<1>5. Back(Slot(st, c + 1)) = Slot(st, c)
  BY <1>3, <1>4, IBLENAssumption DEF Back
<1>6. LastPos = Slot(st, c) /\ LastPos \in 0..IBLEN - 1
  BY <1>1, LastCharacter
<1>7. tty_in[LastPos] = Char(c - 1)
  BY <1>1, <1>6 DEF Char, Slot
<1> QED
  BY <1>1, <1>2, <1>5, <1>6, <1>7 DEF EndOf

\* The next turn of the loop of delword(), when nobody else has changed the line.
LEMMA NextOfWord ==
  ASSUME RingInv, HandlerInv, NEW h \in Contexts, WordGoesOn(h), handler[h].alone
  PROVE  ErasesLast(h) /\ HandlerInv'
<1> DEFINE pos == Back(handler[h].pos)
           more == tty_in[pos] # "NL" /\ Kind(tty_in[pos]) = handler[h].kind /\ Erasable
<1>1. /\ handler[h] \in Handlers /\ handler[h].step = "word" /\ tty_istart' = tty_istart
      /\ tty_icount' = IF more THEN tty_icount - 1 ELSE tty_icount
      /\ Echoes(h, IF more THEN [handler[h] EXCEPT !.pos = pos] ELSE Nothing)
  BY Zenon DEF WordGoesOn, HandlerInv
<1>2. handler[h].pos = EndOf(tty_istart, tty_icount) /\ tty_icount \in Nat
  BY <1>1, LastCharacter DEF HandlerInv, AtEnd
<1>3. CASE more
  <2>1. tty_icount > 0
    BY <1>3 DEF Erasable
  <2>2. /\ pos = LastPos /\ pos = EndOf(tty_istart, tty_icount - 1)
        /\ pos \in 0..IBLEN - 1 /\ tty_in[pos] = Char(tty_icount - 1)
    BY <1>2, <2>1, BackFromEnd
  <2>3. PICK rest : rest = [handler[h] EXCEPT !.pos = pos]
    OBVIOUS
  <2> HIDE DEF pos
  <2>4. rest \in Handlers /\ rest.pos = pos
    BY <1>1, <2>2, <2>3 DEF Handlers
  <2>5. tty_icount' = tty_icount - 1 /\ Echoes(h, rest)
    BY <1>1, <1>3, <2>3
  <2>6. AtEnd(rest, tty_istart, tty_icount')
    BY <2>2, <2>4, <2>5 DEF AtEnd
  <2>7. HandlerInv'
    BY <1>1, <2>4, <2>5, <2>6, EchoesKeep
  <2> QED
    BY <1>3, <2>1, <2>2, <2>5, <2>7, Zenon DEF ErasesLast
<1>4. CASE ~more
  <2>1. tty_icount' = tty_icount /\ Echoes(h, Nothing)
    BY <1>1, <1>4
  <2>2. HandlerInv'
    BY <1>1, <2>1, EchoesKeep, HandlerTypes DEF AtEnd
  <2>3. ~(/\ tty_icount > 0 /\ Char(tty_icount - 1) # "NL"
          /\ Kind(Char(tty_icount - 1)) = handler[h].kind)
    <3> SUFFICES ASSUME tty_icount > 0, Char(tty_icount - 1) # "NL",
                        Kind(Char(tty_icount - 1)) = handler[h].kind
                 PROVE  more
      BY <1>4
    <3>1. pos = LastPos /\ tty_in[pos] = Char(tty_icount - 1)
      BY <1>2, BackFromEnd
    <3> QED
      BY <3>1, Zenon DEF Erasable
  <2> QED
    BY <2>1, <2>2, <2>3, Zenon DEF ErasesLast
<1> QED
  BY <1>3, <1>4

\* So does the loop when somebody has: it does not say that it is alone.
LEMMA RestOfWord ==
  ASSUME RingInv, HandlerInv, NEW h \in Contexts, WordGoesOn(h), ~handler[h].alone
  PROVE  HandlerInv'
<1> DEFINE pos == Back(handler[h].pos)
<1>1. handler[h] \in Handlers /\ tty_istart' = tty_istart
  BY DEF WordGoesOn, HandlerInv
<1>2. pos \in 0..IBLEN - 1
  BY <1>1, IBLENAssumption DEF Handlers, Back
<1>3. PICK rest : /\ rest = Nothing \/ rest = [handler[h] EXCEPT !.pos = pos]
                  /\ Echoes(h, rest)
  BY Zenon DEF WordGoesOn
<1> HIDE DEF pos
<1>4. rest \in Handlers /\ (rest.step = "none" \/ ~rest.alone)
  BY <1>1, <1>2, <1>3, HandlerTypes DEF Handlers
<1>5. AtEnd(rest, tty_istart, tty_icount')
  BY <1>4 DEF AtEnd
<1> QED
  BY <1>1, <1>3, <1>4, <1>5, EchoesKeep

\* A word begins with its last character.
LEMMA WordBegins ==
  ASSUME RingInv, HandlerInv, NEW h \in Contexts, Delword(h)
  PROVE  HandlerInv'
<1>1. tty_istart' = tty_istart
  BY DEF Delword
<1>2. CASE Erasable
  <2>1. tty_icount > 0
    BY <1>2 DEF Erasable
  <2>2. LastPos \in 0..IBLEN - 1 /\ LastPos = EndOf(tty_istart, tty_icount - 1)
    BY <2>1, BackFromEnd
  <2>3. PICK rest : rest = [step |-> "word", kind |-> Kind(tty_in[LastPos]),
                            pos |-> LastPos, alone |-> TRUE]
    OBVIOUS
  <2>4. tty_icount' = tty_icount - 1 /\ Echoes(h, rest)
    BY <1>2, <2>3 DEF Delword
  <2>5. rest \in Handlers /\ rest.pos = LastPos
    BY <2>2, <2>3, HandlerTypes DEF Handlers
  <2>6. AtEnd(rest, tty_istart, tty_icount')
    BY <2>2, <2>4, <2>5 DEF AtEnd
  <2> QED
    BY <1>1, <2>4, <2>5, <2>6, EchoesKeep
<1>3. CASE ~Erasable
  <2>1. Echoes(h, Nothing)
    BY <1>3 DEF Delword
  <2> QED
    BY <1>1, <2>1, EchoesKeep, HandlerTypes DEF AtEnd
<1> QED
  BY <1>2, <1>3

\* The handlers that leave nothing of a word behind.
Simple(h) == \/ \E c \in Letters : TypeLetter(h, c)
             \/ \E return \in BOOLEAN : TypeNewline(h, return)
             \/ TypeEof(h) \/ Delchar(h)

LEMMA SimpleEchoes ==
  ASSUME NEW h \in Contexts, Simple(h)
  PROVE  /\ Echoes(h, Nothing) \/ Echoes(h, LineDone)
         /\ tty_istart' = tty_istart /\ handler[h] = Nothing
BY Zenon DEF Simple, TypeLetter, TypeNewline, TypeEof, Delchar, Iputchar, Interruptible

\* Every step keeps the index of a word where its line ends.
LEMMA HandlersKept ==
  ASSUME RingInv, HandlerInv, [InputNext]_inVars
  PROVE  HandlerInv'
<1>1. ASSUME UNCHANGED <<inRing, handler>> PROVE HandlerInv'
  BY <1>1 DEF HandlerInv, inRing
<1>2. ASSUME NEW h \in Contexts, Simple(h) PROVE HandlerInv'
  <2>1. PICK rest \in {Nothing, LineDone} : Echoes(h, rest)
    BY <1>2, SimpleEchoes
  <2>2. rest \in Handlers /\ rest.step # "word" /\ tty_istart' = tty_istart
    BY <1>2, <2>1, SimpleEchoes, HandlerTypes
  <2>3. AtEnd(rest, tty_istart, tty_icount')
    BY <2>2 DEF AtEnd
  <2> QED
    BY <2>1, <2>2, <2>3, EchoesKeep
<1>3. ASSUME NEW h \in Contexts, LineEnds(h) PROVE HandlerInv'
  <2>1. handler' = [handler EXCEPT ![h] = Nothing] /\ UNCHANGED inRing
    BY <1>3 DEF LineEnds
  <2> QED
    BY <2>1, HandlerTypes DEF HandlerInv, inRing, AtEnd
<1>4. ASSUME NEW h \in Contexts, WordGoesOn(h) PROVE HandlerInv'
  BY <1>4, NextOfWord, RestOfWord
<1>5. ASSUME NEW r \in Readers, NEW len \in ReadLens, ReadWaits(r, len) \/ ReadCopies(r, len)
      PROVE  HandlerInv'
  BY <1>1, <1>5, CopyKeepsHandlers DEF ReadWaits, ReadCopies
<1>6. ASSUME NEW r \in Readers, ReadTests(r) \/ PeekWaits(r) \/ PeekSignals(r)
      PROVE  HandlerInv'
  BY <1>1, <1>6 DEF ReadTests, PeekWaits, PeekSignals
<1>7. ASSUME NEW h \in Contexts, TypeOther(h) PROVE HandlerInv'
  BY <1>1, <1>7 DEF TypeOther
<1>8. CASE UNCHANGED inVars
  BY <1>1, <1>8 DEF inVars
<1> QED
  BY <1>2, <1>3, <1>4, <1>5, <1>6, <1>7, <1>8, WordBegins DEF InputNext, Simple

\* Nobody but its own handler takes a word's step, and a step of another one is told.
LEMMA OnlyTheHandler ==
  ASSUME InputInv, HandlerInv, [InputNext]_inVars, NEW h \in Contexts,
         handler[h].step = "word", handler'[h].alone, rpc' = rpc,
         <<handler'[h], tty_icount'>> # <<handler[h], tty_icount>>
  PROVE  WordGoesOn(h)
<1>1. handler[h] # Nothing /\ handler[h].step # "signal"
  BY HandlerTypes
<1>2. ASSUME NEW g \in Contexts, NEW rest, g # h, Echoes(g, rest) PROVE FALSE
  <2>1. handler[h] \in Handlers
    BY DEF HandlerInv
  <2>2. CASE tty_icount' # tty_icount
    <3>1. handler'[h] = [handler[h] EXCEPT !.alone = FALSE]
      BY <1>2, <2>2 DEF Echoes
    <3> QED
      BY <2>1, <3>1 DEF Handlers
  <2>3. CASE tty_icount' = tty_icount
    BY <1>2, <2>3 DEF Echoes
  <2> QED
    BY <2>2, <2>3
<1>3. ~(UNCHANGED <<inRing, handler>>)
  BY DEF inRing
<1>4. ASSUME NEW g \in Contexts, Simple(g) PROVE FALSE
  BY <1>1, <1>2, <1>4, SimpleEchoes
<1>5. ASSUME NEW g \in Contexts, Delword(g) PROVE FALSE
  BY <1>1, <1>2, <1>5, Zenon DEF Delword, Interruptible
<1>6. ASSUME NEW g \in Contexts, LineEnds(g) PROVE FALSE
  <2>1. g # h /\ handler' = [handler EXCEPT ![g] = Nothing] /\ UNCHANGED inRing
    BY <1>1, <1>6 DEF LineEnds
  <2> QED
    BY <2>1 DEF inRing, HandlerInv
<1>7. ASSUME NEW g \in Contexts, WordGoesOn(g) PROVE g = h
  BY <1>2, <1>7, Zenon DEF WordGoesOn
<1>8. ASSUME NEW r \in Readers, ReadTests(r) \/ PeekWaits(r) \/ PeekSignals(r) PROVE FALSE
  BY <1>3, <1>8 DEF ReadTests, PeekWaits, PeekSignals
<1>9. ASSUME NEW r \in Readers, NEW len \in ReadLens, ReadWaits(r, len) PROVE FALSE
  <2>1. CASE isema > 0
    <3>1. rpc[r] = "tested" /\ rpc' = [rpc EXCEPT ![r] = "out"]
      BY <1>9, <2>1 DEF ReadWaits
    <3> QED
      BY <3>1 DEF InputInv
  <2>2. CASE ~(isema > 0)
    BY <1>3, <1>9, <2>2 DEF ReadWaits
  <2> QED
    BY <2>1, <2>2
<1>10. ASSUME NEW r \in Readers, NEW len \in ReadLens, ReadCopies(r, len) PROVE FALSE
  BY <1>10 DEF ReadCopies, InputInv
<1>11. ASSUME NEW g \in Contexts, TypeOther(g) PROVE FALSE
  BY <1>3, <1>11 DEF TypeOther
<1>12. ~(UNCHANGED inVars)
  BY <1>3 DEF inVars
<1> QED
  BY <1>4, <1>5, <1>6, <1>7, <1>8, <1>9, <1>10, <1>11, <1>12 DEF InputNext, Simple

\* delword() erases exactly the characters of the word's kind at the end of the line
\* as long as no other handler stores or erases while it echoes, wherever the ring
\* wraps around and whatever readers take from the front (tty/ttyiin.c).
THEOREM WordIsErased == InputSpec => WordErased
<1>1. InputInit => HandlerInv
  <2> SUFFICES ASSUME InputInit PROVE HandlerInv
    OBVIOUS
  <2>1. handler = [h \in Contexts |-> Nothing]
    BY DEF InputInit
  <2> QED
    BY <2>1, HandlerTypes DEF HandlerInv, AtEnd
<1>2. InputInit => RingInv
  BY IBLENAssumption DEF InputInit, RingInv
<1>3. RingInv /\ [InputNext]_inVars => RingInv'
  BY InputRefines DEF Refined
<1>4. RingInv /\ HandlerInv /\ [InputNext]_inVars => HandlerInv'
  BY HandlersKept
<1>5. InputInv /\ RingInv /\ HandlerInv /\ [InputNext]_inVars => [WordsEraseLast]_inVars
  <2> SUFFICES ASSUME InputInv, RingInv, HandlerInv, [InputNext]_inVars,
                      NEW h \in Contexts, handler[h].step = "word", handler[h].alone,
                      handler'[h].alone, rpc' = rpc,
                      <<handler'[h], tty_icount'>> # <<handler[h], tty_icount>>
               PROVE  ErasesLast(h)
    BY Zenon DEF WordsEraseLast
  <2>1. WordGoesOn(h)
    BY OnlyTheHandler
  <2> QED
    BY <2>1, NextOfWord
<1> QED
  BY <1>1, <1>2, <1>3, <1>4, <1>5, InputInitInv, InputNextInv, PTL DEF InputSpec, WordErased
=============================================================================
