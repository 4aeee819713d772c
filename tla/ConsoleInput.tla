------------------------------ MODULE ConsoleInput ------------------------------
(***************************************************************************)
(* Terminal input (tty/ttyiin.c, ttyread.c, ttygetc.c, ttycntl.c): the     *)
(* ring tty_in between the receive interrupt, which also does the editing, *)
(* and the processes that read.  The semaphore tty_isema is its count and  *)
(* the queue of the processes that wait for it.  The interrupt runs in the *)
(* process it came to and waits there when an echo finds the output ring   *)
(* full: what it has still to do then comes later, after others have typed *)
(* and read.  No flag of tty_iflags but TIF_EOF is ever set; the echo is   *)
(* in ConsoleOutput, the message for an interrupt character in             *)
(* KernelServices.                                                         *)
(***************************************************************************)
EXTENDS Integers, Sequences, SequencesExt, FiniteSets

CONSTANTS IBLEN,     \* slots of tty_in
          Letters,   \* characters that are stored, besides "NL" and "EOF"
          ReadLens,  \* lengths passed to ttyread()
          Readers,   \* the processes that read
          Contexts      \* the processes in which the interrupt may come

ASSUME IBLENAssumption == IBLEN \in Nat \ {0}
ASSUME ReadLensAssumption == ReadLens \subseteq Nat
ASSUME ReadersAssumption == IsFiniteSet(Readers) /\ Readers \subseteq Contexts

VARIABLES
  tty_in,      \* the ring
  tty_istart,  \* index of the oldest character
  tty_icount,  \* characters in the ring
  lastc,       \* was the last character a carriage return?
  tif_eof,     \* TIF_EOF: an end-of-file character was typed
  isema,       \* count of tty_isema
  iqueue,      \* the processes that wait for it
  rpc,         \* where a reader is
  handler      \* what the interrupt that came in a process has still to do

inRing  == <<tty_in, tty_istart, tty_icount>>
inSema  == <<isema, iqueue, rpc>>
inVars  == <<inRing, lastc, tif_eof, inSema, handler>>

\* The k-th character from the front, counted from 0.
Char(k) == tty_in[(tty_istart + k) % IBLEN]

-------------------------------------------------------------------------------
\* The slot behind the last character, and that of the last character.
StorePos ==
  LET pos == tty_istart + tty_icount
  IN  IF pos >= IBLEN THEN pos - IBLEN ELSE pos
LastPos ==
  LET pos == tty_istart + tty_icount - 1
  IN  IF pos >= IBLEN THEN pos - IBLEN ELSE pos

\* iputchar(): a full ring drops the character.
Iputchar(c) ==
  /\ IF tty_icount >= IBLEN
     THEN UNCHANGED <<tty_in, tty_icount>>
     ELSE /\ tty_in' = [tty_in EXCEPT ![StorePos] = c]
          /\ tty_icount' = tty_icount + 1
  /\ UNCHANGED tty_istart

\* signal(tty_isema): the first process that waits goes on.
SignalInput ==
  /\ isema' = isema + 1
  /\ IF isema < 0
     THEN /\ iqueue' = Tail(iqueue)
          /\ rpc' = [rpc EXCEPT ![Head(iqueue)] =
                       IF @ = "reading" THEN "to_read" ELSE "to_peek"]
     ELSE UNCHANGED <<iqueue, rpc>>

\* Mutant of EndsLine: every line adds to the count.
EndsLineAlways == SignalInput

\* Only one unit is ever given for the lines nobody waits for.
EndsLine == IF isema <= 0 THEN SignalInput ELSE UNCHANGED inSema

-------------------------------------------------------------------------------
\* What is left of a handler: the signal for a line, or the rest of a word.  alone
\* is history: no other handler has stored or erased since the word was begun.
Nothing  == [step |-> "none", kind |-> 0, pos |-> 0, alone |-> TRUE]
LineDone == [Nothing EXCEPT !.step = "signal"]

\* Interrupts reach a process that runs with them enabled: not one that waits, and
\* not one with a handler that waits for the echo.
Interruptible(h) ==
  /\ handler[h] = Nothing
  /\ h \in Readers => rpc[h] \in {"out", "tested"}

\* The handler in h has come to its echo; rest is what it does after that.
Echoes(h, rest) ==
  handler' = [g \in Contexts |->
                IF g = h THEN rest
                ELSE IF handler[g].step = "word" /\ tty_icount' # tty_icount
                THEN [handler[g] EXCEPT !.alone = FALSE]
                ELSE handler[g]]

TypeLetter(h, c) ==
  /\ Interruptible(h)
  /\ Iputchar(c)
  /\ lastc' = FALSE
  /\ Echoes(h, Nothing)
  /\ UNCHANGED <<tif_eof, inSema>>

\* The characters for which the interrupt prints or sends a message.
TypeOther(h) ==
  /\ Interruptible(h)
  /\ lastc' = FALSE
  /\ UNCHANGED <<inRing, tif_eof, inSema, handler>>

\* "\r" is stored as a newline.  A "\n" behind it is dropped, and so is each one
\* that follows: lastc is not written for them.
TypeNewline(h, return) ==
  /\ Interruptible(h)
  /\ return \/ ~lastc
  /\ lastc' = return
  /\ Iputchar("NL")
  /\ Echoes(h, LineDone)
  /\ UNCHANGED <<tif_eof, inSema>>

TypeEof(h) ==
  /\ Interruptible(h)
  /\ tif_eof' = TRUE
  /\ Iputchar("EOF")
  /\ lastc' = FALSE
  /\ Echoes(h, LineDone)
  /\ UNCHANGED inSema

\* The rest of a newline or end-of-file character.
LineEnds(h) ==
  /\ handler[h].step = "signal"
  /\ EndsLine
  /\ handler' = [handler EXCEPT ![h] = Nothing]
  /\ UNCHANGED <<inRing, lastc, tif_eof>>

\* KIND()
Kind(c) == IF c = " " THEN 0 ELSE IF c = "/" THEN 2 ELSE 1

\* Mutant of Erasable: a newline is erased as well.
ErasableAlways == tty_icount > 0

\* delchar() does not erase a newline.
Erasable == tty_icount > 0 /\ tty_in[LastPos] # "NL"

Delchar(h) ==
  /\ Interruptible(h)
  /\ tty_icount' = IF Erasable THEN tty_icount - 1 ELSE tty_icount
  /\ lastc' = FALSE
  /\ Echoes(h, Nothing)
  /\ UNCHANGED <<tty_in, tty_istart, tif_eof, inSema>>

\* delword() as far as the echo of the first character it erases.
Delword(h) ==
  /\ Interruptible(h)
  /\ lastc' = FALSE
  /\ tty_icount' = IF Erasable THEN tty_icount - 1 ELSE tty_icount
  /\ Echoes(h, IF Erasable
               THEN [step |-> "word", kind |-> Kind(tty_in[LastPos]),
                     pos |-> LastPos, alone |-> TRUE]
               ELSE Nothing)
  /\ UNCHANGED <<tty_in, tty_istart, tif_eof, inSema>>

\* Mutant of Back: it stops at the first slot.
BackToStart(pos) == IF pos = 0 THEN 0 ELSE pos - 1

\* The slot before another.
Back(pos) == IF pos = 0 THEN IBLEN - 1 ELSE pos - 1

\* The loop of delword() from one echo to the next.  It looks at the slot before
\* the one it looked at, wherever the line ends by now; delchar() erases what is
\* last in the line.  When that is a newline the loop runs on without effect.
WordGoesOn(h) ==
  LET pos  == Back(handler[h].pos)
      more == /\ tty_in[pos] # "NL" /\ Kind(tty_in[pos]) = handler[h].kind
              /\ Erasable
  IN  /\ handler[h].step = "word"
      /\ tty_icount' = IF more THEN tty_icount - 1 ELSE tty_icount
      /\ Echoes(h, IF more THEN [handler[h] EXCEPT !.pos = pos] ELSE Nothing)
      /\ UNCHANGED <<tty_in, tty_istart, lastc, tif_eof, inSema>>

-------------------------------------------------------------------------------
\* ttyread() looks at the flag and the ring with interrupts enabled.
ReadTests(r) ==
  /\ rpc[r] = "out" /\ handler[r] = Nothing
  /\ IF tif_eof /\ tty_icount = 0
     THEN tif_eof' = FALSE /\ UNCHANGED rpc
     ELSE rpc' = [rpc EXCEPT ![r] = "tested"] /\ UNCHANGED tif_eof
  /\ UNCHANGED <<inRing, lastc, isema, iqueue, handler>>

\* At most len characters, of as many lines as there are.
Copy(r, len) ==
  LET n == Min({len, tty_icount})
  IN  /\ tty_icount' = tty_icount - n
      /\ tty_istart' = (tty_istart + n) % IBLEN
      /\ UNCHANGED tty_in

WaitInput(r, why) ==
  /\ isema' = isema - 1
  /\ iqueue' = Append(iqueue, r)
  /\ rpc' = [rpc EXCEPT ![r] = why]

ReadWaits(r, len) ==
  /\ rpc[r] = "tested" /\ handler[r] = Nothing
  /\ IF isema > 0
     THEN /\ isema' = isema - 1
          /\ rpc' = [rpc EXCEPT ![r] = "out"]
          /\ Copy(r, len)
          /\ UNCHANGED iqueue
     ELSE WaitInput(r, "reading") /\ UNCHANGED inRing
  /\ UNCHANGED <<lastc, tif_eof, handler>>

ReadCopies(r, len) ==
  /\ rpc[r] = "to_read"
  /\ rpc' = [rpc EXCEPT ![r] = "out"]
  /\ Copy(r, len)
  /\ UNCHANGED <<lastc, tif_eof, isema, iqueue, handler>>

\* ttycntl(TTC_NEXTC): wait, look at the first character, signal.
PeekWaits(r) ==
  /\ rpc[r] = "out" /\ handler[r] = Nothing
  /\ isema <= 0
  /\ WaitInput(r, "peeking")
  /\ UNCHANGED <<inRing, lastc, tif_eof, handler>>

PeekSignals(r) ==
  /\ rpc[r] = "to_peek"
  /\ isema' = isema + 1
  /\ iqueue' = IF isema < 0 THEN Tail(iqueue) ELSE iqueue
  /\ rpc' = [q \in Readers |->
               IF q = r THEN "out"
               ELSE IF isema < 0 /\ q = Head(iqueue)
               THEN IF rpc[q] = "reading" THEN "to_read" ELSE "to_peek"
               ELSE rpc[q]]
  /\ UNCHANGED <<inRing, lastc, tif_eof, handler>>

InputInit ==
  /\ tty_in = [s \in 0..IBLEN - 1 |-> "none"]
  /\ tty_istart = 0
  /\ tty_icount = 0
  /\ lastc = FALSE
  /\ tif_eof = FALSE
  /\ isema = 0
  /\ iqueue = <<>>
  /\ rpc = [r \in Readers |-> "out"]
  /\ handler = [h \in Contexts |-> Nothing]

InputNext ==
  \/ \E h \in Contexts, c \in Letters : TypeLetter(h, c)
  \/ \E h \in Contexts, return \in BOOLEAN : TypeNewline(h, return)
  \/ \E h \in Contexts : \/ TypeOther(h) \/ TypeEof(h) \/ LineEnds(h)
                      \/ Delchar(h) \/ Delword(h) \/ WordGoesOn(h)
  \/ \E r \in Readers : ReadTests(r) \/ PeekWaits(r) \/ PeekSignals(r)
  \/ \E r \in Readers, len \in ReadLens : ReadWaits(r, len) \/ ReadCopies(r, len)

InputSpec == InputInit /\ [][InputNext]_inVars

-------------------------------------------------------------------------------
\* The characters typed and not yet read.
TheLine == [i \in 1..tty_icount |-> Char(i - 1)]

Lines == INSTANCE LineInput WITH
  Room <- IBLEN,
  Letters <- Letters \cup {"NL", "EOF"},
  line <- TheLine

\* The ring and its three counters behave as one line that is edited at its end
\* and read at its front, wherever it wraps around and whoever reads.
ImplementsLineInput == Lines!Spec

\* The last character of the line is erased if it is of the handler's kind.
ErasesLast(h) ==
  tty_icount' = IF /\ tty_icount > 0 /\ Char(tty_icount - 1) # "NL"
                   /\ Kind(Char(tty_icount - 1)) = handler[h].kind
                THEN tty_icount - 1 ELSE tty_icount

\* A word that is erased while nobody else types is erased exactly: delword() goes
\* on as long as the line ends in a character of the word's kind, although it keeps
\* an index from before its echoes while readers take characters from the front.
WordsEraseLast ==
  \A h \in {g \in Contexts : handler[g].step = "word" /\ handler[g].alone} :
    /\ handler'[h].alone /\ rpc' = rpc
    /\ <<handler'[h], tty_icount'>> # <<handler[h], tty_icount>>
    => ErasesLast(h)
WordErased == [][WordsEraseLast]_inVars

\* tty_isema is meant to be 0 or 1 (h/tty.h:33).  It exceeds 1 by the number of
\* processes that peek at most: each gives back a unit without looking, however
\* many lines arrive while it is on its way.
InputSemaphoreBounded ==
  /\ isema <= 1 + Cardinality(Readers)
  /\ Len(iqueue) = -Min({0, isema})
==============================================================================
