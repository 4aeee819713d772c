----------------------------- MODULE ConsoleOutput -----------------------------
(***************************************************************************)
(* Output to a serial line (com/comoutput.c, comintr.c, cominit.c,         *)
(* tty/ttyputc.c, ttycntl.c) on the semaphores of KernelServices: the ring *)
(* com_buf between the processes that call computc() and the transmitter   *)
(* interrupt of the UART.                                                  *)
(*                                                                         *)
(* computc() runs with interrupts disabled, so only a wait() that blocks   *)
(* lets others in.  cpc[p] is the step of computc() that p takes next.     *)
(* The echo of a typed character is a computc() in the receive interrupt,  *)
(* on behalf of whichever process it interrupts.                           *)
(***************************************************************************)
EXTENDS KernelServices

CONSTANTS COMBUFSZ,   \* slots of com_buf
          OutChars    \* characters written; "NL" is written as "CR", "NL"

ASSUME COMBUFSZAssumption == COMBUFSZ \in Nat /\ COMBUFSZ >= 2

VARIABLES
  com_osema,  \* the semaphore that counts free slots, -1 before cominit()
  com_buf,    \* the ring
  com_start,  \* index of the oldest character
  com_count,  \* characters in the ring
  cpc,        \* "out", "first" or "second": the wait of computc() begun last
  cchar,      \* the character p writes
  cpos,       \* the local variable pos of computc()
  sync,       \* TOF_SYNC in tty_oflags
  thre,       \* UART: the transmit holding register is empty
  thri,       \* UART: the transmitter interrupt is enabled
  txpending,  \* UART: a transmitter interrupt is pending
  expected,   \* history: the characters stored and not yet sent
  raced       \* history: a character was stored between the two waits of another

ringVars    == <<com_buf, com_start, com_count, expected, raced>>
uartVars    == <<thre, thri, txpending>>
putcVars    == <<cpc, cchar, cpos>>
conVars     == <<com_osema, ringVars, uartVars, putcVars, sync>>
consoleVars == <<servVars, conVars>>

Open == com_osema # -1

InUserMode == Open /\ kcall[currpid] = "none" /\ cpc[currpid] = "out"

AtStep(step) == kcall[currpid] = "none" /\ cpc[currpid] = step

\* Mutant of Cominit: the semaphore is created one slot short.
CominitOneShort ==
  /\ ~Open
  /\ ScreateWith(COMBUFSZ - 1)
  /\ com_osema' = NewSem
  /\ UNCHANGED <<ringVars, uartVars, putcVars, sync>>

Cominit ==
  /\ ~Open
  /\ ScreateWith(COMBUFSZ)
  /\ com_osema' = NewSem
  /\ UNCHANGED <<ringVars, uartVars, putcVars, sync>>

\* Mutant of Wstrt: the interrupt is disabled one character too early.
WstrtDisablesEarly(count) ==
  /\ com_count' = count - 1
  /\ com_start' = (com_start + 1) % COMBUFSZ
  /\ thre' = FALSE
  /\ thri' = (count > 2)
  /\ txpending' = FALSE
  /\ SignalOn(com_osema)

\* Mutant of Wstrt: the slot is not signalled.
WstrtUnsignalled(count) ==
  /\ com_count' = count - 1
  /\ com_start' = (com_start + 1) % COMBUFSZ
  /\ thre' = FALSE
  /\ thri' = (count > 1)
  /\ txpending' = FALSE
  /\ UNCHANGED servVars

\* comwstrt(): send one of count characters and signal the slot.
Wstrt(count) ==
  /\ com_count' = count - 1
  /\ com_start' = (com_start + 1) % COMBUFSZ
  /\ thre' = FALSE
  /\ thri' = (count > 1)
  /\ txpending' = FALSE
  /\ SignalOn(com_osema)

\* Mutant of StoreAt: pos is wrapped around only for the first character.
StoreAtWrapsOnce(pos, chars) ==
  com_buf' = [s \in DOMAIN com_buf |->
    IF \E i \in DOMAIN chars : s = (pos % COMBUFSZ) + i - 1
    THEN chars[s - (pos % COMBUFSZ) + 1] ELSE com_buf[s]]

StoreAt(pos, chars) ==
  com_buf' = [s \in DOMAIN com_buf |->
    IF \E i \in DOMAIN chars : s = (pos + i - 1) % COMBUFSZ
    THEN chars[((s - pos) % COMBUFSZ) + 1] ELSE com_buf[s]]

\* The end of computc(): store, enable the interrupt, start an idle transmitter.
Store(pos, chars) ==
  LET count  == com_count + Len(chars)
      queued == expected \o chars
  IN  /\ StoreAt(pos, chars)
      /\ raced' = (raced \/ \E p \in Procs \ {currpid} : cpc[p] = "second")
      /\ expected' = IF raced' THEN <<>> ELSE IF thre THEN Tail(queued) ELSE queued
      /\ IF thre
         THEN Wstrt(count)
         ELSE /\ com_count' = count
              /\ thri' = TRUE
              /\ UNCHANGED <<servVars, com_start, thre, txpending>>
      /\ cpc' = [cpc EXCEPT ![currpid] = "out"]
      /\ cchar' = [cchar EXCEPT ![currpid] = "none"]
      /\ cpos' = [cpos EXCEPT ![currpid] = 0]
      /\ UNCHANGED <<com_osema, sync>>

PutcWaits(c) ==
  /\ InUserMode /\ ~sync
  /\ WaitOn(com_osema)
  /\ cpc' = [cpc EXCEPT ![currpid] = "first"]
  /\ cchar' = [cchar EXCEPT ![currpid] = c]
  /\ UNCHANGED <<com_osema, ringVars, uartVars, cpos, sync>>

Computc(c) == Calling("putc") /\ PutcWaits(c)

\* The null process must not wait: then nothing may be left to run.
Echo(c) ==
  /\ "echo" \in uses
  /\ currpid = NULLPROC => semcnt[com_osema] > 1
  /\ PutcWaits(c)

PutcStores ==
  /\ AtStep("first") /\ cchar[currpid] # "NL"
  /\ Store(com_start + com_count, <<cchar[currpid]>>)

\* A newline needs a second slot; pos is what it was before that wait.
PutcWaitsAgain ==
  /\ AtStep("first") /\ cchar[currpid] = "NL"
  /\ cpos' = [cpos EXCEPT ![currpid] = com_start + com_count]
  /\ WaitOn(com_osema)
  /\ cpc' = [cpc EXCEPT ![currpid] = "second"]
  /\ UNCHANGED <<com_osema, ringVars, uartVars, cchar, sync>>

PutcStoresNewline ==
  /\ AtStep("second")
  /\ Store(cpos[currpid], <<"CR", "NL">>)

\* comsputc(): wait for the transmitter and write past the ring.
Comsputc ==
  /\ Calling("putc") /\ InUserMode /\ sync
  /\ thre' = FALSE
  /\ txpending' = FALSE
  /\ UNCHANGED <<servVars, com_osema, ringVars, putcVars, thri, sync>>

\* ttycntl(TTC_SYNC).
SetSync ==
  /\ Calling("control") /\ InUserMode
  /\ sync' = ~sync
  /\ UNCHANGED <<servVars, com_osema, ringVars, uartVars, putcVars>>

\* comintr() for the transmitter: reading the cause clears it.
TransmitInterrupt ==
  /\ InUserMode
  /\ thri /\ txpending
  /\ IF com_count > 0
     THEN /\ Wstrt(com_count)
          /\ expected' = IF raced THEN <<>> ELSE Tail(expected)
     ELSE /\ txpending' = FALSE
          /\ UNCHANGED <<servVars, com_start, com_count, expected, thre, thri>>
  /\ UNCHANGED <<com_osema, com_buf, raced, putcVars, sync>>

\* The UART has sent the character.
CharacterSent ==
  /\ ~thre
  /\ thre' = TRUE
  /\ txpending' = thri
  /\ UNCHANGED <<servVars, com_osema, ringVars, putcVars, sync, thri>>

\* What is left of a wait, and the services used by processes outside of it.
OtherService ==
  /\ kcall[currpid] # "none" \/ InUserMode
  /\ ServNext
  /\ UNCHANGED conVars

ConsoleInit ==
  /\ ServInit
  /\ com_osema = -1
  /\ com_buf = [s \in 0..COMBUFSZ - 1 |-> "none"]
  /\ com_start = 0
  /\ com_count = 0
  /\ cpc = [p \in Procs |-> "out"]
  /\ cchar = [p \in Procs |-> "none"]
  /\ cpos = [p \in Procs |-> 0]
  /\ sync = FALSE
  /\ thre = TRUE
  /\ thri = FALSE
  /\ txpending = FALSE
  /\ expected = <<>>
  /\ raced = FALSE

ConsoleNext ==
  \/ Cominit \/ OtherService
  \/ \E c \in OutChars : Computc(c) \/ Echo(c)
  \/ PutcStores \/ PutcWaitsAgain \/ PutcStoresNewline
  \/ Comsputc \/ SetSync
  \/ TransmitInterrupt \/ CharacterSent

ConsoleSpec == ConsoleInit /\ [][ConsoleNext]_consoleVars

-------------------------------------------------------------------------------
\* The slots a process has been given by com_osema and not yet filled.
Claims(p) ==
  LET granted == IF pstate[p] = "PRWAIT" THEN 0 ELSE 1
  IN  IF cpc[p] = "out" THEN 0 ELSE IF cpc[p] = "first" THEN granted ELSE 1 + granted

SlotClaims == {c \in Procs \X (1..2) : c[2] <= Claims(c[1])}

\* Every slot of the ring is full, free or claimed, whoever waits for slots and
\* however the interrupt and the writers interleave: the ring never overflows.
SlotsAccountedFor ==
  Open => com_count + Max({0, semcnt[com_osema]}) + Cardinality(SlotClaims) = COMBUFSZ

\* Output never stops with characters in the ring: the interrupt is enabled and
\* the transmitter is busy or about to interrupt.
OutputKeepsGoing == com_count > 0 => thri /\ (~thre \/ txpending)

\* The ring sends what was written in the order it was stored, unless somebody
\* stored a character between the two waits of a newline.
OutputInOrder ==
  ~raced => [i \in 1..com_count |-> com_buf[(com_start + i - 1) % COMBUFSZ]]
            = expected

\* As long as there are fewer processes than slots, a writer waits only while
\* somebody else's slot is still to be freed: newlines that each hold one slot
\* and wait for another do not wait for each other.
WritersNotStranded ==
  Open /\ semq[com_osema] # <<>> =>
    \/ com_count > 0
    \/ \E p \in Procs : cpc[p] # "out" /\ pstate[p] # "PRWAIT"
==============================================================================
