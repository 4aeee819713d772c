-------------------------------- MODULE NetBoot --------------------------------
(***************************************************************************)
(* Loading an image over the network (mon/monboot.c, monbootp.c,           *)
(* montftp.c, montimer.c, monudp.c): a main loop that sends requests, and  *)
(* two interrupts, a timer and the network, that move its state on.  The   *)
(* main loop runs with interrupts enabled, so they come between any two of *)
(* its assignments.                                                        *)
(*                                                                         *)
(* The network keeps every datagram ever sent: one may be delivered late,  *)
(* out of order, many times or never.  The server answers each datagram on *)
(* its own.  Times are seconds left of mon_timeout.                        *)
(***************************************************************************)
EXTENDS Integers

CONSTANTS NBlocks,      \* blocks of the image; the last one is a short one
          MON_MAX_TRY,  \* requests sent again
          MaxRetx       \* acknowledgements sent again, 5 in the code

ASSUME NBlocksAssumption == NBlocks \in Nat \ {0}
ASSUME TriesAssumption == MON_MAX_TRY \in Nat /\ MaxRetx \in Nat

VARIABLES
  boot_state,  \* mon_boot_state
  bpc,         \* the next step of the main loop
  boot_try,    \* mon_boot_try
  timeout,     \* seconds until mon_timeout, Off when that is 0
  block,       \* mon_tftp_block, the block expected
  bytes,       \* mon_tftp_bytes, in blocks
  retx,        \* mon_tftp_retx
  memloc,      \* mon_tftp_memloc, in blocks from BOOTPLOC
  image,       \* which block was copied to each place
  network,     \* the datagrams sent, as <<type, block>>
  stored,      \* history: the blocks ever copied
  silenced     \* history: a stray datagram has stopped the timer

tftpVars == <<block, bytes, retx, memloc, image, stored>>
bootVars == <<boot_state, bpc, boot_try, timeout, tftpVars, network, silenced>>

Off     == -1
Running == bpc \notin {"failed", "jumped"}

Sent(type, n) == <<type, n>> \in network
SendToNet(type, n) == network' = network \cup {<<type, n>>}

StartTimer(seconds) == timeout' = seconds /\ silenced' = FALSE

-------------------------------------------------------------------------------
(***************************************************************************)
(* The main loop, boot_xinu().                                             *)
(***************************************************************************)
GivesUp ==
  /\ bpc = "top"
  /\ \/ boot_state \in {"BOOTP_RETX", "TFTP_RETX"} /\ boot_try + 1 > MON_MAX_TRY
     \/ boot_state = "BOOT_ERROR"
  /\ bpc' = "failed"
  /\ UNCHANGED <<boot_state, boot_try, timeout, tftpVars, network, silenced>>

\* A retry counts; the first request does not.
Attempt(retry, begin) ==
  /\ bpc = "top"
  /\ \/ boot_state = begin /\ UNCHANGED boot_try
     \/ /\ boot_state = retry
        /\ boot_try + 1 <= MON_MAX_TRY
        /\ boot_try' = boot_try + 1

BootpBegins ==
  /\ Attempt("BOOTP_RETX", "BEGIN_BOOTP")
  /\ boot_state' = "BOOTP_REQ_SENT"
  /\ bpc' = "bootp request"
  /\ UNCHANGED <<timeout, tftpVars, network, silenced>>

BootpRequest ==
  /\ bpc = "bootp request"
  /\ SendToNet("BOOTREQUEST", 0)
  /\ bpc' = "bootp timer"
  /\ UNCHANGED <<boot_state, boot_try, timeout, tftpVars, silenced>>

BootpTimer ==
  /\ bpc = "bootp timer"
  /\ StartTimer(boot_try + 2)
  /\ bpc' = "top"
  /\ UNCHANGED <<boot_state, boot_try, tftpVars, network>>

\* Mutant of TftpReq: a new request goes on where the last transfer stopped.
TftpReqKeepsMemloc ==
  /\ Attempt("TFTP_RETX", "BEGIN_TFTP")
  /\ block' = 0
  /\ bytes' = 0
  /\ SendToNet("RRQ", 0)
  /\ bpc' = "tftp state"
  /\ UNCHANGED <<boot_state, timeout, retx, memloc, image, stored, silenced>>

\* mon_tftp_req(): while the state is not TFTP_REQ_SENT no datagram is looked at.
TftpReq ==
  /\ Attempt("TFTP_RETX", "BEGIN_TFTP")
  /\ memloc' = 0
  /\ block' = 0
  /\ bytes' = 0
  /\ SendToNet("RRQ", 0)
  /\ bpc' = "tftp state"
  /\ UNCHANGED <<boot_state, timeout, retx, image, stored, silenced>>

TftpState ==
  /\ bpc = "tftp state"
  /\ boot_state' = "TFTP_REQ_SENT"
  /\ bpc' = "tftp timer"
  /\ UNCHANGED <<boot_try, timeout, tftpVars, network, silenced>>

TftpTimer ==
  /\ bpc = "tftp timer"
  /\ StartTimer(boot_try + 2)
  /\ bpc' = "tftp block"
  /\ UNCHANGED <<boot_state, boot_try, tftpVars, network>>

TftpBlock ==
  /\ bpc = "tftp block"
  /\ block' = 1
  /\ bpc' = "tftp counts"
  /\ UNCHANGED <<boot_state, boot_try, timeout, bytes, retx, memloc, image,
                 stored, network, silenced>>

TftpCounts ==
  /\ bpc = "tftp counts"
  /\ bytes' = 0
  /\ retx' = 0
  /\ bpc' = "top"
  /\ UNCHANGED <<boot_state, boot_try, timeout, block, memloc, image, stored,
                 network, silenced>>

Jump ==
  /\ bpc = "top" /\ boot_state = "BOOT_DONE"
  /\ bpc' = "jumped"
  /\ UNCHANGED <<boot_state, boot_try, timeout, tftpVars, network, silenced>>

-------------------------------------------------------------------------------
(***************************************************************************)
(* The network interrupt: mon_udp_in().                                    *)
(***************************************************************************)
BootpIn(type) ==
  /\ Running /\ Sent(type, 0)
  /\ boot_state = "BOOTP_REQ_SENT"
  /\ timeout' = Off
  /\ IF type = "BOOTREPLY"
     THEN boot_state' = "BEGIN_TFTP" /\ boot_try' = 0
     ELSE boot_state' = "BOOTP_RETX" /\ UNCHANGED boot_try
  /\ UNCHANGED <<bpc, tftpVars, network, silenced>>

TftpError ==
  /\ Running /\ Sent("ERROR", 0)
  /\ boot_state = "TFTP_REQ_SENT"
  /\ timeout' = Off
  /\ boot_state' = "TFTP_RETX"
  /\ UNCHANGED <<bpc, boot_try, tftpVars, network, silenced>>

\* mon_tftp_ack() starts the timer again.
Ack(n) == SendToNet("ACK", n) /\ StartTimer(2)

\* The block expected: copy, acknowledge, and expect the next.
TftpStore ==
  /\ Running /\ Sent("DATA", block)
  /\ boot_state = "TFTP_REQ_SENT"
  /\ image' = [image EXCEPT ![memloc + 1] = block]
  /\ memloc' = memloc + 1
  /\ bytes' = bytes + 1
  /\ stored' = stored \cup {block}
  /\ Ack(block)
  /\ IF block = NBlocks
     THEN boot_state' = "BOOT_DONE" /\ UNCHANGED block
     ELSE block' = block + 1 /\ UNCHANGED boot_state
  /\ UNCHANGED <<bpc, boot_try, retx>>

\* Mutant of TftpOther: a block that comes early is acknowledged.
TftpOtherAcksEarly(n) ==
  /\ Running /\ Sent("DATA", n) /\ n # block
  /\ boot_state = "TFTP_REQ_SENT"
  /\ \/ n \in {block - 1, block + 1} /\ Ack(n)
     \/ /\ n \notin {block - 1, block + 1}
        /\ timeout' = Off
        /\ silenced' = TRUE
        /\ UNCHANGED network
  /\ UNCHANGED <<boot_state, bpc, boot_try, tftpVars>>

\* Mutant of TftpOther: a block that comes again is dropped.
TftpOtherDropsLast(n) ==
  /\ Running /\ Sent("DATA", n) /\ n # block
  /\ boot_state = "TFTP_REQ_SENT"
  /\ \/ n = block + 1 /\ Ack(block)
     \/ /\ n # block + 1
        /\ timeout' = Off
        /\ silenced' = (n # block - 1)
        /\ UNCHANGED network
  /\ UNCHANGED <<boot_state, bpc, boot_try, tftpVars>>

\* Another block: its neighbours are answered, and the rest leaves the timer off.
TftpOther(n) ==
  /\ Running /\ Sent("DATA", n) /\ n # block
  /\ boot_state = "TFTP_REQ_SENT"
  /\ \/ n = block - 1 /\ Ack(n)
     \/ n = block + 1 /\ Ack(block)
     \/ /\ n \notin {block - 1, block + 1}
        /\ timeout' = Off
        /\ silenced' = TRUE
        /\ UNCHANGED network
  /\ UNCHANGED <<boot_state, bpc, boot_try, tftpVars>>

(***************************************************************************)
(* The timer interrupt: mon_timer(), once a second.                        *)
(***************************************************************************)
CountSecond ==
  /\ Running /\ timeout > 1
  /\ timeout' = timeout - 1
  /\ UNCHANGED <<boot_state, bpc, boot_try, tftpVars, network, silenced>>

Expired == Running /\ timeout \in 0..1

\* A request without an answer; in the other states the timer stays expired.
RequestTimesOut ==
  /\ Expired
  /\ timeout' = 0
  /\ boot_state' = IF boot_state = "BOOTP_REQ_SENT" THEN "BOOTP_RETX"
                   ELSE IF boot_state = "TFTP_REQ_SENT" THEN "TFTP_RETX"
                   ELSE boot_state
  /\ boot_state = "TFTP_REQ_SENT" => bytes = 0
  /\ UNCHANGED <<bpc, boot_try, tftpVars, network, silenced>>

\* An acknowledgement without an answer.
AckTimesOut ==
  /\ Expired
  /\ boot_state = "TFTP_REQ_SENT" /\ bytes > 0
  /\ IF retx < MaxRetx
     THEN Ack(block - 1) /\ retx' = retx + 1 /\ UNCHANGED boot_state
     ELSE /\ boot_state' = "BOOT_ERROR"
          /\ timeout' = Off
          /\ UNCHANGED <<retx, network, silenced>>
  /\ UNCHANGED <<bpc, boot_try, block, bytes, memloc, image, stored>>

(***************************************************************************)
(* The servers, which are not part of the repository.                      *)
(***************************************************************************)
Server ==
  /\ \/ /\ Sent("BOOTREQUEST", 0)
        /\ SendToNet("BOOTREPLY", 0) \/ SendToNet("BADREPLY", 0)
     \/ Sent("RRQ", 0) /\ (SendToNet("DATA", 1) \/ SendToNet("ERROR", 0))
     \/ \E n \in 0..NBlocks - 1 : Sent("ACK", n) /\ SendToNet("DATA", n + 1)
  /\ UNCHANGED <<boot_state, bpc, boot_try, timeout, tftpVars, silenced>>

BootInit ==
  /\ boot_state = "BEGIN_BOOTP"
  /\ bpc = "top"
  /\ boot_try = 0
  /\ timeout = Off
  /\ block = 0
  /\ bytes = 0
  /\ retx = 0
  /\ memloc = 0
  /\ image = [i \in 1..NBlocks |-> 0]
  /\ network = {}
  /\ stored = {}
  /\ silenced = FALSE

BootNext ==
  \/ GivesUp \/ Jump
  \/ BootpBegins \/ BootpRequest \/ BootpTimer
  \/ TftpReq \/ TftpState \/ TftpTimer \/ TftpBlock \/ TftpCounts
  \/ \E type \in {"BOOTREPLY", "BADREPLY"} : BootpIn(type)
  \/ TftpError \/ TftpStore
  \/ \E n \in 1..NBlocks : TftpOther(n)
  \/ CountSecond \/ RequestTimesOut \/ AckTimesOut
  \/ Server

BootSpec == BootInit /\ [][BootNext]_bootVars

-------------------------------------------------------------------------------
\* The image jumped to is the file: every block is there, once and in its place,
\* though datagrams are lost, repeated or late, the transfer is started again and
\* the interrupts come between the assignments that start it.
ImageComplete == bpc = "jumped" => \A i \in 1..NBlocks : image[i] = i

\* The server is never told of a block that was not copied: it would not send it
\* again.
AcksAreEarned == \A n \in 1..NBlocks : Sent("ACK", n) => n \in stored

\* Whoever waits for a datagram has a timer that ends the wait, unless a block
\* far from the one expected has stopped it (monudp.c:64, montftp.c:52).
RetryTimerRuns ==
  bpc = "top" /\ boot_state \in {"BOOTP_REQ_SENT", "TFTP_REQ_SENT"} =>
    timeout # Off \/ silenced
==============================================================================
