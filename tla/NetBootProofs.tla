----------------------------- MODULE NetBootProofs -----------------------------
(***************************************************************************)
(* Theorems about NetBoot, for every length of the image and every number  *)
(* of retries, about AddressCache, for every number of hosts, entries and  *)
(* buffers, and about NetOutput, for every size of the ring:               *)
(*                                                                         *)
(*   LoadedImage         BootSpec => []ImageComplete                       *)
(*   EarnedAcks          BootSpec => []AcksAreEarned                       *)
(*   TimerCoverage       BootSpec => []RetryTimerRuns                      *)
(*   PacketsAreKept      CacheSpec => []PacketsAccountedFor                *)
(*   PacketsAreDirected  CacheSpec => []PacketsFindTheirHost               *)
(*   BlocksAreApart      OutSpec => []BlocksApart                          *)
(*   FramesGoOn          OutSpec => []FramesNotStranded                    *)
(***************************************************************************)
EXTENDS NetBoot, NetOutput, AddressCache, XinuQueueProofs, FiniteSetTheorems

\* The assignments that begin a transfer, up to the one of mon_tftp_block.
Beginning == bpc \in {"tftp state", "tftp timer", "tftp block"}

\* The server sends the first block, or the one behind an acknowledged one, and
\* what is acknowledged has been stored.
NetworkInv ==
  /\ \A n : Sent("DATA", n) => n \in 1..NBlocks /\ (n > 1 => n - 1 \in stored)
  /\ \A n : Sent("ACK", n) => n \in Nat /\ (n > 0 => n \in stored)

\* While a transfer begins no block is expected.  From then on the blocks before
\* the one expected are in their places.
TransferInv ==
  /\ block \in Nat /\ memloc \in Nat /\ bytes \in Nat
  /\ image \in [1..NBlocks -> Int]
  /\ \A n \in Nat : 0 < n /\ n < block => n \in stored
  /\ Beginning => block = 0 /\ memloc = 0 /\ bytes = 0 /\ boot_state # "BOOT_DONE"
  /\ boot_state = "TFTP_REQ_SENT" /\ ~Beginning =>
       /\ block >= 1 /\ memloc = block - 1
       /\ \A i \in 1..NBlocks : i < block => image[i] = i
  /\ boot_state = "BOOT_DONE" => \A i \in 1..NBlocks : image[i] = i
  /\ bpc = "jumped" => boot_state = "BOOT_DONE"

LoadInv == NetworkInv /\ TransferInv

\* The timer runs whenever the main loop is back at its top, and before that as
\* soon as the request is sent.
TimerInv ==
  /\ boot_try \in Nat /\ timeout \in Int
  /\ /\ bpc \in {"top", "tftp block", "tftp counts"}
     /\ boot_state \in {"BOOTP_REQ_SENT", "TFTP_REQ_SENT"}
     => timeout # Off \/ silenced

-------------------------------------------------------------------------------
\* Sending adds one datagram to the network.
LEMMA SendAdds ==
  ASSUME NEW type, NEW n, SendToNet(type, n)
  PROVE  \A t, k : <<t, k>> \in network' <=> <<t, k>> \in network \/ (t = type /\ k = n)
<1>1. network' = network \cup {<<type, n>>}
  BY DEF SendToNet
<1>2. \A t, k : <<t, k>> = <<type, n>> <=> t = type /\ k = n
  OBVIOUS
<1> QED
  BY <1>1, <1>2, Zenon

\* What is neither a block nor an acknowledgement can be sent at any time.
LEMMA NetworkInvSend ==
  ASSUME NetworkInv, stored' = stored, NEW type, type \notin {"DATA", "ACK"},
         SendToNet(type, 0)
  PROVE  NetworkInv'
BY SendAdds DEF NetworkInv, Sent

\* At first nothing has been sent.
LEMMA LoadInvInit == BootInit => LoadInv
BY NBlocksAssumption
DEF BootInit, LoadInv, NetworkInv, TransferInv, Sent, Beginning

\* The main loop before and after the transfer, and what leaves it alone.
LEMMA LoadInvMain ==
  ASSUME LoadInv,
         GivesUp \/ Jump \/ BootpBegins \/ BootpRequest \/ BootpTimer \/ CountSecond
           \/ (\E type \in {"BOOTREPLY", "BADREPLY"} : BootpIn(type))
           \/ TftpError \/ RequestTimesOut
  PROVE  LoadInv'
<1> USE DEF LoadInv, NetworkInv, TransferInv, Sent, Beginning, tftpVars
<1>1. CASE GivesUp
  BY <1>1 DEF GivesUp
<1>2. CASE Jump
  BY <1>2 DEF Jump
<1>3. CASE BootpBegins
  BY <1>3 DEF BootpBegins, Attempt
<1>4. CASE BootpRequest
  BY <1>4 DEF BootpRequest, SendToNet
<1>5. CASE BootpTimer
  BY <1>5 DEF BootpTimer
<1>6. CASE CountSecond
  BY <1>6 DEF CountSecond
<1>7. CASE \E type \in {"BOOTREPLY", "BADREPLY"} : BootpIn(type)
  BY <1>7 DEF BootpIn, Running
<1>8. CASE TftpError
  BY <1>8 DEF TftpError, Running
<1>9. CASE RequestTimesOut
  BY <1>9 DEF RequestTimesOut, Expired, Running
<1> QED
  BY <1>1, <1>2, <1>3, <1>4, <1>5, <1>6, <1>7, <1>8, <1>9

\* The assignments that begin a transfer.
LEMMA LoadInvBegins ==
  ASSUME LoadInv, TftpReq \/ TftpState \/ TftpTimer \/ TftpBlock \/ TftpCounts
  PROVE  LoadInv'
<1>1. CASE TftpReq
  <2>1. stored' = stored /\ SendToNet("RRQ", 0)
    BY <1>1 DEF TftpReq
  <2>2. NetworkInv'
    BY <2>1, NetworkInvSend DEF LoadInv
  <2>3. /\ block' = 0 /\ memloc' = 0 /\ bytes' = 0 /\ bpc' = "tftp state"
        /\ image' \in [1..NBlocks -> Int]
        /\ boot_state' \notin {"BOOT_DONE", "TFTP_REQ_SENT"}
    BY <1>1 DEF TftpReq, Attempt, LoadInv, TransferInv
  <2>4. block' = 0
    BY <2>3
  <2>5. \A n \in Nat : 0 < n /\ n < block' => n \in stored'
    BY <2>4
  <2>6. TransferInv'
    BY <2>3, <2>5 DEF TransferInv, Beginning
  <2> QED
    BY <2>2, <2>6 DEF LoadInv
<1>2. CASE TftpState \/ TftpTimer
  BY <1>2
  DEF TftpState, TftpTimer, LoadInv, NetworkInv, TransferInv, Sent, Beginning, tftpVars
<1>3. CASE TftpBlock
  <2>1. NetworkInv'
    BY <1>3 DEF TftpBlock, LoadInv, NetworkInv, Sent
  <2>2. /\ block' = 1 /\ memloc' = 0 /\ bytes' = 0 /\ bpc' = "tftp counts"
        /\ image' \in [1..NBlocks -> Int]
        /\ boot_state' # "BOOT_DONE"
    BY <1>3 DEF TftpBlock, LoadInv, TransferInv, Beginning
  <2>3. block' = 1 /\ memloc' = 0
    BY <2>2
  <2>4. /\ block' \in Nat /\ block' >= 1 /\ memloc' = block' - 1
        /\ \A n \in Nat : 0 < n /\ n < block' => n \in stored'
    BY <2>3
  <2>5. \A n \in 1..NBlocks : ~(n < block')
    BY <2>3, NBlocksAssumption
  <2>6. memloc' \in Nat /\ bytes' \in Nat
    BY <2>2
  <2>7. ~Beginning' /\ bpc' # "jumped"
    BY <2>2 DEF Beginning
  <2>8. boot_state' # "BOOT_DONE" /\ image' \in [1..NBlocks -> Int]
    BY <2>2
  <2>9. TransferInv'
    BY <2>4, <2>5, <2>6, <2>7, <2>8 DEF TransferInv
  <2> QED
    BY <2>1, <2>9 DEF LoadInv
<1>4. CASE TftpCounts
  BY <1>4 DEF TftpCounts, LoadInv, NetworkInv, TransferInv, Sent, Beginning
<1> QED
  BY <1>1, <1>2, <1>3, <1>4

\* The block expected: no transfer is beginning, and it goes to its place.
LEMMA LoadInvStore ==
  ASSUME LoadInv, TftpStore
  PROVE  LoadInv'
<1> USE NBlocksAssumption
<1>1. block \in 1..NBlocks /\ ~Beginning
  BY DEF LoadInv, NetworkInv, TransferInv, TftpStore
<1>2. memloc = block - 1 /\ \A i \in 1..NBlocks : i < block => image[i] = i
  BY <1>1 DEF LoadInv, TransferInv, TftpStore
<1>3. image' \in [1..NBlocks -> Int] /\ \A i \in 1..NBlocks : i <= block => image'[i] = i
  BY <1>1, <1>2 DEF LoadInv, TransferInv, TftpStore
<1>4. /\ stored' = stored \cup {block} /\ memloc' = block /\ bytes' = bytes + 1
      /\ bpc' = bpc /\ bpc # "jumped"
  BY <1>1, <1>2 DEF TftpStore, Running
<1>5. NetworkInv'
  <2>1. SendToNet("ACK", block)
    BY DEF TftpStore, Ack
  <2> QED
    BY <1>1, <1>4, <2>1, SendAdds DEF LoadInv, NetworkInv, Sent
<1>6. bytes' \in Nat /\ \A n \in Nat : 0 < n /\ n <= block => n \in stored'
  BY <1>1, <1>4 DEF LoadInv, TransferInv
<1>7. ~Beginning'
  BY <1>1, <1>4 DEF Beginning
<1>8. TransferInv'
  <2>1. CASE block = NBlocks
    <3>1. boot_state' = "BOOT_DONE" /\ block' = block
      BY <2>1 DEF TftpStore
    <3> QED
      BY <3>1, <2>1, <1>1, <1>3, <1>4, <1>6, <1>7 DEF TransferInv
  <2>2. CASE block # NBlocks
    <3>1. boot_state' = "TFTP_REQ_SENT" /\ block' = block + 1
      BY <2>2 DEF TftpStore
    <3> QED
      BY <3>1, <1>1, <1>3, <1>4, <1>6, <1>7 DEF TransferInv
  <2> QED
    BY <2>1, <2>2
<1> QED
  BY <1>5, <1>8 DEF LoadInv

\* Another block: what is acknowledged has been stored.
LEMMA LoadInvOther ==
  ASSUME LoadInv, NEW n \in 1..NBlocks, TftpOther(n)
  PROVE  LoadInv'
<1> USE NBlocksAssumption
<1>1. UNCHANGED <<boot_state, bpc, tftpVars>>
  BY DEF TftpOther
<1>2. TransferInv'
  BY <1>1 DEF LoadInv, TransferInv, Beginning, tftpVars
<1>3. ASSUME NEW k \in Nat, SendToNet("ACK", k), k > 0 => k \in stored
      PROVE  NetworkInv'
  BY <1>1, <1>3, SendAdds DEF LoadInv, NetworkInv, Sent, tftpVars
<1>4. block \in Nat /\ \A k \in Nat : 0 < k /\ k < block => k \in stored
  BY DEF LoadInv, TransferInv
<1>5. NetworkInv'
  <2>1. CASE n = block - 1 /\ Ack(n)
    BY <1>3, <1>4, <2>1 DEF Ack
  <2>2. CASE n = block + 1 /\ Ack(block)
    <3>1. Sent("DATA", n)
      BY DEF TftpOther
    <3>2. block > 0 => block \in stored
      BY <1>4, <2>2, <3>1 DEF LoadInv, NetworkInv
    <3> QED
      BY <1>3, <1>4, <2>2, <3>2 DEF Ack
  <2>3. CASE UNCHANGED network
    BY <1>1, <2>3 DEF LoadInv, NetworkInv, Sent, tftpVars
  <2> QED
    BY <2>1, <2>2, <2>3 DEF TftpOther
<1> QED
  BY <1>2, <1>5 DEF LoadInv

\* An acknowledgement sent again is the one of the last block stored.
LEMMA LoadInvAckAgain ==
  ASSUME LoadInv, AckTimesOut
  PROVE  LoadInv'
<1>1. block \in Nat /\ block >= 1 /\ (block - 1 > 0 => block - 1 \in stored)
  BY DEF LoadInv, TransferInv, AckTimesOut
<1>2. NetworkInv'
  BY <1>1 DEF LoadInv, NetworkInv, Sent, AckTimesOut, Ack, SendToNet
<1>3. TransferInv'
  BY DEF LoadInv, TransferInv, Beginning, AckTimesOut, Expired, Running
<1> QED
  BY <1>2, <1>3 DEF LoadInv

\* The servers answer what was sent, so the block they send next is earned.
LEMMA LoadInvServer ==
  ASSUME LoadInv, Server
  PROVE  LoadInv'
<1> USE NBlocksAssumption
<1>1. TransferInv'
  BY DEF LoadInv, TransferInv, Beginning, Server, tftpVars
<1>2. stored' = stored
  BY DEF Server, tftpVars
<1>3. ASSUME NEW n \in 1..NBlocks, n > 1 => n - 1 \in stored, SendToNet("DATA", n)
      PROVE  NetworkInv'
  BY <1>2, <1>3, SendAdds DEF LoadInv, NetworkInv, Sent
<1>4. NetworkInv'
  <2>1. CASE SendToNet("BOOTREPLY", 0) \/ SendToNet("BADREPLY", 0) \/ SendToNet("ERROR", 0)
    BY <1>2, <2>1, NetworkInvSend DEF LoadInv
  <2>2. CASE SendToNet("DATA", 1)
    BY <1>3, <2>2
  <2>3. CASE \E n \in 0..NBlocks - 1 : Sent("ACK", n) /\ SendToNet("DATA", n + 1)
    <3>1. PICK n \in 0..NBlocks - 1 : Sent("ACK", n) /\ SendToNet("DATA", n + 1)
      BY <2>3
    <3>2. n + 1 \in 1..NBlocks /\ (n + 1 > 1 => (n + 1) - 1 \in stored)
      BY <3>1 DEF LoadInv, NetworkInv
    <3> QED
      BY <1>3, <3>1, <3>2
  <2> QED
    BY <2>1, <2>2, <2>3 DEF Server
<1> QED
  BY <1>1, <1>4 DEF LoadInv

\* Every step keeps what is loaded in order.
LEMMA LoadInvNext == LoadInv /\ [BootNext]_bootVars => LoadInv'
<1> SUFFICES ASSUME LoadInv, [BootNext]_bootVars PROVE LoadInv'
  OBVIOUS
<1>1. CASE UNCHANGED bootVars
  BY <1>1
  DEF LoadInv, NetworkInv, TransferInv, Sent, Beginning, bootVars, tftpVars
<1> QED
  BY <1>1, LoadInvMain, LoadInvBegins, LoadInvStore, LoadInvOther, LoadInvAckAgain,
     LoadInvServer DEF BootNext

-------------------------------------------------------------------------------
\* At first nobody waits.
LEMMA TimerInvInit == BootInit => TimerInv
BY DEF BootInit, TimerInv, Off

\* Whoever stops the timer changes the state or is the stray block.
LEMMA TimerInvNext == TimerInv /\ [BootNext]_bootVars => TimerInv'
<1> SUFFICES ASSUME TimerInv, [BootNext]_bootVars PROVE TimerInv'
  OBVIOUS
<1> DEFINE Asked == /\ bpc \in {"top", "tftp block", "tftp counts"}
                    /\ boot_state \in {"BOOTP_REQ_SENT", "TFTP_REQ_SENT"}
<1>1. boot_try \in Nat /\ timeout \in Int
  BY DEF TimerInv
<1>2. (boot_try \in Nat)' /\ (timeout \in Int)'
  <2> USE <1>1 DEF StartTimer, Off
  <2>1. CASE BootpBegins \/ TftpReq
    <3>1. timeout' = timeout /\ (boot_try' = boot_try \/ boot_try' = boot_try + 1)
      BY <2>1 DEF BootpBegins, TftpReq, Attempt
    <3> QED
      BY <3>1
  <2>2. CASE BootpTimer \/ TftpTimer
    <3>1. timeout' = boot_try + 2 /\ boot_try' = boot_try
      BY <2>2 DEF BootpTimer, TftpTimer
    <3> QED
      BY <3>1
  <2>3. CASE GivesUp \/ Jump \/ BootpRequest \/ TftpState \/ TftpBlock \/ TftpCounts \/ Server
    BY <2>3 DEF GivesUp, Jump, BootpRequest, TftpState, TftpBlock, TftpCounts, Server
  <2>4. CASE (\E type \in {"BOOTREPLY", "BADREPLY"} : BootpIn(type)) \/ TftpError
    BY <2>4 DEF BootpIn, TftpError
  <2>5. CASE TftpStore \/ \E n \in 1..NBlocks : TftpOther(n)
    BY <2>5 DEF TftpStore, TftpOther, Ack
  <2>6. CASE CountSecond \/ RequestTimesOut \/ AckTimesOut
    BY <2>6 DEF CountSecond, RequestTimesOut, AckTimesOut, Ack
  <2>7. CASE UNCHANGED bootVars
    BY <2>7 DEF bootVars
  <2> QED
    BY <2>1, <2>2, <2>3, <2>4, <2>5, <2>6, <2>7 DEF BootNext
<1>3. Asked' => \/ Asked /\ timeout' = timeout /\ silenced' = silenced
                \/ timeout' # Off \/ silenced'
  <2> USE DEF StartTimer
  <2>1. CASE GivesUp \/ Jump \/ BootpBegins \/ BootpRequest \/ TftpReq \/ TftpState
    BY <2>1 DEF GivesUp, Jump, BootpBegins, BootpRequest, TftpReq, TftpState
  <2>2. CASE TftpBlock \/ TftpCounts \/ Server \/ UNCHANGED bootVars
    BY <2>2 DEF TftpBlock, TftpCounts, Server, bootVars
  <2>3. CASE BootpTimer \/ TftpTimer
    <3>1. timeout' = boot_try + 2
      BY <2>3 DEF BootpTimer, TftpTimer
    <3>2. timeout' # Off
      BY <1>1, <3>1 DEF Off
    <3> QED
      BY <3>2
  <2>4. CASE (\E type \in {"BOOTREPLY", "BADREPLY"} : BootpIn(type)) \/ TftpError
    BY <2>4 DEF BootpIn, TftpError
  <2>5. 0 # Off /\ 2 # Off /\ \A t \in Int : t > 1 => t - 1 # Off
    BY DEF Off
  <2>6. CASE TftpStore
    BY <2>5, <2>6 DEF TftpStore, Ack
  <2>7. CASE \E n \in 1..NBlocks : TftpOther(n)
    BY <2>5, <2>7 DEF TftpOther, Ack
  <2>8. CASE CountSecond
    <3>1. timeout' # Off
      BY <1>1, <2>5, <2>8 DEF CountSecond
    <3> QED
      BY <3>1
  <2>9. CASE RequestTimesOut
    BY <2>5, <2>9 DEF RequestTimesOut
  <2>10. CASE AckTimesOut
    BY <2>5, <2>10 DEF AckTimesOut, Ack
  <2> QED
    BY <2>1, <2>2, <2>3, <2>4, <2>6, <2>7, <2>8, <2>9, <2>10 DEF BootNext
<1> QED
  BY <1>2, <1>3 DEF TimerInv
-------------------------------------------------------------------------------
\* monboot.c jumps to the image only when every block is in its place, though the
\* interrupts come between the assignments that begin a transfer and datagrams
\* are lost, repeated or late.
THEOREM LoadedImage == BootSpec => []ImageComplete
<1>1. LoadInv => ImageComplete
  BY DEF LoadInv, TransferInv, ImageComplete
<1> QED
  BY <1>1, LoadInvInit, LoadInvNext, PTL DEF BootSpec

\* montftp.c acknowledges only blocks it has copied, in this transfer or in one
\* that was given up.
THEOREM EarnedAcks == BootSpec => []AcksAreEarned
<1>1. LoadInv => AcksAreEarned
  BY NBlocksAssumption DEF LoadInv, NetworkInv, AcksAreEarned
<1> QED
  BY <1>1, LoadInvInit, LoadInvNext, PTL DEF BootSpec

\* Whenever the main loop waits, a timer runs or a stray block has stopped it.
THEOREM TimerCoverage == BootSpec => []RetryTimerRuns
<1>1. TimerInv => RetryTimerRuns
  BY DEF TimerInv, RetryTimerRuns
<1> QED
  BY <1>1, TimerInvInit, TimerInvNext, PTL DEF BootSpec

-------------------------------------------------------------------------------
(***************************************************************************)
(* The packets of the address cache.                                       *)
(***************************************************************************)

\* An entry of the cache, and the state the calls hand on.
Entries == [state : {"AS_FREE", "AS_PENDING", "AS_RESOLVED"}, host : 0..NetHosts,
            hwa : 0..NetHosts, pep : 0..NetBufs]
Caches ==
  [table : [1..MON_ARP_TSIZE -> Entries], free : Seq(Packets), out : SUBSET Packets,
   dst : [Packets -> 0..NetHosts], nexthop : [Packets -> 0..NetHosts],
   lost : SUBSET Packets]

\* Where a packet is: an entry's number, or one of these.
Pooled == 0
Queued == -1
Gone   == -2
Held   == -3
Places == -3..MON_ARP_TSIZE

\* Every packet is in the place w gives it and in no other.
PlacedAs(n, w) ==
  /\ IsInjective(n.free)
  /\ \A b \in Packets :
       /\ b \in Range(n.free) <=> w[b] = Pooled
       /\ b \in n.out <=> w[b] = Queued
       /\ b \in n.lost <=> w[b] = Gone
       /\ \A i \in 1..MON_ARP_TSIZE : n.table[i].pep = b <=> w[b] = i

\* A packet in hand, waiting or queued is the one of its host.
EntryRight(n, e) ==
  /\ e.pep # NoPkt => e.state = "AS_PENDING" /\ n.nexthop[e.pep] = e.host
  /\ e.state = "AS_RESOLVED" => e.hwa = e.host
Directed(n) ==
  /\ \A b \in n.out : n.nexthop[b] # Nobody => n.dst[b] = n.nexthop[b]
  /\ \A b \in Range(n.free) : n.nexthop[b] = Nobody
  /\ \A i \in 1..MON_ARP_TSIZE : EntryRight(n, n.table[i])

\* The packets of hands are in the hands of a caller; the others have a place.
Sound(n, hands) ==
  /\ n \in Caches
  /\ Directed(n)
  /\ \E w \in [Packets -> Places] :
       PlacedAs(n, w) /\ hands = {b \in Packets : w[b] = Held}

\* What a call leaves alone of the packets that others have in hand.
Kept(n, m, hands) ==
  \A b \in hands : m.nexthop[b] = n.nexthop[b] /\ m.dst[b] = n.dst[b]

\* A buffer taken from the pool.
LEMMA TakeShape ==
  ASSUME NEW E, NEW s \in Seq(E), s # <<>>, IsInjective(s)
  PROVE  /\ Tail(s) \in Seq(E) /\ Head(s) \in E /\ Head(s) \in Range(s)
         /\ IsInjective(Tail(s)) /\ Range(Tail(s)) = Range(s) \ {Head(s)}
<1> DEFINE n == Len(s)
           r == Tail(s)
<1>1. n \in Nat /\ n >= 1 /\ DOMAIN s = 1..n /\ Head(s) = s[1] /\ s[1] \in E
  BY LenProperties, EmptySeq, HeadTailProperties
<1>2. /\ r \in Seq(E) /\ Len(r) = n - 1
      /\ \A i \in 1..n - 1 : r[i] = s[i + 1]
  BY HeadTailProperties
<1> HIDE DEF n, r
<1>3. DOMAIN r = 1..n - 1
  BY <1>2, LenProperties
<1>4. \A i \in 1..n - 1 : i + 1 \in 1..n /\ i + 1 # 1
  BY <1>1
<1>5. \A i, j \in 1..n : s[i] = s[j] => i = j
  BY <1>1 DEF IsInjective
<1>6. IsInjective(r)
  <2>1. \A i, j \in 1..n - 1 : i + 1 = j + 1 => i = j
    BY <1>1
  <2>2. \A i, j \in 1..n - 1 : r[i] = r[j] => i + 1 = j + 1
    BY <1>2, <1>4, <1>5
  <2> QED
    BY <1>3, <2>1, <2>2 DEF IsInjective
<1>7. 1 \in 1..n
  BY <1>1
<1>8. \A i \in 1..n - 1 : r[i] # s[1]
  BY <1>2, <1>4, <1>5, <1>7
<1>9. ASSUME NEW i \in 1..n, s[i] # s[1] PROVE \E j \in 1..n - 1 : r[j] = s[i]
  <2>1. i - 1 \in 1..n - 1 /\ (i - 1) + 1 = i
    BY <1>1, <1>9
  <2>2. r[i - 1] = s[i]
    BY <1>2, <2>1
  <2> QED
    BY <2>1, <2>2
<1>10. Range(s) = {s[i] : i \in 1..n} /\ Range(r) = {r[i] : i \in 1..n - 1}
  BY <1>1, <1>3 DEF Range
<1>11. Range(r) = Range(s) \ {s[1]}
  BY <1>2, <1>4, <1>8, <1>9, <1>10
<1>12. s[1] \in Range(s)
  BY <1>7, <1>10
<1> QED
  BY <1>1, <1>2, <1>6, <1>11, <1>12 DEF r

\* A buffer put back.
LEMMA GiveShape ==
  ASSUME NEW E, NEW s \in Seq(E), NEW b \in E, b \notin Range(s), IsInjective(s)
  PROVE  /\ <<b>> \o s \in Seq(E) /\ <<b>> \o s # <<>>
         /\ IsInjective(<<b>> \o s) /\ Range(<<b>> \o s) = Range(s) \cup {b}
<1> DEFINE n == Len(s)
           r == <<b>> \o s
<1>1. n \in Nat /\ DOMAIN s = 1..n
  BY LenProperties
<1>2. <<b>> \in Seq(E) /\ Len(<<b>>) = 1 /\ <<b>>[1] = b
  OBVIOUS
<1>3. /\ r \in Seq(E) /\ Len(r) = n + 1
      /\ \A i \in 1..n + 1 : r[i] = IF i <= 1 THEN <<b>>[i] ELSE s[i - 1]
  BY <1>2, ConcatProperties
<1> HIDE DEF n, r
<1>4. DOMAIN r = 1..n + 1 /\ r # <<>>
  BY <1>1, <1>3, LenProperties, EmptySeq
<1>5. r[1] = b /\ 1 \in 1..n + 1
  BY <1>1, <1>2, <1>3
<1>6. ASSUME NEW i \in 1..n + 1, i # 1 PROVE i - 1 \in 1..n /\ r[i] = s[i - 1]
  BY <1>1, <1>3, <1>6
<1>7. ASSUME NEW j \in 1..n PROVE j + 1 \in 1..n + 1 /\ r[j + 1] = s[j]
  <2>1. j + 1 \in 1..n + 1 /\ j + 1 # 1 /\ (j + 1) - 1 = j
    BY <1>1
  <2> QED
    BY <1>6, <2>1
<1>8. Range(s) = {s[i] : i \in 1..n} /\ Range(r) = {r[i] : i \in 1..n + 1}
  BY <1>1, <1>4 DEF Range
<1>9. Range(r) = Range(s) \cup {b}
  BY <1>5, <1>6, <1>7, <1>8
<1>10. \A i, j \in 1..n : s[i] = s[j] => i = j
  BY <1>1 DEF IsInjective
<1>11. \A i \in 1..n : s[i] # b
  BY <1>8
<1>12. \A i, j \in 1..n + 1 : i - 1 = j - 1 => i = j
  BY <1>1
<1>13. \A i, j \in 1..n + 1 : r[i] = r[j] => i = j
  BY <1>5, <1>6, <1>10, <1>11, <1>12
<1>14. IsInjective(r)
  BY <1>4, <1>13 DEF IsInjective
<1> QED
  BY <1>3, <1>4, <1>9, <1>14 DEF r

\* getbuf() takes the first packet of the pool in hand.
LEMMA GetbufKeeps ==
  ASSUME NEW n, NEW hands, Sound(n, hands), n.free # <<>>
  PROVE  /\ Head(n.free) \in Packets /\ Head(n.free) \notin hands
         /\ n.nexthop[Head(n.free)] = Nobody
         /\ Sound(Getbuf(n), hands \cup {Head(n.free)})
         /\ Getbuf(n).table = n.table /\ Getbuf(n).nexthop = n.nexthop
         /\ Getbuf(n).dst = n.dst
<1> DEFINE r == Getbuf(n)
           b == Head(n.free)
<1>1. PICK w \in [Packets -> Places] : PlacedAs(n, w) /\ hands = {c \in Packets : w[c] = Held}
  BY DEF Sound
<1>2. n \in Caches /\ Directed(n)
  BY DEF Sound
<1>3. /\ Tail(n.free) \in Seq(Packets) /\ b \in Packets /\ b \in Range(n.free)
      /\ IsInjective(Tail(n.free)) /\ Range(Tail(n.free)) = Range(n.free) \ {b}
  BY <1>1, <1>2, TakeShape DEF PlacedAs, Caches
<1>4. /\ r \in Caches /\ r.free = Tail(n.free) /\ r.table = n.table /\ r.out = n.out
      /\ r.dst = n.dst /\ r.nexthop = n.nexthop /\ r.lost = n.lost
  BY <1>2, <1>3 DEF Caches, Getbuf
<1> HIDE DEF r, b
<1>5. w[b] = Pooled /\ Held \in Places
  BY <1>1, <1>3, CacheAssumption DEF PlacedAs, Held, Places
<1> DEFINE v == [w EXCEPT ![b] = Held]
<1>6. /\ v \in [Packets -> Places] /\ v[b] = Held
      /\ \A c \in Packets : c # b => v[c] = w[c]
  BY <1>3, <1>5
<1> HIDE DEF v
<1>7. Held # Pooled /\ Held # Queued /\ Held # Gone /\ Pooled # Queued /\ Pooled # Gone
      /\ \A i \in 1..MON_ARP_TSIZE : Held # i /\ Pooled # i
  BY DEF Held, Pooled, Queued, Gone
<1>8. PlacedAs(r, v)
  BY <1>1, <1>3, <1>4, <1>5, <1>6, <1>7 DEF PlacedAs
<1>9. hands \cup {b} = {c \in Packets : v[c] = Held}
  BY <1>1, <1>3, <1>6
<1>10. Directed(r)
  BY <1>2, <1>3, <1>4 DEF Directed, EntryRight
<1>11. b \notin hands /\ n.nexthop[b] = Nobody
  BY <1>1, <1>2, <1>3, <1>5, <1>7 DEF Directed
<1> QED
  BY <1>3, <1>4, <1>6, <1>8, <1>9, <1>10, <1>11 DEF Sound, r, b

\* freebuf() of a packet in hand puts it back without its addresses.
LEMMA FreebufKeeps ==
  ASSUME NEW n, NEW hands, Sound(n, hands), NEW b \in hands
  PROVE  /\ Sound(Freebuf(n, b), hands \ {b}) /\ Kept(n, Freebuf(n, b), hands \ {b})
         /\ Freebuf(n, b).free # <<>> /\ Freebuf(n, b).table = n.table
<1> DEFINE r == Freebuf(n, b)
<1>1. PICK w \in [Packets -> Places] : PlacedAs(n, w) /\ hands = {c \in Packets : w[c] = Held}
  BY DEF Sound
<1>2. n \in Caches /\ Directed(n) /\ b \in Packets /\ w[b] = Held
  BY <1>1 DEF Sound
<1>3. Held # Pooled /\ Held # Queued /\ Held # Gone /\ Pooled # Queued /\ Pooled # Gone
      /\ \A i \in 1..MON_ARP_TSIZE : Held # i /\ Pooled # i
  BY DEF Held, Pooled, Queued, Gone
<1>4. b \notin Range(n.free) /\ b \notin n.out
  BY <1>1, <1>2, <1>3 DEF PlacedAs
<1>5. /\ <<b>> \o n.free \in Seq(Packets) /\ <<b>> \o n.free # <<>>
      /\ IsInjective(<<b>> \o n.free) /\ Range(<<b>> \o n.free) = Range(n.free) \cup {b}
  BY <1>1, <1>2, <1>4, GiveShape DEF PlacedAs, Caches
<1>6. Nobody \in 0..NetHosts
  BY CacheAssumption DEF Nobody
<1>7. /\ r \in Caches /\ r.free = <<b>> \o n.free /\ r.table = n.table /\ r.out = n.out
      /\ r.dst = [n.dst EXCEPT ![b] = Nobody]
      /\ r.nexthop = [n.nexthop EXCEPT ![b] = Nobody] /\ r.lost = n.lost
  BY <1>2, <1>5, <1>6 DEF Caches, Freebuf
<1> HIDE DEF r
<1>8. r.nexthop[b] = Nobody /\ \A c \in Packets : c # b => r.nexthop[c] = n.nexthop[c]
                                                          /\ r.dst[c] = n.dst[c]
  BY <1>2, <1>7 DEF Caches
<1>9. Pooled \in Places
  BY CacheAssumption DEF Pooled, Places
<1> DEFINE v == [w EXCEPT ![b] = Pooled]
<1>10. /\ v \in [Packets -> Places] /\ v[b] = Pooled
       /\ \A c \in Packets : c # b => v[c] = w[c]
  BY <1>2, <1>9
<1> HIDE DEF v
<1>11. PlacedAs(r, v)
  BY <1>1, <1>2, <1>3, <1>5, <1>7, <1>10 DEF PlacedAs
<1>12. hands \ {b} = {c \in Packets : v[c] = Held}
  BY <1>1, <1>3, <1>10
<1>13. \A i \in 1..MON_ARP_TSIZE : n.table[i].pep # b /\ n.table[i].pep \in 0..NetBufs
  BY <1>1, <1>2, <1>3 DEF PlacedAs, Caches, Entries
<1>14. \A i \in 1..MON_ARP_TSIZE : n.table[i].pep # NoPkt => n.table[i].pep \in Packets
  BY <1>13 DEF NoPkt, Packets
<1>15. n.out \subseteq Packets /\ Range(n.free) \subseteq Packets
  BY <1>2 DEF Caches, Range
<1>16. Directed(r)
  BY <1>2, <1>4, <1>5, <1>7, <1>8, <1>13, <1>14, <1>15 DEF Directed, EntryRight
<1>17. Kept(n, r, hands \ {b})
  BY <1>1, <1>8 DEF Kept
<1> QED
  BY <1>5, <1>7, <1>10, <1>11, <1>12, <1>16, <1>17 DEF Sound, r

\* ethwrite() of a packet in hand queues it.
LEMMA EthwriteKeeps ==
  ASSUME NEW n, NEW hands, Sound(n, hands), NEW b \in hands,
         n.nexthop[b] # Nobody => n.dst[b] = n.nexthop[b]
  PROVE  /\ Sound(Ethwrite(n, b), hands \ {b})
         /\ Ethwrite(n, b).nexthop = n.nexthop /\ Ethwrite(n, b).dst = n.dst
         /\ Ethwrite(n, b).free = n.free
<1> DEFINE r == Ethwrite(n, b)
<1>1. PICK w \in [Packets -> Places] : PlacedAs(n, w) /\ hands = {c \in Packets : w[c] = Held}
  BY DEF Sound
<1>2. n \in Caches /\ Directed(n) /\ b \in Packets /\ w[b] = Held
  BY <1>1 DEF Sound
<1>3. /\ r \in Caches /\ r.free = n.free /\ r.table = n.table /\ r.out = n.out \cup {b}
      /\ r.dst = n.dst /\ r.nexthop = n.nexthop /\ r.lost = n.lost
  BY <1>2 DEF Caches, Ethwrite
<1> HIDE DEF r
<1>4. Held # Pooled /\ Held # Queued /\ Held # Gone /\ Queued # Pooled /\ Queued # Gone
      /\ (\A i \in 1..MON_ARP_TSIZE : Held # i /\ Queued # i) /\ Queued \in Places
  BY CacheAssumption DEF Held, Pooled, Queued, Gone, Places
<1> DEFINE v == [w EXCEPT ![b] = Queued]
<1>5. /\ v \in [Packets -> Places] /\ v[b] = Queued
      /\ \A c \in Packets : c # b => v[c] = w[c]
  BY <1>2, <1>4
<1> HIDE DEF v
<1>6. PlacedAs(r, v)
  BY <1>1, <1>2, <1>3, <1>4, <1>5 DEF PlacedAs
<1>7. hands \ {b} = {c \in Packets : v[c] = Held}
  BY <1>1, <1>4, <1>5
<1>8. Directed(r)
  BY <1>2, <1>3 DEF Directed, EntryRight
<1> QED
  BY <1>3, <1>5, <1>6, <1>7, <1>8 DEF Sound, r

\* A packet in hand that is never seen again.
LEMMA LoseKeeps ==
  ASSUME NEW n, NEW hands, Sound(n, hands), NEW b \in hands
  PROVE  Sound([n EXCEPT !.lost = @ \cup {b}], hands \ {b})
<1> DEFINE r == [n EXCEPT !.lost = @ \cup {b}]
<1>1. PICK w \in [Packets -> Places] : PlacedAs(n, w) /\ hands = {c \in Packets : w[c] = Held}
  BY DEF Sound
<1>2. n \in Caches /\ Directed(n) /\ b \in Packets /\ w[b] = Held
  BY <1>1 DEF Sound
<1>3. /\ r \in Caches /\ r.free = n.free /\ r.table = n.table /\ r.out = n.out
      /\ r.dst = n.dst /\ r.nexthop = n.nexthop /\ r.lost = n.lost \cup {b}
  BY <1>2 DEF Caches
<1> HIDE DEF r
<1>4. Held # Pooled /\ Held # Queued /\ Held # Gone /\ Gone # Pooled /\ Gone # Queued
      /\ (\A i \in 1..MON_ARP_TSIZE : Held # i /\ Gone # i) /\ Gone \in Places
  BY CacheAssumption DEF Held, Pooled, Queued, Gone, Places
<1> DEFINE v == [w EXCEPT ![b] = Gone]
<1>5. /\ v \in [Packets -> Places] /\ v[b] = Gone
      /\ \A c \in Packets : c # b => v[c] = w[c]
  BY <1>2, <1>4
<1> HIDE DEF v
<1>6. PlacedAs(r, v)
  BY <1>1, <1>2, <1>3, <1>4, <1>5 DEF PlacedAs
<1>7. hands \ {b} = {c \in Packets : v[c] = Held}
  BY <1>1, <1>4, <1>5
<1>8. Directed(r)
  BY <1>2, <1>3 DEF Directed, EntryRight
<1> QED
  BY <1>3, <1>5, <1>6, <1>7, <1>8 DEF Sound, r

\* A frame taken from the queue.
LEMMA SentKeeps ==
  ASSUME NEW n, NEW hands, Sound(n, hands), NEW b \in n.out
  PROVE  LET r == [n EXCEPT !.out = @ \ {b}] IN
         /\ Sound(r, hands \cup {b}) /\ b \notin hands
         /\ r.nexthop = n.nexthop /\ r.dst = n.dst
<1> DEFINE r == [n EXCEPT !.out = @ \ {b}]
<1>1. PICK w \in [Packets -> Places] : PlacedAs(n, w) /\ hands = {c \in Packets : w[c] = Held}
  BY DEF Sound
<1>2. n \in Caches /\ Directed(n) /\ b \in Packets /\ w[b] = Queued
  BY <1>1 DEF Sound, Caches, PlacedAs
<1>3. /\ r \in Caches /\ r.free = n.free /\ r.table = n.table /\ r.out = n.out \ {b}
      /\ r.dst = n.dst /\ r.nexthop = n.nexthop /\ r.lost = n.lost
  BY <1>2 DEF Caches
<1> HIDE DEF r
<1>4. Held # Pooled /\ Held # Queued /\ Held # Gone /\ Queued # Pooled /\ Queued # Gone
      /\ (\A i \in 1..MON_ARP_TSIZE : Held # i /\ Queued # i) /\ Held \in Places
  BY CacheAssumption DEF Held, Pooled, Queued, Gone, Places
<1> DEFINE v == [w EXCEPT ![b] = Held]
<1>5. /\ v \in [Packets -> Places] /\ v[b] = Held
      /\ \A c \in Packets : c # b => v[c] = w[c]
  BY <1>2, <1>4
<1> HIDE DEF v
<1>6. PlacedAs(r, v)
  BY <1>1, <1>2, <1>3, <1>4, <1>5 DEF PlacedAs
<1>7. hands \cup {b} = {c \in Packets : v[c] = Held}
  BY <1>1, <1>2, <1>5
<1>8. Directed(r)
  BY <1>2, <1>3 DEF Directed, EntryRight
<1>9. b \notin hands
  BY <1>1, <1>2, <1>4
<1> QED
  BY <1>3, <1>5, <1>6, <1>7, <1>8, <1>9 DEF Sound, r

\* An entry that keeps its packet.
LEMMA EntryKeeps ==
  ASSUME NEW n, NEW hands, Sound(n, hands), NEW i \in 1..MON_ARP_TSIZE, NEW e \in Entries,
         EntryRight(n, e), e.pep = n.table[i].pep
  PROVE  Sound([n EXCEPT !.table[i] = e], hands)
<1> DEFINE r == [n EXCEPT !.table[i] = e]
<1>1. PICK w \in [Packets -> Places] : PlacedAs(n, w) /\ hands = {c \in Packets : w[c] = Held}
  BY DEF Sound
<1>2. n \in Caches /\ Directed(n)
  BY <1>1 DEF Sound
<1>3. /\ r \in Caches /\ r.free = n.free /\ r.table = [n.table EXCEPT ![i] = e]
      /\ r.out = n.out /\ r.dst = n.dst /\ r.nexthop = n.nexthop /\ r.lost = n.lost
  BY <1>2 DEF Caches
<1> HIDE DEF r
<1>4. r.table[i] = e /\ \A j \in 1..MON_ARP_TSIZE : j # i => r.table[j] = n.table[j]
  BY <1>2, <1>3 DEF Caches
<1>5. PlacedAs(r, w)
  BY <1>1, <1>3, <1>4 DEF PlacedAs
<1>6. Directed(r)
  BY <1>2, <1>3, <1>4 DEF Directed, EntryRight
<1> QED
  BY <1>1, <1>3, <1>5, <1>6 DEF Sound, r

\* An entry that gives its packet, if it has one, for one in hand or for none.
LEMMA EntrySwaps ==
  ASSUME NEW n, NEW hands, Sound(n, hands), NEW i \in 1..MON_ARP_TSIZE, NEW e \in Entries,
         EntryRight(n, e), e.pep # NoPkt => e.pep \in hands
  PROVE  /\ Sound([n EXCEPT !.table[i] = e],
                  (hands \ {e.pep}) \cup ({n.table[i].pep} \ {NoPkt}))
         /\ n.table[i].pep \notin hands
<1> DEFINE r == [n EXCEPT !.table[i] = e]
           old == n.table[i].pep
<1>1. PICK w \in [Packets -> Places] : PlacedAs(n, w) /\ hands = {c \in Packets : w[c] = Held}
  BY DEF Sound
<1>2. n \in Caches /\ Directed(n) /\ old \in 0..NetBufs
  BY <1>1 DEF Sound, Caches, Entries
<1>3. /\ r \in Caches /\ r.free = n.free /\ r.table = [n.table EXCEPT ![i] = e]
      /\ r.out = n.out /\ r.dst = n.dst /\ r.nexthop = n.nexthop /\ r.lost = n.lost
  BY <1>2 DEF Caches
<1>4. r.table[i] = e /\ \A j \in 1..MON_ARP_TSIZE : j # i => r.table[j] = n.table[j]
  BY <1>2, <1>3 DEF Caches
<1>5. old # NoPkt => old \in Packets /\ w[old] = i
  BY <1>1, <1>2 DEF PlacedAs, NoPkt, Packets
<1>6. \A c \in Packets : w[c] = i <=> c = old
  BY <1>1 DEF PlacedAs
<1>7. /\ \A j \in 1..MON_ARP_TSIZE : Held # j /\ Pooled # j /\ Queued # j /\ Gone # j
      /\ Held # Pooled /\ Held # Queued /\ Held # Gone
      /\ Held \in Places /\ i \in Places
  BY CacheAssumption DEF Held, Pooled, Queued, Gone, Places
<1>8. \A c \in Packets : c # NoPkt
  BY DEF Packets, NoPkt
<1>9. e.pep # NoPkt => e.pep \in Packets /\ w[e.pep] = Held /\ e.pep # old
  BY <1>1, <1>6, <1>7
<1> HIDE DEF r, old
<1> DEFINE v == [c \in Packets |-> IF c = e.pep THEN i ELSE IF c = old THEN Held ELSE w[c]]
<1>10. /\ v \in [Packets -> Places]
       /\ \A c \in Packets : v[c] = IF c = e.pep THEN i ELSE IF c = old THEN Held ELSE w[c]
  BY <1>7
<1> HIDE DEF v
<1>11. ASSUME NEW c \in Packets
       PROVE  /\ c \in Range(r.free) <=> v[c] = Pooled
              /\ c \in r.out <=> v[c] = Queued
              /\ c \in r.lost <=> v[c] = Gone
  BY <1>1, <1>3, <1>5, <1>6, <1>7, <1>8, <1>9, <1>10, <1>11 DEF PlacedAs
<1>12. ASSUME NEW c \in Packets, NEW j \in 1..MON_ARP_TSIZE
       PROVE  r.table[j].pep = c <=> v[c] = j
  <2>1. CASE j = i
    BY <1>4, <1>6, <1>7, <1>10, <2>1
  <2>2. CASE j # i
    <3>1. r.table[j].pep = c <=> w[c] = j
      BY <1>1, <1>4, <2>2 DEF PlacedAs
    <3> QED
      BY <1>5, <1>7, <1>8, <1>9, <1>10, <2>2, <3>1
  <2> QED
    BY <2>1, <2>2
<1>13. PlacedAs(r, v)
  BY <1>1, <1>3, <1>11, <1>12 DEF PlacedAs
<1>14. (hands \ {e.pep}) \cup ({old} \ {NoPkt}) = {c \in Packets : v[c] = Held}
  BY <1>1, <1>5, <1>7, <1>8, <1>10
<1>15. Directed(r)
  BY <1>2, <1>3, <1>4 DEF Directed, EntryRight
<1>16. old \notin hands
  BY <1>1, <1>5, <1>6, <1>7
<1> QED
  BY <1>3, <1>10, <1>13, <1>14, <1>15, <1>16 DEF Sound, r, old

\* Addresses written into a packet in hand.
LEMMA HopKeeps ==
  ASSUME NEW n, NEW hands, Sound(n, hands), NEW b \in hands, NEW host \in 0..NetHosts
  PROVE  LET r == [n EXCEPT !.nexthop[b] = host] IN
         /\ Sound(r, hands) /\ Kept(n, r, hands \ {b}) /\ r.nexthop[b] = host
         /\ r.free = n.free /\ r.table = n.table
<1> DEFINE r == [n EXCEPT !.nexthop[b] = host]
<1>1. PICK w \in [Packets -> Places] : PlacedAs(n, w) /\ hands = {c \in Packets : w[c] = Held}
  BY DEF Sound
<1>2. n \in Caches /\ Directed(n) /\ b \in Packets /\ w[b] = Held
  BY <1>1 DEF Sound
<1>3. /\ r \in Caches /\ r.free = n.free /\ r.table = n.table /\ r.out = n.out
      /\ r.dst = n.dst /\ r.nexthop = [n.nexthop EXCEPT ![b] = host] /\ r.lost = n.lost
  BY <1>2 DEF Caches
<1>4. r.nexthop[b] = host /\ \A c \in Packets : c # b => r.nexthop[c] = n.nexthop[c]
  BY <1>2, <1>3 DEF Caches
<1> HIDE DEF r
<1>5. PlacedAs(r, w)
  BY <1>1, <1>3 DEF PlacedAs
<1>6. b \notin Range(n.free) /\ b \notin n.out /\ \A i \in 1..MON_ARP_TSIZE : n.table[i].pep # b
  BY <1>1, <1>2 DEF PlacedAs, Held, Pooled, Queued
<1>7. n.out \subseteq Packets /\ Range(n.free) \subseteq Packets
  BY <1>2 DEF Caches, Range
<1>8. \A i \in 1..MON_ARP_TSIZE : n.table[i].pep \in 0..NetBufs
  BY <1>2 DEF Caches, Entries
<1>9. \A i \in 1..MON_ARP_TSIZE : n.table[i].pep # NoPkt => n.table[i].pep \in Packets
  BY <1>8 DEF NoPkt, Packets
<1>10. Directed(r)
  BY <1>2, <1>3, <1>4, <1>6, <1>7, <1>9 DEF Directed, EntryRight
<1>11. Sound(r, hands)
  BY <1>1, <1>3, <1>5, <1>10 DEF Sound
<1>12. Kept(n, r, hands \ {b})
  BY <1>1, <1>3, <1>4 DEF Kept
<1> QED
  BY <1>3, <1>4, <1>11, <1>12 DEF r

\* The same for the address it is sent to.
LEMMA DstKeeps ==
  ASSUME NEW n, NEW hands, Sound(n, hands), NEW b \in hands, NEW host \in 0..NetHosts
  PROVE  LET r == [n EXCEPT !.dst[b] = host] IN
         /\ Sound(r, hands) /\ Kept(n, r, hands \ {b}) /\ r.dst[b] = host
         /\ r.nexthop = n.nexthop /\ r.free = n.free
<1> DEFINE r == [n EXCEPT !.dst[b] = host]
<1>1. PICK w \in [Packets -> Places] : PlacedAs(n, w) /\ hands = {c \in Packets : w[c] = Held}
  BY DEF Sound
<1>2. n \in Caches /\ Directed(n) /\ b \in Packets /\ w[b] = Held
  BY <1>1 DEF Sound
<1>3. /\ r \in Caches /\ r.free = n.free /\ r.table = n.table /\ r.out = n.out
      /\ r.dst = [n.dst EXCEPT ![b] = host] /\ r.nexthop = n.nexthop /\ r.lost = n.lost
  BY <1>2 DEF Caches
<1>4. r.dst[b] = host /\ \A c \in Packets : c # b => r.dst[c] = n.dst[c]
  BY <1>2, <1>3 DEF Caches
<1> HIDE DEF r
<1>5. PlacedAs(r, w)
  BY <1>1, <1>3 DEF PlacedAs
<1>6. b \notin n.out /\ n.out \subseteq Packets
  BY <1>1, <1>2 DEF PlacedAs, Held, Queued, Caches
<1>7. Directed(r)
  BY <1>2, <1>3, <1>4, <1>6 DEF Directed, EntryRight
<1>8. Sound(r, hands)
  BY <1>1, <1>3, <1>5, <1>7 DEF Sound
<1>9. Kept(n, r, hands \ {b})
  BY <1>1, <1>3, <1>4 DEF Kept
<1> QED
  BY <1>3, <1>4, <1>8, <1>9 DEF r

-------------------------------------------------------------------------------
\* mon_arpfind() returns an entry of the host or none.
LEMMA ArpfindFinds ==
  ASSUME NEW n, NEW host
  PROVE  /\ Arpfind(n, host) \in 0..MON_ARP_TSIZE
         /\ Arpfind(n, host) # 0 =>
              /\ n.table[Arpfind(n, host)].state # "AS_FREE"
              /\ n.table[Arpfind(n, host)].host = host
<1> DEFINE J == {0} \cup {i \in 1..MON_ARP_TSIZE :
                            n.table[i].state # "AS_FREE" /\ n.table[i].host = host}
<1>1. MON_ARP_TSIZE \in Nat \ {0}
  BY CacheAssumption
<1>2. J \subseteq 0..MON_ARP_TSIZE /\ J \in SUBSET Int /\ J # {} /\ MON_ARP_TSIZE \in Int
      /\ \A y \in J : y <= MON_ARP_TSIZE
  BY <1>1
<1>3. PICK i : i = Arpfind(n, host)
  OBVIOUS
<1>4. i = Max(J)
  BY <1>3 DEF Arpfind
<1>5. i \in J
  <2> HIDE DEF J
  <2> QED
    BY <1>2, <1>4, MaxOfBounded
<1> QED
  BY <1>2, <1>3, <1>5

\* The entry it finds depends only on who has which entry.
LEMMA ArpfindSame ==
  ASSUME NEW n, NEW r, NEW host,
         \A i \in 1..MON_ARP_TSIZE :
           /\ r.table[i].host = n.table[i].host
           /\ r.table[i].state # "AS_FREE" <=> n.table[i].state # "AS_FREE"
  PROVE  Arpfind(r, host) = Arpfind(n, host)
<1>1. {i \in 1..MON_ARP_TSIZE : r.table[i].state # "AS_FREE" /\ r.table[i].host = host}
      = {i \in 1..MON_ARP_TSIZE : n.table[i].state # "AS_FREE" /\ n.table[i].host = host}
  OBVIOUS
<1> QED
  BY <1>1 DEF Arpfind

\* mon_arpalloc() returns an entry.
LEMMA ArpallocFinds ==
  ASSUME NEW n
  PROVE  Arpalloc(n) \in 1..MON_ARP_TSIZE
<1> DEFINE J == {i \in 1..MON_ARP_TSIZE :
         \/ n.table[i].state = "AS_FREE"
         \/ i = 1 /\ \A j \in 1..MON_ARP_TSIZE : n.table[j].state # "AS_FREE"}
<1>1. MON_ARP_TSIZE \in Nat \ {0}
  BY CacheAssumption
<1>2. J \in SUBSET Nat /\ J \subseteq 1..MON_ARP_TSIZE
  BY <1>1
<1>3. J # {}
  <2>1. 1 \in 1..MON_ARP_TSIZE
    BY <1>1
  <2>2. CASE \A j \in 1..MON_ARP_TSIZE : n.table[j].state # "AS_FREE"
    BY <2>1, <2>2
  <2>3. CASE \E j \in 1..MON_ARP_TSIZE : n.table[j].state = "AS_FREE"
    BY <2>3
  <2> QED
    BY <2>2, <2>3
<1>4. Arpalloc(n) = Min(J)
  BY DEF Arpalloc
<1>5. Arpalloc(n) \in J
  <2> HIDE DEF J
  <2> QED
    BY <1>2, <1>3, <1>4, MinOfNaturals
<1> QED
  BY <1>2, <1>5

\* A request goes out in a buffer that has no next hop.
LEMMA ArpsendKeeps ==
  ASSUME NEW n, NEW hands, Sound(n, hands), n.free # <<>>
  PROVE  /\ Sound(Arpsend(n), hands)
         /\ Arpsend(n).nexthop = n.nexthop /\ Arpsend(n).dst = n.dst
<1>1. PICK b : b = Head(n.free)
  OBVIOUS
<1>2. /\ b \notin hands /\ n.nexthop[b] = Nobody /\ Sound(Getbuf(n), hands \cup {b})
      /\ Getbuf(n).nexthop = n.nexthop /\ Getbuf(n).dst = n.dst
  BY <1>1, GetbufKeeps
<1>3. Sound(Ethwrite(Getbuf(n), b), (hands \cup {b}) \ {b})
      /\ Ethwrite(Getbuf(n), b).nexthop = n.nexthop /\ Ethwrite(Getbuf(n), b).dst = n.dst
  BY <1>2, EthwriteKeeps
<1>4. (hands \cup {b}) \ {b} = hands
  BY <1>2
<1> QED
  BY <1>1, <1>3, <1>4 DEF Arpsend

\* The packet of a pending entry is changed for a newer one.
LEMMA ParkedKeeps ==
  ASSUME NEW n, NEW hands, Sound(n, hands), NEW b \in hands, NEW i \in 1..MON_ARP_TSIZE,
         n.table[i].state = "AS_PENDING", n.table[i].host = n.nexthop[b], n.free # <<>>
  PROVE  Sound(Parked(n, i, b), hands \ {b}) /\ Kept(n, Parked(n, i, b), hands \ {b})
<1>1. n \in Caches /\ b \in Packets /\ hands \subseteq Packets
  BY DEF Sound
<1>2. PICK e : e = [n.table[i] EXCEPT !.pep = b]
  OBVIOUS
<1>3. PICK r : r = [n EXCEPT !.table[i] = e]
  OBVIOUS
<1>4. PICK old : old = n.table[i].pep
  OBVIOUS
<1>5. /\ e \in Entries /\ e.pep = b /\ e.state = "AS_PENDING" /\ e.host = n.nexthop[b]
      /\ b # NoPkt
  <2>1. PICK x \in Entries : x = n.table[i]
    BY <1>1 DEF Caches
  <2>2. b \in 0..NetBufs /\ b # NoPkt
    BY <1>1 DEF Packets, NoPkt
  <2>3. e = [x EXCEPT !.pep = b] /\ x.state = "AS_PENDING" /\ x.host = n.nexthop[b]
    BY <1>2, <2>1
  <2>4. e \in Entries /\ e.pep = b /\ e.state = x.state /\ e.host = x.host
    BY <2>2, <2>3 DEF Entries
  <2> QED
    BY <2>2, <2>3, <2>4
<1>6. EntryRight(n, e)
  BY <1>5 DEF EntryRight
<1>7. Sound(r, (hands \ {b}) \cup ({old} \ {NoPkt})) /\ old \notin hands
  BY <1>3, <1>4, <1>5, <1>6, EntrySwaps
<1>8. /\ r.nexthop = n.nexthop /\ r.dst = n.dst /\ r.free = n.free /\ r.out = n.out
      /\ r.table = [n.table EXCEPT ![i].pep = b] /\ r.lost = n.lost /\ r \in Caches
  BY <1>1, <1>2, <1>3, <1>5 DEF Caches
<1>9. CASE old = NoPkt
  <2>1. Parked(n, i, b) = Arpsend([n EXCEPT !.table[i].pep = b])
    BY <1>4, <1>9 DEF Parked
  <2>2. [n EXCEPT !.table[i].pep = b] = r
    BY <1>1, <1>8 DEF Caches
  <2>3. Sound(r, hands \ {b})
    BY <1>7, <1>9
  <2> QED
    BY <1>8, <2>1, <2>2, <2>3, ArpsendKeeps DEF Kept
<1>10. CASE old # NoPkt
  <2>1. PICK m : m = Freebuf(r, old)
    OBVIOUS
  <2>2. PICK all : all = (hands \ {b}) \cup ({old} \ {NoPkt})
    OBVIOUS
  <2>3. old \in all /\ all \ {old} = hands \ {b} /\ Sound(r, all)
    BY <1>7, <1>10, <2>2
  <2>4. Sound(m, hands \ {b}) /\ Kept(r, m, hands \ {b}) /\ m.free # <<>>
    BY <2>1, <2>3, FreebufKeeps
  <2>5. Parked(n, i, b) = Arpsend([Freebuf(n, old) EXCEPT !.table[i].pep = b])
    BY <1>4, <1>10 DEF Parked
  <2>6. [Freebuf(n, old) EXCEPT !.table[i].pep = b] = m
    BY <1>1, <1>8, <2>1 DEF Caches, Freebuf
  <2>7. /\ Sound(Arpsend(m), hands \ {b})
        /\ Arpsend(m).nexthop = m.nexthop /\ Arpsend(m).dst = m.dst
    BY <2>4, ArpsendKeeps
  <2> QED
    BY <1>8, <2>4, <2>5, <2>6, <2>7 DEF Kept
<1> QED
  BY <1>9, <1>10

\* What a new entry drops is lost.
LEMMA DroppedKeeps ==
  ASSUME NEW n, NEW hands, Sound(n, hands), NEW i \in 1..MON_ARP_TSIZE, NEW e \in Entries,
         EntryRight(n, e), e.pep # NoPkt => e.pep \in hands
  PROVE  Sound([n EXCEPT !.table[i] = e, !.lost = @ \cup ({n.table[i].pep} \ {NoPkt})],
               hands \ {e.pep})
<1>1. n \in Caches
  BY DEF Sound
<1>2. PICK r : r = [n EXCEPT !.table[i] = e]
  OBVIOUS
<1>3. PICK old : old = n.table[i].pep
  OBVIOUS
<1>4. PICK q : q = [n EXCEPT !.table[i] = e, !.lost = @ \cup ({old} \ {NoPkt})]
  OBVIOUS
<1>5. Sound(r, (hands \ {e.pep}) \cup ({old} \ {NoPkt})) /\ old \notin hands
  BY <1>2, <1>3, EntrySwaps
<1>6. q = [r EXCEPT !.lost = @ \cup ({old} \ {NoPkt})]
  BY <1>1, <1>2, <1>4 DEF Caches
<1>7. CASE old = NoPkt
  <2>1. q = r
    BY <1>1, <1>2, <1>4, <1>7 DEF Caches
  <2>2. (hands \ {e.pep}) \cup ({old} \ {NoPkt}) = hands \ {e.pep}
    BY <1>7
  <2> QED
    BY <1>3, <1>4, <1>5, <2>1, <2>2
<1>8. CASE old # NoPkt
  <2>1. q = [r EXCEPT !.lost = @ \cup {old}]
    BY <1>6, <1>8
  <2>2. old \in (hands \ {e.pep}) \cup ({old} \ {NoPkt})
        /\ ((hands \ {e.pep}) \cup ({old} \ {NoPkt})) \ {old} = hands \ {e.pep}
    BY <1>5, <1>8
  <2>3. Sound(q, hands \ {e.pep})
    BY <1>5, <2>1, <2>2, LoseKeeps
  <2> QED
    BY <1>3, <1>4, <2>3
<1> QED
  BY <1>7, <1>8

\* A packet for a new host takes an entry; what the entry held is lost.
LEMMA ClaimedKeeps ==
  ASSUME NEW n, NEW hands, Sound(n, hands), NEW b \in hands, n.free # <<>>
  PROVE  Sound(Claimed(n, b), hands \ {b}) /\ Kept(n, Claimed(n, b), hands \ {b})
<1>1. n \in Caches /\ b \in Packets
  BY DEF Sound
<1>2. PICK i \in 1..MON_ARP_TSIZE : i = Arpalloc(n)
  BY ArpallocFinds
<1>3. PICK e : e = [n.table[i] EXCEPT !.state = "AS_PENDING", !.pep = b, !.host = n.nexthop[b]]
  OBVIOUS
<1>4. /\ e \in Entries /\ e.pep = b /\ e.state = "AS_PENDING" /\ e.host = n.nexthop[b]
  <2>1. PICK x \in Entries : x = n.table[i]
    BY <1>1 DEF Caches
  <2>2. PICK h \in 0..NetHosts : h = n.nexthop[b]
    BY <1>1 DEF Caches
  <2>3. b \in 0..NetBufs
    BY <1>1 DEF Packets
  <2>4. e = [x EXCEPT !.state = "AS_PENDING", !.pep = b, !.host = h]
    BY <1>3, <2>1, <2>2
  <2>5. e = [state |-> "AS_PENDING", host |-> h, hwa |-> x.hwa, pep |-> b]
    BY <2>4 DEF Entries
  <2>6. e \in Entries
    BY <2>3, <2>5 DEF Entries
  <2> QED
    BY <2>2, <2>5, <2>6
<1>5. EntryRight(n, e)
  BY <1>4 DEF EntryRight
<1>6. PICK q : q = [n EXCEPT !.table[i] = e, !.lost = @ \cup ({n.table[i].pep} \ {NoPkt})]
  OBVIOUS
<1>7. Sound(q, hands \ {b})
  BY <1>4, <1>5, <1>6, DroppedKeeps
<1>8. q.free = n.free /\ q.nexthop = n.nexthop /\ q.dst = n.dst
  BY <1>1, <1>6 DEF Caches
<1>9. q = [n EXCEPT !.table[i].state = "AS_PENDING", !.table[i].pep = b,
                    !.table[i].host = n.nexthop[b],
                    !.lost = @ \cup ({n.table[i].pep} \ {NoPkt})]
  BY <1>1, <1>2, <1>3, <1>6 DEF Caches, Entries
<1>10. Claimed(n, b) = Arpsend(q)
  BY <1>2, <1>9 DEF Claimed
<1> QED
  BY <1>7, <1>8, <1>10, ArpsendKeeps DEF Kept

\* mon_netwrite() of a packet with a resolved next hop: the address is the host's.
LEMMA AddressedKeeps ==
  ASSUME NEW n, NEW hands, Sound(n, hands), NEW b \in hands, IsResolved(n, b)
  PROVE  /\ Sound(Addressed(n, b), hands) /\ Kept(n, Addressed(n, b), hands \ {b})
         /\ Addressed(n, b).nexthop = n.nexthop
         /\ Addressed(n, b).dst[b] = n.nexthop[b]
<1>1. PICK hop : hop = n.nexthop[b]
  OBVIOUS
<1>2. PICK i : i = Arpfind(n, hop)
  OBVIOUS
<1>3. /\ i \in 1..MON_ARP_TSIZE /\ n.table[i].state = "AS_RESOLVED" /\ n.table[i].host = hop
  <2>1. i \in 0..MON_ARP_TSIZE /\ i # 0
    BY <1>1, <1>2, ArpfindFinds DEF IsResolved
  <2>2. i \in 1..MON_ARP_TSIZE
    BY <2>1, CacheAssumption
  <2> QED
    BY <1>1, <1>2, <2>1, <2>2, ArpfindFinds DEF IsResolved
<1>4. n.table[i].hwa = hop /\ n.table[i].hwa \in 0..NetHosts
  <2>1. n.table[i] \in Entries
    BY <1>3 DEF Sound, Caches
  <2> QED
    BY <1>3, <2>1 DEF Sound, Directed, EntryRight, Entries
<1>5. hop \in 0..NetHosts
  BY <1>4
<1>6. PICK r : r = [n EXCEPT !.dst[b] = hop]
  OBVIOUS
<1>7. Addressed(n, b) = r
  BY <1>1, <1>2, <1>4, <1>6 DEF Addressed
<1>8. /\ Sound(r, hands) /\ Kept(n, r, hands \ {b}) /\ r.dst[b] = hop
      /\ r.nexthop = n.nexthop
  BY <1>5, <1>6, DstKeeps
<1> QED
  BY <1>1, <1>7, <1>8

\* mon_netwrite() of a packet without an address yet.
LEMMA WaitingKeeps ==
  ASSUME NEW n, NEW hands, Sound(n, hands), NEW b \in hands, ~IsResolved(n, b),
         n.free # <<>>
  PROVE  Sound(Waiting(n, b), hands \ {b}) /\ Kept(n, Waiting(n, b), hands \ {b})
<1>1. PICK i \in 0..MON_ARP_TSIZE : i = Arpfind(n, n.nexthop[b])
  BY ArpfindFinds
<1>2. CASE i = 0
  BY <1>1, <1>2, ClaimedKeeps DEF Waiting
<1>3. CASE i # 0
  <2>1. i \in 1..MON_ARP_TSIZE
    BY <1>1, <1>3, CacheAssumption
  <2>2. n.table[i].state # "AS_FREE" /\ n.table[i].host = n.nexthop[b]
    BY <1>1, <1>3, ArpfindFinds
  <2>3. n.table[i].state # "AS_RESOLVED"
    BY <1>1, <1>3 DEF IsResolved
  <2>4. n.table[i].state \in {"AS_FREE", "AS_PENDING", "AS_RESOLVED"}
    BY <2>1 DEF Sound, Caches, Entries
  <2>5. n.table[i].state = "AS_PENDING"
    BY <2>2, <2>3, <2>4
  <2>6. Waiting(n, b) = Parked(n, i, b)
    BY <1>1, <1>3 DEF Waiting
  <2> QED
    BY <2>1, <2>2, <2>5, <2>6, ParkedKeeps
<1> QED
  BY <1>2, <1>3

\* mon_netwrite() from beginning to end: the packet is queued or waits.
LEMMA NetWriteKeeps ==
  ASSUME NEW n, NEW hands, Sound(n, hands), NEW b \in hands,
         n.free # <<>> \/ IsResolved(n, b)
  PROVE  Sound(NetWrite(n, b), hands \ {b}) /\ Kept(n, NetWrite(n, b), hands \ {b})
<1>1. CASE IsResolved(n, b)
  <2>1. PICK r : r = Addressed(n, b)
    OBVIOUS
  <2>2. /\ Sound(r, hands) /\ Kept(n, r, hands \ {b})
        /\ r.nexthop = n.nexthop /\ r.dst[b] = r.nexthop[b]
    BY <1>1, <2>1, AddressedKeeps
  <2>3. /\ Sound(Ethwrite(r, b), hands \ {b})
        /\ Ethwrite(r, b).nexthop = r.nexthop /\ Ethwrite(r, b).dst = r.dst
    BY <2>2, EthwriteKeeps
  <2> QED
    BY <1>1, <2>1, <2>2, <2>3 DEF NetWrite, Kept
<1>2. CASE ~IsResolved(n, b)
  BY <1>2, WaitingKeeps DEF NetWrite
<1> QED
  BY <1>1, <1>2

-------------------------------------------------------------------------------
\* An address learnt changes no more than the address of its host's entry.
LEMMA LearnedKeeps ==
  ASSUME NEW n, NEW hands, Sound(n, hands), NEW host \in Hosts
  PROVE  /\ Sound(Learned(n, host), hands)
         /\ Learned(n, host).nexthop = n.nexthop /\ Learned(n, host).dst = n.dst
         /\ Arpfind(Learned(n, host), host) = Arpfind(n, host)
         /\ Arpfind(n, host) # 0 => Learned(n, host).table[Arpfind(n, host)].hwa = host
<1>1. PICK i \in 0..MON_ARP_TSIZE : i = Arpfind(n, host)
  BY ArpfindFinds
<1>2. CASE i = 0
  BY <1>1, <1>2 DEF Learned
<1>3. CASE i # 0
  <2>1. i \in 1..MON_ARP_TSIZE /\ n.table[i].host = host
    BY <1>1, <1>3, ArpfindFinds, CacheAssumption
  <2>2. PICK x \in Entries : x = n.table[i]
    BY <2>1 DEF Sound, Caches
  <2>3. PICK e : e = [x EXCEPT !.hwa = host]
    OBVIOUS
  <2>4. host \in 0..NetHosts
    BY DEF Hosts
  <2>5. /\ e \in Entries /\ e.hwa = host /\ e.host = x.host /\ e.state = x.state
        /\ e.pep = x.pep
    BY <2>2, <2>3, <2>4 DEF Entries
  <2>6. EntryRight(n, x)
    BY <2>1, <2>2 DEF Sound, Directed
  <2>7. EntryRight(n, e)
    BY <2>1, <2>2, <2>5, <2>6 DEF EntryRight
  <2>8. PICK r : r = [n EXCEPT !.table[i] = e]
    OBVIOUS
  <2>9. Sound(r, hands)
    BY <2>1, <2>2, <2>5, <2>7, <2>8, EntryKeeps
  <2>10. r = [n EXCEPT !.table[i].hwa = host]
    BY <2>2, <2>3, <2>8
  <2>11. Learned(n, host) = r
    BY <1>1, <1>3, <2>10 DEF Learned
  <2>12. /\ r.nexthop = n.nexthop /\ r.dst = n.dst /\ r.table[i] = e
         /\ \A j \in 1..MON_ARP_TSIZE : j # i => r.table[j] = n.table[j]
    BY <2>1, <2>8 DEF Sound, Caches
  <2>13. \A j \in 1..MON_ARP_TSIZE :
           /\ r.table[j].host = n.table[j].host
           /\ r.table[j].state # "AS_FREE" <=> n.table[j].state # "AS_FREE"
    BY <2>2, <2>5, <2>12
  <2>14. Arpfind(r, host) = Arpfind(n, host)
    BY <2>13, ArpfindSame
  <2> QED
    BY <1>1, <2>5, <2>9, <2>11, <2>12, <2>14
<1> QED
  BY <1>2, <1>3

\* A new entry with an address.
LEMMA AddedKeeps ==
  ASSUME NEW n, NEW hands, Sound(n, hands), NEW host \in Hosts
  PROVE  /\ Sound(Added(n, host), hands)
         /\ Added(n, host).nexthop = n.nexthop /\ Added(n, host).dst = n.dst
<1>1. n \in Caches /\ hands \subseteq Packets
  BY DEF Sound
<1>2. PICK i \in 1..MON_ARP_TSIZE : i = Arpalloc(n)
  BY ArpallocFinds
<1>3. PICK e : e = [state |-> "AS_RESOLVED", host |-> host, hwa |-> host, pep |-> NoPkt]
  OBVIOUS
<1>4. e \in Entries
  BY <1>3, CacheAssumption DEF Entries, Hosts, NoPkt
<1>5. e.pep = NoPkt /\ EntryRight(n, e)
  BY <1>3 DEF EntryRight
<1>6. PICK q : q = [n EXCEPT !.table[i] = e, !.lost = @ \cup ({n.table[i].pep} \ {NoPkt})]
  OBVIOUS
<1>7. Sound(q, hands \ {e.pep})
  BY <1>4, <1>5, <1>6, DroppedKeeps
<1>8. hands \ {e.pep} = hands
  BY <1>1, <1>5 DEF Packets, NoPkt
<1>9. q.nexthop = n.nexthop /\ q.dst = n.dst
  BY <1>1, <1>6 DEF Caches
<1>10. Added(n, host) = q
  BY <1>2, <1>3, <1>6 DEF Added
<1> QED
  BY <1>7, <1>8, <1>9, <1>10

\* The packet of the entry that is resolved goes to its host: it is found
\* resolved, so no buffer is needed.
LEMMA ResolvedKeeps ==
  ASSUME NEW n, NEW hands, Sound(n, hands), NEW host \in Hosts,
         NEW i \in 1..MON_ARP_TSIZE, i = Arpfind(n, host),
         n.table[i].state = "AS_PENDING", n.table[i].hwa = host
  PROVE  Sound(Resolved(n, i), hands) /\ Kept(n, Resolved(n, i), hands)
<1>1. n \in Caches /\ hands \subseteq Packets
  BY DEF Sound
<1>2. PICK x \in Entries : x = n.table[i]
  BY <1>1 DEF Caches
<1>3. x.host = host
  BY <1>2, ArpfindFinds, CacheAssumption
<1>4. PICK e : e = [x EXCEPT !.state = "AS_RESOLVED", !.pep = NoPkt]
  OBVIOUS
<1>5. NoPkt \in 0..NetBufs
  BY CacheAssumption DEF NoPkt
<1>6. e = [state |-> "AS_RESOLVED", host |-> x.host, hwa |-> x.hwa, pep |-> NoPkt]
  BY <1>4 DEF Entries
<1>7. e \in Entries
  BY <1>5, <1>6 DEF Entries
<1>8. e.pep = NoPkt /\ e.state = "AS_RESOLVED" /\ e.host = host /\ e.hwa = host
  BY <1>2, <1>3, <1>6
<1>9. EntryRight(n, e)
  BY <1>8 DEF EntryRight
<1>10. PICK m : m = [n EXCEPT !.table[i] = e]
  OBVIOUS
<1>11. PICK old : old = n.table[i].pep
  OBVIOUS
<1>12. hands \ {e.pep} = hands
  BY <1>1, <1>8 DEF Packets, NoPkt
<1>13. Sound(m, hands \cup ({old} \ {NoPkt})) /\ old \notin hands
  BY <1>7, <1>8, <1>9, <1>10, <1>11, <1>12, EntrySwaps
<1>14. /\ m.nexthop = n.nexthop /\ m.dst = n.dst /\ m.table[i] = e
       /\ \A j \in 1..MON_ARP_TSIZE : j # i => m.table[j] = n.table[j]
  BY <1>1, <1>10 DEF Caches
<1>15. m = [n EXCEPT !.table[i].state = "AS_RESOLVED", !.table[i].pep = NoPkt]
  BY <1>1, <1>2, <1>4, <1>10 DEF Caches
<1>16. CASE old = NoPkt
  <2>1. hands \cup ({old} \ {NoPkt}) = hands
    BY <1>16
  <2>2. Resolved(n, i) = m
    BY <1>11, <1>15, <1>16 DEF Resolved
  <2> QED
    BY <1>13, <1>14, <2>1, <2>2 DEF Kept
<1>17. CASE old # NoPkt
  <2>1. PICK all : all = hands \cup ({old} \ {NoPkt})
    OBVIOUS
  <2>2. old \in all /\ all \ {old} = hands /\ Sound(m, all)
    BY <1>13, <1>17, <2>1
  <2>3. Resolved(n, i) = NetWrite(m, old)
    BY <1>11, <1>15, <1>17 DEF Resolved
  <2>4. n.nexthop[old] = host
    BY <1>2, <1>3, <1>11, <1>17 DEF Sound, Directed, EntryRight
  <2>5. \A j \in 1..MON_ARP_TSIZE :
          /\ m.table[j].host = n.table[j].host
          /\ m.table[j].state # "AS_FREE" <=> n.table[j].state # "AS_FREE"
    BY <1>2, <1>3, <1>8, <1>14
  <2>6. Arpfind(m, host) = i
    BY <2>5, ArpfindSame
  <2>7. IsResolved(m, old)
    BY <1>8, <1>14, <2>4, <2>6 DEF IsResolved
  <2>8. Sound(NetWrite(m, old), hands) /\ Kept(m, NetWrite(m, old), hands)
    BY <2>2, <2>7, NetWriteKeeps
  <2> QED
    BY <1>14, <2>3, <2>8 DEF Kept
<1> QED
  BY <1>16, <1>17

\* An ARP packet for this machine, once the address is learnt.
LEMMA CachedKeeps ==
  ASSUME NEW n, NEW hands, Sound(n, hands), NEW host \in Hosts,
         Arpfind(n, host) # 0 => n.table[Arpfind(n, host)].hwa = host
  PROVE  Sound(Cached(n, host), hands) /\ Kept(n, Cached(n, host), hands)
<1>1. PICK i \in 0..MON_ARP_TSIZE : i = Arpfind(n, host)
  BY ArpfindFinds
<1>2. CASE i = 0
  BY <1>1, <1>2, AddedKeeps DEF Cached, Kept
<1>3. CASE i # 0 /\ n.table[i].state = "AS_PENDING"
  <2>1. i \in 1..MON_ARP_TSIZE
    BY <1>1, <1>3, CacheAssumption
  <2>2. n.table[i].hwa = host
    BY <1>1, <1>3
  <2> QED
    BY <1>1, <1>3, <2>1, <2>2, ResolvedKeeps DEF Cached
<1>4. CASE i # 0 /\ n.table[i].state # "AS_PENDING"
  BY <1>1, <1>4 DEF Cached, Kept
<1> QED
  BY <1>2, <1>3, <1>4

-------------------------------------------------------------------------------
\* The main loop has at most one packet in hand: between its steps it has its
\* next hop, and before the write its address.
CacheInv ==
  /\ Sound(net, {mainpep} \ {NoPkt})
  /\ mainpc \in {"idle", "netwrite", "ethwrite"}
  /\ mainpep \in 0..NetBufs
  /\ mainpc = "idle" => mainpep = NoPkt
  /\ mainpc # "idle" => mainpep # NoPkt
  /\ mainpc = "ethwrite" =>
       (net.nexthop[mainpep] # Nobody => net.dst[mainpep] = net.nexthop[mainpep])

\* At first every buffer is in the pool.
LEMMA CacheInvInit == CacheInit => CacheInv
<1> SUFFICES ASSUME CacheInit PROVE CacheInv
  OBVIOUS
<1>1. /\ net.free = [b \in Packets |-> b] /\ net.out = {} /\ net.lost = {}
      /\ net.dst = [b \in Packets |-> Nobody] /\ net.nexthop = [b \in Packets |-> Nobody]
      /\ net.table = [i \in 1..MON_ARP_TSIZE |->
                        [state |-> "AS_FREE", host |-> Nobody, hwa |-> Nobody, pep |-> NoPkt]]
      /\ mainpep = NoPkt /\ mainpc = "idle"
  BY DEF CacheInit
<1>2. 0 \in 0..NetHosts /\ 0 \in 0..NetBufs
  BY CacheAssumption
<1>3. net.free \in Seq(Packets)
  <2>1. NetBufs \in Nat /\ \A b \in 1..NetBufs : b \in Packets
    BY CacheAssumption DEF Packets
  <2> QED
    BY <1>1, <2>1, IsASeq DEF Packets
<1>4. IsInjective(net.free) /\ Range(net.free) = Packets
  BY <1>1 DEF IsInjective, Range
<1>5. net \in Caches
  <2>1. [state |-> "AS_FREE", host |-> Nobody, hwa |-> Nobody, pep |-> NoPkt] \in Entries
    BY <1>2 DEF Entries, Nobody, NoPkt
  <2>2. net.table \in [1..MON_ARP_TSIZE -> Entries]
    BY <1>1, <2>1
  <2>3. net.dst \in [Packets -> 0..NetHosts] /\ net.nexthop \in [Packets -> 0..NetHosts]
    BY <1>1, <1>2 DEF Nobody
  <2>4. net = [table |-> net.table, free |-> net.free, out |-> net.out, dst |-> net.dst,
               nexthop |-> net.nexthop, lost |-> net.lost]
    BY DEF CacheInit
  <2> QED
    BY <1>1, <1>3, <2>2, <2>3, <2>4 DEF Caches
<1>6. Directed(net)
  BY <1>1, <1>4 DEF Directed, EntryRight
<1>7. PICK w : w = [b \in Packets |-> Pooled]
  OBVIOUS
<1>8. w \in [Packets -> Places]
  BY <1>7, CacheAssumption DEF Pooled, Places
<1>9. PlacedAs(net, w)
  <2>1. \A b \in Packets : w[b] = 0 /\ b # 0
    BY <1>7 DEF Pooled, Packets
  <2>2. \A i \in 1..MON_ARP_TSIZE : net.table[i].pep = 0 /\ i # 0
    BY <1>1 DEF NoPkt
  <2>3. Pooled = 0 /\ Queued # 0 /\ Gone # 0
    BY DEF Pooled, Queued, Gone
  <2> QED
    BY <1>1, <1>4, <2>1, <2>2, <2>3 DEF PlacedAs
<1>10. {mainpep} \ {NoPkt} = {b \in Packets : w[b] = Held}
  BY <1>1, <1>7 DEF Pooled, Held
<1>11. Sound(net, {mainpep} \ {NoPkt})
  BY <1>5, <1>6, <1>8, <1>9, <1>10 DEF Sound
<1> QED
  BY <1>1, <1>2, <1>11 DEF CacheInv, NoPkt

\* The steps of the main loop.
LEMMA CacheInvMain ==
  ASSUME CacheInv, (\E host \in Hosts : MainGets(host)) \/ MainNetwrite \/ MainEthwrite
  PROVE  CacheInv'
<1>1. CASE \E host \in Hosts : MainGets(host)
  <2>1. PICK host \in Hosts : MainGets(host)
    BY <1>1
  <2>2. PICK n : n = net
    OBVIOUS
  <2>3. PICK b : b = Head(n.free)
    OBVIOUS
  <2>4. /\ n.free # <<>> /\ mainpep' = b /\ mainpc' = "netwrite"
        /\ net' = [Getbuf(n) EXCEPT !.nexthop[b] = host]
    BY <2>1, <2>2, <2>3 DEF MainGets
  <2>5. Sound(n, {})
    BY <2>1, <2>2 DEF CacheInv, MainGets
  <2>6. b \in Packets /\ Sound(Getbuf(n), {b})
    BY <2>3, <2>4, <2>5, GetbufKeeps
  <2>7. host \in 0..NetHosts /\ b \in {b}
    BY DEF Hosts
  <2>8. Sound([Getbuf(n) EXCEPT !.nexthop[b] = host], {b})
    BY <2>6, <2>7, HopKeeps
  <2>9. b # NoPkt /\ b \in 0..NetBufs
    BY <2>6 DEF Packets, NoPkt
  <2>10. {mainpep'} \ {NoPkt} = {b}
    BY <2>4, <2>9
  <2> QED
    BY <2>4, <2>8, <2>9, <2>10 DEF CacheInv
<1>2. CASE MainNetwrite
  <2>1. PICK n : n = net
    OBVIOUS
  <2>2. PICK b : b = mainpep
    OBVIOUS
  <2>3. Sound(n, {b}) /\ b \in {b} /\ b # NoPkt /\ b \in 0..NetBufs
    BY <1>2, <2>1, <2>2 DEF CacheInv, MainNetwrite
  <2>4. CASE IsResolved(n, b)
    <3>1. net' = Addressed(n, b) /\ mainpc' = "ethwrite" /\ mainpep' = b
      BY <1>2, <2>1, <2>2, <2>4 DEF MainNetwrite
    <3>2. /\ Sound(Addressed(n, b), {b})
          /\ Addressed(n, b).dst[b] = Addressed(n, b).nexthop[b]
      BY <2>3, <2>4, AddressedKeeps
    <3>3. {mainpep'} \ {NoPkt} = {b}
      BY <2>3, <3>1
    <3> QED
      BY <2>3, <3>1, <3>2, <3>3 DEF CacheInv
  <2>5. CASE ~IsResolved(n, b)
    <3>1. n.free # <<>> /\ net' = Waiting(n, b) /\ mainpc' = "idle" /\ mainpep' = NoPkt
      BY <1>2, <2>1, <2>2, <2>5 DEF MainNetwrite
    <3>2. Sound(Waiting(n, b), {b} \ {b})
      BY <2>3, <2>5, <3>1, WaitingKeeps
    <3>3. {mainpep'} \ {NoPkt} = {b} \ {b} /\ NoPkt \in 0..NetBufs
      BY <3>1, CacheAssumption DEF NoPkt
    <3> QED
      BY <3>1, <3>2, <3>3 DEF CacheInv
  <2> QED
    BY <2>4, <2>5
<1>3. CASE MainEthwrite
  <2>1. PICK n : n = net
    OBVIOUS
  <2>2. PICK b : b = mainpep
    OBVIOUS
  <2>3. /\ Sound(n, {b}) /\ b \in {b}
        /\ n.nexthop[b] # Nobody => n.dst[b] = n.nexthop[b]
        /\ net' = Ethwrite(n, b) /\ mainpc' = "idle" /\ mainpep' = NoPkt
    BY <1>3, <2>1, <2>2 DEF CacheInv, MainEthwrite
  <2>4. Sound(Ethwrite(n, b), {b} \ {b})
    BY <2>3, EthwriteKeeps
  <2>5. {mainpep'} \ {NoPkt} = {b} \ {b} /\ NoPkt \in 0..NetBufs
    BY <2>3, CacheAssumption DEF NoPkt
  <2> QED
    BY <2>3, <2>4, <2>5 DEF CacheInv
<1> QED
  BY <1>1, <1>2, <1>3

\* An interrupt leaves the main loop's packet alone.
LEMMA CacheInvAside ==
  ASSUME CacheInv, Sound(net', {mainpep} \ {NoPkt}), Kept(net, net', {mainpep} \ {NoPkt}),
         UNCHANGED <<mainpep, mainpc>>
  PROVE  CacheInv'
<1>1. mainpep' = mainpep /\ mainpc' = mainpc
  OBVIOUS
<1>2. mainpc = "ethwrite" => mainpep \in {mainpep} \ {NoPkt}
  BY DEF CacheInv
<1> QED
  BY <1>1, <1>2 DEF CacheInv, Kept

\* The interrupts.
LEMMA CacheInvInterrupt ==
  ASSUME CacheInv,
         \/ \E host \in Hosts : InterruptNetwrite(host)
         \/ \E host \in Hosts, ours, request \in BOOLEAN : ArpIn(host, ours, request)
         \/ \E b \in Packets : Transmit(b)
  PROVE  CacheInv'
<1>1. PICK n : n = net
  OBVIOUS
<1>2. PICK hands : hands = {mainpep} \ {NoPkt}
  OBVIOUS
<1>3. Sound(n, hands)
  BY <1>1, <1>2 DEF CacheInv
<1>4. UNCHANGED <<mainpep, mainpc>>
  BY DEF InterruptNetwrite, ArpIn, Transmit
<1>5. Sound(net', hands) /\ Kept(n, net', hands)
  <2>1. CASE \E host \in Hosts : InterruptNetwrite(host)
    <3>1. PICK host \in Hosts : InterruptNetwrite(host)
      BY <2>1
    <3>2. PICK b : b = Head(n.free)
      OBVIOUS
    <3>3. PICK m : m = [Getbuf(n) EXCEPT !.nexthop[b] = host]
      OBVIOUS
    <3>4. Len(n.free) >= 2 /\ net' = NetWrite(m, b)
      BY <1>1, <3>1, <3>2, <3>3 DEF InterruptNetwrite
    <3>5. n.free \in Seq(Packets)
      BY <1>3 DEF Sound, Caches
    <3>6. n.free # <<>> /\ Tail(n.free) # <<>>
      <4>1. n.free # <<>>
        BY <3>4, <3>5, EmptySeq
      <4>2. Tail(n.free) \in Seq(Packets) /\ Len(Tail(n.free)) = Len(n.free) - 1
        BY <3>5, <4>1, HeadTailProperties
      <4>3. Len(n.free) \in Nat
        BY <3>5, LenProperties
      <4> QED
        BY <3>4, <4>1, <4>2, <4>3, EmptySeq
    <3>7. /\ b \notin hands /\ Sound(Getbuf(n), hands \cup {b})
          /\ Getbuf(n).nexthop = n.nexthop /\ Getbuf(n).dst = n.dst
      BY <1>3, <3>2, <3>6, GetbufKeeps
    <3>8. Getbuf(n).free = Tail(n.free)
      BY <1>3 DEF Getbuf, Sound, Caches
    <3>9. PICK all : all = hands \cup {b}
      OBVIOUS
    <3>10. b \in all /\ all \ {b} = hands /\ Sound(Getbuf(n), all)
      BY <3>7, <3>9
    <3>11. host \in 0..NetHosts
      BY DEF Hosts
    <3>12. /\ Sound(m, all) /\ Kept(Getbuf(n), m, hands) /\ m.free = Tail(n.free)
      BY <3>3, <3>8, <3>10, <3>11, HopKeeps
    <3>13. Sound(net', hands) /\ Kept(m, net', hands)
      BY <3>4, <3>6, <3>10, <3>12, NetWriteKeeps
    <3> QED
      BY <3>7, <3>12, <3>13 DEF Kept
  <2>2. CASE \E host \in Hosts, ours, request \in BOOLEAN : ArpIn(host, ours, request)
    <3>1. PICK host \in Hosts, ours \in BOOLEAN, request \in BOOLEAN : ArpIn(host, ours, request)
      BY <2>2
    <3>2. PICK b : b = Head(n.free)
      OBVIOUS
    <3>3. PICK r : r = Learned(Getbuf(n), host)
      OBVIOUS
    <3>4. PICK q : q = Cached(r, host)
      OBVIOUS
    <3>5. n.free # <<>>
      BY <1>1, <3>1 DEF ArpIn
    <3>6. net' = IF ~ours THEN Freebuf(r, b)
                 ELSE IF request THEN Ethwrite([q EXCEPT !.dst[b] = host], b)
                 ELSE Freebuf(q, b)
      BY <1>1, <3>1, <3>2, <3>3, <3>4 DEF ArpIn
    <3>7. /\ b \notin hands /\ Sound(Getbuf(n), hands \cup {b}) /\ n.nexthop[b] = Nobody
          /\ Getbuf(n).nexthop = n.nexthop /\ Getbuf(n).dst = n.dst
      BY <1>3, <3>2, <3>5, GetbufKeeps
    <3>8. PICK all : all = hands \cup {b}
      OBVIOUS
    <3>9. b \in all /\ all \ {b} = hands /\ Sound(Getbuf(n), all)
      BY <3>7, <3>8
    <3>10. /\ Sound(r, all) /\ r.nexthop = n.nexthop /\ r.dst = n.dst
           /\ Arpfind(r, host) # 0 => r.table[Arpfind(r, host)].hwa = host
      <4>1. PICK g : g = Getbuf(n)
        OBVIOUS
      <4>2. Sound(g, all) /\ g.nexthop = n.nexthop /\ g.dst = n.dst /\ r = Learned(g, host)
        BY <3>3, <3>7, <3>9, <4>1
      <4> QED
        BY <4>2, LearnedKeeps
    <3>11. Sound(q, all) /\ Kept(r, q, all)
      BY <3>4, <3>10, CachedKeeps
    <3>12. CASE ~ours
      <4>1. Sound(net', hands) /\ Kept(r, net', hands)
        BY <3>6, <3>9, <3>10, <3>12, FreebufKeeps
      <4> QED
        BY <3>10, <4>1 DEF Kept
    <3>13. CASE ours /\ request
      <4>1. PICK m : m = [q EXCEPT !.dst[b] = host]
        OBVIOUS
      <4>2. host \in 0..NetHosts
        BY DEF Hosts
      <4>3. /\ Sound(m, all) /\ Kept(q, m, hands) /\ m.nexthop = q.nexthop
        BY <3>9, <3>11, <4>1, <4>2, DstKeeps
      <4>4. m.nexthop[b] = Nobody
        BY <3>7, <3>9, <3>10, <3>11, <4>3 DEF Kept
      <4>5. /\ Sound(Ethwrite(m, b), hands)
            /\ Ethwrite(m, b).nexthop = m.nexthop /\ Ethwrite(m, b).dst = m.dst
        BY <3>9, <4>3, <4>4, EthwriteKeeps
      <4>6. net' = Ethwrite(m, b)
        BY <3>6, <3>13, <4>1
      <4> QED
        BY <3>9, <3>10, <3>11, <4>3, <4>5, <4>6 DEF Kept
    <3>14. CASE ours /\ ~request
      <4>1. Sound(net', hands) /\ Kept(q, net', hands)
        BY <3>6, <3>9, <3>11, <3>14, FreebufKeeps
      <4> QED
        BY <3>9, <3>10, <3>11, <4>1 DEF Kept
    <3> QED
      BY <3>12, <3>13, <3>14
  <2>3. CASE \E b \in Packets : Transmit(b)
    <3>1. PICK b \in Packets : Transmit(b)
      BY <2>3
    <3>2. PICK r : r = [n EXCEPT !.out = @ \ {b}]
      OBVIOUS
    <3>3. b \in n.out /\ net' = Freebuf(r, b)
      BY <1>1, <3>1, <3>2 DEF Transmit
    <3>4. Sound(r, hands \cup {b}) /\ b \notin hands /\ r.nexthop = n.nexthop /\ r.dst = n.dst
      BY <1>3, <3>2, <3>3, SentKeeps
    <3>5. PICK all : all = hands \cup {b}
      OBVIOUS
    <3>6. b \in all /\ all \ {b} = hands /\ Sound(r, all)
      BY <3>4, <3>5
    <3>7. Sound(net', hands) /\ Kept(r, net', hands)
      BY <3>3, <3>6, FreebufKeeps
    <3> QED
      BY <3>4, <3>7 DEF Kept
  <2> QED
    BY <2>1, <2>2, <2>3
<1> QED
  BY <1>1, <1>2, <1>4, <1>5, CacheInvAside

\* Every step keeps the packets in their places.
LEMMA CacheInvNext == CacheInv /\ [CacheNext]_cacheVars => CacheInv'
<1> SUFFICES ASSUME CacheInv, [CacheNext]_cacheVars PROVE CacheInv'
  OBVIOUS
<1>1. CASE UNCHANGED cacheVars
  BY <1>1 DEF CacheInv, cacheVars
<1>2. CASE CacheNext
  BY <1>2, CacheInvMain, CacheInvInterrupt DEF CacheNext
<1> QED
  BY <1>1, <1>2

\* The sizes of sets that have nothing in common.
LEMMA TwoParts ==
  ASSUME NEW A, NEW B, IsFiniteSet(A), IsFiniteSet(B), A \cap B = {}
  PROVE  IsFiniteSet(A \cup B) /\ Cardinality(A \cup B) = Cardinality(A) + Cardinality(B)
<1>1. PICK a \in Nat : a = Cardinality(A)
  BY FS_CardinalityType
<1>2. PICK b \in Nat : b = Cardinality(B)
  BY FS_CardinalityType
<1>3. Cardinality(A \cap B) = 0
  BY FS_EmptySet
<1>4. IsFiniteSet(A \cup B)
      /\ Cardinality(A \cup B) = Cardinality(A) + Cardinality(B) - Cardinality(A \cap B)
  BY FS_Union, Zenon
<1> QED
  BY <1>1, <1>2, <1>3, <1>4

\* The same for five sets.
LEMMA FiveParts ==
  ASSUME NEW A, NEW B, NEW C, NEW D, NEW E,
         IsFiniteSet(A), IsFiniteSet(B), IsFiniteSet(C), IsFiniteSet(D), IsFiniteSet(E),
         A \cap B = {}, (A \cup B) \cap C = {}, (A \cup B \cup C) \cap D = {},
         (A \cup B \cup C \cup D) \cap E = {}
  PROVE  Cardinality(A) + Cardinality(B) + Cardinality(C) + Cardinality(D) + Cardinality(E)
         = Cardinality(A \cup B \cup C \cup D \cup E)
<1>1. IsFiniteSet(A \cup B) /\ Cardinality(A \cup B) = Cardinality(A) + Cardinality(B)
  BY TwoParts, Zenon
<1>2. /\ IsFiniteSet((A \cup B) \cup C)
      /\ Cardinality((A \cup B) \cup C) = Cardinality(A \cup B) + Cardinality(C)
  BY <1>1, TwoParts, Zenon
<1>3. /\ IsFiniteSet((A \cup B \cup C) \cup D)
      /\ Cardinality((A \cup B \cup C) \cup D) = Cardinality(A \cup B \cup C) + Cardinality(D)
  BY <1>2, TwoParts, Zenon
<1>4. Cardinality((A \cup B \cup C \cup D) \cup E)
      = Cardinality(A \cup B \cup C \cup D) + Cardinality(E)
  BY <1>3, TwoParts, Zenon
<1> QED
  BY <1>1, <1>2, <1>3, <1>4

\* Places are disjoint and there is one for every packet.
LEMMA CacheInvAccounts == CacheInv => PacketsAccountedFor
<1> SUFFICES ASSUME CacheInv PROVE PacketsAccountedFor
  OBVIOUS
<1> DEFINE main == {mainpep} \ {NoPkt}
           pool == Range(net.free)
<1>1. PICK w \in [Packets -> Places] : PlacedAs(net, w) /\ main = {b \in Packets : w[b] = Held}
  BY DEF CacheInv, Sound
<1>2. net \in Caches
  BY DEF CacheInv, Sound
<1>3. pool \subseteq Packets /\ net.out \subseteq Packets /\ net.lost \subseteq Packets
  BY <1>2 DEF Caches, Range
<1>4. \A i \in 1..MON_ARP_TSIZE : net.table[i].pep \in 0..NetBufs
  BY <1>2 DEF Caches, Entries
<1>5. \A i \in 1..MON_ARP_TSIZE : net.table[i].pep # NoPkt => net.table[i].pep \in Packets
  BY <1>4 DEF NoPkt, Packets
<1>6. pool = {b \in Packets : w[b] = Pooled}
  BY <1>1, <1>3 DEF PlacedAs
<1>7. net.out = {b \in Packets : w[b] = Queued} /\ net.lost = {b \in Packets : w[b] = Gone}
  BY <1>1, <1>3 DEF PlacedAs
<1>8. Waits = {b \in Packets : w[b] \in 1..MON_ARP_TSIZE}
  <2>1. ASSUME NEW b \in Waits PROVE b \in Packets /\ w[b] \in 1..MON_ARP_TSIZE
    BY <1>1, <1>5, <2>1 DEF Waits, PlacedAs
  <2>2. ASSUME NEW b \in Packets, w[b] \in 1..MON_ARP_TSIZE PROVE b \in Waits
    <3>1. net.table[w[b]].pep = b
      BY <1>1, <2>2 DEF PlacedAs
    <3>2. b # NoPkt
      BY DEF Packets, NoPkt
    <3> QED
      BY <2>2, <3>1, <3>2 DEF Waits
  <2> QED
    BY <2>1, <2>2
<1> HIDE DEF main, pool
<1>9. /\ Held # Pooled /\ Held # Queued /\ Held # Gone /\ Queued # Pooled /\ Queued # Gone
      /\ Gone # Pooled
      /\ \A i \in 1..MON_ARP_TSIZE : Held # i /\ Pooled # i /\ Queued # i /\ Gone # i
      /\ \A x \in Places : \/ x \in {Held, Pooled, Queued, Gone}
                           \/ x \in 1..MON_ARP_TSIZE
  BY CacheAssumption DEF Held, Pooled, Queued, Gone, Places
<1>10. \A b \in Packets : w[b] \in Places
  OBVIOUS
<1>11. Packets = pool \cup net.out \cup Waits \cup main \cup net.lost
  BY <1>1, <1>6, <1>7, <1>8, <1>9, <1>10
<1>12. /\ pool \cap net.out = {} /\ (pool \cup net.out) \cap Waits = {}
       /\ (pool \cup net.out \cup Waits) \cap main = {}
       /\ (pool \cup net.out \cup Waits \cup main) \cap net.lost = {}
  BY <1>1, <1>6, <1>7, <1>8, <1>9
<1>13. IsFiniteSet(Packets) /\ Cardinality(Packets) = NetBufs
  BY FS_Interval, CacheAssumption DEF Packets
<1>14. /\ pool \in SUBSET Packets /\ net.out \in SUBSET Packets /\ Waits \in SUBSET Packets
       /\ main \in SUBSET Packets /\ net.lost \in SUBSET Packets
  BY <1>11
<1>15. /\ IsFiniteSet(pool) /\ IsFiniteSet(net.out) /\ IsFiniteSet(Waits)
       /\ IsFiniteSet(main) /\ IsFiniteSet(net.lost)
  BY <1>13, <1>14, FS_Subset
<1>16. Cardinality(pool) + Cardinality(net.out) + Cardinality(Waits)
       + Cardinality(main) + Cardinality(net.lost) = NetBufs
  <2>1. Cardinality(pool) + Cardinality(net.out) + Cardinality(Waits)
        + Cardinality(main) + Cardinality(net.lost)
        = Cardinality(pool \cup net.out \cup Waits \cup main \cup net.lost)
    BY <1>12, <1>15, FiveParts
  <2> QED
    BY <1>11, <1>13, <2>1
<1>17. IsInjective(net.free)
  BY <1>1 DEF PlacedAs
<1>18. \A i, j \in 1..MON_ARP_TSIZE :
         i # j /\ net.table[i].pep = net.table[j].pep => net.table[i].pep = NoPkt
  BY <1>1, <1>5 DEF PlacedAs
<1> QED
  BY <1>11, <1>16, <1>17, <1>18 DEF PacketsAccountedFor, main, pool

\* The buffers of the boot loader are each in one place, and none is lost but
\* those a full table drops (mon/monarp.c).
THEOREM PacketsAreKept == CacheSpec => []PacketsAccountedFor
BY CacheInvInit, CacheInvNext, CacheInvAccounts, PTL DEF CacheSpec

\* A packet goes to the address of its next hop, whatever the cache forgot or
\* learnt between mon_netwrite() and the answer (mon/monarp.c).
THEOREM PacketsAreDirected == CacheSpec => []PacketsFindTheirHost
<1>1. CacheInv => PacketsFindTheirHost
  BY DEF CacheInv, Sound, Directed, EntryRight, PacketsFindTheirHost
<1> QED
  BY <1>1, CacheInvInit, CacheInvNext, PTL DEF CacheSpec

-------------------------------------------------------------------------------
(***************************************************************************)
(* NetOutput: the ring of blocks, and who looks at it next.                *)
(***************************************************************************)

\* A block begins where its header fits.
Positions == 0..TxSize - TxHeader - 1

Blocks == [at : Positions, len : Nat \ {0}, next : Positions, done : BOOLEAN, ok : BOOLEAN]

Rings == [start : Positions, end : Positions, blocks : Seq(Blocks)]

\* The words from a to b around the ring.
Dist(a, b) == IF a <= b THEN b - a ELSE b - a + TxSize

\* Seen from the start of the ring the blocks lie one behind the other, each in
\* front of the next and all in front of the end.
InRow(r) ==
  /\ r.blocks = <<>> => r.start = r.end
  /\ r.blocks # <<>> => r.blocks[Len(r.blocks)].next = r.end
  /\ \A i \in 1..Len(r.blocks) :
       /\ Dist(r.start, r.blocks[i].at) + r.blocks[i].len <= Dist(r.start, r.blocks[i].next)
       /\ Dist(r.start, r.blocks[i].next) <= Dist(r.start, r.end)
  /\ \A i, j \in 1..Len(r.blocks) :
       i < j => Dist(r.start, r.blocks[i].next) <= Dist(r.start, r.blocks[j].at)

Unsent(r) == \E i \in 1..Len(r.blocks) : ~r.blocks[i].done

Failed(r) == \E i \in 1..Len(r.blocks) : r.blocks[i].done /\ ~r.blocks[i].ok

\* The adapter sends the blocks in order.
SentInOrder(r) ==
  \A i, j \in 1..Len(r.blocks) : i < j /\ r.blocks[j].done => r.blocks[i].done

\* Until the ring is filled up its blocks lie in a row.  A stopped adapter has
\* marked the block that failed, the adapter or an interrupt takes care of the
\* blocks, and frames wait only behind blocks or for the main loop.
OutInv ==
  /\ outq \in Seq(FrameLens) /\ ring \in Rings
  /\ tx_int \in BOOLEAN /\ stopped \in BOOLEAN /\ writing \in BOOLEAN
  /\ in_xintr \in BOOLEAN /\ tight \in BOOLEAN
  /\ tight => ~in_xintr
  /\ ~tight =>
       /\ InRow(ring) /\ SentInOrder(ring)
       /\ (stopped /\ ring.blocks # <<>>) => Failed(ring)
       /\ ring.blocks # <<>> => (tx_int \/ in_xintr \/ (~stopped /\ Unsent(ring)))
       /\ outq # <<>> => (writing \/ ring.blocks # <<>>)

\* A block is not empty, and with another header it is smaller than the ring.
LEMMA BlockLens ==
  ASSUME NEW n \in FrameLens
  PROVE  BlockLen(n) \in Nat \ {0} /\ BlockLen(n) + TxHeader < TxSize
<1>1. n \in Nat /\ n + 1 + 2 * TxHeader < TxSize /\ TxHeader \in Nat \ {0} /\ TxSize \in Nat
  BY TxAssumption
<1>2. PICK y \in 0..1 : y = n % 2
  BY <1>1
<1>3. BlockLen(n) = n + y + TxHeader
  BY <1>2 DEF BlockLen
<1> QED
  BY <1>1, <1>3

\* The next block begins behind this one, perhaps with a header in between.
LEMMA AdvanceIs ==
  ASSUME NEW e \in Positions, NEW len \in Nat \ {0}, len + TxHeader < TxSize
  PROVE  /\ Advance(e, len) \in Positions
         /\ \E a \in Nat : /\ len <= a /\ a < TxSize
                           /\ (Advance(e, len) - e) % TxSize = a
                           /\ Advance(e, len) = IF e + a < TxSize THEN e + a ELSE e + a - TxSize
<1>0. TxHeader \in Nat \ {0} /\ TxSize \in Nat /\ TxSize > 0
  BY TxAssumption
<1>1. CASE e + len + TxHeader >= TxSize
  <2>1. Advance(e, len) = e + len + TxHeader - TxSize
    BY <1>1 DEF Advance
  <2>2. Advance(e, len) \in Positions
    BY <1>0, <1>1, <2>1 DEF Positions
  <2>3. PICK x \in Int : x = Advance(e, len) - e /\ x = len + TxHeader - TxSize
    BY <1>0, <2>1, <2>2 DEF Positions
  <2>4. x % TxSize = len + TxHeader
    <3>1. 0 - 2 * TxSize <= x /\ x < 3 * TxSize
      BY <1>0, <2>3
    <3>2. x % TxSize = IF x < 0 - TxSize THEN x + 2 * TxSize ELSE IF x < 0 THEN x + TxSize
            ELSE IF x < TxSize THEN x ELSE IF x < 2 * TxSize THEN x - TxSize
            ELSE x - 2 * TxSize
      BY <1>0, <3>1, Wraps
    <3>3. x % TxSize = x + TxSize
      BY <1>0, <2>3, <3>2
    <3>4. x + TxSize = len + TxHeader
      BY <1>0, <2>3
    <3> QED
      BY <3>3, <3>4, Zenon
  <2>5. (Advance(e, len) - e) % TxSize = len + TxHeader
    BY <2>3, <2>4
  <2>6. Advance(e, len) = IF e + (len + TxHeader) < TxSize THEN e + (len + TxHeader)
                          ELSE e + (len + TxHeader) - TxSize
    BY <1>0, <1>1, <2>1 DEF Positions
  <2>7. len + TxHeader \in Nat /\ len <= len + TxHeader
    BY <1>0
  <2> QED
    BY <2>2, <2>5, <2>6, <2>7
<1>2. CASE ~(e + len + TxHeader >= TxSize)
  <2>1. Advance(e, len) = e + len
    BY <1>2 DEF Advance
  <2>2. Advance(e, len) \in Positions
    BY <1>0, <1>2, <2>1 DEF Positions
  <2>3. (e + len) - e = len
    BY DEF Positions
  <2>4. len % TxSize = len
    BY <1>0, Wraps
  <2>5. (Advance(e, len) - e) % TxSize = len
    BY <2>1, <2>3, <2>4
  <2>6. Advance(e, len) = IF e + len < TxSize THEN e + len ELSE e + len - TxSize
    BY <1>0, <1>2, <2>1 DEF Positions
  <2>7. len < TxSize /\ len <= len
    BY <1>0
  <2> QED
    BY <2>2, <2>5, <2>6, <2>7
<1> QED
  BY <1>1, <1>2

\* What is free is what is left of the ring.
LEMMA AvailIs ==
  ASSUME NEW r \in Rings
  PROVE  Avail(r) = TxSize - Dist(r.start, r.end)
BY TxAssumption DEF Rings, Positions, Avail, Dist

\* Distances add up as long as they do not go around the ring.
LEMMA DistAdds ==
  ASSUME NEW s \in Positions, NEW e \in Positions, NEW a \in Nat, NEW x \in Positions,
         x = IF e + a < TxSize THEN e + a ELSE e + a - TxSize,
         Dist(s, e) + a < TxSize
  PROVE  Dist(s, x) = Dist(s, e) + a
BY TxAssumption DEF Positions, Dist

\* Seen from a later start everything is nearer by as much.
LEMMA DistShifts ==
  ASSUME NEW s \in Positions, NEW t \in Positions, NEW x \in Positions,
         Dist(s, t) <= Dist(s, x)
  PROVE  Dist(t, x) = Dist(s, x) - Dist(s, t)
BY TxAssumption DEF Positions, Dist

\* A distance is less than the ring is long, and 0 only from a place to itself.
LEMMA DistType ==
  ASSUME NEW s \in Positions, NEW x \in Positions
  PROVE  Dist(s, x) \in Nat /\ Dist(s, x) < TxSize /\ (Dist(s, x) = 0 <=> s = x)
BY TxAssumption DEF Positions, Dist

\* The ring with a block behind the others.
LEMMA ChainedShape ==
  ASSUME NEW r \in Rings, NEW n \in FrameLens
  PROVE  /\ Chained(r, n) \in Rings
         /\ Chained(r, n).start = r.start
         /\ Chained(r, n).end = Advance(r.end, BlockLen(n))
         /\ Len(Chained(r, n).blocks) = Len(r.blocks) + 1
         /\ \A i \in 1..Len(r.blocks) : Chained(r, n).blocks[i] = r.blocks[i]
         /\ Chained(r, n).blocks[Len(r.blocks) + 1] =
              [at |-> r.end, len |-> BlockLen(n), next |-> Advance(r.end, BlockLen(n)),
               done |-> FALSE, ok |-> TRUE]
<1> DEFINE next == Advance(r.end, BlockLen(n))
           b == [at |-> r.end, len |-> BlockLen(n), next |-> next, done |-> FALSE, ok |-> TRUE]
<1>1. r.end \in Positions /\ r.start \in Positions /\ r.blocks \in Seq(Blocks)
  BY DEF Rings
<1>2. BlockLen(n) \in Nat \ {0} /\ next \in Positions
  BY <1>1, BlockLens, AdvanceIs
<1>3. b \in Blocks
  BY <1>1, <1>2 DEF Blocks
<1>4. Chained(r, n) = [start |-> r.start, end |-> next, blocks |-> Append(r.blocks, b)]
  <2>1. Chained(r, n) = [r EXCEPT !.end = next, !.blocks = Append(r.blocks, b)]
    BY DEF Chained
  <2> HIDE DEF next, b
  <2> QED
    BY <2>1 DEF Rings
<1> HIDE DEF b
<1>5. /\ Append(r.blocks, b) \in Seq(Blocks)
      /\ Len(Append(r.blocks, b)) = Len(r.blocks) + 1
      /\ \A i \in 1..Len(r.blocks) : Append(r.blocks, b)[i] = r.blocks[i]
      /\ Append(r.blocks, b)[Len(r.blocks) + 1] = b
  BY <1>1, <1>3, AppendProperties
<1> HIDE DEF next
<1>6. Chained(r, n) \in Rings
  BY <1>1, <1>2, <1>4, <1>5 DEF Rings
<1> QED
  BY <1>4, <1>5, <1>6 DEF b, next

\* A block that does not fill the ring is in a row with the others.
LEMMA ChainedInRow ==
  ASSUME NEW r \in Rings, NEW n \in FrameLens, InRow(r), ~Fills(r, n)
  PROVE  InRow(Chained(r, n))
<1>1. PICK c \in Rings : c = Chained(r, n)
  BY ChainedShape
<1>2. PICK N \in Nat : N = Len(r.blocks)
  BY LenProperties DEF Rings
<1>3. PICK s \in Positions, e \in Positions, len \in Nat \ {0} :
        s = r.start /\ e = r.end /\ len = BlockLen(n)
  BY BlockLens DEF Rings
<1>4. len + TxHeader < TxSize
  BY <1>3, BlockLens
<1>5. PICK x \in Positions, a \in Nat :
        /\ x = Advance(e, len)
        /\ len <= a /\ a < TxSize /\ (Advance(e, len) - e) % TxSize = a
        /\ x = IF e + a < TxSize THEN e + a ELSE e + a - TxSize
  BY <1>4, AdvanceIs
<1>6. a < TxSize - Dist(s, e)
  <2>1. ~(a >= Avail(r))
    BY <1>3, <1>5 DEF Fills
  <2>2. Avail(r) = TxSize - Dist(s, e)
    BY <1>3, AvailIs
  <2>3. TxSize \in Nat /\ Dist(s, e) \in Nat
    BY DistType, TxAssumption
  <2> QED
    BY <2>1, <2>2, <2>3
<1>7. Dist(s, x) = Dist(s, e) + a
  <2>1. Dist(s, e) + a < TxSize
    BY <1>6, DistType, TxAssumption
  <2> QED
    BY <1>5, <2>1, DistAdds
<1>8. /\ c.start = s /\ c.end = x /\ Len(c.blocks) = N + 1
      /\ \A i \in 1..N : c.blocks[i] = r.blocks[i]
      /\ c.blocks[N + 1].at = e /\ c.blocks[N + 1].len = len /\ c.blocks[N + 1].next = x
  <2>1. c.start = s /\ c.end = x
    BY <1>1, <1>3, <1>5, ChainedShape
  <2>2. Len(c.blocks) = N + 1 /\ \A i \in 1..N : c.blocks[i] = r.blocks[i]
    BY <1>1, <1>2, ChainedShape
  <2>3. c.blocks[N + 1] = [at |-> e, len |-> len, next |-> x, done |-> FALSE, ok |-> TRUE]
    <3>1. c.blocks[Len(r.blocks) + 1] =
            [at |-> r.end, len |-> BlockLen(n), next |-> Advance(r.end, BlockLen(n)),
             done |-> FALSE, ok |-> TRUE]
      BY <1>1, ChainedShape, Zenon
    <3> QED
      BY <1>2, <1>3, <1>5, <3>1
  <2> QED
    BY <2>1, <2>2, <2>3
<1>9. \A i \in 1..N : r.blocks[i] \in Blocks
  BY <1>2 DEF Rings
<1>10. \A i \in 1..N : /\ Dist(s, r.blocks[i].at) \in Nat /\ Dist(s, r.blocks[i].next) \in Nat
                       /\ r.blocks[i].len \in Nat
  BY <1>9, DistType DEF Blocks
<1>11. Dist(s, e) \in Nat /\ Dist(s, x) \in Nat
  BY DistType
<1>12. /\ \A i \in 1..N :
            /\ Dist(s, r.blocks[i].at) + r.blocks[i].len <= Dist(s, r.blocks[i].next)
            /\ Dist(s, r.blocks[i].next) <= Dist(s, e)
       /\ \A i, j \in 1..N : i < j => Dist(s, r.blocks[i].next) <= Dist(s, r.blocks[j].at)
  BY <1>2, <1>3 DEF InRow
<1>13. c.blocks # <<>>
  BY <1>2, <1>8
<1>14. ASSUME NEW i \in 1..N + 1
       PROVE  /\ Dist(s, c.blocks[i].at) + c.blocks[i].len <= Dist(s, c.blocks[i].next)
              /\ Dist(s, c.blocks[i].next) <= Dist(s, x)
  <2>1. CASE i = N + 1
    <3>1. Dist(s, e) + len <= Dist(s, x)
      BY <1>5, <1>7, <1>11
    <3> QED
      BY <1>8, <1>11, <2>1, <3>1
  <2>2. CASE i \in 1..N
    <3>1. Dist(s, e) <= Dist(s, x)
      BY <1>7, <1>11
    <3>2. c.blocks[i] = r.blocks[i]
      BY <1>8, <2>2
    <3>3. /\ Dist(s, r.blocks[i].at) + r.blocks[i].len <= Dist(s, r.blocks[i].next)
          /\ Dist(s, r.blocks[i].next) <= Dist(s, e)
      BY <1>12, <2>2
    <3>4. Dist(s, r.blocks[i].next) <= Dist(s, x)
      <4>1. Dist(s, r.blocks[i].next) \in Nat
        BY <1>10, <2>2
      <4> QED
        BY <1>11, <3>1, <3>3, <4>1
    <3> QED
      BY <3>2, <3>3, <3>4, Zenon
  <2>3. i = N + 1 \/ i \in 1..N
    OBVIOUS
  <2> QED
    BY <2>1, <2>2, <2>3, Zenon
<1>15. ASSUME NEW i \in 1..N + 1, NEW j \in 1..N + 1, i < j
       PROVE  Dist(s, c.blocks[i].next) <= Dist(s, c.blocks[j].at)
  <2>0. i \in 1..N
    BY <1>15
  <2>1. CASE j = N + 1
    BY <1>8, <1>12, <2>0, <2>1
  <2>2. CASE j \in 1..N
    BY <1>8, <1>12, <1>15, <2>0, <2>2
  <2> QED
    BY <2>1, <2>2
<1>16. InRow(c)
  BY <1>8, <1>13, <1>14, <1>15 DEF InRow
<1> QED
  BY <1>1, <1>16

\* Two blocks in a row have no word in common.
LEMMA RowApart ==
  ASSUME NEW r \in Rings, InRow(r)
  PROVE  /\ r.start = r.end <=> r.blocks = <<>>
         /\ \A i, j \in DOMAIN r.blocks :
              i # j => Cells(r.blocks[i]) \cap Cells(r.blocks[j]) = {}
         /\ \A i \in DOMAIN r.blocks : r.blocks[i].at + TxHeader <= TxSize
<1>1. PICK N \in Nat : N = Len(r.blocks) /\ DOMAIN r.blocks = 1..N
  BY LenProperties DEF Rings
<1>2. PICK s \in Positions, e \in Positions : s = r.start /\ e = r.end
  BY DEF Rings
<1>3. \A i \in 1..N : r.blocks[i] \in Blocks
  BY <1>1 DEF Rings
<1>4. ASSUME NEW i \in 1..N
      PROVE  /\ r.blocks[i].at \in Positions /\ r.blocks[i].next \in Positions
             /\ r.blocks[i].len \in Nat \ {0}
             /\ Dist(s, r.blocks[i].at) \in Nat
             /\ Dist(s, r.blocks[i].at) + r.blocks[i].len <= Dist(s, r.blocks[i].next)
             /\ Dist(s, r.blocks[i].next) <= Dist(s, e)
             /\ Dist(s, r.blocks[i].next) \in Nat /\ Dist(s, r.blocks[i].next) < TxSize
  <2>1. r.blocks[i].at \in Positions /\ r.blocks[i].next \in Positions
        /\ r.blocks[i].len \in Nat \ {0}
    BY <1>3 DEF Blocks
  <2> QED
    BY <1>1, <1>2, <2>1, DistType DEF InRow
<1>5. r.start = r.end <=> r.blocks = <<>>
  <2>1. ASSUME r.blocks # <<>>, s = e PROVE FALSE
    <3>1. N \in 1..N
      BY <1>1, <2>1, EmptySeq DEF Rings
    <3>2. Dist(s, e) = 0
      BY <2>1, DistType
    <3> QED
      BY <1>4, <3>1, <3>2
  <2> QED
    BY <1>2, <2>1 DEF InRow
<1>6. \A i \in 1..N : r.blocks[i].at + TxHeader <= TxSize
  <2>1. ASSUME NEW i \in 1..N PROVE r.blocks[i].at + TxHeader <= TxSize
    <3>1. r.blocks[i].at \in Positions
      BY <1>4
    <3> QED
      BY <3>1, TxAssumption DEF Positions
  <2> QED
    BY <2>1
<1>7. ASSUME NEW i \in 1..N, NEW c \in Cells(r.blocks[i])
      PROVE  \E d \in Nat : /\ Dist(s, r.blocks[i].at) <= d
                            /\ d < Dist(s, r.blocks[i].at) + r.blocks[i].len
                            /\ c = IF s + d < TxSize THEN s + d ELSE s + d - TxSize
  <2>1. PICK at \in Positions, len \in Nat \ {0} : at = r.blocks[i].at /\ len = r.blocks[i].len
    BY <1>4
  <2>2. PICK k \in 0..len - 1 : c = (at + k) % TxSize
    BY <1>7, <2>1 DEF Cells
  <2>3. /\ TxSize \in Nat /\ TxSize > 0 /\ s < TxSize /\ s \in Nat /\ at < TxSize /\ at \in Nat
        /\ len < TxSize
    BY <1>4, <2>1, TxAssumption DEF Positions
  <2>4. PICK x \in Int : x = at + k
    BY <2>3
  <2>5. 0 - 2 * TxSize <= x /\ x < 3 * TxSize
    BY <2>3, <2>4
  <2>6. x % TxSize = IF x < 0 - TxSize THEN x + 2 * TxSize ELSE IF x < 0 THEN x + TxSize
          ELSE IF x < TxSize THEN x ELSE IF x < 2 * TxSize THEN x - TxSize
          ELSE x - 2 * TxSize
    BY <2>3, <2>5, Wraps
  <2>7. x % TxSize = IF x < TxSize THEN x ELSE x - TxSize
    BY <2>3, <2>4, <2>6
  <2>8. c = IF x < TxSize THEN x ELSE x - TxSize
    BY <2>2, <2>4, <2>7, Zenon
  <2>9. /\ Dist(s, at) + k \in Nat
        /\ c = IF s + (Dist(s, at) + k) < TxSize THEN s + (Dist(s, at) + k)
               ELSE s + (Dist(s, at) + k) - TxSize
    <3>1. Dist(s, at) + len < TxSize
      BY <1>4, <2>1, <2>3
    <3>2. CASE s <= at
      <4>1. Dist(s, at) = at - s
        BY <3>2 DEF Dist
      <4> QED
        BY <2>3, <2>4, <2>8, <3>2, <4>1
    <3>3. CASE ~(s <= at)
      <4>1. Dist(s, at) = at - s + TxSize
        BY <3>3 DEF Dist
      <4> QED
        BY <2>3, <2>4, <2>8, <3>1, <3>3, <4>1
    <3> QED
      BY <3>2, <3>3
  <2> QED
    BY <1>4, <2>1, <2>9
<1>8. ASSUME NEW i \in 1..N, NEW j \in 1..N, i < j
      PROVE  Cells(r.blocks[i]) \cap Cells(r.blocks[j]) = {}
  <2>1. SUFFICES ASSUME NEW c, c \in Cells(r.blocks[i]), c \in Cells(r.blocks[j]) PROVE FALSE
    OBVIOUS
  <2>2. PICK d \in Nat : /\ Dist(s, r.blocks[i].at) <= d
                         /\ d < Dist(s, r.blocks[i].at) + r.blocks[i].len
                         /\ c = IF s + d < TxSize THEN s + d ELSE s + d - TxSize
    BY <1>7, <2>1
  <2>3. PICK f \in Nat : /\ Dist(s, r.blocks[j].at) <= f
                         /\ f < Dist(s, r.blocks[j].at) + r.blocks[j].len
                         /\ c = IF s + f < TxSize THEN s + f ELSE s + f - TxSize
    BY <1>7, <2>1
  <2>4. Dist(s, r.blocks[i].next) <= Dist(s, r.blocks[j].at)
    BY <1>1, <1>2, <1>8 DEF InRow
  <2>5. d < f /\ f < TxSize
    BY <1>4, <2>2, <2>3, <2>4, TxAssumption
  <2> QED
    BY <2>2, <2>3, <2>5, TxAssumption DEF Positions
<1>9. ASSUME NEW i \in 1..N, NEW j \in 1..N, i # j
      PROVE  Cells(r.blocks[i]) \cap Cells(r.blocks[j]) = {}
  <2>1. i < j \/ j < i
    BY <1>9
  <2> QED
    BY <1>8, <2>1
<1> QED
  BY <1>1, <1>5, <1>6, <1>9

\* The loop of mon_ethwstrt() stays where each of its rounds stays.
LEMMA TakenStays ==
  ASSUME NEW queue \in Seq(FrameLens), NEW r, NEW S,
         [ring |-> r, left |-> <<>>, tight |-> FALSE] \in S,
         \A s \in S, n \in FrameLens : Considered(s, n) \in S
  PROVE  Taken(queue, r) \in S
<1> DEFINE N == Len(queue)
           base == [ring |-> r, left |-> <<>>, tight |-> FALSE]
           step == [n \in 1..N |-> [s \in S |-> Considered(s, queue[n])]]
<1>1. N \in Nat /\ \A n \in 1..N : queue[n] \in FrameLens
  BY LenProperties
<1>2. step \in [1..N -> [S -> S]]
  <2>1. \A n \in 1..N, s \in S : Considered(s, queue[n]) \in S
    BY <1>1
  <2> QED
    BY <2>1
<1>3. base \in S
  OBVIOUS
<1>4. \A n \in 1..N : \A s \in S : step[n][s] = Considered(s, queue[n])
  OBVIOUS
<1> HIDE DEF step, base, N
<1>5. \E f : Iterates(f, N, S, base, step)
  BY <1>1, <1>2, <1>3, RecursionExists
<1>6. PICK f \in [0..N -> S] : f[0] = base /\ \A n \in 1..N : f[n] = step[n][f[n - 1]]
  BY <1>5 DEF Iterates
<1>7. ASSUME NEW n \in 1..N PROVE f[n] = Considered(f[n - 1], queue[n])
  <2>1. f[n - 1] \in S
    BY <1>1, <1>6
  <2> QED
    BY <1>4, <1>6, <2>1
<1>8. f = [n \in 0..N |-> IF n = 0 THEN base ELSE Considered(f[n - 1], queue[n])]
  BY <1>1, <1>6, <1>7
<1> DEFINE g == CHOOSE h :
             h = [n \in 0..N |-> IF n = 0 THEN base ELSE Considered(h[n - 1], queue[n])]
<1>9. g = [n \in 0..N |-> IF n = 0 THEN base ELSE Considered(g[n - 1], queue[n])]
  BY <1>8
<1>10. Taken(queue, r) = g[N]
  BY Zenon DEF Taken, N, base
<1> HIDE DEF g
<1>11. \A n \in 0..N : g[n] = f[n]
  <2> DEFINE T == {n \in 0..N : g[n] = f[n]}
  <2>1. 0 \in T
    BY <1>1, <1>6, <1>9
  <2>2. ASSUME NEW n \in 1..N, n - 1 \in T PROVE n \in T
    <3>0. n \in 0..N /\ n # 0
      BY <1>1
    <3>1. g[n] = Considered(g[n - 1], queue[n])
      BY <1>9, <3>0, Zenon
    <3>2. g[n - 1] = f[n - 1]
      BY <2>2
    <3> QED
      BY <1>7, <3>0, <3>1, <3>2
  <2> HIDE DEF T
  <2>3. \A n \in 0..N : n \in T
    BY <1>1, <2>1, <2>2, UpTo
  <2> QED
    BY <2>3 DEF T
<1>12. N \in 0..N
  BY <1>1
<1> QED
  BY <1>6, <1>10, <1>11, <1>12

\* What the loop has made of the ring r: it has put unsent blocks behind those
\* of r, and left frames only behind blocks.
Loops == [ring : Rings, left : Seq(FrameLens), tight : BOOLEAN]

Longer(r, q) ==
  /\ q.start = r.start
  /\ Len(q.blocks) >= Len(r.blocks)
  /\ \A i \in 1..Len(r.blocks) : q.blocks[i] = r.blocks[i]
  /\ \A i \in Len(r.blocks) + 1..Len(q.blocks) : ~q.blocks[i].done
  /\ Len(q.blocks) = Len(r.blocks) => q = r

Filled(r, s) ==
  /\ Longer(r, s.ring)
  /\ ~s.tight => InRow(s.ring) /\ (s.left # <<>> => s.ring.blocks # <<>>)

\* A round of the loop.
LEMMA ConsideredFills ==
  ASSUME NEW r \in Rings, NEW s \in Loops, NEW n \in FrameLens, Filled(r, s)
  PROVE  Considered(s, n) \in Loops /\ Filled(r, Considered(s, n))
<1>1. s.ring \in Rings /\ s.left \in Seq(FrameLens) /\ s.tight \in BOOLEAN
  BY DEF Loops
<1> DEFINE fits == s.left = <<>> /\ ~s.tight /\ BlockLen(n) <= Avail(s.ring)
<1>2. CASE fits
  <2>0. Fills(s.ring, n) \in BOOLEAN
    <3>1. \A a, b : (a >= b) \in BOOLEAN
      OBVIOUS
    <3> QED
      BY <3>1, Zenon DEF Fills
  <2>1. PICK c \in Rings, f \in BOOLEAN : c = Chained(s.ring, n) /\ f = Fills(s.ring, n)
    BY <1>1, <2>0, ChainedShape
  <2>2. Considered(s, n) = [s EXCEPT !.ring = c, !.tight = f]
    BY <1>2, <2>1 DEF Considered
  <2>3. Considered(s, n) = [ring |-> c, left |-> s.left, tight |-> f]
    BY <2>2 DEF Loops
  <2>4. Longer(r, c)
    <3>1. PICK M \in Nat, N \in Nat : M = Len(r.blocks) /\ N = Len(s.ring.blocks)
      BY <1>1, LenProperties DEF Rings
    <3>2. /\ c.start = s.ring.start /\ Len(c.blocks) = N + 1
          /\ \A i \in 1..N : c.blocks[i] = s.ring.blocks[i]
      BY <1>1, <2>1, <3>1, ChainedShape
    <3>3. ~c.blocks[N + 1].done
      <4>1. c.blocks[Len(s.ring.blocks) + 1] =
              [at |-> s.ring.end, len |-> BlockLen(n),
               next |-> Advance(s.ring.end, BlockLen(n)), done |-> FALSE, ok |-> TRUE]
        BY <1>1, <2>1, ChainedShape, Zenon
      <4> QED
        BY <3>1, <4>1
    <3>4. /\ s.ring.start = r.start /\ N >= M
          /\ \A i \in 1..M : s.ring.blocks[i] = r.blocks[i]
          /\ \A i \in M + 1..N : ~s.ring.blocks[i].done
      BY <3>1 DEF Filled, Longer
    <3>5. \A i \in 1..M : c.blocks[i] = r.blocks[i]
      BY <3>2, <3>4
    <3>6. ASSUME NEW i \in M + 1..N + 1 PROVE ~c.blocks[i].done
      <4>1. CASE i = N + 1
        BY <3>3, <4>1
      <4>2. CASE i \in M + 1..N
        BY <3>2, <3>4, <4>2
      <4> QED
        BY <4>1, <4>2
    <3> QED
      BY <3>1, <3>2, <3>4, <3>5, <3>6 DEF Longer
  <2>5. ASSUME ~f PROVE InRow(c) /\ s.left = <<>>
    BY <1>1, <1>2, <2>1, <2>5, ChainedInRow DEF Filled
  <2> QED
    BY <1>1, <2>3, <2>4, <2>5 DEF Loops, Filled
<1>3. CASE ~fits
  <2>1. Considered(s, n) = [s EXCEPT !.left = Append(s.left, n)]
    BY <1>3 DEF Considered
  <2>2. PICK left \in Seq(FrameLens) : left = Append(s.left, n)
    BY <1>1, AppendProperties
  <2>3. Considered(s, n) = [ring |-> s.ring, left |-> left, tight |-> s.tight]
    BY <2>1, <2>2 DEF Loops
  <2>4. ASSUME ~s.tight, s.ring.blocks = <<>> PROVE FALSE
    <3>1. s.left = <<>> /\ InRow(s.ring)
      BY <2>4 DEF Filled
    <3>2. s.ring.start = s.ring.end
      BY <2>4, <3>1 DEF InRow
    <3>3. Dist(s.ring.start, s.ring.end) = 0
      BY <1>1, <3>2, DistType DEF Rings
    <3>4. Avail(s.ring) = TxSize
      BY <1>1, <3>3, AvailIs, TxAssumption
    <3>5. BlockLen(n) <= TxSize
      BY BlockLens, TxAssumption
    <3> QED
      BY <1>3, <2>4, <3>1, <3>4, <3>5
  <2> QED
    BY <1>1, <2>3, <2>4 DEF Loops, Filled
<1> QED
  BY <1>2, <1>3

\* The whole loop.
LEMMA TakenFills ==
  ASSUME NEW queue \in Seq(FrameLens), NEW r \in Rings, InRow(r)
  PROVE  Taken(queue, r) \in Loops /\ Filled(r, Taken(queue, r))
<1> DEFINE S == {s \in Loops : Filled(r, s)}
           base == [ring |-> r, left |-> <<>>, tight |-> FALSE]
<1>1. base \in Loops
  BY EmptySeq DEF Loops
<1>2. Len(r.blocks) \in Nat
  BY LenProperties DEF Rings
<1>3. Longer(r, r)
  BY <1>2 DEF Longer
<1>4. Filled(r, base)
  BY <1>3 DEF Filled
<1>5. base \in S
  BY <1>1, <1>4
<1>6. \A s \in S, n \in FrameLens : Considered(s, n) \in S
  BY ConsideredFills
<1> HIDE DEF S
<1>7. Taken(queue, r) \in S
  BY <1>5, <1>6, TakenStays
<1> QED
  BY <1>7 DEF S

\* mon_ethwstrt() by whoever looked at the queue and the ring while no interrupt
\* was being served.
LEMMA EthwstrtKeeps ==
  ASSUME NEW q \in Seq(FrameLens), NEW r \in Rings, NEW halted \in BOOLEAN,
         tx_int \in BOOLEAN, InRow(r), SentInOrder(r),
         halted /\ r.blocks # <<>> => Failed(r),
         r.blocks # <<>> => tx_int \/ (~halted /\ Unsent(r)),
         Ethwstrt(q, r, halted)
  PROVE  /\ outq' \in Seq(FrameLens) /\ ring' \in Rings
         /\ tx_int' \in BOOLEAN /\ stopped' \in BOOLEAN /\ tight' \in BOOLEAN
         /\ ~tight' =>
              /\ InRow(ring') /\ SentInOrder(ring')
              /\ (stopped' /\ ring'.blocks # <<>>) => Failed(ring')
              /\ ring'.blocks # <<>> => (tx_int' \/ (~stopped' /\ Unsent(ring')))
              /\ outq' # <<>> => ring'.blocks # <<>>
<1>1. PICK s \in Loops : s = Taken(q, r) /\ Filled(r, s)
  BY TakenFills
<1>2. PICK M \in Nat, N \in Nat : M = Len(r.blocks) /\ N = Len(s.ring.blocks)
  BY LenProperties DEF Loops, Rings
<1>3. /\ N >= M
      /\ \A i \in 1..M : s.ring.blocks[i] = r.blocks[i]
      /\ \A i \in M + 1..N : ~s.ring.blocks[i].done
      /\ N = M => s.ring = r
  BY <1>1, <1>2 DEF Filled, Longer
<1>4. /\ outq' = s.left /\ ring' = s.ring /\ tight' = s.tight
      /\ tx_int' = (tx_int /\ (N - M = 0 \/ (N - M = 1 /\ r.start = r.end)))
      /\ stopped' = (halted /\ N - M = 0)
  BY <1>1, <1>2, Zenon DEF Ethwstrt
<1>5. /\ outq' \in Seq(FrameLens) /\ ring' \in Rings
      /\ tx_int' \in BOOLEAN /\ stopped' \in BOOLEAN /\ tight' \in BOOLEAN
  <2>1. s.left \in Seq(FrameLens) /\ s.ring \in Rings /\ s.tight \in BOOLEAN
    BY DEF Loops
  <2>2. tx_int' \in BOOLEAN /\ stopped' \in BOOLEAN
    BY <1>4, Zenon
  <2> QED
    BY <1>4, <2>1, <2>2
<1>6. SentInOrder(s.ring)
  <2>1. ASSUME NEW i \in 1..N, NEW j \in 1..N, i < j, s.ring.blocks[j].done
        PROVE  s.ring.blocks[i].done
    <3>1. j \in 1..M
      BY <1>3, <2>1
    <3>2. i \in 1..M
      BY <2>1, <3>1
    <3> QED
      BY <1>2, <1>3, <2>1, <3>1, <3>2 DEF SentInOrder
  <2> QED
    BY <1>2, <2>1 DEF SentInOrder
<1>7. CASE N = M
  <2>1. ring' = r
    BY <1>3, <1>4, <1>7
  <2>2. (tx_int' <=> tx_int) /\ (stopped' <=> halted)
    <3>1. N - M = 0
      BY <1>7
    <3> QED
      BY <1>4, <3>1, Zenon
  <2> QED
    BY <1>1, <1>4, <1>5, <2>1, <2>2 DEF Filled
<1>8. CASE N # M
  <2>1. N - M # 0 /\ N \in M + 1..N
    BY <1>3, <1>8
  <2>2. ~stopped'
    BY <1>4, <2>1, Zenon
  <2>3. Unsent(s.ring)
    <3>1. ~s.ring.blocks[N].done
      BY <1>3, <2>1
    <3>2. N \in 1..N
      BY <2>1
    <3> QED
      BY <1>2, <3>1, <3>2 DEF Unsent
  <2> QED
    BY <1>1, <1>4, <1>5, <1>6, <2>2, <2>3 DEF Filled
<1> QED
  BY <1>7, <1>8

\* The blocks the interrupt finds done.
LEMMA DoneIs ==
  ASSUME ring \in Rings
  PROVE  /\ Done \in 0..Len(ring.blocks)
         /\ \A i \in 1..Done : ring.blocks[i].done
         /\ Done < Len(ring.blocks) => ~ring.blocks[Done + 1].done
<1>1. PICK N \in Nat : N = Len(ring.blocks) /\ DOMAIN ring.blocks = 1..N
  BY LenProperties DEF Rings
<1> DEFINE S == {0} \cup {i \in 1..N : \A j \in 1..i : ring.blocks[j].done}
<1>2. Done = Max(S)
  BY <1>1 DEF Done
<1>3. S \in SUBSET Int /\ S # {} /\ N \in Int /\ \A y \in S : y <= N
  OBVIOUS
<1> HIDE DEF S
<1>4. PICK d : d = Max(S)
  OBVIOUS
<1>5. d \in S /\ \A y \in S : y <= d
  BY <1>3, <1>4, MaxOfBounded
<1>6. d \in 0..N /\ \A i \in 1..d : ring.blocks[i].done
  BY <1>5 DEF S
<1>7. ASSUME d < N, ring.blocks[d + 1].done PROVE FALSE
  <2>1. d + 1 \in 1..N /\ \A j \in 1..d + 1 : j = d + 1 \/ j \in 1..d
    BY <1>6, <1>7
  <2>2. \A j \in 1..d + 1 : ring.blocks[j].done
    BY <1>6, <1>7, <2>1
  <2>3. d + 1 \in S
    BY <2>1, <2>2 DEF S
  <2> QED
    BY <1>5, <1>6, <2>3
<1> QED
  BY <1>1, <1>2, <1>4, <1>6, <1>7

\* The interrupt moves the start of the ring past blocks that are done.
LEMMA ReclaimedInRow ==
  ASSUME ring \in Rings, InRow(ring), NEW n \in 0..Len(ring.blocks)
  PROVE  /\ Reclaimed(n) \in Rings /\ InRow(Reclaimed(n))
         /\ Reclaimed(n).end = ring.end
         /\ Len(Reclaimed(n).blocks) = Len(ring.blocks) - n
         /\ \A i \in 1..Len(ring.blocks) - n : Reclaimed(n).blocks[i] = ring.blocks[n + i]
<1>1. PICK N \in Nat : N = Len(ring.blocks)
  BY LenProperties DEF Rings
<1>2. \A i \in 1..N : ring.blocks[i] \in Blocks
  BY <1>1 DEF Rings
<1>3. PICK s \in Positions, e \in Positions : s = ring.start /\ e = ring.end
  BY DEF Rings
<1>4. n \in 0..N
  BY <1>1
<1>5. PICK t : t = IF n = 0 THEN s ELSE ring.blocks[n].next
  OBVIOUS
<1>6. t \in Positions
  <2>1. CASE n = 0
    BY <1>5, <2>1
  <2>2. CASE n # 0
    <3>1. ring.blocks[n] \in Blocks
      BY <1>2, <1>4, <2>2
    <3> QED
      BY <1>5, <2>2, <3>1 DEF Blocks
  <2> QED
    BY <2>1, <2>2
<1>7. PICK bs : bs = SubSeq(ring.blocks, n + 1, N)
  OBVIOUS
<1>8. /\ bs \in Seq(Blocks) /\ Len(bs) = N - n
      /\ \A i \in 1..N - n : bs[i] = ring.blocks[n + i]
  <2>1. n + 1 \in Int /\ N \in Int /\ \A i \in n + 1..N : ring.blocks[i] \in Blocks
    BY <1>2, <1>4
  <2>2. /\ bs \in Seq(Blocks)
        /\ Len(bs) = IF n + 1 <= N THEN N - (n + 1) + 1 ELSE 0
        /\ \A i \in 1..N - (n + 1) + 1 : bs[i] = ring.blocks[n + 1 + i - 1]
    BY <1>7, <2>1, SubSeqProperties
  <2>3. Len(bs) = N - n
    BY <1>4, <2>2
  <2>4. ASSUME NEW i \in 1..N - n PROVE bs[i] = ring.blocks[n + i]
    <3>1. i \in 1..N - (n + 1) + 1 /\ n + 1 + i - 1 = n + i
      BY <1>4
    <3> QED
      BY <2>2, <3>1
  <2> QED
    BY <2>2, <2>3, <2>4
<1>9. Reclaimed(n) = [start |-> t, end |-> e, blocks |-> bs]
  BY <1>1, <1>3, <1>5, <1>7 DEF Reclaimed
<1>10. Reclaimed(n) \in Rings
  BY <1>6, <1>8, <1>9 DEF Rings
<1>11. /\ \A i \in 1..N :
            /\ Dist(s, ring.blocks[i].at) + ring.blocks[i].len <= Dist(s, ring.blocks[i].next)
            /\ Dist(s, ring.blocks[i].next) <= Dist(s, e)
       /\ \A i, j \in 1..N :
            i < j => Dist(s, ring.blocks[i].next) <= Dist(s, ring.blocks[j].at)
       /\ N = 0 => s = e
       /\ N # 0 => ring.blocks[N].next = e
  <2>1. ring.blocks = <<>> <=> N = 0
    BY <1>1, EmptySeq DEF Rings
  <2> QED
    BY <1>1, <1>3, <2>1 DEF InRow
<1>12. /\ Dist(s, t) \in Nat /\ Dist(s, e) \in Nat /\ Dist(s, t) <= Dist(s, e)
       /\ \A i \in n + 1..N : Dist(s, t) <= Dist(s, ring.blocks[i].at)
  <2>1. Dist(s, t) \in Nat /\ Dist(s, e) \in Nat
    BY <1>6, DistType
  <2>2. ASSUME NEW i \in n + 1..N PROVE Dist(s, ring.blocks[i].at) \in Nat
    <3>1. i \in 1..N
      BY <1>4
    <3>2. ring.blocks[i].at \in Positions
      BY <1>2, <3>1 DEF Blocks
    <3> QED
      BY <3>2, DistType
  <2>3. CASE n = 0
    <3>1. Dist(s, t) = 0
      BY <1>5, <2>3, DistType
    <3> QED
      BY <2>1, <2>2, <3>1
  <2>4. CASE n # 0
    <3>1. n \in 1..N /\ \A i \in n + 1..N : i \in 1..N /\ n < i
      BY <1>4, <2>4
    <3>2. t = ring.blocks[n].next
      BY <1>5, <2>4
    <3> QED
      BY <1>11, <2>1, <3>1, <3>2
  <2> QED
    BY <2>3, <2>4
<1>13. Dist(t, e) = Dist(s, e) - Dist(s, t)
  BY <1>6, <1>12, DistShifts
<1>14. ASSUME NEW i \in 1..N - n
       PROVE  /\ n + i \in n + 1..N /\ n + i \in 1..N
              /\ bs[i].at \in Positions /\ bs[i].next \in Positions /\ bs[i].len \in Nat
              /\ Dist(s, bs[i].at) \in Nat /\ Dist(s, bs[i].next) \in Nat
              /\ Dist(t, bs[i].at) = Dist(s, bs[i].at) - Dist(s, t)
              /\ Dist(t, bs[i].next) = Dist(s, bs[i].next) - Dist(s, t)
              /\ Dist(s, bs[i].at) + bs[i].len <= Dist(s, bs[i].next)
              /\ Dist(s, bs[i].next) <= Dist(s, e)
  <2>1. n + i \in n + 1..N /\ n + i \in 1..N /\ bs[i] = ring.blocks[n + i]
    BY <1>4, <1>8
  <2>2. bs[i].at \in Positions /\ bs[i].next \in Positions /\ bs[i].len \in Nat
    BY <1>2, <2>1 DEF Blocks
  <2>3. Dist(s, bs[i].at) \in Nat /\ Dist(s, bs[i].next) \in Nat
    BY <2>2, DistType
  <2>4. /\ Dist(s, bs[i].at) + bs[i].len <= Dist(s, bs[i].next)
        /\ Dist(s, bs[i].next) <= Dist(s, e)
    BY <1>11, <2>1
  <2>5. Dist(s, t) <= Dist(s, bs[i].at)
    BY <1>12, <2>1
  <2>6. Dist(s, t) <= Dist(s, bs[i].next)
    BY <1>12, <2>2, <2>3, <2>4, <2>5
  <2>7. Dist(t, bs[i].at) = Dist(s, bs[i].at) - Dist(s, t)
    BY <1>6, <2>2, <2>5, DistShifts
  <2>8. Dist(t, bs[i].next) = Dist(s, bs[i].next) - Dist(s, t)
    BY <1>6, <2>2, <2>6, DistShifts
  <2> QED
    BY <2>1, <2>2, <2>3, <2>4, <2>7, <2>8
<1>15. ASSUME NEW i \in 1..N - n
       PROVE  /\ Dist(t, bs[i].at) + bs[i].len <= Dist(t, bs[i].next)
              /\ Dist(t, bs[i].next) <= Dist(t, e)
  <2>1. PICK a \in Nat, b \in Nat, c \in Nat, d \in Nat, len \in Nat :
          /\ a = Dist(s, bs[i].at) /\ b = Dist(s, bs[i].next) /\ c = Dist(s, e)
          /\ d = Dist(s, t) /\ len = bs[i].len
    BY <1>12, <1>14
  <2>2. /\ a + len <= b /\ b <= c /\ Dist(t, bs[i].at) = a - d /\ Dist(t, bs[i].next) = b - d
        /\ Dist(t, e) = c - d
    BY <1>13, <1>14, <2>1
  <2>3. (a - d) + len <= b - d /\ b - d <= c - d
    BY <2>2
  <2> QED
    BY <2>1, <2>2, <2>3, Zenon
<1>16. ASSUME NEW i \in 1..N - n, NEW j \in 1..N - n, i < j
       PROVE  Dist(t, bs[i].next) <= Dist(t, bs[j].at)
  <2>1. n + i \in 1..N /\ n + j \in 1..N /\ n + i < n + j
    BY <1>4, <1>16
  <2>2. Dist(s, bs[i].next) <= Dist(s, bs[j].at)
    BY <1>8, <1>11, <2>1
  <2>3. PICK a \in Nat, b \in Nat, d \in Nat :
          a = Dist(s, bs[i].next) /\ b = Dist(s, bs[j].at) /\ d = Dist(s, t)
    BY <1>12, <1>14
  <2>4. a <= b /\ Dist(t, bs[i].next) = a - d /\ Dist(t, bs[j].at) = b - d
    BY <1>14, <2>2, <2>3
  <2> QED
    BY <2>3, <2>4
<1>17. bs = <<>> => t = e
  <2>1. ASSUME bs = <<>> PROVE n = N
    BY <1>4, <1>8, <2>1
  <2> QED
    BY <1>4, <1>5, <1>11, <2>1
<1>18. bs # <<>> => bs[Len(bs)].next = e
  <2>1. ASSUME bs # <<>> PROVE N - n \in 1..N - n /\ N # 0
    BY <1>4, <1>8, <2>1, EmptySeq
  <2>2. n + (N - n) = N
    BY <1>4
  <2> QED
    BY <1>8, <1>11, <2>1, <2>2
<1>19. InRow(Reclaimed(n))
  BY <1>8, <1>9, <1>15, <1>16, <1>17, <1>18 DEF InRow
<1> QED
  BY <1>1, <1>3, <1>8, <1>9, <1>10, <1>19

\* The interrupt starts the adapter again where a block has failed and another
\* one is behind it.
LEMMA RestartedIs ==
  ASSUME ring \in Rings, InRow(ring), SentInOrder(ring),
         stopped /\ ring.blocks # <<>> => Failed(ring),
         stopped, ~Restarted(Done)
  PROVE  Reclaimed(Done).blocks = <<>>
<1>1. PICK n \in 0..Len(ring.blocks) : n = Done
  BY DoneIs
<1>2. PICK r : r = Reclaimed(n)
  OBVIOUS
<1>3. /\ r \in Rings /\ InRow(r) /\ r.end = ring.end
      /\ Len(r.blocks) = Len(ring.blocks) - n
      /\ \A i \in 1..Len(ring.blocks) - n : r.blocks[i] = ring.blocks[n + i]
  BY <1>2, ReclaimedInRow
<1>4. PICK N \in Nat : N = Len(ring.blocks)
  BY LenProperties DEF Rings
<1>5. /\ \A i \in 1..n : ring.blocks[i].done
      /\ n < N => ~ring.blocks[n + 1].done
  BY <1>1, <1>4, DoneIs
<1>6. SUFFICES ASSUME r.blocks # <<>> PROVE FALSE
  BY <1>1, <1>2
<1>7. r.start # r.end
  BY <1>3, <1>6, RowApart
<1>8. n < N
  <2>1. Len(r.blocks) # 0
    BY <1>3, <1>6, EmptySeq DEF Rings
  <2> QED
    BY <1>3, <1>4, <2>1
<1>9. ring.blocks # <<>>
  BY <1>4, <1>8
<1>10. PICK i \in 1..N : ring.blocks[i].done /\ ~ring.blocks[i].ok
  BY <1>4, <1>9 DEF Failed
<1>11. i \in 1..n
  <2>1. ASSUME i > n + 1 PROVE FALSE
    <3>1. n + 1 \in 1..N /\ n + 1 < i
      BY <1>8, <2>1
    <3>2. ring.blocks[n + 1].done
      BY <1>4, <1>10, <3>1 DEF SentInOrder
    <3> QED
      BY <1>5, <1>8, <3>2
  <2>2. i # n + 1
    BY <1>5, <1>8, <1>10
  <2> QED
    BY <2>1, <2>2
<1>12. Restarted(n)
  BY <1>2, <1>3, <1>7, <1>10, <1>11 DEF Restarted
<1> QED
  BY <1>1, <1>12

\* The interrupt.
LEMMA OutInvXintr == OutInv /\ Xintr => OutInv'
<1> SUFFICES ASSUME OutInv, Xintr PROVE OutInv'
  OBVIOUS
<1>1. /\ in_xintr /\ ~tight /\ in_xintr' = FALSE /\ writing' = writing
      /\ Ethwstrt(outq, Reclaimed(Done), stopped /\ ~Restarted(Done))
  BY DEF OutInv, Xintr
<1>2. /\ outq \in Seq(FrameLens) /\ ring \in Rings /\ tx_int \in BOOLEAN /\ writing \in BOOLEAN
      /\ InRow(ring) /\ SentInOrder(ring)
      /\ stopped /\ ring.blocks # <<>> => Failed(ring)
  BY <1>1 DEF OutInv
<1>3. PICK n \in 0..Len(ring.blocks) : n = Done
  BY <1>2, DoneIs
<1>4. PICK r : r = Reclaimed(n)
  OBVIOUS
<1>5. PICK halted \in BOOLEAN : halted = (stopped /\ ~Restarted(n))
  BY Zenon
<1>6. PICK N \in Nat : N = Len(ring.blocks)
  BY <1>2, LenProperties DEF Rings
<1>7. /\ r \in Rings /\ InRow(r)
      /\ Len(r.blocks) = N - n /\ \A i \in 1..N - n : r.blocks[i] = ring.blocks[n + i]
  BY <1>2, <1>4, <1>6, ReclaimedInRow
<1>8. SentInOrder(r)
  <2>1. ASSUME NEW i \in 1..N - n, NEW j \in 1..N - n, i < j, r.blocks[j].done
        PROVE  r.blocks[i].done
    <3>1. n + i \in 1..N /\ n + j \in 1..N /\ n + i < n + j
      BY <1>6, <2>1
    <3> QED
      BY <1>2, <1>6, <1>7, <2>1, <3>1 DEF SentInOrder
  <2> QED
    BY <1>7, <2>1 DEF SentInOrder
<1>9. halted => r.blocks = <<>>
  BY <1>2, <1>3, <1>4, <1>5, RestartedIs
<1>10. r.blocks # <<>> => Unsent(r)
  <2>1. ASSUME r.blocks # <<>> PROVE Unsent(r)
    <3>1. Len(r.blocks) # 0
      BY <1>7, <2>1, EmptySeq DEF Rings
    <3>2. n < N /\ 1 \in 1..N - n
      BY <1>6, <1>7, <3>1
    <3>3. ~ring.blocks[n + 1].done
      BY <1>2, <1>3, <1>6, <3>2, DoneIs
    <3> QED
      BY <1>7, <3>2, <3>3 DEF Unsent
  <2> QED
    BY <2>1
<1>11. Ethwstrt(outq, r, halted)
  BY <1>1, <1>3, <1>4, <1>5, Zenon
<1>12. /\ outq' \in Seq(FrameLens) /\ ring' \in Rings
       /\ tx_int' \in BOOLEAN /\ stopped' \in BOOLEAN /\ tight' \in BOOLEAN
       /\ ~tight' =>
            /\ InRow(ring') /\ SentInOrder(ring')
            /\ (stopped' /\ ring'.blocks # <<>>) => Failed(ring')
            /\ ring'.blocks # <<>> => (tx_int' \/ (~stopped' /\ Unsent(ring')))
            /\ outq' # <<>> => ring'.blocks # <<>>
  BY <1>2, <1>7, <1>8, <1>9, <1>10, <1>11, EthwstrtKeeps
<1> QED
  BY <1>1, <1>2, <1>12 DEF OutInv, InRow, SentInOrder, Failed, Unsent

\* The driver outside of the interrupt.
LEMMA OutInvStarts ==
  ASSUME OutInv, ~tight, ~in_xintr, NEW q \in Seq(FrameLens), Ethwstrt(q, ring, stopped),
         in_xintr' = in_xintr, writing' \in BOOLEAN
  PROVE  OutInv'
<1>1. /\ ring \in Rings /\ tx_int \in BOOLEAN /\ stopped \in BOOLEAN
      /\ InRow(ring) /\ SentInOrder(ring)
      /\ (stopped /\ ring.blocks # <<>>) => Failed(ring)
      /\ ring.blocks # <<>> => (tx_int \/ (~stopped /\ Unsent(ring)))
  BY DEF OutInv
<1>2. /\ outq' \in Seq(FrameLens) /\ ring' \in Rings
      /\ tx_int' \in BOOLEAN /\ stopped' \in BOOLEAN /\ tight' \in BOOLEAN
      /\ ~tight' =>
           /\ InRow(ring') /\ SentInOrder(ring')
           /\ (stopped' /\ ring'.blocks # <<>>) => Failed(ring')
           /\ ring'.blocks # <<>> => (tx_int' \/ (~stopped' /\ Unsent(ring')))
           /\ outq' # <<>> => ring'.blocks # <<>>
  BY <1>1, EthwstrtKeeps
<1> QED
  BY <1>2 DEF OutInv, InRow, SentInOrder, Failed, Unsent

\* The queue with or without another frame.
LEMMA EnqType ==
  ASSUME outq \in Seq(FrameLens), NEW n \in FrameLens
  PROVE  Enq(n) \in Seq(FrameLens)
BY AppendProperties DEF Enq

\* The adapter.
LEMMA OutInvTransmitted ==
  ASSUME OutInv, NEW good \in BOOLEAN, Transmitted(good)
  PROVE  OutInv'
<1>1. /\ ring \in Rings /\ ~tight /\ ~stopped /\ InRow(ring) /\ SentInOrder(ring)
      /\ outq # <<>> => (writing \/ ring.blocks # <<>>)
  BY DEF OutInv, Transmitted
<1>2. PICK N \in Nat : N = Len(ring.blocks) /\ DOMAIN ring.blocks = 1..N
  BY <1>1, LenProperties DEF Rings
<1>3. PICK i \in 1..N :
        /\ ~ring.blocks[i].done /\ \A j \in 1..i - 1 : ring.blocks[j].done
        /\ ring' = [ring EXCEPT !.blocks[i].done = TRUE, !.blocks[i].ok = good]
  BY <1>2 DEF Transmitted
<1>4. PICK b \in Blocks : b = ring.blocks[i]
  BY <1>1, <1>2 DEF Rings
<1>5. PICK c : c = [b EXCEPT !.done = TRUE, !.ok = good]
  OBVIOUS
<1>6. c \in Blocks /\ c.at = b.at /\ c.len = b.len /\ c.next = b.next /\ c.done /\ c.ok = good
  BY <1>5 DEF Blocks
<1>7. ring.blocks \in Seq(Blocks)
  BY <1>1 DEF Rings
<1>8. PICK bs : bs = [ring.blocks EXCEPT ![i] = c]
  OBVIOUS
<1>9. /\ bs \in Seq(Blocks) /\ Len(bs) = N /\ bs[i] = c
      /\ \A j \in 1..N : j # i => bs[j] = ring.blocks[j]
  BY <1>2, <1>6, <1>7, <1>8, ExceptSeq
<1>10. ring' = [start |-> ring.start, end |-> ring.end, blocks |-> bs]
  <2>1. ring' = [ring EXCEPT !.blocks = [ring.blocks EXCEPT ![i] = [ring.blocks[i] EXCEPT !.done = TRUE, !.ok = good]]]
    BY <1>1, <1>2, <1>3, <1>7 DEF Rings
  <2>2. ring' = [ring EXCEPT !.blocks = bs]
    BY <1>4, <1>5, <1>8, <2>1
  <2> QED
    BY <1>1, <2>2 DEF Rings
<1>11. ring' \in Rings
  BY <1>1, <1>9, <1>10 DEF Rings
<1>12. \A j \in 1..N : /\ bs[j].at = ring.blocks[j].at /\ bs[j].len = ring.blocks[j].len
                       /\ bs[j].next = ring.blocks[j].next
  BY <1>4, <1>6, <1>9
<1>13. bs = <<>> <=> ring.blocks = <<>>
  BY <1>2, <1>7, <1>9, EmptySeq
<1>14. N \in 1..N
  OBVIOUS
<1>15. InRow(ring')
  <2>1. /\ bs = <<>> => ring.start = ring.end
        /\ bs # <<>> => bs[N].next = ring.end
        /\ \A k \in 1..N :
             /\ Dist(ring.start, bs[k].at) + bs[k].len <= Dist(ring.start, bs[k].next)
             /\ Dist(ring.start, bs[k].next) <= Dist(ring.start, ring.end)
        /\ \A k, j \in 1..N :
             k < j => Dist(ring.start, bs[k].next) <= Dist(ring.start, bs[j].at)
    BY <1>1, <1>2, <1>12, <1>13, <1>14 DEF InRow
  <2> QED
    BY <1>9, <1>10, <2>1 DEF InRow
<1>16. SentInOrder(ring')
  <2>1. ASSUME NEW k \in 1..N, NEW j \in 1..N, k < j, bs[j].done PROVE bs[k].done
    <3>1. CASE k = i
      BY <1>6, <1>9, <3>1
    <3>2. CASE k # i /\ j = i
      <4>1. k \in 1..i - 1
        BY <2>1, <3>2
      <4> QED
        BY <1>3, <1>9, <3>2, <4>1
    <3>3. CASE k # i /\ j # i
      BY <1>1, <1>2, <1>9, <2>1, <3>3 DEF SentInOrder
    <3> QED
      BY <3>1, <3>2, <3>3
  <2> QED
    BY <1>9, <1>10, <2>1 DEF SentInOrder
<1>17. /\ tx_int' = TRUE /\ stopped' = ~good /\ outq' = outq /\ writing' = writing
       /\ in_xintr' = in_xintr /\ tight' = tight
  BY DEF Transmitted
<1>18. stopped' => Failed(ring')
  BY <1>6, <1>9, <1>10, <1>17 DEF Failed
<1>19. outq' # <<>> => (writing' \/ ring'.blocks # <<>>)
  BY <1>1, <1>10, <1>13, <1>17
<1> QED
  BY <1>11, <1>15, <1>16, <1>17, <1>18, <1>19 DEF OutInv, InRow, SentInOrder, Failed, Unsent

\* At first the ring and the queue are empty.
LEMMA OutInvInit == OutInit => OutInv
<1> SUFFICES ASSUME OutInit PROVE OutInv
  OBVIOUS
<1>1. 0 \in Positions
  BY TxAssumption DEF Positions
<1>2. ring.blocks = <<>> /\ ring.start = 0 /\ ring.end = 0 /\ Len(ring.blocks) = 0
  BY DEF OutInit
<1>3. ring \in Rings /\ outq \in Seq(FrameLens)
  BY <1>1, EmptySeq DEF OutInit, Rings
<1>4. InRow(ring) /\ SentInOrder(ring)
  BY <1>2 DEF InRow, SentInOrder
<1> QED
  BY <1>2, <1>3, <1>4 DEF OutInit, OutInv

\* Every step keeps the blocks in a row and somebody who looks after them.
LEMMA OutInvNext == OutInv /\ [OutNext]_outVars => OutInv'
<1> SUFFICES ASSUME OutInv, [OutNext]_outVars PROVE OutInv'
  OBVIOUS
<1>0. outq \in Seq(FrameLens)
  BY DEF OutInv
<1>1. CASE UNCHANGED outVars
  BY <1>1 DEF OutInv, outVars, InRow, SentInOrder, Failed, Unsent
<1>2. ASSUME NEW n \in FrameLens, MainEnqueues(n) PROVE OutInv'
  <2>1. /\ outq' \in Seq(FrameLens) /\ writing' = TRUE /\ ~tight
        /\ ring' = ring /\ tx_int' = tx_int /\ stopped' = stopped
        /\ in_xintr' = in_xintr /\ tight' = tight
    BY <1>0, <1>2, EnqType DEF MainEnqueues
  <2> QED
    BY <2>1 DEF OutInv, InRow, SentInOrder, Failed, Unsent
<1>3. ASSUME NEW n \in FrameLens, InterruptWrites(n) PROVE OutInv'
  <2>1. /\ ~tight /\ ~in_xintr /\ Ethwstrt(Enq(n), ring, stopped)
        /\ in_xintr' = in_xintr /\ writing' \in BOOLEAN
    BY <1>3 DEF InterruptWrites, OutInv
  <2> QED
    BY <1>0, <1>3, <2>1, EnqType, OutInvStarts
<1>4. CASE MainStarts
  <2>1. /\ ~tight /\ ~in_xintr /\ Ethwstrt(outq, ring, stopped)
        /\ in_xintr' = in_xintr /\ writing' \in BOOLEAN
    BY <1>4 DEF MainStarts
  <2> QED
    BY <1>0, <2>1, OutInvStarts
<1>5. CASE Acknowledge
  <2>1. /\ ~tight /\ tx_int' = FALSE /\ in_xintr' = TRUE
        /\ outq' = outq /\ ring' = ring /\ stopped' = stopped
        /\ writing' = writing /\ tight' = tight
    BY <1>5 DEF Acknowledge
  <2> QED
    BY <2>1 DEF OutInv, InRow, SentInOrder, Failed, Unsent
<1>6. CASE Xintr
  BY <1>6, OutInvXintr
<1>7. ASSUME NEW good \in BOOLEAN, Transmitted(good) PROVE OutInv'
  BY <1>7, OutInvTransmitted
<1> QED
  BY <1>1, <1>2, <1>3, <1>4, <1>5, <1>6, <1>7 DEF OutNext

\* No two blocks in the memory of the adapter overlap, for rings of any size and
\* frames of any lengths that fit, until one fills the ring to its last word
\* (mon/ethwstrt.c, the loop of eep_xintr()).
THEOREM BlocksAreApart == OutSpec => []BlocksApart
<1>1. OutInv => BlocksApart
  BY RowApart DEF OutInv, BlocksApart
<1> QED
  BY <1>1, OutInvInit, OutInvNext, PTL DEF OutSpec

\* mon_ethwstrt() clears the transmit interrupt, and no frame is forgotten by it
\* (mon/ethwstrt.c, mon/ethintr.c).
THEOREM FramesGoOn == OutSpec => []FramesNotStranded
<1>1. ASSUME OutInv PROVE FramesNotStranded
  <2>1. ASSUME Unsent(ring) PROVE \E i \in DOMAIN ring.blocks : ~ring.blocks[i].done
    <3>1. DOMAIN ring.blocks = 1..Len(ring.blocks)
      BY <1>1, LenProperties DEF OutInv, Rings
    <3> QED
      BY <2>1, <3>1 DEF Unsent
  <2> QED
    BY <1>1, <2>1 DEF OutInv, FramesNotStranded
<1> QED
  BY <1>1, OutInvInit, OutInvNext, PTL DEF OutSpec
=============================================================================
