------------------------------ MODULE AddressCache ------------------------------
(***************************************************************************)
(* The ARP cache of the boot loader and the packets that wait in it        *)
(* (mon/monarp.c, mon_netwrite() and mon_ni_in() in monnet.c, rcv_frame()  *)
(* in ethdemux.c).  The main loop writes a packet with interrupts disabled *)
(* only while it looks at the cache; in the interrupts everything is one   *)
(* step.  A host's number stands for its addresses.                        *)
(*                                                                         *)
(* net is the state the calls hand on to one another.  A getbuf() that     *)
(* finds the pool empty in here waits for ever and is not modelled.        *)
(***************************************************************************)
EXTENDS Integers, Sequences, SequencesExt

CONSTANTS NetHosts,       \* the hosts, 1..NetHosts
          MON_ARP_TSIZE,  \* entries of mon_arptable
          NetBufs         \* buffers of mon_bufpool

ASSUME CacheAssumption ==
  NetHosts \in Nat /\ MON_ARP_TSIZE \in Nat \ {0} /\ NetBufs \in Nat

Hosts   == 1..NetHosts
Packets == 1..NetBufs
Nobody  == 0
NoPkt   == 0

VARIABLES
  net,      \* table: mon_arptable, free: the pool, out: frames to be sent,
            \* dst: ep_dst, nexthop: ep_nexthop, lost: history, see Claimed
  mainpep,  \* the packet the main loop writes
  mainpc    \* its next step: "idle", "netwrite" or "ethwrite"

cacheVars == <<net, mainpep, mainpc>>

Arpfind(n, host) ==
  Max({0} \cup {i \in 1..MON_ARP_TSIZE :
                  n.table[i].state # "AS_FREE" /\ n.table[i].host = host})

\* The first free entry, or the first one of all.
Arpalloc(n) ==
  Min({i \in 1..MON_ARP_TSIZE :
         \/ n.table[i].state = "AS_FREE"
         \/ i = 1 /\ \A j \in 1..MON_ARP_TSIZE : n.table[j].state # "AS_FREE"})

Freebuf(n, b) == [n EXCEPT !.free = <<b>> \o @, !.dst[b] = Nobody, !.nexthop[b] = Nobody]
Getbuf(n)     == [n EXCEPT !.free = Tail(@)]
Ethwrite(n, b) == [n EXCEPT !.out = @ \cup {b}]

\* A request is broadcast, in a buffer of its own.
Arpsend(n) == Ethwrite(Getbuf(n), Head(n.free))

\* Mutant of Parked: the packet that waited is not freed.
ParkedOver(n, i, b) == Arpsend([n EXCEPT !.table[i].pep = b])

\* An entry keeps one packet: the newest.
Parked(n, i, b) ==
  LET old == n.table[i].pep
      m   == IF old = NoPkt THEN n ELSE Freebuf(n, old)
  IN  Arpsend([m EXCEPT !.table[i].pep = b])

\* Mutant of Claimed: the entry keeps the address of its last host.
ClaimedAsItWas(n, b) ==
  LET i == Arpalloc(n)
  IN  Arpsend([n EXCEPT !.table[i].state = "AS_PENDING", !.table[i].pep = b,
                        !.table[i].host = IF @ = Nobody THEN n.nexthop[b] ELSE @,
                        !.lost = @ \cup ({n.table[i].pep} \ {NoPkt})])

\* A new pending entry.  In a full table it takes the place of the first entry,
\* and a packet waiting there is lost.
Claimed(n, b) ==
  LET i == Arpalloc(n)
  IN  Arpsend([n EXCEPT !.table[i].state = "AS_PENDING", !.table[i].pep = b,
                        !.table[i].host = n.nexthop[b],
                        !.lost = @ \cup ({n.table[i].pep} \ {NoPkt})])

IsResolved(n, b) ==
  LET i == Arpfind(n, n.nexthop[b])
  IN  i # 0 /\ n.table[i].state = "AS_RESOLVED"

\* mon_netwrite() up to its write, and when there is nothing to write yet.
Addressed(n, b) == [n EXCEPT !.dst[b] = n.table[Arpfind(n, n.nexthop[b])].hwa]
Waiting(n, b) ==
  LET i == Arpfind(n, n.nexthop[b])
  IN  IF i = 0 THEN Claimed(n, b) ELSE Parked(n, i, b)

NetWrite(n, b) ==
  IF IsResolved(n, b) THEN Ethwrite(Addressed(n, b), b) ELSE Waiting(n, b)

-------------------------------------------------------------------------------
MainGets(host) ==
  /\ mainpc = "idle" /\ net.free # <<>>
  /\ mainpep' = Head(net.free)
  /\ net' = [Getbuf(net) EXCEPT !.nexthop[mainpep'] = host]
  /\ mainpc' = "netwrite"

\* Interrupts are enabled again before a packet with an address is written.
MainNetwrite ==
  /\ mainpc = "netwrite"
  /\ IF IsResolved(net, mainpep)
     THEN /\ net' = Addressed(net, mainpep)
          /\ mainpc' = "ethwrite"
          /\ UNCHANGED mainpep
     ELSE /\ net.free # <<>>
          /\ net' = Waiting(net, mainpep)
          /\ mainpc' = "idle"
          /\ mainpep' = NoPkt

MainEthwrite ==
  /\ mainpc = "ethwrite"
  /\ net' = Ethwrite(net, mainpep)
  /\ mainpc' = "idle"
  /\ mainpep' = NoPkt

\* An acknowledgement sent by an interrupt.
InterruptNetwrite(host) ==
  /\ Len(net.free) >= 2
  /\ LET b == Head(net.free)
     IN  net' = NetWrite([Getbuf(net) EXCEPT !.nexthop[b] = host], b)
  /\ UNCHANGED <<mainpep, mainpc>>

\* An ARP packet for somebody else teaches the address of a host that is known.
Learned(n, host) ==
  IF Arpfind(n, host) = 0 THEN n
                          ELSE [n EXCEPT !.table[Arpfind(n, host)].hwa = host]

\* One for this machine makes an entry, or resolves it and sends what waits.
Added(n, host) ==
  LET i == Arpalloc(n)
  IN  [n EXCEPT !.table[i] = [state |-> "AS_RESOLVED", host |-> host, hwa |-> host,
                              pep |-> NoPkt],
                !.lost = @ \cup ({n.table[i].pep} \ {NoPkt})]

Resolved(n, i) ==
  LET m == [n EXCEPT !.table[i].state = "AS_RESOLVED", !.table[i].pep = NoPkt]
  IN  IF n.table[i].pep = NoPkt THEN m ELSE NetWrite(m, n.table[i].pep)

Cached(n, host) ==
  LET i == Arpfind(n, host)
  IN  IF i = 0 THEN Added(n, host)
      ELSE IF n.table[i].state = "AS_PENDING" THEN Resolved(n, i) ELSE n

\* rcv_frame(), mon_ni_in() and mon_arp_in(); without a buffer the frame is dropped.
ArpIn(host, ours, request) ==
  /\ net.free # <<>>
  /\ LET b == Head(net.free)
         n == Learned(Getbuf(net), host)
     IN  net' = IF ~ours THEN Freebuf(n, b)
                ELSE IF request
                THEN Ethwrite([Cached(n, host) EXCEPT !.dst[b] = host], b)
                ELSE Freebuf(Cached(n, host), b)
  /\ UNCHANGED <<mainpep, mainpc>>

\* mon_ethwstrt() has copied the frame to the adapter.
Transmit(b) ==
  /\ b \in net.out
  /\ net' = Freebuf([net EXCEPT !.out = @ \ {b}], b)
  /\ UNCHANGED <<mainpep, mainpc>>

CacheInit ==
  /\ net = [table |-> [i \in 1..MON_ARP_TSIZE |->
                         [state |-> "AS_FREE", host |-> Nobody, hwa |-> Nobody,
                          pep |-> NoPkt]],
            free |-> [b \in Packets |-> b], out |-> {},
            dst |-> [b \in Packets |-> Nobody],
            nexthop |-> [b \in Packets |-> Nobody], lost |-> {}]
  /\ mainpep = NoPkt
  /\ mainpc = "idle"

CacheNext ==
  \/ \E host \in Hosts : MainGets(host) \/ InterruptNetwrite(host)
  \/ MainNetwrite \/ MainEthwrite
  \/ \E host \in Hosts, ours, request \in BOOLEAN : ArpIn(host, ours, request)
  \/ \E b \in Packets : Transmit(b)

CacheSpec == CacheInit /\ [][CacheNext]_cacheVars

-------------------------------------------------------------------------------
Waits == {net.table[i].pep : i \in 1..MON_ARP_TSIZE} \ {NoPkt}

\* A packet is in one place only, and none is lost except those that a full
\* table drops: main loop and interrupts hand buffers to the cache, the queue
\* and the pool, and each of them frees some.
PacketsAccountedFor ==
  LET main == {mainpep} \ {NoPkt}
      pool == Range(net.free)
  IN  /\ IsInjective(net.free)
      /\ \A i, j \in 1..MON_ARP_TSIZE :
           i # j /\ net.table[i].pep = net.table[j].pep => net.table[i].pep = NoPkt
      /\ Packets = pool \cup net.out \cup Waits \cup main \cup net.lost
      /\ Cardinality(pool) + Cardinality(net.out) + Cardinality(Waits)
         + Cardinality(main) + Cardinality(net.lost) = NetBufs

\* Whatever becomes of the cache in between, a packet for a host is sent to the
\* address learnt for that host, and waits only in the pending entry of it.
PacketsFindTheirHost ==
  /\ \A b \in net.out :
       net.nexthop[b] # Nobody => net.dst[b] = net.nexthop[b]
  /\ \A i \in 1..MON_ARP_TSIZE :
       LET e == net.table[i]
       IN  e.pep # NoPkt => e.state = "AS_PENDING" /\ net.nexthop[e.pep] = e.host
=============================================================================
