--------------------------------- MODULE Memory ---------------------------------
(***************************************************************************)
(* The free memory list (sys/getmem.c, freemem.c, getstk.c, h/mem.h, and   *)
(* its first blocks in sys/initialize.c).  Addresses and lengths are in    *)
(* words of four bytes; a block header takes two.  memlist is the sequence *)
(* of the free blocks in the order they are linked.  Every routine runs    *)
(* with interrupts disabled from its first look at the list to its last.   *)
(***************************************************************************)
EXTENDS Integers, Sequences, SequencesExt, FiniteSets

CONSTANTS EndOfImage,  \* the first word behind the program: &end
          Blocks,      \* the free blocks the system starts with
          MemSizes,    \* lengths passed to getmem()
          StackSizes   \* lengths passed to getstk(), as create() rounds them

\* roundmb()
RoundMb(n) == n + (n % 2)

\* The first blocks begin on an mblock boundary and end on any word; the one at
\* the end of the program has a hole above it.  create() rounds stacks to words.
ASSUME BlocksAssumption ==
  /\ EndOfImage \in Nat
  /\ Blocks \in Seq([at : Nat, len : Nat]) /\ Blocks # <<>>
  /\ Blocks[1].at = RoundMb(EndOfImage)
  /\ \A i \in DOMAIN Blocks : Blocks[i].at % 2 = 0 /\ Blocks[i].len >= 2
  /\ \A i, j \in DOMAIN Blocks :
       i < j => Blocks[i].at + RoundMb(Blocks[i].len) < Blocks[j].at
ASSUME SizesAssumption ==
  /\ MemSizes \subseteq Nat /\ \A n \in MemSizes : n > 0
  /\ StackSizes \subseteq Nat /\ \A n \in StackSizes : n >= 2

VARIABLES memlist,   \* the free list
          owned,     \* history: what has been allocated and not yet freed
          idle       \* history: the words that neither the list nor a program has

memVars == <<memlist, owned, idle>>

\* The words of a block, and of its header when it is on the list.
Words(b) == b.at..b.at + b.len - 1
Header(b) == {b.at, b.at + 1}

FreeWords  == UNION {Words(memlist[i]) : i \in DOMAIN memlist}
OwnedWords == UNION {Words(b) : b \in owned}

\* What the rounding of the first blocks leaves: the word between the program and
\* the first block, and the one behind a block of an odd length.
Spare ==
  (EndOfImage..Blocks[1].at - 1) \cup
  {Blocks[i].at + Blocks[i].len : i \in {j \in DOMAIN Blocks : Blocks[j].len % 2 = 1}}

\* The words the system starts with.
HeapWords == Spare \cup UNION {Words(Blocks[i]) : i \in DOMAIN Blocks}

\* Words of headers that belong to a program, or are no memory to give out.
Astray ==
  {a \in UNION {Header(memlist[i]) : i \in DOMAIN memlist} :
     a \in OwnedWords \/ a \notin HeapWords}

\* The i-th block gives way to what is left of it.
Reduced(list, i, rest) ==
  IF rest.len = 0 THEN RemoveAt(list, i) ELSE [list EXCEPT ![i] = rest]

\* The i-th block without its first, or its last, n words.
CutLow(list, i, n) ==
  Reduced(list, i, [at |-> list[i].at + n, len |-> list[i].len - n])
CutHigh(list, i, n) ==
  Reduced(list, i, [at |-> list[i].at, len |-> list[i].len - n])

Fitting(n) == {i \in DOMAIN memlist : memlist[i].len >= n}

\* getmem(): the low end of the first block that fits.
Getmem(size) ==
  LET n == RoundMb(size)
  IN  /\ Fitting(n) # {}
      /\ LET i == Min(Fitting(n))
         IN  /\ memlist' = CutLow(memlist, i, n)
             /\ owned' = owned \cup {[at |-> memlist[i].at, len |-> n]}
             /\ UNCHANGED idle

\* getstk(): the high end of the last block that fits.
Getstk(n) ==
  /\ Fitting(n) # {}
  /\ LET i == Max(Fitting(n))
     IN  /\ memlist' = CutHigh(memlist, i, n)
         /\ owned' = owned \cup
              {[at |-> memlist[i].at + memlist[i].len - n, len |-> n]}
  /\ UNCHANGED idle

\* The number of free blocks below an address: freemem() stops its search there.
Below(at) == Cardinality({i \in DOMAIN memlist : memlist[i].at < at})

\* Mutant of Overlaps: a block that only touches the one below is refused.
OverlapsOrTouches(b) ==
  LET q == Below(b.at)
  IN  \/ q > 0 /\ memlist[q].at + memlist[q].len >= b.at
      \/ q < Len(memlist) /\ b.at + b.len > memlist[q + 1].at

\* Mutant of Overlaps: only the block above is looked at.
OverlapsAbove(b) ==
  LET q == Below(b.at)
  IN  q < Len(memlist) /\ b.at + b.len > memlist[q + 1].at

\* The block reaches into the free block below or above it.
Overlaps(b) ==
  LET q == Below(b.at)
  IN  \/ q > 0 /\ memlist[q].at + memlist[q].len > b.at
      \/ q < Len(memlist) /\ b.at + b.len > memlist[q + 1].at

\* Mutant of MergeUp: the block is not merged with the one above.
MergeUpNever(list, i) == list

\* The i-th block takes in the one above it when they touch.
MergeUp(list, i) ==
  IF i < Len(list) /\ list[i].at + list[i].len = list[i + 1].at
  THEN RemoveAt([list EXCEPT ![i].len = @ + list[i + 1].len], i + 1)
  ELSE list

Freed(b) ==
  LET q == Below(b.at)
  IN  IF q > 0 /\ memlist[q].at + memlist[q].len = b.at
      THEN MergeUp([memlist EXCEPT ![q].len = @ + b.len], q)
      ELSE MergeUp(InsertAt(memlist, q + 1, b), q + 1)

\* What freemem() and freestk() are given for a block: both round its length up,
\* and freestk() counts it from the top of the stack.
Returned(b) ==
  [at |-> b.at + b.len - RoundMb(b.len), len |-> RoundMb(b.len)]

\* freemem() refuses a block that is not memory or is free in part.
Refuses(b) == b.at < EndOfImage \/ Overlaps(b)

Release(b) == memlist' = IF Refuses(b) THEN memlist ELSE Freed(b)

\* A program frees something it owns.  The rounding may add the word below a stack
\* of an odd length; what is refused never comes back.
Freemem(b) ==
  /\ b \in owned
  /\ owned' = owned \ {b}
  /\ Release(Returned(b))
  /\ idle' = IF Refuses(Returned(b)) THEN idle \cup Words(b)
             ELSE idle \ Words(Returned(b))

\* freemem() of a block that is, in part at least, free already.
FreememAgain(b) ==
  /\ Words(b) \cap FreeWords # {}
  /\ Release(b)
  /\ UNCHANGED <<owned, idle>>

MemInit == memlist = Blocks /\ owned = {} /\ idle = Spare

\* Blocks a program might pass a second time.
Candidates ==
  LET top == Blocks[Len(Blocks)].at + Blocks[Len(Blocks)].len
  IN  [at : EndOfImage..top, len : {RoundMb(n) : n \in MemSizes}]

\* Nothing is modelled after a header has come to lie in a word that is not the
\* list's own: what is there then depends on what the word's owner writes.
MemNext ==
  /\ Astray = {}
  /\ \/ \E n \in MemSizes : Getmem(n)
     \/ \E n \in StackSizes : Getstk(n)
     \/ \E b \in owned : Freemem(b)
     \/ \E b \in Candidates : FreememAgain(b)

MemSpec == MemInit /\ [][MemNext]_memVars

-------------------------------------------------------------------------------
\* Every word of the heap is free, has one owner or is idle, whatever the order of
\* allocations, releases and releases of what is free already: nothing is handed
\* out twice and nothing gets lost unseen.  The one exception is a word that a
\* header has just been put in although it belongs to a program (the word freestk()
\* adds below a stack of an odd length is the first of the block it frees).
HeapPartitioned ==
  /\ \A i, j \in DOMAIN memlist : i # j => Words(memlist[i]) \cap Words(memlist[j]) = {}
  /\ \A b, c \in owned : b # c => Words(b) \cap Words(c) = {}
  /\ FreeWords \cap OwnedWords \subseteq Astray
  /\ idle \cap (FreeWords \cup OwnedWords) = {}
  /\ HeapWords \subseteq FreeWords \cup OwnedWords \cup idle
  /\ FreeWords \cup OwnedWords \cup idle \subseteq HeapWords \cup Astray

\* The list rises and no two of its blocks touch: freemem() would otherwise leave
\* memory in pieces too small for a request that fits.
FreeListCanonical ==
  \A i \in 1..Len(memlist) - 1 :
    memlist[i].at + memlist[i].len < memlist[i + 1].at

\* Whatever was allocated is on the list again once it is freed, in whatever order
\* that happens, unless it is a stack of an odd length: freemem() refuses nothing
\* else that a program owns.
EvenBlocksComeBack ==
  [][\A b \in owned \ owned' : b.len % 2 = 0 => Words(b) \subseteq FreeWords']_memVars
==============================================================================
