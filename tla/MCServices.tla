------------------------------- MODULE MCServices -------------------------------
(***************************************************************************)
(* The components beside the locks, checked in one run.  They do not share *)
(* state (the first three use the services of KernelServices), so each     *)
(* behaviour is one of a single component: part says which.                *)
(***************************************************************************)
EXTENDS BufferPools, ConsoleOutput, ConsoleInput, Memory, GuardedQueue, NetBoot,
        NetOutput, AddressCache

VARIABLE part

vars == <<part, bufVars, conVars, inVars, memVars, queueVars, bootVars, outVars,
          cacheVars>>

\* The processes of a workload, and the calls they make.
MCWorkloads ==
  {[prios |-> <<1, 1, 2>>, calls |-> calls] : calls \in {
     {"screate", "wait", "signal", "signaln", "sreset", "sdelete", "resume"},
     {"send", "receive", "recvclr", "kill", "setnok", "resume"},
     {"sleep", "recvtim", "kill", "resume", "suspend"},
     {"mkpool", "getbuf", "nbgetbuf", "freebuf", "kill", "resume"}}}
  \cup
  {[prios |-> <<1, 1>>, calls |-> calls] : calls \in {
     {"screate", "wait", "signal", "sdelete", "kill", "create", "resume"},
     {"recvtim", "send", "kill", "setnok", "resume"},
     {"putc", "echo", "control", "resume"}}}
  \cup {[prios |-> <<1>>, calls |-> {}]}

MCBlocks == <<[at |-> 2, len |-> 9], [at |-> 14, len |-> 5]>>

Others == {"typing", "reading", "memory", "queue", "boot", "nic", "cache"}

Init ==
  /\ BufInit /\ ConsoleInit /\ InputInit /\ MemInit /\ QueueInit /\ BootInit
  /\ OutInit /\ CacheInit
  /\ IF uses = {} THEN part \in Others
     ELSE part = IF "putc" \in uses THEN "console"
                 ELSE IF "getbuf" \in uses THEN "pools" ELSE "kernel"

serviceVars == <<bufVars, conVars>>
netVars     == <<bootVars, outVars, cacheVars>>

KernelStep ==
  /\ part = "kernel" /\ ServNext
  /\ UNCHANGED <<part, poolVars, conVars, inVars, memVars, queueVars, netVars>>
PoolStep ==
  /\ part = "pools" /\ BufNext
  /\ UNCHANGED <<part, conVars, inVars, memVars, queueVars, netVars>>
ConsoleStep ==
  /\ part = "console" /\ ConsoleNext
  /\ UNCHANGED <<part, poolVars, inVars, memVars, queueVars, netVars>>
\* Handlers that wait in two processes, with one reader; and two readers, with the
\* handlers of lines waiting in process 0.
InputStep ==
  /\ \/ part = "typing" /\ InputNext /\ rpc'[2] = "out" /\ handler'[2] = Nothing
     \/ part = "reading" /\ InputNext /\ handler'[1] = Nothing /\ handler'[2] = Nothing
        /\ handler'[0].step # "word"
  /\ UNCHANGED <<part, serviceVars, memVars, queueVars, netVars>>
MemoryStep ==
  /\ part = "memory" /\ MemNext
  /\ UNCHANGED <<part, serviceVars, inVars, queueVars, netVars>>
QueueStep ==
  /\ part = "queue" /\ QueueNext
  /\ UNCHANGED <<part, serviceVars, inVars, memVars, netVars>>
BootStep ==
  /\ part = "boot" /\ BootNext
  /\ UNCHANGED <<part, serviceVars, inVars, memVars, queueVars, outVars, cacheVars>>
OutputStep ==
  /\ part = "nic" /\ OutNext
  /\ UNCHANGED <<part, serviceVars, inVars, memVars, queueVars, bootVars, cacheVars>>
CacheStep ==
  /\ part = "cache" /\ CacheNext
  /\ UNCHANGED <<part, serviceVars, inVars, memVars, queueVars, bootVars, outVars>>

Next ==
  \/ KernelStep \/ PoolStep \/ ConsoleStep \/ InputStep \/ MemoryStep
  \/ QueueStep \/ BootStep \/ OutputStep \/ CacheStep

Spec == Init /\ [][Next]_vars
=============================================================================
