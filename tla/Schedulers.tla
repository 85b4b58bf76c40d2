----------------------------- MODULE Schedulers -----------------------------
(***************************************************************************)
(* The four schedulers of Project 1 (src/Project1/src/scheduler): first    *)
(* come first served, round robin, lottery, and multi-level queues.  One   *)
(* of them is linked to the kernel (`policy').  Every operator below is a  *)
(* method of cScheduler; its body is the critical section of blockedLock.  *)
(*                                                                         *)
(* All four keep their ready processes in `ready': the single queues of    *)
(* FCFS and round robin and the vector of the lottery are ready[0].  The   *)
(* running process keeps its slot in the lottery's vector, but not in      *)
(* totalReady, so here it is out of ready[0] as well; which slot each      *)
(* process has is in `slot'.  The blocked vector is represented by the     *)
(* state of its processes and by totalBlocked.                             *)
(***************************************************************************)
EXTENDS Integers, Sequences, FiniteSets, FiniteSetsExt, SequencesExt

CONSTANTS
  Procs,            \* processes the programs may create
  InitProc,         \* the process of main.trace
  NoProc,           \* NULL
  Policies,         \* the schedulers under test
  TopLevel,         \* TOP_LEVEL, the lowest of the multi-level queues
  LevelQuanta,      \* level -> clock ticks (L0_QUANTA ...)
  Quantum,          \* QUANTUM of round robin
  DefaultPriority   \* DEFAULT_PRIORITY

ASSUME SchedulerAssumption ==
  /\ IsFiniteSet(Procs) /\ InitProc \in Procs /\ NoProc \notin Procs
  /\ Policies \subseteq {"fcfs", "rr", "lottery", "multi"}
  /\ TopLevel \in Nat
  /\ LevelQuanta \in [0 .. TopLevel -> Nat \ {0}]
  /\ Quantum \in Nat \ {0}
  /\ DefaultPriority \in Nat \ {0}

VARIABLES
  policy,         \* which scheduler is linked
  state,          \* ProcessInfo::state, "none" before the process is created
  priority,       \* ProcessInfo::priority
  ready,          \* level -> queue of ready processes
  running,        \* the scheduler's runningProc
  totalBlocked,
  used,           \* clockTicksUsed, quantaUsed
  level,          \* sMultiInfo::level
  currentLevel,
  totalTickets,   \* tickets of the ready and the running processes
  slot,           \* lotteryInfo::readyIndex, NoSlot if not in readyVector
  readyID         \* [next, free]: the cIDManager the slots come from

schedVars == <<policy, state, priority, ready, running, totalBlocked, used,
               level, currentLevel, totalTickets, slot, readyID>>

NoSlot == -1

Levels == 0 .. TopLevel

\* addProcess of FCFS and of the multi-level queues does not take blockedLock.
AddsUnlocked == policy \in {"fcfs", "multi"}

Tickets(p) == IF policy = "lottery" THEN priority[p] ELSE 0

Lowest(a, b) == IF a < b THEN a ELSE b

\* The queue a new process starts in: its priority, cut off at TOP_LEVEL.
StartLevel(p) == IF policy = "multi" THEN Lowest(priority[p], TopLevel) ELSE 0

(***************************************************************************)
(* The kernel's constructor has loaded main.trace.                         *)
(***************************************************************************)
SchedInit ==
  /\ policy \in Policies
  /\ state = [p \in Procs |-> IF p = InitProc THEN "ready" ELSE "none"]
  /\ priority = [p \in Procs |-> DefaultPriority]
  /\ ready = [l \in Levels |-> IF l = StartLevel(InitProc) THEN <<InitProc>> ELSE <<>>]
  /\ running = NoProc
  /\ totalBlocked = 0
  /\ used = 0
  /\ level = [p \in Procs |-> IF p = InitProc THEN StartLevel(p) ELSE 0]
  /\ currentLevel = 0
  /\ totalTickets = Tickets(InitProc)
  /\ LET inVector == policy = "lottery" IN
       /\ slot = [p \in Procs |-> IF inVector /\ p = InitProc THEN 0 ELSE NoSlot]
       /\ readyID = [next |-> IF inVector THEN 1 ELSE 0, free |-> <<>>]

-----------------------------------------------------------------------------
(***************************************************************************)
(* The slots of the lottery's readyVector (getLowID and returnID, far from *)
(* the maximum of an ID).                                                  *)
(***************************************************************************)
EnterVector(p) ==
  IF policy # "lottery" THEN UNCHANGED <<slot, readyID>>
  ELSE IF readyID.free # <<>>
  THEN /\ slot' = [slot EXCEPT ![p] = Head(readyID.free)]
       /\ readyID' = [readyID EXCEPT !.free = Tail(@)]
  ELSE /\ slot' = [slot EXCEPT ![p] = readyID.next]
       /\ readyID' = [readyID EXCEPT !.next = @ + 1]

LeaveVector(p) ==
  IF policy # "lottery" THEN UNCHANGED <<slot, readyID>>
  ELSE /\ slot' = [slot EXCEPT ![p] = NoSlot]
       /\ readyID' = IF slot[p] = readyID.next - 1
                     THEN [readyID EXCEPT !.next = @ - 1]
                     ELSE [readyID EXCEPT !.free = Append(@, slot[p])]

AddProcess(p) ==
  /\ ready' = [ready EXCEPT ![StartLevel(p)] = Append(@, p)]
  /\ level' = [level EXCEPT ![p] = StartLevel(p)]
  /\ totalTickets' = totalTickets + Tickets(p)
  /\ EnterVector(p)
  /\ UNCHANGED <<policy, state, priority, running, totalBlocked, used,
                 currentLevel>>

(***************************************************************************)
(* setBlocked: first the state changes, which unblockProcess looks at      *)
(* without the lock, then the rest.                                        *)
(***************************************************************************)
MarkBlocked(p) ==
  /\ state' = [state EXCEPT ![p] = "blocked"]
  /\ UNCHANGED <<policy, priority, ready, running, totalBlocked, used, level,
                 currentLevel, totalTickets, slot, readyID>>

\* A process that blocks after its whole quantum moves down a level, else up.
LevelAfterBlock(p) ==
  IF policy # "multi" THEN level[p]
  ELSE IF used >= LevelQuanta[currentLevel]
       THEN Lowest(level[p] + 1, TopLevel)
       ELSE IF level[p] = 0 THEN 0 ELSE level[p] - 1

\* Variant: the clock ticks of the process that blocks are not reset.
FinishBlockKeepsTicks(p) ==
  /\ totalBlocked' = totalBlocked + 1
  /\ running' = NoProc
  /\ level' = [level EXCEPT ![p] = LevelAfterBlock(p)]
  /\ totalTickets' = totalTickets - Tickets(p)
  /\ LeaveVector(p)
  /\ UNCHANGED <<policy, state, priority, ready, used, currentLevel>>

\* Variant: the tickets of the process that blocks stay in the pool.
FinishBlockKeepsTickets(p) ==
  /\ totalBlocked' = totalBlocked + 1
  /\ running' = NoProc
  /\ used' = 0
  /\ level' = [level EXCEPT ![p] = LevelAfterBlock(p)]
  /\ LeaveVector(p)
  /\ UNCHANGED <<policy, state, priority, ready, currentLevel, totalTickets>>

FinishBlock(p) ==
  /\ totalBlocked' = totalBlocked + 1
  /\ running' = NoProc
  /\ used' = 0
  /\ level' = [level EXCEPT ![p] = LevelAfterBlock(p)]
  /\ totalTickets' = totalTickets - Tickets(p)
  /\ LeaveVector(p)
  /\ UNCHANGED <<policy, state, priority, ready, currentLevel>>

UnblockProcess(p) ==
  /\ state' = [state EXCEPT ![p] = "ready"]
  /\ ready' = [ready EXCEPT ![level[p]] = Append(@, p)]
  /\ totalBlocked' = totalBlocked - 1
  /\ totalTickets' = totalTickets + Tickets(p)
  /\ EnterVector(p)
  /\ UNCHANGED <<policy, priority, running, used, level, currentLevel>>

RemoveProcess(p) ==
  /\ state' = [state EXCEPT ![p] = "terminated"]
  /\ running' = NoProc
  /\ used' = IF policy = "rr" THEN 0 ELSE used
  /\ totalTickets' = totalTickets - Tickets(p)
  /\ LeaveVector(p)
  /\ UNCHANGED <<policy, priority, ready, totalBlocked, level, currentLevel>>

-----------------------------------------------------------------------------
(***************************************************************************)
(* getNextToRun.  The running process keeps the cpu under FCFS, and within *)
(* its quantum under round robin and in its level of the queues; otherwise *)
(* it is put back and a ready process is taken.  With nothing ready, the   *)
(* call waits for the condition allBlocked, that is, it is not enabled.    *)
(***************************************************************************)
KeepsCPU ==
  /\ running # NoProc
  /\ \/ policy = "fcfs"
     \/ policy = "rr" /\ used < Quantum
     \/ policy = "multi" /\ used < LevelQuanta[currentLevel]

KeepRunning ==
  /\ KeepsCPU
  /\ used' = IF policy = "fcfs" THEN used ELSE used + 1
  /\ UNCHANGED <<policy, state, priority, ready, running, totalBlocked, level,
                 currentLevel, totalTickets, slot, readyID>>

\* The queues once the running process, if any, is back in queue l.
PutBack(l) ==
  IF running = NoProc THEN ready ELSE [ready EXCEPT ![l] = Append(@, running)]

\* Run the process at position i of queue l.
Take(queues, l, i) ==
  /\ i <= Len(queues[l])
  /\ ready' = [queues EXCEPT ![l] = RemoveAt(@, i)]
  /\ running' = queues[l][i]
  /\ state' = [p \in Procs |-> IF p = queues[l][i] THEN "running"
                               ELSE IF p = running THEN "ready"
                               ELSE state[p]]
  /\ UNCHANGED <<policy, priority, totalBlocked, totalTickets, slot, readyID>>

FCFSNext ==
  /\ policy = "fcfs" /\ running = NoProc
  /\ Take(ready, 0, 1)
  /\ UNCHANGED <<used, level, currentLevel>>

\* Variant: the process whose quantum is over is put in no queue.
RRNextForgets ==
  /\ policy = "rr" /\ ~ KeepsCPU
  /\ Take(ready, 0, 1)
  /\ used' = (IF running = NoProc THEN used ELSE 0) + 1
  /\ UNCHANGED <<level, currentLevel>>

\* Variant: the process whose quantum is over goes to the head of the queue.
RRNextInFront ==
  /\ policy = "rr" /\ ~ KeepsCPU
  /\ Take(IF running = NoProc THEN ready
          ELSE [ready EXCEPT ![0] = <<running>> \o @], 0, 1)
  /\ used' = (IF running = NoProc THEN used ELSE 0) + 1
  /\ UNCHANGED <<level, currentLevel>>

RRNext ==
  /\ policy = "rr" /\ ~ KeepsCPU
  /\ Take(PutBack(0), 0, 1)
  /\ used' = (IF running = NoProc THEN used ELSE 0) + 1
  /\ UNCHANGED <<level, currentLevel>>

\* The draw asserts that the tickets of the process it looks at raise the upper
\* bound, but the lower bound stays 0: the assertion fails if the first process
\* of the vector has no ticket.
FirstWithoutTickets ==
  \E p \in Procs :
    /\ slot[p] # NoSlot /\ priority[p] = 0
    /\ \A q \in Procs : slot[q] # NoSlot => slot[p] <= slot[q]

\* A ticket is drawn among all candidates, the running process included: any of
\* them that has a ticket can win.
LotteryNext ==
  /\ policy = "lottery" /\ ~ FirstWithoutTickets
  /\ \E i \in 1 .. Cardinality(Procs) : Take(PutBack(0), 0, i)
  /\ priority[running'] > 0
  /\ UNCHANGED <<used, level, currentLevel>>

\* Variant: the lowest level has no end.
BackLevelUncut == level[running] + 1

BackLevel == Lowest(level[running] + 1, TopLevel)

\* The head of the highest queue that is not empty, after the process whose
\* quantum is over has gone down a level.
MultiNext ==
  LET down   == running # NoProc
      queues == IF down THEN PutBack(BackLevel) ELSE ready
      levels == IF down THEN [level EXCEPT ![running] = BackLevel] ELSE level
  IN
  /\ policy = "multi" /\ ~ KeepsCPU
  /\ \E l \in Levels :
       /\ \A h \in 0 .. l - 1 : queues[h] = <<>>
       /\ Take(queues, l, 1)
       /\ level' = [levels EXCEPT ![queues[l][1]] = l]
       /\ currentLevel' = l
  /\ used' = 1

GetNextToRun == KeepRunning \/ FCFSNext \/ RRNext \/ LotteryNext \/ MultiNext

\* getNextToRun does not have to wait for a process to unblock.
SomeReady == running # NoProc \/ \E l \in Levels : ready[l] # <<>>

\* numProcesses reads the ready count first, then the blocked count and the
\* running process, without the lock.
TotalReady == Cardinality(UNION {{l} \X DOMAIN ready[l] : l \in Levels})

Others == totalBlocked + (IF running = NoProc THEN 0 ELSE 1)

-----------------------------------------------------------------------------
(***************************************************************************)
(* Properties of the scheduler's own data                                  *)
(***************************************************************************)
Positions(p) == {c \in Levels \X (1 .. Cardinality(Procs)) :
                   c[2] <= Len(ready[c[1]]) /\ ready[c[1]][c[2]] = p}

SchedTypeOK ==
  /\ policy \in Policies
  /\ state \in [Procs -> {"none", "ready", "running", "blocked", "terminated"}]
  /\ priority \in [Procs -> Nat]
  /\ ready \in [Levels -> Seq(Procs)]
  /\ running \in Procs \cup {NoProc}
  /\ totalBlocked \in Nat
  /\ used \in Nat
  /\ level \in [Procs -> Levels]
  /\ currentLevel \in Levels
  /\ totalTickets \in Int
  /\ slot \in [Procs -> Int]
  /\ readyID \in [next : Int, free : Seq(Int)]

\* No process is given more than its quantum, and none starts with ticks that
\* another one used: the counter is per scheduler, not per process.
QuantumFair ==
  /\ policy = "rr" =>
       IF running = NoProc THEN used = 0 ELSE used \in 1 .. Quantum
  /\ policy = "multi" /\ running # NoProc =>
       /\ used \in 1 .. LevelQuanta[currentLevel]
       /\ level[running] = currentLevel \/ state[running] = "blocked"
=============================================================================
