----------------------------- MODULE SimKernel -----------------------------
(***************************************************************************)
(* The simulated kernel of Project 1 (src/Project1/src/kernel.cpp): the    *)
(* main thread runs the loop of boot(), one instruction per clock tick;    *)
(* the device thread answers the timers of the block and the character     *)
(* device (src/devices) and unblocks their processes in the scheduler.     *)
(*                                                                         *)
(* What a program does is left open: work, create a process, ask a device  *)
(* for I/O, end.  Registers and program text are the subject of Processor. *)
(* A step is what a thread does between two points at which the other one  *)
(* can see the difference.  Failed assertions, undefined behaviour and the *)
(* end of boot() stop the system and are told apart by `status'.           *)
(***************************************************************************)
EXTENDS Schedulers

CONSTANTS
  Devices,       \* devices in the order deviceHandle asks them
  Priorities,    \* policy -> the priorities programs give in C instructions
  MaxSpurious,   \* bound: repeated timer signals before the first is answered
  MaxLost,       \* bound: timer signals that are never received
  MaxDevSig      \* bound: DevSigSem, which drifts upwards (see Interrupts)

ASSUME KernelAssumption ==
  /\ Devices \in Seq({"B", "C"}) /\ Devices # <<>>
  /\ Policies \subseteq DOMAIN Priorities
  /\ \A q \in Policies : Priorities[q] \subseteq Nat
  /\ MaxSpurious \in Nat /\ MaxLost \in Nat
  /\ MaxDevSig \in Nat \ {0}

VARIABLES
  status,     \* "up", "exited", "assert" or "undefined"
  mainPc,     \* "pick", "run", "add", "block", "blocking", "count", "exit?"
  newProc,    \* the process initProcess is creating
  seen,       \* the part of numProcesses that has been read
  devPc,      \* "wait", "poll", "check", "move" or "log"
  at,         \* index of the device the device thread is looking at
  hand,       \* toUnblock, the process timerFinished returned
  waitQueue,  \* device -> processes waiting for it
  timer,      \* device -> "off", "armed" or "again" (armed with the interval)
  sigs,       \* device -> BSigSem, CSigSem
  devSig,     \* DevSigSem
  spurious, lost  \* how often the environment used its bounds

mainVars == <<mainPc, newProc, seen>>
devVars  == <<devPc, at, hand>>
timers   == <<waitQueue, timer, sigs, devSig, spurious, lost>>
vars     == <<schedVars, status, mainVars, devVars, timers>>

DeviceSet == {Devices[i] : i \in 1 .. Len(Devices)}

Init ==
  /\ SchedInit
  /\ status = "up"
  /\ mainPc = "pick" /\ newProc = NoProc /\ seen = 0
  /\ devPc = "wait" /\ at = 1 /\ hand = NoProc
  /\ waitQueue = [d \in DeviceSet |-> <<>>]
  /\ timer = [d \in DeviceSet |-> "off"]
  /\ sigs = [d \in DeviceSet |-> 0]
  /\ devSig = 0 /\ spurious = 0 /\ lost = 0

-----------------------------------------------------------------------------
(***************************************************************************)
(* The queued devices (block_device.cpp, char_device.cpp).  A timer goes   *)
(* off once after the device's latency and then, until it is disarmed,     *)
(* again and again after TIMEOUT_SCALE times that.                         *)
(***************************************************************************)
ScheduleDevice(d, p) ==
  /\ waitQueue' = [waitQueue EXCEPT ![d] = Append(@, p)]
  /\ timer' = IF waitQueue[d] = <<>> THEN [timer EXCEPT ![d] = "armed"] ELSE timer
  /\ UNCHANGED <<sigs, devSig, spurious, lost>>

\* Variant: the process at the front is returned and left in the queue.
TimerFinishedPeek(d) ==
  /\ timer' = [timer EXCEPT ![d] = IF Len(waitQueue[d]) > 1 THEN "armed" ELSE "off"]
  /\ UNCHANGED <<waitQueue, devSig, spurious, lost>>

TimerFinished(d) ==
  /\ waitQueue' = [waitQueue EXCEPT ![d] = Tail(@)]
  /\ timer' = [timer EXCEPT ![d] = IF Len(waitQueue[d]) > 1 THEN "armed" ELSE "off"]
  /\ UNCHANGED <<devSig, spurious, lost>>

\* The signal handler runs in the device thread.  If that thread sleeps in
\* sem_wait the signal ends the sleep with EINTR, which the loop takes for
\* success without having taken DevSigSem down.  One round also answers both
\* devices for one DevSigSem: the semaphore can stay ahead of the signals, and
\* then the thread makes rounds in which it finds nothing.
Interrupts ==
  IF devPc = "wait" /\ devSig = 0
  THEN \/ UNCHANGED devVars
       \/ devPc' = "poll" /\ UNCHANGED <<at, hand>>
  ELSE UNCHANGED devVars

\* Variant: the handler does not post DevSigSem.
PostQuietly(d) ==
  /\ sigs' = [sigs EXCEPT ![d] = @ + 1]
  /\ timer' = [timer EXCEPT ![d] = "again"]
  /\ UNCHANGED devSig
  /\ Interrupts

Post(d) ==
  /\ devSig < MaxDevSig
  /\ sigs' = [sigs EXCEPT ![d] = @ + 1]
  /\ devSig' = devSig + 1
  /\ timer' = [timer EXCEPT ![d] = "again"]
  /\ Interrupts

Fire(d) ==
  /\ status = "up" /\ timer[d] = "armed"
  /\ Post(d)
  /\ UNCHANGED <<schedVars, status, mainVars, waitQueue, spurious, lost>>

\* Variant: the timer has no interval.
SignalLostForGood(d) ==
  /\ status = "up" /\ timer[d] = "armed"
  /\ lost < MaxLost
  /\ lost' = lost + 1
  /\ timer' = [timer EXCEPT ![d] = "off"]
  /\ UNCHANGED <<schedVars, status, mainVars, devVars, waitQueue, sigs, devSig,
                 spurious>>

\* "In rare occurences the signal is never received so we set a timeout".
SignalLost(d) ==
  /\ status = "up" /\ timer[d] = "armed"
  /\ lost < MaxLost
  /\ lost' = lost + 1
  /\ timer' = [timer EXCEPT ![d] = "again"]
  /\ UNCHANGED <<schedVars, status, mainVars, devVars, waitQueue, sigs, devSig,
                 spurious>>

\* The interval is over.  Either the first signal was lost, or it has not been
\* answered yet.
FireAgain(d) ==
  /\ status = "up" /\ timer[d] = "again"
  /\ IF sigs[d] = 0
     THEN UNCHANGED spurious
     ELSE spurious < MaxSpurious /\ spurious' = spurious + 1
  /\ Post(d)
  /\ UNCHANGED <<schedVars, status, mainVars, waitQueue, lost>>

-----------------------------------------------------------------------------
(***************************************************************************)
(* The main thread: boot()                                                 *)
(***************************************************************************)
Main(l) == status = "up" /\ mainPc = l

\* The lock blockedLock is held by the main thread between two of its steps.
SchedLocked == mainPc = "blocking"

Pick ==
  /\ Main("pick")
  /\ GetNextToRun
  /\ mainPc' = "run"
  /\ UNCHANGED <<status, newProc, seen, devVars, timers>>

\* assert(lowerBound != upperBound), in the draw of the lottery.  initProcess
\* only turns negative priorities away, so a process may have no ticket.
LotteryAsserts ==
  /\ Main("pick")
  /\ policy = "lottery" /\ FirstWithoutTickets
  /\ status' = "assert"
  /\ UNCHANGED <<schedVars, mainVars, devVars, timers>>

\* A clock tick in which the process computes, or asks for a new process whose
\* priority is negative or whose program cannot be read: no scheduler is called.
RunWork ==
  /\ Main("run")
  /\ mainPc' = "count"
  /\ UNCHANGED <<schedVars, status, newProc, seen, devVars, timers>>

\* The process ends, by itself or by an exception: cleanupProcess.
RunEnd ==
  /\ Main("run")
  /\ RemoveProcess(running)
  /\ mainPc' = "count"
  /\ UNCHANGED <<status, newProc, seen, devVars, timers>>

\* System call C: initProcess up to the call of addProcess.
RunCreate ==
  /\ Main("run")
  /\ \E p \in Procs, n \in Priorities[policy] :
       /\ state[p] = "none"
       /\ state' = [state EXCEPT ![p] = "ready"]
       /\ priority' = [priority EXCEPT ![p] = n]
       /\ newProc' = p
  /\ mainPc' = "add"
  /\ UNCHANGED <<policy, ready, running, totalBlocked, used, level,
                 currentLevel, totalTickets, slot, readyID, status, seen, devVars,
                 timers>>

Add ==
  /\ Main("add")
  /\ AddProcess(newProc)
  /\ newProc' = NoProc
  /\ mainPc' = "count"
  /\ UNCHANGED <<status, seen, devVars, timers>>

\* System call I: three privileged ticks, then the request to the device ...
RunIO ==
  /\ Main("run")
  /\ \E d \in DeviceSet : ScheduleDevice(d, running)
  /\ mainPc' = "block"
  /\ UNCHANGED <<schedVars, status, newProc, seen, devVars>>

\* ... and only then setBlocked, in two steps.
Block ==
  /\ Main("block")
  /\ MarkBlocked(running)
  /\ mainPc' = "blocking"
  /\ UNCHANGED <<status, newProc, seen, devVars, timers>>

EndBlock ==
  /\ Main("blocking")
  /\ FinishBlock(running)
  /\ mainPc' = "count"
  /\ UNCHANGED <<status, newProc, seen, devVars, timers>>

\* while ( scheduler.numProcesses() > 0 ), first and second half.
Count ==
  /\ Main("count")
  /\ seen' = TotalReady
  /\ mainPc' = "exit?"
  /\ UNCHANGED <<schedVars, status, newProc, devVars, timers>>

\* Variant: blocked processes are not counted.
ExitTestReadyOnly ==
  /\ Main("exit?")
  /\ IF seen + (IF running = NoProc THEN 0 ELSE 1) > 0
     THEN UNCHANGED status ELSE status' = "exited"
  /\ seen' = 0
  /\ mainPc' = "pick"
  /\ UNCHANGED <<schedVars, newProc, devVars, timers>>

ExitTest ==
  /\ Main("exit?")
  /\ IF seen + Others > 0 THEN UNCHANGED status ELSE status' = "exited"
  /\ seen' = 0
  /\ mainPc' = "pick"
  /\ UNCHANGED <<schedVars, newProc, devVars, timers>>

-----------------------------------------------------------------------------
(***************************************************************************)
(* The device thread: deviceHandle                                         *)
(***************************************************************************)
Dev(l) == status = "up" /\ devPc = l

\* sem_wait(&DevSigSem)
Wait ==
  /\ Dev("wait")
  /\ devSig > 0
  /\ devSig' = devSig - 1
  /\ devPc' = "poll"
  /\ UNCHANGED <<schedVars, status, mainVars, at, hand, waitQueue, timer, sigs,
                 spurious, lost>>

\* On to the next device, after the last one back to sem_wait.
NextDevice ==
  IF at < Len(Devices)
  THEN at' = at + 1 /\ devPc' = "poll"
  ELSE at' = 1 /\ devPc' = "wait"

\* sem_trywait on the device's semaphore, and timerFinished if it succeeds.
\* With nobody in the queue timerFinished takes the front of an empty queue.
Poll ==
  /\ Dev("poll")
  /\ LET d == Devices[at] IN
     IF sigs[d] = 0
     THEN NextDevice /\ UNCHANGED <<status, hand, timers>>
     ELSE /\ sigs' = [sigs EXCEPT ![d] = @ - 1]
          /\ IF waitQueue[d] = <<>>
             THEN /\ status' = "undefined"
                  /\ UNCHANGED <<devVars, waitQueue, timer, devSig, spurious, lost>>
             ELSE /\ TimerFinished(d)
                  /\ hand' = Head(waitQueue[d])
                  /\ devPc' = "check"
                  /\ UNCHANGED <<status, at>>
  /\ UNCHANGED <<schedVars, mainVars>>

\* The assertions at the top of unblockProcess, made without the lock.
Check ==
  /\ Dev("check")
  /\ IF state[hand] = "blocked" /\ totalBlocked > 0
     THEN devPc' = "move" /\ UNCHANGED status
     ELSE status' = "assert" /\ UNCHANGED devPc
  /\ UNCHANGED <<schedVars, mainVars, at, hand, timers>>

\* The body of unblockProcess.  If the main thread is in an addProcess that
\* does not take the lock, both push to the same queue: a data race.
Move ==
  /\ Dev("move")
  /\ ~ SchedLocked
  /\ UnblockProcess(hand)
  /\ devPc' = "log"
  /\ \/ UNCHANGED status
     \/ mainPc = "add" /\ AddsUnlocked /\ status' = "undefined"
  /\ UNCHANGED <<mainVars, at, hand, timers>>

\* procLogger->writeProcessInfo(proc), after the lock was released: by now the
\* process may have run, ended and been freed.
Log ==
  /\ Dev("log")
  /\ \/ NextDevice /\ hand' = NoProc /\ UNCHANGED status
     \/ state[hand] = "terminated" /\ status' = "undefined" /\ UNCHANGED devVars
  /\ UNCHANGED <<schedVars, mainVars, timers>>

-----------------------------------------------------------------------------
MainThread ==
  \/ Pick \/ LotteryAsserts \/ RunWork \/ RunEnd \/ RunCreate \/ Add \/ RunIO \/ Block
  \/ EndBlock \/ Count \/ ExitTest

DeviceThread == Wait \/ Poll \/ Check \/ Move \/ Log

Timer(d) == Fire(d) \/ SignalLost(d) \/ FireAgain(d)

Next == MainThread \/ DeviceThread \/ \E d \in DeviceSet : Timer(d)

Spec == Init /\ [][Next]_vars

\* The threads are scheduled, the clock keeps ticking, and a timer that is set
\* goes off.  Nothing makes a program end or ask for I/O.
Fairness ==
  /\ WF_vars(MainThread)
  /\ WF_vars(DeviceThread)
  /\ \A d \in DeviceSet : WF_vars(Fire(d) \/ FireAgain(d))

FairSpec == Spec /\ Fairness

-----------------------------------------------------------------------------
(***************************************************************************)
(* Properties                                                              *)
(***************************************************************************)
TypeOK ==
  /\ SchedTypeOK
  /\ status \in {"up", "exited", "assert", "undefined"}
  /\ mainPc \in {"pick", "run", "add", "block", "blocking", "count", "exit?"}
  /\ newProc \in Procs \cup {NoProc}
  /\ seen \in Nat
  /\ devPc \in {"wait", "poll", "check", "move", "log"}
  /\ at \in 1 .. Len(Devices)
  /\ hand \in Procs \cup {NoProc}
  /\ waitQueue \in [DeviceSet -> Seq(Procs)]
  /\ timer \in [DeviceSet -> {"off", "armed", "again"}]
  /\ sigs \in [DeviceSet -> Nat] /\ devSig \in Nat
  /\ spurious \in 0 .. MaxSpurious /\ lost \in 0 .. MaxLost

Waits(p) == {c \in DeviceSet \X (1 .. Cardinality(Procs)) :
               c[2] <= Len(waitQueue[c[1]]) /\ waitQueue[c[1]][c[2]] = p}

\* No process is lost and none is in two places: a process that is ready
\* stands once in one queue, the one of its level, or is just being added;
\* one process runs; and the blocked ones are counted.
Placement ==
  /\ \A p \in Procs :
       /\ state[p] = "running" => running = p
       /\ IF state[p] = "ready" /\ newProc # p
          THEN \E i \in 1 .. Cardinality(Procs) : Positions(p) = {<<level[p], i>>}
          ELSE Positions(p) = {}
  /\ running # NoProc =>
       state[running] = IF mainPc = "blocking" THEN "blocked" ELSE "running"
  /\ totalBlocked + (IF mainPc = "blocking" THEN 1 ELSE 0)
       = Cardinality({p \in Procs : state[p] = "blocked"})

\* A process waits for a device, or is in the hands of the device thread,
\* exactly if it is blocked: at no moment is it both waiting and schedulable.
\* The only exception is the process that has asked for I/O and that the main
\* thread has not yet passed to setBlocked.
BlockedWaits ==
  status = "up" =>
    \A p \in Procs :
      /\ Cardinality(Waits(p))
           + (IF hand = p /\ devPc \in {"check", "move"} THEN 1 ELSE 0)
         = IF \/ state[p] = "blocked"
              \/ mainPc = "block" /\ running = p
           THEN 1 ELSE 0

\* No wakeup is lost, from the device to the scheduler.  The timer of a device
\* that has somebody waiting is running, and stays so until timerFinished takes
\* the process out; and a signal that is not yet answered has the device thread on
\* its way, in this round or by DevSigSem in the next one.
NoWakeupLost ==
  /\ \A d \in DeviceSet : waitQueue[d] # <<>> => timer[d] # "off"
  /\ \A i \in 1 .. Len(Devices) :
       sigs[Devices[i]] > 0 =>
         \/ devSig > 0
         \/ devPc = "poll" /\ at <= i
         \/ devPc \in {"check", "move", "log"} /\ at < i

\* Why a run can end badly.  An assertion only fails for the process that the
\* main thread has passed to a device and not yet to setBlocked, or in a lottery
\* whose first process has no ticket; and undefined behaviour needs a second
\* signal for a single request, a queue two threads push to, or a process freed
\* under the device thread's eyes.
FailuresExplained ==
  /\ status = "assert" =>
       \/ hand = running /\ mainPc \in {"block", "blocking"}
       \/ mainPc = "pick" /\ policy = "lottery" /\ FirstWithoutTickets
  /\ status = "undefined" =>
       \/ spurious > 0 /\ devPc = "poll" /\ waitQueue[Devices[at]] = <<>>
       \/ mainPc = "add" /\ AddsUnlocked /\ devPc = "log"
       \/ devPc = "log" /\ state[hand] = "terminated"

\* numProcesses can miss a process that moves while it counts, but the process
\* it misses is one that has just become ready: nobody running or blocked is
\* left behind, and getNextToRun never finds nothing at all to run or wait
\* for (assert(nextToRun != NULL)).
ExitLeavesNobodyBlocked ==
  /\ status = "exited" => totalBlocked = 0 /\ running = NoProc
  /\ status = "up" /\ mainPc = "pick" => SomeReady \/ totalBlocked > 0

\* The pool of the lottery is the sum of the tickets of all candidates; a pool
\* larger than that would leave toRun uninitialised.
TicketsMatch ==
  totalTickets =
    MapThenSumSet(Tickets,
      {p \in Procs : Positions(p) # {} \/ p = running})

\* "All processes have finished executing. Exiting kernel."
ExitMeansFinished ==
  status = "exited" => \A p \in Procs : state[p] \in {"none", "terminated"}

\* Every blocked process becomes ready again, also if a signal got lost.
BlockedIsUnblocked ==
  \A p \in Procs :
    state[p] = "blocked" ~> state[p] # "blocked" \/ status # "up"

\* Round robin serves everyone: whoever is ready gets the cpu, whatever the
\* other processes do.
ReadyRuns ==
  \A p \in Procs :
    policy = "rr" /\ state[p] = "ready"
      ~> state[p] = "running" \/ status # "up"
=============================================================================
