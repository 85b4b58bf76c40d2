------------------------- MODULE SimKernel_proofs -------------------------
(***************************************************************************)
(* Theorems about the simulated kernel of Project 1, for every number of   *)
(* processes, every scheduler and any number of lost and repeated signals. *)
(* The inductive invariant IInv has four parts: the devices (DeviceInv),   *)
(* the scheduler (SchedInv), who waits where (Requests, SignalsExact), and *)
(* how a run ends (Ending).                                                *)
(***************************************************************************)
EXTENDS SimKernel, NumberFacts

-----------------------------------------------------------------------------
(***************************************************************************)
(* The devices.  Behind NoWakeupLost stands a count: the signals a device  *)
(* has not been asked for are at most the tokens of DevSigSem, and one     *)
(* more while the device thread is in a round that has not come to it.     *)
(***************************************************************************)
Coming(i) == \/ devPc = "poll" /\ at <= i
             \/ devPc \in {"check", "move", "log"} /\ at < i

DeviceTypes ==
  /\ devPc \in {"wait", "poll", "check", "move", "log"}
  /\ at \in 1 .. Len(Devices) /\ (devPc = "wait" => at = 1)
  /\ waitQueue \in [DeviceSet -> Seq(Procs)]
  /\ timer \in [DeviceSet -> {"off", "armed", "again"}]
  /\ sigs \in [DeviceSet -> Nat] /\ devSig \in Nat

TimersRun == \A d \in DeviceSet : waitQueue[d] # <<>> => timer[d] # "off"

SignalsCounted ==
  \A i \in 1 .. Len(Devices) :
    sigs[Devices[i]] <= devSig + (IF Coming(i) THEN 1 ELSE 0)

DeviceInv == DeviceTypes /\ TimersRun /\ SignalsCounted

LEMMA DeviceFacts ==
  /\ Len(Devices) \in Nat \ {0}
  /\ \A i \in 1 .. Len(Devices) : Devices[i] \in DeviceSet
BY KernelAssumption DEF DeviceSet

LEMMA TailOfQueue ==
  ASSUME NEW S, NEW q \in Seq(S), q # <<>>
  PROVE  /\ Tail(q) \in Seq(S) /\ Head(q) \in S
         /\ ~ (Len(q) > 1) => Tail(q) = <<>>
OBVIOUS

LEMMA InitDevices == Init => DeviceInv
BY DeviceFacts DEF Init, DeviceInv, DeviceTypes, TimersRun, SignalsCounted, Coming

\* A signal: one more for the device and one more token.
LEMMA PostDevices ==
  ASSUME DeviceInv, NEW d \in DeviceSet, Post(d), UNCHANGED waitQueue
  PROVE  DeviceInv'
<1>1. /\ sigs' = [sigs EXCEPT ![d] = @ + 1] /\ devSig' = devSig + 1
      /\ timer' = [timer EXCEPT ![d] = "again"]
      /\ at' = at
      /\ devPc' = devPc \/ (devPc = "wait" /\ devPc' = "poll")
  BY DEF Post, Interrupts, devVars
<1>2. DeviceTypes'
  BY <1>1 DEF DeviceInv, DeviceTypes
<1>3. TimersRun'
  BY <1>1 DEF DeviceInv, DeviceTypes, TimersRun
<1>4. ASSUME NEW i \in 1 .. Len(Devices)
      PROVE  sigs'[Devices[i]] <= devSig' + (IF Coming(i)' THEN 1 ELSE 0)
  <2>1. /\ Devices[i] \in DeviceSet /\ sigs[Devices[i]] \in Nat /\ devSig \in Nat
        /\ sigs[Devices[i]] <= devSig + (IF Coming(i) THEN 1 ELSE 0)
        /\ sigs'[Devices[i]] <= sigs[Devices[i]] + 1
        /\ sigs'[Devices[i]] \in Nat
    BY <1>1, DeviceFacts DEF DeviceInv, DeviceTypes, SignalsCounted
  <2>2. Coming(i) => Coming(i)'
    BY <1>1 DEF Coming
  <2> QED
    BY <1>1, <2>1, <2>2
<1> QED
  BY <1>2, <1>3, <1>4 DEF DeviceInv, SignalsCounted

\* A request for I/O.
LEMMA ScheduleDevices ==
  ASSUME DeviceInv, NEW d \in DeviceSet, NEW p \in Procs, ScheduleDevice(d, p),
         UNCHANGED devVars
  PROVE  DeviceInv'
<1>1. /\ waitQueue' = [waitQueue EXCEPT ![d] = Append(@, p)]
      /\ timer' = IF waitQueue[d] = <<>> THEN [timer EXCEPT ![d] = "armed"] ELSE timer
      /\ UNCHANGED <<sigs, devSig, devPc, at>>
  BY DEF ScheduleDevice, devVars
<1>2. DeviceTypes'
  BY <1>1 DEF DeviceInv, DeviceTypes
<1>3. TimersRun'
  BY <1>1 DEF DeviceInv, DeviceTypes, TimersRun
<1> QED
  BY <1>1, <1>2, <1>3 DEF DeviceInv, SignalsCounted, Coming

LEMMA NextDeviceComing ==
  ASSUME DeviceTypes, NextDevice,
         NEW i \in 1 .. Len(Devices), Coming(i), i # at
  PROVE  Coming(i)'
BY DeviceFacts DEF NextDevice, Coming, DeviceTypes

LEMMA WaitDevices ==
  ASSUME DeviceInv, Wait
  PROVE  DeviceInv'
<1>1. /\ devPc = "wait" /\ devPc' = "poll" /\ at = 1 /\ at' = 1 /\ devSig > 0
      /\ devSig' = devSig - 1 /\ UNCHANGED <<waitQueue, timer, sigs>>
  BY DEF Wait, Dev, DeviceInv, DeviceTypes
<1>2. DeviceTypes' /\ TimersRun'
  BY <1>1 DEF DeviceInv, DeviceTypes, TimersRun
<1>3. ASSUME NEW i \in 1 .. Len(Devices)
      PROVE  sigs'[Devices[i]] <= devSig' + (IF Coming(i)' THEN 1 ELSE 0)
  <2>1. ~ Coming(i) /\ Coming(i)'
    BY <1>1 DEF Coming
  <2>2. sigs[Devices[i]] \in Nat /\ devSig \in Nat /\ sigs[Devices[i]] <= devSig
    BY <2>1, DeviceFacts DEF DeviceInv, DeviceTypes, SignalsCounted
  <2> QED
    BY <1>1, <2>1, <2>2
<1> QED
  BY <1>2, <1>3 DEF DeviceInv, SignalsCounted

\* sem_trywait: nothing for this device, or one signal is answered.
LEMMA PollDevices ==
  ASSUME DeviceInv, Poll
  PROVE  DeviceInv'
<1> DEFINE d == Devices[at]
<1>1. /\ devPc = "poll" /\ at \in 1 .. Len(Devices) /\ d \in DeviceSet
      /\ Len(Devices) \in Nat /\ sigs[d] \in Nat /\ devSig \in Nat
  BY DeviceFacts DEF Poll, Dev, DeviceInv, DeviceTypes
<1>2. CASE sigs[d] = 0
  <2>1. NextDevice /\ UNCHANGED <<waitQueue, timer, sigs, devSig>>
    BY <1>2 DEF Poll, timers
  <2>2. DeviceTypes' /\ TimersRun'
    BY <1>1, <2>1 DEF NextDevice, DeviceInv, DeviceTypes, TimersRun
  <2>3. ASSUME NEW i \in 1 .. Len(Devices)
        PROVE  sigs'[Devices[i]] <= devSig' + (IF Coming(i)' THEN 1 ELSE 0)
    <3>1. /\ sigs[Devices[i]] \in Nat
          /\ sigs[Devices[i]] <= devSig + (IF Coming(i) THEN 1 ELSE 0)
      BY DeviceFacts DEF DeviceInv, DeviceTypes, SignalsCounted
    <3>2. CASE i = at
      BY <1>1, <1>2, <2>1, <3>2
    <3>3. CASE i # at
      <4>1. Coming(i) => Coming(i)'
        BY <2>1, <3>3, NextDeviceComing DEF DeviceInv
      <4> QED
        BY <1>1, <2>1, <3>1, <4>1
    <3> QED
      BY <3>2, <3>3
  <2> QED
    BY <2>2, <2>3 DEF DeviceInv, SignalsCounted
<1>3. CASE sigs[d] # 0
  <2>1. /\ sigs' = [sigs EXCEPT ![d] = @ - 1] /\ devSig' = devSig
        /\ \/ UNCHANGED <<devPc, at, waitQueue, timer>>
           \/ TimerFinished(d) /\ waitQueue[d] # <<>> /\ devPc' = "check" /\ at' = at
    BY <1>3 DEF Poll, TimerFinished, devVars
  <2>2. DeviceTypes' /\ TimersRun'
    <3>1. CASE UNCHANGED <<devPc, at, waitQueue, timer>>
      BY <1>1, <1>3, <2>1, <3>1 DEF DeviceInv, DeviceTypes, TimersRun
    <3>2. CASE TimerFinished(d) /\ waitQueue[d] # <<>> /\ devPc' = "check" /\ at' = at
      <4>1. /\ waitQueue' = [waitQueue EXCEPT ![d] = Tail(@)]
            /\ timer' = [timer EXCEPT ![d] = IF Len(waitQueue[d]) > 1 THEN "armed" ELSE "off"]
        BY <3>2 DEF TimerFinished
      <4>2. /\ Tail(waitQueue[d]) \in Seq(Procs)
            /\ ~ (Len(waitQueue[d]) > 1) => Tail(waitQueue[d]) = <<>>
        BY <1>1, <3>2, TailOfQueue DEF DeviceInv, DeviceTypes
      <4>3. DeviceTypes'
        BY <1>1, <1>3, <2>1, <3>2, <4>1, <4>2 DEF DeviceInv, DeviceTypes
      <4>4. TimersRun'
        BY <1>1, <4>1, <4>2 DEF DeviceInv, DeviceTypes, TimersRun
      <4> QED
        BY <4>3, <4>4
    <3> QED
      BY <2>1, <3>1, <3>2
  <2>3. ASSUME NEW i \in 1 .. Len(Devices)
        PROVE  sigs'[Devices[i]] <= devSig' + (IF Coming(i)' THEN 1 ELSE 0)
    <3>1. /\ sigs[Devices[i]] \in Nat /\ Devices[i] \in DeviceSet
          /\ sigs[Devices[i]] <= devSig + (IF Coming(i) THEN 1 ELSE 0)
      BY DeviceFacts DEF DeviceInv, DeviceTypes, SignalsCounted
    <3>2. CASE i = at
      <4>1. sigs'[Devices[i]] = sigs[Devices[i]] - 1
        BY <2>1, <3>1, <3>2 DEF DeviceInv, DeviceTypes
      <4> QED
        BY <1>1, <2>1, <3>1, <4>1
    <3>3. CASE i # at
      <4>1. Coming(i) => Coming(i)'
        BY <1>1, <2>1, <3>3 DEF Coming
      <4>2. sigs'[Devices[i]] <= sigs[Devices[i]] /\ sigs'[Devices[i]] \in Int
        BY <1>1, <2>1, <3>1 DEF DeviceInv, DeviceTypes
      <4> QED
        BY <1>1, <2>1, <3>1, <4>1, <4>2
    <3> QED
      BY <3>2, <3>3
  <2> QED
    BY <2>2, <2>3 DEF DeviceInv, SignalsCounted
<1> QED
  BY <1>2, <1>3

\* The device thread leaves a device, or stays with it, between two rounds.
LEMMA LogDevices ==
  ASSUME DeviceInv, Dev("log"), NextDevice, UNCHANGED timers
  PROVE  DeviceInv'
<1>1. DeviceTypes' /\ TimersRun'
  BY DeviceFacts DEF NextDevice, DeviceInv, DeviceTypes, TimersRun, timers
<1>2. \A i \in 1 .. Len(Devices) : Coming(i) => i # at /\ Coming(i)'
  <2>1. \A i \in 1 .. Len(Devices) : Coming(i) => i # at
    BY DeviceFacts DEF Coming, Dev, DeviceInv, DeviceTypes
  <2> QED
    BY <2>1, NextDeviceComing DEF DeviceInv
<1>3. SignalsCounted'
  <2> SUFFICES ASSUME NEW i \in 1 .. Len(Devices)
               PROVE  sigs'[Devices[i]] <= devSig' + (IF Coming(i)' THEN 1 ELSE 0)
    BY DEF SignalsCounted
  <2>1. /\ sigs[Devices[i]] \in Nat /\ devSig \in Nat
        /\ sigs[Devices[i]] <= devSig + (IF Coming(i) THEN 1 ELSE 0)
    BY DeviceFacts DEF DeviceInv, DeviceTypes, SignalsCounted
  <2> QED
    BY <1>2, <2>1 DEF timers
<1> QED
  BY <1>1, <1>3 DEF DeviceInv

\* A step that moves the device thread on within a device, or nothing at all.
LEMMA IdleDevices ==
  ASSUME DeviceInv, UNCHANGED <<at, waitQueue, timer, sigs, devSig>>,
         \/ devPc' = devPc
         \/ devPc \in {"check", "move", "log"} /\ devPc' \in {"check", "move", "log"}
  PROVE  DeviceInv'
<1>1. DeviceTypes' /\ TimersRun'
  BY DEF DeviceInv, DeviceTypes, TimersRun
<1>2. \A i \in 1 .. Len(Devices) : Coming(i)' <=> Coming(i)
  BY DEF Coming
<1> QED
  BY <1>1, <1>2 DEF DeviceInv, SignalsCounted

LEMMA LostDevices ==
  ASSUME DeviceInv, NEW d \in DeviceSet, SignalLost(d)
  PROVE  DeviceInv'
<1>1. /\ timer' = [timer EXCEPT ![d] = "again"]
      /\ UNCHANGED <<devPc, at, waitQueue, sigs, devSig>>
  BY DEF SignalLost, devVars
<1>2. DeviceTypes' /\ TimersRun'
  BY <1>1 DEF DeviceInv, DeviceTypes, TimersRun
<1> QED
  BY <1>1, <1>2 DEF DeviceInv, SignalsCounted, Coming
-----------------------------------------------------------------------------
(***************************************************************************)
(* All steps of the kernel, and the theorem about the devices.             *)
(***************************************************************************)
\* The process that asks for I/O is a process: the main thread has one in hand
\* from getNextToRun to the end of the tick.
LEMMA NextDevices ==
  ASSUME DeviceInv, [Next]_vars, mainPc = "run" => running \in Procs
  PROVE  DeviceInv'
<1>1. CASE UNCHANGED <<devVars, timers>>
  BY <1>1, IdleDevices DEF devVars, timers
<1>2. CASE RunIO
  BY <1>2, ScheduleDevices DEF RunIO, Main
<1>3. CASE DeviceThread
  <2>1. CASE Wait
    BY <2>1, WaitDevices
  <2>2. CASE Poll
    BY <2>2, PollDevices
  <2>3. CASE Check \/ Move
    BY <2>3, IdleDevices DEF Check, Move, Dev, timers
  <2>4. CASE Log
    <3>1. CASE NextDevice
      BY <2>4, <3>1, LogDevices DEF Log
    <3>2. CASE UNCHANGED devVars
      BY <2>4, <3>2, IdleDevices DEF Log, devVars, timers
    <3> QED
      BY <2>4, <3>1, <3>2 DEF Log
  <2> QED
    BY <1>3, <2>1, <2>2, <2>3, <2>4 DEF DeviceThread
<1>4. CASE \E d \in DeviceSet : Timer(d)
  <2> PICK d \in DeviceSet : Timer(d)
    BY <1>4
  <2>1. CASE Fire(d) \/ FireAgain(d)
    BY <2>1, PostDevices DEF Fire, FireAgain
  <2>2. CASE SignalLost(d)
    BY <2>2, LostDevices
  <2> QED
    BY <2>1, <2>2 DEF Timer
<1>5. CASE MainThread /\ ~ RunIO
  <2> UNCHANGED <<devVars, timers>>
    BY <1>5 DEF MainThread, Pick, LotteryAsserts, RunWork, RunEnd, RunCreate, Add, Block,
                EndBlock, Count, ExitTest
  <2> QED
    BY <1>1
<1> QED
  BY <1>1, <1>2, <1>3, <1>4, <1>5 DEF Next, vars

LEMMA DevicesWake == DeviceInv => NoWakeupLost
<1> SUFFICES ASSUME DeviceInv PROVE NoWakeupLost
  OBVIOUS
<1>1. ASSUME NEW i \in 1 .. Len(Devices), sigs[Devices[i]] > 0, ~ (devSig > 0)
      PROVE  Coming(i)
  <2> sigs[Devices[i]] \in Nat /\ devSig \in Nat
    BY DeviceFacts DEF DeviceInv, DeviceTypes
  <2> QED
    BY <1>1 DEF DeviceInv, SignalsCounted
<1> QED
  BY <1>1 DEF DeviceInv, TimersRun, NoWakeupLost, Coming

-----------------------------------------------------------------------------
(***************************************************************************)
(* Queues that hold each element of a set once.                            *)
(***************************************************************************)
Lists(q, S) ==
  /\ \A i \in 1 .. Len(q) : q[i] \in S
  /\ \A i, j \in 1 .. Len(q) : q[i] = q[j] => i = j
  /\ \A p \in S : \E i \in 1 .. Len(q) : q[i] = p

LEMMA ListAppend ==
  ASSUME NEW q \in Seq(Procs), NEW S, NEW p \in Procs, Lists(q, S), p \notin S
  PROVE  Append(q, p) \in Seq(Procs) /\ Lists(Append(q, p), S \cup {p})
<1>1. /\ Len(Append(q, p)) = Len(q) + 1 /\ Len(q) \in Nat
      /\ \A i \in 1 .. Len(q) : Append(q, p)[i] = q[i]
      /\ Append(q, p)[Len(q) + 1] = p
  OBVIOUS
<1>2. \A i \in 1 .. Len(Append(q, p)) : i \in 1 .. Len(q) \/ i = Len(q) + 1
  BY <1>1
<1>3. \A i \in 1 .. Len(Append(q, p)) : Append(q, p)[i] \in S \cup {p}
  BY <1>1, <1>2 DEF Lists
<1>4. \A i, j \in 1 .. Len(Append(q, p)) :
        Append(q, p)[i] = Append(q, p)[j] => i = j
  BY <1>1, <1>2 DEF Lists
<1>5. ASSUME NEW x \in S \cup {p}
      PROVE  \E i \in 1 .. Len(Append(q, p)) : Append(q, p)[i] = x
  <2>1. CASE x = p
    BY <1>1, <2>1
  <2>2. CASE x \in S
    <3> PICK i \in 1 .. Len(q) : q[i] = x
      BY <2>2 DEF Lists
    <3> i \in 1 .. Len(Append(q, p)) /\ Append(q, p)[i] = x
      BY <1>1
    <3> QED
      OBVIOUS
  <2> QED
    BY <2>1, <2>2
<1> QED
  BY <1>3, <1>4, <1>5 DEF Lists

LEMMA Joined ==
  ASSUME NEW a \in Seq(Procs), NEW b \in Seq(Procs)
  PROVE  /\ a \o b \in Seq(Procs) /\ Len(a \o b) = Len(a) + Len(b)
         /\ \A i \in 1 .. Len(a) + Len(b) :
              (a \o b)[i] = IF i <= Len(a) THEN a[i] ELSE b[i - Len(a)]
OBVIOUS

LEMMA ListRemove ==
  ASSUME NEW q \in Seq(Procs), NEW S, Lists(q, S), NEW k \in 1 .. Len(q)
  PROVE  /\ RemoveAt(q, k) \in Seq(Procs)
         /\ Lists(RemoveAt(q, k), S \ {q[k]})
<1> DEFINE r == RemoveAt(q, k)
           From(i) == IF i < k THEN i ELSE i + 1
<1>1. /\ r \in Seq(Procs) /\ Len(r) = Len(q) - 1 /\ Len(q) \in Nat /\ k \in Nat
      /\ \A i \in 1 .. Len(r) : r[i] = q[From(i)]
  <2>1. /\ SubSeq(q, 1, k - 1) \in Seq(Procs)
        /\ Len(SubSeq(q, 1, k - 1)) = k - 1
        /\ \A i \in 1 .. k - 1 : SubSeq(q, 1, k - 1)[i] = q[i]
    OBVIOUS
  <2>2. /\ SubSeq(q, k + 1, Len(q)) \in Seq(Procs)
        /\ Len(SubSeq(q, k + 1, Len(q))) = Len(q) - k
        /\ \A i \in 1 .. Len(q) - k : SubSeq(q, k + 1, Len(q))[i] = q[k + i]
    OBVIOUS
  <2> DEFINE a == SubSeq(q, 1, k - 1)
             b == SubSeq(q, k + 1, Len(q))
  <2>3. /\ a \in Seq(Procs) /\ Len(a) = k - 1
        /\ \A i \in 1 .. k - 1 : a[i] = q[i]
    BY <2>1
  <2>4. /\ b \in Seq(Procs) /\ Len(b) = Len(q) - k
        /\ \A i \in 1 .. Len(q) - k : b[i] = q[k + i]
    BY <2>2
  <2>5. r = a \o b
    BY DEF RemoveAt
  <2>6. Len(q) \in Nat /\ k \in 1 .. Len(q)
    OBVIOUS
  <2> HIDE DEF a, b, r
  <2>7. /\ r \in Seq(Procs) /\ Len(r) = Len(a) + Len(b)
        /\ \A i \in 1 .. Len(r) : r[i] = IF i <= Len(a) THEN a[i] ELSE b[i - Len(a)]
    <3>1. /\ a \o b \in Seq(Procs) /\ Len(a \o b) = Len(a) + Len(b)
          /\ \A i \in 1 .. Len(a) + Len(b) :
               (a \o b)[i] = IF i <= Len(a) THEN a[i] ELSE b[i - Len(a)]
      BY ONLY <2>3, <2>4, Joined, Zenon
    <3>2. 1 .. Len(r) = 1 .. Len(a) + Len(b)
      BY <2>5, <3>1, Zenon
    <3> QED
      BY <2>5, <3>1, <3>2, Zenon
  <2>8. Len(r) = Len(q) - 1
    BY <2>3, <2>4, <2>6, <2>7
  <2>9. ASSUME NEW i \in 1 .. Len(r)
        PROVE  r[i] = q[From(i)]
    <3>1. CASE i < k
      <4>1. i \in 1 .. k - 1 /\ i <= Len(a)
        BY <2>3, <2>6, <2>8, <3>1
      <4> QED
        BY <2>3, <2>7, <3>1, <4>1
    <3>2. CASE ~ (i < k)
      <4>1. /\ ~ (i <= Len(a)) /\ i - Len(a) \in 1 .. Len(q) - k
            /\ k + (i - Len(a)) = i + 1
        BY <2>3, <2>6, <2>8, <3>2
      <4>2. r[i] = b[i - Len(a)]
        BY <2>7, <4>1
      <4> QED
        BY <2>4, <3>2, <4>1, <4>2
    <3> QED
      BY <3>1, <3>2
  <2> QED
    BY <2>6, <2>7, <2>8, <2>9
<1> HIDE DEF r
<1>2. /\ \A i \in 1 .. Len(r) : From(i) \in 1 .. Len(q) /\ From(i) # k
      /\ \A i, j \in 1 .. Len(r) : From(i) = From(j) => i = j
  BY <1>1
<1>3. \A i \in 1 .. Len(r) : r[i] \in S \ {q[k]}
  <2> SUFFICES ASSUME NEW i \in 1 .. Len(r) PROVE r[i] \in S \ {q[k]}
    OBVIOUS
  <2>1. r[i] = q[From(i)]
    BY <1>1
  <2>2. From(i) \in 1 .. Len(q) /\ From(i) # k
    BY <1>2
  <2> HIDE DEF From
  <2>3. q[From(i)] \in S /\ q[From(i)] # q[k]
    BY <2>2 DEF Lists
  <2> QED
    BY <2>1, <2>3
<1>4. \A i, j \in 1 .. Len(r) : r[i] = r[j] => i = j
  <2> SUFFICES ASSUME NEW i \in 1 .. Len(r), NEW j \in 1 .. Len(r), r[i] = r[j]
               PROVE  i = j
    OBVIOUS
  <2>1. q[From(i)] = q[From(j)]
    BY <1>1
  <2>2. From(i) \in 1 .. Len(q) /\ From(j) \in 1 .. Len(q)
    BY <1>2
  <2> HIDE DEF From
  <2>3. From(i) = From(j)
    BY <2>1, <2>2 DEF Lists
  <2> QED
    BY <1>2, <2>3
<1>5. ASSUME NEW x \in S \ {q[k]}
      PROVE  \E i \in 1 .. Len(r) : r[i] = x
  <2> PICK j \in 1 .. Len(q) : q[j] = x
    BY DEF Lists
  <2> DEFINE i == IF j < k THEN j ELSE j - 1
  <2>1. j # k /\ i \in 1 .. Len(r) /\ From(i) = j
    BY <1>1
  <2> QED
    BY <1>1, <2>1
<1> QED
  BY <1>1, <1>3, <1>4, <1>5 DEF Lists, r

LEMMA ListTail ==
  ASSUME NEW q \in Seq(Procs), NEW S, Lists(q, S), q # <<>>
  PROVE  Tail(q) \in Seq(Procs) /\ Lists(Tail(q), S \ {Head(q)}) /\ Head(q) \in S
<1>1. /\ Tail(q) \in Seq(Procs) /\ Len(Tail(q)) = Len(q) - 1 /\ Len(q) \in Nat \ {0}
      /\ \A i \in 1 .. Len(q) - 1 : Tail(q)[i] = q[i + 1]
      /\ Head(q) = q[1]
  OBVIOUS
<1>2. \A i \in 1 .. Len(Tail(q)) : Tail(q)[i] \in S \ {Head(q)}
  <2> SUFFICES ASSUME NEW i \in 1 .. Len(Tail(q))
               PROVE  Tail(q)[i] \in S \ {Head(q)}
    OBVIOUS
  <2>1. i + 1 \in 1 .. Len(q) /\ 1 \in 1 .. Len(q) /\ i + 1 # 1
    BY <1>1
  <2>2. q[i + 1] \in S /\ q[i + 1] # q[1]
    BY <2>1 DEF Lists
  <2> QED
    BY <1>1, <2>2
<1>3. \A i, j \in 1 .. Len(Tail(q)) : Tail(q)[i] = Tail(q)[j] => i = j
  <2> SUFFICES ASSUME NEW i \in 1 .. Len(Tail(q)), NEW j \in 1 .. Len(Tail(q)),
                      Tail(q)[i] = Tail(q)[j]
               PROVE  i = j
    OBVIOUS
  <2>1. i + 1 \in 1 .. Len(q) /\ j + 1 \in 1 .. Len(q) /\ q[i + 1] = q[j + 1]
    BY <1>1
  <2>2. i + 1 = j + 1
    BY <2>1 DEF Lists
  <2> QED
    BY <1>1, <2>2
<1>4. ASSUME NEW x \in S \ {Head(q)}
      PROVE  \E i \in 1 .. Len(Tail(q)) : Tail(q)[i] = x
  <2> PICK j \in 1 .. Len(q) : q[j] = x
    BY DEF Lists
  <2>1. j # 1 /\ j - 1 \in 1 .. Len(Tail(q)) /\ Tail(q)[j - 1] = x
    BY <1>1
  <2> QED
    BY <2>1
<1>5. Head(q) \in S
  BY <1>1 DEF Lists
<1> QED
  BY <1>1, <1>2, <1>3, <1>4, <1>5 DEF Lists

\* No queue is longer than there are processes.
LEMMA ListBound ==
  ASSUME NEW q \in Seq(Procs), NEW S, Lists(q, S)
  PROVE  Len(q) <= Cardinality(Procs) /\ Cardinality(Procs) \in Nat
<1>1. IsFiniteSet(Procs) /\ Cardinality(Procs) \in Nat
  BY SchedulerAssumption, FS_CardinalityType
<1>2. Len(q) \in Nat /\ q \in [1 .. Len(q) -> Procs]
  OBVIOUS
<1>3. q \in Injection(1 .. Len(q), Procs)
  BY <1>2 DEF Lists, Injection, IsInjective
<1>4. Cardinality(1 .. Len(q)) <= Cardinality(Procs)
  BY <1>1, <1>3, FS_Injection
<1>5. Cardinality(1 .. Len(q)) = Len(q)
  BY <1>2, FS_Interval
<1> QED
  BY <1>1, <1>4, <1>5
-----------------------------------------------------------------------------
(***************************************************************************)
(* The queues of the scheduler.  Queued[l] is the set of the processes     *)
(* that belong in queue l: they are ready and not just being added.        *)
(***************************************************************************)
Queued == [l \in Levels |->
             {p \in Procs : state[p] = "ready" /\ newProc # p /\ level[p] = l}]

AllListed(Q, S) == \A l \in Levels : Lists(Q[l], S[l])

SchedTypes ==
  /\ SchedTypeOK
  /\ mainPc \in {"pick", "run", "add", "block", "blocking", "count", "exit?"}
  /\ newProc \in Procs \cup {NoProc}

\* One process has the cpu while an instruction runs, and its state says so; a
\* process that is being created is ready in name only; one queue is in use
\* unless the policy has levels.
OnCpu ==
  /\ mainPc \in {"run", "add", "block", "blocking"} => running # NoProc
  /\ running # NoProc =>
       state[running] = IF mainPc = "blocking" THEN "blocked" ELSE "running"
  /\ \A p \in Procs : state[p] = "running" => running = p
  /\ newProc # NoProc <=> mainPc = "add"
  /\ newProc # NoProc => state[newProc] = "ready"
  /\ policy # "multi" => \A p \in Procs : level[p] = 0

LEMMA LevelFacts ==
  /\ 0 \in Levels /\ TopLevel \in Levels /\ TopLevel \in Nat
  /\ \A a \in Nat : Lowest(a, TopLevel) \in Levels
BY SchedulerAssumption DEF Levels, Lowest

LEMMA PushOne ==
  ASSUME NEW Q \in [Levels -> Seq(Procs)], NEW S \in [Levels -> SUBSET Procs],
         AllListed(Q, S), NEW l \in Levels, NEW p \in Procs, p \notin S[l]
  PROVE  /\ [Q EXCEPT ![l] = Append(@, p)] \in [Levels -> Seq(Procs)]
         /\ AllListed([Q EXCEPT ![l] = Append(@, p)], [S EXCEPT ![l] = @ \cup {p}])
<1>1. /\ Append(Q[l], p) \in Seq(Procs)
      /\ Lists(Append(Q[l], p), S[l] \cup {p})
  BY ListAppend DEF AllListed
<1> QED
  BY <1>1 DEF AllListed

LEMMA PopOne ==
  ASSUME NEW Q \in [Levels -> Seq(Procs)], NEW S \in [Levels -> SUBSET Procs],
         AllListed(Q, S), NEW l \in Levels, NEW i \in 1 .. Len(Q[l])
  PROVE  /\ [Q EXCEPT ![l] = RemoveAt(@, i)] \in [Levels -> Seq(Procs)]
         /\ AllListed([Q EXCEPT ![l] = RemoveAt(@, i)], [S EXCEPT ![l] = @ \ {Q[l][i]}])
         /\ Q[l][i] \in S[l] /\ Q[l][i] \in Procs
<1>1. /\ RemoveAt(Q[l], i) \in Seq(Procs)
      /\ Lists(RemoveAt(Q[l], i), S[l] \ {Q[l][i]})
  BY ListRemove DEF AllListed
<1>2. Q[l][i] \in S[l]
  BY DEF AllListed, Lists
<1> QED
  BY <1>1, <1>2 DEF AllListed

\* Who is a candidate for the cpu when the process that has it is put back.
Candidates(lev) ==
  [l \in Levels |->
     {p \in Procs : (state[p] = "ready" \/ p = running) /\ lev[p] = l}]

LEMMA PutBackListed ==
  ASSUME SchedTypes, OnCpu, mainPc = "pick", AllListed(ready, Queued),
         NEW b \in Levels, NEW lev \in [Procs -> Levels],
         \A p \in Procs : p # running => lev[p] = level[p],
         running # NoProc => lev[running] = b
  PROVE  /\ PutBack(b) \in [Levels -> Seq(Procs)]
         /\ AllListed(PutBack(b), Candidates(lev))
<1>1. /\ newProc = NoProc /\ NoProc \notin Procs
      /\ ready \in [Levels -> Seq(Procs)]
      /\ Queued \in [Levels -> SUBSET Procs]
  BY SchedulerAssumption DEF OnCpu, SchedTypes, SchedTypeOK, Queued
<1>2. CASE running = NoProc
  <2>1. PutBack(b) = ready
    BY <1>2 DEF PutBack
  <2>2. Candidates(lev) = Queued
    BY <1>1, <1>2 DEF Candidates, Queued
  <2> QED
    BY <1>1, <2>1, <2>2
<1>3. CASE running # NoProc
  <2>1. running \in Procs /\ state[running] = "running"
    BY <1>3 DEF OnCpu, SchedTypes, SchedTypeOK
  <2>2. running \notin Queued[b]
    BY <2>1 DEF Queued
  <2>3. /\ PutBack(b) = [ready EXCEPT ![b] = Append(@, running)]
    BY <1>3 DEF PutBack
  <2>4. Candidates(lev) = [Queued EXCEPT ![b] = @ \cup {running}]
    <3> SUFFICES ASSUME NEW l \in Levels
                 PROVE  Candidates(lev)[l] = IF l = b THEN Queued[l] \cup {running}
                                             ELSE Queued[l]
      <4> Candidates(lev) \in [Levels -> SUBSET Procs]
        BY DEF Candidates
      <4> QED
        BY <1>1
    <3>1. ASSUME NEW p \in Procs
          PROVE  p \in Candidates(lev)[l] <=>
                   p \in IF l = b THEN Queued[l] \cup {running} ELSE Queued[l]
      BY <1>1, <1>3, <2>1 DEF Candidates, Queued
    <3> QED
      BY <2>1, <3>1 DEF Candidates, Queued
  <2>5. /\ PutBack(b) \in [Levels -> Seq(Procs)]
        /\ AllListed(PutBack(b), [Queued EXCEPT ![b] = @ \cup {running}])
    <3>1. [ready EXCEPT ![b] = Append(@, running)] \in [Levels -> Seq(Procs)]
      BY <1>1, <2>1, <2>2, PushOne, Zenon
    <3>2. AllListed([ready EXCEPT ![b] = Append(@, running)],
                    [Queued EXCEPT ![b] = @ \cup {running}])
      BY <1>1, <2>1, <2>2, PushOne, Zenon
    <3> QED
      BY <2>3, <3>1, <3>2
  <2> QED
    BY <2>4, <2>5
<1> QED
  BY <1>2, <1>3

\* What getNextToRun leaves behind when it gives the cpu to another process.
LEMMA TakeListed ==
  ASSUME SchedTypes, OnCpu, mainPc = "pick", newProc' = newProc,
         NEW Q \in [Levels -> Seq(Procs)], NEW l \in Levels, NEW i \in 1 .. Len(Q[l]),
         level' \in [Procs -> Levels], AllListed(Q, Candidates(level')), Take(Q, l, i)
  PROVE  /\ ready' \in [Levels -> Seq(Procs)]
         /\ AllListed(ready', Queued')
         /\ running' \in Procs /\ level'[running'] = l
         /\ state' \in [Procs -> {"none", "ready", "running", "blocked", "terminated"}]
         /\ state'[running'] = "running"
         /\ \A p \in Procs : state'[p] = "running" => p = running'
         /\ \A p \in Procs : state'[p] = "blocked" <=> state[p] = "blocked"
         /\ \A p \in Procs : state'[p] # state[p] =>
              {state'[p], state[p]} = {"ready", "running"}
<1> DEFINE C == Candidates(level')
           x == Q[l][i]
<1>1. /\ newProc = NoProc /\ NoProc \notin Procs
      /\ state \in [Procs -> {"none", "ready", "running", "blocked", "terminated"}]
      /\ running # NoProc => running \in Procs /\ state[running] = "running"
      /\ \A p \in Procs : state[p] = "running" => running = p
  BY SchedulerAssumption DEF OnCpu, SchedTypes, SchedTypeOK
<1>2. C \in [Levels -> SUBSET Procs]
  BY DEF Candidates
<1>3. /\ ready' = [Q EXCEPT ![l] = RemoveAt(@, i)] /\ running' = x
      /\ state' = [p \in Procs |-> IF p = x THEN "running"
                                   ELSE IF p = running THEN "ready" ELSE state[p]]
  BY DEF Take
<1>4. /\ ready' \in [Levels -> Seq(Procs)] /\ x \in C[l] /\ x \in Procs
      /\ AllListed(ready', [C EXCEPT ![l] = @ \ {x}])
  BY <1>2, <1>3, PopOne
<1>5. /\ level'[x] = l /\ (state[x] = "ready" \/ x = running)
  BY <1>4 DEF Candidates
<1>6. \A p \in Procs : state'[p] = IF p = x THEN "running"
                                   ELSE IF p = running THEN "ready" ELSE state[p]
  BY <1>3
<1>7. /\ state' \in [Procs -> {"none", "ready", "running", "blocked", "terminated"}]
  BY <1>1, <1>3, <1>6
<1>8. Queued' = [C EXCEPT ![l] = @ \ {x}]
  <2> SUFFICES ASSUME NEW k \in Levels
               PROVE  Queued'[k] = IF k = l THEN C[k] \ {x} ELSE C[k]
    BY DEF Queued, Candidates
  <2>1. ASSUME NEW p \in Procs
        PROVE  p \in Queued'[k] <=> p \in IF k = l THEN C[k] \ {x} ELSE C[k]
    <3>1. p \in Queued'[k] <=> state'[p] = "ready" /\ level'[p] = k
      BY <1>1 DEF Queued
    <3>2. p \in C[k] <=> (state[p] = "ready" \/ p = running) /\ level'[p] = k
      BY DEF Candidates
    <3>3. state'[p] = "ready" <=> p # x /\ (p = running \/ state[p] = "ready")
      BY <1>6
    <3> HIDE DEF x, C
    <3> QED
      BY <1>5, <3>1, <3>2, <3>3
  <2> QED
    BY <2>1 DEF Queued, Candidates
<1> QED
  BY <1>1, <1>3, <1>4, <1>5, <1>6, <1>7, <1>8
-----------------------------------------------------------------------------
(***************************************************************************)
(* The scheduler's invariant, and the steps of getNextToRun.               *)
(***************************************************************************)
BlockedProcs == {p \in Procs : state[p] = "blocked"}

Counted == totalBlocked + (IF mainPc = "blocking" THEN 1 ELSE 0)
             = Cardinality(BlockedProcs)

SchedInv ==
  SchedTypes /\ OnCpu /\ AllListed(ready, Queued) /\ Counted /\ QuantumFair

LEMMA SwitchStep ==
  ASSUME SchedInv, mainPc = "pick", mainPc' = "run", newProc' = newProc,
         NEW Q \in [Levels -> Seq(Procs)], NEW l \in Levels, NEW i \in 1 .. Len(Q[l]),
         level' \in [Procs -> Levels], AllListed(Q, Candidates(level')), Take(Q, l, i),
         policy # "multi" => level' = level,
         used' \in Nat, currentLevel' \in Levels,
         policy = "rr" => used' \in 1 .. Quantum,
         policy = "multi" =>
           used' \in 1 .. LevelQuanta[currentLevel'] /\ currentLevel' = l
  PROVE  /\ SchedInv'
         /\ \A p \in Procs : state'[p] = "blocked" <=> state[p] = "blocked"
         /\ \A p \in Procs : state'[p] # state[p] =>
              {state'[p], state[p]} = {"ready", "running"}
<1>1. /\ ready' \in [Levels -> Seq(Procs)]
      /\ AllListed(ready', Queued')
      /\ running' \in Procs /\ level'[running'] = l
      /\ state' \in [Procs -> {"none", "ready", "running", "blocked", "terminated"}]
      /\ state'[running'] = "running"
      /\ \A p \in Procs : state'[p] = "running" => p = running'
      /\ \A p \in Procs : state'[p] = "blocked" <=> state[p] = "blocked"
      /\ \A p \in Procs : state'[p] # state[p] =>
           {state'[p], state[p]} = {"ready", "running"}
  BY TakeListed DEF SchedInv
<1>2. UNCHANGED <<policy, priority, totalBlocked, totalTickets, slot, readyID>>
  BY DEF Take
<1>3. newProc = NoProc /\ NoProc \notin Procs
  BY SchedulerAssumption DEF SchedInv, OnCpu
<1>4. SchedTypes'
  BY <1>1, <1>2, <1>3 DEF SchedInv, SchedTypes, SchedTypeOK, Levels
<1>5. OnCpu'
  BY <1>1, <1>2, <1>3 DEF SchedInv, OnCpu
<1>6. Counted'
  <2>1. BlockedProcs' = BlockedProcs
    BY <1>1 DEF BlockedProcs
  <2> QED
    BY <1>2, <2>1 DEF SchedInv, Counted
<1>7. QuantumFair'
  BY <1>1, <1>2, <1>3 DEF QuantumFair
<1> QED
  BY <1>1, <1>4, <1>5, <1>6, <1>7 DEF SchedInv

\* The slots of the lottery are integers, whoever enters or leaves the vector.
VectorTypes ==
  slot \in [Procs -> Int] /\ readyID \in [next : Int, free : Seq(Int)]

LEMMA VectorTyped ==
  ASSUME VectorTypes, NEW p \in Procs, EnterVector(p) \/ LeaveVector(p)
  PROVE  VectorTypes'
<1>1. /\ slot \in [Procs -> Int] /\ slot[p] \in Int
      /\ readyID = [next |-> readyID.next, free |-> readyID.free]
      /\ readyID.next \in Int /\ readyID.free \in Seq(Int)
  BY DEF VectorTypes
<1>2. CASE UNCHANGED <<slot, readyID>>
  BY <1>2 DEF VectorTypes
<1>3. CASE EnterVector(p) /\ readyID.free # <<>>
  <2> Head(readyID.free) \in Int /\ Tail(readyID.free) \in Seq(Int)
    BY <1>1, <1>3
  <2> QED
    BY <1>1, <1>3 DEF EnterVector, VectorTypes
<1>4. CASE EnterVector(p) /\ readyID.free = <<>>
  BY <1>1, <1>4 DEF EnterVector, VectorTypes
<1>5. CASE LeaveVector(p)
  <2> Append(readyID.free, slot[p]) \in Seq(Int) /\ NoSlot \in Int
    BY <1>1 DEF NoSlot
  <2> QED
    BY <1>1, <1>5 DEF LeaveVector, VectorTypes
<1> QED
  BY <1>2, <1>3, <1>4, <1>5

LEMMA PickSched ==
  ASSUME SchedInv, Pick
  PROVE  /\ SchedInv'
         /\ \A p \in Procs : state'[p] = "blocked" <=> state[p] = "blocked"
         /\ \A p \in Procs : state'[p] # state[p] =>
              {state'[p], state[p]} = {"ready", "running"}
<1>1. /\ mainPc = "pick" /\ mainPc' = "run" /\ newProc' = newProc
      /\ newProc = NoProc /\ NoProc \notin Procs
      /\ running # NoProc => running \in Procs /\ state[running] = "running"
      /\ ready \in [Levels -> Seq(Procs)] /\ level \in [Procs -> Levels]
      /\ used \in Nat /\ currentLevel \in Levels
      /\ running \in Procs \cup {NoProc}
      /\ SchedTypes /\ OnCpu /\ AllListed(ready, Queued)
  BY SchedulerAssumption DEF Pick, Main, SchedInv, SchedTypes, SchedTypeOK, OnCpu
<1>2. CASE KeepRunning
  <2>1. /\ running # NoProc
        /\ \/ policy = "fcfs"
           \/ policy = "rr" /\ used < Quantum
           \/ policy = "multi" /\ used < LevelQuanta[currentLevel]
        /\ used' = IF policy = "fcfs" THEN used ELSE used + 1
        /\ UNCHANGED <<policy, state, priority, ready, running, totalBlocked, level,
                       currentLevel, totalTickets, slot, readyID>>
    BY <1>2 DEF KeepRunning, KeepsCPU
  <2>2. SchedTypes'
    BY <1>1, <2>1 DEF SchedTypes, SchedTypeOK, Levels
  <2>3. OnCpu' /\ AllListed(ready', Queued')
    BY <1>1, <2>1 DEF OnCpu, Queued, AllListed, Levels
  <2>4. Counted'
    BY <1>1, <2>1 DEF SchedInv, Counted, BlockedProcs
  <2>5. QuantumFair'
    <3>1. Quantum \in Nat /\ LevelQuanta[currentLevel] \in Nat
      BY <1>1, SchedulerAssumption DEF Levels
    <3> QED
      BY <1>1, <2>1, <3>1 DEF SchedInv, QuantumFair
  <2> QED
    BY <2>1, <2>2, <2>3, <2>4, <2>5 DEF SchedInv
<1>3. ASSUME NEW b \in Levels, NEW lev \in [Procs -> Levels],
             \A p \in Procs : p # running => lev[p] = level[p],
             running # NoProc => lev[running] = b
      PROVE  /\ PutBack(b) \in [Levels -> Seq(Procs)]
             /\ AllListed(PutBack(b), Candidates(lev))
  BY <1>1, <1>3, PutBackListed
<1>4. policy # "multi" =>
        /\ PutBack(0) \in [Levels -> Seq(Procs)]
        /\ AllListed(PutBack(0), Candidates(level))
  <2> SUFFICES ASSUME policy # "multi"
               PROVE  /\ PutBack(0) \in [Levels -> Seq(Procs)]
                      /\ AllListed(PutBack(0), Candidates(level))
    OBVIOUS
  <2>1. running # NoProc => level[running] = 0
    BY <1>1 DEF OnCpu
  <2> QED
    BY <1>1, <1>3, <2>1, LevelFacts
<1>5. CASE FCFSNext
  <2>1. /\ policy = "fcfs" /\ Take(ready, 0, 1) /\ ready = PutBack(0)
        /\ UNCHANGED <<used, level, currentLevel>>
    BY <1>5 DEF FCFSNext, PutBack
  <2>2. 1 \in 1 .. Len(ready[0])
    BY <1>1, <2>1, LevelFacts DEF Take
  <2>3. AllListed(ready, Candidates(level'))
    BY <1>4, <2>1
  <2> QED
    BY <1>1, <2>1, <2>2, <2>3, LevelFacts, SwitchStep
<1>6. CASE RRNext
  <2>1. /\ policy = "rr" /\ Take(PutBack(0), 0, 1)
        /\ used' = (IF running = NoProc THEN used ELSE 0) + 1
        /\ UNCHANGED <<level, currentLevel>>
    BY <1>6 DEF RRNext
  <2>2. PutBack(0) \in [Levels -> Seq(Procs)] /\ AllListed(PutBack(0), Candidates(level'))
    BY <1>4, <2>1
  <2>3. 1 \in 1 .. Len(PutBack(0)[0])
    BY <2>1, <2>2, LevelFacts DEF Take
  <2>4. used' = 1 /\ 1 \in 1 .. Quantum
    BY <1>1, <2>1, SchedulerAssumption DEF SchedInv, QuantumFair
  <2>5. /\ SchedInv /\ mainPc = "pick" /\ mainPc' = "run" /\ newProc' = newProc
        /\ 0 \in Levels /\ level' \in [Procs -> Levels] /\ level' = level
        /\ used' \in Nat /\ currentLevel' \in Levels
        /\ used' \in 1 .. Quantum /\ policy # "multi"
    BY <1>1, <2>1, <2>4, LevelFacts
  <2> QED
    BY ONLY <2>1, <2>2, <2>3, <2>5, SwitchStep
<1>7. CASE LotteryNext
  <2>1. policy = "lottery" /\ UNCHANGED <<used, level, currentLevel>>
    BY <1>7 DEF LotteryNext
  <2> PICK i \in 1 .. Cardinality(Procs) : Take(PutBack(0), 0, i)
    BY <1>7 DEF LotteryNext
  <2>2. PutBack(0) \in [Levels -> Seq(Procs)] /\ AllListed(PutBack(0), Candidates(level'))
    BY <1>4, <2>1
  <2>3. i \in 1 .. Len(PutBack(0)[0])
    BY <2>2, LevelFacts DEF Take
  <2> QED
    BY <1>1, <2>1, <2>2, <2>3, LevelFacts, SwitchStep
<1>8. CASE MultiNext
  <2> DEFINE b == IF running = NoProc THEN 0 ELSE BackLevel
             Q == PutBack(b)
             lev == IF running = NoProc THEN level
                    ELSE [level EXCEPT ![running] = BackLevel]
  <2>1. /\ b \in Levels /\ lev \in [Procs -> Levels]
        /\ \A p \in Procs : p # running => lev[p] = level[p]
        /\ running # NoProc => lev[running] = b
    <3>1. running # NoProc => BackLevel \in Levels
      <4>1. running # NoProc => level[running] + 1 \in Nat
        BY <1>1 DEF Levels
      <4> QED
        BY <4>1, LevelFacts DEF BackLevel
    <3> QED
      BY <1>1, <3>1, LevelFacts
  <2>2. Q \in [Levels -> Seq(Procs)] /\ AllListed(Q, Candidates(lev))
    BY <1>3, <2>1
  <2>3. Q = IF running # NoProc THEN PutBack(BackLevel) ELSE ready
    BY DEF PutBack
  <2>4. /\ policy = "multi" /\ used' = 1
        /\ \E l \in Levels :
             /\ Take(Q, l, 1)
             /\ level' = [lev EXCEPT ![Q[l][1]] = l]
             /\ currentLevel' = l
    BY <1>8, <2>3, Zenon DEF MultiNext
  <2> HIDE DEF Q, lev, b
  <2> PICK l \in Levels : /\ Take(Q, l, 1)
                          /\ level' = [lev EXCEPT ![Q[l][1]] = l]
                          /\ currentLevel' = l
    BY <2>4
  <2>5. 1 \in 1 .. Len(Q[l])
    BY <2>2 DEF Take
  <2>6. Q[l][1] \in Procs /\ lev[Q[l][1]] = l
    BY <2>2, <2>5 DEF AllListed, Lists, Candidates
  <2>7. level' = lev
    BY <2>1, <2>6
  <2>8. 1 \in 1 .. LevelQuanta[l]
    BY SchedulerAssumption DEF Levels
  <2> QED
    BY <1>1, <2>1, <2>2, <2>4, <2>5, <2>7, <2>8, SwitchStep
<1> QED
  BY <1>2, <1>5, <1>6, <1>7, <1>8 DEF Pick, GetNextToRun
-----------------------------------------------------------------------------
(***************************************************************************)
(* The other steps of the main thread, and the one in which the device     *)
(* thread unblocks a process.                                              *)
(***************************************************************************)
LEMMA BlockedFinite ==
  IsFiniteSet(BlockedProcs) /\ Cardinality(BlockedProcs) \in Nat
BY SchedulerAssumption, FS_Subset, FS_CardinalityType DEF BlockedProcs

LEMMA EndSched ==
  ASSUME SchedInv, RunEnd
  PROVE  SchedInv'
<1>1. /\ mainPc = "run" /\ mainPc' = "count" /\ newProc' = newProc /\ newProc = NoProc
      /\ NoProc \notin Procs /\ running \in Procs /\ state[running] = "running"
      /\ state' = [state EXCEPT ![running] = "terminated"] /\ running' = NoProc
      /\ used' = IF policy = "rr" THEN 0 ELSE used
      /\ totalTickets' = totalTickets - Tickets(running)
      /\ UNCHANGED <<policy, priority, ready, totalBlocked, level, currentLevel>>
  BY SchedulerAssumption
  DEF RunEnd, Main, RemoveProcess, SchedInv, SchedTypes, SchedTypeOK, OnCpu
<1>2. SchedTypes'
  <2>1. VectorTypes'
    BY <1>1, VectorTyped DEF RunEnd, RemoveProcess, SchedInv, SchedTypes, SchedTypeOK,
                             VectorTypes
  <2>2. totalTickets' \in Int
    BY <1>1 DEF SchedInv, SchedTypes, SchedTypeOK, Tickets
  <2> QED
    BY <1>1, <2>1, <2>2 DEF SchedInv, SchedTypes, SchedTypeOK, Levels, VectorTypes
<1>3. OnCpu'
  BY <1>1 DEF SchedInv, SchedTypes, SchedTypeOK, OnCpu
<1>4. AllListed(ready', Queued')
  <2> Queued' = Queued
    BY <1>1 DEF SchedInv, SchedTypes, SchedTypeOK, Queued, Levels
  <2> QED
    BY <1>1 DEF SchedInv
<1>5. Counted'
  <2> BlockedProcs' = BlockedProcs
    BY <1>1 DEF SchedInv, SchedTypes, SchedTypeOK, BlockedProcs
  <2> QED
    BY <1>1 DEF SchedInv, Counted
<1>6. QuantumFair'
  BY <1>1 DEF QuantumFair
<1> QED
  BY <1>2, <1>3, <1>4, <1>5, <1>6 DEF SchedInv

LEMMA CreateSched ==
  ASSUME SchedInv, RunCreate
  PROVE  SchedInv'
<1>1. PICK p \in Procs : \E n \in Priorities[policy] :
        /\ state[p] = "none" /\ state' = [state EXCEPT ![p] = "ready"]
        /\ priority' = [priority EXCEPT ![p] = n] /\ newProc' = p
  BY DEF RunCreate
<1>2. /\ mainPc = "run" /\ mainPc' = "add" /\ newProc = NoProc
      /\ NoProc \notin Procs /\ running \in Procs /\ state[running] = "running"
      /\ UNCHANGED <<policy, ready, running, totalBlocked, used, level,
                     currentLevel, totalTickets, slot, readyID>>
  BY SchedulerAssumption
  DEF RunCreate, Main, SchedInv, SchedTypes, SchedTypeOK, OnCpu
<1>3. SchedTypes'
  <2> Priorities[policy] \subseteq Nat
    BY KernelAssumption DEF SchedInv, SchedTypes, SchedTypeOK
  <2> QED
    BY <1>1, <1>2 DEF SchedInv, SchedTypes, SchedTypeOK, Levels
<1>4. OnCpu'
  BY <1>1, <1>2 DEF SchedInv, SchedTypes, SchedTypeOK, OnCpu
<1>5. AllListed(ready', Queued')
  <2> Queued' = Queued
    BY <1>1, <1>2 DEF SchedInv, SchedTypes, SchedTypeOK, Queued, Levels
  <2> QED
    BY <1>2 DEF SchedInv
<1>6. Counted'
  <2> BlockedProcs' = BlockedProcs
    BY <1>1, <1>2 DEF SchedInv, SchedTypes, SchedTypeOK, BlockedProcs
  <2> QED
    BY <1>2 DEF SchedInv, Counted
<1>7. QuantumFair'
  BY <1>1, <1>2 DEF SchedInv, SchedTypes, SchedTypeOK, QuantumFair
<1> QED
  BY <1>3, <1>4, <1>5, <1>6, <1>7 DEF SchedInv

LEMMA AddSched ==
  ASSUME SchedInv, Add
  PROVE  SchedInv'
<1> DEFINE p == newProc
           b == StartLevel(p)
<1>1. /\ mainPc = "add" /\ mainPc' = "count" /\ newProc' = NoProc
      /\ p \in Procs /\ state[p] = "ready" /\ NoProc \notin Procs
      /\ running \in Procs /\ state[running] = "running" /\ running # p
      /\ ready' = [ready EXCEPT ![b] = Append(@, p)]
      /\ level' = [level EXCEPT ![p] = b]
      /\ totalTickets' = totalTickets + Tickets(p)
      /\ UNCHANGED <<policy, state, priority, running, totalBlocked, used,
                     currentLevel>>
  BY SchedulerAssumption
  DEF Add, AddProcess, Main, SchedInv, SchedTypes, SchedTypeOK, OnCpu
<1>2. b \in Levels /\ (policy # "multi" => b = 0)
  BY <1>1, LevelFacts DEF StartLevel, SchedInv, SchedTypes, SchedTypeOK
<1>3. /\ ready \in [Levels -> Seq(Procs)] /\ level \in [Procs -> Levels]
      /\ Queued \in [Levels -> SUBSET Procs] /\ AllListed(ready, Queued)
      /\ p \notin Queued[b]
  BY <1>2 DEF SchedInv, SchedTypes, SchedTypeOK, Queued
<1> HIDE DEF b
<1>4. Queued' = [Queued EXCEPT ![b] = @ \cup {p}]
  <2> SUFFICES ASSUME NEW l \in Levels
               PROVE  Queued'[l] = IF l = b THEN Queued[l] \cup {p} ELSE Queued[l]
    <3> Queued' \in [Levels -> SUBSET Procs]
      BY DEF Queued, Levels
    <3> QED
      BY <1>3
  <2>1. ASSUME NEW x \in Procs
        PROVE  x \in Queued'[l] <=>
                 x \in IF l = b THEN Queued[l] \cup {p} ELSE Queued[l]
    BY <1>1, <1>2, <1>3 DEF Queued, Levels
  <2> QED
    BY <1>1, <2>1 DEF Queued, Levels
<1>5. ready' \in [Levels -> Seq(Procs)] /\ AllListed(ready', Queued')
  <2>1. /\ [ready EXCEPT ![b] = Append(@, p)] \in [Levels -> Seq(Procs)]
        /\ AllListed([ready EXCEPT ![b] = Append(@, p)],
                     [Queued EXCEPT ![b] = @ \cup {p}])
    BY <1>1, <1>2, <1>3, PushOne, Zenon
  <2> QED
    BY <1>1, <1>4, <2>1
<1>6. SchedTypes'
  <2>1. totalTickets' \in Int
    BY <1>1 DEF SchedInv, SchedTypes, SchedTypeOK, Tickets
  <2>2. level' \in [Procs -> Levels]
    BY <1>1, <1>2, <1>3
  <2>3. VectorTypes'
    BY <1>1, VectorTyped DEF Add, AddProcess, SchedInv, SchedTypes, SchedTypeOK, VectorTypes
  <2> QED
    BY <1>1, <1>5, <2>1, <2>2, <2>3 DEF SchedInv, SchedTypes, SchedTypeOK, Levels, VectorTypes
<1>7. OnCpu'
  BY <1>1, <1>2, <1>3 DEF SchedInv, OnCpu
<1>8. Counted'
  <2> BlockedProcs' = BlockedProcs
    BY <1>1 DEF BlockedProcs
  <2> QED
    BY <1>1 DEF SchedInv, Counted
<1>9. QuantumFair'
  BY <1>1, <1>3 DEF SchedInv, QuantumFair
<1> QED
  BY <1>5, <1>6, <1>7, <1>8, <1>9 DEF SchedInv

LEMMA BlockSched ==
  ASSUME SchedInv, Block
  PROVE  SchedInv'
<1>1. /\ mainPc = "block" /\ mainPc' = "blocking" /\ newProc' = newProc
      /\ newProc = NoProc
      /\ NoProc \notin Procs /\ running \in Procs /\ state[running] = "running"
      /\ state' = [state EXCEPT ![running] = "blocked"]
      /\ UNCHANGED <<policy, priority, ready, running, totalBlocked, used, level,
                     currentLevel, totalTickets, slot, readyID>>
  BY SchedulerAssumption
  DEF Block, Main, MarkBlocked, SchedInv, SchedTypes, SchedTypeOK, OnCpu
<1>2. SchedTypes'
  BY <1>1 DEF SchedInv, SchedTypes, SchedTypeOK, Levels
<1>3. OnCpu'
  BY <1>1 DEF SchedInv, SchedTypes, SchedTypeOK, OnCpu
<1>4. AllListed(ready', Queued')
  <2> Queued' = Queued
    BY <1>1 DEF SchedInv, SchedTypes, SchedTypeOK, Queued, Levels
  <2> QED
    BY <1>1 DEF SchedInv
<1>5. Counted'
  <2>1. BlockedProcs' = BlockedProcs \cup {running} /\ running \notin BlockedProcs
    BY <1>1 DEF SchedInv, SchedTypes, SchedTypeOK, BlockedProcs
  <2>2. Cardinality(BlockedProcs') = Cardinality(BlockedProcs) + 1
    BY <2>1, BlockedFinite, FS_AddElement
  <2> QED
    BY <1>1, <2>2 DEF SchedInv, SchedTypes, SchedTypeOK, Counted
<1>6. QuantumFair'
  BY <1>1 DEF SchedInv, SchedTypes, SchedTypeOK, QuantumFair
<1> QED
  BY <1>2, <1>3, <1>4, <1>5, <1>6 DEF SchedInv

LEMMA EndBlockSched ==
  ASSUME SchedInv, EndBlock
  PROVE  SchedInv'
<1>1. /\ mainPc = "blocking" /\ mainPc' = "count" /\ newProc' = newProc
      /\ newProc = NoProc
      /\ NoProc \notin Procs /\ running \in Procs /\ state[running] = "blocked"
      /\ totalBlocked' = totalBlocked + 1 /\ running' = NoProc /\ used' = 0
      /\ level' = [level EXCEPT ![running] = LevelAfterBlock(running)]
      /\ totalTickets' = totalTickets - Tickets(running)
      /\ UNCHANGED <<policy, state, priority, ready, currentLevel>>
  BY SchedulerAssumption
  DEF EndBlock, Main, FinishBlock, SchedInv, SchedTypes, SchedTypeOK, OnCpu
<1>2. /\ LevelAfterBlock(running) \in Levels
      /\ policy # "multi" => LevelAfterBlock(running) = level[running]
  <2>1. level[running] \in Levels /\ level[running] + 1 \in Nat
    BY <1>1 DEF SchedInv, SchedTypes, SchedTypeOK, Levels
  <2>2. Lowest(level[running] + 1, TopLevel) \in Levels
    BY <2>1, LevelFacts
  <2>3. level[running] # 0 => level[running] - 1 \in Levels
    BY <2>1, LevelFacts DEF Levels
  <2> QED
    BY <2>1, <2>2, <2>3, LevelFacts DEF LevelAfterBlock
<1>3. SchedTypes'
  <2>1. VectorTypes'
    BY <1>1, VectorTyped DEF EndBlock, FinishBlock, SchedInv, SchedTypes, SchedTypeOK,
                             VectorTypes
  <2>2. totalTickets' \in Int
    BY <1>1 DEF SchedInv, SchedTypes, SchedTypeOK, Tickets
  <2>3. level' \in [Procs -> Levels] /\ totalBlocked' \in Nat
    BY <1>1, <1>2 DEF SchedInv, SchedTypes, SchedTypeOK
  <2> QED
    BY <1>1, <2>1, <2>2, <2>3 DEF SchedInv, SchedTypes, SchedTypeOK, Levels, VectorTypes
<1>4. OnCpu'
  BY <1>1, <1>2 DEF SchedInv, SchedTypes, SchedTypeOK, OnCpu
<1>5. AllListed(ready', Queued')
  <2> Queued' = Queued
    BY <1>1 DEF SchedInv, SchedTypes, SchedTypeOK, Queued, Levels
  <2> QED
    BY <1>1 DEF SchedInv
<1>6. Counted'
  <2> BlockedProcs' = BlockedProcs
    BY <1>1 DEF BlockedProcs
  <2> QED
    BY <1>1 DEF SchedInv, SchedTypes, SchedTypeOK, Counted
<1>7. QuantumFair'
  BY <1>1 DEF QuantumFair
<1> QED
  BY <1>3, <1>4, <1>5, <1>6, <1>7 DEF SchedInv

\* unblockProcess: the process leaves the blocked ones and enters its queue.
LEMMA MoveSched ==
  ASSUME SchedInv, Move, hand \in Procs, state[hand] = "blocked"
  PROVE  SchedInv'
<1> DEFINE b == level[hand]
<1>1. /\ mainPc # "blocking" /\ UNCHANGED <<mainPc, newProc>>
      /\ NoProc \notin Procs
      /\ state' = [state EXCEPT ![hand] = "ready"]
      /\ ready' = [ready EXCEPT ![b] = Append(@, hand)]
      /\ totalBlocked' = totalBlocked - 1
      /\ totalTickets' = totalTickets + Tickets(hand)
      /\ UNCHANGED <<policy, priority, running, used, level, currentLevel>>
  BY SchedulerAssumption DEF Move, SchedLocked, UnblockProcess, mainVars
<1>2. /\ hand # newProc /\ hand # running /\ b \in Levels
  BY <1>1 DEF SchedInv, SchedTypes, SchedTypeOK, OnCpu
<1>3. /\ ready \in [Levels -> Seq(Procs)] /\ level \in [Procs -> Levels]
      /\ state \in [Procs -> {"none", "ready", "running", "blocked", "terminated"}]
      /\ Queued \in [Levels -> SUBSET Procs] /\ AllListed(ready, Queued)
      /\ hand \notin Queued[b]
  BY <1>2 DEF SchedInv, SchedTypes, SchedTypeOK, Queued
<1>4. Queued' = [Queued EXCEPT ![b] = @ \cup {hand}]
  <2> SUFFICES ASSUME NEW l \in Levels
               PROVE  Queued'[l] = IF l = b THEN Queued[l] \cup {hand} ELSE Queued[l]
    <3> Queued' \in [Levels -> SUBSET Procs]
      BY DEF Queued, Levels
    <3> QED
      BY <1>3
  <2>1. ASSUME NEW x \in Procs
        PROVE  x \in Queued'[l] <=>
                 x \in IF l = b THEN Queued[l] \cup {hand} ELSE Queued[l]
    BY <1>1, <1>2, <1>3 DEF Queued, Levels
  <2> QED
    BY <1>1, <2>1 DEF Queued, Levels
<1> HIDE DEF b
<1>5. ready' \in [Levels -> Seq(Procs)] /\ AllListed(ready', Queued')
  <2>1. /\ [ready EXCEPT ![b] = Append(@, hand)] \in [Levels -> Seq(Procs)]
        /\ AllListed([ready EXCEPT ![b] = Append(@, hand)],
                     [Queued EXCEPT ![b] = @ \cup {hand}])
    BY <1>1, <1>2, <1>3, PushOne, Zenon
  <2> QED
    BY <1>1, <1>4, <2>1
<1>6. /\ totalBlocked' \in Nat /\ Counted'
  <2>1. BlockedProcs' = BlockedProcs \ {hand} /\ hand \in BlockedProcs
    BY <1>1, <1>3 DEF BlockedProcs
  <2>2. /\ Cardinality(BlockedProcs') = Cardinality(BlockedProcs) - 1
        /\ IsFiniteSet(BlockedProcs')
    BY <2>1, BlockedFinite, FS_RemoveElement
  <2>3. Cardinality(BlockedProcs') \in Nat
    BY <2>2, FS_CardinalityType
  <2>4. totalBlocked = Cardinality(BlockedProcs)
    BY <1>1 DEF SchedInv, SchedTypes, SchedTypeOK, Counted
  <2> QED
    BY <1>1, <2>2, <2>3, <2>4, BlockedFinite DEF Counted
<1>7. SchedTypes'
  <2>1. totalTickets' \in Int
    BY <1>1 DEF SchedInv, SchedTypes, SchedTypeOK, Tickets
  <2>2. state' \in [Procs -> {"none", "ready", "running", "blocked", "terminated"}]
    BY <1>1, <1>3
  <2>3. VectorTypes'
    BY VectorTyped DEF Move, UnblockProcess, SchedInv, SchedTypes, SchedTypeOK, VectorTypes
  <2> QED
    BY <1>1, <1>5, <1>6, <2>1, <2>2, <2>3
    DEF SchedInv, SchedTypes, SchedTypeOK, Levels, VectorTypes
<1>8. OnCpu'
  BY <1>1, <1>2, <1>3 DEF SchedInv, SchedTypes, SchedTypeOK, OnCpu
<1>9. QuantumFair'
  BY <1>1, <1>2, <1>3 DEF SchedInv, SchedTypes, SchedTypeOK, QuantumFair
<1> QED
  BY <1>5, <1>6, <1>7, <1>8, <1>9 DEF SchedInv
-----------------------------------------------------------------------------
(***************************************************************************)
(* The processes that have asked for I/O.  Each of them is in one place:   *)
(* in the queue of one device or in the hands of the device thread.        *)
(***************************************************************************)
Waiting(d) == {waitQueue[d][i] : i \in 1 .. Len(waitQueue[d])}

Asks(p) == state[p] = "blocked" \/ (mainPc = "block" /\ running = p)

Held(p) == hand = p /\ devPc \in {"check", "move"}

Requests ==
  /\ hand \in Procs \cup {NoProc}
  /\ devPc \in {"check", "move", "log"} => hand \in Procs
  /\ \A d \in DeviceSet : Lists(waitQueue[d], Waiting(d))
  /\ \A d, e \in DeviceSet : d # e => Waiting(d) \cap Waiting(e) = {}
  /\ \A p \in Procs :
       (\E d \in DeviceSet : p \in Waiting(d)) <=> Asks(p) /\ ~ Held(p)
  /\ \A p \in Procs : Held(p) => Asks(p)
  /\ devPc = "move" => state[hand] = "blocked"

\* A step that changes neither the queues of the devices nor who asks.
LEMMA SameRequests ==
  ASSUME Requests, UNCHANGED <<waitQueue, hand>>,
         devPc' \in {"check", "move", "log"} => devPc \in {"check", "move", "log"},
         \A p \in Procs : (Asks(p)' <=> Asks(p)) /\ (Held(p)' <=> Held(p)),
         devPc' = "move" => state'[hand] = "blocked"
  PROVE  Requests'
<1>1. \A d \in DeviceSet : Waiting(d)' = Waiting(d)
  BY DEF Waiting
<1>2. \A d \in DeviceSet : Lists(waitQueue'[d], Waiting(d)')
  BY <1>1 DEF Requests
<1>3. \A d, e \in DeviceSet : d # e => Waiting(d)' \cap Waiting(e)' = {}
  BY <1>1 DEF Requests
<1>4. \A p \in Procs :
        (\E d \in DeviceSet : p \in Waiting(d)') <=> Asks(p)' /\ ~ Held(p)'
  BY <1>1 DEF Requests
<1> QED
  BY <1>2, <1>3, <1>4 DEF Requests

LEMMA AsksKept ==
  ASSUME SchedTypes, OnCpu, MainThread, ~ RunIO, ~ Pick
  PROVE  \A p \in Procs : Asks(p)' <=> Asks(p)
<1>1. NoProc \notin Procs /\ running \in Procs \cup {NoProc}
      /\ state \in [Procs -> {"none", "ready", "running", "blocked", "terminated"}]
  BY SchedulerAssumption DEF SchedTypes, SchedTypeOK
<1>2. CASE RunWork \/ Add \/ EndBlock \/ Count \/ ExitTest
  BY <1>2 DEF RunWork, Add, AddProcess, EndBlock, FinishBlock, Count, ExitTest, Main,
              schedVars, Asks
<1>3. CASE RunEnd
  <2> /\ mainPc = "run" /\ mainPc' = "count" /\ running \in Procs
      /\ state[running] = "running" /\ state' = [state EXCEPT ![running] = "terminated"]
    BY <1>1, <1>3 DEF RunEnd, RemoveProcess, Main, OnCpu
  <2> QED
    BY <1>1 DEF Asks
<1>4. CASE RunCreate
  <2> PICK q \in Procs : state[q] = "none" /\ state' = [state EXCEPT ![q] = "ready"]
    BY <1>4 DEF RunCreate
  <2> mainPc = "run" /\ mainPc' = "add"
    BY <1>4 DEF RunCreate, Main
  <2> QED
    BY <1>1 DEF Asks
<1>5. CASE Block
  <2> /\ mainPc = "block" /\ mainPc' = "blocking" /\ running' = running
      /\ running \in Procs /\ state' = [state EXCEPT ![running] = "blocked"]
    BY <1>1, <1>5 DEF Block, MarkBlocked, Main, OnCpu
  <2> QED
    BY <1>1 DEF Asks
<1> QED
  BY <1>2, <1>3, <1>4, <1>5 DEF MainThread, LotteryAsserts, schedVars, mainVars, Asks

\* A device queue to which a process is appended, or from which one is taken.
LEMMA WaitingAppend ==
  ASSUME NEW q \in Seq(Procs), NEW p \in Procs
  PROVE  {Append(q, p)[i] : i \in 1 .. Len(Append(q, p))}
           = {q[i] : i \in 1 .. Len(q)} \cup {p}
<1>1. /\ Len(Append(q, p)) = Len(q) + 1 /\ Len(q) \in Nat
      /\ \A i \in 1 .. Len(q) : Append(q, p)[i] = q[i]
      /\ Append(q, p)[Len(q) + 1] = p
  OBVIOUS
<1>2. /\ \A i \in 1 .. Len(Append(q, p)) : i \in 1 .. Len(q) \/ i = Len(q) + 1
      /\ \A i \in 1 .. Len(q) : i \in 1 .. Len(Append(q, p))
      /\ Len(q) + 1 \in 1 .. Len(Append(q, p))
  BY <1>1
<1> QED
  BY <1>1, <1>2

LEMMA WaitingTail ==
  ASSUME NEW q \in Seq(Procs), q # <<>>, \A i, j \in 1 .. Len(q) : q[i] = q[j] => i = j
  PROVE  {Tail(q)[i] : i \in 1 .. Len(Tail(q))} = {q[i] : i \in 1 .. Len(q)} \ {Head(q)}
<1> DEFINE S == {q[i] : i \in 1 .. Len(q)}
<1>1. Lists(q, S)
  BY DEF Lists
<1>2. Lists(Tail(q), S \ {Head(q)})
  BY <1>1, ListTail
<1>3. {Tail(q)[i] : i \in 1 .. Len(Tail(q))} = S \ {Head(q)}
  <2> HIDE DEF S
  <2> QED
    BY <1>2 DEF Lists
<1> QED
  BY <1>3
LEMMA AskRequests ==
  ASSUME Requests, SchedTypes, OnCpu, DeviceTypes, RunIO
  PROVE  Requests'
<1>1. /\ mainPc = "run" /\ mainPc' = "block" /\ running \in Procs
      /\ state[running] = "running"
      /\ UNCHANGED <<state, running, devPc, hand>>
  BY DEF RunIO, Main, schedVars, devVars, OnCpu, SchedTypes, SchedTypeOK
<1>2. PICK e \in DeviceSet : waitQueue' = [waitQueue EXCEPT ![e] = Append(@, running)]
  BY DEF RunIO, ScheduleDevice
<1>3. \A d \in DeviceSet : waitQueue[d] \in Seq(Procs) /\ Lists(waitQueue[d], Waiting(d))
  BY DEF Requests, DeviceTypes
<1>4. \A d \in DeviceSet : running \notin Waiting(d)
  BY <1>1 DEF Requests, Asks
<1>5. \A d \in DeviceSet :
        /\ waitQueue'[d] = IF d = e THEN Append(waitQueue[e], running) ELSE waitQueue[d]
        /\ Waiting(d)' = IF d = e THEN Waiting(e) \cup {running} ELSE Waiting(d)
  <2> SUFFICES ASSUME NEW d \in DeviceSet
      PROVE  /\ waitQueue'[d] = IF d = e THEN Append(waitQueue[e], running) ELSE waitQueue[d]
             /\ Waiting(d)' = IF d = e THEN Waiting(e) \cup {running} ELSE Waiting(d)
    OBVIOUS
  <2>1. waitQueue'[d] = IF d = e THEN Append(waitQueue[e], running) ELSE waitQueue[d]
    BY <1>2 DEF DeviceTypes
  <2>2. Waiting(d)' = {waitQueue'[d][i] : i \in 1 .. Len(waitQueue'[d])}
    BY DEF Waiting
  <2>3. {Append(waitQueue[e], running)[i] : i \in 1 .. Len(Append(waitQueue[e], running))}
          = Waiting(e) \cup {running}
    BY <1>1, <1>3, WaitingAppend DEF Waiting
  <2> QED
    BY <2>1, <2>2, <2>3 DEF Waiting
<1>6. \A d \in DeviceSet : Lists(waitQueue'[d], Waiting(d)')
  <2> SUFFICES ASSUME NEW d \in DeviceSet PROVE Lists(waitQueue'[d], Waiting(d)')
    OBVIOUS
  <2>1. Lists(Append(waitQueue[e], running), Waiting(e) \cup {running})
    BY <1>1, <1>3, <1>4, ListAppend
  <2> QED
    BY <1>3, <1>5, <2>1
<1>7. \A d, c \in DeviceSet : d # c => Waiting(d)' \cap Waiting(c)' = {}
  BY <1>4, <1>5 DEF Requests
<1>8. /\ \A p \in Procs : Asks(p)' <=> Asks(p) \/ p = running
      /\ \A p \in Procs : Held(p)' <=> Held(p)
      /\ ~ Held(running) /\ hand' = hand /\ devPc' = devPc
  BY <1>1 DEF Requests, Asks, Held
<1>9. \A p \in Procs :
        (\E d \in DeviceSet : p \in Waiting(d)') <=> Asks(p)' /\ ~ Held(p)'
  <2> SUFFICES ASSUME NEW p \in Procs
      PROVE  (\E d \in DeviceSet : p \in Waiting(d)') <=> Asks(p)' /\ ~ Held(p)'
    OBVIOUS
  <2>1. (\E d \in DeviceSet : p \in Waiting(d)')
          <=> p = running \/ \E d \in DeviceSet : p \in Waiting(d)
    BY <1>5
  <2> QED
    BY <1>8, <2>1 DEF Requests
<1> QED
  BY <1>1, <1>6, <1>7, <1>8, <1>9 DEF Requests

\* timerFinished: the process at the front goes to the device thread's hand.
LEMMA TakeRequests ==
  ASSUME Requests, DeviceTypes, SchedTypes, NEW e \in DeviceSet,
         waitQueue[e] # <<>>, waitQueue' = [waitQueue EXCEPT ![e] = Tail(@)],
         hand' = Head(waitQueue[e]), devPc = "poll", devPc' = "check",
         UNCHANGED <<state, running, mainPc>>
  PROVE  Requests'
<1> DEFINE h == Head(waitQueue[e])
<1>1. \A d \in DeviceSet : waitQueue[d] \in Seq(Procs) /\ Lists(waitQueue[d], Waiting(d))
  BY DEF Requests, DeviceTypes
<1>2. /\ Lists(Tail(waitQueue[e]), Waiting(e) \ {h}) /\ h \in Waiting(e)
      /\ h \in Procs
  BY <1>1, ListTail, TailOfQueue
<1>3. \A d \in DeviceSet :
        /\ waitQueue'[d] = IF d = e THEN Tail(waitQueue[e]) ELSE waitQueue[d]
        /\ Waiting(d)' = IF d = e THEN Waiting(e) \ {h} ELSE Waiting(d)
  <2> SUFFICES ASSUME NEW d \in DeviceSet
      PROVE  /\ waitQueue'[d] = IF d = e THEN Tail(waitQueue[e]) ELSE waitQueue[d]
             /\ Waiting(d)' = IF d = e THEN Waiting(e) \ {h} ELSE Waiting(d)
    OBVIOUS
  <2>1. waitQueue'[d] = IF d = e THEN Tail(waitQueue[e]) ELSE waitQueue[d]
    BY DEF DeviceTypes
  <2>2. Waiting(d)' = {waitQueue'[d][i] : i \in 1 .. Len(waitQueue'[d])}
    BY DEF Waiting
  <2>3. {Tail(waitQueue[e])[i] : i \in 1 .. Len(Tail(waitQueue[e]))} = Waiting(e) \ {h}
    BY <1>1, WaitingTail DEF Waiting, Lists
  <2> QED
    BY <2>1, <2>2, <2>3 DEF Waiting
<1> HIDE DEF h
<1>4. \A d \in DeviceSet : Lists(waitQueue'[d], Waiting(d)')
  BY <1>1, <1>2, <1>3
<1>5. \A d, c \in DeviceSet : d # c => Waiting(d)' \cap Waiting(c)' = {}
  BY <1>3 DEF Requests
<1>6. \A d \in DeviceSet : h \in Waiting(d) => d = e
  BY <1>2 DEF Requests
<1>7. /\ \A p \in Procs : Asks(p)' <=> Asks(p)
      /\ \A p \in Procs : ~ Held(p) /\ (Held(p)' <=> p = h)
  BY DEF Asks, Held, h
<1>8. \A p \in Procs :
        (\E d \in DeviceSet : p \in Waiting(d)') <=> Asks(p)' /\ ~ Held(p)'
  <2> SUFFICES ASSUME NEW p \in Procs
      PROVE  (\E d \in DeviceSet : p \in Waiting(d)') <=> Asks(p)' /\ ~ Held(p)'
    OBVIOUS
  <2>1. (\E d \in DeviceSet : p \in Waiting(d)')
          <=> p # h /\ \E d \in DeviceSet : p \in Waiting(d)
    BY <1>3, <1>6
  <2> QED
    BY <1>7, <2>1 DEF Requests
<1>9. Asks(h)
  BY <1>2 DEF Requests
<1>10. hand' = h
  BY DEF h
<1> QED
  BY <1>2, <1>4, <1>5, <1>7, <1>8, <1>9, <1>10 DEF Requests

\* The process in the device thread's hand becomes ready: it asks no more.
LEMMA MoveRequests ==
  ASSUME Requests, SchedInv, Move
  PROVE  Requests'
<1>1. /\ devPc = "move" /\ devPc' = "log" /\ mainPc # "blocking"
      /\ hand \in Procs /\ state[hand] = "blocked"
      /\ state' = [state EXCEPT ![hand] = "ready"]
      /\ UNCHANGED <<running, mainPc, hand, waitQueue>>
      /\ hand # running
      /\ state \in [Procs -> {"none", "ready", "running", "blocked", "terminated"}]
  <2>1. /\ devPc = "move" /\ devPc' = "log" /\ mainPc # "blocking"
        /\ state' = [state EXCEPT ![hand] = "ready"]
        /\ UNCHANGED <<running, mainPc, hand, waitQueue>>
    BY DEF Move, Dev, SchedLocked, UnblockProcess, mainVars, timers
  <2>2. hand \in Procs /\ state[hand] = "blocked"
    BY <2>1 DEF Requests
  <2>3. NoProc \notin Procs /\ SchedTypeOK /\ OnCpu
    BY SchedulerAssumption DEF SchedInv, SchedTypes
  <2> QED
    BY <2>1, <2>2, <2>3 DEF SchedTypeOK, OnCpu
<1>2. \A d \in DeviceSet : Waiting(d)' = Waiting(d)
  BY <1>1 DEF Waiting
<1>3. \A p \in Procs : /\ Asks(p)' <=> Asks(p) /\ p # hand
                       /\ ~ Held(p)' /\ (Held(p) <=> p = hand)
  BY <1>1 DEF Asks, Held
<1>4. \A p \in Procs :
        (\E d \in DeviceSet : p \in Waiting(d)') <=> Asks(p)' /\ ~ Held(p)'
  BY <1>2, <1>3 DEF Requests
<1> QED
  BY <1>1, <1>2, <1>3, <1>4 DEF Requests

LEMMA NextRequests ==
  ASSUME Requests, SchedInv, DeviceInv, [Next]_vars
  PROVE  Requests'
<1> SchedTypes /\ OnCpu /\ DeviceTypes
  BY DEF SchedInv, DeviceInv
<1>1. CASE UNCHANGED vars
  BY <1>1, SameRequests DEF vars, schedVars, mainVars, devVars, timers, Asks, Held, Requests
<1>2. CASE RunIO
  BY <1>2, AskRequests
<1>3. CASE MainThread /\ ~ RunIO
  <2>1. \A p \in Procs : Asks(p)' <=> Asks(p)
    <3>1. CASE Pick
      <4> mainPc = "pick" /\ mainPc' = "run"
        BY <3>1 DEF Pick, Main
      <4> QED
        BY <3>1, PickSched DEF Asks
    <3> QED
      BY <1>3, <3>1, AsksKept
  <2>2. UNCHANGED <<waitQueue, hand, devPc>>
    BY <1>3 DEF MainThread, Pick, LotteryAsserts, RunWork, RunEnd, RunCreate, Add, Block,
                EndBlock, Count, ExitTest, devVars, timers
  <2>3. devPc' = "move" => state'[hand] = "blocked"
    <3> SUFFICES ASSUME devPc = "move" PROVE state'[hand] = "blocked"
      BY <2>2
    <3>1. hand \in Procs /\ hand' = hand /\ state[hand] = "blocked"
      BY <2>2 DEF Requests
    <3>2. state'[hand] = "blocked" \/ (mainPc' = "block" /\ running' = hand)
      BY <2>1, <3>1 DEF Asks
    <3>3. ~ (mainPc' = "block" /\ running' = hand)
      <4> mainPc' # "block"
        BY <1>3 DEF MainThread, Pick, LotteryAsserts, RunWork, RunEnd, RunCreate, Add, Block,
                    EndBlock, Count, ExitTest, Main, mainVars
      <4> QED
        OBVIOUS
    <3> QED
      BY <3>2, <3>3
  <2> QED
    BY <2>1, <2>2, <2>3, SameRequests DEF Held
<1>4. CASE DeviceThread
  <2>1. CASE Wait
    BY <2>1, SameRequests DEF Wait, Dev, schedVars, mainVars, Asks, Held
  <2>2. CASE Poll
    <3> DEFINE d == Devices[at]
    <3>1. /\ devPc = "poll" /\ d \in DeviceSet /\ UNCHANGED <<state, running, mainPc>>
      BY <2>2, DeviceFacts DEF Poll, Dev, DeviceInv, DeviceTypes, schedVars, mainVars
    <3>2. CASE UNCHANGED <<waitQueue, hand>> /\ devPc' \in {"poll", "wait"}
      BY <3>1, <3>2, SameRequests DEF Asks, Held
    <3>3. CASE /\ waitQueue[d] # <<>> /\ waitQueue' = [waitQueue EXCEPT ![d] = Tail(@)]
               /\ hand' = Head(waitQueue[d]) /\ devPc' = "check"
      BY <3>1, <3>3, TakeRequests
    <3> QED
      BY <2>2, <3>1, <3>2, <3>3
      DEF Poll, NextDevice, TimerFinished, devVars, timers
  <2>3. CASE Check
    <3>1. /\ devPc = "check" /\ devPc' \in {"check", "move"}
          /\ devPc' = "move" => state[hand] = "blocked"
          /\ UNCHANGED <<state, running, mainPc, hand, waitQueue>>
      BY <2>3 DEF Check, Dev, schedVars, mainVars, timers
    <3> QED
      BY <3>1, SameRequests DEF Asks, Held
  <2>4. CASE Move
    BY <2>4, MoveRequests
  <2>5. CASE Log
    <3>1. /\ devPc = "log" /\ devPc' \in {"log", "poll", "wait"}
          /\ hand' = hand \/ (hand' = NoProc /\ devPc' \in {"poll", "wait"})
          /\ UNCHANGED <<state, running, mainPc, waitQueue>>
      BY <2>5 DEF Log, Dev, NextDevice, schedVars, mainVars, timers, devVars
    <3>2. \A p \in Procs : (Asks(p)' <=> Asks(p)) /\ ~ Held(p)' /\ ~ Held(p)
      BY <3>1 DEF Asks, Held
    <3>3. \A k \in DeviceSet : Waiting(k)' = Waiting(k)
      BY <3>1 DEF Waiting
    <3>4. \A p \in Procs :
            (\E k \in DeviceSet : p \in Waiting(k)') <=> Asks(p)' /\ ~ Held(p)'
      BY <3>2, <3>3 DEF Requests
    <3> QED
      BY <3>1, <3>2, <3>3, <3>4 DEF Requests
  <2> QED
    BY <1>4, <2>1, <2>2, <2>3, <2>4, <2>5 DEF DeviceThread
<1>5. CASE \E d \in DeviceSet : Timer(d)
  <2>1. /\ UNCHANGED <<state, running, mainPc, hand, waitQueue>>
        /\ devPc' = devPc \/ (devPc = "wait" /\ devPc' = "poll")
    BY <1>5 DEF Timer, Fire, FireAgain, SignalLost, Post, Interrupts, schedVars,
                mainVars, devVars
  <2> QED
    BY <2>1, SameRequests DEF Asks, Held, Requests
<1> QED
  BY <1>1, <1>2, <1>3, <1>4, <1>5 DEF Next
-----------------------------------------------------------------------------
(***************************************************************************)
(* The scheduler's invariant, for every step.                              *)
(***************************************************************************)
LEMMA SameSched ==
  ASSUME SchedInv, UNCHANGED <<schedVars, newProc>>,
         \/ mainPc' = mainPc
         \/ mainPc = "run" /\ mainPc' \in {"count", "block"}
         \/ mainPc = "count" /\ mainPc' = "exit?"
         \/ mainPc = "exit?" /\ mainPc' = "pick"
  PROVE  SchedInv'
<1>1. /\ UNCHANGED <<policy, state, priority, ready, running, totalBlocked, used,
                     level, currentLevel, totalTickets, slot, readyID, newProc>>
  BY DEF schedVars
<1>2. SchedTypes' /\ OnCpu'
  BY <1>1 DEF SchedInv, SchedTypes, SchedTypeOK, OnCpu, Levels
<1>3. Queued' = Queued /\ BlockedProcs' = BlockedProcs
  BY <1>1 DEF Queued, BlockedProcs, Levels
<1>4. AllListed(ready', Queued') /\ Counted' /\ QuantumFair'
  BY <1>1, <1>3 DEF SchedInv, Counted, QuantumFair
<1> QED
  BY <1>2, <1>4 DEF SchedInv

LEMMA NextSched ==
  ASSUME SchedInv, Requests, [Next]_vars
  PROVE  SchedInv'
<1>1. CASE UNCHANGED <<schedVars, newProc, mainPc>>
  BY <1>1, SameSched
<1>2. CASE MainThread
  <2>1. CASE RunWork \/ RunIO \/ Count \/ ExitTest
    BY <2>1, SameSched DEF RunWork, RunIO, Count, ExitTest, Main
  <2> QED
    BY <1>1, <1>2, <2>1, PickSched, EndSched, CreateSched, AddSched, BlockSched,
       EndBlockSched
    DEF MainThread, LotteryAsserts, mainVars
<1>3. CASE DeviceThread
  <2>1. CASE Move
    <3> hand \in Procs /\ state[hand] = "blocked"
      BY <2>1 DEF Move, Dev, Requests
    <3> QED
      BY <2>1, MoveSched
  <2>2. CASE ~ Move
    <3> UNCHANGED <<schedVars, newProc, mainPc>>
      BY <1>3, <2>2 DEF DeviceThread, Wait, Poll, Check, Log, mainVars
    <3> QED
      BY <1>1
  <2> QED
    BY <2>1, <2>2
<1>4. CASE \E d \in DeviceSet : Timer(d)
  <2> UNCHANGED <<schedVars, newProc, mainPc>>
    BY <1>4 DEF Timer, Fire, FireAgain, SignalLost, mainVars
  <2> QED
    BY <1>1
<1> QED
  BY <1>1, <1>2, <1>3, <1>4 DEF Next, vars, mainVars

-----------------------------------------------------------------------------
(***************************************************************************)
(* One signal for each request, as long as none was repeated; how a run    *)
(* ends; and the invariant as a whole.                                     *)
(***************************************************************************)
SignalsExact ==
  /\ \A d \in DeviceSet : timer[d] # "off" => waitQueue[d] # <<>>
  /\ spurious = 0 =>
       \A d \in DeviceSet : sigs[d] <= IF timer[d] = "again" THEN 1 ELSE 0

Ending ==
  /\ mainPc = "exit?" /\ seen > 0 => \E l \in Levels : ready[l] # <<>>
  /\ ExitLeavesNobodyBlocked
  /\ FailuresExplained

OtherTypes ==
  /\ status \in {"up", "exited", "assert", "undefined"}
  /\ seen \in Nat
  /\ spurious \in 0 .. MaxSpurious /\ lost \in 0 .. MaxLost

IInv ==
  SchedInv /\ DeviceInv /\ Requests /\ SignalsExact /\ Ending /\ OtherTypes

LEMMA NotEmpty ==
  ASSUME NEW S, NEW q \in Seq(S)
  PROVE  /\ \A p \in S : Append(q, p) # <<>>
         /\ Len(q) > 1 => Tail(q) # <<>>
<1>1. ASSUME NEW p \in S PROVE Append(q, p) # <<>>
  <2> Append(q, p) \in Seq(S) /\ Len(Append(q, p)) = Len(q) + 1 /\ Len(q) \in Nat
    OBVIOUS
  <2> QED
    OBVIOUS
<1>2. ASSUME Len(q) > 1 PROVE Tail(q) # <<>>
  <2>1. q # <<>> /\ Len(q) \in Nat
    BY <1>2
  <2>2. Len(Tail(q)) = Len(q) - 1
    BY <2>1
  <2>3. Len(<<>>) = 0
    OBVIOUS
  <2>4. Len(Tail(q)) # 0
    BY <1>2, <2>1, <2>2
  <2> QED
    BY <2>3, <2>4, Zenon
<1> QED
  BY <1>1, <1>2

LEMMA NextSignals ==
  ASSUME SignalsExact, DeviceInv, OtherTypes, SchedInv, [Next]_vars
  PROVE  SignalsExact'
<1> DeviceTypes /\ TimersRun /\ spurious \in Nat
  BY DEF DeviceInv, OtherTypes
<1>1. CASE UNCHANGED timers
  BY <1>1 DEF timers, SignalsExact
<1>2. CASE RunIO
  <2> PICK d \in DeviceSet : ScheduleDevice(d, running)
    BY <1>2 DEF RunIO
  <2>1. /\ waitQueue' = [waitQueue EXCEPT ![d] = Append(@, running)]
        /\ timer' = IF waitQueue[d] = <<>> THEN [timer EXCEPT ![d] = "armed"] ELSE timer
        /\ UNCHANGED <<sigs, spurious>>
    BY DEF ScheduleDevice
  <2>2. waitQueue[d] \in Seq(Procs) /\ Append(waitQueue[d], running) # <<>>
    <3> running \in Procs /\ waitQueue[d] \in Seq(Procs)
      BY <1>2 DEF RunIO, Main, SchedInv, SchedTypes, SchedTypeOK, OnCpu, DeviceTypes
    <3> QED
      BY NotEmpty
  <2>3. \A e \in DeviceSet : timer'[e] # "off" => waitQueue'[e] # <<>>
    BY <2>1, <2>2 DEF SignalsExact, DeviceTypes
  <2>4. \A e \in DeviceSet : timer[e] = "again" => timer'[e] = "again"
    BY <2>1 DEF SignalsExact, DeviceTypes
  <2> QED
    BY <2>1, <2>3, <2>4 DEF SignalsExact, DeviceTypes
<1>3. CASE Poll
  <2> DEFINE d == Devices[at]
  <2>1. d \in DeviceSet /\ UNCHANGED spurious
    BY <1>3, DeviceFacts DEF Poll, DeviceTypes, timers, TimerFinished
  <2>2. CASE sigs[d] # 0 /\ waitQueue[d] = <<>>
    <3>1. sigs' = [sigs EXCEPT ![d] = @ - 1] /\ UNCHANGED <<waitQueue, timer>>
      BY <1>3, <2>2 DEF Poll
    <3> QED
      BY <2>1, <2>2, <3>1 DEF SignalsExact, DeviceTypes
  <2>3. CASE sigs[d] # 0 /\ waitQueue[d] # <<>>
    <3>1. /\ sigs' = [sigs EXCEPT ![d] = @ - 1]
          /\ waitQueue' = [waitQueue EXCEPT ![d] = Tail(@)]
          /\ timer' = [timer EXCEPT ![d] = IF Len(waitQueue[d]) > 1 THEN "armed" ELSE "off"]
      BY <1>3, <2>3 DEF Poll, TimerFinished
    <3>2. Len(waitQueue[d]) > 1 => Tail(waitQueue[d]) # <<>>
      <4> waitQueue[d] \in Seq(Procs)
        BY <2>1 DEF DeviceTypes
      <4> QED
        BY NotEmpty
    <3>3. \A e \in DeviceSet : timer'[e] # "off" => waitQueue'[e] # <<>>
      BY <2>1, <3>1, <3>2 DEF SignalsExact, DeviceTypes
    <3>4. ASSUME spurious = 0, NEW e \in DeviceSet
          PROVE  sigs'[e] <= IF timer'[e] = "again" THEN 1 ELSE 0
      <4>1. CASE e = d
        <5>1. sigs[d] \in Nat /\ sigs'[d] = sigs[d] - 1
          BY <2>1, <3>1 DEF DeviceTypes
        <5>2. sigs[d] <= 1
          BY <2>1, <3>4, <5>1 DEF SignalsExact
        <5> QED
          BY <4>1, <5>1, <5>2
      <4>2. CASE e # d
        BY <2>1, <3>1, <3>4, <4>2 DEF SignalsExact, DeviceTypes
      <4> QED
        BY <4>1, <4>2
    <3> QED
      BY <2>1, <3>3, <3>4 DEF SignalsExact
  <2>4. CASE sigs[d] = 0
    BY <1>3, <2>4, <1>1 DEF Poll
  <2> QED
    BY <2>2, <2>3, <2>4
<1>4. CASE \E d \in DeviceSet : Timer(d)
  <2> PICK d \in DeviceSet : Timer(d)
    BY <1>4
  <2>1. CASE Fire(d)
    BY <2>1 DEF Fire, Post, SignalsExact, DeviceTypes
  <2>2. CASE SignalLost(d)
    BY <2>2 DEF SignalLost, SignalsExact, DeviceTypes
  <2>3. CASE FireAgain(d)
    <3>1. /\ timer[d] = "again" /\ timer' = [timer EXCEPT ![d] = "again"]
          /\ sigs' = [sigs EXCEPT ![d] = @ + 1]
          /\ UNCHANGED waitQueue
          /\ IF sigs[d] = 0 THEN spurious' = spurious ELSE spurious' = spurious + 1
      BY <2>3 DEF FireAgain, Post
    <3> QED
      BY <3>1 DEF SignalsExact, DeviceTypes
  <2> QED
    BY <2>1, <2>2, <2>3 DEF Timer
<1>5. CASE MainThread /\ ~ RunIO
  BY <1>1, <1>5 DEF MainThread, Pick, LotteryAsserts, RunWork, RunEnd, RunCreate, Add, Block,
                    EndBlock, Count, ExitTest
<1>6. CASE Wait \/ Check \/ Move \/ Log
  BY <1>6 DEF Wait, Check, Move, Log, timers, SignalsExact
<1> QED
  BY <1>1, <1>2, <1>3, <1>4, <1>5, <1>6 DEF Next, DeviceThread, vars

LEMMA TotalReadyFacts ==
  ASSUME SchedInv
  PROVE  /\ TotalReady \in Nat
         /\ TotalReady > 0 => \E l \in Levels : ready[l] # <<>>
<1> DEFINE U == UNION {{l} \X DOMAIN ready[l] : l \in Levels}
           n == Cardinality(Procs)
<1>1. /\ ready \in [Levels -> Seq(Procs)] /\ AllListed(ready, Queued)
  BY DEF SchedInv, SchedTypes, SchedTypeOK
<1>2. n \in Nat
  BY SchedulerAssumption, FS_CardinalityType
<1>3. \A l \in Levels : DOMAIN ready[l] = 1 .. Len(ready[l]) /\ Len(ready[l]) <= n
  BY <1>1, ListBound DEF AllListed
<1>4. \A l \in Levels : DOMAIN ready[l] \subseteq 1 .. n
  BY <1>1, <1>2, <1>3
<1>5. U \subseteq Levels \X (1 .. n)
  <2> HIDE DEF n
  <2> QED
    BY <1>4
<1>6. IsFiniteSet(Levels \X (1 .. n))
  <2>1. IsFiniteSet(Levels) /\ IsFiniteSet(1 .. n)
    BY <1>2, SchedulerAssumption, FS_Interval DEF Levels
  <2> QED
    BY <2>1, FS_Product
<1>7. IsFiniteSet(U)
  <2> HIDE DEF U, n
  <2> QED
    BY <1>5, <1>6, FS_Subset
<1>8. ASSUME \A l \in Levels : ready[l] = <<>>
      PROVE  U = {}
  <2> \A l \in Levels : DOMAIN ready[l] = {}
    BY <1>8
  <2> QED
    OBVIOUS
<1>9. TotalReady = Cardinality(U)
  BY DEF TotalReady
<1> HIDE DEF U, n
<1> QED
  BY <1>7, <1>8, <1>9, FS_CardinalityType, FS_EmptySet
LEMMA NextOther ==
  ASSUME OtherTypes, SchedInv, DeviceInv, [Next]_vars
  PROVE  OtherTypes'
<1>1. CASE UNCHANGED <<status, seen, spurious, lost>>
  BY <1>1 DEF OtherTypes
<1>2. CASE MainThread
  <2>1. UNCHANGED <<spurious, lost>>
    BY <1>2 DEF MainThread, Pick, LotteryAsserts, RunWork, RunEnd, RunCreate, Add, RunIO,
                Block, EndBlock, Count, ExitTest, timers, ScheduleDevice
  <2>2. status' \in {status, "exited", "assert"}
    BY <1>2 DEF MainThread, Pick, LotteryAsserts, RunWork, RunEnd, RunCreate, Add, RunIO,
                Block, EndBlock, Count, ExitTest
  <2>3. seen' \in {seen, TotalReady, 0}
    BY <1>2 DEF MainThread, Pick, LotteryAsserts, RunWork, RunEnd, RunCreate, Add, RunIO,
                Block, EndBlock, Count, ExitTest, mainVars
  <2> QED
    BY <2>1, <2>2, <2>3, TotalReadyFacts DEF OtherTypes
<1>3. CASE DeviceThread
  <2> /\ status' \in {status, "undefined", "assert"}
      /\ UNCHANGED <<seen, spurious, lost>>
    BY <1>3 DEF DeviceThread, Wait, Poll, Check, Move, Log, mainVars, timers,
                TimerFinished
  <2> QED
    BY DEF OtherTypes
<1>4. CASE \E d \in DeviceSet : Timer(d)
  <2>1. /\ UNCHANGED <<status, seen>>
        /\ \/ spurious' = spurious
           \/ spurious < MaxSpurious /\ spurious' = spurious + 1
        /\ \/ lost' = lost
           \/ lost < MaxLost /\ lost' = lost + 1
    BY <1>4 DEF Timer, Fire, FireAgain, SignalLost, mainVars
  <2> QED
    BY <2>1, KernelAssumption DEF OtherTypes
<1> QED
  BY <1>1, <1>2, <1>3, <1>4 DEF Next, vars, mainVars, timers

\* The steps that end a run badly are the device thread's and the lottery's.
LEMMA NextFailures ==
  ASSUME IInv, [Next]_vars
  PROVE  FailuresExplained'
<1>1. CASE UNCHANGED vars
  BY <1>1 DEF IInv, Ending, FailuresExplained, FirstWithoutTickets, AddsUnlocked, vars,
              schedVars, mainVars, devVars, timers
<1>2. ASSUME status' \notin {"assert", "undefined"} PROVE FailuresExplained'
  BY <1>2 DEF FailuresExplained
<1>3. CASE MainThread
  <2>1. CASE LotteryAsserts
    <3>1. /\ mainPc = "pick" /\ policy = "lottery" /\ FirstWithoutTickets
          /\ status' = "assert" /\ UNCHANGED <<mainPc, policy, slot, priority>>
      BY <2>1 DEF LotteryAsserts, Main, schedVars, mainVars
    <3> QED
      BY <3>1 DEF FailuresExplained, FirstWithoutTickets
  <2>2. CASE ~ LotteryAsserts
    <3> status = "up" /\ status' \in {status, "exited"}
      BY <1>3, <2>2 DEF MainThread, Pick, RunWork, RunEnd, RunCreate, Add, RunIO, Block,
                        EndBlock, Count, ExitTest, Main
    <3> QED
      BY <1>2
  <2> QED
    BY <2>1, <2>2
<1>4. CASE \E d \in DeviceSet : Timer(d)
  <2> status = "up" /\ status' = status
    BY <1>4 DEF Timer, Fire, FireAgain, SignalLost
  <2> QED
    BY <1>2
<1>5. CASE DeviceThread
  <2> status = "up"
    BY <1>5 DEF DeviceThread, Wait, Poll, Check, Move, Log, Dev
  <2>1. CASE Wait
    BY <1>2, <2>1 DEF Wait
  <2>2. CASE Poll /\ status' # "up"
    <3> DEFINE d == Devices[at]
    <3>1. /\ status' = "undefined" /\ sigs[d] # 0 /\ waitQueue[d] = <<>>
          /\ UNCHANGED <<devPc, at, waitQueue, spurious>> /\ devPc = "poll"
      BY <2>2 DEF Poll, Dev, devVars
    <3>2. d \in DeviceSet /\ sigs[d] \in Nat /\ spurious \in Nat
      BY DeviceFacts DEF IInv, DeviceInv, DeviceTypes, OtherTypes
    <3>3. spurious # 0
      <4>1. timer[d] = "off"
        BY <3>1, <3>2 DEF IInv, SignalsExact
      <4> QED
        BY <3>1, <3>2, <4>1 DEF IInv, SignalsExact
    <3> QED
      BY <3>1, <3>2, <3>3 DEF FailuresExplained
  <2>3. CASE Check /\ status' # "up"
    <3>1. /\ status' = "assert" /\ devPc = "check"
          /\ ~ (state[hand] = "blocked" /\ totalBlocked > 0)
          /\ UNCHANGED <<state, totalBlocked, hand, running, mainPc>>
      BY <2>3 DEF Check, Dev, schedVars, mainVars
    <3>2. hand \in Procs /\ Asks(hand)
      BY <3>1 DEF IInv, Requests, Held
    <3>3. CASE state[hand] # "blocked"
      BY <3>1, <3>2, <3>3 DEF Asks, FailuresExplained
    <3>4. CASE state[hand] = "blocked"
      <4>1. /\ totalBlocked = 0 /\ hand \in BlockedProcs
            /\ SchedTypeOK /\ OnCpu /\ Counted
        BY <3>1, <3>2, <3>4 DEF BlockedProcs, IInv, SchedInv, SchedTypes, SchedTypeOK
      <4>2. Cardinality(BlockedProcs) # 0
        BY <4>1, BlockedFinite, FS_EmptySet
      <4>3. mainPc = "blocking" /\ Cardinality(BlockedProcs) = 1
        BY <4>1, <4>2 DEF Counted
      <4>4. running \in BlockedProcs
        BY <4>1, <4>3 DEF OnCpu, SchedTypeOK, BlockedProcs
      <4>5. \E x : BlockedProcs = {x}
        BY <4>3, BlockedFinite, FS_Singleton
      <4>6. hand = running
        BY <4>1, <4>4, <4>5
      <4> QED
        BY <3>1, <4>3, <4>6 DEF FailuresExplained
    <3> QED
      BY <3>3, <3>4
  <2>4. CASE Move /\ status' # "up"
    <3> /\ status' = "undefined" /\ mainPc' = "add" /\ AddsUnlocked' /\ devPc' = "log"
      BY <2>4 DEF Move, UnblockProcess, AddsUnlocked, mainVars
    <3> QED
      BY DEF FailuresExplained
  <2>5. CASE Log /\ status' # "up"
    <3> status' = "undefined" /\ devPc' = "log" /\ state'[hand'] = "terminated"
      BY <2>5 DEF Log, Dev, devVars, schedVars
    <3> QED
      BY DEF FailuresExplained
  <2>6. CASE status' = "up"
    BY <1>2, <2>6
  <2> QED
    BY <1>5, <2>1, <2>2, <2>3, <2>4, <2>5, <2>6 DEF DeviceThread
<1> QED
  BY <1>1, <1>3, <1>4, <1>5 DEF Next

LEMMA NextExit ==
  ASSUME IInv, [Next]_vars
  PROVE  /\ mainPc' = "exit?" /\ seen' > 0 => \E l \in Levels : ready'[l] # <<>>
         /\ ExitLeavesNobodyBlocked'
<1> DEFINE Counts == mainPc = "exit?" /\ seen > 0 => \E l \in Levels : ready[l] # <<>>
<1>1. /\ Counts /\ ExitLeavesNobodyBlocked /\ SchedInv /\ OtherTypes
      /\ ready \in [Levels -> Seq(Procs)] /\ totalBlocked \in Nat /\ seen \in Nat
  BY DEF IInv, Ending, SchedInv, SchedTypes, SchedTypeOK, OtherTypes
<1>2. CASE /\ UNCHANGED <<schedVars, mainVars>>
           /\ status' = status \/ (status = "up" /\ status' \in {"assert", "undefined"})
  BY <1>1, <1>2 DEF schedVars, mainVars, ExitLeavesNobodyBlocked, SomeReady, Levels
<1>3. CASE MainThread
  <2>1. CASE Count
    <3>1. /\ mainPc' = "exit?" /\ seen' = TotalReady /\ ready' = ready
          /\ status = "up" /\ status' = status
      BY <2>1 DEF Count, Main, schedVars
    <3> QED
      BY <1>1, <3>1, TotalReadyFacts DEF ExitLeavesNobodyBlocked, Levels
  <2>2. CASE ExitTest
    <3>1. /\ mainPc = "exit?" /\ mainPc' = "pick" /\ status = "up"
          /\ UNCHANGED <<ready, running, totalBlocked>>
          /\ status' = IF seen + Others > 0 THEN "up" ELSE "exited"
      BY <2>2 DEF ExitTest, Main, schedVars
    <3>2. Others = totalBlocked + IF running = NoProc THEN 0 ELSE 1
      BY DEF Others
    <3> QED
      BY <1>1, <3>1, <3>2 DEF ExitLeavesNobodyBlocked, SomeReady, Levels
  <2>3. CASE LotteryAsserts
    BY <1>2, <2>3 DEF LotteryAsserts, Main
  <2>4. CASE ~ Count /\ ~ ExitTest /\ ~ LotteryAsserts
    <3> mainPc' \notin {"pick", "exit?"} /\ status = "up" /\ status' = status
      BY <1>3, <2>4 DEF MainThread, Pick, RunWork, RunEnd, RunCreate, Add, RunIO, Block,
                        EndBlock, Main
    <3> QED
      BY DEF ExitLeavesNobodyBlocked
  <2> QED
    BY <2>1, <2>2, <2>3, <2>4
<1>4. CASE Move
  <2>1. /\ hand \in Procs /\ level[hand] \in Levels
        /\ ready' = [ready EXCEPT ![level[hand]] = Append(@, hand)]
        /\ status' \in {"up", "undefined"} /\ UNCHANGED <<running, mainPc, seen>>
    BY <1>4 DEF Move, Dev, UnblockProcess, mainVars, IInv, Requests, SchedInv,
                SchedTypes, SchedTypeOK
  <2>2. ready'[level[hand]] # <<>>
    <3> ready[level[hand]] \in Seq(Procs)
      BY <1>1, <2>1
    <3> QED
      BY <1>1, <2>1, NotEmpty
  <2>3. \E l \in Levels : ready'[l] # <<>>
    BY <2>1, <2>2
  <2> QED
    BY <2>1, <2>3 DEF ExitLeavesNobodyBlocked, SomeReady, Levels
<1>5. CASE DeviceThread /\ ~ Move
  BY <1>2, <1>5 DEF DeviceThread, Wait, Poll, Check, Log, Dev
<1>6. CASE \E d \in DeviceSet : Timer(d)
  BY <1>2, <1>6 DEF Timer, Fire, FireAgain, SignalLost
<1> QED
  BY <1>2, <1>3, <1>4, <1>5, <1>6 DEF Next, vars
LEMMA InitInv == Init => IInv
<1> SUFFICES ASSUME Init PROVE IInv
  OBVIOUS
<1> DEFINE b == StartLevel(InitProc)
<1>1. /\ policy \in Policies
      /\ state = [p \in Procs |-> IF p = InitProc THEN "ready" ELSE "none"]
      /\ priority = [p \in Procs |-> DefaultPriority]
      /\ ready = [l \in Levels |-> IF l = b THEN <<InitProc>> ELSE <<>>]
      /\ running = NoProc /\ totalBlocked = 0 /\ used = 0
      /\ level = [p \in Procs |-> IF p = InitProc THEN StartLevel(p) ELSE 0]
      /\ currentLevel = 0 /\ totalTickets = Tickets(InitProc)
      /\ status = "up" /\ mainPc = "pick" /\ newProc = NoProc /\ seen = 0
      /\ devPc = "wait" /\ hand = NoProc
      /\ waitQueue = [d \in DeviceSet |-> <<>>]
      /\ timer = [d \in DeviceSet |-> "off"] /\ sigs = [d \in DeviceSet |-> 0]
      /\ spurious = 0 /\ lost = 0
  BY DEF Init, SchedInit
<1>2. InitProc \in Procs /\ NoProc \notin Procs /\ DefaultPriority \in Nat
  BY SchedulerAssumption
<1>3. b \in Levels /\ (policy # "multi" => b = 0)
  BY <1>1, <1>2, LevelFacts DEF StartLevel
<1>4. SchedTypes
  <2>1. ready \in [Levels -> Seq(Procs)]
    BY <1>1, <1>2
  <2>2. level \in [Procs -> Levels] /\ currentLevel \in Levels
    BY <1>1, <1>3, LevelFacts
  <2>3. totalTickets \in Int
    BY <1>1, <1>2 DEF Tickets
  <2> QED
    BY <1>1, <1>2, <2>1, <2>2, <2>3 DEF SchedTypes, SchedTypeOK
<1>5. OnCpu
  BY <1>1, <1>2, <1>3 DEF OnCpu
<1>6. AllListed(ready, Queued)
  <2> SUFFICES ASSUME NEW l \in Levels PROVE Lists(ready[l], Queued[l])
    BY DEF AllListed
  <2>1. Queued[l] = IF l = b THEN {InitProc} ELSE {}
    BY <1>1, <1>2 DEF Queued
  <2>2. ready[l] = IF l = b THEN <<InitProc>> ELSE <<>>
    BY <1>1
  <2>3. Lists(<<InitProc>>, {InitProc}) /\ Lists(<<>>, {})
    BY DEF Lists
  <2> QED
    BY <2>1, <2>2, <2>3
<1>7. Counted /\ QuantumFair
  <2>1. BlockedProcs = {}
    BY <1>1 DEF BlockedProcs
  <2> QED
    BY <1>1, <2>1, FS_EmptySet DEF Counted, QuantumFair
<1>8. DeviceInv
  BY InitDevices
<1>9. Requests
  <2>1. \A d \in DeviceSet : Waiting(d) = {}
    BY <1>1 DEF Waiting
  <2>2. \A p \in Procs : ~ Asks(p) /\ ~ Held(p)
    BY <1>1 DEF Asks, Held
  <2>3. \A d \in DeviceSet : Lists(waitQueue[d], Waiting(d))
    BY <1>1, <2>1 DEF Lists
  <2> QED
    BY <1>1, <2>1, <2>2, <2>3 DEF Requests
<1>10. SignalsExact
  BY <1>1 DEF SignalsExact
<1>11. Ending
  <2>1. ready[b] # <<>>
    BY <1>1, <1>2, <1>3
  <2> QED
    BY <1>1, <1>3, <2>1 DEF Ending, ExitLeavesNobodyBlocked, FailuresExplained, SomeReady
<1>12. OtherTypes
  BY <1>1, KernelAssumption DEF OtherTypes
<1> QED
  BY <1>4, <1>5, <1>6, <1>7, <1>8, <1>9, <1>10, <1>11, <1>12 DEF IInv, SchedInv

LEMMA NextInv == IInv /\ [Next]_vars => IInv'
<1> SUFFICES ASSUME IInv, [Next]_vars PROVE IInv'
  OBVIOUS
<1>1. /\ SchedInv /\ DeviceInv /\ Requests /\ SignalsExact /\ OtherTypes
  BY DEF IInv
<1>2. mainPc = "run" => running \in Procs
  BY <1>1 DEF SchedInv, SchedTypes, SchedTypeOK, OnCpu
<1>3. SchedInv' /\ DeviceInv' /\ Requests' /\ SignalsExact' /\ OtherTypes'
  BY <1>1, <1>2, NextSched, NextDevices, NextRequests, NextSignals, NextOther
<1>4. Ending'
  BY NextFailures, NextExit DEF Ending, Levels
<1> QED
  BY <1>3, <1>4 DEF IInv

\* The inductive invariant holds in every state of every run.
THEOREM Invariance == Spec => []IInv
<1> QED
  BY InitInv, NextInv, PTL DEF Spec

-----------------------------------------------------------------------------
(***************************************************************************)
(* What the invariant says in the terms of the properties.                 *)
(***************************************************************************)
LEMMA InvTypes == IInv => TypeOK
BY DEF IInv, SchedInv, SchedTypes, DeviceInv, DeviceTypes, Requests, OtherTypes, TypeOK

LEMMA InvPlacement == IInv => Placement
<1> SUFFICES ASSUME IInv PROVE Placement
  OBVIOUS
<1>1. /\ SchedTypes /\ OnCpu /\ Counted /\ AllListed(ready, Queued)
      /\ ready \in [Levels -> Seq(Procs)] /\ level \in [Procs -> Levels]
  BY DEF IInv, SchedInv, SchedTypes, SchedTypeOK
<1> DEFINE n == Cardinality(Procs)
<1>2. ASSUME NEW p \in Procs
      PROVE  IF state[p] = "ready" /\ newProc # p
             THEN \E i \in 1 .. n : Positions(p) = {<<level[p], i>>}
             ELSE Positions(p) = {}
  <2>1. ASSUME NEW l \in Levels, NEW i \in 1 .. n, i <= Len(ready[l]), ready[l][i] = p
        PROVE  state[p] = "ready" /\ newProc # p /\ level[p] = l
    <3> i \in 1 .. Len(ready[l])
      BY <1>1, <2>1
    <3> QED
      BY <1>1, <2>1 DEF AllListed, Lists, Queued
  <2>2. CASE ~ (state[p] = "ready" /\ newProc # p)
    BY <2>1, <2>2 DEF Positions
  <2>3. CASE state[p] = "ready" /\ newProc # p
    <3> DEFINE l == level[p]
    <3>1. l \in Levels /\ p \in Queued[l] /\ Lists(ready[l], Queued[l])
      BY <1>1, <2>3 DEF Queued, AllListed
    <3>2. PICK i \in 1 .. Len(ready[l]) : ready[l][i] = p
      BY <3>1 DEF Lists
    <3>3. Len(ready[l]) <= n /\ n \in Nat /\ Len(ready[l]) \in Nat
      BY <1>1, <3>1, ListBound
    <3> HIDE DEF l, n
    <3>4. i \in 1 .. n /\ i <= Len(ready[l])
      BY <3>3
    <3>5. ASSUME NEW c \in Positions(p)
          PROVE  c = <<l, i>>
      <4>1. /\ c \in Levels \X (1 .. n)
            /\ c[2] <= Len(ready[c[1]]) /\ ready[c[1]][c[2]] = p
        BY DEF Positions, n
      <4>2. c[1] = l
        BY <2>1, <4>1 DEF l, n
      <4>3. c[2] = i
        <5> c[2] \in 1 .. Len(ready[l])
          BY <3>3, <4>1, <4>2
        <5> QED
          BY <3>1, <3>2, <4>1, <4>2 DEF Lists
      <4> QED
        BY <4>1, <4>2, <4>3
    <3>6. <<l, i>> \in Positions(p)
      BY <3>1, <3>2, <3>4 DEF Positions, n
    <3>7. Positions(p) = {<<l, i>>}
      BY <3>5, <3>6
    <3> QED
      BY <2>3, <3>4, <3>7 DEF l
  <2> QED
    BY <2>2, <2>3
<1> QED
  BY <1>1, <1>2 DEF Placement, OnCpu, Counted, BlockedProcs

LEMMA InvWaits == IInv => BlockedWaits
<1> SUFFICES ASSUME IInv, NEW p \in Procs
             PROVE  Cardinality(Waits(p))
                      + (IF hand = p /\ devPc \in {"check", "move"} THEN 1 ELSE 0)
                    = IF state[p] = "blocked" \/ (mainPc = "block" /\ running = p)
                      THEN 1 ELSE 0
  BY DEF BlockedWaits
<1> DEFINE n == Cardinality(Procs)
<1>1. /\ \A d \in DeviceSet : waitQueue[d] \in Seq(Procs) /\ Lists(waitQueue[d], Waiting(d))
      /\ \A d, e \in DeviceSet : d # e => Waiting(d) \cap Waiting(e) = {}
      /\ (\E d \in DeviceSet : p \in Waiting(d)) <=> Asks(p) /\ ~ Held(p)
      /\ Held(p) => Asks(p)
  BY DEF IInv, DeviceInv, DeviceTypes, Requests
<1>2. ASSUME NEW c \in Waits(p)
      PROVE  /\ c \in DeviceSet \X (1 .. n) /\ c[2] \in 1 .. Len(waitQueue[c[1]])
             /\ waitQueue[c[1]][c[2]] = p /\ p \in Waiting(c[1])
  <2>1. /\ c \in DeviceSet \X (1 .. n) /\ c[2] <= Len(waitQueue[c[1]])
        /\ waitQueue[c[1]][c[2]] = p
    BY DEF Waits
  <2>2. c[2] \in 1 .. Len(waitQueue[c[1]])
    BY <1>1, <2>1
  <2> QED
    BY <2>1, <2>2 DEF Waiting
<1>3. CASE \A d \in DeviceSet : p \notin Waiting(d)
  <2> Waits(p) = {}
    BY <1>2, <1>3
  <2> QED
    BY <1>1, <1>3, FS_EmptySet DEF Asks, Held
<1>4. CASE \E d \in DeviceSet : p \in Waiting(d)
  <2>1. PICK d \in DeviceSet : p \in Waiting(d)
    BY <1>4
  <2>2. PICK i \in 1 .. Len(waitQueue[d]) : waitQueue[d][i] = p
    BY <2>1 DEF Waiting
  <2>3. Len(waitQueue[d]) <= n /\ n \in Nat /\ Len(waitQueue[d]) \in Nat
    BY <1>1, ListBound
  <2>4. <<d, i>> \in Waits(p)
    <3> i \in 1 .. n /\ i <= Len(waitQueue[d])
      <4> HIDE DEF n
      <4> QED
        BY <2>3
    <3> QED
      BY <2>2 DEF Waits
  <2>5. ASSUME NEW c \in Waits(p)
        PROVE  c = <<d, i>>
    <3>1. /\ c \in DeviceSet \X (1 .. n) /\ c[2] \in 1 .. Len(waitQueue[c[1]])
          /\ waitQueue[c[1]][c[2]] = p /\ p \in Waiting(c[1])
      BY <1>2
    <3>2. c[1] = d
      BY <1>1, <2>1, <3>1
    <3>3. c[2] = i
      BY <1>1, <2>2, <3>1, <3>2 DEF Lists
    <3> QED
      BY <3>1, <3>2, <3>3
  <2>6. Waits(p) = {<<d, i>>}
    BY <2>4, <2>5
  <2>7. Cardinality(Waits(p)) = 1
    BY <2>6, FS_Singleton
  <2> QED
    BY <1>1, <1>4, <2>7 DEF Asks, Held
<1> QED
  BY <1>3, <1>4

\* The kernel's variables keep their types, for any number of processes.
THEOREM TypeCorrect == Spec => []TypeOK
<1> QED
  BY Invariance, InvTypes, PTL

\* No scheduler loses a process or lists one twice: a ready process stands in
\* one queue, the one of its level, and the blocked ones are counted.
THEOREM ProcessesInPlace == Spec => []Placement
<1> QED
  BY Invariance, InvPlacement, PTL

\* No process gets more than its quantum, or starts with another's ticks.
THEOREM QuantumIsFair == Spec => []QuantumFair
<1>1. IInv => QuantumFair
  BY DEF IInv, SchedInv
<1> QED
  BY <1>1, Invariance, PTL

\* Blocked is the same as waiting for one device or being in the hands of the
\* device thread.
THEOREM BlockedIsWaiting == Spec => []BlockedWaits
<1> QED
  BY Invariance, InvWaits, PTL

\* The timer of a device with a queue runs, and a signal has the device thread
\* on its way.
THEOREM NoWakeupIsLost == Spec => []NoWakeupLost
<1>1. IInv => NoWakeupLost
  BY DevicesWake DEF IInv
<1> QED
  BY <1>1, Invariance, PTL

\* An assertion fails, or behaviour is undefined, only for the reasons named.
THEOREM FailuresHaveReasons == Spec => []FailuresExplained
<1>1. IInv => FailuresExplained
  BY DEF IInv, Ending
<1> QED
  BY <1>1, Invariance, PTL

\* boot() does not end while a process runs or is blocked, and getNextToRun
\* always has something to run or to wait for.
THEOREM NobodyLeftBlocked == Spec => []ExitLeavesNobodyBlocked
<1>1. IInv => ExitLeavesNobodyBlocked
  BY DEF IInv, Ending
<1> QED
  BY <1>1, Invariance, PTL

-----------------------------------------------------------------------------
(***************************************************************************)
(* The tickets of the lottery.  The pool is counted as the shares of the   *)
(* candidates: no sum has to be taken apart, a candidate is added to the   *)
(* set or taken from it.                                                   *)
(***************************************************************************)
Tix == [p \in Procs |-> Tickets(p)]

Pool == {p \in Procs : (state[p] = "ready" /\ newProc # p) \/ p = running}

PoolInv == totalTickets = Cardinality(Shares(Tix, Pool))

LEMMA TixTypes ==
  ASSUME SchedTypes
  PROVE  /\ \A p \in Procs : Tix[p] = Tickets(p) /\ Tix[p] \in Nat
         /\ IsFiniteSet(Pool) /\ Pool \subseteq Procs
<1>1. Pool \subseteq Procs
  BY DEF Pool
<1>2. IsFiniteSet(Pool)
  BY <1>1, SchedulerAssumption, FS_Subset
<1> QED
  BY <1>1, <1>2 DEF SchedTypes, SchedTypeOK, Tix, Tickets

LEMMA SumOfTickets ==
  ASSUME SchedTypes, NEW C \in SUBSET Procs
  PROVE  MapThenSumSet(Tickets, C) = Cardinality(Shares(Tix, C))
<1> DEFINE Sums(g) ==
             g = [s \in SUBSET C |->
                    IF s = {} THEN 0
                    ELSE LET x == CHOOSE x \in s : TRUE IN Tickets(x) + g[s \ {x}]]
           counts == [s \in SUBSET C |-> Cardinality(Shares(Tix, s))]
           sum == CHOOSE g : Sums(g)
<1>1. IsFiniteSet(C) /\ \A x \in C : Tix[x] = Tickets(x) /\ Tix[x] \in Nat
  BY TixTypes, SchedulerAssumption, FS_Subset
<1>2. MapThenSumSet(Tickets, C) = sum[C]
  BY Zenon DEF MapThenSumSet, MapThenFoldSet
<1>3. ASSUME NEW s \in SUBSET C, s # {}
      PROVE  LET x == CHOOSE x \in s : TRUE IN
             counts[s] = Tickets(x) + counts[s \ {x}]
  <2> DEFINE x == CHOOSE x \in s : TRUE
  <2>1. x \in s
    BY <1>3
  <2> HIDE DEF x
  <2>2. IsFiniteSet(s) /\ \A y \in s : Tix[y] \in Nat
    BY <1>1, FS_Subset
  <2>3. Cardinality(Shares(Tix, s)) = Tix[x] + Cardinality(Shares(Tix, s \ {x}))
    BY <2>1, <2>2, SharesRemoved
  <2>4. counts[s] = Tickets(x) + counts[s \ {x}]
    BY <1>1, <2>1, <2>3
  <2> QED
    BY <2>4 DEF x
<1>4. counts[{}] = 0
  <2> Shares(Tix, {}) = {}
    BY DEF Shares
  <2> QED
    BY FS_EmptySet
<1>5. Sums(counts)
  <2>1. counts = [s \in SUBSET C |-> counts[s]]
    OBVIOUS
  <2> HIDE DEF counts
  <2> QED
    BY <1>3, <1>4, <2>1
<1>6. Sums(sum)
  <2> HIDE DEF Sums
  <2> QED
    BY <1>5
<1> HIDE DEF sum, counts
<1>7. sum[{}] = 0
  BY <1>6
<1>8. ASSUME NEW s \in SUBSET C, s # {}
      PROVE  \E x \in s : sum[s] = Tix[x] + sum[s \ {x}]
  <2> DEFINE x == CHOOSE x \in s : TRUE
  <2>1. sum[s] = Tickets(x) + sum[s \ {x}]
    BY <1>6, <1>8
  <2>2. x \in s
    BY <1>8
  <2> HIDE DEF x
  <2> QED
    BY <1>1, <2>1, <2>2
<1>9. sum[C] = Cardinality(Shares(Tix, C))
  <2> HIDE DEF Sums
  <2> QED
    BY <1>1, <1>7, <1>8, SumIsShares
<1> QED
  BY <1>2, <1>9

\* A step that leaves the candidates and their tickets alone.
LEMMA SamePool ==
  ASSUME SchedInv, SchedInv', PoolInv, UNCHANGED totalTickets, Pool' = Pool,
         \A p \in Pool : Tix'[p] = Tix[p]
  PROVE  PoolInv'
<1>1. Shares(Tix', Pool') = Shares(Tix, Pool)
  BY DEF Shares
<1> QED
  BY <1>1 DEF PoolInv

\* A process becomes a candidate, or is none any more.
LEMMA Enters ==
  ASSUME SchedInv, PoolInv, NEW p \in Procs, p \notin Pool, Pool' = Pool \cup {p},
         Tix' = Tix, totalTickets' = totalTickets + Tickets(p)
  PROVE  PoolInv'
<1>1. /\ IsFiniteSet(Pool) /\ Pool \subseteq Procs
      /\ \A q \in Procs : Tix[q] = Tickets(q) /\ Tix[q] \in Nat
  BY TixTypes DEF SchedInv
<1>2. Cardinality(Shares(Tix, Pool \cup {p})) = Cardinality(Shares(Tix, Pool)) + Tix[p]
  BY <1>1, SharesAdded
<1> QED
  BY <1>1, <1>2 DEF PoolInv

LEMMA Leaves ==
  ASSUME SchedInv, PoolInv, NEW p \in Pool, Pool' = Pool \ {p},
         Tix' = Tix, totalTickets' = totalTickets - Tickets(p)
  PROVE  PoolInv'
<1>1. /\ IsFiniteSet(Pool) /\ Pool \subseteq Procs
      /\ \A q \in Procs : Tix[q] = Tickets(q) /\ Tix[q] \in Nat
  BY TixTypes DEF SchedInv
<1>2. Cardinality(Shares(Tix, Pool)) = Tix[p] + Cardinality(Shares(Tix, Pool \ {p}))
  BY <1>1, SharesRemoved
<1>3. Cardinality(Shares(Tix, Pool \ {p})) \in Nat
  <2> IsFiniteSet(Pool \ {p})
    BY <1>1, FS_RemoveElement
  <2> QED
    BY <1>1, SharesFinite
<1>4. Tix[p] \in Nat /\ Tix[p] = Tickets(p)
  BY <1>1
<1> QED
  BY <1>2, <1>3, <1>4 DEF PoolInv

\* What the steps of the scheduler read of the process that has the cpu.
LEMMA OnCpuFacts ==
  ASSUME SchedInv
  PROVE  /\ state \in [Procs -> {"none", "ready", "running", "blocked", "terminated"}]
         /\ NoProc \notin Procs
         /\ running # NoProc =>
              running \in Procs /\ state[running] \in {"running", "blocked"}
         /\ running # NoProc /\ mainPc # "blocking" => state[running] = "running"
         /\ newProc # NoProc => newProc \in Procs /\ state[newProc] = "ready"
         /\ newProc # NoProc <=> mainPc = "add"
BY SchedulerAssumption DEF SchedInv, SchedTypes, SchedTypeOK, OnCpu

LEMMA PickPool ==
  ASSUME SchedInv, PoolInv, Pick
  PROVE  PoolInv'
<1>1. /\ SchedInv'
      /\ \A p \in Procs : state'[p] # state[p] =>
           {state'[p], state[p]} = {"ready", "running"}
  BY PickSched
<1>2. /\ mainPc = "pick" /\ mainPc' = "run" /\ newProc' = newProc /\ newProc = NoProc
      /\ UNCHANGED <<policy, priority, totalTickets>>
  BY OnCpuFacts DEF Pick, Main, GetNextToRun, KeepRunning, FCFSNext, RRNext,
                    LotteryNext, MultiNext, Take
<1>3. ASSUME NEW p \in Procs PROVE p \in Pool' <=> p \in Pool
  <2>1. p \in Pool <=> state[p] \in {"ready", "running"}
    BY <1>2, OnCpuFacts DEF Pool, SchedInv, OnCpu
  <2>2. /\ running' \in Procs \cup {NoProc}
        /\ running' # NoProc => state'[running'] = "running"
        /\ state'[p] = "running" => running' = p
    BY <1>1, <1>2 DEF SchedInv, SchedTypes, SchedTypeOK, OnCpu
  <2>3. p \in Pool' <=> state'[p] \in {"ready", "running"}
    BY <1>2, <2>2, OnCpuFacts DEF Pool
  <2>4. state'[p] = state[p] \/ {state'[p], state[p]} = {"ready", "running"}
    BY <1>1
  <2> QED
    BY <2>1, <2>3, <2>4
<1>4. Pool' = Pool
  BY <1>3 DEF Pool
<1>5. Tix' = Tix
  BY <1>2 DEF Tix, Tickets
<1> QED
  BY <1>1, <1>2, <1>4, <1>5, SamePool

LEMMA NextPool ==
  ASSUME SchedInv, SchedInv', Requests, PoolInv, [Next]_vars
  PROVE  PoolInv'
<1>1. CASE UNCHANGED <<schedVars, newProc>>
  <2>1. Pool' = Pool /\ Tix' = Tix /\ totalTickets' = totalTickets
    BY <1>1 DEF schedVars, Pool, Tix, Tickets
  <2> QED
    BY <2>1, SamePool
<1>2. CASE Pick
  BY <1>2, PickPool
<1>3. CASE RunEnd
  <2>1. /\ mainPc = "run" /\ state' = [state EXCEPT ![running] = "terminated"]
        /\ running' = NoProc /\ newProc' = newProc
        /\ totalTickets' = totalTickets - Tickets(running)
        /\ UNCHANGED <<policy, priority>>
    BY <1>3 DEF RunEnd, Main, RemoveProcess
  <2>2. running \in Procs /\ newProc = NoProc
    BY <2>1, OnCpuFacts DEF SchedInv, OnCpu
  <2>3. running \in Pool /\ Pool' = Pool \ {running}
    BY <2>1, <2>2, OnCpuFacts DEF Pool
  <2>4. Tix' = Tix
    BY <2>1 DEF Tix, Tickets
  <2> QED
    BY <2>1, <2>3, <2>4, Leaves
<1>4. CASE RunCreate
  <2>1. PICK p \in Procs : \E n \in Priorities[policy] :
          /\ state[p] = "none" /\ state' = [state EXCEPT ![p] = "ready"]
          /\ priority' = [priority EXCEPT ![p] = n] /\ newProc' = p
    BY <1>4 DEF RunCreate
  <2>2. mainPc = "run" /\ UNCHANGED <<policy, running, totalTickets>>
    BY <1>4 DEF RunCreate, Main
  <2>3. newProc = NoProc
    BY <2>2, OnCpuFacts
  <2>4. p # running
    BY <2>1, OnCpuFacts
  <2>5. Pool' = Pool /\ p \notin Pool
    BY <2>1, <2>2, <2>3, <2>4, OnCpuFacts DEF Pool
  <2>6. \A q \in Pool : Tix'[q] = Tix[q]
    <3>1. \A q \in Procs : q # p => priority'[q] = priority[q]
      BY <2>1 DEF SchedInv, SchedTypes, SchedTypeOK
    <3> QED
      BY <2>2, <2>5, <3>1 DEF Tix, Tickets, Pool
  <2> QED
    BY <2>2, <2>5, <2>6, SamePool
<1>5. CASE Add
  <2>1. /\ mainPc = "add" /\ newProc' = NoProc
        /\ totalTickets' = totalTickets + Tickets(newProc)
        /\ UNCHANGED <<policy, state, priority, running>>
    BY <1>5 DEF Add, AddProcess, Main
  <2>2. newProc \in Procs /\ state[newProc] = "ready" /\ newProc # running
    BY <2>1, OnCpuFacts
  <2>3. newProc \notin Pool /\ Pool' = Pool \cup {newProc}
    BY <2>1, <2>2, OnCpuFacts DEF Pool
  <2>4. Tix' = Tix
    BY <2>1 DEF Tix, Tickets
  <2> QED
    BY <2>1, <2>2, <2>3, <2>4, Enters
<1>6. CASE Block
  <2>1. /\ mainPc = "block" /\ state' = [state EXCEPT ![running] = "blocked"]
        /\ newProc' = newProc
        /\ UNCHANGED <<policy, priority, running, totalTickets>>
    BY <1>6 DEF Block, Main, MarkBlocked
  <2>2. running \in Procs
    BY <2>1, OnCpuFacts DEF SchedInv, OnCpu
  <2>3. Pool' = Pool
    BY <2>1, <2>2, OnCpuFacts DEF Pool
  <2>4. Tix' = Tix
    BY <2>1 DEF Tix, Tickets
  <2> QED
    BY <2>1, <2>3, <2>4, SamePool
<1>7. CASE EndBlock
  <2>1. /\ mainPc = "blocking" /\ running' = NoProc /\ newProc' = newProc
        /\ totalTickets' = totalTickets - Tickets(running)
        /\ UNCHANGED <<policy, state, priority>>
    BY <1>7 DEF EndBlock, Main, FinishBlock
  <2>2. running \in Procs /\ state[running] = "blocked"
    BY <2>1, OnCpuFacts DEF SchedInv, OnCpu
  <2>3. running \in Pool /\ Pool' = Pool \ {running}
    BY <2>1, <2>2, OnCpuFacts DEF Pool
  <2>4. Tix' = Tix
    BY <2>1 DEF Tix, Tickets
  <2> QED
    BY <2>1, <2>3, <2>4, Leaves
<1>8. CASE Move
  <2>1. /\ mainPc # "blocking" /\ newProc' = newProc
        /\ state' = [state EXCEPT ![hand] = "ready"]
        /\ totalTickets' = totalTickets + Tickets(hand)
        /\ UNCHANGED <<policy, priority, running>>
    BY <1>8 DEF Move, SchedLocked, UnblockProcess, mainVars
  <2>2. hand \in Procs /\ state[hand] = "blocked"
    BY <1>8 DEF Move, Dev, Requests
  <2>3. hand # newProc /\ hand # running
    BY <2>1, <2>2, OnCpuFacts
  <2>4. hand \notin Pool /\ Pool' = Pool \cup {hand}
    BY <2>1, <2>2, <2>3, OnCpuFacts DEF Pool
  <2>5. Tix' = Tix
    BY <2>1 DEF Tix, Tickets
  <2> QED
    BY <2>1, <2>2, <2>4, <2>5, Enters
<1>9. CASE LotteryAsserts \/ RunWork \/ RunIO \/ Count \/ ExitTest \/ Wait \/ Poll \/ Check
           \/ Log \/ \E d \in DeviceSet : Timer(d)
  BY <1>1, <1>9 DEF LotteryAsserts, RunWork, RunIO, Count, ExitTest, Wait, Poll, Check, Log,
                    Timer, Fire, FireAgain, SignalLost, mainVars
<1>10. CASE UNCHANGED vars
  BY <1>1, <1>10 DEF vars, mainVars
<1> QED
  BY <1>2, <1>3, <1>4, <1>5, <1>6, <1>7, <1>8, <1>9, <1>10
  DEF Next, MainThread, DeviceThread

LEMMA InitPool == Init => PoolInv
<1> SUFFICES ASSUME Init PROVE PoolInv
  OBVIOUS
<1>1. SchedTypes
  BY InitInv DEF IInv, SchedInv
<1>2. InitProc \in Procs /\ NoProc \notin Procs
  BY SchedulerAssumption
<1>3. Pool = {InitProc}
  BY <1>2 DEF Init, SchedInit, Pool
<1>4. Tix[InitProc] = Tickets(InitProc) /\ Tix[InitProc] \in Nat
  BY <1>1, <1>2, TixTypes
<1> DEFINE none == Pool \ {InitProc}
<1>5. none = {}
  BY <1>3
<1>6. Cardinality(Shares(Tix, none)) = 0
  <2> Shares(Tix, none) = {}
    BY <1>5 DEF Shares
  <2> QED
    BY FS_EmptySet
<1>7. Cardinality(Shares(Tix, Pool)) = Tix[InitProc] + Cardinality(Shares(Tix, none))
  <2>1. InitProc \in Pool /\ IsFiniteSet(Pool) /\ \A p \in Pool : Tix[p] \in Nat
    BY <1>1, <1>3, TixTypes
  <2> HIDE DEF none
  <2>2. Cardinality(Shares(Tix, Pool))
          = Tix[InitProc] + Cardinality(Shares(Tix, Pool \ {InitProc}))
    BY <2>1, SharesRemoved
  <2> QED
    BY <2>2 DEF none
<1>8. totalTickets = Tickets(InitProc)
  BY DEF Init, SchedInit
<1> HIDE DEF none
<1> QED
  BY <1>4, <1>6, <1>7, <1>8 DEF PoolInv

\* The candidates are the processes in a queue and the running one.
LEMMA InvTickets == IInv /\ PoolInv => TicketsMatch
<1> SUFFICES ASSUME IInv, PoolInv PROVE TicketsMatch
  OBVIOUS
<1>1. SchedTypes /\ Placement
  BY InvPlacement DEF IInv, SchedInv
<1> DEFINE C == {p \in Procs : Positions(p) # {} \/ p = running}
<1>2. ASSUME NEW p \in Procs
      PROVE  Positions(p) # {} <=> state[p] = "ready" /\ newProc # p
  BY <1>1 DEF Placement
<1>3. C = Pool
  BY <1>2 DEF Pool
<1>4. MapThenSumSet(Tickets, C) = Cardinality(Shares(Tix, C))
  <2>1. C \in SUBSET Procs
    OBVIOUS
  <2> HIDE DEF C
  <2> QED
    BY <1>1, <2>1, SumOfTickets
<1> QED
  BY <1>3, <1>4 DEF PoolInv, TicketsMatch

\* The pool of the lottery is always the sum of the tickets of all candidates,
\* whatever the threads do between two steps of each other: a draw never falls
\* beyond the last of them.
THEOREM TicketsAreMatched == Spec => []TicketsMatch
<1>1. IInv /\ PoolInv /\ [Next]_vars => PoolInv'
  BY NextInv, NextPool DEF IInv
<1> QED
  BY <1>1, Invariance, InitPool, InvTickets, PTL DEF Spec
=============================================================================
