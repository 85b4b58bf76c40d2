---------------------------- MODULE ScullBuffer ----------------------------
(***************************************************************************)
(* The scullBuffer character device (src/Project4/Buffer/scullBuffer.c): a *)
(* ring of scull_size items guarded by a mutex (sem) and two counting      *)
(* semaphores (item_sem, space_sem), used by producers (producer.c) and    *)
(* consumers (consumer.c).                                                 *)
(*                                                                         *)
(* A system call is cut at every point where it may sleep or be overtaken: *)
(* taking sem, the try-lock on the counting semaphore, the copy to or from *)
(* user space.  An item is represented by the producer that wrote it (the  *)
(* payload producer.c writes is its own id), so `count' only matters when  *)
(* it is 0.                                                                *)
(***************************************************************************)
EXTENDS Integers, FiniteSets

CONSTANTS
  Producers,      \* processes that open the device O_WRONLY
  Consumers,      \* processes that open the device O_RDONLY
  ScullSize,      \* scull_size, the number of slots of the ring
  ZeroReads,      \* TRUE: a read may ask for 0 bytes
  MaxFaults,      \* bound: failing copies to or from user space
  MaxInterrupts   \* bound: signals that interrupt down_interruptible

ASSUME ScullAssumption ==
  /\ ScullSize \in Nat \ {0}
  /\ IsFiniteSet(Producers) /\ IsFiniteSet(Consumers)
  /\ Producers \cap Consumers = {}
  /\ ZeroReads \in BOOLEAN
  /\ MaxFaults \in Nat
  /\ MaxInterrupts \in Nat
  /\ {"unused", "zeroed", "none", "pending", "zero", "ok", "error", "junk"}
       \cap (Producers \cup Consumers) = {}

Procs == Producers \cup Consumers
Slots == 0 .. ScullSize - 1

VARIABLES
  sem,            \* mutual exclusion semaphore
  item_sem,       \* counting semaphore, tokens for readers
  space_sem,      \* counting semaphore, tokens for writers
  readIndex, writeIndex,
  size,           \* dev->size, an int
  readerCnt, writerCnt,
  inReadCnt, inWriteCnt,
  bufferPtr,      \* slot -> producer, "unused" (size -1) or "zeroed" (memset)
  pc,             \* where each process is
  reply,          \* what its last read or write returned
  \* Counters that no code reads: how often the environment intervened.
  writeFaults, readFaults, interrupts, lostReleases,
  wedged          \* a zero-byte read returned with sem taken

ring      == <<readIndex, writeIndex, size, bufferPtr>>
openCnts  == <<readerCnt, writerCnt>>
inCnts    == <<inReadCnt, inWriteCnt>>
counting  == <<item_sem, space_sem>>
faults    == <<writeFaults, readFaults, wedged>>
signals   == <<interrupts, lostReleases>>
vars == <<sem, counting, ring, openCnts, inCnts, pc, reply, faults, signals>>

Goto(p, l)   == pc' = [pc EXCEPT ![p] = l]
Answer(p, r) == reply' = [reply EXCEPT ![p] = r]
\* Variant: the index is not wrapped.
AdvanceNoWrap(i) == i + 1

Advance(i)   == (i + 1) % ScullSize

(***************************************************************************)
(* scull_init_module                                                       *)
(***************************************************************************)
Init ==
  /\ sem = 1 /\ item_sem = 0 /\ space_sem = ScullSize
  /\ readIndex = 0 /\ writeIndex = 0 /\ size = 0
  /\ readerCnt = 0 /\ writerCnt = 0 /\ inReadCnt = 0 /\ inWriteCnt = 0
  /\ bufferPtr = [i \in Slots |-> "zeroed"]
  /\ pc = [p \in Procs |-> "closed"]
  /\ reply = [p \in Procs |-> "none"]
  /\ writeFaults = 0 /\ readFaults = 0 /\ wedged = FALSE
  /\ interrupts = 0 /\ lostReleases = 0

(***************************************************************************)
(* scullBuffer_open and scullBuffer_release.  Between down and up they     *)
(* only move the opener counts, so the critical section is one step.       *)
(***************************************************************************)
CountOpeners(p, d) ==
  /\ readerCnt' = IF p \in Consumers THEN readerCnt + d ELSE readerCnt
  /\ writerCnt' = IF p \in Producers THEN writerCnt + d ELSE writerCnt

\* The file is closed and its user, a client process, has ended.
Exit(p) == Goto(p, "closed") /\ Answer(p, "none")

CallOpen(p) ==
  /\ pc[p] = "closed"
  /\ Goto(p, "open")
  /\ UNCHANGED <<sem, counting, ring, openCnts, inCnts, reply, faults, signals>>

Open(p) ==
  /\ pc[p] = "open"
  /\ sem = 1
  /\ CountOpeners(p, 1)
  /\ Goto(p, "idle")
  /\ UNCHANGED <<sem, counting, ring, inCnts, reply, faults, signals>>

\* The client closes the device: its SIGINT handler, or exit after an error.
CallRelease(p) ==
  /\ pc[p] = "idle"
  /\ Goto(p, "release")
  /\ UNCHANGED <<sem, counting, ring, openCnts, inCnts, reply, faults, signals>>

Release(p) ==
  /\ pc[p] = "release"
  /\ sem = 1
  /\ CountOpeners(p, -1)
  /\ Exit(p)
  /\ UNCHANGED <<sem, counting, ring, inCnts, faults, signals>>

(***************************************************************************)
(* A signal ends the wait of down_interruptible(&sem): the call returns    *)
(* -ERESTARTSYS.  The file is closed whatever release returns, so a        *)
(* release that is interrupted never takes its opener off the count.  A    *)
(* client whose read or write fails exits, which closes the device.        *)
(***************************************************************************)
Signal(p, l) ==
  /\ pc[p] = l
  /\ sem = 0
  /\ interrupts < MaxInterrupts
  /\ interrupts' = interrupts + 1

\* Variant: the opener is counted before sem is taken.
OpenInterruptedCounts(p) ==
  /\ Signal(p, "open")
  /\ CountOpeners(p, 1)
  /\ Goto(p, "closed")
  /\ UNCHANGED <<sem, counting, ring, inCnts, reply, faults, lostReleases>>

OpenInterrupted(p) ==
  /\ Signal(p, "open")
  /\ Goto(p, "closed")
  /\ UNCHANGED <<sem, counting, ring, openCnts, inCnts, reply, faults,
                 lostReleases>>

ReleaseInterrupted(p) ==
  /\ Signal(p, "release")
  /\ lostReleases' = lostReleases + 1
  /\ Exit(p)
  /\ UNCHANGED <<sem, counting, ring, openCnts, inCnts, faults>>

TransferInterrupted(p) ==
  /\ Signal(p, IF p \in Consumers THEN "read_lock" ELSE "write_lock")
  /\ Answer(p, "error")
  /\ Goto(p, "release")
  /\ UNCHANGED <<sem, counting, ring, openCnts, inCnts, faults, lostReleases>>

(***************************************************************************)
(* scullBuffer_read                                                        *)
(***************************************************************************)
CallRead(c) ==
  /\ pc[c] = "idle"
  /\ Answer(c, "pending")
  /\ Goto(c, "read_lock")
  /\ UNCHANGED <<sem, counting, ring, openCnts, inCnts, faults, signals>>

ReadLock(c) ==
  /\ pc[c] = "read_lock"
  /\ sem = 1 /\ sem' = 0
  /\ Goto(c, "read_try")
  /\ UNCHANGED <<counting, ring, openCnts, inCnts, reply, faults, signals>>

\* down_trylock(&item_sem) fails.  "read_wait" is the sleep on item_sem.
ReadEmpty(c) ==
  /\ pc[c] = "read_try"
  /\ item_sem = 0
  /\ sem' = sem + 1
  /\ IF inWriteCnt = 0
     THEN Answer(c, "zero") /\ Goto(c, "idle")
     ELSE UNCHANGED reply /\ Goto(c, "read_wait")
  /\ UNCHANGED <<counting, ring, openCnts, inCnts, faults, signals>>

ReadTake(c) ==
  /\ pc[c] = "read_try"
  /\ item_sem > 0
  /\ item_sem' = item_sem - 1
  /\ inReadCnt' = inReadCnt + 1
  /\ Goto(c, "read_copy")
  /\ UNCHANGED <<sem, space_sem, ring, openCnts, inWriteCnt, reply, faults,
                 signals>>

\* count == 0: return 0 after the token was taken and without up(&sem).
ReadZero(c) ==
  /\ ZeroReads
  /\ pc[c] = "read_try"
  /\ item_sem > 0
  /\ item_sem' = item_sem - 1
  /\ wedged' = TRUE
  /\ Answer(c, "zero")
  /\ Goto(c, "idle")
  /\ UNCHANGED <<sem, space_sem, ring, openCnts, inCnts, writeFaults,
                 readFaults, signals>>

\* What the user finds: an "unused" slot has size -1, which the unsigned
\* comparison makes the largest count; a slot still "zeroed" has size 0.
ItemRead(v) ==
  CASE v = "unused" -> "junk"
    [] v = "zeroed" -> "zero"
    [] OTHER        -> v

\* Variant: readIndex stays.
RemoveItemKeepsIndex ==
  /\ size' = size - 1
  /\ bufferPtr' = [bufferPtr EXCEPT ![readIndex] = "unused"]
  /\ space_sem' = space_sem + 1
  /\ UNCHANGED readIndex

\* Variant: the space is not given back.
RemoveItemKeepsSpace ==
  /\ size' = size - 1
  /\ readIndex' = Advance(readIndex)
  /\ bufferPtr' = [bufferPtr EXCEPT ![readIndex] = "unused"]
  /\ UNCHANGED space_sem

RemoveItem ==
  /\ size' = size - 1
  /\ readIndex' = Advance(readIndex)
  /\ bufferPtr' = [bufferPtr EXCEPT ![readIndex] = "unused"]
  /\ space_sem' = space_sem + 1

\* Variant: read returns with sem taken.
LeaveReadLocked == inReadCnt' = inReadCnt - 1 /\ UNCHANGED sem

LeaveRead == inReadCnt' = inReadCnt - 1 /\ sem' = sem + 1

ReadCopy(c) ==
  /\ pc[c] = "read_copy"
  /\ Answer(c, ItemRead(bufferPtr[readIndex]))
  /\ RemoveItem
  /\ LeaveRead
  /\ Goto(c, "idle")
  /\ UNCHANGED <<item_sem, writeIndex, openCnts, inWriteCnt, faults, signals>>

\* copy_to_user fails: -EFAULT, the item stays and its token is gone.
ReadFault(c) ==
  /\ pc[c] = "read_copy"
  /\ writeFaults + readFaults < MaxFaults
  /\ readFaults' = readFaults + 1
  /\ LeaveRead
  /\ Answer(c, "error")
  /\ Goto(c, "release")
  /\ UNCHANGED <<counting, ring, openCnts, inWriteCnt, writeFaults, wedged,
                 signals>>

(***************************************************************************)
(* scullBuffer_write                                                       *)
(***************************************************************************)
CallWrite(p) ==
  /\ pc[p] = "idle"
  /\ Answer(p, "pending")
  /\ Goto(p, "write_lock")
  /\ UNCHANGED <<sem, counting, ring, openCnts, inCnts, faults, signals>>

WriteLock(p) ==
  /\ pc[p] = "write_lock"
  /\ sem = 1 /\ sem' = 0
  /\ Goto(p, "write_try")
  /\ UNCHANGED <<counting, ring, openCnts, inCnts, reply, faults, signals>>

\* Variant: write on a full device returns 0 without up(&sem).
WriteFullKeepsMutex(p) ==
  /\ pc[p] = "write_try"
  /\ space_sem = 0
  /\ Answer(p, "zero")
  /\ Goto(p, "idle")
  /\ UNCHANGED <<sem, counting, ring, openCnts, inCnts, faults, signals>>

\* down_trylock(&space_sem) fails.  "write_wait" is the sleep on space_sem.
WriteFull(p) ==
  /\ pc[p] = "write_try"
  /\ space_sem = 0
  /\ sem' = sem + 1
  /\ IF inReadCnt = 0
     THEN Answer(p, "zero") /\ Goto(p, "idle")
     ELSE UNCHANGED reply /\ Goto(p, "write_wait")
  /\ UNCHANGED <<counting, ring, openCnts, inCnts, faults, signals>>

\* Variant: the result of down_trylock(&space_sem) is ignored.
WriteTakeUnchecked(p) ==
  /\ pc[p] = "write_try"
  /\ space_sem' = IF space_sem > 0 THEN space_sem - 1 ELSE 0
  /\ inWriteCnt' = inWriteCnt + 1
  /\ Goto(p, "write_copy")
  /\ UNCHANGED <<sem, item_sem, ring, openCnts, inReadCnt, reply, faults,
                 signals>>

WriteTake(p) ==
  /\ pc[p] = "write_try"
  /\ space_sem > 0
  /\ space_sem' = space_sem - 1
  /\ inWriteCnt' = inWriteCnt + 1
  /\ Goto(p, "write_copy")
  /\ UNCHANGED <<sem, item_sem, ring, openCnts, inReadCnt, reply, faults,
                 signals>>

\* Variant: dev->size is not raised.
InsertItemUncounted(p) ==
  /\ bufferPtr' = [bufferPtr EXCEPT ![writeIndex] = p]
  /\ writeIndex' = Advance(writeIndex)
  /\ UNCHANGED size

InsertItem(p) ==
  /\ bufferPtr' = [bufferPtr EXCEPT ![writeIndex] = p]
  /\ writeIndex' = Advance(writeIndex)
  /\ size' = size + 1

\* Variant: waiting readers are not told.
LeaveWriteSilently ==
  /\ inWriteCnt' = inWriteCnt - 1
  /\ sem' = sem + 1
  /\ UNCHANGED item_sem

LeaveWrite ==
  /\ item_sem' = item_sem + 1
  /\ inWriteCnt' = inWriteCnt - 1
  /\ sem' = sem + 1

WriteCopy(p) ==
  /\ pc[p] = "write_copy"
  /\ InsertItem(p)
  /\ LeaveWrite
  /\ Answer(p, "ok")
  /\ Goto(p, "idle")
  /\ UNCHANGED <<space_sem, readIndex, openCnts, inReadCnt, faults, signals>>

\* copy_from_user fails: -EFAULT, the slot is marked unused and still
\* up(&item_sem) announces an item.
WriteFault(p) ==
  /\ pc[p] = "write_copy"
  /\ writeFaults + readFaults < MaxFaults
  /\ writeFaults' = writeFaults + 1
  /\ bufferPtr' = [bufferPtr EXCEPT ![writeIndex] = "unused"]
  /\ LeaveWrite
  /\ Answer(p, "error")
  /\ Goto(p, "release")
  /\ UNCHANGED <<space_sem, readIndex, writeIndex, size, openCnts, inReadCnt,
                 readFaults, wedged, signals>>

(***************************************************************************)
(* The system                                                              *)
(***************************************************************************)
Client(p) ==
  \/ CallOpen(p) \/ Open(p) \/ CallRelease(p) \/ Release(p)
  \/ OpenInterrupted(p) \/ ReleaseInterrupted(p) \/ TransferInterrupted(p)

Reader(c) ==
  \/ CallRead(c) \/ ReadLock(c) \/ ReadEmpty(c) \/ ReadTake(c)
  \/ ReadZero(c) \/ ReadCopy(c) \/ ReadFault(c)

Writer(p) ==
  \/ CallWrite(p) \/ WriteLock(p) \/ WriteFull(p) \/ WriteTake(p)
  \/ WriteCopy(p) \/ WriteFault(p)

Next ==
  \/ \E p \in Procs : Client(p)
  \/ \E c \in Consumers : Reader(c)
  \/ \E p \in Producers : Writer(p)

Spec == Init /\ [][Next]_vars

(***************************************************************************)
(* Scheduling.  down_interruptible queues its waiters first come, first    *)
(* served, so a process that waits for sem gets it if sem is free again    *)
(* and again (SF); nothing else a call does can block (WF); and the        *)
(* clients call again as long as they run (the loops of producer.c and     *)
(* consumer.c).  Nobody has to open or close the device.                   *)
(***************************************************************************)
TakesMutex(p) == Open(p) \/ Release(p) \/ ReadLock(p) \/ WriteLock(p)

Proceeds(p) ==
  \/ p \in Consumers /\ (CallRead(p) \/ ReadEmpty(p) \/ ReadTake(p) \/ ReadCopy(p))
  \/ p \in Producers /\ (CallWrite(p) \/ WriteFull(p) \/ WriteTake(p) \/ WriteCopy(p))

Fairness == \A p \in Procs : SF_vars(TakesMutex(p)) /\ WF_vars(Proceeds(p))

FairSpec == Spec /\ Fairness

-----------------------------------------------------------------------------
(***************************************************************************)
(* Properties                                                              *)
(***************************************************************************)

\* Processes between down(&sem) and up(&sem) of a read or a write.
Critical == {"read_try", "read_copy", "write_try", "write_copy"}
ReadPoints == {"read_lock", "read_try", "read_copy", "read_wait"}
WritePoints == {"write_lock", "write_try", "write_copy", "write_wait"}
Inside == {p \in Procs : pc[p] \in Critical}
At(l) == \E p \in Procs : pc[p] = l
AsNat(b) == IF b THEN 1 ELSE 0

\* The types of the fields of the device and of the positions of its users;
\* the semaphores and the counts of users inside a call are never negative.
TypeOK ==
  /\ sem \in {0, 1}
  /\ item_sem \in Nat /\ space_sem \in Nat
  /\ readIndex \in Slots /\ writeIndex \in Slots
  /\ size \in Int
  /\ readerCnt \in Int /\ writerCnt \in Int
  /\ inReadCnt \in Nat /\ inWriteCnt \in Nat
  /\ bufferPtr \in [Slots -> Producers \cup {"unused", "zeroed"}]
  /\ pc \in [Procs -> {"closed", "open", "idle", "release"}
                        \cup ReadPoints \cup WritePoints]
  /\ \A p \in Procs : /\ pc[p] \in ReadPoints => p \in Consumers
                      /\ pc[p] \in WritePoints => p \in Producers
  /\ reply \in [Procs -> Producers \cup {"none", "pending", "zero", "ok",
                                         "error", "junk"}]
  /\ writeFaults \in Nat /\ readFaults \in Nat /\ wedged \in BOOLEAN
  /\ interrupts \in Nat /\ lostReleases \in Nat

\* The mutex sem is held by exactly one process inside its critical section,
\* or it was abandoned by a zero-byte read and then no process is inside.
MutexOwned ==
  /\ \A p, q \in Inside : p = q
  /\ sem = 0 <=> (Inside # {} \/ wedged)
  /\ wedged => Inside = {}

\* inReadCnt and inWriteCnt are raised and lowered under sem, so whoever holds
\* sem and looks at them finds 0: the branches of read and write that sleep on
\* item_sem and space_sem cannot be reached, every call on an empty or a full
\* device returns 0.
NobodySleeps ==
  /\ inReadCnt = AsNat(At("read_copy"))
  /\ inWriteCnt = AsNat(At("write_copy"))
  /\ ~ At("read_wait") /\ ~ At("write_wait")

\* Both: sem excludes, and what is counted under it never makes a call sleep
\* while it is held.
MutexKept == MutexOwned /\ NobodySleeps

\* Every slot is accounted for by one token: free (space_sem), full
\* (item_sem), in the hands of the process copying it, or lost for good to a
\* failed copy_to_user or to the zero-byte read.  And dev->size differs from
\* the items that can be read by exactly the failures so far: each failed
\* copy_from_user announced an item that does not exist, each lost item token
\* left an item that nobody can read.
TokensConserved ==
  /\ item_sem + AsNat(At("read_copy")) + space_sem + AsNat(At("write_copy"))
       + readFaults + AsNat(wedged) = ScullSize
  /\ item_sem + AsNat(At("read_copy"))
       = size + writeFaults - readFaults - AsNat(wedged)

\* The two indices are dev->size apart, also after any number of failures.
RingConsistent == (readIndex + size) % ScullSize = writeIndex

\* As long as no copy_from_user failed, every slot from readIndex on for
\* dev->size slots holds an item a producer wrote: no write has overwritten an
\* item that was not read, no read has taken a slot that was not written.
WindowIntact ==
  writeFaults = 0 =>
    /\ size \in 0 .. ScullSize
    /\ \A k \in 0 .. size - 1 :
         bufferPtr[(readIndex + k) % ScullSize] \in Producers

\* readerCnt and writerCnt count the open files plus one for every release
\* that a signal interrupted.
OpenersCounted ==
  readerCnt + writerCnt
    = Cardinality({p \in Procs : pc[p] \notin {"closed", "open"}})
        + lostReleases

\* When no process is between down(&sem) and up(&sem), sem is free
\* (scullBuffer.c: "now we're done, release the semaphore").
MutexFreeWhenNobodyInside == Inside = {} => sem = 1

\* Refinement: without failing copies and zero-byte reads the device is the
\* FIFO of BoundedFifo, its contents the slots from readIndex on.
Contents == [k \in 1 .. size |-> bufferPtr[(readIndex + k - 1) % ScullSize]]

Fifo == INSTANCE BoundedFifo WITH Capacity <- ScullSize, queue <- Contents

DeviceIsFifo == Fifo!FifoSpec

\* Every call of open, read, write and release returns: no process stays
\* behind sem for ever.
EveryCallReturns ==
  \A p \in Procs : pc[p] \notin {"closed", "idle"} ~> pc[p] \in {"closed", "idle"}

\* As long as one producer and one consumer keep running, items keep flowing:
\* readers and writers that are turned away with 0 and retry cannot all be
\* turned away for ever ("everyone simultaneously waiting", README_GROUP).
Running(p) == pc[p] \notin {"closed", "open", "release"}

ItemsKeepFlowing ==
  \A p \in Producers, c \in Consumers :
    <>[](Running(p) /\ Running(c)) => \A i \in Slots : []<>(readIndex # i)
=============================================================================
