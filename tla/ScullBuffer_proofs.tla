------------------------ MODULE ScullBuffer_proofs ------------------------
(***************************************************************************)
(* Theorems about the scullBuffer device, for every number of producers    *)
(* and consumers, every size of the ring, and any number of failing copies *)
(* and interrupted waits.                                                  *)
(***************************************************************************)
EXTENDS ScullBuffer, Sequences, FiniteSetTheorems, TLAPS

-----------------------------------------------------------------------------
(***************************************************************************)
(* Remainders.                                                             *)
(***************************************************************************)
LEMMA ProductAbove ==
  ASSUME NEW N \in Nat \ {0}, NEW k \in Int, k >= 1
  PROVE  N * k >= N
BY SMT

LEMMA ProductBelow ==
  ASSUME NEW N \in Nat \ {0}, NEW k \in Int, k <= -1
  PROVE  N * k <= -N
BY SMT

LEMMA ProductOfDifference ==
  ASSUME NEW N \in Int, NEW k \in Int, NEW j \in Int
  PROVE  N * (k - j) = N * k - N * j
BY SMT

LEMMA DivisionWithRemainder ==
  ASSUME NEW N \in Nat \ {0}, NEW x \in Int
  PROVE  /\ x = (N * (x \div N)) + (x % N)
         /\ x \div N \in Int
         /\ x % N \in 0 .. N - 1
BY SMT

\* The remainder is the only number below N that differs from x by a multiple.
LEMMA RemainderUnique ==
  ASSUME NEW N \in Nat \ {0}, NEW x \in Int, NEW q \in Int,
         NEW r \in 0 .. N - 1, x = (N * q) + r
  PROVE  x % N = r
<1> DEFINE d == x \div N
           m == x % N
<1>1. x = (N * d) + m /\ d \in Int /\ m \in 0 .. N - 1
  BY DivisionWithRemainder
<1> HIDE DEF d, m
<1>2. N * (q - d) = m - r
  BY <1>1, ProductOfDifference
<1>3. q - d <= 0
  <2> SUFFICES ASSUME q - d >= 1 PROVE FALSE
    BY <1>1
  <2>1. N * (q - d) >= N
    BY ProductAbove, <1>1
  <2> QED
    BY <2>1, <1>1, <1>2
<1>4. q - d >= 0
  <2> SUFFICES ASSUME q - d <= -1 PROVE FALSE
    BY <1>1
  <2>1. N * (q - d) <= -N
    BY ProductBelow, <1>1
  <2> QED
    BY <2>1, <1>1, <1>2
<1>5. q = d
  BY <1>1, <1>3, <1>4
<1> QED
  BY <1>1, <1>5 DEF m

LEMMA AdvanceCases ==
  ASSUME NEW i \in Slots
  PROVE  /\ Advance(i) \in Slots
         /\ Advance(i) = IF i + 1 = ScullSize THEN 0 ELSE i + 1
<1>1. ScullSize \in Nat \ {0}
  BY ScullAssumption
<1>2. CASE i + 1 = ScullSize
  BY <1>1, <1>2, Z3 DEF Advance, Slots
<1>3. CASE i + 1 < ScullSize
  BY <1>1, <1>3, Z3 DEF Advance, Slots
<1> QED
  BY <1>1, <1>2, <1>3 DEF Slots

-----------------------------------------------------------------------------
(***************************************************************************)
(* The mutex and the tokens.  IInv is inductive: who is inside the         *)
(* critical section (MutexOwned) decides who may move the counts of users  *)
(* (NobodySleeps), and both decide where every token is (TokensConserved). *)
(***************************************************************************)
IInv == TypeOK /\ MutexOwned /\ NobodySleeps /\ TokensConserved

LEMMA InitIInv == Init => IInv
<1> SUFFICES ASSUME Init PROVE IInv
  OBVIOUS
<1>1. TypeOK
  <2>1. /\ 0 \in Slots
        /\ bufferPtr \in [Slots -> Producers \cup {"unused", "zeroed"}]
    BY ScullAssumption DEF Init, Slots
  <2>2. /\ pc \in [Procs -> {"closed", "open", "idle", "release"}
                              \cup ReadPoints \cup WritePoints]
        /\ \A p \in Procs : pc[p] = "closed"
    BY DEF Init
  <2>3. \A p \in Procs : /\ pc[p] \in ReadPoints => p \in Consumers
                         /\ pc[p] \in WritePoints => p \in Producers
    BY <2>2 DEF ReadPoints, WritePoints
  <2>4. reply \in [Procs -> Producers \cup {"none", "pending", "zero", "ok",
                                             "error", "junk"}]
    BY DEF Init
  <2>5. /\ sem \in {0, 1} /\ item_sem \in Nat /\ space_sem \in Nat
        /\ readIndex \in Slots /\ writeIndex \in Slots /\ size \in Int
        /\ readerCnt \in Int /\ writerCnt \in Int
        /\ inReadCnt \in Nat /\ inWriteCnt \in Nat
    BY <2>1, ScullAssumption DEF Init
  <2>6. /\ writeFaults \in Nat /\ readFaults \in Nat /\ wedged \in BOOLEAN
        /\ interrupts \in Nat /\ lostReleases \in Nat
    BY DEF Init
  <2> QED
    BY <2>1, <2>2, <2>3, <2>4, <2>5, <2>6 DEF TypeOK
<1>2. MutexOwned
  BY DEF Init, MutexOwned, Inside, Critical, Procs
<1>3. NobodySleeps
  BY DEF Init, NobodySleeps, At, AsNat, Procs
<1>4. TokensConserved
  <2>1. AsNat(At("read_copy")) = 0 /\ AsNat(At("write_copy")) = 0
    BY DEF Init, At, AsNat
  <2>2. AsNat(wedged) = 0
    BY DEF Init, AsNat
  <2> QED
    BY <2>1, <2>2, ScullAssumption DEF Init, TokensConserved
<1> QED
  BY <1>1, <1>2, <1>3, <1>4 DEF IInv

LEMMA NextIInv == IInv /\ [Next]_vars => IInv'
<1> SUFFICES ASSUME IInv, [Next]_vars PROVE IInv'
  OBVIOUS
<1> USE ScullAssumption DEF IInv, Goto, Answer, Procs, counting, ring, openCnts,
        inCnts, faults, signals
<1>1. ASSUME NEW p \in Procs, CallOpen(p) PROVE IInv'
  <2>1. TypeOK'
    BY <1>1 DEF CallOpen, TypeOK, MutexOwned, NobodySleeps, At, AsNat,
       Inside, Critical, ReadPoints, WritePoints
  <2>2. MutexOwned'
    BY <1>1 DEF CallOpen, TypeOK, MutexOwned, Inside, Critical
  <2>3. NobodySleeps'
    BY <1>1 DEF CallOpen, TypeOK, MutexOwned, NobodySleeps, At, AsNat,
       Inside, Critical
  <2>4. TokensConserved'
    BY <1>1 DEF CallOpen, TypeOK, MutexOwned, NobodySleeps, TokensConserved, At,
       AsNat, Inside, Critical
  <2> QED
    BY <2>1, <2>2, <2>3, <2>4
<1>2. ASSUME NEW p \in Procs, Open(p) PROVE IInv'
  <2>1. TypeOK'
    BY <1>2 DEF Open, CountOpeners, TypeOK, MutexOwned, NobodySleeps, At, AsNat,
       Inside, Critical, ReadPoints, WritePoints
  <2>2. MutexOwned'
    BY <1>2 DEF Open, CountOpeners, TypeOK, MutexOwned, Inside, Critical
  <2>3. NobodySleeps'
    BY <1>2 DEF Open, CountOpeners, TypeOK, MutexOwned, NobodySleeps, At, AsNat,
       Inside, Critical
  <2>4. TokensConserved'
    BY <1>2 DEF Open, CountOpeners, TypeOK, MutexOwned, NobodySleeps, TokensConserved, At,
       AsNat, Inside, Critical
  <2> QED
    BY <2>1, <2>2, <2>3, <2>4
<1>3. ASSUME NEW p \in Procs, CallRelease(p) PROVE IInv'
  <2>1. TypeOK'
    BY <1>3 DEF CallRelease, TypeOK, MutexOwned, NobodySleeps, At, AsNat,
       Inside, Critical, ReadPoints, WritePoints
  <2>2. MutexOwned'
    BY <1>3 DEF CallRelease, TypeOK, MutexOwned, Inside, Critical
  <2>3. NobodySleeps'
    BY <1>3 DEF CallRelease, TypeOK, MutexOwned, NobodySleeps, At, AsNat,
       Inside, Critical
  <2>4. TokensConserved'
    BY <1>3 DEF CallRelease, TypeOK, MutexOwned, NobodySleeps, TokensConserved, At,
       AsNat, Inside, Critical
  <2> QED
    BY <2>1, <2>2, <2>3, <2>4
<1>4. ASSUME NEW p \in Procs, Release(p) PROVE IInv'
  <2>1. TypeOK'
    BY <1>4 DEF Release, CountOpeners, Exit, TypeOK, MutexOwned, NobodySleeps, At, AsNat,
       Inside, Critical, ReadPoints, WritePoints
  <2>2. MutexOwned'
    BY <1>4 DEF Release, CountOpeners, Exit, TypeOK, MutexOwned, Inside, Critical
  <2>3. NobodySleeps'
    BY <1>4 DEF Release, CountOpeners, Exit, TypeOK, MutexOwned, NobodySleeps, At, AsNat,
       Inside, Critical
  <2>4. TokensConserved'
    BY <1>4 DEF Release, CountOpeners, Exit, TypeOK, MutexOwned, NobodySleeps, TokensConserved, At,
       AsNat, Inside, Critical
  <2> QED
    BY <2>1, <2>2, <2>3, <2>4
<1>5. ASSUME NEW p \in Procs, OpenInterrupted(p) PROVE IInv'
  <2>1. TypeOK'
    BY <1>5 DEF OpenInterrupted, Signal, TypeOK, MutexOwned, NobodySleeps, At, AsNat,
       Inside, Critical, ReadPoints, WritePoints
  <2>2. MutexOwned'
    BY <1>5 DEF OpenInterrupted, Signal, TypeOK, MutexOwned, Inside, Critical
  <2>3. NobodySleeps'
    BY <1>5 DEF OpenInterrupted, Signal, TypeOK, MutexOwned, NobodySleeps, At, AsNat,
       Inside, Critical
  <2>4. TokensConserved'
    BY <1>5 DEF OpenInterrupted, Signal, TypeOK, MutexOwned, NobodySleeps, TokensConserved, At,
       AsNat, Inside, Critical
  <2> QED
    BY <2>1, <2>2, <2>3, <2>4
<1>6. ASSUME NEW p \in Procs, ReleaseInterrupted(p) PROVE IInv'
  <2>1. TypeOK'
    BY <1>6 DEF ReleaseInterrupted, Signal, Exit, TypeOK, MutexOwned, NobodySleeps, At, AsNat,
       Inside, Critical, ReadPoints, WritePoints
  <2>2. MutexOwned'
    BY <1>6 DEF ReleaseInterrupted, Signal, Exit, TypeOK, MutexOwned, Inside, Critical
  <2>3. NobodySleeps'
    BY <1>6 DEF ReleaseInterrupted, Signal, Exit, TypeOK, MutexOwned, NobodySleeps, At, AsNat,
       Inside, Critical
  <2>4. TokensConserved'
    BY <1>6 DEF ReleaseInterrupted, Signal, Exit, TypeOK, MutexOwned, NobodySleeps, TokensConserved, At,
       AsNat, Inside, Critical
  <2> QED
    BY <2>1, <2>2, <2>3, <2>4
<1>7. ASSUME NEW p \in Procs, TransferInterrupted(p) PROVE IInv'
  <2>1. TypeOK'
    BY <1>7 DEF TransferInterrupted, Signal, TypeOK, MutexOwned, NobodySleeps, At, AsNat,
       Inside, Critical, ReadPoints, WritePoints
  <2>2. MutexOwned'
    BY <1>7 DEF TransferInterrupted, Signal, TypeOK, MutexOwned, Inside, Critical
  <2>3. NobodySleeps'
    BY <1>7 DEF TransferInterrupted, Signal, TypeOK, MutexOwned, NobodySleeps, At, AsNat,
       Inside, Critical
  <2>4. TokensConserved'
    BY <1>7 DEF TransferInterrupted, Signal, TypeOK, MutexOwned, NobodySleeps, TokensConserved, At,
       AsNat, Inside, Critical
  <2> QED
    BY <2>1, <2>2, <2>3, <2>4
<1>8. ASSUME NEW c \in Consumers, CallRead(c) PROVE IInv'
  <2>1. TypeOK'
    BY <1>8 DEF CallRead, TypeOK, MutexOwned, NobodySleeps, At, AsNat,
       Inside, Critical, ReadPoints, WritePoints
  <2>2. MutexOwned'
    BY <1>8 DEF CallRead, TypeOK, MutexOwned, Inside, Critical
  <2>3. NobodySleeps'
    BY <1>8 DEF CallRead, TypeOK, MutexOwned, NobodySleeps, At, AsNat,
       Inside, Critical
  <2>4. TokensConserved'
    BY <1>8 DEF CallRead, TypeOK, MutexOwned, NobodySleeps, TokensConserved, At,
       AsNat, Inside, Critical
  <2> QED
    BY <2>1, <2>2, <2>3, <2>4
<1>9. ASSUME NEW c \in Consumers, ReadLock(c) PROVE IInv'
  <2>1. TypeOK'
    BY <1>9 DEF ReadLock, TypeOK, MutexOwned, NobodySleeps, At, AsNat,
       Inside, Critical, ReadPoints, WritePoints
  <2>2. MutexOwned'
    BY <1>9 DEF ReadLock, TypeOK, MutexOwned, Inside, Critical
  <2>3. NobodySleeps'
    BY <1>9 DEF ReadLock, TypeOK, MutexOwned, NobodySleeps, At, AsNat,
       Inside, Critical
  <2>4. TokensConserved'
    BY <1>9 DEF ReadLock, TypeOK, MutexOwned, NobodySleeps, TokensConserved, At,
       AsNat, Inside, Critical
  <2> QED
    BY <2>1, <2>2, <2>3, <2>4
<1>10. ASSUME NEW c \in Consumers, ReadEmpty(c) PROVE IInv'
  <2>1. TypeOK'
    BY <1>10 DEF ReadEmpty, TypeOK, MutexOwned, NobodySleeps, At, AsNat,
       Inside, Critical, ReadPoints, WritePoints
  <2>2. MutexOwned'
    BY <1>10 DEF ReadEmpty, TypeOK, MutexOwned, Inside, Critical
  <2>3. NobodySleeps'
    BY <1>10 DEF ReadEmpty, TypeOK, MutexOwned, NobodySleeps, At, AsNat,
       Inside, Critical
  <2>4. TokensConserved'
    BY <1>10 DEF ReadEmpty, TypeOK, MutexOwned, NobodySleeps, TokensConserved, At,
       AsNat, Inside, Critical
  <2> QED
    BY <2>1, <2>2, <2>3, <2>4
<1>11. ASSUME NEW c \in Consumers, ReadTake(c) PROVE IInv'
  <2>1. TypeOK'
    BY <1>11 DEF ReadTake, TypeOK, MutexOwned, NobodySleeps, At, AsNat,
       Inside, Critical, ReadPoints, WritePoints
  <2>2. MutexOwned'
    BY <1>11 DEF ReadTake, TypeOK, MutexOwned, Inside, Critical
  <2>3. NobodySleeps'
    BY <1>11 DEF ReadTake, TypeOK, MutexOwned, NobodySleeps, At, AsNat,
       Inside, Critical
  <2>4. TokensConserved'
    BY <1>11 DEF ReadTake, TypeOK, MutexOwned, NobodySleeps, TokensConserved, At,
       AsNat, Inside, Critical
  <2> QED
    BY <2>1, <2>2, <2>3, <2>4
<1>12. ASSUME NEW c \in Consumers, ReadZero(c) PROVE IInv'
  <2>1. TypeOK'
    BY <1>12 DEF ReadZero, TypeOK, MutexOwned, NobodySleeps, At, AsNat,
       Inside, Critical, ReadPoints, WritePoints
  <2>2. MutexOwned'
    BY <1>12 DEF ReadZero, TypeOK, MutexOwned, Inside, Critical
  <2>3. NobodySleeps'
    BY <1>12 DEF ReadZero, TypeOK, MutexOwned, NobodySleeps, At, AsNat,
       Inside, Critical
  <2>4. TokensConserved'
    BY <1>12 DEF ReadZero, TypeOK, MutexOwned, NobodySleeps, TokensConserved, At,
       AsNat, Inside, Critical
  <2> QED
    BY <2>1, <2>2, <2>3, <2>4
<1>13. ASSUME NEW c \in Consumers, ReadCopy(c) PROVE IInv'
  <2>1. TypeOK'
    BY <1>13, AdvanceCases DEF ReadCopy, RemoveItem, LeaveRead, ItemRead, TypeOK, MutexOwned, NobodySleeps, At, AsNat,
       Inside, Critical, ReadPoints, WritePoints
  <2>2. MutexOwned'
    BY <1>13 DEF ReadCopy, RemoveItem, LeaveRead, ItemRead, TypeOK, MutexOwned, Inside, Critical
  <2>3. NobodySleeps'
    BY <1>13 DEF ReadCopy, RemoveItem, LeaveRead, ItemRead, TypeOK, MutexOwned, NobodySleeps, At, AsNat,
       Inside, Critical
  <2>4. TokensConserved'
    BY <1>13 DEF ReadCopy, RemoveItem, LeaveRead, ItemRead, TypeOK, MutexOwned, NobodySleeps, TokensConserved, At,
       AsNat, Inside, Critical
  <2> QED
    BY <2>1, <2>2, <2>3, <2>4
<1>14. ASSUME NEW c \in Consumers, ReadFault(c) PROVE IInv'
  <2>1. TypeOK'
    BY <1>14 DEF ReadFault, LeaveRead, TypeOK, MutexOwned, NobodySleeps, At, AsNat,
       Inside, Critical, ReadPoints, WritePoints
  <2>2. MutexOwned'
    BY <1>14 DEF ReadFault, LeaveRead, TypeOK, MutexOwned, Inside, Critical
  <2>3. NobodySleeps'
    BY <1>14 DEF ReadFault, LeaveRead, TypeOK, MutexOwned, NobodySleeps, At, AsNat,
       Inside, Critical
  <2>4. TokensConserved'
    BY <1>14 DEF ReadFault, LeaveRead, TypeOK, MutexOwned, NobodySleeps, TokensConserved, At,
       AsNat, Inside, Critical
  <2> QED
    BY <2>1, <2>2, <2>3, <2>4
<1>15. ASSUME NEW p \in Producers, CallWrite(p) PROVE IInv'
  <2>1. TypeOK'
    BY <1>15 DEF CallWrite, TypeOK, MutexOwned, NobodySleeps, At, AsNat,
       Inside, Critical, ReadPoints, WritePoints
  <2>2. MutexOwned'
    BY <1>15 DEF CallWrite, TypeOK, MutexOwned, Inside, Critical
  <2>3. NobodySleeps'
    BY <1>15 DEF CallWrite, TypeOK, MutexOwned, NobodySleeps, At, AsNat,
       Inside, Critical
  <2>4. TokensConserved'
    BY <1>15 DEF CallWrite, TypeOK, MutexOwned, NobodySleeps, TokensConserved, At,
       AsNat, Inside, Critical
  <2> QED
    BY <2>1, <2>2, <2>3, <2>4
<1>16. ASSUME NEW p \in Producers, WriteLock(p) PROVE IInv'
  <2>1. TypeOK'
    BY <1>16 DEF WriteLock, TypeOK, MutexOwned, NobodySleeps, At, AsNat,
       Inside, Critical, ReadPoints, WritePoints
  <2>2. MutexOwned'
    BY <1>16 DEF WriteLock, TypeOK, MutexOwned, Inside, Critical
  <2>3. NobodySleeps'
    BY <1>16 DEF WriteLock, TypeOK, MutexOwned, NobodySleeps, At, AsNat,
       Inside, Critical
  <2>4. TokensConserved'
    BY <1>16 DEF WriteLock, TypeOK, MutexOwned, NobodySleeps, TokensConserved, At,
       AsNat, Inside, Critical
  <2> QED
    BY <2>1, <2>2, <2>3, <2>4
<1>17. ASSUME NEW p \in Producers, WriteFull(p) PROVE IInv'
  <2>1. TypeOK'
    BY <1>17 DEF WriteFull, TypeOK, MutexOwned, NobodySleeps, At, AsNat,
       Inside, Critical, ReadPoints, WritePoints
  <2>2. MutexOwned'
    BY <1>17 DEF WriteFull, TypeOK, MutexOwned, Inside, Critical
  <2>3. NobodySleeps'
    BY <1>17 DEF WriteFull, TypeOK, MutexOwned, NobodySleeps, At, AsNat,
       Inside, Critical
  <2>4. TokensConserved'
    BY <1>17 DEF WriteFull, TypeOK, MutexOwned, NobodySleeps, TokensConserved, At,
       AsNat, Inside, Critical
  <2> QED
    BY <2>1, <2>2, <2>3, <2>4
<1>18. ASSUME NEW p \in Producers, WriteTake(p) PROVE IInv'
  <2>1. TypeOK'
    BY <1>18 DEF WriteTake, TypeOK, MutexOwned, NobodySleeps, At, AsNat,
       Inside, Critical, ReadPoints, WritePoints
  <2>2. MutexOwned'
    BY <1>18 DEF WriteTake, TypeOK, MutexOwned, Inside, Critical
  <2>3. NobodySleeps'
    BY <1>18 DEF WriteTake, TypeOK, MutexOwned, NobodySleeps, At, AsNat,
       Inside, Critical
  <2>4. TokensConserved'
    BY <1>18 DEF WriteTake, TypeOK, MutexOwned, NobodySleeps, TokensConserved, At,
       AsNat, Inside, Critical
  <2> QED
    BY <2>1, <2>2, <2>3, <2>4
<1>19. ASSUME NEW p \in Producers, WriteCopy(p) PROVE IInv'
  <2>1. TypeOK'
    BY <1>19, AdvanceCases DEF WriteCopy, InsertItem, LeaveWrite, TypeOK, MutexOwned, NobodySleeps, At, AsNat,
       Inside, Critical, ReadPoints, WritePoints
  <2>2. MutexOwned'
    BY <1>19 DEF WriteCopy, InsertItem, LeaveWrite, TypeOK, MutexOwned, Inside, Critical
  <2>3. NobodySleeps'
    BY <1>19 DEF WriteCopy, InsertItem, LeaveWrite, TypeOK, MutexOwned, NobodySleeps, At, AsNat,
       Inside, Critical
  <2>4. TokensConserved'
    BY <1>19 DEF WriteCopy, InsertItem, LeaveWrite, TypeOK, MutexOwned, NobodySleeps, TokensConserved, At,
       AsNat, Inside, Critical
  <2> QED
    BY <2>1, <2>2, <2>3, <2>4
<1>20. ASSUME NEW p \in Producers, WriteFault(p) PROVE IInv'
  <2>1. TypeOK'
    BY <1>20 DEF WriteFault, LeaveWrite, TypeOK, MutexOwned, NobodySleeps, At, AsNat,
       Inside, Critical, ReadPoints, WritePoints
  <2>2. MutexOwned'
    BY <1>20 DEF WriteFault, LeaveWrite, TypeOK, MutexOwned, Inside, Critical
  <2>3. NobodySleeps'
    BY <1>20 DEF WriteFault, LeaveWrite, TypeOK, MutexOwned, NobodySleeps, At, AsNat,
       Inside, Critical
  <2>4. TokensConserved'
    BY <1>20 DEF WriteFault, LeaveWrite, TypeOK, MutexOwned, NobodySleeps, TokensConserved, At,
       AsNat, Inside, Critical
  <2> QED
    BY <2>1, <2>2, <2>3, <2>4
<1>21. CASE UNCHANGED vars
  BY <1>21 DEF vars, TypeOK, MutexOwned, NobodySleeps, TokensConserved, At, Inside
<1> QED
  BY <1>1, <1>2, <1>3, <1>4, <1>5, <1>6, <1>7, <1>8, <1>9, <1>10, <1>11, <1>12, <1>13, <1>14, <1>15, <1>16, <1>17, <1>18, <1>19, <1>20, <1>21
     DEF Next, Client, Reader, Writer

-----------------------------------------------------------------------------
(***************************************************************************)
(* The theorems that follow from IInv.                                     *)
(***************************************************************************)
LEMMA Inductive == Spec => []IInv
BY InitIInv, NextIInv, PTL DEF Spec

\* Types: the semaphores and the counts of users inside a call of
\* scullBuffer.c are never negative, the indices stay within the ring.
THEOREM TypesCorrect == Spec => []TypeOK
BY Inductive, PTL DEF IInv

\* Mutual exclusion of the bodies of scullBuffer_read and scullBuffer_write,
\* whatever copies fail and whatever waits are interrupted.
THEOREM MutualExclusion == Spec => []MutexOwned
BY Inductive, PTL DEF IInv

\* The sleeps on item_sem and space_sem are dead code, for any number of
\* clients: the counts they are guarded by are 0 under the mutex.
THEOREM SleepsAreDeadCode == Spec => []NobodySleeps
BY Inductive, PTL DEF IInv

\* Neither holds without the other.
THEOREM MutexIsKept == Spec => []MutexKept
<1>1. IInv => MutexKept
  BY DEF IInv, MutexKept
<1> QED
  BY <1>1, Inductive, PTL

\* The tokens of item_sem and space_sem account for every slot, and the
\* failures of copies account for the whole difference with dev->size.
THEOREM TokensAccounted == Spec => []TokensConserved
BY Inductive, PTL DEF IInv

-----------------------------------------------------------------------------
(***************************************************************************)
(* The two indices.  RingConsistent speaks of a remainder; the form that   *)
(* is easy to carry over a step names the number of turns round the ring.  *)
(***************************************************************************)
RingTurns ==
  \E k \in Int : readIndex + size = (ScullSize * k) + writeIndex

LEMMA RingInit == Init => RingTurns
<1> SUFFICES ASSUME Init PROVE RingTurns
  OBVIOUS
<1>1. readIndex + size = (ScullSize * 0) + writeIndex
  BY ScullAssumption DEF Init
<1> QED
  BY <1>1 DEF RingTurns

LEMMA RingNext == TypeOK /\ RingTurns /\ [Next]_vars => RingTurns'
<1> SUFFICES ASSUME TypeOK, RingTurns, [Next]_vars PROVE RingTurns'
  OBVIOUS
<1>1. PICK k \in Int : readIndex + size = (ScullSize * k) + writeIndex
  BY DEF RingTurns
<1>2. /\ ScullSize \in Nat \ {0}
      /\ readIndex \in Slots /\ writeIndex \in Slots /\ size \in Int
      /\ readIndex \in Int /\ writeIndex \in Int
  BY ScullAssumption DEF TypeOK, Slots
<1>3. /\ ScullSize * (k - 1) = ScullSize * k - ScullSize
      /\ ScullSize * (k + 1) = ScullSize * k + ScullSize
      /\ ScullSize * k \in Int
  BY <1>2
<1>4. CASE readIndex' = readIndex /\ size' = size /\ writeIndex' = writeIndex
  BY <1>1, <1>4 DEF RingTurns
<1>5. ASSUME NEW c \in Consumers, ReadCopy(c) PROVE RingTurns'
  <2>1. /\ readIndex' = Advance(readIndex)
        /\ size' = size - 1 /\ writeIndex' = writeIndex
    BY <1>5 DEF ReadCopy, RemoveItem
  <2>2. CASE readIndex + 1 = ScullSize
    <3>1. readIndex' = readIndex + 1 - ScullSize
      BY <2>1, <2>2, <1>2, AdvanceCases
    <3>2. readIndex' + size' = (ScullSize * (k - 1)) + writeIndex'
      BY <3>1, <2>1, <1>1, <1>2, <1>3
    <3> QED
      BY <3>2 DEF RingTurns
  <2>3. CASE readIndex + 1 # ScullSize
    <3>1. readIndex' = readIndex + 1
      BY <2>1, <2>3, <1>2, AdvanceCases
    <3>2. readIndex' + size' = (ScullSize * k) + writeIndex'
      BY <3>1, <2>1, <1>1, <1>2, <1>3
    <3> QED
      BY <3>2 DEF RingTurns
  <2> QED
    BY <2>2, <2>3
<1>6. ASSUME NEW p \in Producers, WriteCopy(p) PROVE RingTurns'
  <2>1. /\ writeIndex' = Advance(writeIndex)
        /\ size' = size + 1 /\ readIndex' = readIndex
    BY <1>6 DEF WriteCopy, InsertItem
  <2>2. CASE writeIndex + 1 = ScullSize
    <3>1. writeIndex' = writeIndex + 1 - ScullSize
      BY <2>1, <2>2, <1>2, AdvanceCases
    <3>2. readIndex' + size' = (ScullSize * (k + 1)) + writeIndex'
      BY <3>1, <2>1, <1>1, <1>2, <1>3
    <3> QED
      BY <3>2 DEF RingTurns
  <2>3. CASE writeIndex + 1 # ScullSize
    <3>1. writeIndex' = writeIndex + 1
      BY <2>1, <2>3, <1>2, AdvanceCases
    <3>2. readIndex' + size' = (ScullSize * k) + writeIndex'
      BY <3>1, <2>1, <1>1, <1>2, <1>3
    <3> QED
      BY <3>2 DEF RingTurns
  <2> QED
    BY <2>2, <2>3
<1>7. \/ \E c \in Consumers : ReadCopy(c)
      \/ \E p \in Producers : WriteCopy(p)
      \/ readIndex' = readIndex /\ size' = size /\ writeIndex' = writeIndex
  <2> USE DEF ring
  <2>1. ASSUME NEW p \in Procs, Client(p) PROVE UNCHANGED ring
    BY <2>1 DEF Client, CallOpen, Open, CallRelease, Release, OpenInterrupted,
       ReleaseInterrupted, TransferInterrupted
  <2>2. ASSUME NEW c \in Consumers, Reader(c) PROVE ReadCopy(c) \/ UNCHANGED ring
    BY <2>2 DEF Reader, CallRead, ReadLock, ReadEmpty, ReadTake, ReadZero,
       ReadFault
  <2>3. ASSUME NEW p \in Producers, Writer(p)
        PROVE  \/ WriteCopy(p)
               \/ UNCHANGED <<readIndex, writeIndex, size>>
    BY <2>3 DEF Writer, CallWrite, WriteLock, WriteFull, WriteTake, WriteFault
  <2>4. CASE UNCHANGED vars
    BY <2>4 DEF vars
  <2> QED
    BY <2>1, <2>2, <2>3, <2>4 DEF Next
<1> QED
  BY <1>4, <1>5, <1>6, <1>7

LEMMA RingRemainder == TypeOK /\ RingTurns => RingConsistent
<1> SUFFICES ASSUME TypeOK, RingTurns PROVE RingConsistent
  OBVIOUS
<1>1. PICK k \in Int : readIndex + size = (ScullSize * k) + writeIndex
  BY DEF RingTurns
<1>2. /\ ScullSize \in Nat \ {0}
      /\ writeIndex \in 0 .. ScullSize - 1
      /\ readIndex + size \in Int
  BY ScullAssumption DEF TypeOK, Slots
<1>3. (readIndex + size) % ScullSize = writeIndex
  BY <1>1, <1>2, RemainderUnique
<1> QED
  BY <1>3 DEF RingConsistent

\* readIndex, writeIndex and dev->size agree for every scull_size and after
\* any history of failing calls: size may drift from the tokens (see
\* TokensConserved) but never from the distance of the two indices.
THEOREM IndicesAgree == Spec => []RingConsistent
<1>1. TypeOK /\ TypeOK' /\ RingTurns /\ [Next]_vars => RingTurns'
  BY RingNext
<1> QED
  BY <1>1, RingInit, RingRemainder, TypesCorrect, PTL DEF Spec
-----------------------------------------------------------------------------
(***************************************************************************)
(* The opener counts.  Three actions move them or the set of open files;   *)
(* the others leave both alone.                                            *)
(***************************************************************************)
Opened == {p \in Procs : pc[p] \notin {"closed", "open"}}

LEMMA OpenedFinite == IsFiniteSet(Opened) /\ Cardinality(Opened) \in Nat
<1>1. IsFiniteSet(Procs)
  BY ScullAssumption, FS_Union DEF Procs
<1>2. Opened \in SUBSET Procs
  BY DEF Opened
<1> QED
  BY <1>1, <1>2, FS_Subset, FS_CardinalityType

LEMMA OpenedStep ==
  ASSUME TypeOK, [Next]_vars
  PROVE  \/ \E p \in Procs : /\ p \notin Opened /\ Opened' = Opened \cup {p}
                             /\ readerCnt' + writerCnt' = readerCnt + writerCnt + 1
                             /\ lostReleases' = lostReleases
         \/ \E p \in Opened : /\ Opened' = Opened \ {p}
                              /\ readerCnt' + writerCnt' = readerCnt + writerCnt - 1
                              /\ lostReleases' = lostReleases
         \/ \E p \in Opened : /\ Opened' = Opened \ {p}
                              /\ readerCnt' + writerCnt' = readerCnt + writerCnt
                              /\ lostReleases' = lostReleases + 1
         \/ /\ Opened' = Opened
            /\ readerCnt' + writerCnt' = readerCnt + writerCnt
            /\ lostReleases' = lostReleases
<1> USE DEF Opened, Goto, openCnts, signals
<1>0. /\ DOMAIN pc = Procs /\ pc = [p \in Procs |-> pc[p]]
      /\ readerCnt \in Int /\ writerCnt \in Int
  BY DEF TypeOK
<1>1. ASSUME NEW p \in Procs, Open(p)
      PROVE  /\ p \notin Opened /\ Opened' = Opened \cup {p}
             /\ readerCnt' + writerCnt' = readerCnt + writerCnt + 1
             /\ lostReleases' = lostReleases
  BY <1>0, <1>1, ScullAssumption DEF Open, CountOpeners, Procs
<1>2. ASSUME NEW p \in Procs, Release(p)
      PROVE  /\ p \in Opened /\ Opened' = Opened \ {p}
             /\ readerCnt' + writerCnt' = readerCnt + writerCnt - 1
             /\ lostReleases' = lostReleases
  BY <1>0, <1>2, ScullAssumption DEF Release, Exit, CountOpeners, Procs
<1>3. ASSUME NEW p \in Procs, ReleaseInterrupted(p)
      PROVE  /\ p \in Opened /\ Opened' = Opened \ {p}
             /\ readerCnt' + writerCnt' = readerCnt + writerCnt
             /\ lostReleases' = lostReleases + 1
  BY <1>0, <1>3 DEF ReleaseInterrupted, Signal, Exit
<1> DEFINE Same == /\ Opened' = Opened
                   /\ readerCnt' + writerCnt' = readerCnt + writerCnt
                   /\ lostReleases' = lostReleases
<1>4. ASSUME NEW p \in Procs,
             CallOpen(p) \/ CallRelease(p) \/ OpenInterrupted(p)
               \/ TransferInterrupted(p)
      PROVE  Same
  BY <1>0, <1>4 DEF CallOpen, CallRelease, OpenInterrupted, Signal,
     TransferInterrupted
<1>5. ASSUME NEW c \in Consumers, Reader(c) PROVE Same
  BY <1>0, <1>5 DEF Reader, CallRead, ReadLock, ReadEmpty, ReadTake, ReadZero,
     ReadCopy, ReadFault
<1>6. ASSUME NEW p \in Producers, Writer(p) PROVE Same
  BY <1>0, <1>6 DEF Writer, CallWrite, WriteLock, WriteFull, WriteTake,
     WriteCopy, WriteFault
<1>7. CASE UNCHANGED vars
  BY <1>7 DEF vars
<1> QED
  BY <1>1, <1>2, <1>3, <1>4, <1>5, <1>6, <1>7 DEF Next, Client

LEMMA OpenersNext ==
  ASSUME TypeOK, OpenersCounted, [Next]_vars
  PROVE  OpenersCounted'
<1>1. /\ readerCnt + writerCnt = Cardinality(Opened) + lostReleases
      /\ Cardinality(Opened) \in Nat /\ lostReleases \in Nat
      /\ readerCnt \in Int /\ writerCnt \in Int
  BY OpenedFinite DEF OpenersCounted, Opened, TypeOK
<1> SUFFICES readerCnt' + writerCnt' = Cardinality(Opened') + lostReleases'
  BY DEF OpenersCounted, Opened
<1>2. ASSUME NEW p \in Procs, p \notin Opened, Opened' = Opened \cup {p}
      PROVE  Cardinality(Opened') = Cardinality(Opened) + 1
  BY <1>2, OpenedFinite, FS_AddElement, Zenon
<1>3. ASSUME NEW p \in Opened, Opened' = Opened \ {p}
      PROVE  Cardinality(Opened') = Cardinality(Opened) - 1
  BY <1>3, OpenedFinite, FS_RemoveElement, Zenon
<1>4. CASE \E p \in Procs :
             /\ p \notin Opened /\ Opened' = Opened \cup {p}
             /\ readerCnt' + writerCnt' = readerCnt + writerCnt + 1
             /\ lostReleases' = lostReleases
  <2>1. /\ Cardinality(Opened') = Cardinality(Opened) + 1
        /\ readerCnt' + writerCnt' = readerCnt + writerCnt + 1
        /\ lostReleases' = lostReleases
    BY <1>2, <1>4, Zenon
  <2>2. Cardinality(Opened') \in Int /\ lostReleases' \in Int
    BY <1>1, <2>1
  <2> QED
    BY <1>1, <2>1, <2>2
<1>5. CASE \E p \in Opened :
             /\ Opened' = Opened \ {p}
             /\ readerCnt' + writerCnt' = readerCnt + writerCnt - 1
             /\ lostReleases' = lostReleases
  <2>1. /\ Cardinality(Opened') = Cardinality(Opened) - 1
        /\ readerCnt' + writerCnt' = readerCnt + writerCnt - 1
        /\ lostReleases' = lostReleases
    BY <1>3, <1>5, Zenon
  <2>2. Cardinality(Opened') \in Int /\ lostReleases' \in Int
    BY <1>1, <2>1
  <2> QED
    BY <1>1, <2>1, <2>2
<1>6. CASE \E p \in Opened :
             /\ Opened' = Opened \ {p}
             /\ readerCnt' + writerCnt' = readerCnt + writerCnt
             /\ lostReleases' = lostReleases + 1
  <2>1. /\ Cardinality(Opened') = Cardinality(Opened) - 1
        /\ readerCnt' + writerCnt' = readerCnt + writerCnt
        /\ lostReleases' = lostReleases + 1
    BY <1>3, <1>6, Zenon
  <2>2. Cardinality(Opened') \in Int /\ lostReleases' \in Int
    BY <1>1, <2>1
  <2> QED
    BY <1>1, <2>1, <2>2
<1>7. CASE /\ Opened' = Opened
           /\ readerCnt' + writerCnt' = readerCnt + writerCnt
           /\ lostReleases' = lostReleases
  BY <1>1, <1>7
<1> QED
  BY <1>4, <1>5, <1>6, <1>7, OpenedStep, Zenon

\* readerCnt and writerCnt count the open files, for any number of clients,
\* but for the releases that a signal interrupted: those stay counted for ever.
THEOREM OpenersAreCounted == Spec => []OpenersCounted
<1>1. Init => OpenersCounted
  <2> SUFFICES ASSUME Init PROVE OpenersCounted
    OBVIOUS
  <2>1. Opened = {}
    BY DEF Init, Opened
  <2> QED
    BY <2>1, FS_EmptySet DEF Init, OpenersCounted, Opened
<1>2. TypeOK /\ OpenersCounted /\ [Next]_vars => OpenersCounted'
  BY OpenersNext
<1> QED
  BY <1>1, <1>2, TypesCorrect, PTL DEF Spec
-----------------------------------------------------------------------------
(***************************************************************************)
(* The window of items.  The tokens bound dev->size while no write failed  *)
(* (TokensConserved), and the two indices say which slot a write fills     *)
(* (RingConsistent).                                                       *)
(***************************************************************************)
SlotAt(k) == (readIndex + k) % ScullSize

LEMMA SlotShift ==
  ASSUME NEW r \in Slots, NEW k \in Int
  PROVE  (Advance(r) + k) % ScullSize = (r + (k + 1)) % ScullSize
<1> DEFINE y == r + (k + 1)
           d == y \div ScullSize
           m == y % ScullSize
<1>1. ScullSize \in Nat \ {0} /\ r \in Int /\ y \in Int
  BY ScullAssumption DEF Slots
<1>2. y = (ScullSize * d) + m /\ d \in Int /\ m \in 0 .. ScullSize - 1
  BY <1>1, DivisionWithRemainder
<1>3. CASE r + 1 = ScullSize
  <2>1. Advance(r) + k = y - ScullSize
    BY <1>1, <1>3, AdvanceCases
  <2>2. ScullSize * (d - 1) = ScullSize * d - ScullSize * 1 /\ ScullSize * d \in Int
    BY <1>1, <1>2, ProductOfDifference
  <2> HIDE DEF y, d, m
  <2>3. Advance(r) + k = (ScullSize * (d - 1)) + m /\ d - 1 \in Int
        /\ Advance(r) + k \in Int
    BY <1>1, <1>2, <2>1, <2>2
  <2>4. (Advance(r) + k) % ScullSize = m
    BY <1>1, <1>2, <2>3, RemainderUnique
  <2> QED
    BY <2>4 DEF m, y
<1>4. CASE r + 1 # ScullSize
  <2>1. Advance(r) = r + 1
    BY <1>4, AdvanceCases
  <2>2. Advance(r) + k = y
    BY <1>1, <2>1
  <2> QED
    BY <2>2
<1> QED
  BY <1>3, <1>4

LEMMA SlotsApart ==
  ASSUME NEW r \in Slots, NEW j \in 1 .. ScullSize - 1
  PROVE  (r + j) % ScullSize # r
<1>1. ScullSize \in Nat \ {0} /\ r \in 0 .. ScullSize - 1
  BY ScullAssumption DEF Slots
<1>2. CASE r + j < ScullSize
  <2>1. r + j = (ScullSize * 0) + (r + j) /\ r + j \in 0 .. ScullSize - 1
    BY <1>1, <1>2
  <2>2. (r + j) % ScullSize = r + j
    BY <1>1, <2>1, RemainderUnique
  <2> QED
    BY <1>1, <2>2
<1>3. CASE r + j >= ScullSize
  <2>1. /\ r + j = (ScullSize * 1) + (r + j - ScullSize)
        /\ r + j - ScullSize \in 0 .. ScullSize - 1 /\ r + j \in Int
    BY <1>1, <1>3
  <2>2. (r + j) % ScullSize = r + j - ScullSize
    BY <1>1, <2>1, RemainderUnique
  <2> QED
    BY <1>1, <2>2
<1> QED
  BY <1>1, <1>2, <1>3

LEMMA SlotInRing == TypeOK => \A k \in Int : SlotAt(k) \in Slots
<1> SUFFICES ASSUME TypeOK, NEW k \in Int PROVE SlotAt(k) \in Slots
  OBVIOUS
<1>1. ScullSize \in Nat \ {0} /\ readIndex + k \in Int
  BY ScullAssumption DEF TypeOK, Slots
<1> QED
  BY <1>1, DivisionWithRemainder DEF SlotAt, Slots

LEMMA WindowStep ==
  ASSUME IInv, RingConsistent, WindowIntact, [Next]_vars
  PROVE  WindowIntact'
<1> SUFFICES ASSUME writeFaults' = 0
             PROVE  /\ size' \in 0 .. ScullSize
                    /\ \A k \in 0 .. size' - 1 : bufferPtr'[SlotAt(k)'] \in Producers
  BY DEF WindowIntact, SlotAt
<1> DEFINE quiet == UNCHANGED <<readIndex, size, bufferPtr, writeFaults>>
<1>0. /\ ScullSize \in Nat \ {0} /\ readIndex \in Slots /\ size \in Int
      /\ DOMAIN bufferPtr = Slots
      /\ item_sem \in Nat /\ space_sem \in Nat
      /\ writeFaults \in Nat /\ readFaults \in Nat /\ wedged \in BOOLEAN
  BY ScullAssumption DEF IInv, TypeOK
<1>1. CASE quiet
  BY <1>1 DEF WindowIntact, SlotAt
<1>2. ASSUME NEW c \in Consumers, ReadCopy(c)
      PROVE  /\ size' \in 0 .. ScullSize
             /\ \A k \in 0 .. size' - 1 : bufferPtr'[SlotAt(k)'] \in Producers
  <2>1. /\ pc[c] = "read_copy" /\ size' = size - 1
        /\ readIndex' = Advance(readIndex)
        /\ bufferPtr' = [bufferPtr EXCEPT ![readIndex] = "unused"]
        /\ writeFaults = 0
    BY <1>2 DEF ReadCopy, RemoveItem, faults
  <2>2. AsNat(At("read_copy")) = 1 /\ AsNat(wedged) \in Nat
    BY <2>1 DEF At, AsNat, Procs
  <2>3. size >= 1
    BY <1>0, <2>1, <2>2 DEF IInv, TokensConserved
  <2>4. size \in 0 .. ScullSize
        /\ \A k \in 0 .. size - 1 : bufferPtr[SlotAt(k)] \in Producers
    BY <2>1 DEF WindowIntact, SlotAt
  <2>5. ASSUME NEW k \in 0 .. size' - 1 PROVE bufferPtr'[SlotAt(k)'] \in Producers
    <3>1. k \in Int /\ k + 1 \in 0 .. size - 1 /\ k + 1 \in 1 .. ScullSize - 1
      BY <1>0, <2>1, <2>4
    <3>2. SlotAt(k)' = SlotAt(k + 1)
      BY <1>0, <2>1, <3>1, SlotShift DEF SlotAt
    <3>3. SlotAt(k + 1) # readIndex /\ SlotAt(k + 1) \in Slots
      BY <1>0, <3>1, SlotsApart, SlotInRing DEF SlotAt, IInv
    <3>4. bufferPtr'[SlotAt(k + 1)] = bufferPtr[SlotAt(k + 1)]
      BY <1>0, <2>1, <3>3
    <3> QED
      BY <2>4, <3>1, <3>2, <3>4
  <2> QED
    BY <1>0, <2>1, <2>3, <2>4, <2>5
<1>3. ASSUME NEW p \in Producers, WriteCopy(p)
      PROVE  /\ size' \in 0 .. ScullSize
             /\ \A k \in 0 .. size' - 1 : bufferPtr'[SlotAt(k)'] \in Producers
  <2>1. /\ pc[p] = "write_copy" /\ size' = size + 1
        /\ readIndex' = readIndex
        /\ bufferPtr' = [bufferPtr EXCEPT ![writeIndex] = p]
        /\ writeFaults = 0
    BY <1>3 DEF WriteCopy, InsertItem, faults
  <2>2. /\ AsNat(At("write_copy")) = 1
        /\ AsNat(wedged) \in Nat /\ AsNat(At("read_copy")) \in Nat
    BY <2>1 DEF At, AsNat, Procs
  <2>3. size + 1 <= ScullSize
    BY <1>0, <2>1, <2>2 DEF IInv, TokensConserved
  <2>4. size \in 0 .. ScullSize
        /\ \A k \in 0 .. size - 1 : bufferPtr[SlotAt(k)] \in Producers
    BY <2>1 DEF WindowIntact, SlotAt
  <2>5. ASSUME NEW k \in 0 .. size' - 1 PROVE bufferPtr'[SlotAt(k)'] \in Producers
    <3>1. SlotAt(k)' = SlotAt(k) /\ SlotAt(k) \in Slots
      BY <2>1, SlotInRing DEF SlotAt, IInv
    <3>2. CASE k = size
      <4>1. SlotAt(k) = writeIndex
        BY <3>2 DEF SlotAt, RingConsistent
      <4> QED
        BY <1>0, <2>1, <3>1, <4>1
    <3>3. CASE k \in 0 .. size - 1
      BY <1>0, <2>1, <2>4, <3>1, <3>3
    <3> QED
      BY <1>0, <2>1, <3>2, <3>3
  <2> QED
    BY <1>0, <2>1, <2>3, <2>4, <2>5
<1>4. \/ \E c \in Consumers : ReadCopy(c)
      \/ \E p \in Producers : WriteCopy(p)
      \/ quiet
  <2> USE DEF ring, faults
  <2>1. ASSUME NEW p \in Procs, Client(p) PROVE quiet
    BY <2>1 DEF Client, CallOpen, Open, CallRelease, Release, OpenInterrupted,
       ReleaseInterrupted, TransferInterrupted
  <2>2. ASSUME NEW c \in Consumers, Reader(c) PROVE ReadCopy(c) \/ quiet
    BY <2>2 DEF Reader, CallRead, ReadLock, ReadEmpty, ReadTake, ReadZero,
       ReadFault
  <2>3. ASSUME NEW p \in Producers, Writer(p) PROVE WriteCopy(p) \/ quiet
    <3>1. ~ WriteFault(p)
      BY <1>0 DEF WriteFault
    <3> QED
      BY <2>3, <3>1 DEF Writer, CallWrite, WriteLock, WriteFull, WriteTake
  <2>4. CASE UNCHANGED vars
    BY <2>4 DEF vars
  <2> QED
    BY <2>1, <2>2, <2>3, <2>4 DEF Next
<1> QED
  BY <1>1, <1>2, <1>3, <1>4

\* While no copy_from_user has failed, the dev->size slots from readIndex on
\* are all written and unread, for every size of the ring and every schedule:
\* no write overtakes a read, no read overtakes a write.
THEOREM WindowStaysIntact == Spec => []WindowIntact
<1>1. Init => WindowIntact
  BY ScullAssumption DEF Init, WindowIntact
<1>2. IInv /\ RingConsistent /\ WindowIntact /\ [Next]_vars => WindowIntact'
  BY WindowStep
<1> QED
  BY <1>1, <1>2, Inductive, IndicesAgree, PTL DEF Spec
-----------------------------------------------------------------------------
(***************************************************************************)
(* The device implements the FIFO.  Without failing copies and zero-byte   *)
(* reads the tokens are dev->size, a process has a pending reply exactly   *)
(* while it is inside a call, and each call takes effect in one step.      *)
(***************************************************************************)
Faultless == writeFaults = 0 /\ readFaults = 0 /\ wedged = FALSE

PendingInCall ==
  \A p \in Procs : reply[p] = "pending" <=> pc[p] \in ReadPoints \cup WritePoints

DInv == IInv /\ RingConsistent /\ WindowIntact /\ Faultless /\ PendingInCall

LEMMA DistinctSlots ==
  ASSUME NEW x \in Int, NEW j \in 1 .. ScullSize - 1
  PROVE  (x + j) % ScullSize # x % ScullSize
<1> DEFINE d == x \div ScullSize
           m == x % ScullSize
<1>1. ScullSize \in Nat \ {0}
  BY ScullAssumption
<1>2. x = (ScullSize * d) + m /\ d \in Int /\ m \in 0 .. ScullSize - 1
  BY <1>1, DivisionWithRemainder
<1>3. (ScullSize * d) \in Int /\ ScullSize * (d - (-1)) = ScullSize * d - ScullSize * (-1)
  BY <1>1, <1>2, ProductOfDifference
<1> HIDE DEF d, m
<1>4. CASE m + j < ScullSize
  <2>1. x + j = (ScullSize * d) + (m + j) /\ m + j \in 0 .. ScullSize - 1 /\ x + j \in Int
    BY <1>1, <1>2, <1>3, <1>4
  <2>2. (x + j) % ScullSize = m + j
    BY <1>1, <1>2, <2>1, RemainderUnique
  <2> QED
    BY <1>1, <1>2, <2>2 DEF m
<1>5. CASE m + j >= ScullSize
  <2>1. /\ x + j = (ScullSize * (d - (-1))) + (m + j - ScullSize)
        /\ m + j - ScullSize \in 0 .. ScullSize - 1 /\ x + j \in Int
        /\ d - (-1) \in Int
    BY <1>1, <1>2, <1>3, <1>5
  <2>2. (x + j) % ScullSize = m + j - ScullSize
    BY <1>1, <2>1, RemainderUnique
  <2> QED
    BY <1>1, <1>2, <2>2 DEF m
<1> QED
  BY <1>1, <1>2, <1>4, <1>5

LEMMA SameSequence ==
  ASSUME NEW S, NEW s \in Seq(S), NEW t \in Seq(S), Len(s) = Len(t),
         \A i \in 1 .. Len(s) : s[i] = t[i]
  PROVE  s = t
OBVIOUS

\* What the queue of the FIFO is under the refinement mapping.
ContentsShape ==
  /\ ScullSize \in Nat \ {0} /\ readIndex \in Slots /\ readIndex \in Int
  /\ size \in 0 .. ScullSize
  /\ Contents \in Seq(Producers) /\ Len(Contents) = size
  /\ \A k \in 1 .. size : Contents[k] = bufferPtr[SlotAt(k - 1)]

LEMMA ContentsRead == DInv => ContentsShape
<1> SUFFICES ASSUME DInv PROVE ContentsShape
  OBVIOUS
<1>1. /\ ScullSize \in Nat \ {0} /\ readIndex \in Slots /\ readIndex \in Int
      /\ size \in 0 .. ScullSize
      /\ \A k \in 0 .. size - 1 : bufferPtr[SlotAt(k)] \in Producers
  BY ScullAssumption DEF DInv, WindowIntact, Faultless, SlotAt, IInv, TypeOK, Slots
<1>2. \A k \in 1 .. size : readIndex + k - 1 = readIndex + (k - 1)
  BY <1>1
<1>3. Contents = [k \in 1 .. size |-> bufferPtr[SlotAt(k - 1)]]
  BY <1>2 DEF Contents, SlotAt
<1>4. \A k \in 1 .. size : bufferPtr[SlotAt(k - 1)] \in Producers
  <2> SUFFICES ASSUME NEW k \in 1 .. size PROVE bufferPtr[SlotAt(k - 1)] \in Producers
    OBVIOUS
  <2>1. k - 1 \in 0 .. size - 1
    BY <1>1
  <2> QED
    BY <1>1, <2>1
<1>5. Contents \in [1 .. size -> Producers]
  BY <1>3, <1>4
<1>6. Contents \in Seq(Producers) /\ Len(Contents) = size
  BY <1>1, <1>5
<1> QED
  BY <1>1, <1>3, <1>6 DEF ContentsShape

LEMMA ContentsReadNext == DInv' => ContentsShape'
BY ContentsRead, PTL

LEMMA ReadTakesOldest ==
  ASSUME DInv, DInv', NEW c \in Consumers, ReadCopy(c)
  PROVE  Fifo!Get(c)
<1>a. /\ ScullSize \in Nat \ {0} /\ readIndex \in Slots /\ readIndex \in Int
      /\ size \in 0 .. ScullSize
      /\ Contents \in Seq(Producers) /\ Len(Contents) = size
  BY ContentsRead DEF ContentsShape
<1>b. \A k \in 1 .. size : Contents[k] = bufferPtr[SlotAt(k - 1)]
  BY ContentsRead DEF ContentsShape
<1>1. /\ pc[c] = "read_copy" /\ size' = size - 1
      /\ readIndex' = Advance(readIndex)
      /\ bufferPtr' = [bufferPtr EXCEPT ![readIndex] = "unused"]
      /\ reply' = [reply EXCEPT ![c] = ItemRead(bufferPtr[readIndex])]
      /\ c \in Procs
  BY DEF ReadCopy, RemoveItem, Answer, Procs
<1>2. size' \in 0 .. ScullSize
  BY <1>a DEF DInv, WindowIntact, Faultless
<1>3. size >= 1
  BY <1>a, <1>1, <1>2
<1>4. Contents # <<>> /\ Contents \in Seq(Producers) /\ Head(Contents) = Contents[1]
  BY <1>a, <1>3
<1>5. Head(Contents) = bufferPtr[readIndex]
  <2>1. 1 \in 1 .. size /\ 1 - 1 = 0 /\ readIndex + 0 = readIndex
    BY <1>a, <1>3
  <2>2. SlotAt(0) = readIndex
    <3>1. readIndex = (ScullSize * 0) + readIndex /\ readIndex \in 0 .. ScullSize - 1
      BY <1>a DEF Slots
    <3>2. readIndex % ScullSize = readIndex
      BY <1>a, <3>1, RemainderUnique
    <3> QED
      BY <2>1, <3>2 DEF SlotAt
  <2> QED
    BY <1>b, <1>4, <2>1, <2>2
<1>6. ItemRead(bufferPtr[readIndex]) = Head(Contents)
  <2>1. Head(Contents) \in Producers
    BY <1>4
  <2>2. "unused" \notin Producers /\ "zeroed" \notin Producers
    BY ScullAssumption
  <2> QED
    BY <1>5, <2>1, <2>2 DEF ItemRead
<1>7. Contents' = Tail(Contents)
  <2>1. Tail(Contents) \in Seq(Producers) /\ Len(Tail(Contents)) = size - 1
        /\ \A k \in 1 .. size - 1 : Tail(Contents)[k] = Contents[k + 1]
    BY <1>a, <1>3, <1>4
  <2>2. /\ Contents' \in Seq(Producers) /\ Len(Contents') = size - 1
        /\ \A k \in 1 .. size - 1 : Contents'[k] = bufferPtr'[SlotAt(k - 1)']
    <3>1. /\ Contents' \in Seq(Producers) /\ Len(Contents') = size'
          /\ \A k \in 1 .. size' : Contents'[k] = bufferPtr'[SlotAt(k - 1)']
      BY ContentsReadNext DEF ContentsShape
    <3> QED
      BY <1>1, <3>1
  <2>3. ASSUME NEW k \in 1 .. size - 1 PROVE Contents'[k] = Tail(Contents)[k]
    <3>1. k \in Int /\ k - 1 \in Int /\ (k - 1) + 1 = k /\ (k + 1) - 1 = k
          /\ k \in 1 .. ScullSize - 1 /\ k + 1 \in 1 .. size
      BY <1>a
    <3>2. SlotAt(k - 1)' = SlotAt(k)
      BY <1>a, <1>1, <3>1, SlotShift DEF SlotAt
    <3>3. SlotAt(k) # readIndex /\ SlotAt(k) \in Slots
      BY <1>a, <3>1, SlotsApart, SlotInRing DEF SlotAt, DInv, IInv
    <3>4. bufferPtr'[SlotAt(k)] = bufferPtr[SlotAt(k)]
      BY <1>1, <3>3 DEF DInv, IInv, TypeOK
    <3>5. Contents[k + 1] = bufferPtr[SlotAt(k)]
      BY <1>b, <3>1
    <3> QED
      BY <2>1, <2>2, <3>2, <3>4, <3>5
  <2> QED
    BY <2>1, <2>2, <2>3, SameSequence
<1>8. reply[c] = "pending"
  BY <1>1 DEF DInv, PendingInCall, ReadPoints
<1> QED
  BY <1>1, <1>4, <1>6, <1>7, <1>8 DEF Fifo!Get, Fifo!Answer
LEMMA WriteAppends ==
  ASSUME DInv, DInv', NEW p \in Producers, WriteCopy(p)
  PROVE  Fifo!Put(p)
<1>a. /\ ScullSize \in Nat \ {0} /\ readIndex \in Int
      /\ size \in 0 .. ScullSize
      /\ Contents \in Seq(Producers) /\ Len(Contents) = size
  BY ContentsRead DEF ContentsShape
<1>b. \A k \in 1 .. size : Contents[k] = bufferPtr[SlotAt(k - 1)]
  BY ContentsRead DEF ContentsShape
<1>1. /\ pc[p] = "write_copy" /\ size' = size + 1
      /\ readIndex' = readIndex
      /\ bufferPtr' = [bufferPtr EXCEPT ![writeIndex] = p]
      /\ reply' = [reply EXCEPT ![p] = "ok"]
      /\ p \in Procs
  BY DEF WriteCopy, InsertItem, Answer, Procs
<1>2. size' \in 0 .. ScullSize /\ size < ScullSize
  <2>1. size' \in 0 .. ScullSize
    BY DEF DInv, WindowIntact, Faultless
  <2> QED
    BY <1>a, <1>1, <2>1
<1>3. SlotAt(size) = writeIndex /\ writeIndex \in Slots
  BY DEF DInv, RingConsistent, IInv, TypeOK, SlotAt
<1>4. Contents' = Append(Contents, p)
  <2>1. /\ Append(Contents, p) \in Seq(Producers)
        /\ Len(Append(Contents, p)) = size + 1
        /\ \A k \in 1 .. size : Append(Contents, p)[k] = Contents[k]
        /\ Append(Contents, p)[size + 1] = p
    BY <1>a
  <2>2. /\ Contents' \in Seq(Producers) /\ Len(Contents') = size + 1
        /\ \A k \in 1 .. size + 1 : Contents'[k] = bufferPtr'[SlotAt(k - 1)']
    <3>1. /\ Contents' \in Seq(Producers) /\ Len(Contents') = size'
          /\ \A k \in 1 .. size' : Contents'[k] = bufferPtr'[SlotAt(k - 1)']
      BY ContentsReadNext DEF ContentsShape
    <3> QED
      BY <1>1, <3>1
  <2>3. ASSUME NEW k \in 1 .. size PROVE Contents'[k] = Append(Contents, p)[k]
    <3> DEFINE x == readIndex + (k - 1)
               j == size - (k - 1)
    <3>1. /\ k \in 1 .. size + 1
          /\ x \in Int /\ j \in 1 .. ScullSize
          /\ x + j = readIndex + size
      BY <1>a
    <3>2. SlotAt(k - 1)' = SlotAt(k - 1) /\ SlotAt(k - 1) \in Slots
      <4>1. k - 1 \in Int
        BY <1>a
      <4> QED
        BY <1>1, <4>1, SlotInRing DEF SlotAt, DInv, IInv
    <3>3. SlotAt(k - 1) # writeIndex
      <4>1. j \in 1 .. ScullSize - 1
        BY <1>a, <1>2
      <4> HIDE DEF j
      <4>2. (x + j) % ScullSize # x % ScullSize
        BY <3>1, <4>1, DistinctSlots
      <4> QED
        BY <1>3, <3>1, <4>2 DEF SlotAt
    <3>4. bufferPtr'[SlotAt(k - 1)] = bufferPtr[SlotAt(k - 1)]
      BY <1>1, <3>2, <3>3 DEF DInv, IInv, TypeOK
    <3> QED
      BY <1>b, <2>1, <2>2, <3>1, <3>2, <3>4
  <2>4. Contents'[size + 1] = p
    <3>1. size + 1 \in 1 .. size + 1 /\ (size + 1) - 1 = size
      BY <1>a
    <3>2. Contents'[size + 1] = bufferPtr'[writeIndex]
      BY <1>1, <1>3, <2>2, <3>1 DEF SlotAt
    <3> QED
      BY <1>1, <1>3, <3>2 DEF DInv, IInv, TypeOK
  <2>5. \A k \in 1 .. size + 1 : Contents'[k] = Append(Contents, p)[k]
    <3>1. \A k \in 1 .. size + 1 : k \in 1 .. size \/ k = size + 1
      BY <1>a
    <3> QED
      BY <2>1, <2>3, <2>4, <3>1
  <2> QED
    BY <2>1, <2>2, <2>5, SameSequence
<1>5. reply[p] = "pending"
  BY <1>1 DEF DInv, PendingInCall, WritePoints
<1> QED
  BY <1>a, <1>1, <1>2, <1>4, <1>5 DEF Fifo!Put, Fifo!Answer

\* The tokens without failures: a reader that finds no token finds an empty
\* ring, a writer that finds none a full one, and neither of them sleeps.
LEMMA ReadRefusedWhenEmpty ==
  ASSUME DInv, NEW c \in Consumers, ReadEmpty(c)
  PROVE  Fifo!RefuseGet(c)
<1>1. /\ pc[c] = "read_try" /\ item_sem = 0 /\ c \in Procs
      /\ UNCHANGED ring
  BY DEF ReadEmpty, Procs
<1>2. ~ At("read_copy") /\ ~ At("write_copy")
  BY <1>1 DEF DInv, IInv, MutexOwned, Inside, Critical, At
<1>3. inWriteCnt = 0
  BY <1>2 DEF DInv, IInv, NobodySleeps, AsNat
<1>4. size = 0
  BY <1>1, <1>2 DEF DInv, IInv, TypeOK, TokensConserved, Faultless, AsNat
<1>5. Contents = <<>>
  <2>1. Contents \in Seq(Producers) /\ Len(Contents) = 0
    BY <1>4, ContentsRead DEF ContentsShape
  <2> QED
    BY <2>1
<1>6. Contents' = Contents
  BY <1>1 DEF Contents, ring
<1>7. reply' = [reply EXCEPT ![c] = "zero"]
  BY <1>3 DEF ReadEmpty, Answer
<1>8. reply[c] = "pending"
  BY <1>1 DEF DInv, PendingInCall, ReadPoints
<1> QED
  BY <1>5, <1>6, <1>7, <1>8 DEF Fifo!RefuseGet, Fifo!Answer

LEMMA WriteRefusedWhenFull ==
  ASSUME DInv, NEW p \in Producers, WriteFull(p)
  PROVE  Fifo!RefusePut(p)
<1>1. /\ pc[p] = "write_try" /\ space_sem = 0 /\ p \in Procs
      /\ UNCHANGED ring
  BY DEF WriteFull, Procs
<1>2. ~ At("read_copy") /\ ~ At("write_copy")
  BY <1>1 DEF DInv, IInv, MutexOwned, Inside, Critical, At
<1>3. inReadCnt = 0
  BY <1>2 DEF DInv, IInv, NobodySleeps, AsNat
<1>4. size = ScullSize
  BY <1>1, <1>2, ScullAssumption
     DEF DInv, IInv, TypeOK, TokensConserved, Faultless, AsNat
<1>5. Len(Contents) = ScullSize
  BY <1>4, ContentsRead DEF ContentsShape
<1>6. Contents' = Contents
  BY <1>1 DEF Contents, ring
<1>7. reply' = [reply EXCEPT ![p] = "zero"]
  BY <1>3 DEF WriteFull, Answer
<1>8. reply[p] = "pending"
  BY <1>1 DEF DInv, PendingInCall, WritePoints
<1> QED
  BY <1>5, <1>6, <1>7, <1>8 DEF Fifo!RefusePut, Fifo!Answer
LEMMA StaysFaultless ==
  ASSUME DInv, [Next]_vars, MaxFaults = 0, ~ ZeroReads
  PROVE  Faultless'
<1> USE DEF Faultless, faults
<1>1. Faultless
  BY DEF DInv
<1>2. ASSUME NEW p \in Procs, Client(p) PROVE Faultless'
  BY <1>1, <1>2 DEF Client, CallOpen, Open, CallRelease, Release, OpenInterrupted,
     ReleaseInterrupted, TransferInterrupted
<1>3. ASSUME NEW c \in Consumers, Reader(c) PROVE Faultless'
  <2>1. ~ ReadFault(c) /\ ~ ReadZero(c)
    BY <1>1 DEF ReadFault, ReadZero
  <2> QED
    BY <1>1, <1>3, <2>1 DEF Reader, CallRead, ReadLock, ReadEmpty, ReadTake, ReadCopy
<1>4. ASSUME NEW p \in Producers, Writer(p) PROVE Faultless'
  <2>1. ~ WriteFault(p)
    BY <1>1 DEF WriteFault
  <2> QED
    BY <1>1, <1>4, <2>1 DEF Writer, CallWrite, WriteLock, WriteFull, WriteTake, WriteCopy
<1>5. CASE UNCHANGED vars
  BY <1>1, <1>5 DEF vars
<1> QED
  BY <1>2, <1>3, <1>4, <1>5 DEF Next

\* What each step is for the FIFO, and that replies stay pending inside calls.
LEMMA StepsOfTheFifo ==
  ASSUME DInv, IInv', RingConsistent', WindowIntact', [Next]_vars,
         MaxFaults = 0, ~ ZeroReads
  PROVE  DInv' /\ [Fifo!FifoNext]_(Fifo!fifoVars)
<1> DEFINE Goal == PendingInCall' /\ [Fifo!FifoNext]_(Fifo!fifoVars)
           InCall == ReadPoints \cup WritePoints
<1>1. /\ PendingInCall
      /\ pc = [p \in Procs |-> pc[p]] /\ DOMAIN pc = Procs
      /\ reply = [p \in Procs |-> reply[p]] /\ DOMAIN reply = Procs
  BY DEF DInv, IInv, TypeOK
<1>2. UNCHANGED ring => UNCHANGED Contents
  BY DEF ring, Contents
<1>3. ASSUME NEW p \in Procs, NEW l, UNCHANGED <<ring, reply>>,
             pc' = [pc EXCEPT ![p] = l], pc[p] \in InCall <=> l \in InCall
      PROVE  Goal
  BY <1>1, <1>2, <1>3 DEF PendingInCall, Fifo!fifoVars
<1>4. ASSUME NEW p \in Procs, NEW l, NEW r,
             pc' = [pc EXCEPT ![p] = l], reply' = [reply EXCEPT ![p] = r],
             r = "pending" <=> l \in InCall
      PROVE  PendingInCall'
  BY <1>1, <1>4 DEF PendingInCall
<1>5. Fifo!Users = Procs
  BY DEF Fifo!Users, Procs
<1> USE DEF Goto
<1>6. ASSUME NEW p \in Procs, Client(p) PROVE Goal
  <2>1. CASE CallOpen(p) \/ Open(p) \/ CallRelease(p) \/ OpenInterrupted(p)
    <3>1. /\ UNCHANGED <<ring, reply>>
          /\ pc[p] \notin InCall
          /\ \E l \in {"open", "idle", "release", "closed"} : pc' = [pc EXCEPT ![p] = l]
      BY <2>1 DEF CallOpen, Open, CallRelease, OpenInterrupted, Signal, ReadPoints,
         WritePoints
    <3> QED
      BY <1>3, <3>1 DEF ReadPoints, WritePoints
  <2>2. CASE Release(p) \/ ReleaseInterrupted(p)
    <3>1. /\ UNCHANGED ring
          /\ pc[p] = "release" /\ pc' = [pc EXCEPT ![p] = "closed"]
          /\ reply' = [reply EXCEPT ![p] = "none"]
      BY <2>2 DEF Release, ReleaseInterrupted, Signal, Exit, Answer
    <3>2. reply[p] # "pending"
      BY <1>1, <3>1 DEF PendingInCall, ReadPoints, WritePoints
    <3>3. Fifo!Leave(p)
      BY <1>2, <3>1, <3>2 DEF Fifo!Leave, Fifo!Answer
    <3>4. "closed" \notin InCall
      BY DEF ReadPoints, WritePoints
    <3>5. PendingInCall'
      BY <1>4, <3>1, <3>4
    <3> QED
      BY <1>5, <3>3, <3>5 DEF Fifo!FifoNext
  <2>3. CASE TransferInterrupted(p)
    <3>1. /\ UNCHANGED ring
          /\ pc[p] \in {"read_lock", "write_lock"} /\ pc' = [pc EXCEPT ![p] = "release"]
          /\ reply' = [reply EXCEPT ![p] = "error"]
      BY <2>3 DEF TransferInterrupted, Signal, Answer
    <3>2. reply[p] = "pending"
      BY <1>1, <3>1 DEF PendingInCall, ReadPoints, WritePoints
    <3>3. Fifo!Fail(p)
      BY <1>2, <3>1, <3>2 DEF Fifo!Fail, Fifo!Answer
    <3>4. "release" \notin InCall
      BY DEF ReadPoints, WritePoints
    <3>5. PendingInCall'
      BY <1>4, <3>1, <3>4
    <3> QED
      BY <1>5, <3>3, <3>5 DEF Fifo!FifoNext
  <2> QED
    BY <1>6, <2>1, <2>2, <2>3 DEF Client
<1>7. ASSUME PendingInCall' PROVE DInv'
  BY <1>7, StaysFaultless DEF DInv
<1>8. ASSUME NEW c \in Consumers, Reader(c) PROVE Goal
  <2>1. c \in Procs
    BY DEF Procs
  <2>2. CASE CallRead(c)
    <3>1. /\ UNCHANGED ring
          /\ pc[c] = "idle" /\ pc' = [pc EXCEPT ![c] = "read_lock"]
          /\ reply' = [reply EXCEPT ![c] = "pending"]
      BY <2>2 DEF CallRead, Answer
    <3>2. reply[c] # "pending"
      BY <1>1, <2>1, <3>1 DEF PendingInCall, ReadPoints, WritePoints
    <3>3. Fifo!Begin(c)
      BY <1>2, <3>1, <3>2 DEF Fifo!Begin, Fifo!Answer
    <3>4. "read_lock" \in InCall
      BY DEF ReadPoints
    <3>5. PendingInCall'
      BY <1>4, <2>1, <3>1, <3>4
    <3> QED
      BY <1>5, <2>1, <3>3, <3>5 DEF Fifo!FifoNext
  <2>3. CASE ReadLock(c) \/ ReadTake(c)
    <3>1. /\ UNCHANGED <<ring, reply>>
          /\ pc[c] \in InCall
          /\ \E l \in {"read_try", "read_copy"} : pc' = [pc EXCEPT ![c] = l]
      BY <2>3 DEF ReadLock, ReadTake, ReadPoints
    <3> QED
      BY <1>3, <2>1, <3>1 DEF ReadPoints
  <2>4. CASE ReadEmpty(c)
    <3>1. Fifo!RefuseGet(c)
      BY <2>4, ReadRefusedWhenEmpty
    <3>2. inWriteCnt = 0
      BY <2>4 DEF ReadEmpty, DInv, IInv, MutexOwned, NobodySleeps, Inside, Critical,
         At, AsNat, Procs
    <3>3. /\ pc' = [pc EXCEPT ![c] = "idle"]
          /\ reply' = [reply EXCEPT ![c] = "zero"]
      BY <2>4, <3>2 DEF ReadEmpty, Answer
    <3>4. "idle" \notin InCall
      BY DEF ReadPoints, WritePoints
    <3>5. PendingInCall'
      BY <1>4, <2>1, <3>3, <3>4
    <3> QED
      BY <3>1, <3>5 DEF Fifo!FifoNext
  <2>5. CASE ReadCopy(c)
    <3>1. /\ pc' = [pc EXCEPT ![c] = "idle"]
          /\ reply' = [reply EXCEPT ![c] = ItemRead(bufferPtr[readIndex])]
      BY <2>5 DEF ReadCopy, Answer
    <3>2. ItemRead(bufferPtr[readIndex]) # "pending"
      <4>1. bufferPtr[readIndex] \in Producers \cup {"unused", "zeroed"}
        BY DEF DInv, IInv, TypeOK
      <4>2. "pending" \notin Producers
        BY ScullAssumption
      <4> QED
        BY <4>1, <4>2 DEF ItemRead
    <3>3. "idle" \notin InCall
      BY DEF ReadPoints, WritePoints
    <3>4. PendingInCall'
      BY <1>4, <2>1, <3>1, <3>2, <3>3
    <3>5. Fifo!Get(c)
      BY <1>7, <2>5, <3>4, ReadTakesOldest
    <3> QED
      BY <3>4, <3>5 DEF Fifo!FifoNext
  <2>6. ~ ReadZero(c) /\ ~ ReadFault(c)
    BY DEF ReadZero, ReadFault, DInv, Faultless
  <2> QED
    BY <1>8, <2>2, <2>3, <2>4, <2>5, <2>6 DEF Reader
<1>9. ASSUME NEW p \in Producers, Writer(p) PROVE Goal
  <2>1. p \in Procs
    BY DEF Procs
  <2>2. CASE CallWrite(p)
    <3>1. /\ UNCHANGED ring
          /\ pc[p] = "idle" /\ pc' = [pc EXCEPT ![p] = "write_lock"]
          /\ reply' = [reply EXCEPT ![p] = "pending"]
      BY <2>2 DEF CallWrite, Answer
    <3>2. reply[p] # "pending"
      BY <1>1, <2>1, <3>1 DEF PendingInCall, ReadPoints, WritePoints
    <3>3. Fifo!Begin(p)
      BY <1>2, <3>1, <3>2 DEF Fifo!Begin, Fifo!Answer
    <3>4. "write_lock" \in InCall
      BY DEF WritePoints
    <3>5. PendingInCall'
      BY <1>4, <2>1, <3>1, <3>4
    <3> QED
      BY <1>5, <2>1, <3>3, <3>5 DEF Fifo!FifoNext
  <2>3. CASE WriteLock(p) \/ WriteTake(p)
    <3>1. /\ UNCHANGED <<ring, reply>>
          /\ pc[p] \in InCall
          /\ \E l \in {"write_try", "write_copy"} : pc' = [pc EXCEPT ![p] = l]
      BY <2>3 DEF WriteLock, WriteTake, WritePoints
    <3> QED
      BY <1>3, <2>1, <3>1 DEF WritePoints
  <2>4. CASE WriteFull(p)
    <3>1. Fifo!RefusePut(p)
      BY <2>4, WriteRefusedWhenFull
    <3>2. inReadCnt = 0
      BY <2>4 DEF WriteFull, DInv, IInv, MutexOwned, NobodySleeps, Inside, Critical,
         At, AsNat, Procs
    <3>3. /\ pc' = [pc EXCEPT ![p] = "idle"]
          /\ reply' = [reply EXCEPT ![p] = "zero"]
      BY <2>4, <3>2 DEF WriteFull, Answer
    <3>4. "idle" \notin InCall
      BY DEF ReadPoints, WritePoints
    <3>5. PendingInCall'
      BY <1>4, <2>1, <3>3, <3>4
    <3> QED
      BY <3>1, <3>5 DEF Fifo!FifoNext
  <2>5. CASE WriteCopy(p)
    <3>1. /\ pc' = [pc EXCEPT ![p] = "idle"]
          /\ reply' = [reply EXCEPT ![p] = "ok"]
      BY <2>5 DEF WriteCopy, Answer
    <3>2. "idle" \notin InCall
      BY DEF ReadPoints, WritePoints
    <3>3. PendingInCall'
      BY <1>4, <2>1, <3>1, <3>2
    <3>4. Fifo!Put(p)
      BY <1>7, <2>5, <3>3, WriteAppends
    <3> QED
      BY <3>3, <3>4 DEF Fifo!FifoNext
  <2>6. ~ WriteFault(p)
    BY DEF WriteFault, DInv, Faultless
  <2> QED
    BY <1>9, <2>2, <2>3, <2>4, <2>5, <2>6 DEF Writer
<1>10. ASSUME UNCHANGED vars PROVE Goal
  BY <1>1, <1>2, <1>10 DEF vars, PendingInCall, Fifo!fifoVars
<1>11. Goal
  BY <1>6, <1>8, <1>9, <1>10 DEF Next
<1> QED
  BY <1>7, <1>11

\* scullBuffer is a FIFO of scull_size items, for every number of clients and
\* every size of the ring, whatever waits are interrupted: each call takes
\* effect at one instant, an item is read once and in the order of the writes,
\* and 0 is returned only when the ring really is empty or full.  Failing
\* copies and zero-byte reads are excluded, as they break the promise.
THEOREM ImplementsFifo ==
  ASSUME MaxFaults = 0, ~ ZeroReads
  PROVE  Spec => DeviceIsFifo
<1>1. Init => Fifo!FifoInit
  <2> SUFFICES ASSUME Init PROVE Fifo!FifoInit
    OBVIOUS
  <2>1. Contents = <<>>
    BY DEF Init, Contents
  <2> QED
    BY <2>1 DEF Init, Fifo!FifoInit, Fifo!Users, Procs
<1>2. Init => Faultless /\ PendingInCall
  BY DEF Init, Faultless, PendingInCall, ReadPoints, WritePoints
<1>3. Spec => [](IInv /\ RingConsistent /\ WindowIntact)
  BY Inductive, IndicesAgree, WindowStaysIntact, PTL
<1>4. /\ DInv /\ IInv' /\ RingConsistent' /\ WindowIntact' /\ [Next]_vars
      => DInv' /\ [Fifo!FifoNext]_(Fifo!fifoVars)
  BY StepsOfTheFifo
<1>5. IInv /\ RingConsistent /\ WindowIntact /\ Faultless /\ PendingInCall => DInv
  BY DEF DInv
<1>6. Spec => []DInv
  BY <1>2, <1>3, <1>4, <1>5, PTL DEF Spec
<1> QED
  BY <1>1, <1>3, <1>4, <1>6, PTL DEF Spec, DeviceIsFifo, Fifo!FifoSpec
=============================================================================
