----------------------------- MODULE IDManager -----------------------------
(***************************************************************************)
(* cIDManager (src/Project1/src/utility/id.cpp, the same file in           *)
(* Project2): the source of process IDs, of the indices of the blocked and *)
(* ready vectors of the schedulers and of the lines of the process logger. *)
(*                                                                         *)
(* A counter hands out IDs from startID on; IDs that come back go to a     *)
(* queue, unless the counter can simply step back over them.  Once the     *)
(* counter is at its maximum, consumeQueue says that the maximum itself    *)
(* was handed out too and only the queue is left.  Callers return only IDs *)
(* they hold: `held' is their side of the contract.                        *)
(***************************************************************************)
EXTENDS Integers, Sequences, FiniteSets

CONSTANTS BaseID,   \* startID of the constructor
          MaxID     \* UINT_MAX

ASSUME IDAssumption ==
  BaseID \in Nat /\ MaxID \in Nat /\ BaseID <= MaxID

VARIABLES currentID,     \* next ID of the counter
          consumeQueue,  \* MaxID was handed out: take IDs from the queue
          freeID,        \* queue of returned IDs
          held,          \* the IDs that callers hold
          answer,        \* what the last call returned: {id}, or {} for nothing
          threw          \* the last call threw

vars == <<currentID, consumeQueue, freeID, held, answer, threw>>

IDs == BaseID .. MaxID

Init ==
  /\ currentID = BaseID /\ consumeQueue = FALSE /\ freeID = <<>>
  /\ held = {} /\ answer = {} /\ threw = FALSE

HandOut(id) == held' = held \cup {id} /\ answer' = {id} /\ threw' = FALSE

-----------------------------------------------------------------------------
(***************************************************************************)
(* getID                                                                   *)
(***************************************************************************)
\* Variant: the counter runs on past the maximum.
GetFreshPastEnd ==
  /\ ~ consumeQueue
  /\ HandOut(currentID)
  /\ currentID' = currentID + 1
  /\ UNCHANGED <<consumeQueue, freeID>>

GetFresh ==
  /\ ~ consumeQueue
  /\ currentID < MaxID
  /\ HandOut(currentID)
  /\ currentID' = currentID + 1
  /\ UNCHANGED <<consumeQueue, freeID>>

\* Variant: the last ID is handed out without switching to the queue.
GetLastForgetful ==
  /\ ~ consumeQueue
  /\ currentID >= MaxID
  /\ HandOut(currentID)
  /\ UNCHANGED <<currentID, consumeQueue, freeID>>

GetLast ==
  /\ ~ consumeQueue
  /\ currentID >= MaxID
  /\ HandOut(currentID)
  /\ consumeQueue' = TRUE
  /\ UNCHANGED <<currentID, freeID>>

PopFree ==
  /\ freeID # <<>>
  /\ HandOut(Head(freeID))
  /\ freeID' = Tail(freeID)
  /\ UNCHANGED <<currentID, consumeQueue>>

\* getID throws a string when all IDs are out.
GetThrows ==
  /\ consumeQueue
  /\ freeID = <<>>
  /\ answer' = {} /\ threw' = TRUE
  /\ UNCHANGED <<currentID, consumeQueue, freeID, held>>

GetID == GetFresh \/ GetLast \/ (consumeQueue /\ PopFree) \/ GetThrows

\* getLowID prefers the queue, so that the range of IDs stays small.
GetLowID == PopFree \/ (freeID = <<>> /\ GetID)

-----------------------------------------------------------------------------
(***************************************************************************)
(* returnID                                                                *)
(***************************************************************************)
\* Variant: an ID the counter steps back over is queued as well.
ReturnIDTwice(id) ==
  /\ IF consumeQueue
     THEN /\ consumeQueue' = (id # currentID)
          /\ freeID' = IF id = currentID THEN freeID ELSE Append(freeID, id)
          /\ UNCHANGED currentID
     ELSE /\ currentID' = IF id = currentID - 1 THEN id ELSE currentID
          /\ freeID' = Append(freeID, id)
          /\ UNCHANGED consumeQueue
  /\ held' = held \ {id} /\ answer' = {} /\ threw' = FALSE

ReturnID(id) ==
  /\ IF consumeQueue
     THEN /\ consumeQueue' = (id # currentID)
          /\ freeID' = IF id = currentID THEN freeID ELSE Append(freeID, id)
          /\ UNCHANGED currentID
     ELSE /\ currentID' = IF id = currentID - 1 THEN id ELSE currentID
          /\ freeID' = IF id = currentID - 1 THEN freeID ELSE Append(freeID, id)
          /\ UNCHANGED consumeQueue
  /\ held' = held \ {id} /\ answer' = {} /\ threw' = FALSE

Next == GetID \/ GetLowID \/ \E id \in held : ReturnID(id)

Spec == Init /\ [][Next]_vars

-----------------------------------------------------------------------------
(***************************************************************************)
(* Properties                                                              *)
(***************************************************************************)

\* The types of the fields; every ID ever given out is in startID .. UINT_MAX.
TypeOK ==
  /\ currentID \in IDs
  /\ consumeQueue \in BOOLEAN
  /\ freeID \in Seq(IDs)
  /\ held \in SUBSET IDs
  /\ answer \in SUBSET IDs
  /\ threw \in BOOLEAN

Queued == {freeID[i] : i \in 1 .. Len(freeID)}

\* The IDs below the counter, and UINT_MAX itself while consumeQueue is set.
GivenOut == (BaseID .. currentID - 1) \cup (IF consumeQueue THEN {MaxID} ELSE {})

\* No ID is lost and none exists twice: every ID that left the counter is held
\* by one caller or waits in the queue once, and consumeQueue is only set
\* while the counter stands at its maximum.
Partition ==
  /\ consumeQueue => currentID = MaxID
  /\ held \cap Queued = {}
  /\ held \cup Queued = GivenOut
  /\ \A i, j \in 1 .. Len(freeID) : freeID[i] = freeID[j] => i = j

\* Refinement: cIDManager is a pool of unique IDs, and its exception means
\* that all of them are in use.
Pool == INSTANCE IDPool

PoolPromise == Pool!PoolSpec
=============================================================================
