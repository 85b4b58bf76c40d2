------------------------- MODULE IDManager_proofs -------------------------
(***************************************************************************)
(* Theorems about cIDManager, for every startID and every UINT_MAX.        *)
(***************************************************************************)
EXTENDS IDManager, TLAPS

-----------------------------------------------------------------------------
(***************************************************************************)
(* The free queue, as a set without duplicates.                            *)
(***************************************************************************)
Distinct(q) == \A i, j \in 1 .. Len(q) : q[i] = q[j] => i = j
Elements(q) == {q[i] : i \in 1 .. Len(q)}

LEMMA PushDistinct ==
  ASSUME NEW S, NEW q \in Seq(S), NEW x \in S, x \notin Elements(q), Distinct(q)
  PROVE  /\ Append(q, x) \in Seq(S)
         /\ Distinct(Append(q, x))
         /\ Elements(Append(q, x)) = Elements(q) \cup {x}
<1> DEFINE r == Append(q, x)
<1>1. /\ r \in Seq(S) /\ Len(r) = Len(q) + 1 /\ Len(q) \in Nat
      /\ \A i \in 1 .. Len(q) : r[i] = q[i]
      /\ r[Len(q) + 1] = x
  OBVIOUS
<1> HIDE DEF r
<1>2. Distinct(r)
  <2> SUFFICES ASSUME NEW i \in 1 .. Len(r), NEW j \in 1 .. Len(r), r[i] = r[j]
               PROVE  i = j
    BY DEF Distinct
  <2>1. CASE i \in 1 .. Len(q) /\ j \in 1 .. Len(q)
    BY <1>1, <2>1 DEF Distinct
  <2>2. CASE i = Len(q) + 1 /\ j \in 1 .. Len(q)
    BY <1>1, <2>2 DEF Elements
  <2>3. CASE i \in 1 .. Len(q) /\ j = Len(q) + 1
    BY <1>1, <2>3 DEF Elements
  <2> QED
    BY <1>1, <2>1, <2>2, <2>3
<1>3. Elements(r) = Elements(q) \cup {x}
  <2>1. 1 .. Len(r) = (1 .. Len(q)) \cup {Len(q) + 1}
    BY <1>1
  <2> QED
    BY <1>1, <2>1 DEF Elements
<1> QED
  BY <1>1, <1>2, <1>3 DEF r

LEMMA PopDistinct ==
  ASSUME NEW S, NEW q \in Seq(S), q # <<>>, Distinct(q)
  PROVE  /\ Tail(q) \in Seq(S)
         /\ Distinct(Tail(q))
         /\ Head(q) \in Elements(q)
         /\ Elements(Tail(q)) = Elements(q) \ {Head(q)}
<1> DEFINE t == Tail(q)
<1>1. /\ t \in Seq(S) /\ Len(q) \in Nat /\ Len(q) >= 1 /\ Len(t) = Len(q) - 1
      /\ \A i \in 1 .. Len(t) : t[i] = q[i + 1]
      /\ Head(q) = q[1]
  OBVIOUS
<1> HIDE DEF t
<1>2. Distinct(t)
  <2> SUFFICES ASSUME NEW i \in 1 .. Len(t), NEW j \in 1 .. Len(t), t[i] = t[j]
               PROVE  i = j
    BY DEF Distinct
  <2>1. i + 1 \in 1 .. Len(q) /\ j + 1 \in 1 .. Len(q) /\ q[i + 1] = q[j + 1]
    BY <1>1
  <2>2. i + 1 = j + 1
    BY <2>1 DEF Distinct
  <2> QED
    BY <2>2
<1>3. Head(q) \in Elements(q)
  BY <1>1 DEF Elements
<1>4. ASSUME NEW x \in Elements(t) PROVE x \in Elements(q) \ {Head(q)}
  <2>1. PICK i \in 1 .. Len(t) : x = t[i]
    BY <1>4 DEF Elements
  <2>2. i + 1 \in 1 .. Len(q) /\ x = q[i + 1] /\ 1 \in 1 .. Len(q)
    BY <1>1, <2>1
  <2>3. q[i + 1] # q[1]
    BY <2>2 DEF Distinct
  <2> QED
    BY <1>1, <2>2, <2>3 DEF Elements
<1>5. ASSUME NEW x \in Elements(q), x # Head(q) PROVE x \in Elements(t)
  <2>1. PICK i \in 1 .. Len(q) : x = q[i]
    BY <1>5 DEF Elements
  <2>2. i - 1 \in 1 .. Len(t) /\ x = t[i - 1]
    BY <1>1, <1>5, <2>1
  <2> QED
    BY <2>2 DEF Elements
<1> QED
  BY <1>1, <1>2, <1>3, <1>4, <1>5 DEF t

-----------------------------------------------------------------------------
(***************************************************************************)
(* Partition is inductive together with the types.                         *)
(***************************************************************************)
IInv == TypeOK /\ Partition

\* What IInv says, in the words of the lemmas above.
LEMMA Reading ==
  ASSUME IInv
  PROVE  /\ freeID \in Seq(IDs) /\ Distinct(freeID)
         /\ Elements(freeID) = Queued
         /\ BaseID \in Nat /\ MaxID \in Nat /\ currentID \in BaseID .. MaxID
BY IDAssumption DEF IInv, TypeOK, Partition, Distinct, Elements, Queued, IDs

LEMMA InitIInv == Init => IInv
<1> SUFFICES ASSUME Init PROVE IInv
  OBVIOUS
<1>1. TypeOK
  <2>1. currentID \in IDs
    BY IDAssumption DEF Init, IDs
  <2>2. freeID \in Seq(IDs)
    BY DEF Init
  <2>3. held \in SUBSET IDs /\ answer \in SUBSET IDs
    BY DEF Init
  <2> QED
    BY <2>1, <2>2, <2>3 DEF Init, TypeOK
<1>2. Queued = {} /\ GivenOut = {}
  BY IDAssumption DEF Init, Queued, GivenOut
<1>3. Partition
  BY <1>2 DEF Init, Partition
<1> QED
  BY <1>1, <1>3 DEF IInv

LEMMA PopFreeStep ==
  ASSUME IInv, PopFree
  PROVE  /\ IInv'
         /\ Head(freeID) \in IDs \ held
<1>1. /\ Tail(freeID) \in Seq(IDs) /\ Distinct(Tail(freeID))
      /\ Head(freeID) \in Queued
      /\ Elements(Tail(freeID)) = Queued \ {Head(freeID)}
  BY Reading, PopDistinct DEF PopFree
<1>2. Queued' = Queued \ {Head(freeID)}
  BY <1>1 DEF PopFree, Queued, Elements
<1>3. Head(freeID) \in IDs \ held
  BY <1>1, IDAssumption DEF IInv, Partition, TypeOK, GivenOut, IDs
<1>4. TypeOK'
  BY <1>1, <1>3 DEF IInv, TypeOK, PopFree, HandOut
<1>5. Partition'
  BY <1>1, <1>2 DEF IInv, Partition, PopFree, HandOut, GivenOut, Distinct
<1> QED
  BY <1>3, <1>4, <1>5 DEF IInv

LEMMA GetIDStep ==
  ASSUME IInv, GetID
  PROVE  IInv' /\ (Pool!Reserve \/ Pool!Refuse)
<1> USE DEF IInv, Pool!Reserve, Pool!Refuse
<1>1. CASE GetFresh
  <2>1. /\ currentID \in IDs \ held /\ currentID + 1 \in IDs
        /\ GivenOut' = GivenOut \cup {currentID}
        /\ currentID \notin Queued /\ Queued' = Queued
    <3>1. /\ BaseID \in Nat /\ currentID \in BaseID .. MaxID /\ currentID < MaxID
          /\ ~ consumeQueue /\ currentID' = currentID + 1 /\ ~ consumeQueue'
          /\ freeID' = freeID
      BY <1>1, Reading DEF GetFresh
    <3>2. GivenOut = BaseID .. currentID - 1 /\ GivenOut' = BaseID .. currentID
      BY <3>1 DEF GivenOut
    <3>3. currentID \notin GivenOut /\ currentID \in IDs /\ currentID + 1 \in IDs
      BY <3>1, <3>2, IDAssumption DEF IDs
    <3>4. GivenOut' = GivenOut \cup {currentID}
      BY <3>1, <3>2
    <3>5. held \cup Queued = GivenOut /\ Queued' = Queued
      BY <3>1 DEF Partition, Queued
    <3> QED
      BY <3>3, <3>4, <3>5
  <2>2. TypeOK' /\ Pool!Reserve
    BY <1>1, <2>1 DEF GetFresh, HandOut, TypeOK
  <2>3. Partition'
    BY <1>1, <2>1 DEF GetFresh, HandOut, Partition
  <2> QED
    BY <2>2, <2>3
<1>2. CASE GetLast
  <2>1. /\ currentID = MaxID /\ MaxID \in IDs \ held
        /\ GivenOut' = GivenOut \cup {currentID}
        /\ currentID \notin Queued /\ Queued' = Queued
    BY <1>2, IDAssumption
       DEF GetLast, TypeOK, Partition, GivenOut, IDs, Queued
  <2>2. TypeOK' /\ Pool!Reserve
    BY <1>2, <2>1 DEF GetLast, HandOut, TypeOK
  <2>3. Partition'
    BY <1>2, <2>1 DEF GetLast, HandOut, Partition
  <2> QED
    BY <2>2, <2>3
<1>3. CASE PopFree
  BY <1>3, PopFreeStep DEF PopFree, HandOut
<1>4. CASE GetThrows
  <2>1. Queued = {}
    BY <1>4 DEF GetThrows, Queued
  <2>2. GivenOut = IDs
    BY <1>4, IDAssumption DEF GetThrows, Partition, GivenOut, IDs
  <2>3. held = IDs
    BY <2>1, <2>2 DEF Partition
  <2>4. IInv'
    BY <1>4 DEF GetThrows, TypeOK, Partition, Queued, GivenOut
  <2> QED
    BY <1>4, <2>3, <2>4 DEF GetThrows
<1> QED
  BY <1>1, <1>2, <1>3, <1>4 DEF GetID

LEMMA ReturnIDStep ==
  ASSUME IInv, NEW id \in held, ReturnID(id)
  PROVE  IInv'
<1> USE DEF IInv
<1>1. /\ id \in IDs /\ id \notin Queued /\ id \in GivenOut
      /\ held' = held \ {id}
  BY DEF TypeOK, Partition, ReturnID
<1>2. CASE /\ currentID' = currentID /\ consumeQueue' = consumeQueue
           /\ freeID' = Append(freeID, id)
  <2>1. /\ Append(freeID, id) \in Seq(IDs) /\ Distinct(Append(freeID, id))
        /\ Elements(Append(freeID, id)) = Queued \cup {id}
    BY <1>1, Reading, PushDistinct
  <2>2. Queued' = Queued \cup {id} /\ GivenOut' = GivenOut
    BY <1>2, <2>1 DEF Queued, Elements, GivenOut
  <2>3. TypeOK'
    BY <1>2, <2>1 DEF TypeOK, ReturnID
  <2>4. Partition'
    BY <1>1, <1>2, <2>1, <2>2 DEF Partition, Distinct
  <2> QED
    BY <2>3, <2>4
<1>3. CASE consumeQueue /\ id = currentID
  <2>1. /\ currentID' = currentID /\ consumeQueue' = FALSE /\ freeID' = freeID
    BY <1>3 DEF ReturnID
  <2>2. /\ Queued' = Queued
        /\ GivenOut' = GivenOut \ {id}
    BY <1>3, <2>1, IDAssumption DEF Queued, GivenOut, Partition, TypeOK, IDs
  <2>3. TypeOK'
    BY <2>1 DEF TypeOK, ReturnID
  <2>4. Partition'
    BY <1>1, <2>1, <2>2 DEF Partition
  <2> QED
    BY <2>3, <2>4
<1>4. CASE ~ consumeQueue /\ id = currentID - 1
  <2>1. /\ currentID' = id /\ consumeQueue' = consumeQueue /\ freeID' = freeID
    BY <1>4 DEF ReturnID
  <2>2. /\ Queued' = Queued
        /\ GivenOut' = GivenOut \ {id}
    <3>1. /\ BaseID \in Nat /\ currentID \in BaseID .. MaxID
          /\ ~ consumeQueue /\ ~ consumeQueue'
      BY <1>4, <2>1, Reading
    <3>2. GivenOut = BaseID .. currentID - 1 /\ GivenOut' = BaseID .. id - 1
      BY <2>1, <3>1 DEF GivenOut
    <3>3. GivenOut' = GivenOut \ {id}
      BY <1>4, <3>1, <3>2
    <3> QED
      BY <2>1, <3>3 DEF Queued
  <2>3. TypeOK'
    BY <1>1, <2>1 DEF TypeOK, ReturnID
  <2>4. Partition'
    BY <1>1, <1>4, <2>1, <2>2 DEF Partition
  <2> QED
    BY <2>3, <2>4
<1>5. \/ /\ currentID' = currentID /\ consumeQueue' = consumeQueue
         /\ freeID' = Append(freeID, id)
      \/ consumeQueue /\ id = currentID
      \/ ~ consumeQueue /\ id = currentID - 1
  BY DEF ReturnID, TypeOK
<1> QED
  BY <1>2, <1>3, <1>4, <1>5

LEMMA NextIInv == IInv /\ [Next]_vars => IInv' /\ [Pool!PoolNext]_(Pool!poolVars)
<1> SUFFICES ASSUME IInv, [Next]_vars
             PROVE  IInv' /\ [Pool!PoolNext]_(Pool!poolVars)
  OBVIOUS
<1>1. CASE GetID
  BY <1>1, GetIDStep DEF Pool!PoolNext
<1>2. CASE PopFree
  BY <1>2, PopFreeStep DEF PopFree, HandOut, Pool!PoolNext, Pool!Reserve
<1>3. ASSUME NEW id \in held, ReturnID(id)
      PROVE  IInv' /\ [Pool!PoolNext]_(Pool!poolVars)
  BY <1>3, ReturnIDStep DEF ReturnID, Pool!PoolNext, Pool!Return
<1>4. CASE UNCHANGED vars
  BY <1>4 DEF vars, Pool!poolVars, IInv, TypeOK, Partition, Queued, GivenOut
<1> QED
  BY <1>1, <1>2, <1>3, <1>4 DEF Next, GetLowID

-----------------------------------------------------------------------------
LEMMA Inductive == Spec => []IInv
<1>1. IInv /\ [Next]_vars => IInv'
  BY NextIInv
<1> QED
  BY <1>1, InitIInv, PTL DEF Spec

\* The fields of cIDManager keep their types; IDs stay in startID .. UINT_MAX.
THEOREM TypesCorrect == Spec => []TypeOK
BY Inductive, PTL DEF IInv

\* No ID is lost and none exists twice, for every range of IDs and every
\* history of getID, getLowID and returnID.
THEOREM IDsPartitioned == Spec => []Partition
BY Inductive, PTL DEF IInv

\* cIDManager implements the pool of unique IDs that id.h promises: an ID that
\* is reserved is nobody else's, and the exception means all of them are.
THEOREM ImplementsPool == Spec => PoolPromise
<1>1. Init => Pool!PoolInit
  BY DEF Init, Pool!PoolInit
<1>2. IInv /\ [Next]_vars => [Pool!PoolNext]_(Pool!poolVars)
  BY NextIInv
<1> QED
  BY <1>1, <1>2, Inductive, PTL DEF Spec, PoolPromise, Pool!PoolSpec
=============================================================================
