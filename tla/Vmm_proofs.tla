----------------------------- MODULE Vmm_proofs -----------------------------
(***************************************************************************)
(* Theorems about the virtual memory manager, for any number of processes, *)
(* any size of their page tables and of the TLB, and every policy: the TLB, *)
(* unsaved writes, blocked processes and the times of I/O; and then, from  *)
(* these, about frames and the cleaning daemon: types, the records of the  *)
(* frame allocator, and the one way to make the daemon throw.              *)
(***************************************************************************)
EXTENDS Vmm, NumberFacts, SequenceTheorems

-----------------------------------------------------------------------------
(***************************************************************************)
(* The contexts that end in a tick.                                        *)
(***************************************************************************)
LEMMA EndingNowType ==
  ASSUME NEW S, NEW q \in Seq(S)
  PROVE  EndingNow(q) \in 0 .. Len(q)
<1> DEFINE I == {i \in 1 .. Len(q) : q[i].time > 1}
<1>1. SelectInSeq(q, LAMBDA ctx : ctx.time > 1) = IF I # {} THEN Min(I) ELSE 0
  BY DEF SelectInSeq
<1>2. ASSUME I # {} PROVE Min(I) \in 1 .. Len(q)
  <2>1. I \subseteq 1 .. Len(q) /\ I \subseteq Nat
    OBVIOUS
  <2> HIDE DEF I
  <2> QED
    BY <1>2, <2>1, MinExists
<1>3. Len(q) \in Nat
  OBVIOUS
<1> HIDE DEF I
<1> QED
  BY <1>1, <1>2, <1>3 DEF EndingNow

-----------------------------------------------------------------------------
(***************************************************************************)
(* Orders of finite sets.                                                  *)
(***************************************************************************)
LEMMA OrderOfSet ==
  ASSUME NEW S, IsFiniteSet(S), NEW f \in SetToSeqs(S)
  PROVE  /\ f \in Seq(S) /\ Len(f) = Cardinality(S)
         /\ \A i, j \in 1 .. Len(f) : f[i] = f[j] => i = j
         /\ \A x \in S : \E i \in 1 .. Len(f) : f[i] = x
<1> DEFINE n == Cardinality(S)
<1>1. n \in Nat
  BY FS_CardinalityType
<1>2. f \in [1 .. n -> S] /\ \A i, j \in 1 .. n : i # j => f[i] # f[j]
  BY DEF SetToSeqs
<1>3. f \in Seq(S) /\ Len(f) = n
  <2> HIDE DEF n
  <2> QED
    BY <1>1, <1>2
<1>4. f \in Injection(1 .. n, S)
  BY <1>2 DEF Injection, IsInjective
<1>5. IsFiniteSet(1 .. n) /\ Cardinality(1 .. n) = n
  <2>1. 1 \in Int /\ n \in Int /\ n >= 0
    BY <1>1
  <2>2. Cardinality(1 .. n) = IF 1 > n THEN 0 ELSE n - 1 + 1
    BY <2>1, FS_Interval
  <2> HIDE DEF n
  <2> QED
    BY <2>1, <2>2, FS_Interval
<1>6. f \in Surjection(1 .. n, S)
  BY <1>4, <1>5, FS_Injection
<1> QED
  BY <1>2, <1>3, <1>6 DEF Surjection

LEMMA RestrictionType ==
  ASSUME NEW S, NEW hist \in Seq(S), NEW places, places \subseteq 1 .. Len(hist),
         NEW r \in Restrictions(hist, places)
  PROVE  /\ r \in Seq(S)
         /\ \A k \in 1 .. Len(r) : \E i \in places : r[k] = hist[i]
<1>1. PICK at \in SetToSeqs(places) : r = [k \in DOMAIN at |-> hist[at[k]]]
  BY DEF Restrictions
<1>2. IsFiniteSet(1 .. Len(hist)) /\ Len(hist) \in Nat
  BY FS_Interval
<1>3. IsFiniteSet(places)
  BY <1>2, FS_Subset
<1>4. at \in Seq(places)
  BY <1>3, OrderOfSet
<1>5. DOMAIN at = 1 .. Len(at) /\ Len(at) \in Nat /\ \A k \in 1 .. Len(at) : at[k] \in places
  BY <1>4
<1>6. ASSUME NEW k \in DOMAIN at PROVE at[k] \in places /\ hist[at[k]] \in S /\ r[k] = hist[at[k]]
  <2>1. at[k] \in places
    BY <1>5
  <2>2. hist[at[k]] \in S
    BY <2>1, ElementOfSeq
  <2>3. r[k] = hist[at[k]]
    BY <1>1
  <2> QED
    BY <2>1, <2>2, <2>3
<1>7. r \in [DOMAIN at -> S]
  BY <1>1, <1>6
<1>8. r \in Seq(S) /\ Len(r) = Len(at)
  BY <1>5, <1>7
<1> QED
  BY <1>5, <1>6, <1>8

-----------------------------------------------------------------------------
(***************************************************************************)
(* The queues of the I/O controller.                                       *)
(***************************************************************************)
LEMMA ContextType ==
  ASSUME ioTime \in Int, NEW K, NEW queue \in Seq(Contexts(K)), NEW J, NEW job \in J,
         NEW now \in Int
  PROVE  Context(job, queue, now) \in Contexts(J) /\ Context(job, queue, now).job = job
<1>1. Len(queue) \in Nat
  OBVIOUS
<1>2. ASSUME queue # <<>> PROVE Last(queue).time \in Int
  <2>1. Len(queue) \in 1 .. Len(queue)
    BY <1>2, EmptySeq
  <2>2. queue[Len(queue)] \in Contexts(K)
    BY <2>1, ElementOfSeq
  <2> QED
    BY <2>2 DEF Last, Contexts
<1> QED
  BY <1>1, <1>2 DEF Context, Contexts

LEMMA CountedDownIs ==
  ASSUME NEW J, NEW queue \in Seq(Contexts(J))
  PROVE  LET n == EndingNow(queue)
             q == CountedDown(queue)
         IN  /\ n \in 0 .. Len(queue)
             /\ q \in Seq(Contexts(J)) /\ Len(q) = Len(queue) - n
             /\ \A i \in 1 .. Len(q) : q[i].job = queue[n + i].job
<1> DEFINE n == EndingNow(queue)
           rest == SubSeq(queue, n + 1, Len(queue))
           q == CountedDown(queue)
<1>1. n \in 0 .. Len(queue) /\ Len(queue) \in Nat
  BY EndingNowType
<1>2. q = IF rest = <<>> THEN rest ELSE [rest EXCEPT ![1].time = @ - 1]
  BY DEF CountedDown
<1> HIDE DEF n, q
<1>3. /\ rest \in Seq(Contexts(J)) /\ Len(rest) = Len(queue) - n
      /\ \A i \in 1 .. Len(rest) : rest[i] = queue[n + i]
  <2>1. \A i \in n + 1 .. Len(queue) : queue[i] \in Contexts(J)
    BY <1>1, ElementOfSeq
  <2> QED
    BY <1>1, <2>1, SubSeqProperties
<1> HIDE DEF rest
<1>4. CASE rest = <<>>
  BY <1>1, <1>2, <1>3, <1>4 DEF n, q
<1>5. CASE rest # <<>>
  <2>1. 1 \in 1 .. Len(rest)
    BY <1>3, <1>5, EmptySeq
  <2>2. rest[1] \in Contexts(J)
    BY <1>3, <2>1, ElementOfSeq
  <2> DEFINE e == [rest[1] EXCEPT !.time = @ - 1]
  <2>3. e \in Contexts(J) /\ e.job = rest[1].job
    BY <2>2 DEF Contexts
  <2>4. q = [rest EXCEPT ![1] = e]
    BY <1>2, <1>5
  <2> HIDE DEF e
  <2>5. /\ q \in Seq(Contexts(J)) /\ Len(q) = Len(rest)
        /\ \A i \in 1 .. Len(rest) : q[i] = IF i = 1 THEN e ELSE rest[i]
    BY <1>3, <2>1, <2>3, <2>4, ExceptSeq
  <2> QED
    BY <1>1, <1>3, <2>3, <2>5 DEF n, q
<1> QED
  BY <1>4, <1>5

-----------------------------------------------------------------------------
(***************************************************************************)
(* The inductive invariant.                                                *)
(***************************************************************************)
TableTypes ==
  /\ frame \in [Pages -> Int] /\ present \in [Pages -> BOOLEAN]
  /\ dirty \in [Pages -> BOOLEAN]
  /\ VC \in Int
  /\ pageHist \in Seq(Pages)

IoTypes ==
  /\ ioTime \in Int
  /\ ioOut \in [Procs -> Seq(Contexts(Pages \cup {NoPage}))]
  /\ ioIn \in Seq(Contexts(Pages))
  /\ ioWait \in [Procs -> Pages \cup {NoPage}]
  /\ finished \in Seq(Pages)
  /\ pending \in Seq(Requests)

RunTypes ==
  /\ ready \in Seq(Procs) /\ running \in Procs \cup {NoProc} /\ blocked \subseteq Procs
  /\ curProc \in Procs \cup {NoProc}
  /\ tlb \in [Slots -> Entries]
  /\ line \in [Procs -> Lines]
  /\ quanta \in Nat \ {0} /\ left \in Nat \ {0}
  /\ cleaning \in Nat \X Nat
  /\ unsaved \subseteq Pages

\* Where a process is on the cpu, and where the page tables know of every write.
InRun    == {"fetch", "access", "resolve", "sync", "quantum", "ended"}
SyncedAt == {"resolve", "quantum", "clean", "loop"}

\* Who is on the cpu, and what is known between a page fault and its treatment.
OnCpu ==
  /\ pc \in InRun => running \in Procs /\ running = curProc
  /\ pc = "resolve" => /\ owed = 0 /\ pending = <<>>
                       /\ Hits(line[running].vpn) = {}
                       /\ ~ present[Wanted]

\* TlbAgrees, whether the page is present or not; and the ring is one.
EntriesAgree ==
  /\ \E n \in Nat \ {0} : Slots = 0 .. n - 1
  /\ replaceIndex \in Slots
  /\ \A i, j \in Slots :
       tlb[i].valid /\ tlb[j].valid /\ tlb[i].vpn = tlb[j].vpn => i = j
  /\ \A i \in Slots : tlb[i].valid => /\ curProc \in Procs
                                      /\ tlb[i].ref
                                      /\ tlb[i].frame = frame[Page(tlb[i].vpn)]

\* Where the one input of a blocked process is.
Queued(p)  == {i \in 1 .. Len(ioIn) : ioIn[i].job[1] = p}
Ended(p)   == {i \in 1 .. Len(finished) : finished[i][1] = p}
Waiting(p) == ioWait[p] # NoPage
Asked(p)   == pending # <<>> /\ pending[1].type # "out" /\ pending[1].page[1] = p

OneInput(p) ==
  /\ \A i, j \in Queued(p) : i = j
  /\ \A i, j \in Ended(p) : i = j
  /\ Queued(p) = {} \/ Ended(p) = {}
  /\ Waiting(p) => Queued(p) = {} /\ Ended(p) = {}
  /\ Asked(p) => Queued(p) = {} /\ Ended(p) = {} /\ ~ Waiting(p)
  /\ p \in blocked <=> Queued(p) # {} \/ Ended(p) # {} \/ Waiting(p) \/ Asked(p)

\* Where the one output is that releases an input that waits.
ReleasesAt(p, q) == {i \in 1 .. Len(ioOut[q]) : ioOut[q][i].job[1] = p}
Promised(p)      == {i \in 1 .. Len(pending) : pending[i].release[1] = p}
AskedToWait(p)   == Asked(p) /\ pending[1].type = "wait"

OneRelease(p) ==
  /\ \A q, r \in Procs : \A i \in ReleasesAt(p, q), j \in ReleasesAt(p, r) : q = r /\ i = j
  /\ \A i, j \in Promised(p) : i = j
  /\ \A q \in Procs : ReleasesAt(p, q) # {} => Promised(p) = {} /\ Waiting(p)
  /\ Waiting(p) => Promised(p) # {} \/ \E q \in Procs : ReleasesAt(p, q) # {}
  /\ Promised(p) # {} => Waiting(p) \/ AskedToWait(p)
  /\ AskedToWait(p) => Promised(p) # {}

Places ==
  /\ \A i, j \in 1 .. Len(ready) : ready[i] = ready[j] => i = j
  /\ running \notin blocked
  /\ \A i \in 1 .. Len(ready) : ready[i] # running /\ ready[i] \notin blocked

Inputting ==
  /\ \A i \in 1 .. Len(pending) :
       pending[i].type # "out" => i = 1 /\ pending[i].release = NoPage
  /\ \A p \in Procs : Waiting(p) => ioWait[p][1] = p
  /\ \A p \in Procs : OneInput(p) /\ OneRelease(p)

\* The last write to an unsaved page is on record, in the TLB or in the page table,
\* and no such page is on its way in.
InTlb(pg) == \E i \in Slots : tlb[i].valid /\ Page(tlb[i].vpn) = pg

UnsavedKept ==
  /\ \A pg \in unsaved :
       /\ present[pg]
       /\ \A i \in Slots : tlb[i].valid /\ Page(tlb[i].vpn) = pg => tlb[i].dirty
       /\ dirty[pg] \/ InTlb(pg)
       /\ pc \in SyncedAt => dirty[pg]
  /\ \A i \in 1 .. Len(ioIn) : ioIn[i].job \notin unsaved
  /\ \A p \in Procs : ioWait[p] \notin unsaved
  /\ pending # <<>> /\ pending[1].type # "out" => pending[1].page \notin unsaved
  /\ ~ lost

Types == TableTypes /\ IoTypes /\ RunTypes

IInv == Types /\ OnCpu /\ EntriesAgree /\ Places /\ Inputting /\ UnsavedKept

-----------------------------------------------------------------------------
(***************************************************************************)
(* What a tick does to the I/O: `order' are the outputs that let an input  *)
(* go, `inputs' the queue of inputs with these, of which `n' end.          *)
(***************************************************************************)
LEMMA ReleasingFinite ==
  ASSUME IoTypes
  PROVE  IsFiniteSet(Releasing)
<1> DEFINE at == [p \in Procs |-> {p} \X (1 .. EndingNow(ioOut[p]))]
           all == {at[p] : p \in Procs}
<1>1. IsFiniteSet(Procs)
  <2>1. 1 \in Int /\ NumProcs \in Int
    BY PageAssumption
  <2> QED
    BY <2>1, FS_Interval DEF Procs
<1>2. ASSUME NEW p \in Procs PROVE IsFiniteSet(at[p])
  <2>1. EndingNow(ioOut[p]) \in Int
    BY EndingNowType DEF IoTypes
  <2>2. IsFiniteSet({p}) /\ IsFiniteSet(1 .. EndingNow(ioOut[p]))
    <3>1. 1 \in Int
      OBVIOUS
    <3> QED
      BY <2>1, <3>1, FS_Singleton, FS_Interval
  <2>3. IsFiniteSet({p} \X (1 .. EndingNow(ioOut[p])))
    BY <2>2, FS_Product
  <2> QED
    BY <2>3
<1>3. at \in Surjection(Procs, all)
  BY DEF Surjection
<1>4. Releasing \subseteq UNION all
  BY DEF Releasing
<1> HIDE DEF at
<1>5. IsFiniteSet(all)
  <2> HIDE DEF all
  <2> QED
    BY <1>1, <1>3, FS_Surjection
<1>6. \A T \in all : IsFiniteSet(T)
  BY <1>2
<1> HIDE DEF all
<1>7. IsFiniteSet(UNION all)
  BY <1>5, <1>6, FS_UNION
<1> QED
  BY <1>4, <1>7, FS_Subset

IsRelease(c) ==
  /\ c[1] \in Procs /\ c[2] \in 1 .. EndingNow(ioOut[c[1]])
  /\ c = <<c[1], c[2]>>
  /\ ioOut[c[1]][c[2]].job # NoPage
  /\ Owner(c) \in Procs /\ Waiting(Owner(c))

LEMMA ReleasingIs ==
  ASSUME IoTypes
  PROVE  /\ \A c \in Releasing : IsRelease(c)
         /\ \A p \in Procs : \A i \in 1 .. EndingNow(ioOut[p]) :
              LET pg == ioOut[p][i].job
              IN  pg # NoPage /\ Waiting(pg[1]) =>
                    <<p, i>> \in Releasing /\ Owner(<<p, i>>) = pg[1]
<1>1. ASSUME NEW c \in Releasing PROVE IsRelease(c)
  <2>1. PICK p \in Procs : c \in {p} \X (1 .. EndingNow(ioOut[p]))
    BY DEF Releasing
  <2>2. c[1] = p /\ c[2] \in 1 .. EndingNow(ioOut[p]) /\ c = <<c[1], c[2]>>
    BY <2>1
  <2>3. ioOut[p] \in Seq(Contexts(Pages \cup {NoPage})) /\ EndingNow(ioOut[p]) \in 0 .. Len(ioOut[p])
    BY EndingNowType DEF IoTypes
  <2>4. c[2] \in 1 .. Len(ioOut[p])
    BY <2>2, <2>3
  <2>5. ioOut[p][c[2]].job \in Pages \cup {NoPage}
    <3>1. ioOut[p][c[2]] \in Contexts(Pages \cup {NoPage})
      BY <2>3, <2>4, ElementOfSeq
    <3> QED
      BY <3>1 DEF Contexts
  <2>6. ioOut[p][c[2]].job # NoPage /\ ioWait[Owner(c)] # NoPage
    BY <2>2 DEF Releasing
  <2>7. Owner(c) \in Procs
    BY <2>2, <2>5, <2>6 DEF Owner, Pages
  <2> QED
    BY <2>2, <2>6, <2>7 DEF IsRelease, Waiting
<1>2. ASSUME NEW p \in Procs, NEW i \in 1 .. EndingNow(ioOut[p]),
             ioOut[p][i].job # NoPage, Waiting(ioOut[p][i].job[1])
      PROVE  <<p, i>> \in Releasing /\ Owner(<<p, i>>) = ioOut[p][i].job[1]
  <2>1. Owner(<<p, i>>) = ioOut[p][i].job[1]
    BY DEF Owner
  <2>2. <<p, i>> \in {p} \X (1 .. EndingNow(ioOut[p]))
    OBVIOUS
  <2> QED
    BY <1>2, <2>1, <2>2 DEF Releasing, Waiting
<1> QED
  BY <1>1, <1>2

LEMMA ConcatParts ==
  ASSUME NEW S, NEW s \in Seq(S), NEW t \in Seq(S)
  PROVE  /\ s \o t \in Seq(S) /\ Len(s \o t) = Len(s) + Len(t)
         /\ \A i \in 1 .. Len(s) : (s \o t)[i] = s[i]
         /\ \A i \in 1 .. Len(t) : (s \o t)[Len(s) + i] = t[i]
<1>1. Len(s) \in Nat /\ Len(t) \in Nat
  OBVIOUS
<1>2. ASSUME NEW i \in 1 .. Len(s) PROVE (s \o t)[i] = s[i]
  BY <1>1, ConcatProperties
<1>3. ASSUME NEW i \in 1 .. Len(t) PROVE (s \o t)[Len(s) + i] = t[i]
  <2>1. Len(s) + i \in 1 .. Len(s) + Len(t) /\ ~ (Len(s) + i <= Len(s))
        /\ Len(s) + i - Len(s) = i
    BY <1>1
  <2> QED
    BY <2>1, ConcatProperties
<1> QED
  BY <1>2, <1>3, ConcatProperties

TickMoves(order, inputs, n) ==
  /\ order \in Seq(Releasing)
  /\ \A i, j \in 1 .. Len(order) : order[i] = order[j] => i = j
  /\ \A c \in Releasing : \E i \in 1 .. Len(order) : order[i] = c
  /\ inputs \in Seq(Contexts(Pages)) /\ Len(inputs) = Len(ioIn) + Len(order)
  /\ \A i \in 1 .. Len(ioIn) : inputs[i].job = ioIn[i].job
  /\ \A k \in 1 .. Len(order) : inputs[Len(ioIn) + k].job = ioWait[Owner(order[k])]
  /\ n \in 0 .. Len(inputs)
  /\ ioIn' \in Seq(Contexts(Pages)) /\ Len(ioIn') = Len(inputs) - n
  /\ \A i \in 1 .. Len(ioIn') : ioIn'[i].job = inputs[n + i].job
  /\ finished' \in Seq(Pages) /\ Len(finished') = Len(finished) + n
  /\ \A i \in 1 .. Len(finished) : finished'[i] = finished[i]
  /\ \A i \in 1 .. n : finished'[Len(finished) + i] = inputs[i].job
  /\ \A pg \in Pages : present'[pg] <=> present[pg] \/ \E i \in 1 .. n : inputs[i].job = pg
  /\ \A pg \in Pages : dirty'[pg] <=> dirty[pg] /\ ~ \E i \in 1 .. n : inputs[i].job = pg

LEMMA TickMovesInputs ==
  ASSUME IoTypes, TableTypes, Tick
  PROVE  \E order, inputs, n : TickMoves(order, inputs, n)
<1>1. PICK order \in ReleaseOrders :
        LET inputs == RemoveWait(order)
            ending == [i \in 1 .. EndingNow(inputs) |-> inputs[i].job]
            ended  == ToSet(ending)
        IN  /\ ioIn' = CountedDown(inputs)
            /\ finished' = finished \o ending
            /\ present' = [pg \in Pages |-> pg \in ended \/ present[pg]]
            /\ dirty' = [pg \in Pages |-> pg \notin ended /\ dirty[pg]]
  BY DEF Tick
<1> DEFINE inputs == RemoveWait(order)
           n == EndingNow(inputs)
           ending == [i \in 1 .. n |-> inputs[i].job]
<1>2. /\ order \in Seq(Releasing)
      /\ \A i, j \in 1 .. Len(order) : order[i] = order[j] => i = j
      /\ \A c \in Releasing : \E i \in 1 .. Len(order) : order[i] = c
  <2>1. order \in SetToSeqs(Releasing)
    BY DEF ReleaseOrders
  <2> QED
    BY <2>1, ReleasingFinite, OrderOfSet
<1> DEFINE first == Context(NoPage, ioIn, VC + 1).time
           added == [k \in 1 .. Len(order) |->
                       [job   |-> ioWait[Owner(order[k])],
                        time  |-> IF k % 2 = 1 THEN first ELSE ioTime - first,
                        due   |-> VC + 1 + ioTime,
                        ahead |-> Len(ioIn) + k - 1]]
<1>3. inputs = ioIn \o added
  BY DEF RemoveWait
<1>4. first \in Int
  <2>1. ioTime \in Int /\ ioIn \in Seq(Contexts(Pages)) /\ VC + 1 \in Int
    BY DEF IoTypes, TableTypes
  <2>2. Context(NoPage, ioIn, VC + 1) \in Contexts({NoPage})
    BY <2>1, ContextType
  <2> QED
    BY <2>2 DEF Contexts
<1>5. Len(order) \in Nat /\ Len(ioIn) \in Nat /\ ioIn \in Seq(Contexts(Pages))
      /\ ioTime \in Int /\ VC \in Int /\ finished \in Seq(Pages)
  BY <1>2 DEF IoTypes, TableTypes
<1> HIDE DEF first
<1>6. ASSUME NEW k \in 1 .. Len(order)
      PROVE  added[k] \in Contexts(Pages) /\ added[k].job = ioWait[Owner(order[k])]
  <2>1. IsRelease(order[k])
    BY <1>2, ReleasingIs, ElementOfSeq
  <2>2. ioWait[Owner(order[k])] \in Pages
    BY <2>1 DEF IsRelease, Waiting, IoTypes
  <2>3. k \in Int
    OBVIOUS
  <2>4. (IF k % 2 = 1 THEN first ELSE ioTime - first) \in Int
    BY <1>4, <1>5
  <2> QED
    BY <1>5, <2>2, <2>3, <2>4 DEF Contexts
<1>7. added \in Seq(Contexts(Pages)) /\ Len(added) = Len(order)
  <2>1. added = [k \in 1 .. Len(order) |-> added[k]]
    OBVIOUS
  <2> HIDE DEF added
  <2>2. added \in [1 .. Len(order) -> Contexts(Pages)]
    BY <1>6, <2>1
  <2> QED
    BY <1>5, <2>2
<1> HIDE DEF added
<1>8. /\ inputs \in Seq(Contexts(Pages)) /\ Len(inputs) = Len(ioIn) + Len(order)
      /\ \A i \in 1 .. Len(ioIn) : inputs[i].job = ioIn[i].job
      /\ \A k \in 1 .. Len(order) : inputs[Len(ioIn) + k].job = ioWait[Owner(order[k])]
  <2>1. \A k \in 1 .. Len(order) : added[k].job = ioWait[Owner(order[k])]
    BY <1>6
  <2> HIDE DEF inputs
  <2>2. inputs \in Seq(Contexts(Pages)) /\ Len(inputs) = Len(ioIn) + Len(added)
    BY <1>3, <1>5, <1>7, ConcatParts
  <2>3. \A i \in 1 .. Len(ioIn) : inputs[i] = ioIn[i]
    BY <1>3, <1>5, <1>7, ConcatParts
  <2>4. \A k \in 1 .. Len(added) : inputs[Len(ioIn) + k] = added[k]
    BY <1>3, <1>5, <1>7, ConcatParts
  <2> QED
    BY <1>7, <2>1, <2>2, <2>3, <2>4
<1> HIDE DEF inputs
<1>9. /\ n \in 0 .. Len(inputs)
      /\ ioIn' \in Seq(Contexts(Pages)) /\ Len(ioIn') = Len(inputs) - n
      /\ \A i \in 1 .. Len(ioIn') : ioIn'[i].job = inputs[n + i].job
  <2>1. ioIn' = CountedDown(inputs)
    BY <1>1 DEF inputs
  <2> QED
    BY <1>8, <2>1, CountedDownIs
<1> HIDE DEF n
<1>10. ending \in Seq(Pages) /\ Len(ending) = n /\ n \in Nat
       /\ \A i \in 1 .. n : ending[i] = inputs[i].job
  <2>1. Len(inputs) \in Nat /\ n \in Nat
    BY <1>8, <1>9
  <2>2. \A i \in 1 .. n : inputs[i].job \in Pages
    <3>1. SUFFICES ASSUME NEW i \in 1 .. n PROVE inputs[i].job \in Pages
      OBVIOUS
    <3>2. i \in 1 .. Len(inputs)
      BY <1>9, <2>1
    <3>3. inputs[i] \in Contexts(Pages)
      BY <1>8, <3>2, ElementOfSeq
    <3> QED
      BY <3>3 DEF Contexts
  <2>3. ending \in [1 .. n -> Pages]
    BY <2>2
  <2> QED
    BY <2>1, <2>3
<1>11. /\ finished' = finished \o ending
       /\ present' = [pg \in Pages |-> pg \in ToSet(ending) \/ present[pg]]
       /\ dirty' = [pg \in Pages |-> pg \notin ToSet(ending) /\ dirty[pg]]
  BY <1>1 DEF inputs, n
<1>12. \A pg : pg \in ToSet(ending) <=> \E i \in 1 .. n : inputs[i].job = pg
  BY <1>10 DEF ToSet
<1> HIDE DEF ending
<1>13. /\ finished' \in Seq(Pages) /\ Len(finished') = Len(finished) + n
       /\ \A i \in 1 .. Len(finished) : finished'[i] = finished[i]
       /\ \A i \in 1 .. n : finished'[Len(finished) + i] = inputs[i].job
  BY <1>5, <1>10, <1>11, ConcatParts
<1>14. /\ \A pg \in Pages : present'[pg] <=> present[pg] \/ \E i \in 1 .. n : inputs[i].job = pg
       /\ \A pg \in Pages : dirty'[pg] <=> dirty[pg] /\ ~ \E i \in 1 .. n : inputs[i].job = pg
  BY <1>11, <1>12
<1>15. TickMoves(order, inputs, n)
  BY <1>2, <1>8, <1>9, <1>13, <1>14 DEF TickMoves
<1> QED
  BY <1>15

LEMMA TickWaits ==
  ASSUME IoTypes, Tick, NEW p \in Procs
  PROVE  /\ ioWait'[p] = IF Waiting(p)' THEN ioWait[p] ELSE NoPage
         /\ Waiting(p)' <=> Waiting(p) /\ \A c \in Releasing : Owner(c) # p
<1>1. ioWait' = [q \in Procs |-> IF \E c \in Releasing : Owner(c) = q THEN NoPage ELSE ioWait[q]]
  BY DEF Tick
<1>2. ioWait'[p] = IF \E c \in Releasing : Owner(c) = p THEN NoPage ELSE ioWait[p]
  BY <1>1
<1>3. Waiting(p)' <=> ioWait'[p] # NoPage
  BY DEF Waiting
<1> QED
  BY <1>2, <1>3 DEF Waiting

LEMMA TickOutputs ==
  ASSUME IoTypes, Tick, NEW q \in Procs
  PROVE  LET n == EndingNow(ioOut[q])
         IN  /\ n \in 0 .. Len(ioOut[q])
             /\ ioOut'[q] \in Seq(Contexts(Pages \cup {NoPage}))
             /\ \A p : /\ \A i \in ReleasesAt(p, q)' :
                            n + i \in ReleasesAt(p, q) /\ i \in Nat /\ i > 0
                       /\ \A i \in ReleasesAt(p, q) :
                            i \in Nat /\ (i > n => i - n \in ReleasesAt(p, q)')
<1> DEFINE n == EndingNow(ioOut[q])
<1>1. ioOut'[q] = CountedDown(ioOut[q]) /\ ioOut[q] \in Seq(Contexts(Pages \cup {NoPage}))
  <2>1. ioOut' = [r \in Procs |-> CountedDown(ioOut[r])]
    BY DEF Tick
  <2>2. ioOut \in [Procs -> Seq(Contexts(Pages \cup {NoPage}))]
    BY DEF IoTypes
  <2> QED
    BY <2>1, <2>2
<1>2. /\ n \in 0 .. Len(ioOut[q]) /\ Len(ioOut[q]) \in Nat
      /\ ioOut'[q] \in Seq(Contexts(Pages \cup {NoPage}))
      /\ Len(ioOut'[q]) = Len(ioOut[q]) - n
      /\ \A i \in 1 .. Len(ioOut'[q]) : ioOut'[q][i].job = ioOut[q][n + i].job
  <2> DEFINE queue == ioOut[q]
  <2>1. ioOut'[q] = CountedDown(queue) /\ queue \in Seq(Contexts(Pages \cup {NoPage}))
        /\ n = EndingNow(queue)
    BY <1>1
  <2> HIDE DEF n, queue
  <2>2. Len(queue) \in Nat
    BY <2>1
  <2>3. /\ n \in 0 .. Len(queue) /\ Len(queue) \in Nat
        /\ ioOut'[q] \in Seq(Contexts(Pages \cup {NoPage}))
        /\ Len(ioOut'[q]) = Len(queue) - n
        /\ \A i \in 1 .. Len(ioOut'[q]) : ioOut'[q][i].job = queue[n + i].job
    BY <2>1, <2>2, CountedDownIs
  <2> QED
    BY <2>3 DEF queue
<1> HIDE DEF n
<1>3. ASSUME NEW p, NEW i \in ReleasesAt(p, q)'
      PROVE  n + i \in ReleasesAt(p, q) /\ i \in Nat /\ i > 0
  BY <1>2 DEF ReleasesAt
<1>4. ASSUME NEW p, NEW i \in ReleasesAt(p, q)
      PROVE  i \in Nat /\ (i > n => i - n \in ReleasesAt(p, q)')
  <2>1. i \in 1 .. Len(ioOut[q]) /\ ioOut[q][i].job[1] = p
    BY DEF ReleasesAt
  <2> SUFFICES ASSUME i > n PROVE i - n \in ReleasesAt(p, q)'
    BY <1>2, <2>1
  <2>2. i - n \in 1 .. Len(ioOut'[q]) /\ n + (i - n) = i
    BY <1>2, <2>1
  <2>3. ioOut'[q][i - n].job = ioOut[q][i].job
    BY <1>2, <2>2
  <2> QED
    BY <2>1, <2>2, <2>3 DEF ReleasesAt
<1> QED
  BY <1>2, <1>3, <1>4 DEF n

\* An output that ends and releases an input is its only release.
LEMMA ReleasedOnce ==
  ASSUME IoTypes, Inputting, NEW c \in Releasing
  PROVE  /\ Owner(c) \in Procs /\ Waiting(Owner(c)) /\ c[1] \in Procs
         /\ c = <<c[1], c[2]>>
         /\ c[2] \in ReleasesAt(Owner(c), c[1]) /\ c[2] <= EndingNow(ioOut[c[1]])
<1>1. IsRelease(c)
  BY ReleasingIs
<1>2. EndingNow(ioOut[c[1]]) \in 0 .. Len(ioOut[c[1]]) /\ Len(ioOut[c[1]]) \in Nat
  BY <1>1, EndingNowType DEF IoTypes, IsRelease
<1> QED
  BY <1>1, <1>2 DEF IsRelease, ReleasesAt, Owner

LEMMA TickOneRelease ==
  ASSUME IoTypes, Inputting, Tick, UNCHANGED pending, NEW p \in Procs
  PROVE  OneRelease(p)'
<1>1. OneRelease(p) /\ OneInput(p)
  BY DEF Inputting
<1>2. Promised(p)' = Promised(p) /\ (AskedToWait(p)' <=> AskedToWait(p))
  BY DEF Promised, AskedToWait, Asked
<1>3. ASSUME NEW q \in Procs, NEW i \in ReleasesAt(p, q)' PROVE Waiting(p)' /\ Promised(p) = {}
  <2>1. /\ EndingNow(ioOut[q]) \in Nat /\ EndingNow(ioOut[q]) + i \in ReleasesAt(p, q)
        /\ i > 0 /\ i \in Int
    BY TickOutputs
  <2>2. Waiting(p) /\ Promised(p) = {}
    BY <1>1, <2>1 DEF OneRelease
  <2>3. ASSUME NEW c \in Releasing, Owner(c) = p PROVE FALSE
    <3>1. c[1] \in Procs /\ c[2] \in ReleasesAt(p, c[1]) /\ c[2] <= EndingNow(ioOut[c[1]])
      BY <2>3, ReleasedOnce
    <3>2. c[1] = q /\ c[2] = EndingNow(ioOut[q]) + i
      BY <1>1, <2>1, <3>1 DEF OneRelease
    <3> QED
      BY <2>1, <3>1, <3>2
  <2> QED
    BY <2>2, <2>3, TickWaits
<1>4. ASSUME Waiting(p)', Promised(p) = {} PROVE \E q \in Procs : ReleasesAt(p, q)' # {}
  <2>1. Waiting(p) /\ \A c \in Releasing : Owner(c) # p
    BY <1>4, TickWaits
  <2>2. PICK q \in Procs : ReleasesAt(p, q) # {}
    BY <1>1, <1>4, <2>1 DEF OneRelease
  <2>3. PICK i \in ReleasesAt(p, q) : TRUE
    BY <2>2
  <2>4. i \in Int /\ EndingNow(ioOut[q]) \in Int /\ i > 0 /\ ioOut[q][i].job[1] = p
    BY TickOutputs DEF ReleasesAt
  <2>5. CASE i > EndingNow(ioOut[q])
    BY <2>5, TickOutputs
  <2>6. CASE i <= EndingNow(ioOut[q])
    <3>1. i \in 1 .. EndingNow(ioOut[q])
      BY <2>4, <2>6
    <3>2. ioOut[q][i].job # NoPage
      BY <2>4 DEF NoPage, NoProc, Procs
    <3> QED
      BY <2>1, <2>4, <3>1, <3>2, ReleasingIs
  <2> QED
    BY <2>4, <2>5, <2>6
<1>5. ASSUME Promised(p) # {} PROVE Waiting(p)' \/ AskedToWait(p)
  <2>1. ASSUME Waiting(p), NEW c \in Releasing, Owner(c) = p PROVE FALSE
    BY <1>1, <1>5, <2>1, ReleasedOnce DEF OneRelease
  <2> QED
    BY <1>1, <1>5, <2>1, TickWaits DEF OneRelease
<1>6. ASSUME NEW q \in Procs, NEW r \in Procs,
             NEW i \in ReleasesAt(p, q)', NEW j \in ReleasesAt(p, r)'
      PROVE  q = r /\ i = j
  <2>1. /\ EndingNow(ioOut[q]) + i \in ReleasesAt(p, q) /\ i \in Int
        /\ EndingNow(ioOut[r]) + j \in ReleasesAt(p, r) /\ j \in Int
        /\ EndingNow(ioOut[q]) \in Int /\ EndingNow(ioOut[r]) \in Int
    BY TickOutputs
  <2>2. q = r /\ EndingNow(ioOut[q]) + i = EndingNow(ioOut[r]) + j
    BY <1>1, <2>1 DEF OneRelease
  <2> QED
    BY <2>1, <2>2
<1> QED
  BY <1>1, <1>2, <1>3, <1>4, <1>5, <1>6 DEF OneRelease

LEMMA TickOneInput ==
  ASSUME IoTypes, TableTypes, Inputting, Tick, UNCHANGED <<pending, blocked>>,
         NEW p \in Procs
  PROVE  OneInput(p)'
<1>1. PICK order, inputs, n : TickMoves(order, inputs, n)
  BY TickMovesInputs
<1>2. OneInput(p) /\ OneRelease(p) /\ \A q \in Procs : Waiting(q) => ioWait[q][1] = q
  BY DEF Inputting
<1> DEFINE In == {i \in 1 .. Len(inputs) : inputs[i].job[1] = p}
<1>3. /\ Len(ioIn) \in Nat /\ Len(order) \in Nat /\ Len(finished) \in Nat
      /\ Len(inputs) = Len(ioIn) + Len(order) /\ n \in Nat /\ n <= Len(inputs)
  BY <1>1 DEF TickMoves, IoTypes
<1>31. /\ \A i \in 1 .. Len(ioIn) : inputs[i].job = ioIn[i].job
       /\ \A k \in 1 .. Len(order) : inputs[Len(ioIn) + k].job = ioWait[Owner(order[k])]
       /\ \A c \in Releasing : \E i \in 1 .. Len(order) : order[i] = c
  BY <1>1 DEF TickMoves
<1>32. /\ Len(ioIn') = Len(inputs) - n
       /\ \A i \in 1 .. Len(ioIn') : ioIn'[i].job = inputs[n + i].job
  BY <1>1 DEF TickMoves
<1>33. /\ Len(finished') = Len(finished) + n
       /\ \A i \in 1 .. Len(finished) : finished'[i] = finished[i]
       /\ \A i \in 1 .. n : finished'[Len(finished) + i] = inputs[i].job
  BY <1>1 DEF TickMoves
<1>4. ASSUME NEW k \in 1 .. Len(order), inputs[Len(ioIn) + k].job[1] = p
      PROVE  order[k] \in Releasing /\ Owner(order[k]) = p /\ Waiting(p)
  <2>1. order[k] \in Releasing
    BY <1>1, ElementOfSeq DEF TickMoves
  <2>2. inputs[Len(ioIn) + k].job = ioWait[Owner(order[k])]
    BY <1>31
  <2> QED
    BY <1>2, <1>4, <2>1, <2>2, ReleasedOnce
<1>5. ASSUME NEW i \in In
      PROVE  \/ i \in Queued(p)
             \/ \E k \in 1 .. Len(order) : i = Len(ioIn) + k /\ inputs[Len(ioIn) + k].job[1] = p
  <2>1. CASE i <= Len(ioIn)
    BY <1>3, <1>31, <2>1 DEF Queued
  <2>2. CASE i > Len(ioIn)
    <3>1. i - Len(ioIn) \in 1 .. Len(order) /\ i = Len(ioIn) + (i - Len(ioIn))
      BY <1>3, <2>2
    <3> QED
      BY <3>1
  <2> QED
    BY <1>3, <2>1, <2>2
<1>6. ASSUME NEW k \in 1 .. Len(order), NEW l \in 1 .. Len(order),
             Owner(order[k]) = p, Owner(order[l]) = p,
             order[k] \in Releasing, order[l] \in Releasing
      PROVE  k = l
  <2>1. order[k] = order[l]
    BY <1>2, <1>6, ReleasedOnce DEF OneRelease
  <2> QED
    BY <1>1, <2>1 DEF TickMoves
<1>7. \A i, j \in In : i = j
  <2> SUFFICES ASSUME NEW i \in In, NEW j \in In PROVE i = j
    OBVIOUS
  <2>1. CASE i \in Queued(p) /\ j \in Queued(p)
    BY <1>2, <2>1 DEF OneInput
  <2>2. ASSUME ~ (i \in Queued(p) /\ j \in Queued(p)) PROVE Waiting(p) /\ Queued(p) = {}
    <3>1. Waiting(p)
      BY <1>4, <1>5, <2>2
    <3> QED
      BY <1>2, <3>1 DEF OneInput
  <2>3. CASE ~ (i \in Queued(p) /\ j \in Queued(p))
    <3>1. PICK k \in 1 .. Len(order) : i = Len(ioIn) + k /\ inputs[Len(ioIn) + k].job[1] = p
      BY <1>5, <2>2, <2>3
    <3>2. PICK l \in 1 .. Len(order) : j = Len(ioIn) + l /\ inputs[Len(ioIn) + l].job[1] = p
      BY <1>5, <2>2, <2>3
    <3> QED
      BY <1>4, <1>6, <3>1, <3>2
  <2> QED
    BY <2>1, <2>3
<1>8. ASSUME In # {}
      PROVE  Ended(p) = {} /\ ~ Asked(p) /\ ~ Waiting(p)' /\ p \in blocked
  <2>1. PICK i \in In : TRUE
    BY <1>8
  <2>2. CASE i \in Queued(p)
    BY <1>2, <2>2, TickWaits DEF OneInput
  <2>3. CASE \E k \in 1 .. Len(order) : i = Len(ioIn) + k /\ inputs[Len(ioIn) + k].job[1] = p
    BY <1>2, <1>4, <2>3, TickWaits DEF OneInput
  <2> QED
    BY <1>5, <2>2, <2>3
<1>9. Queued(p) # {} => In # {}
  BY <1>3, <1>31 DEF Queued
<1>10. ASSUME Waiting(p), ~ Waiting(p)' PROVE In # {}
  <2>1. PICK c \in Releasing : Owner(c) = p
    BY <1>10, TickWaits
  <2>2. PICK k \in 1 .. Len(order) : order[k] = c
    BY <1>31
  <2>3. Len(ioIn) + k \in 1 .. Len(inputs) /\ inputs[Len(ioIn) + k].job = ioWait[p]
    BY <1>3, <1>31, <2>1, <2>2
  <2> QED
    BY <1>2, <1>10, <2>3
<1>11. /\ \A i \in Queued(p)' : n + i \in In /\ i \in Nat /\ i > 0
       /\ \A i \in In : i > n => i - n \in Queued(p)'
  <2>1. ASSUME NEW i \in Queued(p)' PROVE n + i \in In /\ i \in Nat /\ i > 0
    BY <1>3, <1>32 DEF Queued
  <2>2. ASSUME NEW i \in In, i > n PROVE i - n \in Queued(p)'
    <3>1. i - n \in 1 .. Len(ioIn') /\ n + (i - n) = i
      BY <1>3, <1>32, <2>2
    <3>2. ioIn'[i - n].job = inputs[i].job
      BY <1>32, <3>1
    <3> QED
      BY <3>1, <3>2 DEF Queued
  <2> QED
    BY <2>1, <2>2
<1>12. /\ \A i \in Ended(p)' : /\ i \in Nat
                               /\ \/ i \in Ended(p)
                                  \/ i > Len(finished) /\ i - Len(finished) \in In
                                       /\ i - Len(finished) <= n
       /\ \A i \in In : i <= n => Len(finished) + i \in Ended(p)'
       /\ Ended(p) \subseteq Ended(p)'
  <2>1. ASSUME NEW i \in Ended(p)'
        PROVE  /\ i \in Nat
               /\ \/ i \in Ended(p)
                  \/ i > Len(finished) /\ i - Len(finished) \in In /\ i - Len(finished) <= n
    <3>1. i \in 1 .. Len(finished) + n /\ finished'[i][1] = p
      BY <1>33 DEF Ended
    <3>2. CASE i <= Len(finished)
      BY <1>3, <1>33, <3>1, <3>2 DEF Ended
    <3>3. CASE i > Len(finished)
      <4>1. i - Len(finished) \in 1 .. n /\ Len(finished) + (i - Len(finished)) = i
        BY <1>3, <3>1, <3>3
      <4>2. finished'[i] = inputs[i - Len(finished)].job
        BY <1>33, <4>1
      <4> QED
        BY <1>3, <3>1, <3>3, <4>1, <4>2
    <3> QED
      BY <1>3, <3>1, <3>2, <3>3
  <2>2. ASSUME NEW i \in In, i <= n PROVE Len(finished) + i \in Ended(p)'
    <3>1. i \in 1 .. n /\ inputs[i].job[1] = p
      BY <1>3, <2>2
    <3>2. /\ Len(finished) + i \in 1 .. Len(finished')
          /\ finished'[Len(finished) + i][1] = p
      BY <1>3, <1>33, <3>1
    <3> QED
      BY <3>2 DEF Ended
  <2>3. Ended(p) \subseteq Ended(p)'
    BY <1>3, <1>33 DEF Ended
  <2> QED
    BY <2>1, <2>2, <2>3
<1>13. (Asked(p)' <=> Asked(p)) /\ blocked' = blocked
  BY DEF Asked
<1>14. In \subseteq Nat
  BY <1>3
<1> HIDE DEF In
<1>15. \A i, j \in Queued(p)' : i = j
  BY <1>3, <1>7, <1>11
<1>16. \A i, j \in Ended(p)' : i = j
  BY <1>2, <1>3, <1>7, <1>8, <1>12 DEF OneInput
<1>17. ASSUME Queued(p)' # {} PROVE Ended(p)' = {}
  BY <1>3, <1>7, <1>8, <1>11, <1>12, <1>17
<1>18. ASSUME Waiting(p)' PROVE Queued(p)' = {} /\ Ended(p)' = {}
  BY <1>2, <1>8, <1>11, <1>12, <1>18, TickWaits DEF OneInput
<1>19. ASSUME Asked(p)' PROVE Queued(p)' = {} /\ Ended(p)' = {} /\ ~ Waiting(p)'
  BY <1>2, <1>8, <1>11, <1>12, <1>13, <1>19, TickWaits DEF OneInput
<1>20. ASSUME In # {} PROVE Queued(p)' # {} \/ Ended(p)' # {}
  <2>1. PICK i \in In : TRUE
    BY <1>20
  <2>2. i <= n \/ i > n
    BY <1>3, <1>14
  <2>3. i \in In /\ (i <= n => Len(finished) + i \in Ended(p)') /\ (i > n => i - n \in Queued(p)')
    BY <1>11, <1>12
  <2> QED
    BY <2>2, <2>3
<1>21. p \in blocked' <=> Queued(p)' # {} \/ Ended(p)' # {} \/ Waiting(p)' \/ Asked(p)'
  BY <1>2, <1>8, <1>9, <1>10, <1>11, <1>12, <1>13, <1>20, TickWaits DEF OneInput
<1> QED
  BY <1>15, <1>16, <1>17, <1>18, <1>19, <1>21 DEF OneInput

LEMMA TickInputting ==
  ASSUME IoTypes, TableTypes, Inputting, Tick, UNCHANGED <<pending, blocked>>
  PROVE  Inputting'
<1>1. \A i \in 1 .. Len(pending') :
        pending'[i].type # "out" => i = 1 /\ pending'[i].release = NoPage
  BY DEF Inputting
<1>2. \A p \in Procs : Waiting(p)' => ioWait'[p][1] = p
  BY TickWaits DEF Inputting
<1>3. \A p \in Procs : OneInput(p)' /\ OneRelease(p)'
  BY TickOneInput, TickOneRelease
<1> QED
  BY <1>1, <1>2, <1>3 DEF Inputting

LEMMA TickTypes ==
  ASSUME IoTypes, TableTypes, Tick, UNCHANGED <<pending, pageHist>>
  PROVE  IoTypes' /\ TableTypes'
<1>1. PICK order, inputs, n : TickMoves(order, inputs, n)
  BY TickMovesInputs
<1>2. ioOut' \in [Procs -> Seq(Contexts(Pages \cup {NoPage}))]
  <2>1. ioOut' = [p \in Procs |-> CountedDown(ioOut[p])]
    BY DEF Tick
  <2>2. \A p \in Procs : ioOut'[p] \in Seq(Contexts(Pages \cup {NoPage}))
    BY TickOutputs
  <2> QED
    BY <2>1, <2>2
<1>3. ioWait' \in [Procs -> Pages \cup {NoPage}]
  BY DEF Tick, IoTypes
<1>4. ioIn' \in Seq(Contexts(Pages)) /\ finished' \in Seq(Pages)
  BY <1>1 DEF TickMoves
<1>5. IoTypes'
  BY <1>2, <1>3, <1>4 DEF IoTypes, Tick
<1>6. present' \in [Pages -> BOOLEAN] /\ dirty' \in [Pages -> BOOLEAN]
  BY DEF Tick
<1>7. frame' = frame /\ VC' = VC + 1
  BY DEF Tick
<1>8. TableTypes'
  BY <1>6, <1>7 DEF TableTypes
<1> QED
  BY <1>5, <1>8

\* The pages whose inputs end in a tick were on their way.
LEMMA TickUnsaved ==
  ASSUME Types, Inputting, UnsavedKept, Tick,
         UNCHANGED <<pending, pageHist, pc, tlb, curProc, unsaved, lost>>
  PROVE  UnsavedKept'
<1> USE DEF Types
<1>1. PICK order, inputs, n : TickMoves(order, inputs, n)
  BY TickMovesInputs
<1>2. ASSUME NEW i \in 1 .. Len(inputs) PROVE inputs[i].job \notin unsaved
  <2>1. Len(ioIn) \in Nat /\ Len(order) \in Nat /\ Len(inputs) = Len(ioIn) + Len(order)
    BY <1>1 DEF TickMoves, IoTypes
  <2>2. CASE i <= Len(ioIn)
    <3>1. i \in 1 .. Len(ioIn)
      BY <2>1, <2>2
    <3>2. \A j \in 1 .. Len(ioIn) : inputs[j].job = ioIn[j].job
      BY <1>1 DEF TickMoves
    <3> QED
      BY <3>1, <3>2 DEF UnsavedKept
  <2>3. CASE i > Len(ioIn)
    <3> DEFINE k == i - Len(ioIn)
    <3>1. k \in 1 .. Len(order) /\ i = Len(ioIn) + k
      BY <2>1, <2>3
    <3> HIDE DEF k
    <3>2. inputs[i].job = ioWait[Owner(order[k])] /\ order[k] \in Releasing
      BY <1>1, <3>1, ElementOfSeq DEF TickMoves
    <3>3. Owner(order[k]) \in Procs
      BY <3>2, ReleasedOnce
    <3> QED
      BY <3>2, <3>3 DEF UnsavedKept
  <2> QED
    BY <2>1, <2>2, <2>3
<1>3. n \in 0 .. Len(inputs) /\ Len(inputs) \in Nat
  BY <1>1 DEF TickMoves
<1>4. ASSUME NEW pg \in unsaved PROVE present'[pg] = present[pg] /\ dirty'[pg] = dirty[pg]
  <2>1. pg \in Pages /\ present[pg] \in BOOLEAN /\ dirty[pg] \in BOOLEAN
    BY DEF RunTypes, TableTypes
  <2>2. ~ \E i \in 1 .. n : inputs[i].job = pg
    BY <1>2, <1>3
  <2>3. present'[pg] <=> present[pg]
    BY <1>1, <2>1, <2>2 DEF TickMoves
  <2>4. dirty'[pg] <=> dirty[pg]
    BY <1>1, <2>1, <2>2 DEF TickMoves
  <2>5. present' \in [Pages -> BOOLEAN] /\ dirty' \in [Pages -> BOOLEAN]
    BY TickTypes DEF TableTypes
  <2> QED
    BY <2>1, <2>3, <2>4, <2>5
<1>5. \A i \in 1 .. Len(ioIn') : ioIn'[i].job \notin unsaved
  <2>1. Len(ioIn') = Len(inputs) - n /\ \A i \in 1 .. Len(ioIn') : ioIn'[i].job = inputs[n + i].job
    BY <1>1 DEF TickMoves
  <2>2. \A i \in 1 .. Len(ioIn') : n + i \in 1 .. Len(inputs)
    BY <1>3, <2>1
  <2> QED
    BY <1>2, <2>1, <2>2
<1>6. \A p \in Procs : ioWait'[p] \notin unsaved
  <2>1. NoPage \notin unsaved
    BY DEF RunTypes, Pages, Procs, NoPage, NoProc
  <2> QED
    BY <2>1, TickWaits DEF UnsavedKept
<1> QED
  BY <1>4, <1>5, <1>6 DEF UnsavedKept, InTlb, Page, Slots

LEMMA TickStep ==
  ASSUME IInv, Tick, pc # "resolve",
         UNCHANGED <<pageHist, mmuVars, pc, left, pending, schedVars, traceVars, setVars, histVars>>
  PROVE  IInv'
<1> USE DEF IInv, Types
<1>1. UNCHANGED <<frame, tlb, replaceIndex, curProc, pending, ready, running, blocked, line, quanta, cleaning,
                  unsaved, lost, left, pageHist, pc>>
  BY DEF Tick, mmuVars, schedVars, traceVars, setVars, histVars
<1>2. IoTypes' /\ TableTypes'
  BY <1>1, TickTypes
<1>3. RunTypes'
  BY <1>1 DEF RunTypes, Slots
<1>4. OnCpu'
  BY <1>1 DEF OnCpu
<1>5. EntriesAgree'
  BY <1>1 DEF EntriesAgree, Slots, Page
<1>6. Places'
  BY <1>1 DEF Places
<1>7. Inputting'
  BY <1>1, TickInputting
<1>8. UnsavedKept'
  BY <1>1, TickUnsaved
<1> QED
  BY <1>2, <1>3, <1>4, <1>5, <1>6, <1>7, <1>8

-----------------------------------------------------------------------------
(***************************************************************************)
(* The steps.                                                              *)
(***************************************************************************)
LEMMA UnchangedInputting ==
  ASSUME Inputting, UNCHANGED <<ioOut, ioIn, ioWait, finished, pending, blocked>>
  PROVE  Inputting'
<1>1. \A p : /\ Queued(p)' = Queued(p) /\ Ended(p)' = Ended(p) /\ Promised(p)' = Promised(p)
             /\ (Waiting(p)' <=> Waiting(p)) /\ (Asked(p)' <=> Asked(p))
             /\ (AskedToWait(p)' <=> AskedToWait(p))
             /\ \A q : ReleasesAt(p, q)' = ReleasesAt(p, q)
  BY DEF Queued, Ended, Waiting, Asked, AskedToWait, ReleasesAt, Promised
<1>2. ASSUME NEW p \in Procs PROVE OneInput(p)' /\ OneRelease(p)'
  <2>1. OneInput(p) /\ OneRelease(p)
    BY DEF Inputting
  <2> QED
    BY <1>1, <2>1 DEF OneInput, OneRelease
<1> QED
  BY <1>1, <1>2 DEF Inputting

\* The steps that touch neither tables nor queues.
LEMMA QuietStep ==
  ASSUME IInv,
         UNCHANGED <<frame, present, dirty, VC, pageHist, ioVars, pending, schedVars, tlb,
                     replaceIndex, curProc, quanta, cleaning, unsaved, lost>>,
         line' \in [Procs -> Lines], left' \in Nat \ {0},
         pc' \in InRun => pc \in InRun,
         pc' \in SyncedAt => pc \in SyncedAt,
         pc' = "resolve" => UNCHANGED <<pc, owed, line>>
  PROVE  IInv'
<1> USE DEF IInv, Types
<1>1. TableTypes' /\ IoTypes'
  BY DEF TableTypes, IoTypes, ioVars
<1>2. RunTypes'
  BY DEF RunTypes, Slots, schedVars
<1>3. OnCpu'
  BY DEF OnCpu, InRun, Hits, Slots, Wanted, Page, schedVars
<1>4. EntriesAgree'
  BY DEF EntriesAgree, Slots, Page
<1>5. Places'
  BY DEF Places, schedVars
<1>6. Inputting'
  BY UnchangedInputting DEF ioVars, schedVars
<1>7. UnsavedKept'
  BY DEF UnsavedKept, InTlb, Page, Slots, ioVars
<1> QED
  BY <1>1, <1>2, <1>3, <1>4, <1>5, <1>6, <1>7

LEMMA QuietActions ==
  ASSUME IInv,
         \/ Finish \/ Restart \/ ReadLine \/ EndOfData \/ FinishedQuanta \/ Misjudge
         \/ ResolveNone \/ ResolveUndefined \/ NothingToClean \/ ClearThrows
         \/ UNCHANGED vars
  PROVE  IInv'
<1> USE DEF ioVars, mmuVars, replaceVars, pageVars, schedVars, traceVars, setVars, histVars,
            runVars, reqVars, At, InRun, SyncedAt
<1>1. line \in [Procs -> Lines] /\ left \in Nat \ {0}
  BY DEF IInv, Types, RunTypes
<1>2. CASE Finish
  BY <1>1, <1>2, QuietStep DEF Finish
<1>3. CASE Restart
  BY <1>1, <1>3, QuietStep DEF Restart
<1>4. CASE ReadLine
  <2>1. line' \in [Procs -> Lines]
    <3>1. PICK ln \in Accesses : line' = [line EXCEPT ![running] = ln]
      BY <1>4 DEF ReadLine
    <3>2. ln \in Lines
      BY DEF Accesses, Line, Lines
    <3> QED
      BY <1>1, <3>1, <3>2
  <2> QED
    BY <1>1, <1>4, <2>1, QuietStep DEF ReadLine
<1>5. CASE EndOfData
  BY <1>1, <1>5, QuietStep DEF EndOfData
<1>6. CASE FinishedQuanta
  BY <1>1, <1>6, QuietStep DEF FinishedQuanta
<1>7. CASE Misjudge
  BY <1>1, <1>7, QuietStep DEF Misjudge
<1>8. CASE ResolveNone
  BY <1>1, <1>8, QuietStep DEF ResolveNone
<1>9. CASE ResolveUndefined
  BY <1>1, <1>9, QuietStep DEF ResolveUndefined
<1>10. CASE NothingToClean
  BY <1>1, <1>10, QuietStep DEF NothingToClean
<1>11. CASE ClearThrows
  BY <1>1, <1>11, QuietStep DEF ClearThrows
<1>12. CASE UNCHANGED vars
  BY <1>1, <1>12, QuietStep DEF vars
<1> QED
  BY <1>2, <1>3, <1>4, <1>5, <1>6, <1>7, <1>8, <1>9, <1>10, <1>11, <1>12

LEMMA TickActions ==
  ASSUME IInv, CpuTick \/ RequestTick \/ Idle
  PROVE  IInv'
<1>1. CASE CpuTick
  BY <1>1, TickStep DEF CpuTick, IInv, OnCpu, reqVars, replaceVars
<1>2. CASE RequestTick
  BY <1>2, TickStep DEF RequestTick, IInv, OnCpu, runVars, replaceVars
<1>3. CASE Idle
  BY <1>3, TickStep DEF Idle, At, runVars, reqVars, replaceVars
<1> QED
  BY <1>1, <1>2, <1>3

\* What is left to request after the first.
LEMMA PendingTail ==
  ASSUME IoTypes, Inputting, pending # <<>>, pending' = Tail(pending)
  PROVE  /\ pending[1] \in Requests /\ Head(pending) = pending[1]
         /\ pending' \in Seq(Requests)
         /\ \A i \in 1 .. Len(pending') : pending'[i].type = "out"
         /\ \A p : ~ Asked(p)'
         /\ \A p : /\ \A i \in Promised(p)' : i \in Nat /\ i >= 1 /\ i + 1 \in Promised(p)
                   /\ \A i \in Promised(p) :
                        i \in Nat /\ i >= 1 /\ (i > 1 => i - 1 \in Promised(p)')
                   /\ 1 \in Promised(p) <=> pending[1].release[1] = p
<1>1. /\ pending \in Seq(Requests) /\ Len(pending) \in Nat /\ Len(pending) >= 1
      /\ pending' \in Seq(Requests) /\ Len(pending') = Len(pending) - 1
      /\ \A i \in 1 .. Len(pending') : pending'[i] = pending[i + 1]
  BY HeadTailProperties, EmptySeq DEF IoTypes
<1>2. pending[1] \in Requests /\ Head(pending) = pending[1]
  BY <1>1, ElementOfSeq
<1>3. ASSUME NEW i \in 1 .. Len(pending') PROVE pending'[i].type = "out"
  <2>1. i + 1 \in 1 .. Len(pending) /\ i + 1 # 1 /\ pending'[i] = pending[i + 1]
    BY <1>1
  <2> QED
    BY <2>1 DEF Inputting
<1>4. ASSUME NEW p PROVE ~ Asked(p)'
  <2>1. pending' # <<>> => 1 \in 1 .. Len(pending')
    BY <1>1, EmptySeq
  <2> QED
    BY <1>3, <2>1 DEF Asked
<1>5. ASSUME NEW p, NEW i \in Promised(p)'
      PROVE  i \in Nat /\ i >= 1 /\ i + 1 \in Promised(p)
  <2>1. i \in 1 .. Len(pending') /\ pending'[i].release[1] = p
    BY DEF Promised
  <2>2. i + 1 \in 1 .. Len(pending) /\ pending'[i] = pending[i + 1]
    BY <1>1, <2>1
  <2> QED
    BY <2>1, <2>2 DEF Promised
<1>6. ASSUME NEW p, NEW i \in Promised(p)
      PROVE  i \in Nat /\ i >= 1 /\ (i > 1 => i - 1 \in Promised(p)')
  <2>1. i \in 1 .. Len(pending) /\ pending[i].release[1] = p
    BY DEF Promised
  <2>2. ASSUME i > 1 PROVE i - 1 \in 1 .. Len(pending') /\ (i - 1) + 1 = i
    BY <1>1, <2>1, <2>2
  <2>3. ASSUME i > 1 PROVE pending'[i - 1] = pending[i]
    BY <1>1, <2>2, <2>3
  <2> QED
    BY <2>1, <2>2, <2>3 DEF Promised
<1>7. ASSUME NEW p PROVE 1 \in Promised(p) <=> pending[1].release[1] = p
  BY <1>1 DEF Promised
<1> QED
  BY <1>1, <1>2, <1>3, <1>4, <1>5, <1>6, <1>7

LEMMA AppendParts ==
  ASSUME NEW S, NEW s \in Seq(S), NEW e \in S
  PROVE  /\ Append(s, e) \in Seq(S) /\ Len(Append(s, e)) = Len(s) + 1
         /\ \A i \in 1 .. Len(s) : Append(s, e)[i] = s[i]
         /\ Append(s, e)[Len(s) + 1] = e
OBVIOUS

LEMMA ScheduleInStep ==
  ASSUME IoTypes, VC \in Int, Inputting, pending # <<>>, pending' = Tail(pending),
         pending[1].type = "in", ScheduleIn(pending[1].page), blocked' = blocked
  PROVE  IoTypes' /\ Inputting'
<1> DEFINE pg  == pending[1].page
           ctx == Context(pg, ioIn, VC)
<1>1. pg \in Pages /\ pending[1].release = NoPage /\ pg[1] \in Procs
  <2>1. pending[1] \in Requests
    BY PendingTail
  <2>2. pending[1].release = NoPage
    <3>1. 1 \in 1 .. Len(pending)
      BY EmptySeq DEF IoTypes
    <3> QED
      BY <3>1 DEF Inputting
  <2> QED
    BY <2>1, <2>2 DEF Requests, Pages
<1>2. ctx \in Contexts(Pages) /\ ctx.job = pg
  <2>1. ioTime \in Int /\ ioIn \in Seq(Contexts(Pages))
    BY DEF IoTypes
  <2> HIDE DEF pg
  <2> QED
    BY <1>1, <2>1, ContextType
<1>3. ioIn' = Append(ioIn, ctx) /\ UNCHANGED <<ioOut, ioWait, finished, ioTime>>
  BY DEF ScheduleIn
<1> HIDE DEF ctx
<1>4. /\ ioIn' \in Seq(Contexts(Pages)) /\ Len(ioIn') = Len(ioIn) + 1 /\ Len(ioIn) \in Nat
      /\ \A i \in 1 .. Len(ioIn) : ioIn'[i] = ioIn[i]
      /\ ioIn'[Len(ioIn) + 1] = ctx
  BY <1>2, <1>3, AppendParts DEF IoTypes
<1>5. IoTypes'
  BY <1>3, <1>4, PendingTail DEF IoTypes
<1>15. \A p : Asked(p) <=> p = pg[1]
  BY DEF Asked
<1> HIDE DEF pg
<1>6. \A p : /\ Ended(p)' = Ended(p) /\ (Waiting(p)' <=> Waiting(p)) /\ ~ Asked(p)'
             /\ \A q : ReleasesAt(p, q)' = ReleasesAt(p, q)
  BY <1>3, PendingTail DEF Ended, Waiting, ReleasesAt
<1>7. ASSUME NEW p, p # pg[1]
      PROVE  Queued(p)' = Queued(p)
  BY <1>2, <1>4, <1>7 DEF Queued
<1>8. ASSUME NEW p, p = pg[1]
      PROVE  /\ \A i \in Queued(p)' : i \in Queued(p) \/ i = Len(ioIn) + 1
             /\ Len(ioIn) + 1 \in Queued(p)'
  BY <1>2, <1>4, <1>8 DEF Queued
<1>9. ASSUME NEW p \in Procs PROVE OneInput(p)'
  <2>1. OneInput(p)
    BY DEF Inputting
  <2>2. CASE p = pg[1]
    BY <1>6, <1>8, <1>15, <2>1, <2>2 DEF OneInput
  <2>3. CASE p # pg[1]
    BY <1>6, <1>7, <1>15, <2>1, <2>3 DEF OneInput
  <2> QED
    BY <2>2, <2>3
<1>10. ASSUME NEW p \in Procs PROVE OneRelease(p)'
  <2>1. OneRelease(p) /\ ~ AskedToWait(p)
    BY DEF Inputting, AskedToWait
  <2>2. 1 \notin Promised(p)
    BY <1>1, PendingTail DEF NoPage, NoProc, Procs
  <2>3. \A i, j \in Promised(p)' : i = j
    BY <2>1, PendingTail DEF OneRelease
  <2>4. Promised(p)' = {} <=> Promised(p) = {}
    BY <2>2, PendingTail
  <2>5. ~ AskedToWait(p)'
    BY <1>6 DEF AskedToWait
  <2> QED
    BY <1>6, <2>1, <2>3, <2>4, <2>5 DEF OneRelease
<1> QED
  BY <1>3, <1>5, <1>9, <1>10, PendingTail DEF Inputting, Waiting

LEMMA ScheduleWaitStep ==
  ASSUME IoTypes, Inputting, pending # <<>>, pending' = Tail(pending),
         pending[1].type = "wait", ScheduleWait(pending[1].page), blocked' = blocked
  PROVE  IoTypes' /\ Inputting'
<1> DEFINE pg == pending[1].page
<1>1. pg \in Pages /\ pending[1].release = NoPage /\ pg[1] \in Procs /\ pg # NoPage
  <2>1. pending[1] \in Requests
    BY PendingTail
  <2>2. pending[1].release = NoPage
    <3>1. 1 \in 1 .. Len(pending)
      BY EmptySeq DEF IoTypes
    <3> QED
      BY <3>1 DEF Inputting
  <2> QED
    BY <2>1, <2>2 DEF Requests, Pages, NoPage, NoProc, Procs
<1>2. ioWait' = [ioWait EXCEPT ![pg[1]] = pg] /\ UNCHANGED <<ioOut, ioIn, finished, ioTime>>
  BY DEF ScheduleWait
<1>3. \A p : (Asked(p) <=> p = pg[1]) /\ (AskedToWait(p) <=> p = pg[1])
  BY DEF Asked, AskedToWait
<1> HIDE DEF pg
<1>4. IoTypes'
  BY <1>1, <1>2, PendingTail DEF IoTypes
<1>5. \A p : /\ Ended(p)' = Ended(p) /\ Queued(p)' = Queued(p) /\ ~ Asked(p)'
             /\ \A q : ReleasesAt(p, q)' = ReleasesAt(p, q)
  BY <1>2, PendingTail DEF Ended, Queued, ReleasesAt
<1>6. ASSUME NEW p \in Procs
      PROVE  /\ p = pg[1] => Waiting(p)' /\ ioWait'[p] = pg
             /\ p # pg[1] => (Waiting(p)' <=> Waiting(p)) /\ ioWait'[p] = ioWait[p]
  BY <1>1, <1>2 DEF Waiting, IoTypes
<1>7. ASSUME NEW p \in Procs PROVE OneInput(p)'
  <2>1. OneInput(p)
    BY DEF Inputting
  <2> QED
    BY <1>3, <1>5, <1>6, <2>1 DEF OneInput
<1>8. ASSUME NEW p \in Procs PROVE OneRelease(p)'
  <2>1. OneRelease(p)
    BY DEF Inputting
  <2>2. 1 \notin Promised(p)
    BY <1>1, PendingTail DEF NoPage, NoProc, Procs
  <2>3. \A i, j \in Promised(p)' : i = j
    BY <2>1, PendingTail DEF OneRelease
  <2>4. Promised(p)' = {} <=> Promised(p) = {}
    BY <2>2, PendingTail
  <2>5. ~ AskedToWait(p)'
    BY <1>5 DEF AskedToWait
  <2> QED
    BY <1>3, <1>5, <1>6, <2>1, <2>3, <2>4, <2>5 DEF OneRelease
<1>9. \A p \in Procs : Waiting(p)' => ioWait'[p][1] = p
  BY <1>6 DEF Inputting
<1> QED
  BY <1>4, <1>7, <1>8, <1>9, PendingTail DEF Inputting

LEMMA ScheduleOutStep ==
  ASSUME IoTypes, VC \in Int, Inputting, pending # <<>>, pending' = Tail(pending),
         pending[1].type = "out", ScheduleOut(pending[1].page[1], pending[1].release),
         blocked' = blocked
  PROVE  IoTypes' /\ Inputting'
<1> DEFINE Jobs2 == Pages \cup {NoPage}
           pg    == pending[1].release
           q     == pending[1].page[1]
           ctx   == Context(pg, ioOut[q], VC)
<1>1. pg \in Jobs2 /\ q \in Procs
  <2>1. pending[1] \in Requests
    BY PendingTail
  <2> QED
    BY <2>1 DEF Requests, Pages
<1>2. ioOut' = [ioOut EXCEPT ![q] = Append(ioOut[q], ctx)]
      /\ UNCHANGED <<ioIn, ioWait, finished, ioTime>>
  BY DEF ScheduleOut
<1>3. \A p : ~ Asked(p) /\ ~ AskedToWait(p) /\ ~ Asked(p)' /\ ~ AskedToWait(p)'
  BY PendingTail DEF Asked, AskedToWait
<1>4. \A p : 1 \in Promised(p) <=> pg[1] = p
  BY PendingTail
<1>5. /\ ioTime \in Int /\ ioOut \in [Procs -> Seq(Contexts(Jobs2))]
      /\ ioOut[q] \in Seq(Contexts(Jobs2)) /\ Len(ioOut[q]) \in Nat
  <2>1. ioTime \in Int /\ ioOut \in [Procs -> Seq(Contexts(Jobs2))]
    BY DEF IoTypes
  <2> HIDE DEF q, Jobs2
  <2>2. ioOut[q] \in Seq(Contexts(Jobs2))
    BY <1>1, <2>1
  <2>3. Len(ioOut[q]) \in Nat
    BY <2>2, LenProperties
  <2> QED
    BY <2>1, <2>2, <2>3
<1>6. ctx \in Contexts(Jobs2) /\ ctx.job = pg
  <2> HIDE DEF pg, q, Jobs2
  <2> QED
    BY <1>1, <1>5, ContextType
<1> HIDE DEF ctx, pg, q
<1>7. /\ ioOut'[q] \in Seq(Contexts(Jobs2)) /\ Len(ioOut'[q]) = Len(ioOut[q]) + 1
      /\ \A i \in 1 .. Len(ioOut[q]) : ioOut'[q][i] = ioOut[q][i]
      /\ ioOut'[q][Len(ioOut[q]) + 1] = ctx
  <2>1. ioOut'[q] = Append(ioOut[q], ctx)
    BY <1>1, <1>2, <1>5
  <2> QED
    BY <1>5, <1>6, <2>1, AppendParts
<1>8. ioOut' \in [Procs -> Seq(Contexts(Jobs2))]
  <2>1. Append(ioOut[q], ctx) \in Seq(Contexts(Jobs2))
    BY <1>5, <1>6, AppendParts
  <2> QED
    BY <1>2, <1>5, <2>1
<1>9. IoTypes'
  BY <1>2, <1>8, PendingTail DEF IoTypes
<1>10. \A p : Ended(p)' = Ended(p) /\ Queued(p)' = Queued(p) /\ (Waiting(p)' <=> Waiting(p))
  BY <1>2 DEF Ended, Queued, Waiting
<1>11. ASSUME NEW p \in Procs, NEW r \in Procs
       PROVE  /\ r # q \/ p # pg[1] => ReleasesAt(p, r)' = ReleasesAt(p, r)
              /\ p = pg[1] /\ r = q =>
                   /\ Len(ioOut[q]) + 1 \in ReleasesAt(p, r)'
                   /\ \A i \in ReleasesAt(p, r)' : i \in ReleasesAt(p, r) \/ i = Len(ioOut[q]) + 1
  <2>1. CASE r # q
    BY <1>2, <1>5, <2>1 DEF ReleasesAt
  <2>2. CASE r = q
    <3>1. /\ ReleasesAt(p, r) = {i \in 1 .. Len(ioOut[q]) : ioOut[q][i].job[1] = p}
          /\ ReleasesAt(p, r)' = {i \in 1 .. Len(ioOut'[q]) : ioOut'[q][i].job[1] = p}
      BY <2>2 DEF ReleasesAt
    <3>2. /\ 1 .. Len(ioOut'[q]) = (1 .. Len(ioOut[q])) \cup {Len(ioOut[q]) + 1}
          /\ \A i \in 1 .. Len(ioOut[q]) : ioOut'[q][i] = ioOut[q][i]
          /\ ioOut'[q][Len(ioOut[q]) + 1].job = pg
      BY <1>5, <1>6, <1>7
    <3>3. CASE p # pg[1]
      BY <2>2, <3>1, <3>2, <3>3
    <3>4. CASE p = pg[1]
      BY <2>2, <3>1, <3>2, <3>4
    <3> QED
      BY <3>3, <3>4
  <2> QED
    BY <2>1, <2>2
<1>12. ASSUME NEW p \in Procs PROVE OneInput(p)'
  <2>1. OneInput(p)
    BY DEF Inputting
  <2> QED
    BY <1>3, <1>10, <2>1 DEF OneInput
<1>13. ASSUME NEW p \in Procs PROVE OneRelease(p)'
  <2>1. OneRelease(p)
    BY DEF Inputting
  <2>2. \A i, j \in Promised(p)' : i = j
    BY <2>1, PendingTail DEF OneRelease
  <2>3. CASE p = pg[1]
    <3>1. 1 \in Promised(p)
      BY <1>4, <2>3
    <3>2. Waiting(p) /\ \A r \in Procs : ReleasesAt(p, r) = {}
      BY <1>3, <2>1, <3>1 DEF OneRelease
    <3>3. Promised(p)' = {}
      <4>1. ASSUME NEW i \in Promised(p)' PROVE FALSE
        <5>1. i \in Nat /\ i >= 1 /\ i + 1 \in Promised(p)
          BY PendingTail
        <5>2. i + 1 = 1
          BY <2>1, <3>1, <5>1 DEF OneRelease
        <5> QED
          BY <5>1, <5>2
      <4> QED
        BY <4>1
    <3> QED
      BY <1>1, <1>3, <1>10, <1>11, <2>1, <2>3, <3>2, <3>3 DEF OneRelease
  <2>4. CASE p # pg[1]
    <3>1. 1 \notin Promised(p)
      BY <1>4, <2>4
    <3>2. Promised(p)' = {} <=> Promised(p) = {}
      BY <3>1, PendingTail
    <3> QED
      BY <1>3, <1>10, <1>11, <2>1, <2>2, <2>4, <3>2 DEF OneRelease
  <2> QED
    BY <2>3, <2>4
<1>14. \A p \in Procs : Waiting(p)' => ioWait'[p][1] = p
  BY <1>2, <1>10 DEF Inputting
<1> QED
  BY <1>9, <1>12, <1>13, <1>14, PendingTail DEF Inputting

LEMMA ScheduleStep ==
  ASSUME IInv, Schedule
  PROVE  IInv'
<1> USE DEF IInv, Types
<1>1. /\ pending # <<>> /\ pending' = Tail(pending) /\ Head(pending) = pending[1]
      /\ pending[1] \in Requests
      /\ UNCHANGED <<pageVars, VC, frameVars, mmuVars, replaceVars, runVars, schedVars,
                     traceVars, setVars, histVars>>
  BY PendingTail DEF Schedule
<1>2. \/ pending[1].type = "in" /\ ScheduleIn(pending[1].page)
      \/ pending[1].type = "wait" /\ ScheduleWait(pending[1].page)
      \/ pending[1].type = "out" /\ ScheduleOut(pending[1].page[1], pending[1].release)
  BY <1>1 DEF Schedule, Requests
<1>3. blocked' = blocked /\ VC \in Int
  BY <1>1 DEF schedVars, TableTypes
<1>4. IoTypes' /\ Inputting'
  BY <1>1, <1>2, <1>3, ScheduleInStep, ScheduleWaitStep, ScheduleOutStep
<1>5. TableTypes'
  BY <1>1 DEF TableTypes, pageVars, replaceVars
<1>6. RunTypes'
  BY <1>1 DEF RunTypes, Slots, schedVars, mmuVars, traceVars, setVars, runVars, histVars
<1>7. OnCpu'
  BY <1>1 DEF OnCpu, schedVars, mmuVars, runVars
<1>8. EntriesAgree'
  BY <1>1 DEF EntriesAgree, Slots, Page, mmuVars, pageVars
<1>9. Places'
  BY <1>1 DEF Places, schedVars
<1>10. /\ \A i \in 1 .. Len(ioIn') : ioIn'[i].job \notin unsaved
       /\ \A p \in Procs : ioWait'[p] \notin unsaved
  <2>1. CASE pending[1].type = "in" /\ ScheduleIn(pending[1].page)
    <3>1. pending[1].page \notin unsaved /\ pending[1].page \in Pages
      BY <1>1, <2>1 DEF UnsavedKept, Requests
    <3> DEFINE ctx == Context(pending[1].page, ioIn, VC)
    <3>2. ioTime \in Int /\ ioIn \in Seq(Contexts(Pages)) /\ VC \in Int
      BY DEF IoTypes, TableTypes
    <3>3. ctx \in Contexts(Pages) /\ ctx.job = pending[1].page
      BY <3>1, <3>2, ContextType
    <3>4. ioIn' = Append(ioIn, ctx) /\ ioWait' = ioWait
      BY <2>1 DEF ScheduleIn
    <3> HIDE DEF ctx
    <3>5. \A i \in 1 .. Len(ioIn') :
            ioIn'[i] = ctx \/ (i \in 1 .. Len(ioIn) /\ ioIn'[i] = ioIn[i])
      BY <3>2, <3>3, <3>4, AppendParts
    <3> QED
      BY <3>1, <3>3, <3>4, <3>5 DEF UnsavedKept
  <2>2. CASE pending[1].type = "wait" /\ ScheduleWait(pending[1].page)
    <3>1. pending[1].page \notin unsaved
      BY <1>1, <2>2 DEF UnsavedKept
    <3> QED
      BY <2>2, <3>1 DEF UnsavedKept, ScheduleWait, IoTypes
  <2>3. CASE pending[1].type = "out" /\ ScheduleOut(pending[1].page[1], pending[1].release)
    BY <2>3 DEF UnsavedKept, ScheduleOut
  <2> QED
    BY <1>2, <2>1, <2>2, <2>3
<1>11. pending' # <<>> => pending'[1].type = "out"
  <2>1. pending' \in Seq(Requests) /\ \A i \in 1 .. Len(pending') : pending'[i].type = "out"
    BY <1>1, PendingTail
  <2> QED
    BY <2>1, EmptySeq
<1>12. UnsavedKept'
  BY <1>1, <1>10, <1>11 DEF UnsavedKept, InTlb, Slots, Page, pageVars, mmuVars, histVars, runVars
<1> QED
  BY <1>4, <1>5, <1>6, <1>7, <1>8, <1>9, <1>12

-----------------------------------------------------------------------------
\* What syncTLB writes back: the page tables know of the writes the entries know of.
LEMMA SyncIs ==
  ASSUME NEW entries \in [Slots -> Entries], dirty \in [Pages -> BOOLEAN], SyncTLB(entries),
         \A i \in Slots : entries[i].valid => entries[i].ref
  PROVE  /\ dirty' \in [Pages -> BOOLEAN] /\ UNCHANGED <<frame, present, time>>
         /\ \A pg \in Pages :
              /\ \A i \in Slots :
                   entries[i].valid /\ Page(entries[i].vpn) = pg => entries[i].dirty
              /\ dirty[pg] \/ \E i \in Slots : entries[i].valid /\ Page(entries[i].vpn) = pg
              => dirty'[pg]
<1> DEFINE source == [pg \in Pages |->
                        IF SlotsOf(entries, pg) # {}
                        THEN entries[CHOOSE i \in SlotsOf(entries, pg) : TRUE]
                        ELSE [dirty |-> dirty[pg], ref |-> ref[pg],
                              timestamp |-> timestamp[pg]]]
<1>1. dirty' = [pg \in Pages |-> source[pg].dirty] /\ UNCHANGED <<frame, present, time>>
  BY DEF SyncTLB
<1>2. ASSUME NEW pg \in Pages, SlotsOf(entries, pg) # {}
      PROVE  \E i \in SlotsOf(entries, pg) : source[pg] = entries[i]
  BY <1>2
<1>3. ASSUME NEW pg \in Pages, SlotsOf(entries, pg) = {}
      PROVE  source[pg].dirty = dirty[pg]
  BY <1>3
<1>4. ASSUME NEW pg \in Pages, NEW i \in SlotsOf(entries, pg)
      PROVE  i \in Slots /\ entries[i].valid /\ Page(entries[i].vpn) = pg
             /\ entries[i].dirty \in BOOLEAN
  BY DEF SlotsOf, Marked, Entries
<1>5. ASSUME NEW pg \in Pages, NEW i \in Slots, entries[i].valid, Page(entries[i].vpn) = pg
      PROVE  i \in SlotsOf(entries, pg)
  BY <1>5 DEF SlotsOf, Marked, Entries
<1> HIDE DEF source
<1>6. ASSUME NEW pg \in Pages PROVE source[pg].dirty \in BOOLEAN
  BY <1>2, <1>3, <1>4
<1>7. ASSUME NEW pg \in Pages,
             \A i \in Slots : entries[i].valid /\ Page(entries[i].vpn) = pg => entries[i].dirty,
             dirty[pg] \/ \E i \in Slots : entries[i].valid /\ Page(entries[i].vpn) = pg
      PROVE  dirty'[pg]
  <2>1. source[pg].dirty
    <3>1. CASE SlotsOf(entries, pg) = {}
      BY <1>3, <1>5, <1>7, <3>1
    <3>2. CASE SlotsOf(entries, pg) # {}
      <4>1. PICK i \in SlotsOf(entries, pg) : source[pg] = entries[i]
        BY <1>2, <3>2
      <4> QED
        BY <1>4, <1>7, <4>1
    <3> QED
      BY <3>1, <3>2
  <2> QED
    BY <1>1, <2>1
<1> QED
  BY <1>1, <1>6, <1>7

LEMMA BlankType == Blank \in Entries
BY PageAssumption DEF Blank, Entries, VPNs

LEMMA DroppedIs ==
  ASSUME tlb \in [Slots -> Entries], NEW v
  PROVE  /\ Dropped(v) \in [Slots -> Entries]
         /\ \A i \in Slots : Dropped(v)[i].valid => Dropped(v)[i] = tlb[i] /\ tlb[i].vpn # v
         /\ \A i \in Slots : tlb[i].valid /\ tlb[i].vpn # v => Dropped(v)[i] = tlb[i]
<1>1. ASSUME NEW i \in Slots
      PROVE  Dropped(v)[i] = IF i \in Hits(v) THEN Blank ELSE tlb[i]
  BY DEF Dropped
<1>2. ASSUME NEW i \in Slots
      PROVE  /\ i \in Hits(v) <=> tlb[i].valid /\ tlb[i].vpn = v
             /\ tlb[i] \in Entries /\ tlb[i].valid \in BOOLEAN
  BY DEF Hits, Entries
<1>3. ~ Blank.valid
  BY DEF Blank
<1>4. Dropped(v) \in [Slots -> Entries]
  BY <1>2, BlankType DEF Dropped
<1> QED
  BY <1>1, <1>2, <1>3, <1>4

\* Whose page the line on the cpu is about.
LEMMA OnPage ==
  ASSUME Types, OnCpu, pc \in InRun
  PROVE  /\ running \in Procs /\ running = curProc /\ line[running] \in Lines
         /\ line[running].vpn \in VPNs /\ Wanted \in Pages
         /\ \A v \in VPNs : Page(v) \in Pages /\ Page(v)[1] = running
         /\ \A u, v : Page(u) = Page(v) => u = v
<1>1. running \in Procs /\ running = curProc
  BY DEF OnCpu
<1>2. line[running] \in Lines /\ line[running].vpn \in VPNs
  BY <1>1 DEF Types, RunTypes, Lines
<1> QED
  BY <1>1, <1>2 DEF Wanted, Page, Pages

LEMMA IllegalLineStep ==
  ASSUME IInv, IllegalLine
  PROVE  IInv'
<1> USE DEF IInv, Types, ioVars, mmuVars, replaceVars, pageVars, schedVars, reqVars, setVars, At
<1> DEFINE gone == {Page(tlb[i].vpn) : i \in {j \in Slots : tlb[j].valid}}
<1>1. /\ UNCHANGED <<frame, present, dirty, VC, pageHist, ioOut, ioIn, ioWait, finished, ioTime,
                     pending, ready, running, blocked, tlb, replaceIndex, curProc, quanta, cleaning,
                     left, lost>>
      /\ pc = "fetch" /\ pc' = "quantum" /\ unsaved' = unsaved \ gone
      /\ line' = [line EXCEPT ![running] = Line("illegal", 0, FALSE)]
  BY DEF IllegalLine
<1>2. TableTypes' /\ IoTypes'
  BY <1>1 DEF TableTypes, IoTypes
<1>3. RunTypes'
  <2>1. Line("illegal", 0, FALSE) \in Lines
    BY PageAssumption DEF Line, Lines, VPNs
  <2> QED
    BY <1>1, <2>1 DEF RunTypes, Slots
<1>4. OnCpu'
  BY <1>1 DEF OnCpu, InRun
<1>5. EntriesAgree'
  BY <1>1 DEF EntriesAgree, Slots, Page
<1>6. Places'
  BY <1>1 DEF Places
<1>7. Inputting'
  BY <1>1, UnchangedInputting
<1>8. UnsavedKept'
  <2>1. ASSUME NEW pg \in unsaved' PROVE pg \in unsaved /\ ~ InTlb(pg)
    BY <1>1 DEF InTlb
  <2>2. ASSUME NEW pg \in unsaved' PROVE dirty[pg] /\ ~ InTlb(pg)' /\ present[pg]
    BY <1>1, <2>1 DEF UnsavedKept, InTlb, Slots, Page
  <2> HIDE DEF gone
  <2> QED
    BY <1>1, <2>1, <2>2 DEF UnsavedKept, InTlb
<1> QED
  BY <1>2, <1>3, <1>4, <1>5, <1>6, <1>7, <1>8

LEMMA QuantumOverStep ==
  ASSUME IInv, QuantumOver
  PROVE  IInv'
<1> USE DEF IInv, Types, ioVars, mmuVars, replaceVars, schedVars, reqVars, setVars, traceVars,
            histVars, At
<1>1. /\ UNCHANGED <<VC, pageHist, ioOut, ioIn, ioWait, finished, ioTime, pending, ready, running,
                     blocked, tlb, replaceIndex, curProc, quanta, cleaning, left, lost, unsaved,
                     line>>
      /\ pc = "sync" /\ pc' = "quantum" /\ SyncTLB(tlb)
  BY DEF QuantumOver
<1>2. /\ dirty' \in [Pages -> BOOLEAN] /\ UNCHANGED <<frame, present>>
      /\ \A pg \in unsaved : dirty'[pg]
  <2>1. tlb \in [Slots -> Entries] /\ dirty \in [Pages -> BOOLEAN] /\ unsaved \subseteq Pages
    BY DEF RunTypes, TableTypes
  <2>2. \A i \in Slots : tlb[i].valid => tlb[i].ref
    BY DEF EntriesAgree
  <2> QED
    BY <1>1, <2>1, <2>2, SyncIs DEF UnsavedKept, InTlb
<1>3. TableTypes' /\ IoTypes'
  BY <1>1, <1>2 DEF TableTypes, IoTypes
<1>4. RunTypes'
  BY <1>1 DEF RunTypes, Slots
<1>5. OnCpu'
  BY <1>1 DEF OnCpu, InRun
<1>6. EntriesAgree'
  BY <1>1, <1>2 DEF EntriesAgree, Slots, Page
<1>7. Places'
  BY <1>1 DEF Places
<1>8. Inputting'
  BY <1>1, UnchangedInputting
<1>9. UnsavedKept'
  BY <1>1, <1>2 DEF UnsavedKept, Slots, Page
<1> QED
  BY <1>3, <1>4, <1>5, <1>6, <1>7, <1>8, <1>9

LEMMA PageFaultStep ==
  ASSUME IInv, PageFault
  PROVE  IInv'
<1> USE DEF IInv, Types, ioVars, replaceVars, schedVars, reqVars, setVars, histVars, At
<1> DEFINE v == line[running].vpn
<1>1. /\ UNCHANGED <<VC, pageHist, ioOut, ioIn, ioWait, finished, ioTime, pending, ready, running,
                     blocked, replaceIndex, curProc, quanta, cleaning, left, lost, unsaved, line,
                     owed>>
      /\ pc = "access" /\ pc' = "resolve" /\ owed = 0 /\ pending = <<>>
      /\ tlb' = Dropped(v) /\ SyncTLB(Dropped(v)) /\ ~ present[Page(v)]
  BY DEF PageFault, Fault
<1>2. /\ running \in Procs /\ running = curProc /\ v \in VPNs /\ Wanted = Page(v)
      /\ \A u, w : Page(u) = Page(w) => u = w
  BY <1>1, OnPage DEF InRun, Wanted
<1>3. /\ tlb \in [Slots -> Entries] /\ tlb' \in [Slots -> Entries] /\ Slots' = Slots
      /\ \A i \in Slots : tlb'[i].valid => tlb'[i] = tlb[i] /\ tlb[i].vpn # v
      /\ \A i \in Slots : tlb[i].valid /\ tlb[i].vpn # v => tlb'[i] = tlb[i]
  <2>1. tlb \in [Slots -> Entries]
    BY DEF RunTypes
  <2> HIDE DEF v
  <2>2. Slots' = Slots
    BY <1>1 DEF Slots, Dropped
  <2> QED
    BY <1>1, <2>1, <2>2, DroppedIs
<1> HIDE DEF v
<1>4. /\ dirty' \in [Pages -> BOOLEAN] /\ UNCHANGED <<frame, present>>
      /\ \A pg \in unsaved : dirty'[pg]
  <2>1. dirty \in [Pages -> BOOLEAN] /\ unsaved \subseteq Pages
    BY DEF RunTypes, TableTypes
  <2>2. \A i \in Slots : tlb'[i].valid => tlb'[i].ref
    BY <1>3 DEF EntriesAgree
  <2>3. ASSUME NEW pg \in unsaved, NEW i \in Slots, tlb'[i].valid, Page(tlb'[i].vpn) = pg
        PROVE  tlb'[i].dirty
    BY <1>3, <2>3 DEF UnsavedKept
  <2>4. ASSUME NEW pg \in unsaved, ~ dirty[pg]
        PROVE  \E i \in Slots : tlb'[i].valid /\ Page(tlb'[i].vpn) = pg
    <3>1. PICK i \in Slots : tlb[i].valid /\ Page(tlb[i].vpn) = pg
      BY <2>4 DEF UnsavedKept, InTlb
    <3>2. present[pg]
      BY DEF UnsavedKept
    <3>3. tlb[i].vpn # v
      BY <1>1, <3>1, <3>2
    <3> QED
      BY <1>3, <3>1, <3>3
  <2>5. SyncTLB(tlb')
    BY <1>1
  <2>6. dirty' \in [Pages -> BOOLEAN] /\ UNCHANGED <<frame, present, time>>
    BY <1>3, <2>1, <2>2, <2>5, SyncIs
  <2>7. ASSUME NEW pg \in unsaved PROVE dirty'[pg]
    BY <1>3, <2>1, <2>2, <2>3, <2>4, <2>5, SyncIs
  <2> QED
    BY <2>6, <2>7
<1>5. TableTypes' /\ IoTypes'
  BY <1>1, <1>4 DEF TableTypes, IoTypes
<1>6. RunTypes'
  BY <1>1, <1>3 DEF RunTypes
<1>7. OnCpu'
  <2>1. ~ \E i \in Slots : tlb'[i].valid /\ tlb'[i].vpn = v
    BY <1>1, <1>3
  <2>2. Hits(line[running].vpn)' = {}
    BY <1>1, <1>3, <2>1 DEF v, Hits
  <2>3. ~ present[Wanted]
    BY <1>1, <1>2
  <2> QED
    BY <1>1, <1>2, <1>4, <2>2, <2>3 DEF OnCpu, Wanted, Page
<1>8. EntriesAgree'
  <2>1. (\E n \in Nat \ {0} : Slots = 0 .. n - 1)' /\ replaceIndex' \in Slots'
    BY <1>1, <1>3 DEF EntriesAgree
  <2>2. \A i, j \in Slots :
          tlb'[i].valid /\ tlb'[j].valid /\ tlb'[i].vpn = tlb'[j].vpn => i = j
    BY <1>3 DEF EntriesAgree
  <2>3. \A i \in Slots :
          tlb'[i].valid => curProc \in Procs /\ tlb'[i].ref
                           /\ tlb'[i].frame = frame[Page(tlb'[i].vpn)]
    BY <1>3 DEF EntriesAgree
  <2> QED
    BY <1>1, <1>3, <1>4, <2>1, <2>2, <2>3 DEF EntriesAgree, Page
<1>9. Places'
  BY <1>1 DEF Places
<1>10. Inputting'
  BY <1>1, UnchangedInputting
<1>11. UnsavedKept'
  BY <1>1, <1>3, <1>4 DEF UnsavedKept, InTlb, Page
<1> QED
  BY <1>5, <1>6, <1>7, <1>8, <1>9, <1>10, <1>11

\* A process that can run has no input anywhere.
LEMMA NoInput ==
  ASSUME Inputting, NEW p \in Procs, p \notin blocked
  PROVE  /\ \A i \in 1 .. Len(ioIn) : ioIn[i].job[1] # p
         /\ \A i \in 1 .. Len(finished) : finished[i][1] # p
         /\ ioWait[p] = NoPage
         /\ \A q \in Procs : ReleasesAt(p, q) = {}
<1>1. OneInput(p) /\ OneRelease(p)
  BY DEF Inputting
<1>2. Queued(p) = {} /\ Ended(p) = {} /\ ~ Waiting(p)
  BY <1>1 DEF OneInput
<1>3. \A q \in Procs : ReleasesAt(p, q) = {}
  BY <1>1, <1>2 DEF OneRelease
<1> QED
  BY <1>2, <1>3 DEF Queued, Ended, Waiting

\* The ring of the TLB.
LEMMA RingIs ==
  ASSUME EntriesAgree
  PROVE  (replaceIndex + 1) % Cardinality(Slots) \in Slots
<1>1. PICK n \in Nat \ {0} : Slots = 0 .. n - 1
  BY DEF EntriesAgree
<1>2. Cardinality(0 .. n - 1) = n
  <2>1. 0 \in Int /\ n - 1 \in Int
    BY <1>1
  <2>2. Cardinality(0 .. n - 1) = IF 0 > n - 1 THEN 0 ELSE (n - 1) - 0 + 1
    BY <2>1, FS_Interval
  <2> QED
    BY <1>1, <2>2
<1>3. replaceIndex \in 0 .. n - 1
  BY <1>1 DEF EntriesAgree
<1>4. (replaceIndex + 1) % n \in 0 .. n - 1
  BY <1>1, <1>3
<1> QED
  BY <1>1, <1>2, <1>4

\* The two ways to an entry that knows of the access.
AccessSlot(k, v, isWrite) ==
  /\ k \in Slots /\ Slots' = Slots
  /\ tlb' \in [Slots -> Entries]
  /\ \A i \in Slots : i # k => tlb'[i] = tlb[i] /\ (tlb[i].valid => tlb[i].vpn # v)
  /\ tlb'[k].valid /\ tlb'[k].vpn = v /\ tlb'[k].ref /\ tlb'[k].dirty = isWrite
  /\ tlb'[k].frame = frame[Page(v)]
  /\ replaceIndex' \in Slots
  /\ dirty' \in [Pages -> BOOLEAN]
  /\ \A pg \in Pages :
       \/ dirty'[pg] = dirty[pg]
             /\ (tlb[k].valid /\ Page(tlb[k].vpn) = pg => pg = Page(v))
       \/ tlb[k].valid /\ Page(tlb[k].vpn) = pg /\ dirty'[pg] = tlb[k].dirty

LEMMA HitSlot ==
  ASSUME Types, EntriesAgree, NEW v \in VPNs, NEW isWrite \in BOOLEAN,
         NEW i \in Hits(v), tlb' = [tlb EXCEPT ![i] = HitEntry(i, isWrite)],
         UNCHANGED <<replaceIndex, dirty>>
  PROVE  AccessSlot(i, v, isWrite)
<1> USE DEF Types
<1>1. i \in Slots /\ tlb[i].valid /\ tlb[i].vpn = v /\ tlb[i] \in Entries
  BY DEF Hits, RunTypes
<1>2. Slots' = Slots
  BY DEF Slots
<1>3. /\ HitEntry(i, isWrite) \in Entries /\ HitEntry(i, isWrite).valid
      /\ HitEntry(i, isWrite).vpn = v /\ HitEntry(i, isWrite).ref
      /\ HitEntry(i, isWrite).dirty = isWrite /\ HitEntry(i, isWrite).frame = tlb[i].frame
  BY <1>1 DEF HitEntry, Entries, TableTypes
<1>4. tlb' \in [Slots -> Entries] /\ tlb'[i] = HitEntry(i, isWrite)
      /\ \A j \in Slots : j # i => tlb'[j] = tlb[j]
  BY <1>1, <1>3 DEF RunTypes
<1>5. \A j \in Slots : j # i /\ tlb[j].valid => tlb[j].vpn # v
  BY <1>1 DEF EntriesAgree
<1>6. tlb[i].frame = frame[Page(v)] /\ replaceIndex' \in Slots
  BY <1>1 DEF EntriesAgree
<1>7. dirty' \in [Pages -> BOOLEAN]
  BY DEF TableTypes
<1> QED
  BY <1>1, <1>2, <1>3, <1>4, <1>5, <1>6, <1>7 DEF AccessSlot

LEMMA WalkSlot ==
  ASSUME Types, EntriesAgree, NEW v \in VPNs, curProc \in Procs, NEW isWrite \in BOOLEAN,
         Hits(v) = {}, AddTLB(v, isWrite)
  PROVE  AccessSlot(replaceIndex, v, isWrite)
<1> USE DEF Types
<1> DEFINE k   == replaceIndex
           new == [valid |-> TRUE, vpn |-> v, frame |-> frame[Page(v)],
                   dirty |-> isWrite, ref |-> TRUE, timestamp |-> VC]
<1>1. k \in Slots /\ tlb[k] \in Entries /\ tlb[k].valid \in BOOLEAN /\ tlb[k].dirty \in BOOLEAN
  BY DEF EntriesAgree, RunTypes, Entries
<1>2. tlb' = [tlb EXCEPT ![k] = new] /\ replaceIndex' = (replaceIndex + 1) % Cardinality(Slots)
      /\ dirty' = IF tlb[k].valid THEN [dirty EXCEPT ![Page(tlb[k].vpn)] = tlb[k].dirty] ELSE dirty
  BY DEF AddTLB
<1>3. Slots' = Slots
  BY <1>2 DEF Slots
<1>4. new \in Entries
  <2>1. Page(v) \in Pages
    BY DEF Page, Pages
  <2> QED
    BY <2>1 DEF Entries, TableTypes
<1>5. tlb' \in [Slots -> Entries] /\ tlb'[k] = new /\ \A i \in Slots : i # k => tlb'[i] = tlb[i]
  BY <1>1, <1>2, <1>4 DEF RunTypes
<1>6. \A i \in Slots : tlb[i].valid => tlb[i].vpn # v
  BY DEF Hits
<1>7. replaceIndex' \in Slots
  BY <1>2, RingIs
<1>8. Page(tlb[k].vpn) \in Pages
  BY <1>1 DEF Page, Pages, Entries
<1>9. dirty' \in [Pages -> BOOLEAN]
  BY <1>1, <1>2, <1>8 DEF TableTypes
<1>10. ASSUME NEW pg \in Pages
       PROVE  \/ dirty'[pg] = dirty[pg] /\ (tlb[k].valid /\ Page(tlb[k].vpn) = pg => pg = Page(v))
              \/ tlb[k].valid /\ Page(tlb[k].vpn) = pg /\ dirty'[pg] = tlb[k].dirty
  <2>1. CASE tlb[k].valid /\ Page(tlb[k].vpn) = pg
    BY <1>2, <1>8, <2>1 DEF TableTypes
  <2>2. CASE ~ (tlb[k].valid /\ Page(tlb[k].vpn) = pg)
    BY <1>2, <1>8, <2>2 DEF TableTypes
  <2> QED
    BY <2>1, <2>2
<1> QED
  BY <1>1, <1>3, <1>5, <1>6, <1>7, <1>9, <1>10 DEF AccessSlot

LEMMA AccessStep ==
  ASSUME IInv, Access
  PROVE  IInv'
<1> USE DEF IInv, Types, ioVars, replaceVars, schedVars, reqVars, setVars, traceVars, At
<1> DEFINE v == line[running].vpn
           w == line[running].op = "W"
<1>1. /\ UNCHANGED <<frame, present, VC, pageHist, ioOut, ioIn, ioWait, finished, ioTime, pending,
                     ready, running, blocked, curProc, quanta, cleaning, lost, line>>
      /\ pc = "access" /\ pending = <<>> /\ present[Page(v)]
      /\ unsaved' = IF w THEN unsaved \cup {Page(v)} ELSE unsaved \ {Page(v)}
  BY DEF Access, TlbHit, PageWalk, AddTLB, pageVars
<1>2. /\ running \in Procs /\ running = curProc /\ v \in VPNs /\ Page(v) \in Pages
      /\ Page(v)[1] = running /\ \A x, y : Page(x) = Page(y) => x = y
  BY <1>1, OnPage DEF InRun
<1>3. w \in BOOLEAN
  OBVIOUS
<1>4. pc' \in {"ended", "sync", "fetch"} /\ left' \in Nat \ {0}
  <2>1. left \in Nat \ {0} /\ line[running].last \in BOOLEAN
    BY <1>2 DEF RunTypes, Lines
  <2>2. /\ pc' = CASE line[running].last -> "ended"
                   [] ~ line[running].last /\ left = 1 -> "sync"
                   [] ~ line[running].last /\ left > 1 -> "fetch"
        /\ left' = IF pc' = "fetch" THEN left - 1 ELSE left
    BY DEF Access
  <2>3. CASE line[running].last
    BY <2>1, <2>2, <2>3
  <2>4. CASE ~ line[running].last /\ left = 1
    BY <2>1, <2>2, <2>4
  <2>5. CASE ~ line[running].last /\ left > 1
    BY <2>1, <2>2, <2>5
  <2> QED
    BY <2>1, <2>3, <2>4, <2>5
<1>5. TlbHit(v, w) \/ PageWalk(v, w)
  BY DEF Access
<1> HIDE DEF v, w
<1>6. PICK k : AccessSlot(k, v, w)
  <2>1. CASE TlbHit(v, w)
    <3>1. PICK i \in Hits(v) : tlb' = [tlb EXCEPT ![i] = HitEntry(i, w)]
      BY <2>1 DEF TlbHit
    <3>2. UNCHANGED <<replaceIndex, dirty>>
      BY <2>1 DEF TlbHit, pageVars
    <3> QED
      BY <1>2, <1>3, <3>1, <3>2, HitSlot
  <2>2. CASE PageWalk(v, w)
    <3>1. Hits(v) = {} /\ AddTLB(v, w)
      BY <2>2 DEF PageWalk
    <3> QED
      BY <1>2, <1>3, <3>1, WalkSlot
  <2> QED
    BY <1>5, <2>1, <2>2
<1>7. TableTypes' /\ IoTypes'
  BY <1>1, <1>6 DEF AccessSlot, TableTypes, IoTypes
<1>8. RunTypes'
  BY <1>1, <1>2, <1>4, <1>6 DEF AccessSlot, RunTypes
<1>9. OnCpu'
  BY <1>1, <1>2, <1>4 DEF OnCpu
<1>10. EntriesAgree'
  <2>1. (\E n \in Nat \ {0} : Slots = 0 .. n - 1)' /\ replaceIndex' \in Slots'
    BY <1>6 DEF EntriesAgree, AccessSlot
  <2>2. \A i, j \in Slots :
          tlb'[i].valid /\ tlb'[j].valid /\ tlb'[i].vpn = tlb'[j].vpn => i = j
    BY <1>6 DEF EntriesAgree, AccessSlot
  <2>3. \A i \in Slots :
          tlb'[i].valid => curProc \in Procs /\ tlb'[i].ref
                           /\ tlb'[i].frame = frame[Page(tlb'[i].vpn)]
    BY <1>2, <1>6 DEF EntriesAgree, AccessSlot
  <2> QED
    BY <1>1, <1>6, <2>1, <2>2, <2>3 DEF EntriesAgree, Page, AccessSlot
<1>11. Places'
  BY <1>1 DEF Places
<1>12. Inputting'
  BY <1>1, UnchangedInputting
<1>13. UnsavedKept'
  <2>1. running \notin blocked /\ unsaved \subseteq Pages
    BY DEF Places, RunTypes
  <2>2. /\ \A i \in 1 .. Len(ioIn) : ioIn[i].job # Page(v)
        /\ \A p \in Procs : ioWait[p] # Page(v)
    <3>1. \A i \in 1 .. Len(ioIn) : ioIn[i].job # Page(v)
      BY <1>2, <2>1, NoInput
    <3>2. ASSUME NEW p \in Procs, ioWait[p] = Page(v) PROVE FALSE
      <4>1. Page(v) # NoPage
        BY <1>2 DEF Pages, NoPage, NoProc, Procs
      <4>2. ioWait[p][1] = p /\ p = running
        BY <1>2, <3>2, <4>1 DEF Inputting, Waiting
      <4> QED
        BY <1>2, <2>1, <3>2, <4>1, <4>2, NoInput
    <3> QED
      BY <3>1, <3>2
  <2>3. ASSUME NEW pg \in unsaved'
        PROVE  /\ present[pg]
               /\ \A i \in Slots : tlb'[i].valid /\ Page(tlb'[i].vpn) = pg => tlb'[i].dirty
               /\ dirty'[pg] \/ \E i \in Slots : tlb'[i].valid /\ Page(tlb'[i].vpn) = pg
    <3>1. CASE pg = Page(v)
      <4>1. w
        BY <1>1, <3>1
      <4>2. ASSUME NEW i \in Slots, tlb'[i].valid, Page(tlb'[i].vpn) = pg PROVE i = k
        BY <1>2, <1>6, <3>1, <4>2 DEF AccessSlot
      <4> QED
        BY <1>1, <1>6, <3>1, <4>1, <4>2 DEF AccessSlot
    <3>2. CASE pg # Page(v)
      <4>1. pg \in unsaved /\ pg \in Pages
        BY <1>1, <2>1, <3>2
      <4>2. ASSUME NEW i \in Slots, tlb'[i].valid, Page(tlb'[i].vpn) = pg
            PROVE  i # k /\ tlb'[i] = tlb[i]
        BY <1>6, <3>2, <4>2 DEF AccessSlot
      <4>3. \A i \in Slots : tlb'[i].valid /\ Page(tlb'[i].vpn) = pg => tlb'[i].dirty
        BY <4>1, <4>2 DEF UnsavedKept
      <4>4. CASE tlb[k].valid /\ Page(tlb[k].vpn) = pg
        BY <1>6, <3>2, <4>1, <4>3, <4>4 DEF AccessSlot, UnsavedKept
      <4>5. CASE ~ (tlb[k].valid /\ Page(tlb[k].vpn) = pg)
        <5>1. dirty'[pg] = dirty[pg]
          BY <1>6, <4>1, <4>5 DEF AccessSlot
        <5>2. ASSUME NEW i \in Slots, tlb[i].valid, Page(tlb[i].vpn) = pg
              PROVE  tlb'[i] = tlb[i]
          BY <1>6, <4>5, <5>2 DEF AccessSlot
        <5> QED
          BY <4>1, <4>3, <5>1, <5>2 DEF UnsavedKept, InTlb
      <4> QED
        BY <4>4, <4>5
    <3> QED
      BY <3>1, <3>2
  <2>4. pc' \notin SyncedAt
    BY <1>4 DEF SyncedAt
  <2>5. Slots' = Slots
    BY <1>6 DEF AccessSlot
  <2>6. \A pg \in unsaved' : pg \in unsaved \/ pg = Page(v)
    BY <1>1
  <2>7. /\ \A i \in 1 .. Len(ioIn) : ioIn[i].job \notin unsaved'
        /\ \A p \in Procs : ioWait[p] \notin unsaved'
    BY <2>2, <2>6 DEF UnsavedKept
  <2>8. ~ lost' /\ pending' = <<>>
    BY <1>1 DEF UnsavedKept
  <2> QED
    BY <1>1, <2>3, <2>4, <2>5, <2>7, <2>8 DEF UnsavedKept, InTlb, Page
<1> QED
  BY <1>7, <1>8, <1>9, <1>10, <1>11, <1>12, <1>13

LEMMA TerminateStep ==
  ASSUME IInv, Terminate
  PROVE  IInv'
<1> USE DEF IInv, Types, ioVars, mmuVars, replaceVars, reqVars, setVars, traceVars, At
<1> DEFINE held == {pg \in PagesOf(running) : present[pg]}
<1>1. /\ UNCHANGED <<frame, dirty, VC, pageHist, ioOut, ioIn, ioWait, finished, ioTime, pending,
                     ready, blocked, tlb, replaceIndex, curProc, quanta, cleaning, left, lost, line>>
      /\ pc = "ended" /\ pc' = "clean" /\ pending = <<>> /\ running' = NoProc
      /\ present' = [pg \in Pages |-> present[pg] /\ pg \notin held]
      /\ unsaved' = unsaved \ held
  BY DEF Terminate, CleanupProcess
<1>2. running \in Procs /\ running = curProc
  BY <1>1 DEF OnCpu, InRun
<1>3. TableTypes' /\ IoTypes'
  BY <1>1 DEF TableTypes, IoTypes
<1>4. RunTypes'
  BY <1>1 DEF RunTypes, Slots
<1>5. OnCpu'
  BY <1>1 DEF OnCpu, InRun
<1>6. EntriesAgree'
  BY <1>1 DEF EntriesAgree, Slots, Page
<1>7. Places'
  <2>1. NoProc \notin Procs
    BY DEF NoProc, Procs
  <2>2. \A i \in 1 .. Len(ready) : ready[i] \in Procs
    BY ElementOfSeq DEF RunTypes
  <2> QED
    BY <1>1, <2>1, <2>2 DEF Places, RunTypes
<1>8. Inputting'
  BY <1>1, UnchangedInputting
<1>9. UnsavedKept'
  <2>1. ASSUME NEW pg \in unsaved'
        PROVE  /\ pg \in unsaved /\ pg \in Pages /\ present'[pg] /\ dirty[pg]
    <3>1. pg \in unsaved /\ pg \in Pages /\ present[pg] /\ pg \notin held
      BY <1>1 DEF UnsavedKept, RunTypes
    <3>2. pg \notin PagesOf(running)
      BY <3>1
    <3>3. ASSUME NEW i \in Slots, tlb[i].valid, Page(tlb[i].vpn) = pg PROVE FALSE
      BY <1>2, <3>2, <3>3 DEF RunTypes, Entries, Page, PagesOf
    <3> QED
      BY <1>1, <3>1, <3>3 DEF UnsavedKept, InTlb
  <2> HIDE DEF held
  <2> QED
    BY <1>1, <2>1 DEF UnsavedKept, InTlb, Slots, Page
<1> QED
  BY <1>3, <1>4, <1>5, <1>6, <1>7, <1>8, <1>9

\* Who may be dispatched.
LEMMA QueueIs ==
  ASSUME Types, Places
  PROVE  /\ Queue \in Seq(Procs)
         /\ \A i, j \in 1 .. Len(Queue) : Queue[i] = Queue[j] => i = j
         /\ \A i \in 1 .. Len(Queue) : Queue[i] \notin blocked
<1> USE DEF Types
<1>1. CASE running = NoProc
  BY <1>1 DEF Queue, Places, RunTypes
<1>2. CASE running # NoProc
  <2>1. ready \in Seq(Procs) /\ running \in Procs
    BY <1>2 DEF RunTypes
  <2>2. Queue = Append(ready, running)
    BY <1>2 DEF Queue
  <2>3. Len(ready) \in Nat
    BY <2>1
  <2>4. /\ Queue \in Seq(Procs) /\ Len(Queue) = Len(ready) + 1
        /\ \A i \in 1 .. Len(ready) : Queue[i] = ready[i]
        /\ Queue[Len(ready) + 1] = running
    BY <2>1, <2>2, AppendParts
  <2>5. ASSUME NEW i \in 1 .. Len(Queue)
        PROVE  i \in 1 .. Len(ready) \/ i = Len(ready) + 1
    BY <2>3, <2>4
  <2> QED
    BY <2>4, <2>5 DEF Places
<1> QED
  BY <1>1, <1>2

LEMMA DispatchStep ==
  ASSUME IInv, Dispatch
  PROVE  IInv'
<1> USE DEF IInv, Types, ioVars, replaceVars, reqVars, setVars, traceVars, histVars, At
<1> DEFINE p == Head(Queue)
<1>1. /\ UNCHANGED <<VC, pageHist, ioOut, ioIn, ioWait, finished, ioTime, pending, blocked,
                     quanta, cleaning, lost, unsaved, line>>
      /\ Queue # <<>> /\ running' = p /\ ready' = Tail(Queue)
      /\ left' = quanta /\ pc = "loop" /\ pc' = "fetch" /\ pending = <<>>
  BY DEF Dispatch
<1>2. /\ Queue \in Seq(Procs) /\ Len(Queue) \in Nat /\ Len(Queue) >= 1
      /\ p = Queue[1] /\ p \in Procs /\ p \notin blocked
      /\ ready' \in Seq(Procs) /\ Len(ready') = Len(Queue) - 1
      /\ \A i \in 1 .. Len(ready') : ready'[i] = Queue[i + 1]
  BY <1>1, QueueIs, HeadTailProperties, EmptySeq
<1>3. ASSUME NEW i \in 1 .. Len(ready')
      PROVE  i + 1 \in 1 .. Len(Queue) /\ i + 1 # 1 /\ ready'[i] = Queue[i + 1]
  BY <1>2
<1>4. Places'
  <2>1. \A i, j \in 1 .. Len(ready') : ready'[i] = ready'[j] => i = j
    <3>1. ASSUME NEW i \in 1 .. Len(ready'), NEW j \in 1 .. Len(ready'), ready'[i] = ready'[j]
          PROVE  i + 1 = j + 1 /\ i \in Int /\ j \in Int
      BY <1>3, <3>1, QueueIs
    <3> QED
      BY <3>1
  <2>2. \A i \in 1 .. Len(ready') : ready'[i] # p /\ ready'[i] \notin blocked
    <3>1. 1 \in 1 .. Len(Queue)
      BY <1>2
    <3> QED
      BY <1>2, <1>3, <3>1, QueueIs
  <2> QED
    BY <1>1, <1>2, <2>1, <2>2 DEF Places
<1>5. SwitchProc(p)
  BY DEF Dispatch
<1> HIDE DEF p
<1>6. IoTypes'
  BY <1>1 DEF IoTypes
<1>7. Inputting'
  BY <1>1, UnchangedInputting
<1>8. CASE p = curProc
  <2>1. UNCHANGED <<tlb, replaceIndex, curProc, frame, present, dirty>>
    BY <1>5, <1>8 DEF SwitchProc, mmuVars, pageVars
  <2>2. TableTypes'
    BY <1>1, <2>1 DEF TableTypes
  <2>3. RunTypes'
    BY <1>1, <1>2, <2>1 DEF RunTypes, Slots
  <2>4. OnCpu'
    BY <1>1, <1>2, <1>8, <2>1 DEF OnCpu
  <2>5. EntriesAgree'
    BY <2>1 DEF EntriesAgree, Slots, Page
  <2>6. UnsavedKept'
    BY <1>1, <2>1 DEF UnsavedKept, InTlb, Slots, Page, SyncedAt
  <2> QED
    BY <1>4, <1>6, <1>7, <2>2, <2>3, <2>4, <2>5, <2>6
<1>9. CASE p # curProc
  <2>1. SyncTLB(tlb) /\ tlb' = [i \in Slots |-> Blank] /\ replaceIndex' = 0 /\ curProc' = p
    BY <1>5, <1>9 DEF SwitchProc, FlushTLB
  <2>2. Slots' = Slots
    BY <2>1 DEF Slots
  <2>3. \A i \in Slots : ~ tlb'[i].valid
    BY <2>1 DEF Blank
  <2>4. /\ dirty' \in [Pages -> BOOLEAN] /\ UNCHANGED <<frame, present>>
        /\ \A pg \in unsaved : dirty'[pg]
    <3>1. tlb \in [Slots -> Entries] /\ dirty \in [Pages -> BOOLEAN] /\ unsaved \subseteq Pages
      BY DEF RunTypes, TableTypes
    <3>2. \A i \in Slots : tlb[i].valid => tlb[i].ref
      BY DEF EntriesAgree
    <3> QED
      BY <2>1, <3>1, <3>2, SyncIs DEF UnsavedKept, InTlb
  <2>5. TableTypes'
    BY <1>1, <2>4 DEF TableTypes
  <2>6. RunTypes'
    <3>1. tlb' \in [Slots -> Entries]
      BY <2>1, BlankType
    <3> QED
      BY <1>1, <1>2, <2>1, <2>2, <3>1 DEF RunTypes
  <2>7. OnCpu'
    BY <1>1, <1>2, <2>1 DEF OnCpu
  <2>8. EntriesAgree'
    <3>1. PICK n \in Nat \ {0} : Slots = 0 .. n - 1
      BY DEF EntriesAgree
    <3>2. 0 \in Slots
      BY <3>1
    <3> QED
      BY <2>1, <2>2, <2>3, <3>1, <3>2 DEF EntriesAgree
  <2>9. UnsavedKept'
    BY <1>1, <2>2, <2>3, <2>4 DEF UnsavedKept
  <2> QED
    BY <1>4, <1>6, <1>7, <2>5, <2>6, <2>7, <2>8, <2>9
<1> QED
  BY <1>8, <1>9

LEMMA DeliverStep ==
  ASSUME IInv, Deliver
  PROVE  IInv'
<1> USE DEF IInv, Types, ioVars, mmuVars, replaceVars, reqVars, setVars, traceVars, histVars,
            pageVars, runVars, At
<1> DEFINE pg == Head(finished)
           p  == pg[1]
<1>1. /\ UNCHANGED <<frame, present, dirty, VC, ioOut, ioIn, ioWait, ioTime, pending, running, tlb,
                     replaceIndex, curProc, quanta, cleaning, left, lost, unsaved, line, pc>>
      /\ finished # <<>> /\ finished' = Tail(finished) /\ pc = "loop" /\ pending = <<>>
      /\ ready' = Append(ready, p) /\ blocked' = blocked \ {p}
      /\ pageHist' = Append(pageHist, pg)
  BY DEF Deliver, UnblockProcess, FinishedIO
<1>2. /\ finished \in Seq(Pages) /\ Len(finished) \in Nat /\ Len(finished) >= 1
      /\ pg = finished[1] /\ pg \in Pages
      /\ finished' \in Seq(Pages) /\ Len(finished') = Len(finished) - 1
      /\ \A i \in 1 .. Len(finished') : finished'[i] = finished[i + 1]
  BY <1>1, HeadTailProperties, EmptySeq DEF IoTypes
<1>3. p \in Procs
  BY <1>2 DEF Pages
<1>4. 1 \in Ended(p)
  BY <1>2 DEF Ended
<1>5. OneInput(p) /\ OneRelease(p)
  BY <1>3 DEF Inputting
<1>6. p \in blocked /\ Queued(p) = {} /\ ~ Waiting(p) /\ ~ Asked(p)
  BY <1>4, <1>5 DEF OneInput
<1> HIDE DEF pg, p
<1>7. /\ ready' \in Seq(Procs) /\ Len(ready') = Len(ready) + 1 /\ Len(ready) \in Nat
      /\ \A i \in 1 .. Len(ready) : ready'[i] = ready[i]
      /\ ready'[Len(ready) + 1] = p
  BY <1>1, <1>3, AppendParts DEF RunTypes
<1>8. TableTypes'
  BY <1>1, <1>2, AppendParts DEF TableTypes
<1>9. IoTypes'
  BY <1>1, <1>2 DEF IoTypes
<1>10. RunTypes'
  BY <1>1, <1>7 DEF RunTypes, Slots
<1>11. OnCpu'
  BY <1>1 DEF OnCpu, InRun
<1>12. EntriesAgree'
  BY <1>1 DEF EntriesAgree, Slots, Page
<1>13. Places'
  <2>1. ASSUME NEW i \in 1 .. Len(ready')
        PROVE  (i \in 1 .. Len(ready) /\ ready'[i] = ready[i]) \/ (i = Len(ready) + 1 /\ ready'[i] = p)
    BY <1>7
  <2>2. \A i \in 1 .. Len(ready) : ready[i] # p
    BY <1>6 DEF Places
  <2>3. running # p
    BY <1>6 DEF Places
  <2> QED
    BY <1>1, <2>1, <2>2, <2>3 DEF Places
<1>14. \A r : /\ Queued(r)' = Queued(r) /\ Promised(r)' = Promised(r)
              /\ (Waiting(r)' <=> Waiting(r)) /\ (Asked(r)' <=> Asked(r))
              /\ (AskedToWait(r)' <=> AskedToWait(r))
              /\ \A q : ReleasesAt(r, q)' = ReleasesAt(r, q)
  BY <1>1 DEF Queued, Waiting, Asked, AskedToWait, ReleasesAt, Promised
<1>15. ASSUME NEW r
       PROVE  /\ \A i \in Ended(r)' : i \in Int /\ i >= 1 /\ i + 1 \in Ended(r)
              /\ \A i \in Ended(r) : i \in Int /\ (i # 1 => i - 1 \in Ended(r)')
              /\ 1 \in Ended(r) <=> r = p
  <2>1. ASSUME NEW i \in Ended(r)' PROVE i \in Int /\ i >= 1 /\ i + 1 \in Ended(r)
    <3>1. i \in 1 .. Len(finished') /\ finished'[i][1] = r
      BY DEF Ended
    <3>2. i + 1 \in 1 .. Len(finished) /\ finished'[i] = finished[i + 1]
      BY <1>2, <3>1
    <3> QED
      BY <3>1, <3>2 DEF Ended
  <2>2. ASSUME NEW i \in Ended(r) PROVE i \in Int /\ (i # 1 => i - 1 \in Ended(r)')
    <3>1. i \in 1 .. Len(finished) /\ finished[i][1] = r
      BY DEF Ended
    <3>2. ASSUME i # 1 PROVE i - 1 \in 1 .. Len(finished') /\ i - 1 + 1 = i
      BY <1>2, <3>1, <3>2
    <3>3. ASSUME i # 1 PROVE finished'[i - 1] = finished[i]
      BY <1>2, <3>2, <3>3
    <3> QED
      BY <3>1, <3>2, <3>3 DEF Ended
  <2>3. 1 \in Ended(r) <=> r = p
    BY <1>2 DEF Ended, p
  <2> QED
    BY <2>1, <2>2, <2>3
<1>16. ASSUME NEW r \in Procs PROVE OneInput(r)'
  <2>1. OneInput(r)
    BY DEF Inputting
  <2>2. ASSUME NEW i \in Ended(r)', NEW j \in Ended(r)' PROVE i = j
    <3>1. i + 1 = j + 1 /\ i \in Int /\ j \in Int
      BY <1>15, <2>1 DEF OneInput
    <3> QED
      BY <3>1
  <2>3. CASE r = p
    <3>1. ASSUME NEW i \in Ended(r)' PROVE FALSE
      <4>1. i + 1 = 1 /\ i \in Int /\ i >= 1
        BY <1>4, <1>15, <2>1, <2>3 DEF OneInput
      <4> QED
        BY <4>1
    <3> QED
      BY <1>1, <1>6, <1>14, <2>3, <3>1 DEF OneInput
  <2>4. CASE r # p
    <3>1. Ended(r)' = {} <=> Ended(r) = {}
      BY <1>15, <2>4
    <3>2. r \in blocked' <=> r \in blocked
      BY <1>1, <2>4
    <3> QED
      BY <1>14, <2>1, <2>2, <3>1, <3>2 DEF OneInput
  <2> QED
    BY <2>3, <2>4
<1>17. ASSUME NEW r \in Procs PROVE OneRelease(r)'
  <2>1. OneRelease(r)
    BY DEF Inputting
  <2> QED
    BY <1>14, <2>1 DEF OneRelease
<1>18. Inputting'
  BY <1>1, <1>14, <1>16, <1>17 DEF Inputting
<1>19. UnsavedKept'
  BY <1>1 DEF UnsavedKept, InTlb, Slots, Page
<1> QED
  BY <1>8, <1>9, <1>10, <1>11, <1>12, <1>13, <1>18, <1>19

\* The process that faulted asks for its page.
AsksFor(out) ==
  \/ pending' = <<Request("in", Wanted, NoPage)>>
  \/ pending' = <<Request("wait", Wanted, NoPage), Request("out", out, Wanted)>>

LEMMA BlockedStep ==
  ASSUME IInv, At("resolve"), UNCHANGED ioVars, Block, NEW out \in Pages, AsksFor(out)
  PROVE  /\ IoTypes' /\ Places' /\ Inputting'
         /\ pending'[1].page = Wanted /\ Wanted \in Pages /\ Wanted[1] = running
         /\ \A i \in 1 .. Len(ioIn) : ioIn[i].job # Wanted
         /\ \A p \in Procs : ioWait[p] # Wanted
<1> USE DEF IInv, Types, ioVars, At, Block
<1>1. /\ UNCHANGED <<ioOut, ioIn, ioWait, finished, ioTime, ready>> /\ pending = <<>>
      /\ running' = NoProc /\ blocked' = blocked \cup {running}
  OBVIOUS
<1>2. running \in Procs /\ running \notin blocked /\ Wanted \in Pages /\ Wanted[1] = running
  <2>1. running \in Procs /\ running = curProc /\ Wanted \in Pages
    BY OnPage DEF InRun
  <2> QED
    BY <2>1 DEF Places, Wanted, Page
<1>3. NoProc \notin Procs /\ NoPage[1] \notin Procs
  BY DEF NoPage, NoProc, Procs
<1> DEFINE asks  == pending' = <<Request("in", Wanted, NoPage)>>
           waits == pending' = <<Request("wait", Wanted, NoPage), Request("out", out, Wanted)>>
<1>4. ASSUME asks
      PROVE  /\ pending' \in Seq(Requests) /\ Len(pending') = 1 /\ pending' # <<>>
             /\ pending'[1].type = "in" /\ pending'[1].page = Wanted
             /\ pending'[1].release = NoPage
             /\ \A i \in 1 .. Len(pending') : i = 1
  <2>1. pending' = <<Request("in", Wanted, NoPage)>>
    BY <1>4
  <2>2. Len(pending') = 1 /\ pending'[1] = Request("in", Wanted, NoPage)
    BY <2>1
  <2>3. Request("in", Wanted, NoPage) \in Requests
    BY <1>2 DEF Request, Requests
  <2>4. pending' \in Seq(Requests) /\ pending' # <<>>
    BY <2>1, <2>3
  <2>5. \A i \in 1 .. 1 : i = 1
    OBVIOUS
  <2> QED
    BY <2>2, <2>4, <2>5 DEF Request
<1>5. ASSUME waits
      PROVE  /\ pending' \in Seq(Requests) /\ Len(pending') = 2 /\ pending' # <<>>
             /\ pending'[1].type = "wait" /\ pending'[1].page = Wanted
             /\ pending'[1].release = NoPage
             /\ pending'[2].type = "out" /\ pending'[2].release = Wanted
             /\ \A i \in 1 .. Len(pending') : i = 1 \/ i = 2
  <2>1. pending' = <<Request("wait", Wanted, NoPage), Request("out", out, Wanted)>>
    BY <1>5
  <2>2. /\ Len(pending') = 2 /\ pending'[1] = Request("wait", Wanted, NoPage)
        /\ pending'[2] = Request("out", out, Wanted)
    BY <2>1
  <2>3. /\ Request("wait", Wanted, NoPage) \in Requests
        /\ Request("out", out, Wanted) \in Requests
    BY <1>2 DEF Request, Requests
  <2>4. pending' \in Seq(Requests) /\ pending' # <<>>
    BY <2>1, <2>3
  <2>5. \A i \in 1 .. 2 : i = 1 \/ i = 2
    OBVIOUS
  <2> QED
    BY <2>2, <2>4, <2>5 DEF Request
<1>6. asks \/ waits
  BY DEF AsksFor
<1> HIDE DEF asks, waits
<1>7. IoTypes'
  BY <1>1, <1>4, <1>5, <1>6 DEF IoTypes
<1>8. Places'
  <2>1. \A i \in 1 .. Len(ready) : ready[i] \in Procs
    BY ElementOfSeq DEF RunTypes
  <2> QED
    BY <1>1, <1>2, <1>3, <2>1 DEF Places, RunTypes
<1>9. \A p : /\ Queued(p)' = Queued(p) /\ Ended(p)' = Ended(p)
             /\ (Waiting(p)' <=> Waiting(p)) /\ \A q : ReleasesAt(p, q)' = ReleasesAt(p, q)
             /\ ~ Asked(p) /\ ~ AskedToWait(p) /\ Promised(p) = {}
  BY <1>1 DEF Queued, Ended, Waiting, ReleasesAt, Asked, AskedToWait, Promised
<1>10. \A p : Asked(p)' <=> p = running
  BY <1>2, <1>4, <1>5, <1>6 DEF Asked
<1>11. ASSUME NEW p \in Procs PROVE OneInput(p)'
  <2>1. OneInput(p)
    BY DEF Inputting
  <2>2. p \in blocked' <=> p \in blocked \/ p = running
    BY <1>1
  <2> QED
    BY <1>2, <1>9, <1>10, <2>1, <2>2 DEF OneInput
<1>12. ASSUME NEW p \in Procs PROVE OneRelease(p)'
  <2>1. OneRelease(p)
    BY DEF Inputting
  <2>2. p = running => ~ Waiting(p) /\ \A q \in Procs : ReleasesAt(p, q) = {}
    BY <1>2, NoInput DEF Waiting
  <2>3. CASE asks
    <3>1. Promised(p)' = {}
      BY <1>3, <1>4, <2>3 DEF Promised
    <3>2. ~ AskedToWait(p)'
      BY <1>4, <2>3 DEF AskedToWait
    <3> QED
      BY <1>9, <2>1, <3>1, <3>2 DEF OneRelease
  <2>4. CASE waits
    <3>1. \A i \in Promised(p)' : i = 2 /\ p = running
      <4>1. ASSUME NEW i \in Promised(p)' PROVE i = 2 /\ p = running
        <5>1. i \in 1 .. 2 /\ pending'[i].release[1] = p
          BY <1>5, <2>4 DEF Promised
        <5>2. i # 1
          BY <1>3, <1>5, <2>4, <5>1
        <5>3. i = 2
          BY <5>1, <5>2
        <5> QED
          BY <1>2, <1>5, <2>4, <5>1, <5>3
      <4> QED
        BY <4>1
    <3>2. p = running => 2 \in Promised(p)'
      <4>1. 2 \in 1 .. Len(pending')
        <5>1. Len(pending') = 2
          BY <1>5, <2>4
        <5> QED
          BY <5>1
      <4>2. pending'[2].release[1] = running
        BY <1>2, <1>5, <2>4
      <4> QED
        BY <4>1, <4>2 DEF Promised
    <3>3. AskedToWait(p)' <=> p = running
      BY <1>5, <1>10, <2>4 DEF AskedToWait
    <3> QED
      BY <1>9, <2>1, <2>2, <3>1, <3>2, <3>3 DEF OneRelease
  <2> QED
    BY <1>6, <2>3, <2>4
<1>13. \A i \in 1 .. Len(pending') :
         pending'[i].type # "out" => i = 1 /\ pending'[i].release = NoPage
  <2>1. CASE asks
    BY <1>4, <2>1
  <2>2. CASE waits
    BY <1>5, <2>2
  <2> QED
    BY <1>6, <2>1, <2>2
<1>14. Inputting'
  BY <1>1, <1>9, <1>11, <1>12, <1>13 DEF Inputting
<1>15. /\ \A i \in 1 .. Len(ioIn) : ioIn[i].job # Wanted
       /\ \A p \in Procs : ioWait[p] # Wanted
  <2>1. \A i \in 1 .. Len(ioIn) : ioIn[i].job # Wanted
    BY <1>2, NoInput
  <2>2. ASSUME NEW p \in Procs, ioWait[p] = Wanted PROVE FALSE
    <3>1. Wanted # NoPage
      BY <1>2, <1>3
    <3>2. ioWait[p][1] = p /\ p = running
      BY <1>2, <2>2, <3>1 DEF Inputting, Waiting
    <3> QED
      BY <1>2, <2>2, <3>1, <3>2, NoInput
  <2> QED
    BY <2>1, <2>2
<1> QED
  BY <1>2, <1>4, <1>5, <1>6, <1>7, <1>8, <1>14, <1>15

LEMMA ResolveFreeStep ==
  ASSUME IInv, ResolveFree
  PROVE  IInv'
<1> USE DEF IInv, Types, mmuVars, replaceVars, setVars, traceVars, histVars
<1>1. /\ UNCHANGED <<dirty, VC, pageHist, tlb, replaceIndex, curProc, quanta, cleaning,
                     left, lost, unsaved, line, ioVars>>
      /\ At("resolve") /\ pc = "resolve" /\ pc' = "clean" /\ Block /\ AsksFor(Wanted)
      /\ present' = [present EXCEPT ![Wanted] = TRUE]
  BY DEF ResolveFree, AsksFor, At
<1>2. PICK f \in Frames : frame' = [frame EXCEPT ![Wanted] = f]
  BY DEF ResolveFree
<1>3. f \in Int
  BY DEF Frames
<1>4. Wanted \in Pages
  BY <1>1, OnPage DEF InRun
<1>5. IoTypes' /\ Places' /\ Inputting' /\ pending'[1].page = Wanted
  BY <1>1, <1>4, BlockedStep
<1>6. TableTypes'
  BY <1>1, <1>2, <1>3, <1>4 DEF TableTypes
<1>7. RunTypes'
  <2>1. running' \in Procs \cup {NoProc} /\ ready' \in Seq(Procs) /\ blocked' \subseteq Procs
    BY <1>1 DEF Block, RunTypes, OnCpu, InRun
  <2> QED
    BY <1>1, <2>1 DEF RunTypes, Slots
<1>8. OnCpu'
  BY <1>1 DEF OnCpu, InRun
<1>9. EntriesAgree'
  <2>1. ASSUME NEW i \in Slots, tlb[i].valid
        PROVE  frame'[Page(tlb[i].vpn)] = frame[Page(tlb[i].vpn)]
    <3>1. tlb[i].vpn # line[running].vpn
      BY <1>1, <2>1 DEF OnCpu, Hits
    <3>2. Page(tlb[i].vpn) # Wanted
      BY <3>1 DEF Page, Wanted
    <3>3. Page(tlb[i].vpn) \in Pages
      BY <2>1 DEF EntriesAgree, RunTypes, Entries, Page, Pages
    <3> QED
      BY <1>2, <3>2, <3>3 DEF TableTypes
  <2> QED
    BY <1>1, <2>1 DEF EntriesAgree, Slots, Page
<1>10. UnsavedKept'
  <2>1. Wanted \notin unsaved
    BY <1>1 DEF OnCpu, UnsavedKept
  <2>2. \A pg \in unsaved : present'[pg] = present[pg] /\ dirty[pg]
    BY <1>1, <2>1 DEF UnsavedKept, SyncedAt, TableTypes, RunTypes
  <2> QED
    BY <1>1, <1>5, <2>1, <2>2 DEF UnsavedKept, InTlb, Slots, Page, ioVars
<1> QED
  BY <1>5, <1>6, <1>7, <1>8, <1>9, <1>10

LEMMA ResolveVictimStep ==
  ASSUME IInv, ResolveVictim
  PROVE  IInv'
<1> USE DEF IInv, Types, mmuVars, setVars, traceVars
<1>1. PICK i \in DOMAIN pageHist :
        LET out == pageHist[i]
        IN  /\ present[out] /\ WithoutVictim(i) /\ AsksFor(out)
            /\ frame' = [frame EXCEPT ![Wanted] = frame[out]]
            /\ present' = [present EXCEPT ![out] = FALSE]
            /\ dirty' = [dirty EXCEPT ![out] = FALSE]
            /\ lost' = (lost \/ (out \in unsaved /\ ~ dirty[out]))
            /\ unsaved' = unsaved \ {out}
  <2>1. PICK i \in DOMAIN pageHist :
          LET out == pageHist[i]
          IN  /\ IsVictim(i, Updated)
              /\ WithoutVictim(i)
              /\ frame' = [frame EXCEPT ![Wanted] = frame[out]]
              /\ present' = [present EXCEPT ![out] = FALSE]
              /\ dirty' = [dirty EXCEPT ![out] = FALSE]
              /\ pending' = IF dirty[out]
                            THEN <<Request("wait", Wanted, NoPage),
                                   Request("out", out, Wanted)>>
                            ELSE <<Request("in", Wanted, NoPage)>>
              /\ lost' = (lost \/ (out \in unsaved /\ ~ dirty[out]))
              /\ unsaved' = unsaved \ {out}
    BY DEF ResolveVictim
  <2>2. present[pageHist[i]]
    BY <2>1 DEF IsVictim
  <2> QED
    BY <2>1, <2>2 DEF AsksFor
<1> DEFINE out == pageHist[i]
<1>2. /\ UNCHANGED <<VC, tlb, replaceIndex, curProc, quanta, cleaning, left, line, ioVars>>
      /\ At("resolve") /\ pc = "resolve" /\ pc' = "clean" /\ Block
  BY DEF ResolveVictim, At
<1>3. i \in 1 .. Len(pageHist) /\ out \in Pages /\ Len(pageHist) \in Nat
  <2>1. pageHist \in Seq(Pages)
    BY DEF TableTypes
  <2>2. i \in 1 .. Len(pageHist)
    BY <2>1
  <2> QED
    BY <2>1, <2>2, ElementOfSeq
<1>4. pageHist' \in Seq(Pages)
  <2>1. pageHist \in Seq(Pages)
    BY DEF TableTypes
  <2>2. CASE policy = "fifo"
    <3>1. pageHist' = SubSeq(pageHist, i + 1, Len(pageHist))
      BY <1>1, <2>2 DEF WithoutVictim
    <3>2. \A j \in i + 1 .. Len(pageHist) : pageHist[j] \in Pages
      BY <1>3, <2>1, ElementOfSeq
    <3> QED
      BY <1>3, <2>1, <3>1, <3>2, SubSeqProperties
  <2>3. CASE policy # "fifo"
    <3> DEFINE places == {j \in DOMAIN pageHist : present[pageHist[j]] /\ pageHist[j] # pageHist[i]}
    <3>1. pageHist' \in Restrictions(pageHist, places)
      BY <1>1, <2>3 DEF WithoutVictim
    <3>2. places \subseteq 1 .. Len(pageHist)
      BY <2>1
    <3> HIDE DEF places
    <3> QED
      BY <2>1, <3>1, <3>2, RestrictionType
  <2> QED
    BY <2>2, <2>3
<1>5. Wanted \in Pages /\ ~ present[Wanted] /\ out # Wanted
  BY <1>1, <1>2, OnPage DEF InRun, OnCpu
<1>6. /\ present[out] /\ AsksFor(out)
      /\ frame' = [frame EXCEPT ![Wanted] = frame[out]]
      /\ present' = [present EXCEPT ![out] = FALSE]
      /\ dirty' = [dirty EXCEPT ![out] = FALSE]
      /\ lost' = (lost \/ (out \in unsaved /\ ~ dirty[out]))
      /\ unsaved' = unsaved \ {out}
  BY <1>1
<1> HIDE DEF out
<1>7. /\ IoTypes' /\ Places' /\ Inputting' /\ pending'[1].page = Wanted
      /\ \A k \in 1 .. Len(ioIn) : ioIn[k].job # Wanted
  BY <1>2, <1>3, <1>6, BlockedStep
<1>8. TableTypes'
  BY <1>2, <1>3, <1>4, <1>5, <1>6 DEF TableTypes
<1>9. RunTypes'
  <2>1. running' \in Procs \cup {NoProc} /\ ready' \in Seq(Procs) /\ blocked' \subseteq Procs
    BY <1>2 DEF Block, RunTypes, OnCpu, InRun
  <2> QED
    BY <1>2, <1>6, <2>1 DEF RunTypes, Slots
<1>10. OnCpu'
  BY <1>2 DEF OnCpu, InRun
<1>11. EntriesAgree'
  <2>1. ASSUME NEW k \in Slots, tlb[k].valid
        PROVE  frame'[Page(tlb[k].vpn)] = frame[Page(tlb[k].vpn)]
    <3>1. tlb[k].vpn # line[running].vpn
      BY <1>2, <2>1 DEF OnCpu, Hits
    <3>2. Page(tlb[k].vpn) # Wanted
      BY <3>1 DEF Page, Wanted
    <3>3. Page(tlb[k].vpn) \in Pages
      BY <2>1 DEF EntriesAgree, RunTypes, Entries, Page, Pages
    <3> QED
      BY <1>6, <3>2, <3>3 DEF TableTypes
  <2> QED
    BY <1>2, <2>1 DEF EntriesAgree, Slots, Page
<1>12. UnsavedKept'
  <2>1. Wanted \notin unsaved
    BY <1>5 DEF UnsavedKept
  <2>2. \A pg \in unsaved : dirty[pg] /\ present[pg] /\ pg \in Pages
    BY <1>2 DEF UnsavedKept, SyncedAt, RunTypes
  <2>3. \A pg \in unsaved' : pg \in unsaved /\ present'[pg] /\ dirty'[pg]
    BY <1>6, <2>2 DEF TableTypes
  <2>4. ~ lost'
    BY <1>6, <2>2 DEF UnsavedKept
  <2> QED
    BY <1>2, <1>6, <1>7, <2>1, <2>3, <2>4 DEF UnsavedKept, InTlb, Slots, Page, ioVars
<1> QED
  BY <1>7, <1>8, <1>9, <1>10, <1>11, <1>12

\* The pages the daemon goes through, in any of the orders.
LEMMA ClearOrdersType ==
  ASSUME TableTypes, NEW order \in ClearOrders
  PROVE  order \in Seq(Pages) /\ Len(order) = Len(pageHist)
<1>1. pageHist \in Seq(Pages) /\ Len(pageHist) \in Nat /\ DOMAIN pageHist = 1 .. Len(pageHist)
  BY DEF TableTypes
<1>2. CASE policy = "fifo"
  BY <1>1, <1>2 DEF ClearOrders
<1>3. CASE policy # "fifo"
  <2>1. PICK f \in SetToSeqs(DOMAIN pageHist) :
          order = [i \in DOMAIN pageHist |-> pageHist[f[i]]]
    BY <1>3 DEF ClearOrders
  <2>2. IsFiniteSet(DOMAIN pageHist) /\ Cardinality(DOMAIN pageHist) = Len(pageHist)
    <3>1. 1 \in Int /\ Len(pageHist) \in Int
      BY <1>1
    <3>2. IsFiniteSet(1 .. Len(pageHist))
          /\ Cardinality(1 .. Len(pageHist)) = IF 1 > Len(pageHist) THEN 0 ELSE Len(pageHist) - 1 + 1
      BY <3>1, FS_Interval
    <3> QED
      BY <1>1, <3>2
  <2>3. f \in Seq(DOMAIN pageHist) /\ Len(f) = Len(pageHist)
    BY <2>2, OrderOfSet
  <2>4. \A i \in DOMAIN pageHist : pageHist[f[i]] \in Pages
    <3>1. ASSUME NEW i \in DOMAIN pageHist PROVE f[i] \in DOMAIN pageHist
      BY <1>1, <2>3, ElementOfSeq
    <3> QED
      BY <1>1, <3>1, ElementOfSeq
  <2>5. order \in [1 .. Len(pageHist) -> Pages]
    BY <1>1, <2>1, <2>4
  <2> QED
    BY <1>1, <2>5
<1> QED
  BY <1>2, <1>3

LEMMA ClearPagesStep ==
  ASSUME IInv, ClearPages
  PROVE  IInv'
<1> USE DEF IInv, Types, mmuVars, ioVars, schedVars, traceVars, setVars
<1>1. PICK order \in ClearOrders :
        LET chosen == SubSeq(order, 1, ToClean)
            gone   == ToSet(chosen)
            saves  == Restrictions(chosen, {i \in 1 .. ToClean : dirty[chosen[i]]})
        IN  /\ present' = [pg \in Pages |-> present[pg] /\ pg \notin gone]
            /\ dirty' = [pg \in Pages |-> dirty[pg] /\ pg \notin gone]
            /\ pageHist' = SubSeq(order, ToClean + 1, Len(order))
            /\ \E toSave \in saves :
                 pending' = [k \in DOMAIN toSave |-> Request("out", toSave[k], NoPage)]
            /\ lost' = (lost \/ \E pg \in gone \cap unsaved : ~ dirty[pg])
            /\ unsaved' = unsaved \ gone
  BY DEF ClearPages
<1> DEFINE chosen == SubSeq(order, 1, ToClean)
           gone   == ToSet(chosen)
           places == {i \in 1 .. ToClean : dirty[chosen[i]]}
<1>2. /\ UNCHANGED <<frame, VC, tlb, replaceIndex, curProc, quanta, cleaning, left, line,
                     ioOut, ioIn, ioWait, finished, ioTime, ready, running, blocked>>
      /\ pending = <<>> /\ pc = "clean" /\ pc' = "loop"
  BY DEF ClearPages, At
<1>3. /\ ToClean \in 1 .. Len(order) /\ ToClean \in Nat /\ Len(order) \in Nat
      /\ order \in Seq(Pages)
  <2>1. Len(pageHist) \in Nat /\ ToClean \in 1 .. Len(pageHist)
    BY DEF ClearPages, TableTypes
  <2>2. order \in Seq(Pages) /\ Len(order) = Len(pageHist)
    BY ClearOrdersType
  <2> QED
    BY <2>1, <2>2
<1>4. chosen \in Seq(Pages) /\ Len(chosen) = ToClean
  <2>1. \A i \in 1 .. ToClean : order[i] \in Pages
    <3>1. \A i \in 1 .. ToClean : i \in 1 .. Len(order)
      BY <1>3
    <3> QED
      BY <1>3, <3>1, ElementOfSeq
  <2> HIDE DEF ToClean
  <2> QED
    BY <1>3, <2>1, SubSeqProperties
<1>5. pageHist' \in Seq(Pages)
  <2>1. \A i \in ToClean + 1 .. Len(order) : order[i] \in Pages
    <3>1. \A i \in ToClean + 1 .. Len(order) : i \in 1 .. Len(order)
      BY <1>3
    <3> QED
      BY <1>3, <3>1, ElementOfSeq
  <2> QED
    BY <1>1, <1>3, <2>1, SubSeqProperties
<1>6. PICK toSave \in Restrictions(chosen, places) :
        pending' = [k \in DOMAIN toSave |-> Request("out", toSave[k], NoPage)]
  BY <1>1
<1>7. /\ present' = [pg \in Pages |-> present[pg] /\ pg \notin gone]
      /\ dirty' = [pg \in Pages |-> dirty[pg] /\ pg \notin gone]
      /\ lost' = (lost \/ \E pg \in gone \cap unsaved : ~ dirty[pg])
      /\ unsaved' = unsaved \ gone
  BY <1>1
<1>8. toSave \in Seq(Pages)
  <2>1. places \subseteq 1 .. Len(chosen)
    BY <1>4
  <2> HIDE DEF chosen, places
  <2> QED
    BY <1>4, <2>1, RestrictionType
<1> HIDE DEF chosen, gone, places
<1>9. /\ pending' \in Seq(Requests) /\ Len(pending') \in Nat
      /\ \A k \in 1 .. Len(pending') : pending'[k].type = "out" /\ pending'[k].release = NoPage
  <2>1. DOMAIN toSave = 1 .. Len(toSave) /\ Len(toSave) \in Nat
    BY <1>8
  <2>2. ASSUME NEW k \in 1 .. Len(toSave)
        PROVE  /\ pending'[k] = Request("out", toSave[k], NoPage)
               /\ Request("out", toSave[k], NoPage) \in Requests
    <3>1. toSave[k] \in Pages
      BY <1>8, ElementOfSeq
    <3> QED
      BY <1>6, <2>1, <3>1 DEF Request, Requests
  <2>3. pending' \in [1 .. Len(toSave) -> Requests]
    BY <1>6, <2>1, <2>2
  <2>4. pending' \in Seq(Requests) /\ Len(pending') = Len(toSave)
    BY <2>1, <2>3
  <2>5. \A pg : Request("out", pg, NoPage).type = "out"
                /\ Request("out", pg, NoPage).release = NoPage
    BY DEF Request
  <2>6. \A k \in 1 .. Len(pending') : pending'[k] = Request("out", toSave[k], NoPage)
    BY <2>2, <2>4
  <2> QED
    BY <2>1, <2>4, <2>5, <2>6
<1>10. TableTypes'
  BY <1>2, <1>5, <1>7 DEF TableTypes
<1>11. IoTypes'
  BY <1>2, <1>9 DEF IoTypes
<1>12. RunTypes'
  BY <1>2, <1>7 DEF RunTypes, Slots
<1>13. OnCpu'
  BY <1>2 DEF OnCpu, InRun
<1>14. EntriesAgree'
  BY <1>2 DEF EntriesAgree, Slots, Page
<1>15. Places'
  BY <1>2 DEF Places
<1>16. pending' # <<>> => pending'[1].type = "out"
  <2>1. pending' # <<>> => 1 \in 1 .. Len(pending')
    BY <1>9, EmptySeq
  <2> QED
    BY <1>9, <2>1
<1>17. Inputting'
  <2>1. \A p : /\ Queued(p)' = Queued(p) /\ Ended(p)' = Ended(p)
               /\ (Waiting(p)' <=> Waiting(p)) /\ \A q : ReleasesAt(p, q)' = ReleasesAt(p, q)
    BY <1>2 DEF Queued, Ended, Waiting, ReleasesAt
  <2>2. \A p : ~ Asked(p) /\ ~ AskedToWait(p) /\ ~ Asked(p)' /\ ~ AskedToWait(p)'
    BY <1>2, <1>16 DEF Asked, AskedToWait
  <2>3. ASSUME NEW p \in Procs PROVE Promised(p) = {} /\ Promised(p)' = {}
    <3>1. NoPage[1] # p
      BY DEF NoPage, NoProc, Procs
    <3> QED
      BY <1>2, <1>9, <3>1 DEF Promised
  <2>4. ASSUME NEW p \in Procs PROVE OneInput(p)' /\ OneRelease(p)'
    <3>1. OneInput(p) /\ OneRelease(p)
      BY DEF Inputting
    <3> QED
      BY <1>2, <2>1, <2>2, <2>3, <3>1 DEF OneInput, OneRelease
  <2> QED
    BY <1>2, <1>9, <2>1, <2>4 DEF Inputting
<1>18. UnsavedKept'
  <2>1. \A pg \in unsaved : pg \in Pages /\ present[pg] /\ dirty[pg]
    BY <1>2 DEF UnsavedKept, SyncedAt, RunTypes
  <2>2. \A pg \in unsaved' : pg \in unsaved /\ present'[pg] /\ dirty'[pg]
    BY <1>7, <2>1 DEF TableTypes
  <2>3. ~ lost'
    BY <1>7, <2>1 DEF UnsavedKept
  <2> QED
    BY <1>2, <1>7, <1>16, <2>2, <2>3 DEF UnsavedKept, InTlb, Slots, Page
<1> QED
  BY <1>10, <1>11, <1>12, <1>13, <1>14, <1>15, <1>17, <1>18

-----------------------------------------------------------------------------
(***************************************************************************)
(* The invariant holds, and what follows from it.                          *)
(***************************************************************************)
LEMMA InitIInv ==
  ASSUME Init
  PROVE  IInv
<1>1. PICK s \in Settings :
        /\ ReplaceInit(s.policy) /\ FrameInit(s.frames) /\ MmuInit(s.tlb)
        /\ IoInit(s.io)
        /\ cleaning = <<s.min, s.amount>> /\ lines = s.lines
        /\ quanta = s.quanta /\ left = s.quanta
  BY DEF Init
<1>2. /\ s.tlb \in Nat \ {0} /\ s.io \in Nat /\ s.quanta \in Nat \ {0}
      /\ s.min \in Nat /\ s.amount \in Nat
  BY VmmAssumption
<1>3. /\ frame = [pg \in Pages |-> 0] /\ present = [pg \in Pages |-> FALSE]
      /\ dirty = [pg \in Pages |-> FALSE] /\ VC = 0
      /\ pc = "loop" /\ pending = <<>>
      /\ ready = [p \in Procs |-> p] /\ running = NoProc /\ blocked = {}
      /\ line = [p \in Procs |-> NoLine] /\ unsaved = {} /\ lost = FALSE
  BY DEF Init, PageTableInit
<1>4. /\ pageHist = <<>> /\ curProc = NoProc /\ replaceIndex = 0
      /\ tlb = [i \in 0 .. s.tlb - 1 |-> Blank]
      /\ ioTime = s.io /\ ioOut = [p \in Procs |-> <<>>] /\ ioIn = <<>>
      /\ ioWait = [p \in Procs |-> NoPage] /\ finished = <<>>
  BY <1>1 DEF ReplaceInit, MmuInit, IoInit
<1>5. Slots = 0 .. s.tlb - 1
  BY <1>4 DEF Slots
<1>6. TableTypes
  BY <1>3, <1>4 DEF TableTypes
<1>7. IoTypes
  BY <1>2, <1>3, <1>4 DEF IoTypes
<1>8. ready \in Seq(Procs) /\ Len(ready) = NumProcs
  <2>1. NumProcs \in Nat /\ ready \in [1 .. NumProcs -> Procs]
    BY <1>3, PageAssumption DEF Procs
  <2> QED
    BY <2>1
<1>9. RunTypes
  <2>1. tlb \in [Slots -> Entries]
    BY <1>4, <1>5, BlankType
  <2>2. line \in [Procs -> Lines]
    BY <1>3, PageAssumption DEF NoLine, Line, Lines, VPNs
  <2> QED
    BY <1>1, <1>2, <1>3, <1>4, <1>8, <2>1, <2>2 DEF RunTypes
<1>10. OnCpu
  BY <1>3 DEF OnCpu, InRun
<1>11. EntriesAgree
  BY <1>2, <1>4, <1>5 DEF EntriesAgree, Blank
<1>12. Places
  <2>1. \A i \in 1 .. NumProcs : i \in Procs /\ i # NoProc
    BY PageAssumption DEF Procs, NoProc
  <2>2. \A i \in 1 .. Len(ready) : ready[i] = i /\ ready[i] # NoProc
    BY <1>3, <1>8, <2>1
  <2>3. running = NoProc /\ blocked = {}
    BY <1>3
  <2> QED
    BY <2>2, <2>3 DEF Places
<1>13. Inputting
  <2>1. ASSUME NEW p \in Procs
        PROVE  /\ Queued(p) = {} /\ Ended(p) = {} /\ ~ Waiting(p) /\ ~ Asked(p)
               /\ ~ AskedToWait(p) /\ Promised(p) = {}
               /\ \A q \in Procs : ReleasesAt(p, q) = {}
    BY <1>3, <1>4 DEF Queued, Ended, Waiting, Asked, AskedToWait, Promised, ReleasesAt
  <2>2. ASSUME NEW p \in Procs PROVE OneInput(p) /\ OneRelease(p)
    BY <1>3, <2>1 DEF OneInput, OneRelease
  <2> QED
    BY <1>3, <2>1, <2>2 DEF Inputting
<1>14. UnsavedKept
  BY <1>3, <1>4 DEF UnsavedKept
<1> QED
  BY <1>6, <1>7, <1>9, <1>10, <1>11, <1>12, <1>13, <1>14 DEF IInv, Types

LEMMA NextIInv ==
  ASSUME IInv, [Next]_vars
  PROVE  IInv'
<1>1. CASE CpuTick \/ RequestTick \/ Idle
  BY <1>1, TickActions
<1>2. CASE Schedule
  BY <1>2, ScheduleStep
<1>3. CASE Deliver
  BY <1>3, DeliverStep
<1>4. CASE Dispatch
  BY <1>4, DispatchStep
<1>5. CASE \/ Finish \/ Restart \/ ReadLine \/ EndOfData \/ FinishedQuanta \/ Misjudge
           \/ ResolveNone \/ ResolveUndefined \/ NothingToClean \/ ClearThrows
           \/ Stopped \/ UNCHANGED vars
  BY <1>5, QuietActions DEF Stopped
<1>6. CASE IllegalLine
  BY <1>6, IllegalLineStep
<1>7. CASE Access
  BY <1>7, AccessStep
<1>8. CASE PageFault
  BY <1>8, PageFaultStep
<1>9. CASE QuantumOver
  BY <1>9, QuantumOverStep
<1>10. CASE Terminate
  BY <1>10, TerminateStep
<1>11. CASE ResolveFree
  BY <1>11, ResolveFreeStep
<1>12. CASE ResolveVictim
  BY <1>12, ResolveVictimStep
<1>13. CASE ClearPages
  BY <1>13, ClearPagesStep
<1> QED
  BY <1>1, <1>2, <1>3, <1>4, <1>5, <1>6, <1>7, <1>8, <1>9, <1>10, <1>11, <1>12, <1>13 DEF Next

\* The invariant the theorems follow from.
THEOREM Invariance == Spec => []IInv
<1>1. Init => IInv
  BY InitIInv
<1>2. IInv /\ [Next]_vars => IInv'
  BY NextIInv
<1> QED
  BY <1>1, <1>2, PTL DEF Spec

\* The TLB answers as the page table would, although pages leave memory without it
\* being told (Mmu!TlbAgrees).
THEOREM SpecTlbAgrees == Spec => []TlbAgrees
<1>1. IInv => TlbAgrees
  BY DEF IInv, EntriesAgree, TlbAgrees
<1> QED
  BY <1>1, Invariance, PTL

\* No page whose last access was a write is dropped without an output.
THEOREM SpecWritesKept == Spec => []WritesKept
<1>1. IInv => WritesKept
  BY DEF IInv, UnsavedKept, WritesKept
<1> QED
  BY <1>1, Invariance, PTL

\* The places of BlockedForOnePage are those of the invariant.
LEMMA InputsAre ==
  ASSUME IoTypes, Inputting, NEW p \in Procs
  PROVE  /\ \A c \in Inputs(p) : \/ \E i \in Queued(p) : c = <<"queued", i>>
                                 \/ \E i \in Ended(p) : c = <<"ended", i>>
                                 \/ Waiting(p) /\ c = <<"waiting", p>>
                                 \/ Asked(p) /\ c = <<"asked", 1>>
         /\ \A i \in Queued(p) : <<"queued", i>> \in Inputs(p)
         /\ \A i \in Ended(p) : <<"ended", i>> \in Inputs(p)
         /\ Waiting(p) => <<"waiting", p>> \in Inputs(p)
         /\ Asked(p) => <<"asked", 1>> \in Inputs(p)
<1> DEFINE asks == {i \in DOMAIN pending : pending[i].type # "out" /\ pending[i].page[1] = p}
<1>1. /\ DOMAIN ioIn = 1 .. Len(ioIn) /\ DOMAIN finished = 1 .. Len(finished)
      /\ DOMAIN pending = 1 .. Len(pending)
  BY DEF IoTypes
<1>2. /\ Queued(p) = {i \in DOMAIN ioIn : ioIn[i].job[1] = p}
      /\ Ended(p) = {i \in DOMAIN finished : finished[i][1] = p}
  BY <1>1 DEF Queued, Ended
<1>3. \A q : q \in {r \in Procs : r = p /\ ioWait[r] # NoPage} <=> q = p /\ Waiting(p)
  BY DEF Waiting
<1>4. \A i : i \in asks <=> i = 1 /\ Asked(p)
  <2>1. ASSUME NEW i \in asks PROVE i = 1 /\ Asked(p)
    <3>1. i \in 1 .. Len(pending) /\ pending[i].type # "out" /\ pending[i].page[1] = p
      BY <1>1
    <3>2. i = 1 /\ pending # <<>>
      BY <3>1, EmptySeq DEF Inputting
    <3> QED
      BY <3>1, <3>2 DEF Asked
  <2>2. ASSUME Asked(p) PROVE 1 \in asks
    <3>1. 1 \in 1 .. Len(pending)
      BY <2>2, EmptySeq DEF Asked, IoTypes
    <3> QED
      BY <1>1, <2>2, <3>1 DEF Asked
  <2> QED
    BY <2>1, <2>2
<1> DEFINE waits == {q \in Procs : q = p /\ ioWait[q] # NoPage}
<1>5. Inputs(p) = ({"queued"} \X Queued(p)) \cup ({"ended"} \X Ended(p))
                    \cup ({"waiting"} \X waits) \cup ({"asked"} \X asks)
  BY <1>2, Zenon DEF Inputs
<1> HIDE DEF asks, waits
<1>6. \A q : q \in waits <=> q = p /\ Waiting(p)
  BY <1>3 DEF waits
<1>7. ASSUME NEW c \in Inputs(p)
      PROVE  \/ \E i \in Queued(p) : c = <<"queued", i>>
             \/ \E i \in Ended(p) : c = <<"ended", i>>
             \/ Waiting(p) /\ c = <<"waiting", p>>
             \/ Asked(p) /\ c = <<"asked", 1>>
  <2>1. CASE c \in {"queued"} \X Queued(p)
    BY <2>1
  <2>2. CASE c \in {"ended"} \X Ended(p)
    BY <2>2
  <2>3. CASE c \in {"waiting"} \X waits
    BY <1>6, <2>3
  <2>4. CASE c \in {"asked"} \X asks
    BY <1>4, <2>4
  <2> QED
    BY <1>5, <2>1, <2>2, <2>3, <2>4
<1> QED
  BY <1>4, <1>5, <1>6, <1>7

LEMMA ReleasesAre ==
  ASSUME IoTypes, NEW p \in Procs
  PROVE  /\ \A c \in Releases(p) : \/ \E q \in Procs : \E i \in ReleasesAt(p, q) : c = <<q, i>>
                                   \/ \E i \in Promised(p) : c = <<NoProc, i>>
         /\ \A q \in Procs : \A i \in ReleasesAt(p, q) : <<q, i>> \in Releases(p)
         /\ \A i \in Promised(p) : <<NoProc, i>> \in Releases(p)
<1>1. ASSUME NEW q \in Procs
      PROVE  {i \in DOMAIN ioOut[q] : ioOut[q][i].job[1] = p} = ReleasesAt(p, q)
  <2>1. ioOut[q] \in Seq(Contexts(Pages \cup {NoPage}))
    BY DEF IoTypes
  <2>2. DOMAIN ioOut[q] = 1 .. Len(ioOut[q])
    BY <2>1
  <2> QED
    BY <2>2 DEF ReleasesAt
<1>2. {i \in DOMAIN pending : pending[i].release[1] = p} = Promised(p)
  BY DEF Promised, IoTypes
<1> DEFINE all == UNION {{q} \X {i \in DOMAIN ioOut[q] : ioOut[q][i].job[1] = p} : q \in Procs}
<1>3. Releases(p) = ({NoProc} \X Promised(p)) \cup all
  BY <1>2, Zenon DEF Releases
<1>4. \A c : c \in all <=> \E q \in Procs : c \in {q} \X ReleasesAt(p, q)
  BY <1>1
<1> HIDE DEF all
<1>5. ASSUME NEW c \in Releases(p)
      PROVE  \/ \E q \in Procs : \E i \in ReleasesAt(p, q) : c = <<q, i>>
             \/ \E i \in Promised(p) : c = <<NoProc, i>>
  <2>1. CASE c \in all
    <3>1. PICK q \in Procs : c \in {q} \X ReleasesAt(p, q)
      BY <1>4, <2>1
    <3> QED
      BY <3>1
  <2>2. CASE c \in {NoProc} \X Promised(p)
    BY <2>2
  <2> QED
    BY <1>3, <2>1, <2>2
<1>6. ASSUME NEW q \in Procs, NEW i \in ReleasesAt(p, q) PROVE <<q, i>> \in Releases(p)
  <2>1. <<q, i>> \in {q} \X ReleasesAt(p, q)
    OBVIOUS
  <2> QED
    BY <1>3, <1>4, <2>1
<1>7. ASSUME NEW i \in Promised(p) PROVE <<NoProc, i>> \in Releases(p)
  BY <1>3
<1> QED
  BY <1>5, <1>6, <1>7

\* A process is blocked exactly while one page of its is on its way in, and an
\* input that waits has exactly one output that lets it go.
THEOREM SpecBlockedForOnePage == Spec => []BlockedForOnePage
<1>1. ASSUME IInv PROVE BlockedForOnePage
  <2> USE <1>1 DEF IInv, Types
  <2>1. IsInjective(ready) /\ ToSet(ready) = {ready[i] : i \in 1 .. Len(ready)}
    <3>1. DOMAIN ready = 1 .. Len(ready)
      BY DEF RunTypes
    <3> QED
      BY <3>1 DEF IsInjective, ToSet, Places
  <2>2. running \notin ToSet(ready) \cup blocked /\ blocked \cap ToSet(ready) = {}
    BY <2>1 DEF Places
  <2>3. ASSUME NEW p \in Procs
        PROVE  AtMostOne(Inputs(p)) /\ (p \in blocked <=> Inputs(p) # {})
    <3>1. OneInput(p)
      BY DEF Inputting
    <3>2. ASSUME NEW c \in Inputs(p), NEW d \in Inputs(p) PROVE c = d
      BY <3>1, InputsAre DEF OneInput
    <3>3. Inputs(p) # {} <=> Queued(p) # {} \/ Ended(p) # {} \/ Waiting(p) \/ Asked(p)
      BY InputsAre
    <3> QED
      BY <3>1, <3>2, <3>3 DEF OneInput, AtMostOne
  <2>4. ASSUME NEW p \in Procs, Waiting(p)
        PROVE  AtMostOne(Releases(p)) /\ Releases(p) # {}
    <3>1. OneRelease(p)
      BY DEF Inputting
    <3>2. ASSUME NEW c \in Releases(p), NEW d \in Releases(p) PROVE c = d
      BY <3>1, ReleasesAre DEF OneRelease
    <3>3. Releases(p) # {}
      BY <2>4, <3>1, ReleasesAre DEF OneRelease
    <3> QED
      BY <3>2, <3>3 DEF AtMostOne
  <2> QED
    BY <2>1, <2>2, <2>3, <2>4 DEF BlockedForOnePage, Waiting
<1>2. IInv => BlockedForOnePage
  BY <1>1
<1> QED
  BY <1>2, Invariance, PTL

-----------------------------------------------------------------------------
(***************************************************************************)
(* When an input or output ends.  What EndsAt adds up is the time of the   *)
(* first context and, for each context behind it, a number of Shares.      *)
(***************************************************************************)
Behind(queue) ==
  [i \in 1 .. Len(queue) - 1 |-> IF queue[i + 1].time > 1 THEN queue[i + 1].time - 1 ELSE 0]

Delay(queue, i) == queue[1].time + Cardinality(Shares(Behind(queue), 1 .. i - 1))

LEMMA BehindType ==
  ASSUME NEW J, NEW q \in Seq(Contexts(J))
  PROVE  /\ Len(q) \in Nat
         /\ \A i \in 1 .. Len(q) : q[i].time \in Int /\ q[i].due \in Int /\ q[i].ahead \in Int
         /\ \A i \in 1 .. Len(q) - 1 : Behind(q)[i] \in Nat
<1>1. Len(q) \in Nat
  OBVIOUS
<1>2. ASSUME NEW i \in 1 .. Len(q)
      PROVE  q[i].time \in Int /\ q[i].due \in Int /\ q[i].ahead \in Int
  <2>1. q[i] \in Contexts(J)
    BY ElementOfSeq
  <2> QED
    BY <2>1 DEF Contexts
<1>3. ASSUME NEW i \in 1 .. Len(q) - 1 PROVE Behind(q)[i] \in Nat
  <2>1. i + 1 \in 1 .. Len(q)
    BY <1>1
  <2> QED
    BY <1>2, <2>1 DEF Behind
<1> QED
  BY <1>1, <1>2, <1>3

LEMMA FirstDelay ==
  ASSUME NEW J, NEW q \in Seq(Contexts(J)), q # <<>>
  PROVE  Delay(q, 1) = q[1].time
<1>1. Shares(Behind(q), 1 .. 1 - 1) = {}
  <2>1. 1 .. 1 - 1 = {}
    OBVIOUS
  <2> QED
    BY <2>1 DEF Shares
<1>2. q[1].time \in Int
  <2>1. 1 \in 1 .. Len(q)
    BY EmptySeq
  <2> QED
    BY <2>1, BehindType
<1>3. Cardinality(Shares(Behind(q), 1 .. 1 - 1)) = 0
  BY <1>1, FS_EmptySet
<1> QED
  BY <1>2, <1>3 DEF Delay

LEMMA NextDelay ==
  ASSUME NEW J, NEW q \in Seq(Contexts(J)), NEW i \in 1 .. Len(q) - 1
  PROVE  Delay(q, i + 1) = Delay(q, i) + Behind(q)[i]
<1>1. Len(q) \in Nat /\ i \in Nat /\ 1 \in 1 .. Len(q)
  <2>1. Len(q) \in Nat
    OBVIOUS
  <2> QED
    BY <2>1
<1>2. q[1].time \in Int /\ \A j \in 1 .. i : Behind(q)[j] \in Nat
  BY <1>1, BehindType
<1> DEFINE S == 1 .. i - 1
           f == Behind(q)
<1>3. IsFiniteSet(S) /\ i \notin S /\ 1 .. i = S \cup {i} /\ \A j \in S \cup {i} : f[j] \in Nat
  <2>1. 1 .. i = S \cup {i} /\ i \notin S
    BY <1>1
  <2>2. IsFiniteSet(S)
    BY <1>1, FS_Interval
  <2>3. \A j \in S \cup {i} : f[j] \in Nat
    BY <1>2, <2>1
  <2> QED
    BY <2>1, <2>2, <2>3
<1> HIDE DEF f, S
<1>4. Cardinality(Shares(f, S \cup {i})) = Cardinality(Shares(f, S)) + f[i]
  BY <1>3, SharesAdded
<1>5. Cardinality(Shares(f, S)) \in Nat /\ f[i] \in Nat
  BY <1>3, SharesFinite
<1>6. Delay(q, i + 1) = q[1].time + Cardinality(Shares(f, S \cup {i}))
  <2>1. 1 .. i = 1 .. (i + 1) - 1
    BY <1>1
  <2> QED
    BY <1>3, <2>1 DEF Delay, f
<1>7. Delay(q, i) = q[1].time + Cardinality(Shares(f, S))
  BY DEF Delay, f, S
<1> QED
  BY <1>2, <1>4, <1>5, <1>6, <1>7 DEF f

LEMMA DelayType ==
  ASSUME NEW J, NEW q \in Seq(Contexts(J)), NEW i \in 1 .. Len(q)
  PROVE  Delay(q, i) \in Int /\ Delay(q, i) >= q[1].time
<1>1. Len(q) \in Nat /\ i \in Nat /\ 1 \in 1 .. Len(q)
  <2>1. Len(q) \in Nat
    OBVIOUS
  <2> QED
    BY <2>1
<1>2. q[1].time \in Int /\ \A j \in 1 .. i - 1 : Behind(q)[j] \in Nat
  BY <1>1, BehindType
<1>3. IsFiniteSet(1 .. i - 1)
  BY <1>1, FS_Interval
<1>4. Cardinality(Shares(Behind(q), 1 .. i - 1)) \in Nat
  BY <1>2, <1>3, SharesFinite
<1> QED
  BY <1>2, <1>4 DEF Delay

\* Only what stands ahead counts.
LEMMA SameDelay ==
  ASSUME NEW J, NEW q \in Seq(Contexts(J)), NEW K, NEW r \in Seq(Contexts(K)),
         NEW i \in 1 .. Len(q), i <= Len(r),
         \A j \in 1 .. i : q[j].time = r[j].time
  PROVE  Delay(q, i) = Delay(r, i)
<1>1. Len(q) \in Nat /\ Len(r) \in Nat /\ i \in Nat /\ 1 \in 1 .. i
  <2>1. Len(q) \in Nat /\ Len(r) \in Nat
    OBVIOUS
  <2> QED
    BY <2>1
<1>2. ASSUME NEW j \in 1 .. i - 1 PROVE Behind(q)[j] = Behind(r)[j]
  <2>1. j \in 1 .. Len(q) - 1 /\ j \in 1 .. Len(r) - 1 /\ j + 1 \in 1 .. i
    BY <1>1
  <2> QED
    BY <2>1 DEF Behind
<1>3. Shares(Behind(q), 1 .. i - 1) = Shares(Behind(r), 1 .. i - 1)
  BY <1>2 DEF Shares
<1> QED
  BY <1>1, <1>3 DEF Delay

LEMMA EndsAtIs ==
  ASSUME VC \in Int, NEW J, NEW q \in Seq(Contexts(J)), NEW i \in 1 .. Len(q)
  PROVE  EndsAt(q, i) = VC + Delay(q, i)
<1> DEFINE s == SubSeq(q, 2, i)
           D == DOMAIN s
           base == VC + q[1].time
           X(ctx) == IF ctx.time > 1 THEN ctx.time - 1 ELSE 0
           f == Behind(q)
           Sums(g) == g = [S \in SUBSET D |->
                             IF S = {} THEN base
                             ELSE LET x == Max(S) IN g[S \ {x}] + X(s[x])]
           counts == [S \in SUBSET D |-> base + Cardinality(Shares(f, S))]
           sum == CHOOSE g : Sums(g)
<1>1. Len(q) \in Nat /\ i \in Nat /\ 1 \in 1 .. Len(q)
  <2>1. Len(q) \in Nat
    OBVIOUS
  <2> QED
    BY <2>1
<1>2. D = 1 .. i - 1 /\ \A x \in D : X(s[x]) = f[x] /\ f[x] \in Nat
  <2>1. /\ s \in Seq(Contexts(J))
        /\ Len(s) = IF 2 <= i THEN i - 2 + 1 ELSE 0
        /\ \A x \in 1 .. i - 2 + 1 : s[x] = q[2 + x - 1]
    <3>1. \A j \in 2 .. i : q[j] \in Contexts(J)
      BY <1>1, ElementOfSeq
    <3> QED
      BY <1>1, <3>1, SubSeqProperties
  <2>2. D = 1 .. i - 1
    BY <1>1, <2>1
  <2>3. ASSUME NEW x \in D PROVE X(s[x]) = f[x] /\ f[x] \in Nat
    <3>1. x \in 1 .. i - 2 + 1 /\ x \in 1 .. Len(q) - 1 /\ 2 + x - 1 = x + 1
      BY <1>1, <2>2
    <3>2. s[x] = q[x + 1]
      BY <2>1, <3>1
    <3>3. f[x] = X(q[x + 1])
      BY <3>1 DEF Behind
    <3> QED
      BY <3>1, <3>2, <3>3, BehindType
  <2> QED
    BY <2>2, <2>3
<1>3. EndsAt(q, i) = sum[D]
  BY Zenon DEF EndsAt, FoldLeft, MapThenFoldSet
<1>4. base \in Int
  BY <1>1, BehindType
<1> HIDE DEF s, f, base, D
<1>5. IsFiniteSet(D)
  BY <1>1, <1>2, FS_Interval
<1>6. ASSUME NEW S \in SUBSET D, S # {}
      PROVE  /\ Max(S) \in S
             /\ counts[S] = counts[S \ {Max(S)}] + X(s[Max(S)])
  <2>1. Max(S) \in S
    <3>1. i - 1 \in Nat /\ S \subseteq 0 .. i - 1
      BY <1>1, <1>2
    <3> QED
      BY <1>6, <3>1, MaxExists
  <2> DEFINE x == Max(S)
  <2>2. x \in S
    BY <2>1
  <2> HIDE DEF x
  <2>3. IsFiniteSet(S) /\ \A y \in S : f[y] \in Nat
    BY <1>2, <1>5, FS_Subset
  <2>4. Cardinality(Shares(f, S)) = f[x] + Cardinality(Shares(f, S \ {x}))
    BY <2>2, <2>3, SharesRemoved
  <2>5. Cardinality(Shares(f, S \ {x})) \in Nat
    <3>1. IsFiniteSet(S \ {x})
      BY <2>3, FS_Subset
    <3> QED
      BY <2>3, <3>1, SharesFinite
  <2>6. X(s[x]) = f[x] /\ f[x] \in Nat
    BY <1>2, <2>2
  <2>7. /\ counts[S] = base + Cardinality(Shares(f, S))
        /\ counts[S \ {x}] = base + Cardinality(Shares(f, S \ {x}))
    OBVIOUS
  <2> HIDE DEF counts, X
  <2>8. counts[S] = counts[S \ {x}] + X(s[x])
    BY <1>4, <2>4, <2>5, <2>6, <2>7
  <2> QED
    BY <2>1, <2>8 DEF x
<1>7. counts[{}] = base
  <2>1. Shares(f, {}) = {}
    BY DEF Shares
  <2>2. Cardinality(Shares(f, {})) = 0
    BY <2>1, FS_EmptySet
  <2> QED
    BY <1>4, <2>2
<1> HIDE DEF X
<1>8. Sums(counts)
  <2>1. counts = [S \in SUBSET D |-> counts[S]]
    OBVIOUS
  <2> HIDE DEF counts
  <2> QED
    BY <1>6, <1>7, <2>1
<1>9. Sums(sum)
  <2> HIDE DEF Sums
  <2> QED
    BY <1>8
<1> HIDE DEF sum, counts
<1>10. sum[{}] = base
  BY <1>9
<1>11. ASSUME NEW S \in SUBSET D, S # {}
       PROVE  \E x \in S : sum[S \ {x}] \in Int => sum[S] = sum[S \ {x}] + f[x]
  <2> DEFINE x == Max(S)
  <2>1. sum[S] = sum[S \ {x}] + X(s[x])
    BY <1>9, <1>11
  <2>2. x \in S
    BY <1>6, <1>11
  <2> HIDE DEF x
  <2>3. X(s[x]) = f[x]
    BY <1>2, <2>2
  <2> QED
    BY <2>1, <2>2, <2>3
<1>12. sum[D] = base + Cardinality(Shares(f, D))
  <2>1. \A x \in D : f[x] \in Nat
    BY <1>2
  <2> HIDE DEF Sums
  <2> QED
    BY <1>4, <1>5, <1>10, <1>11, <2>1, SumFromBase
<1>13. Cardinality(Shares(f, D)) \in Nat
  <2>1. \A x \in D : f[x] \in Nat
    BY <1>2
  <2> QED
    BY <1>5, <2>1, SharesFinite
<1>14. q[1].time \in Int
  BY <1>1, BehindType
<1>15. Delay(q, i) = q[1].time + Cardinality(Shares(f, D))
  BY <1>2 DEF Delay, f
<1> QED
  BY <1>3, <1>12, <1>13, <1>14, <1>15 DEF base
-----------------------------------------------------------------------------
(***************************************************************************)
(* A queue whose contexts end when the log says, as seen at `now': this is *)
(* kept by whatever happens to a queue.                                    *)
(***************************************************************************)
Timely(queue, now) ==
  /\ \A i \in 1 .. Len(queue) : queue[i].time \in 0 .. ioTime /\ queue[i].ahead \in Nat
  /\ queue # <<>> => queue[1].time >= 1
  /\ \A i \in 1 .. Len(queue) :
       /\ queue[i].ahead <= 1 => now + Delay(queue, i) <= queue[i].due
       /\ now + Delay(queue, i) >= queue[i].due - (IF queue[i].ahead = 0 THEN 1 ELSE 2)

\* None ends before the time it has itself.
LEMMA DelayCovers ==
  ASSUME ioTime \in Nat \ {0}, NEW J, NEW q \in Seq(Contexts(J)), NEW now, Timely(q, now),
         NEW i \in 1 .. Len(q)
  PROVE  Delay(q, i) \in Int /\ Delay(q, i) >= q[i].time
<1>1. Len(q) \in Nat /\ 1 \in 1 .. Len(q)
  <2>1. Len(q) \in Nat
    OBVIOUS
  <2> QED
    BY <2>1
<1>2. q # <<>> /\ q[1].time \in Int /\ q[1].time >= 1
  <2>1. q # <<>>
    BY <1>1
  <2> QED
    BY <1>1, <2>1, BehindType DEF Timely
<1>3. CASE i = 1
  BY <1>2, <1>3, FirstDelay
<1>4. CASE i # 1
  <2> DEFINE k == i - 1
  <2>1. k \in 1 .. Len(q) - 1 /\ k + 1 = i /\ k \in 1 .. Len(q)
    BY <1>1, <1>4
  <2> HIDE DEF k
  <2>2. Delay(q, i) = Delay(q, k) + Behind(q)[k]
    BY <2>1, NextDelay
  <2>3. Delay(q, k) \in Int /\ Delay(q, k) >= q[1].time
    BY <2>1, DelayType
  <2>4. Behind(q)[k] = IF q[i].time > 1 THEN q[i].time - 1 ELSE 0
    BY <2>1 DEF Behind
  <2>5. q[i].time \in Int
    BY BehindType
  <2> QED
    BY <1>2, <2>2, <2>3, <2>4, <2>5
<1> QED
  BY <1>3, <1>4

\* A context is added behind the others.
LEMMA TimelyAdded ==
  ASSUME ioTime \in Nat \ {0}, NEW J, NEW q \in Seq(Contexts(J)), NEW now \in Int,
         Timely(q, now),
         NEW c \in Contexts(J),
         c.time = IF q = <<>> THEN ioTime ELSE ioTime - Last(q).time,
         c.ahead = Len(q), c.due \in {now + ioTime, now + 1 + ioTime}
  PROVE  Timely(Append(q, c), now)
<1> DEFINE r == Append(q, c)
           n == Len(q)
<1>1. /\ r \in Seq(Contexts(J)) /\ r # <<>> /\ n \in Nat /\ Len(r) = n + 1
      /\ \A i \in 1 .. n : r[i] = q[i]
      /\ r[n + 1] = c
  BY AppendProperties
<1>2. c.time \in Int /\ c.due \in Int /\ c.ahead = n
  BY DEF Contexts
<1>3. q = <<>> <=> n = 0
  BY EmptySeq
<1> HIDE DEF r, n
<1>4. ASSUME NEW i \in 1 .. n PROVE Delay(r, i) = Delay(q, i)
  <2>1. i \in 1 .. Len(q) /\ i <= Len(r) /\ \A j \in 1 .. i : q[j].time = r[j].time
    BY <1>1 DEF n
  <2> QED
    BY <1>1, <2>1, SameDelay
<1>5. CASE n = 0
  <2>1. c.time = ioTime /\ r[1] = c /\ Len(r) = 1
    BY <1>1, <1>3, <1>5
  <2>2. Delay(r, 1) = ioTime
    BY <1>1, <2>1, FirstDelay
  <2>3. c.due = now + ioTime \/ c.due = now + 1 + ioTime
    OBVIOUS
  <2>4. /\ now + Delay(r, 1) <= c.due
        /\ now + Delay(r, 1) >= c.due - 1
    BY <2>2, <2>3
  <2>5. \A i \in 1 .. Len(r) : i = 1
    BY <2>1
  <2> QED
    BY <1>2, <1>5, <2>1, <2>4, <2>5 DEF Timely, r
<1>6. CASE n # 0
  <2> DEFINE t == q[n].time
             d == Delay(q, n)
  <2>1. n \in 1 .. Len(q) /\ n \in 1 .. Len(r) - 1 /\ 1 \in 1 .. n
    BY <1>1, <1>6 DEF n
  <2>2. c.time = ioTime - t /\ t \in 0 .. ioTime
    BY <1>3, <1>6, <2>1 DEF Last, Timely, n
  <2>3. d \in Int /\ d >= t
    BY <2>1, DelayCovers
  <2>4. n = 1 => d = t
    BY <1>3, <1>6, FirstDelay
  <2>5. Delay(r, n + 1) = d + (IF c.time > 1 THEN c.time - 1 ELSE 0)
    <3>1. Delay(r, n + 1) = Delay(r, n) + Behind(r)[n]
      BY <1>1, <2>1, NextDelay
    <3>2. Behind(r)[n] = IF r[n + 1].time > 1 THEN r[n + 1].time - 1 ELSE 0
      BY <2>1 DEF Behind
    <3>3. Delay(r, n) = d
      <4>1. n \in 1 .. n
        BY <1>1, <1>6
      <4> QED
        BY <1>4, <4>1
    <3> QED
      BY <1>1, <3>1, <3>2, <3>3
  <2> HIDE DEF t, d
  <2>6. c.due = now + ioTime \/ c.due = now + 1 + ioTime
    OBVIOUS
  <2>7. /\ n = 1 => now + Delay(r, n + 1) <= c.due
        /\ now + Delay(r, n + 1) >= c.due - 2
    <3> DEFINE e == Delay(r, n + 1)
               u == c.due
    <3>1. u = now + ioTime \/ u = now + 1 + ioTime
      BY <2>6
    <3>2. e = d + (IF ioTime - t > 1 THEN ioTime - t - 1 ELSE 0)
      BY <2>2, <2>5
    <3> HIDE DEF e, u
    <3>3. (n = 1 => now + e <= u) /\ now + e >= u - 2
      BY <2>2, <2>3, <2>4, <3>1, <3>2
    <3> QED
      BY <3>3 DEF e, u
  <2>8. c.time \in 0 .. ioTime
    BY <2>2
  <2>9. \A i \in 1 .. Len(r) : i \in 1 .. n \/ i = n + 1
    BY <1>1
  <2>10. \A i \in 1 .. Len(r) : r[i].time \in 0 .. ioTime /\ r[i].ahead \in Nat
    BY <1>1, <1>2, <2>8, <2>9 DEF Timely, n
  <2>11. r[1].time >= 1
    BY <1>1, <1>3, <1>6, <2>1 DEF Timely
  <2>12. ASSUME NEW i \in 1 .. Len(r)
         PROVE  /\ r[i].ahead <= 1 => now + Delay(r, i) <= r[i].due
                /\ now + Delay(r, i) >= r[i].due - (IF r[i].ahead = 0 THEN 1 ELSE 2)
    <3>1. CASE i \in 1 .. n
      <4>1. r[i] = q[i] /\ Delay(r, i) = Delay(q, i) /\ i \in 1 .. Len(q)
        BY <1>1, <1>4, <3>1 DEF n
      <4> QED
        BY <4>1 DEF Timely
    <3>2. CASE i = n + 1
      <4>1. r[i] = c /\ (c.ahead <= 1 => n = 1) /\ c.ahead # 0
        BY <1>1, <1>2, <1>6, <3>2
      <4> QED
        BY <2>7, <3>2, <4>1
    <3> QED
      BY <2>9, <3>1, <3>2
  <2> QED
    BY <2>10, <2>11, <2>12 DEF Timely, r
<1> QED
  BY <1>5, <1>6
\* What ends had no time left, and the one behind it has lost a tick.
LEMMA EndingTimes ==
  ASSUME NEW J, NEW q \in Seq(Contexts(J))
  PROVE  LET n == EndingNow(q)
             r == CountedDown(q)
         IN  /\ n \in 0 .. Len(q) /\ Len(q) \in Nat
             /\ r \in Seq(Contexts(J)) /\ Len(r) = Len(q) - n
             /\ \A i \in 1 .. n : q[i].time <= 1
             /\ n < Len(q) => q[n + 1].time > 1
             /\ \A i \in 1 .. Len(r) :
                  /\ r[i].due = q[n + i].due /\ r[i].ahead = q[n + i].ahead
                  /\ r[i].time = IF i = 1 THEN q[n + i].time - 1 ELSE q[n + i].time
<1> DEFINE n == EndingNow(q)
           r == CountedDown(q)
           rest == SubSeq(q, n + 1, Len(q))
           I == {i \in 1 .. Len(q) : q[i].time > 1}
<1>1. /\ n \in 0 .. Len(q) /\ Len(q) \in Nat
      /\ r \in Seq(Contexts(J)) /\ Len(r) = Len(q) - n
  BY CountedDownIs
<1>2. /\ \A i \in 1 .. n : q[i].time <= 1
      /\ n < Len(q) => q[n + 1].time > 1
  <2>1. n = IF I = {} THEN Len(q) ELSE Min(I) - 1
    <3>1. SelectInSeq(q, LAMBDA ctx : ctx.time > 1) = IF I # {} THEN Min(I) ELSE 0
      BY DEF SelectInSeq
    <3>2. I # {} => Min(I) # 0
      <4>1. I \subseteq Nat /\ 0 \notin I
        OBVIOUS
      <4> HIDE DEF I
      <4> QED
        BY <4>1, MinExists
    <3> HIDE DEF I
    <3> QED
      BY <3>1, <3>2 DEF EndingNow
  <2>2. \A i \in 1 .. Len(q) : q[i].time \in Int
    BY BehindType
  <2> HIDE DEF n
  <2>3. CASE I = {}
    <3>1. n = Len(q)
      BY <2>1, <2>3
    <3>2. \A i \in 1 .. Len(q) : ~ (q[i].time > 1)
      BY <2>3
    <3> QED
      BY <1>1, <2>2, <3>1, <3>2
  <2>4. CASE I # {}
    <3>1. Min(I) \in I /\ \A x \in I : Min(I) <= x
      <4>1. I \subseteq Nat
        OBVIOUS
      <4> HIDE DEF I
      <4> QED
        BY <2>4, <4>1, MinExists
    <3>2. n = Min(I) - 1
      BY <2>1, <2>4
    <3> DEFINE m == Min(I)
    <3>3. m \in 1 .. Len(q) /\ q[m].time > 1 /\ n + 1 = m
      BY <1>1, <3>1, <3>2
    <3> HIDE DEF m
    <3>4. ASSUME NEW i \in 1 .. n PROVE q[i].time <= 1
      <4>1. i \in 1 .. Len(q) /\ ~ (m <= i)
        BY <1>1, <3>3
      <4>2. i \notin I
        BY <3>1, <4>1 DEF m
      <4>3. ~ (q[i].time > 1)
        BY <4>1, <4>2
      <4> QED
        BY <2>2, <4>1, <4>3
    <3> QED
      BY <3>3, <3>4
  <2> QED
    BY <2>3, <2>4
<1>3. r = IF rest = <<>> THEN rest ELSE [rest EXCEPT ![1].time = @ - 1]
  BY DEF CountedDown
<1> HIDE DEF n, r, I
<1>4. /\ rest \in Seq(Contexts(J)) /\ Len(rest) = Len(q) - n
      /\ \A i \in 1 .. Len(rest) : rest[i] = q[n + i]
  <2>1. \A i \in n + 1 .. Len(q) : q[i] \in Contexts(J)
    BY <1>1, ElementOfSeq
  <2> QED
    BY <1>1, <2>1, SubSeqProperties
<1> HIDE DEF rest
<1>5. ASSUME NEW i \in 1 .. Len(r)
      PROVE  /\ r[i].due = q[n + i].due /\ r[i].ahead = q[n + i].ahead
             /\ r[i].time = IF i = 1 THEN q[n + i].time - 1 ELSE q[n + i].time
  <2>1. 1 \in 1 .. Len(rest) /\ i \in 1 .. Len(rest) /\ rest # <<>>
    <3>1. 1 \in 1 .. Len(rest) /\ i \in 1 .. Len(rest)
      BY <1>1, <1>4
    <3> QED
      BY <3>1
  <2>2. rest[1] \in Contexts(J)
    BY <1>4, <2>1, ElementOfSeq
  <2> DEFINE e == [rest[1] EXCEPT !.time = @ - 1]
  <2>3. /\ e \in Contexts(J) /\ e.due = rest[1].due /\ e.ahead = rest[1].ahead
        /\ e.time = rest[1].time - 1
    <3> DEFINE c == rest[1]
    <3>1. c \in [job : J, time : Int, due : Int, ahead : Int] /\ e = [c EXCEPT !.time = @ - 1]
      BY <2>2 DEF Contexts
    <3> HIDE DEF c, e
    <3>2. e \in [job : J, time : Int, due : Int, ahead : Int]
      BY <3>1
    <3>3. e.due = c.due /\ e.ahead = c.ahead /\ e.time = c.time - 1
      BY <3>1
    <3> QED
      BY <3>2, <3>3 DEF c, Contexts
  <2>4. r = [rest EXCEPT ![1] = e]
    BY <1>3, <2>1
  <2> HIDE DEF e
  <2>5. r[i] = IF i = 1 THEN e ELSE rest[i]
    BY <1>4, <2>1, <2>3, <2>4, ExceptSeq
  <2>6. rest[i] = q[n + i]
    BY <1>4, <2>1
  <2> QED
    BY <2>3, <2>5, <2>6
<1> QED
  BY <1>1, <1>2, <1>5 DEF n, r

\* The contexts that are left end when they would have ended.
LEMMA CountedDownDelay ==
  ASSUME ioTime \in Nat \ {0}, NEW J, NEW q \in Seq(Contexts(J)), NEW now, Timely(q, now),
         NEW i \in 1 .. Len(CountedDown(q))
  PROVE  Delay(CountedDown(q), i) = Delay(q, EndingNow(q) + i) - 1
<1> DEFINE n == EndingNow(q)
           r == CountedDown(q)
<1>1. /\ n \in 0 .. Len(q) /\ Len(q) \in Nat
      /\ r \in Seq(Contexts(J)) /\ Len(r) = Len(q) - n
      /\ \A j \in 1 .. n : q[j].time <= 1
      /\ n < Len(q) => q[n + 1].time > 1
      /\ \A j \in 1 .. Len(r) :
           r[j].time = IF j = 1 THEN q[n + j].time - 1 ELSE q[n + j].time
  BY EndingTimes
<1> HIDE DEF n, r
<1>2. \A j \in 1 .. Len(q) : q[j].time \in Int
  BY BehindType
<1>3. 1 \in 1 .. Len(q) /\ q # <<>> /\ q[1].time >= 1 /\ q[1].time \in Int
  <2>1. 1 \in 1 .. Len(q)
    BY <1>1 DEF r
  <2>2. q # <<>>
    BY <2>1
  <2> QED
    BY <1>2, <2>1, <2>2 DEF Timely
\* All that end now have the delay 1.
<1>4. \A m \in 1 .. n : Delay(q, m) = 1
  <2> DEFINE S == {m \in Nat : m + 1 <= n => Delay(q, m + 1) = 1}
  <2>1. 0 \in S
    <3>1. CASE n = 0
      BY <3>1
    <3>2. CASE n # 0
      <4>1. 1 \in 1 .. n
        BY <1>1, <3>2
      <4>2. q[1].time = 1
        BY <1>1, <1>3, <4>1
      <4>3. Delay(q, 1) = 1
        BY <1>3, <4>2, FirstDelay
      <4> QED
        BY <4>3
    <3> QED
      BY <3>1, <3>2
  <2>2. ASSUME NEW m \in S \cap Nat PROVE m + 1 \in S
    <3> SUFFICES ASSUME (m + 1) + 1 <= n PROVE Delay(q, (m + 1) + 1) = 1
      OBVIOUS
    <3> DEFINE k == m + 1
    <3>1. k \in 1 .. Len(q) - 1 /\ k + 1 \in 1 .. n /\ k + 1 \in 1 .. Len(q)
      BY <1>1
    <3>2. Delay(q, k) = 1
      BY <1>1
    <3> HIDE DEF k
    <3>3. Delay(q, k + 1) = Delay(q, k) + Behind(q)[k]
      BY <3>1, NextDelay
    <3>4. ~ (q[k + 1].time > 1)
      BY <1>1, <1>2, <3>1
    <3>5. Behind(q)[k] = 0
      BY <3>1, <3>4 DEF Behind
    <3>6. Delay(q, k + 1) = 1
      BY <3>2, <3>3, <3>5
    <3> QED
      BY <3>6 DEF k
  <2>3. Nat \subseteq S
    <3> HIDE DEF S
    <3> QED
      BY <2>1, <2>2, InductionOverSet
  <2> SUFFICES ASSUME NEW m \in 1 .. n PROVE Delay(q, m) = 1
    OBVIOUS
  <2>4. m - 1 \in Nat /\ (m - 1) + 1 = m /\ m <= n
    BY <1>1
  <2>5. m - 1 \in S
    <3> HIDE DEF S
    <3> QED
      BY <2>3, <2>4
  <2> QED
    BY <2>4, <2>5
<1>5. n < Len(q) => /\ Delay(r, 1) = Delay(q, n + 1) - 1
                    /\ 1 \in 1 .. Len(r)
  <2> SUFFICES ASSUME n < Len(q)
               PROVE  Delay(r, 1) = Delay(q, n + 1) - 1 /\ 1 \in 1 .. Len(r)
    OBVIOUS
  <2>1. 1 \in 1 .. Len(r) /\ n + 1 \in 1 .. Len(q)
    BY <1>1
  <2>2. r # <<>>
    BY <2>1
  <2>3. Delay(r, 1) = q[n + 1].time - 1
    <3>1. Delay(r, 1) = r[1].time
      BY <1>1, <2>2, FirstDelay
    <3> QED
      BY <1>1, <2>1, <3>1
  <2>4. CASE n = 0
    BY <1>2, <1>3, <2>1, <2>3, <2>4, FirstDelay
  <2>5. CASE n # 0
    <3>1. n \in 1 .. n /\ n \in 1 .. Len(q) - 1
      BY <1>1, <2>5
    <3>2. Delay(q, n + 1) = Delay(q, n) + Behind(q)[n]
      BY <3>1, NextDelay
    <3>3. Behind(q)[n] = q[n + 1].time - 1
      BY <1>1, <3>1 DEF Behind
    <3>4. Delay(q, n) = 1
      BY <1>4, <3>1
    <3> QED
      BY <1>2, <2>1, <2>3, <3>2, <3>3, <3>4
  <2> QED
    BY <2>1, <2>4, <2>5
<1>6. \A m \in 1 .. Len(r) : Delay(r, m) = Delay(q, n + m) - 1
  <2> DEFINE S == {m \in Nat : m + 1 <= Len(r) => Delay(r, m + 1) = Delay(q, n + (m + 1)) - 1}
  <2>1. 0 \in S
    <3>1. 0 + 1 <= Len(r) => Delay(r, 0 + 1) = Delay(q, n + (0 + 1)) - 1
      BY <1>1, <1>5
    <3> QED
      BY <3>1
  <2>2. ASSUME NEW m \in S \cap Nat PROVE m + 1 \in S
    <3> SUFFICES ASSUME (m + 1) + 1 <= Len(r)
                 PROVE  Delay(r, (m + 1) + 1) = Delay(q, n + ((m + 1) + 1)) - 1
      OBVIOUS
    <3> DEFINE k == m + 1
               h == n + k
    <3>1. /\ k \in 1 .. Len(r) - 1 /\ k + 1 \in 1 .. Len(r) /\ k + 1 # 1
          /\ h \in 1 .. Len(q) - 1 /\ h + 1 = n + (k + 1) /\ h + 1 \in 1 .. Len(q)
          /\ h \in 1 .. Len(q)
      BY <1>1
    <3>2. Delay(r, k) = Delay(q, h) - 1
      BY <1>1
    <3> HIDE DEF k, h
    <3>3. Delay(r, k + 1) = Delay(r, k) + Behind(r)[k]
      BY <1>1, <3>1, NextDelay
    <3>4. Delay(q, h + 1) = Delay(q, h) + Behind(q)[h]
      BY <3>1, NextDelay
    <3>5. r[k + 1].time = q[h + 1].time
      BY <1>1, <3>1
    <3>6. Behind(r)[k] = Behind(q)[h]
      BY <3>1, <3>5 DEF Behind
    <3>7. Delay(q, h) \in Int /\ Behind(q)[h] \in Nat
      BY <3>1, DelayType, BehindType
    <3>8. Delay(r, k + 1) = Delay(q, n + (k + 1)) - 1
      BY <3>1, <3>2, <3>3, <3>4, <3>6, <3>7
    <3> QED
      BY <3>8 DEF k
  <2>3. Nat \subseteq S
    <3> HIDE DEF S
    <3> QED
      BY <2>1, <2>2, InductionOverSet
  <2> SUFFICES ASSUME NEW m \in 1 .. Len(r) PROVE Delay(r, m) = Delay(q, n + m) - 1
    OBVIOUS
  <2>4. m - 1 \in Nat /\ (m - 1) + 1 = m /\ m <= Len(r)
    BY <1>1
  <2>5. m - 1 \in S
    <3> HIDE DEF S
    <3> QED
      BY <2>3, <2>4
  <2> QED
    BY <2>4, <2>5
<1> QED
  BY <1>6 DEF n, r

LEMMA TimelyCountedDown ==
  ASSUME ioTime \in Nat \ {0}, NEW J, NEW q \in Seq(Contexts(J)), NEW now \in Int,
         Timely(q, now)
  PROVE  Timely(CountedDown(q), now + 1)
<1> DEFINE n == EndingNow(q)
           r == CountedDown(q)
<1>1. /\ n \in 0 .. Len(q) /\ Len(q) \in Nat
      /\ r \in Seq(Contexts(J)) /\ Len(r) = Len(q) - n
      /\ n < Len(q) => q[n + 1].time > 1
      /\ \A i \in 1 .. Len(r) :
           /\ r[i].due = q[n + i].due /\ r[i].ahead = q[n + i].ahead
           /\ r[i].time = IF i = 1 THEN q[n + i].time - 1 ELSE q[n + i].time
  BY EndingTimes
<1>2. \A i \in 1 .. Len(r) : Delay(r, i) = Delay(q, n + i) - 1
  BY CountedDownDelay
<1> HIDE DEF n, r
<1>3. ASSUME NEW i \in 1 .. Len(r)
      PROVE  /\ r[i].time \in 0 .. ioTime /\ r[i].ahead \in Nat
             /\ i = 1 => r[i].time >= 1
             /\ r[i].ahead <= 1 => now + 1 + Delay(r, i) <= r[i].due
             /\ now + 1 + Delay(r, i) >= r[i].due - (IF r[i].ahead = 0 THEN 1 ELSE 2)
  <2> DEFINE k == n + i
  <2>1. k \in 1 .. Len(q) /\ (i = 1 => k = n + 1 /\ n < Len(q))
    BY <1>1
  <2>2. /\ r[i].due = q[k].due /\ r[i].ahead = q[k].ahead
        /\ r[i].time = IF i = 1 THEN q[k].time - 1 ELSE q[k].time
        /\ Delay(r, i) = Delay(q, k) - 1
    BY <1>1, <1>2
  <2> HIDE DEF k
  <2>3. Delay(q, k) \in Int /\ q[k].due \in Int
    BY <2>1, DelayType, BehindType
  <2>4. /\ q[k].time \in 0 .. ioTime /\ q[k].ahead \in Nat
        /\ q[k].ahead <= 1 => now + Delay(q, k) <= q[k].due
        /\ now + Delay(q, k) >= q[k].due - (IF q[k].ahead = 0 THEN 1 ELSE 2)
    BY <2>1 DEF Timely
  <2>5. i = 1 => q[k].time > 1
    BY <1>1, <2>1
  <2>6. now + 1 + Delay(r, i) = now + Delay(q, k)
    BY <2>2, <2>3
  <2>7. r[i].time \in 0 .. ioTime /\ (i = 1 => r[i].time >= 1)
    BY <2>2, <2>4, <2>5
  <2> QED
    BY <2>2, <2>4, <2>6, <2>7
<1>4. r # <<>> => 1 \in 1 .. Len(r)
  BY <1>1, EmptySeq
<1> QED
  BY <1>3, <1>4 DEF Timely, r
LEMMA AppendBehind ==
  ASSUME NEW S, NEW a \in Seq(S), NEW b \in Seq(S), NEW e \in S
  PROVE  a \o Append(b, e) = Append(a \o b, e)
<1>1. <<e>> \in Seq(S) /\ a \o b \in Seq(S)
  BY ConcatParts
<1>2. Append(b, e) = b \o <<e>> /\ Append(a \o b, e) = (a \o b) \o <<e>>
  BY <1>1, AppendIsConcat
<1> DEFINE u == <<e>>
<1>3. u \in Seq(S)
  BY <1>1
<1> HIDE DEF u
<1>4. (a \o b) \o u = a \o (b \o u)
  BY <1>3, ConcatAssociative
<1> QED
  BY <1>2, <1>4 DEF u

\* removeWait, for each output that releases an input.
LEMMA TimelyReleased ==
  ASSUME ioTime \in Nat \ {0}, VC \in Int, IoTypes, NEW order \in Seq(Releasing),
         Timely(ioIn, VC)
  PROVE  RemoveWait(order) \in Seq(Contexts(Pages)) /\ Timely(RemoveWait(order), VC)
<1> DEFINE m == Len(order)
           first == Context(NoPage, ioIn, VC + 1).time
           Item(k) == [job   |-> ioWait[Owner(order[k])],
                       time  |-> IF k % 2 = 1 THEN first ELSE ioTime - first,
                       due   |-> VC + 1 + ioTime,
                       ahead |-> Len(ioIn) + k - 1]
           Added(k) == [j \in 1 .. k |-> Item(j)]
           Part(k) == ioIn \o Added(k)
<1>1. /\ ioIn \in Seq(Contexts(Pages)) /\ Len(ioIn) \in Nat /\ m \in Nat
      /\ RemoveWait(order) = Part(m)
  BY DEF IoTypes, RemoveWait
<1>2. first = IF ioIn = <<>> THEN ioTime ELSE ioTime - Last(ioIn).time
  BY DEF Context
<1>3. first \in 0 .. ioTime
  <2>1. ioIn # <<>> => Last(ioIn).time \in 0 .. ioTime
    <3>1. ioIn # <<>> => Len(ioIn) \in 1 .. Len(ioIn)
      BY <1>1, EmptySeq
    <3> QED
      BY <3>1 DEF Last, Timely
  <2> HIDE DEF first
  <2> QED
    BY <1>2, <2>1
<1> HIDE DEF first, m
<1>4. ASSUME NEW k \in 1 .. m
      PROVE  /\ Item(k) \in Contexts(Pages)
             /\ Item(k).time = IF k % 2 = 1 THEN first ELSE ioTime - first
             /\ Item(k).due = VC + 1 + ioTime /\ Item(k).ahead = Len(ioIn) + k - 1
  <2>1. IsRelease(order[k])
    BY ReleasingIs, ElementOfSeq DEF m
  <2>2. ioWait[Owner(order[k])] \in Pages
    BY <2>1 DEF IsRelease, Waiting, IoTypes
  <2>3. (IF k % 2 = 1 THEN first ELSE ioTime - first) \in Int
    BY <1>3
  <2>4. VC + 1 + ioTime \in Int /\ Len(ioIn) + k - 1 \in Int
    BY <1>1
  <2> QED
    BY <2>2, <2>3, <2>4 DEF Contexts
<1> HIDE DEF Item
<1>5. \A k \in 0 .. m : Added(k) \in Seq(Contexts(Pages)) /\ Len(Added(k)) = k
  <2> SUFFICES ASSUME NEW k \in 0 .. m
               PROVE  Added(k) \in Seq(Contexts(Pages)) /\ Len(Added(k)) = k
    OBVIOUS
  <2>1. k \in Nat /\ \A j \in 1 .. k : Item(j) \in Contexts(Pages)
    BY <1>1, <1>4
  <2>2. Added(k) \in [1 .. k -> Contexts(Pages)]
    BY <2>1
  <2> QED
    BY <2>1, <2>2
<1>6. \A k \in 0 .. m : \A j \in 1 .. k : Added(k)[j] = Item(j)
  OBVIOUS
<1> HIDE DEF Added
<1>7. \A k \in 0 .. m : Part(k) \in Seq(Contexts(Pages)) /\ Len(Part(k)) = Len(ioIn) + k
  <2> SUFFICES ASSUME NEW k \in 0 .. m
               PROVE  Part(k) \in Seq(Contexts(Pages)) /\ Len(Part(k)) = Len(ioIn) + k
    OBVIOUS
  <2>1. Added(k) \in Seq(Contexts(Pages)) /\ Len(Added(k)) = k
    BY <1>5
  <2> QED
    BY <1>1, <2>1, ConcatParts
<1>8. ASSUME NEW k \in 0 .. m - 1 PROVE Part(k + 1) = Append(Part(k), Item(k + 1))
  <2>1. k \in 0 .. m /\ k + 1 \in 0 .. m /\ k + 1 \in 1 .. m /\ k \in Nat
    BY <1>1
  <2>2. Item(k + 1) \in Contexts(Pages)
    BY <1>4, <2>1
  <2> DEFINE e == Item(k + 1)
             s == Added(k)
             t == Added(k + 1)
  <2>3. /\ s \in Seq(Contexts(Pages)) /\ Len(s) = k
        /\ t \in Seq(Contexts(Pages)) /\ Len(t) = k + 1
        /\ \A j \in 1 .. k : s[j] = t[j]
        /\ t[k + 1] = e
    <3>1. \A j \in 1 .. k : s[j] = Item(j) /\ t[j] = Item(j)
      <4>1. \A j \in 1 .. k : j \in 1 .. k + 1
        BY <2>1
      <4> QED
        BY <1>6, <2>1, <4>1
    <3>2. t[k + 1] = e
      <4>1. k + 1 \in 1 .. k + 1
        BY <2>1
      <4> QED
        BY <1>6, <2>1, <4>1
    <3> QED
      BY <1>5, <2>1, <3>1, <3>2
  <2>4. e \in Contexts(Pages)
    BY <2>2
  <2> HIDE DEF s, t, e
  <2>5. /\ Append(s, e) \in Seq(Contexts(Pages)) /\ Len(Append(s, e)) = k + 1
        /\ \A j \in 1 .. k : Append(s, e)[j] = s[j]
        /\ Append(s, e)[k + 1] = e
    BY <2>3, <2>4, AppendProperties
  <2>6. \A j \in 1 .. Len(t) : t[j] = Append(s, e)[j]
    <3>1. \A j \in 1 .. k + 1 : j \in 1 .. k \/ j = k + 1
      BY <2>1
    <3> QED
      BY <2>3, <2>5, <3>1
  <2>7. t = Append(s, e)
    BY <2>3, <2>5, <2>6, SeqEqual
  <2>8. ioIn \o Append(s, e) = Append(ioIn \o s, e)
    BY <1>1, <2>3, <2>4, AppendBehind
  <2> QED
    BY <2>7, <2>8 DEF e, s, t
<1>9. \A k \in 1 .. m : Last(Part(k)) = Item(k)
  <2> SUFFICES ASSUME NEW k \in 1 .. m PROVE Last(Part(k)) = Item(k)
    OBVIOUS
  <2>1. k \in 0 .. m /\ k \in 1 .. k
    BY <1>1
  <2>2. Added(k) \in Seq(Contexts(Pages)) /\ Len(Added(k)) = k /\ Added(k)[k] = Item(k)
    BY <1>5, <1>6, <2>1
  <2>3. Part(k)[Len(ioIn) + k] = Added(k)[k]
    BY <1>1, <2>1, <2>2, ConcatParts
  <2> QED
    BY <1>7, <2>1, <2>2, <2>3 DEF Last
<1>10. Part(0) = ioIn
  <2>1. 0 \in 0 .. m
    BY <1>1
  <2>2. Added(0) = <<>>
    BY <1>5, <2>1, EmptySeq
  <2> QED
    BY <1>1, <2>2, ConcatEmptySeq
<1> DEFINE S == {k \in Nat : k <= m => Timely(Part(k), VC)}
<1>11. 0 \in S
  BY <1>10
<1>12. ASSUME NEW k \in S \cap Nat PROVE k + 1 \in S
  <2> SUFFICES ASSUME k + 1 <= m PROVE Timely(Part(k + 1), VC)
    OBVIOUS
  <2>1. k \in 0 .. m - 1 /\ k \in 0 .. m /\ k + 1 \in 1 .. m /\ k \in Nat
    BY <1>1
  <2> DEFINE q == Part(k)
             c == Item(k + 1)
  <2>2. q \in Seq(Contexts(Pages)) /\ Len(q) = Len(ioIn) + k /\ Timely(q, VC)
    BY <1>1, <1>7, <2>1
  <2>3. /\ c \in Contexts(Pages)
        /\ c.time = IF (k + 1) % 2 = 1 THEN first ELSE ioTime - first
        /\ c.due = VC + 1 + ioTime /\ c.ahead = Len(ioIn) + (k + 1) - 1
    BY <1>4, <2>1
  <2>4. c.ahead = Len(q)
    BY <1>1, <2>1, <2>2, <2>3
  <2>5. c.time = IF q = <<>> THEN ioTime ELSE ioTime - Last(q).time
    <3>1. CASE k = 0
      <4>1. q = ioIn /\ c.time = first
        BY <1>10, <2>3, <3>1
      <4> QED
        BY <1>2, <4>1
    <3>2. CASE k # 0
      <4>1. k \in 1 .. m /\ q # <<>>
        BY <1>1, <2>1, <2>2, <3>2, EmptySeq
      <4>2. Last(q).time = IF k % 2 = 1 THEN first ELSE ioTime - first
        BY <1>4, <1>9, <4>1
      <4>3. (k + 1) % 2 = 1 <=> k % 2 # 1
        BY <2>1
      <4>4. c.time = ioTime - Last(q).time
        <5> HIDE DEF q, c
        <5> QED
          BY <1>3, <2>3, <4>2, <4>3
      <4> QED
        BY <4>1, <4>4
    <3> QED
      BY <3>1, <3>2
  <2>6. Timely(Append(q, c), VC)
    <3> HIDE DEF q, c
    <3> QED
      BY <2>2, <2>3, <2>4, <2>5, TimelyAdded
  <2> QED
    BY <1>8, <2>1, <2>6
<1>13. Nat \subseteq S
  <2> HIDE DEF S
  <2> QED
    BY <1>11, <1>12, InductionOverSet
<1>14. Timely(Part(m), VC)
  BY <1>1, <1>13
<1>15. m \in 0 .. m
  BY <1>1
<1> QED
  BY <1>1, <1>7, <1>14, <1>15

-----------------------------------------------------------------------------
(***************************************************************************)
(* All queues are like this all the time.                                  *)
(***************************************************************************)
TimelyQueues ==
  /\ ioTime \in Nat \ {0}
  /\ \A p \in Procs : Timely(ioOut[p], VC)
  /\ Timely(ioIn, VC)

LEMMA TimelyEmpty == \A now : Timely(<<>>, now)
  BY DEF Timely

LEMMA InitTimely ==
  ASSUME Init
  PROVE  TimelyQueues
<1>1. PICK s \in Settings : IoInit(s.io)
  BY DEF Init
<1>2. s.io \in Nat \ {0}
  BY VmmAssumption
<1>3. ioTime = s.io /\ ioOut = [p \in Procs |-> <<>>] /\ ioIn = <<>>
  BY <1>1 DEF IoInit
<1> QED
  BY <1>2, <1>3, TimelyEmpty DEF TimelyQueues

LEMMA TickTimely ==
  ASSUME IInv, TimelyQueues, Tick
  PROVE  TimelyQueues'
<1>1. IoTypes /\ VC \in Int /\ ioTime \in Nat \ {0} /\ Timely(ioIn, VC)
  BY DEF IInv, Types, TableTypes, TimelyQueues
<1>2. PICK order \in ReleaseOrders : ioIn' = CountedDown(RemoveWait(order))
  BY DEF Tick
<1>3. order \in Seq(Releasing)
  <2>1. order \in SetToSeqs(Releasing)
    BY DEF ReleaseOrders
  <2> QED
    BY <1>1, <2>1, ReleasingFinite, OrderOfSet
<1>4. RemoveWait(order) \in Seq(Contexts(Pages)) /\ Timely(RemoveWait(order), VC)
  BY <1>1, <1>3, TimelyReleased
<1>5. VC' = VC + 1 /\ ioTime' = ioTime
  BY DEF Tick
<1>6. Timely(ioIn', VC + 1)
  BY <1>1, <1>2, <1>4, TimelyCountedDown
<1>7. ASSUME NEW p \in Procs PROVE Timely(ioOut'[p], VC + 1)
  <2>1. ioOut'[p] = CountedDown(ioOut[p])
    BY DEF Tick
  <2>2. ioOut[p] \in Seq(Contexts(Pages \cup {NoPage})) /\ Timely(ioOut[p], VC)
    BY <1>1 DEF IoTypes, TimelyQueues
  <2> QED
    BY <1>1, <2>1, <2>2, TimelyCountedDown
<1>8. Timely(ioIn, VC)'
  BY <1>5, <1>6 DEF Timely
<1>9. ASSUME NEW p \in Procs PROVE Timely(ioOut[p], VC)'
  BY <1>5, <1>7 DEF Timely
<1> QED
  BY <1>1, <1>5, <1>8, <1>9 DEF TimelyQueues

LEMMA ScheduleTimely ==
  ASSUME IInv, TimelyQueues, Schedule
  PROVE  TimelyQueues'
<1>1. /\ IoTypes /\ VC \in Int /\ ioTime \in Nat \ {0} /\ Timely(ioIn, VC)
      /\ \A p \in Procs : Timely(ioOut[p], VC)
  BY DEF IInv, Types, TableTypes, TimelyQueues
<1> DEFINE req == Head(pending)
<1>2. /\ pending # <<>> /\ VC' = VC
      /\ CASE req.type = "in"   -> ScheduleIn(req.page)
           [] req.type = "wait" -> ScheduleWait(req.page)
           [] req.type = "out"  -> ScheduleOut(req.page[1], req.release)
  BY DEF Schedule
<1>3. req \in Requests
  <2>1. pending \in Seq(Requests)
    BY <1>1 DEF IoTypes
  <2> QED
    BY <1>2, <2>1
<1> HIDE DEF req
<1>4. req.type \in {"in", "wait", "out"} /\ req.page \in Pages /\ req.release \in Pages \cup {NoPage}
      /\ req.page[1] \in Procs
  BY <1>3 DEF Requests, Pages
<1>5. \/ ScheduleIn(req.page)
      \/ ScheduleWait(req.page)
      \/ ScheduleOut(req.page[1], req.release)
  BY <1>2, <1>4
<1>6. ioTime' = ioTime
  BY <1>5 DEF ScheduleIn, ScheduleWait, ScheduleOut
<1>7. ASSUME NEW J, NEW q \in Seq(Contexts(J)), Timely(q, VC), NEW job \in J
      PROVE  Timely(Append(q, Context(job, q, VC)), VC)
  <2> DEFINE c == Context(job, q, VC)
  <2>1. c \in Contexts(J)
    BY <1>1, <1>7, ContextType
  <2>2. /\ c.time = IF q = <<>> THEN ioTime ELSE ioTime - Last(q).time
        /\ c.ahead = Len(q) /\ c.due = VC + ioTime
    BY DEF Context
  <2> HIDE DEF c
  <2>3. Timely(Append(q, c), VC)
    BY <1>1, <1>7, <2>1, <2>2, TimelyAdded
  <2> QED
    BY <2>3 DEF c
<1>8. Timely(ioIn', VC) /\ \A p \in Procs : Timely(ioOut'[p], VC)
  <2>1. CASE ScheduleIn(req.page)
    <3>1. ioIn' = Append(ioIn, Context(req.page, ioIn, VC)) /\ ioOut' = ioOut
      BY <2>1 DEF ScheduleIn
    <3>2. ioIn \in Seq(Contexts(Pages))
      BY <1>1 DEF IoTypes
    <3> QED
      BY <1>1, <1>4, <1>7, <3>1, <3>2
  <2>2. CASE ScheduleWait(req.page)
    BY <1>1, <2>2 DEF ScheduleWait
  <2>3. CASE ScheduleOut(req.page[1], req.release)
    <3> DEFINE r == req.page[1]
               q == ioOut[r]
    <3>1. ioOut' = [ioOut EXCEPT ![r] = Append(q, Context(req.release, q, VC))] /\ ioIn' = ioIn
      BY <2>3 DEF ScheduleOut
    <3>2. ioOut \in [Procs -> Seq(Contexts(Pages \cup {NoPage}))]
      BY <1>1 DEF IoTypes
    <3>3. r \in Procs /\ q \in Seq(Contexts(Pages \cup {NoPage})) /\ Timely(q, VC)
      BY <1>1, <1>4, <3>2
    <3>4. Timely(Append(q, Context(req.release, q, VC)), VC)
      BY <1>4, <1>7, <3>3
    <3> HIDE DEF r, q
    <3> QED
      BY <1>1, <3>1, <3>2, <3>3, <3>4
  <2> QED
    BY <1>5, <2>1, <2>2, <2>3
<1> QED
  BY <1>1, <1>2, <1>6, <1>8 DEF TimelyQueues, Timely

LEMMA NextTimely ==
  ASSUME IInv, TimelyQueues, [Next]_vars
  PROVE  TimelyQueues'
<1>1. CASE CpuTick \/ RequestTick \/ Idle
  BY <1>1, TickTimely DEF CpuTick, RequestTick, Idle
<1>2. CASE Schedule
  BY <1>2, ScheduleTimely
<1>3. CASE UNCHANGED <<VC, ioOut, ioIn, ioTime>>
  BY <1>3 DEF TimelyQueues, Timely
<1>4. \/ CpuTick \/ RequestTick \/ Idle \/ Schedule
      \/ UNCHANGED <<VC, ioOut, ioIn, ioTime>>
  BY DEF Next, Stopped, vars, pageVars, ioVars,
         Deliver, Dispatch, QuantumOver, PageFault, Access, Finish, Restart, ReadLine,
         IllegalLine, EndOfData, FinishedQuanta, Misjudge, ResolveNone, ResolveUndefined,
         NothingToClean, Terminate, ResolveFree, ResolveVictim, ClearPages, ClearThrows
<1> QED
  BY <1>1, <1>2, <1>3, <1>4

\* I/O completes when the log says, or up to two ticks earlier, and later only if more
\* than one other was ahead of it (IoControl!IoAsLogged).
THEOREM SpecIoAsLogged == Spec => []IoAsLogged
<1>1. IInv /\ TimelyQueues /\ [Next]_vars => TimelyQueues'
  BY NextTimely
<1>2. IInv /\ TimelyQueues => IoAsLogged
  <2> SUFFICES ASSUME IInv, TimelyQueues, NEW queue \in Queues, NEW i \in 1 .. Len(queue)
               PROVE  /\ queue[i].ahead <= 1 => EndsAt(queue, i) <= queue[i].due
                      /\ EndsAt(queue, i) >= queue[i].due - (IF queue[i].ahead = 0 THEN 1 ELSE 2)
    BY DEF IoAsLogged
  <2>1. VC \in Int /\ Timely(queue, VC) /\ \E J : queue \in Seq(Contexts(J))
    BY DEF IInv, Types, TableTypes, IoTypes, TimelyQueues, Queues
  <2>2. EndsAt(queue, i) = VC + Delay(queue, i)
    BY <2>1, EndsAtIs
  <2> QED
    BY <2>1, <2>2 DEF Timely
<1> QED
  BY <1>1, <1>2, Invariance, InitTimely, PTL DEF Spec

-----------------------------------------------------------------------------
(***************************************************************************)
(* The inductive invariant of frames and daemon.                           *)
(***************************************************************************)
\* A page on its way in; InTransit is the set of these.
Transit(pg) ==
  \/ \E i \in 1 .. Len(ioIn) : ioIn[i].job = pg
  \/ \E i \in 1 .. Len(finished) : finished[i] = pg
  \/ ioWait[pg[1]] = pg
  \/ pending # <<>> /\ pending[1].type # "out" /\ pending[1].page = pg

Held(pg)   == present[pg] \/ Transit(pg)
Listed(pg) == \E i \in 1 .. Len(pageHist) : pageHist[i] = pg
Alive(p)   == p = running \/ p \in blocked \/ \E i \in 1 .. Len(ready) : ready[i] = p

PageTypes ==
  /\ frame \in [Pages -> Frames] /\ time \in [Pages -> 0 .. MaxTime]
  /\ ref \in [Pages -> BOOLEAN]
  /\ VC \in Nat /\ timestamp \in [Pages -> 0 .. VC]
  /\ \A i \in Slots : tlb[i].timestamp \in 0 .. VC

StepTypes ==
  /\ status \in {"running", "done", "exception", "undefined"}
  /\ owed \in 0 .. (InstrTime + CsTime) /\ reqTicks \in 0 .. MaxReqTicks
  /\ left \in 1 .. quanta /\ lines \in Nat
  /\ restart \in [Procs -> BOOLEAN]

\* openFrames may be too large, but every free frame is counted.
CountTypes ==
  /\ numFrames \in Nat \ {0}
  /\ frames \subseteq Frames /\ pinned \subseteq Frames
  /\ openFrames \in Int /\ Cardinality(Frames \ frames) <= openFrames

\* What the policies' list holds: each page once, only pages of processes that
\* have ended are there without being present, and none is on its way in.  An
\* input that ended has set its page up.
Histories ==
  /\ \A i, j \in 1 .. Len(pageHist) : pageHist[i] = pageHist[j] => i = j
  /\ \A pg \in Pages : Listed(pg) => /\ ~ Transit(pg)
                                     /\ present[pg] \/ ~ Alive(pg[1])
  /\ \A i \in 1 .. Len(finished) : present[finished[i]]

\* A frame that the daemon could not get back is free or pinned.
Covered ==
  \A f \in Frames :
    \/ f \notin frames \/ f \in pinned
    \/ \E pg \in Pages : Listed(pg) /\ present[pg] /\ frame[pg] = f

\* FramesSound, without the cardinality of an image.
FramesMatch ==
  ~ stale =>
    /\ \A pg, ph \in Pages : Held(pg) /\ Held(ph) /\ frame[pg] = frame[ph] => pg = ph
    /\ frames = {frame[pg] : pg \in {ph \in Pages : Held(ph)}}
    /\ pinned = {frame[pg] : pg \in {ph \in Pages : Transit(ph)}}
    /\ openFrames = numFrames - Cardinality(frames)

FInv == /\ PageTypes /\ StepTypes /\ CountTypes
        /\ Histories /\ Covered /\ FramesMatch /\ DaemonAdvice

-----------------------------------------------------------------------------
(***************************************************************************)
(* Frames are finitely many.                                               *)
(***************************************************************************)
LEMMA FramesFinite ==
  ASSUME numFrames \in Nat
  PROVE  IsFiniteSet(Frames) /\ Cardinality(Frames) = numFrames
<1>1. 0 \in Int /\ numFrames - 1 \in Int
  OBVIOUS
<1>2. IsFiniteSet(0 .. numFrames - 1)
      /\ Cardinality(0 .. numFrames - 1) = IF 0 > numFrames - 1 THEN 0 ELSE (numFrames - 1) - 0 + 1
  BY <1>1, FS_Interval
<1> QED
  BY <1>2 DEF Frames

LEMMA PagesFinite == IsFiniteSet(Pages)
<1>1. IsFiniteSet(Procs)
  <2>1. 1 \in Int /\ NumProcs \in Int
    BY PageAssumption
  <2> QED
    BY <2>1, FS_Interval DEF Procs
<1>2. IsFiniteSet(VPNs)
  <2>1. 0 \in Int /\ PTSize - 1 \in Int
    BY PageAssumption
  <2> QED
    BY <2>1, FS_Interval DEF VPNs
<1> QED
  BY <1>1, <1>2, FS_Product DEF Pages

\* An image of a set of pages, and whether no two of them share a frame.
LEMMA ImageOfPages ==
  ASSUME NEW S, S \subseteq Pages
  PROVE  /\ IsFiniteSet({frame[pg] : pg \in S})
         /\ IsFiniteSet(S) /\ Cardinality(S) \in Nat
         /\ Cardinality({frame[pg] : pg \in S}) \in Nat
         /\ Cardinality({frame[pg] : pg \in S}) <= Cardinality(S)
         /\ (\A pg, ph \in S : frame[pg] = frame[ph] => pg = ph)
              => Cardinality({frame[pg] : pg \in S}) = Cardinality(S)
<1> DEFINE image == {frame[pg] : pg \in S}
           fun   == [pg \in S |-> frame[pg]]
<1>1. IsFiniteSet(S) /\ Cardinality(S) \in Nat
  BY PagesFinite, FS_Subset, FS_CardinalityType
<1>2. fun \in Surjection(S, image)
  BY DEF Surjection
<1>3. IsFiniteSet(image) /\ Cardinality(image) <= Cardinality(S)
  BY <1>1, <1>2, FS_Surjection
<1>4. Cardinality(image) \in Nat
  BY <1>3, FS_CardinalityType
<1>5. ASSUME \A pg, ph \in S : frame[pg] = frame[ph] => pg = ph
      PROVE  Cardinality(image) = Cardinality(S)
  <2>1. fun \in Injection(S, image)
    BY <1>5 DEF Injection, IsInjective
  <2>2. fun \in Bijection(S, image)
    BY <1>2, <2>1 DEF Bijection
  <2>3. ExistsBijection(S, image)
    BY <2>2 DEF ExistsBijection
  <2> QED
    BY <1>1, <2>3, FS_Bijection
<1> QED
  BY <1>1, <1>3, <1>4, <1>5

\* What returning frames does to the free ones.
LEMMA FreeAfterReturn ==
  ASSUME CountTypes, NEW gone, gone \subseteq Frames, NEW times \in Nat, IsFiniteSet(gone),
         Cardinality(gone) <= times, ReturnFrames(gone, times)
  PROVE  CountTypes'
<1>1. /\ frames' = frames \ gone /\ openFrames' = openFrames + times
      /\ UNCHANGED <<numFrames, pinned>>
  BY DEF ReturnFrames
<1>2. Frames' = Frames
  BY <1>1 DEF Frames
<1>3. /\ IsFiniteSet(Frames) /\ IsFiniteSet(Frames \ frames) /\ IsFiniteSet(Frames \ frames')
      /\ Cardinality(Frames \ frames) \in Nat /\ Cardinality(Frames \ frames') \in Nat
      /\ Cardinality(gone) \in Nat
  <2>1. IsFiniteSet(Frames)
    BY FramesFinite DEF CountTypes
  <2> QED
    BY <2>1, FS_Subset, FS_CardinalityType
<1>4. Frames \ frames' \subseteq (Frames \ frames) \cup gone
  BY <1>1
<1>5. /\ IsFiniteSet((Frames \ frames) \cup gone)
      /\ Cardinality((Frames \ frames) \cup gone)
           = Cardinality(Frames \ frames) + Cardinality(gone)
               - Cardinality((Frames \ frames) \cap gone)
      /\ Cardinality((Frames \ frames) \cap gone) \in Nat
  <2>1. IsFiniteSet((Frames \ frames) \cap gone)
    BY <1>3, FS_Subset
  <2> QED
    BY <1>3, <2>1, FS_Union, FS_CardinalityType
<1>6. Cardinality(Frames \ frames') <= Cardinality((Frames \ frames) \cup gone)
  BY <1>4, <1>5, FS_Subset
<1>7. Cardinality(Frames \ frames') <= openFrames'
  <2>1. openFrames \in Int /\ Cardinality(Frames \ frames) <= openFrames
    BY DEF CountTypes
  <2>2. Cardinality((Frames \ frames) \cup gone) \in Nat
    BY <1>5, FS_CardinalityType
  <2> HIDE DEF CountTypes, Frames
  <2> QED
    BY <1>1, <1>3, <1>5, <1>6, <2>1, <2>2
<1> QED
  BY <1>1, <1>2, <1>7 DEF CountTypes

-----------------------------------------------------------------------------
(***************************************************************************)
(* Pages on their way in.                                                  *)
(***************************************************************************)
LEMMA JobTypes ==
  ASSUME IoTypes
  PROVE  /\ \A i \in 1 .. Len(ioIn) : ioIn[i].job \in Pages
         /\ \A i \in 1 .. Len(finished) : finished[i] \in Pages
         /\ \A i \in 1 .. Len(pending) : pending[i] \in Requests /\ pending[i].page \in Pages
<1>1. /\ ioIn \in Seq(Contexts(Pages)) /\ finished \in Seq(Pages) /\ pending \in Seq(Requests)
  BY DEF IoTypes
<1>2. ASSUME NEW i \in 1 .. Len(ioIn) PROVE ioIn[i].job \in Pages
  <2>1. ioIn[i] \in Contexts(Pages)
    BY <1>1, ElementOfSeq
  <2> QED
    BY <2>1 DEF Contexts
<1>3. \A i \in 1 .. Len(finished) : finished[i] \in Pages
  BY <1>1, ElementOfSeq
<1>4. ASSUME NEW i \in 1 .. Len(pending)
      PROVE  pending[i] \in Requests /\ pending[i].page \in Pages
  <2>1. pending[i] \in Requests
    BY <1>1, ElementOfSeq
  <2> QED
    BY <2>1 DEF Requests
<1> QED
  BY <1>2, <1>3, <1>4

LEMMA TransitIs ==
  ASSUME IInv
  PROVE  InTransit = {pg \in Pages : Transit(pg)}
<1> USE DEF IInv, Types
<1>1. \A pg \in Pages : pg[1] \in Procs /\ pg # NoPage
  BY DEF Pages, Procs, NoPage, NoProc
<1>2. \A i \in 1 .. Len(ioIn) : ioIn[i].job \in Pages
  BY JobTypes
<1>3. \A i \in 1 .. Len(finished) : finished[i] \in Pages
  BY JobTypes
<1>4. \A i \in 1 .. Len(pending) : pending[i].page \in Pages
  BY JobTypes
<1>5. Jobs(ioIn) = {pg \in Pages : \E i \in 1 .. Len(ioIn) : ioIn[i].job = pg}
  BY <1>2 DEF Jobs
<1>6. ToSet(finished) = {pg \in Pages : \E i \in 1 .. Len(finished) : finished[i] = pg}
  <2>1. DOMAIN finished = 1 .. Len(finished)
    BY DEF IoTypes
  <2> QED
    BY <1>3, <2>1 DEF ToSet
<1>7. {ioWait[p] : p \in Procs} \ {NoPage} = {pg \in Pages : ioWait[pg[1]] = pg}
  <2>1. ASSUME NEW p \in Procs, ioWait[p] # NoPage
        PROVE  ioWait[p] \in Pages /\ ioWait[p][1] = p
    BY <2>1 DEF IoTypes, Inputting, Waiting
  <2> QED
    BY <1>1, <2>1
<1>8. {req.page : req \in {r \in ToSet(pending) : r.type # "out"}}
        = {pg \in Pages : pending # <<>> /\ pending[1].type # "out" /\ pending[1].page = pg}
  <2>1. DOMAIN pending = 1 .. Len(pending) /\ ToSet(pending) = {pending[i] : i \in 1 .. Len(pending)}
    BY DEF IoTypes, ToSet
  <2>2. pending # <<>> <=> 1 \in 1 .. Len(pending)
    BY EmptySeq DEF IoTypes
  <2>3. ASSUME NEW i \in 1 .. Len(pending), pending[i].type # "out"
        PROVE  i = 1 /\ pending # <<>>
    BY <2>3, EmptySeq DEF Inputting, IoTypes
  <2>4. ASSUME NEW r \in ToSet(pending), r.type # "out"
        PROVE  pending # <<>> /\ r = pending[1]
    BY <2>1, <2>3, <2>4
  <2>5. pending # <<>> => pending[1] \in ToSet(pending)
    BY <2>1, <2>2
  <2> QED
    BY <1>4, <2>2, <2>4, <2>5
<1> QED
  BY <1>5, <1>6, <1>7, <1>8 DEF InTransit, Transit

LEMMA TransitBlocked ==
  ASSUME IInv, NEW pg \in Pages, Transit(pg)
  PROVE  pg[1] \in Procs /\ pg[1] \in blocked
<1>1. pg[1] \in Procs /\ pg # NoPage
  BY DEF Pages, Procs, NoPage, NoProc
<1>2. OneInput(pg[1])
  BY <1>1 DEF IInv, Inputting
<1>3. Queued(pg[1]) # {} \/ Ended(pg[1]) # {} \/ Waiting(pg[1]) \/ Asked(pg[1])
  BY <1>1 DEF Transit, Queued, Ended, Waiting, Asked
<1> QED
  BY <1>1, <1>2, <1>3 DEF OneInput

LEMMA TickTransit ==
  ASSUME IInv, Tick, UNCHANGED pending
  PROVE  /\ \A pg \in Pages : Transit(pg)' <=> Transit(pg)
         /\ \A pg \in Pages : present[pg] => present'[pg]
         /\ \A pg \in Pages : present'[pg] => present[pg] \/ Transit(pg)
         /\ \A i \in 1 .. Len(finished') :
              \/ i \in 1 .. Len(finished) /\ finished'[i] = finished[i]
              \/ finished'[i] \in Pages /\ present'[finished'[i]]
         /\ \A i \in 1 .. Len(finished) : finished[i] \in Pages
<1> USE DEF IInv, Types
<1>1. PICK order, inputs, n : TickMoves(order, inputs, n)
  BY TickMovesInputs
<1>2. /\ Len(ioIn) \in Nat /\ Len(order) \in Nat /\ Len(finished) \in Nat
      /\ Len(inputs) = Len(ioIn) + Len(order) /\ n \in Nat /\ n <= Len(inputs)
      /\ \A i \in 1 .. Len(inputs) : inputs[i].job \in Pages
  <2>1. inputs \in Seq(Contexts(Pages)) /\ n \in 0 .. Len(inputs) /\ order \in Seq(Releasing)
    BY <1>1 DEF TickMoves
  <2>2. ASSUME NEW i \in 1 .. Len(inputs) PROVE inputs[i].job \in Pages
    <3>1. inputs[i] \in Contexts(Pages)
      BY <2>1, ElementOfSeq
    <3> QED
      BY <3>1 DEF Contexts
  <2> QED
    BY <1>1, <2>1, <2>2 DEF TickMoves, IoTypes
<1>3. /\ \A i \in 1 .. Len(ioIn) : inputs[i].job = ioIn[i].job
      /\ \A k \in 1 .. Len(order) : inputs[Len(ioIn) + k].job = ioWait[Owner(order[k])]
      /\ \A c \in Releasing : \E i \in 1 .. Len(order) : order[i] = c
      /\ \A k \in 1 .. Len(order) : order[k] \in Releasing
  BY <1>1, ElementOfSeq DEF TickMoves
<1>4. /\ Len(ioIn') = Len(inputs) - n
      /\ \A i \in 1 .. Len(ioIn') : ioIn'[i].job = inputs[n + i].job
      /\ Len(finished') = Len(finished) + n
      /\ \A i \in 1 .. Len(finished) : finished'[i] = finished[i]
      /\ \A i \in 1 .. n : finished'[Len(finished) + i] = inputs[i].job
  BY <1>1 DEF TickMoves
<1>5. \A pg \in Pages : present'[pg] <=> present[pg] \/ \E i \in 1 .. n : inputs[i].job = pg
  BY <1>1 DEF TickMoves
<1>6. ASSUME NEW i \in 1 .. Len(inputs) PROVE Transit(inputs[i].job)
  <2>1. CASE i <= Len(ioIn)
    <3>1. i \in 1 .. Len(ioIn)
      BY <1>2, <2>1
    <3> QED
      BY <1>3, <3>1 DEF Transit
  <2>2. CASE i > Len(ioIn)
    <3> DEFINE k == i - Len(ioIn)
    <3>1. k \in 1 .. Len(order) /\ i = Len(ioIn) + k
      BY <1>2, <2>2
    <3> HIDE DEF k
    <3>2. inputs[i].job = ioWait[Owner(order[k])] /\ order[k] \in Releasing
      BY <1>3, <3>1
    <3>3. Owner(order[k]) \in Procs /\ ioWait[Owner(order[k])] # NoPage
      BY <3>2, ReleasedOnce DEF Waiting
    <3>4. ioWait[Owner(order[k])][1] = Owner(order[k])
      BY <3>3 DEF Inputting, Waiting
    <3> QED
      BY <3>2, <3>4 DEF Transit
  <2> QED
    BY <1>2, <2>1, <2>2
<1>7. ASSUME NEW i \in 1 .. Len(inputs) PROVE Transit(inputs[i].job)'
  <2>1. CASE i <= n
    <3>1. i \in 1 .. n /\ Len(finished) + i \in 1 .. Len(finished')
      BY <1>2, <1>4, <2>1
    <3>2. finished'[Len(finished) + i] = inputs[i].job
      BY <1>4, <3>1
    <3> HIDE DEF IInv, Types
    <3>3. \E j \in 1 .. Len(finished') : finished'[j] = inputs[i].job
      BY <3>1, <3>2
    <3> QED
      BY <3>3 DEF Transit
  <2>2. CASE i > n
    <3>1. i - n \in 1 .. Len(ioIn') /\ n + (i - n) = i
      BY <1>2, <1>4, <2>2
    <3>2. ioIn'[i - n].job = inputs[i].job
      BY <1>4, <3>1
    <3>3. \E j \in 1 .. Len(ioIn') : ioIn'[j].job = inputs[i].job
      BY <3>1, <3>2
    <3> QED
      BY <3>3 DEF Transit
  <2> QED
    BY <1>2, <2>1, <2>2
<1>8. ASSUME NEW i \in 1 .. Len(finished')
      PROVE  \/ i \in 1 .. Len(finished) /\ finished'[i] = finished[i]
             \/ \E j \in 1 .. n : j \in 1 .. Len(inputs) /\ finished'[i] = inputs[j].job
  <2>1. CASE i <= Len(finished)
    BY <1>2, <1>4, <2>1
  <2>2. CASE i > Len(finished)
    <3>1. i - Len(finished) \in 1 .. n /\ i - Len(finished) \in 1 .. Len(inputs)
          /\ Len(finished) + (i - Len(finished)) = i
      BY <1>2, <1>4, <2>2
    <3>2. finished'[i] = inputs[i - Len(finished)].job
      BY <1>4, <3>1
    <3> QED
      BY <3>1, <3>2
  <2> QED
    BY <1>2, <1>4, <2>1, <2>2
<1>9. ASSUME NEW pg \in Pages, Transit(pg)' PROVE Transit(pg)
  <2>1. CASE \E i \in 1 .. Len(ioIn') : ioIn'[i].job = pg
    <3>1. PICK i \in 1 .. Len(ioIn') : ioIn'[i].job = pg
      BY <2>1
    <3>2. n + i \in 1 .. Len(inputs) /\ inputs[n + i].job = pg
      BY <1>2, <1>4, <3>1
    <3> QED
      BY <1>6, <3>2
  <2>2. CASE \E i \in 1 .. Len(finished') : finished'[i] = pg
    <3>1. PICK i \in 1 .. Len(finished') : finished'[i] = pg
      BY <2>2
    <3>2. CASE i \in 1 .. Len(finished) /\ finished'[i] = finished[i]
      BY <3>1, <3>2 DEF Transit
    <3>3. CASE \E j \in 1 .. n : j \in 1 .. Len(inputs) /\ finished'[i] = inputs[j].job
      BY <1>6, <3>1, <3>3
    <3> QED
      BY <1>8, <3>2, <3>3
  <2>3. CASE ioWait'[pg[1]] = pg
    <3>1. pg[1] \in Procs /\ pg # NoPage
      BY DEF Pages, Procs, NoPage, NoProc
    <3>2. ioWait[pg[1]] = pg
      BY <2>3, <3>1, TickWaits
    <3> QED
      BY <3>2 DEF Transit
  <2>4. CASE pending' # <<>> /\ pending'[1].type # "out" /\ pending'[1].page = pg
    BY <2>4 DEF Transit
  <2> QED
    BY <1>9, <2>1, <2>2, <2>3, <2>4 DEF Transit
<1>10. ASSUME NEW pg \in Pages, Transit(pg) PROVE Transit(pg)'
  <2>1. CASE \E i \in 1 .. Len(ioIn) : ioIn[i].job = pg
    <3>1. PICK i \in 1 .. Len(ioIn) : ioIn[i].job = pg
      BY <2>1
    <3>2. i \in 1 .. Len(inputs) /\ inputs[i].job = pg
      BY <1>2, <1>3, <3>1
    <3> QED
      BY <1>7, <3>2
  <2>2. CASE \E i \in 1 .. Len(finished) : finished[i] = pg
    <3>1. PICK i \in 1 .. Len(finished) : finished[i] = pg
      BY <2>2
    <3>2. i \in 1 .. Len(finished') /\ finished'[i] = pg
      BY <1>2, <1>4, <3>1
    <3> QED
      BY <3>2 DEF Transit
  <2>3. CASE ioWait[pg[1]] = pg
    <3>1. pg[1] \in Procs /\ pg # NoPage
      BY DEF Pages, Procs, NoPage, NoProc
    <3>2. CASE \A c \in Releasing : Owner(c) # pg[1]
      <4>1. ioWait'[pg[1]] = pg
        BY <2>3, <3>1, <3>2, TickWaits DEF Waiting
      <4> QED
        BY <4>1 DEF Transit
    <3>3. CASE \E c \in Releasing : Owner(c) = pg[1]
      <4>1. PICK k \in 1 .. Len(order) : Owner(order[k]) = pg[1]
        BY <1>3, <3>3
      <4>2. Len(ioIn) + k \in 1 .. Len(inputs)
        BY <1>2
      <4>3. inputs[Len(ioIn) + k].job = pg
        BY <1>3, <2>3, <4>1
      <4> QED
        BY <1>7, <4>2, <4>3
    <3> QED
      BY <3>2, <3>3
  <2>4. CASE pending # <<>> /\ pending[1].type # "out" /\ pending[1].page = pg
    BY <2>4 DEF Transit
  <2> QED
    BY <1>10, <2>1, <2>2, <2>3, <2>4 DEF Transit
<1>11. \A pg \in Pages : present'[pg] => present[pg] \/ Transit(pg)
  BY <1>2, <1>5, <1>6
<1>12. ASSUME NEW i \in 1 .. Len(finished')
       PROVE  \/ i \in 1 .. Len(finished) /\ finished'[i] = finished[i]
              \/ finished'[i] \in Pages /\ present'[finished'[i]]
  BY <1>2, <1>5, <1>8
<1>13. \A i \in 1 .. Len(finished) : finished[i] \in Pages
  BY ElementOfSeq DEF IoTypes
<1> QED
  BY <1>5, <1>9, <1>10, <1>11, <1>12, <1>13

-----------------------------------------------------------------------------
(***************************************************************************)
(* The steps that move no page between memory, the policies' list and the  *)
(* I/O, other than by the end of an input.                                 *)
(***************************************************************************)
LEMMA UnmovedPages ==
  ASSUME IInv, FInv, UNCHANGED <<frame, frameVars, pageHist, stale>>,
         \A pg \in Pages : Transit(pg)' <=> Transit(pg),
         \A pg \in Pages : present[pg] => present'[pg],
         \A pg \in Pages : present'[pg] => present[pg] \/ Transit(pg),
         \A pg \in Pages : Alive(pg[1])' => Alive(pg[1]),
         \A i \in 1 .. Len(finished') : present'[finished'[i]]
  PROVE  CountTypes' /\ Histories' /\ Covered' /\ FramesMatch'
<1>1. Frames' = Frames /\ UNCHANGED <<frame, numFrames, frames, pinned, openFrames, pageHist, stale>>
  BY DEF Frames, frameVars
<1>2. \A pg : Listed(pg)' <=> Listed(pg)
  BY <1>1 DEF Listed
<1>3. \A pg \in Pages : Held(pg)' <=> Held(pg)
  BY DEF Held
<1>4. CountTypes'
  BY <1>1 DEF FInv, CountTypes
<1>5. Histories'
  BY <1>1, <1>2 DEF FInv, Histories
<1>6. Covered'
  BY <1>1, <1>2 DEF FInv, Covered
<1>7. FramesMatch'
  <2>1. {pg \in Pages : Held(pg)}' = {pg \in Pages : Held(pg)}
    BY <1>3
  <2>2. {pg \in Pages : Transit(pg)}' = {pg \in Pages : Transit(pg)}
    OBVIOUS
  <2> QED
    BY <1>1, <1>3, <2>1, <2>2 DEF FInv, FramesMatch
<1> QED
  BY <1>4, <1>5, <1>6, <1>7

LEMMA TickFrames ==
  ASSUME IInv, FInv, CpuTick \/ RequestTick \/ Idle
  PROVE  FInv'
<1>1. /\ Tick
      /\ UNCHANGED <<frameVars, mmuVars, replaceVars, status, left, pending, schedVars,
                     traceVars, setVars, histVars>>
  BY DEF CpuTick, RequestTick, Idle, reqVars, runVars
<1>2. /\ UNCHANGED <<frame, time, frameVars, pageHist, stale, tlb, pending, running, ready, blocked>>
      /\ UNCHANGED <<numFrames, status, left, quanta, lines, restart, cleaning>>
  BY <1>1 DEF Tick, frameVars, mmuVars, replaceVars, histVars, schedVars, traceVars, setVars
<1>3. /\ VC' = VC + 1
      /\ \E ended : /\ ref' = [pg \in Pages |-> pg \notin ended /\ ref[pg]]
                    /\ timestamp' = [pg \in Pages |->
                                       IF pg \in ended THEN VC + 1 ELSE timestamp[pg]]
  BY <1>1 DEF Tick
<1>4. PageTypes'
  <2>1. Frames' = Frames /\ MaxTime' = MaxTime /\ Slots' = Slots
    BY <1>2 DEF Frames, MaxTime, Slots
  <2>2. VC \in Nat /\ VC' \in Nat /\ 0 .. VC \subseteq 0 .. VC' /\ VC + 1 \in 0 .. VC'
    BY <1>3 DEF FInv, PageTypes
  <2>3. ref' \in [Pages -> BOOLEAN]
    BY <1>3
  <2>4. timestamp' \in [Pages -> 0 .. VC']
    BY <1>3, <2>2 DEF FInv, PageTypes
  <2>5. \A i \in Slots' : tlb'[i].timestamp \in 0 .. VC'
    BY <1>2, <2>1, <2>2 DEF FInv, PageTypes
  <2> QED
    BY <1>2, <2>1, <2>2, <2>3, <2>4, <2>5 DEF FInv, PageTypes
<1>5. StepTypes'
  <2>1. InstrTime + CsTime \in Nat /\ MaxReqTicks \in Nat
    BY VmmAssumption
  <2>2. owed' \in 0 .. (InstrTime + CsTime) /\ reqTicks' \in 0 .. MaxReqTicks
    BY <2>1 DEF FInv, StepTypes, CpuTick, RequestTick, Idle, reqVars, runVars
  <2> QED
    BY <1>2, <2>2 DEF FInv, StepTypes
<1>6. CountTypes' /\ Histories' /\ Covered' /\ FramesMatch'
  <2>1. /\ \A pg \in Pages : Transit(pg)' <=> Transit(pg)
        /\ \A pg \in Pages : present[pg] => present'[pg]
        /\ \A pg \in Pages : present'[pg] => present[pg] \/ Transit(pg)
        /\ \A i \in 1 .. Len(finished') :
             \/ i \in 1 .. Len(finished) /\ finished'[i] = finished[i]
             \/ finished'[i] \in Pages /\ present'[finished'[i]]
        /\ \A i \in 1 .. Len(finished) : finished[i] \in Pages
    BY <1>1, <1>2, TickTransit
  <2>2. \A i \in 1 .. Len(finished') : present'[finished'[i]]
    BY <2>1 DEF FInv, Histories
  <2>3. \A p : Alive(p)' => Alive(p)
    BY <1>2 DEF Alive
  <2> QED
    BY <1>2, <2>1, <2>2, <2>3, UnmovedPages
<1>7. DaemonAdvice'
  BY <1>2 DEF FInv, DaemonAdvice
<1> QED
  BY <1>4, <1>5, <1>6, <1>7 DEF FInv

\* The approximation's reference bits stay in their byte.
LEMMA UpdateTypes ==
  ASSUME PageTypes, UpdateTime
  PROVE  ref' \in [Pages -> BOOLEAN] /\ time' \in [Pages -> 0 .. MaxTime]
<1>1. ref' \in [Pages -> BOOLEAN]
  BY DEF UpdateTime
<1>2. TopBit \in Nat \ {0} /\ time \in [Pages -> 0 .. (2 * TopBit - 1)]
  BY PolicyAssumption DEF PageTypes, MaxTime
<1>3. \A t \in 0 .. (2 * TopBit - 1) :
        /\ t \div 2 + TopBit \in 0 .. (2 * TopBit - 1)
        /\ t \div 2 + 0 \in 0 .. (2 * TopBit - 1)
  BY <1>2
<1>4. \A pg \in Pages : Updated[pg] \in 0 .. (2 * TopBit - 1)
  BY <1>2, <1>3 DEF Updated
<1>5. time' = [pg \in Pages |-> Updated[pg]]
  BY DEF UpdateTime, Updated
<1> QED
  BY <1>1, <1>4, <1>5 DEF MaxTime

\* The quiet steps: what the cpu and the main loop do between two pages.
LEMMA QuietFrames ==
  ASSUME IInv, FInv,
         \/ Finish \/ Restart \/ ReadLine \/ IllegalLine \/ EndOfData \/ FinishedQuanta
         \/ Misjudge \/ ResolveNone \/ ResolveUndefined \/ NothingToClean \/ UNCHANGED vars
  PROVE  FInv'
<1> DEFINE same == /\ UNCHANGED <<frame, present, timestamp, VC, frameVars, ioVars, tlb>>
                   /\ UNCHANGED <<pageHist, reqVars, schedVars, quanta, cleaning, left, stale>>
<1>1. same
  BY DEF Finish, Restart, ReadLine, IllegalLine, EndOfData, FinishedQuanta, UpdateTime, Misjudge,
         ResolveNone, ResolveUndefined, NothingToClean, vars, pageVars, mmuVars, replaceVars,
         runVars, setVars, histVars
<1>2. /\ UNCHANGED <<frame, present, timestamp, VC, frameVars, tlb, pageHist, stale>>
      /\ UNCHANGED <<ioIn, ioWait, finished, pending, running, ready, blocked>>
      /\ UNCHANGED <<numFrames, reqTicks, quanta, cleaning, left>>
  BY <1>1 DEF frameVars, ioVars, reqVars, schedVars
<1>3. PageTypes'
  <2>1. Frames' = Frames /\ MaxTime' = MaxTime /\ Slots' = Slots
    BY <1>2 DEF Frames, MaxTime, Slots
  <2>2. CASE UNCHANGED <<ref, time>>
    BY <1>2, <2>1, <2>2 DEF FInv, PageTypes
  <2>3. CASE UpdateTime
    <3>1. ref' \in [Pages -> BOOLEAN] /\ time' \in [Pages -> 0 .. MaxTime]
      BY <2>3, UpdateTypes DEF FInv
    <3> QED
      BY <1>2, <2>1, <3>1 DEF FInv, PageTypes
  <2> QED
    BY <2>2, <2>3 DEF Finish, Restart, ReadLine, IllegalLine, EndOfData, FinishedQuanta, Misjudge,
         ResolveNone, ResolveUndefined, NothingToClean, vars, pageVars
<1>4. status' \in {status, "done", "undefined"}
  BY DEF Finish, Restart, ReadLine, IllegalLine, EndOfData, FinishedQuanta, Misjudge,
         ResolveNone, ResolveUndefined, NothingToClean, vars
<1>5. StepTypes'
  <2>1. InstrTime \in Nat /\ CsTime \in Nat
    BY VmmAssumption
  <2>2. owed' \in {owed, 0, InstrTime}
    BY DEF Finish, Restart, ReadLine, IllegalLine, EndOfData, FinishedQuanta, Misjudge,
         ResolveNone, ResolveUndefined, NothingToClean, vars, runVars
  <2>3. owed' \in 0 .. (InstrTime + CsTime)
    BY <2>1, <2>2 DEF FInv, StepTypes
  <2>4. lines' \in Nat
    <3>1. \/ lines' = lines
          \/ lines > 0 /\ lines' = lines - 1
      BY DEF Finish, Restart, ReadLine, IllegalLine, EndOfData, FinishedQuanta, Misjudge,
           ResolveNone, ResolveUndefined, NothingToClean, vars, traceVars
    <3> QED
      BY <3>1 DEF FInv, StepTypes
  <2>5. restart' \in [Procs -> BOOLEAN]
    BY DEF FInv, StepTypes, Finish, Restart, ReadLine, IllegalLine, EndOfData, FinishedQuanta,
         Misjudge, ResolveNone, ResolveUndefined, NothingToClean, vars, traceVars
  <2> QED
    BY <1>2, <1>4, <2>3, <2>4, <2>5 DEF FInv, StepTypes
<1>6. CountTypes' /\ Histories' /\ Covered' /\ FramesMatch'
  <2>1. \A pg : Transit(pg)' <=> Transit(pg)
    BY <1>2 DEF Transit
  <2>2. \A p : Alive(p)' <=> Alive(p)
    BY <1>2 DEF Alive
  <2>3. \A i \in 1 .. Len(finished') : present'[finished'[i]]
    BY <1>2 DEF FInv, Histories
  <2> QED
    BY <1>2, <2>1, <2>2, <2>3, UnmovedPages
<1>7. DaemonAdvice'
  BY <1>2, <1>4 DEF FInv, DaemonAdvice
<1> QED
  BY <1>3, <1>5, <1>6, <1>7 DEF FInv

LEMMA ScheduleTransit ==
  ASSUME IInv, Schedule
  PROVE  /\ \A pg \in Pages : Transit(pg)' <=> Transit(pg)
         /\ UNCHANGED <<status, finished>>
<1> DEFINE req == pending[1]
<1>1. /\ pending # <<>> /\ pending' = Tail(pending) /\ IoTypes /\ Inputting
      /\ VC \in Int /\ ioTime \in Int
  BY DEF Schedule, IInv, Types, IoTypes, TableTypes
<1>2. /\ Head(pending) = req /\ req \in Requests
      /\ \A i \in 1 .. Len(pending') : pending'[i].type = "out"
  BY <1>1, PendingTail
<1>3. req.type \in {"in", "wait", "out"} /\ req.page \in Pages /\ req.page[1] \in Procs
  BY <1>2 DEF Requests, Pages
<1>4. ~ (pending' # <<>> /\ pending'[1].type # "out")
  <2>1. pending' \in Seq(Requests)
    BY <1>1, PendingTail
  <2>2. pending' # <<>> => 1 \in 1 .. Len(pending')
    BY <2>1, EmptySeq
  <2> QED
    BY <1>2, <2>2
<1>5. ioIn \in Seq(Contexts(Pages)) /\ Len(ioIn) \in Nat
  BY <1>1 DEF IoTypes
<1>6. CASE req.type = "in"
  <2>1. ScheduleIn(req.page) /\ status' = status
    BY <1>2, <1>6 DEF Schedule
  <2>2. /\ Context(req.page, ioIn, VC) \in Contexts(Pages)
        /\ Context(req.page, ioIn, VC).job = req.page
    <3> HIDE DEF req
    <3> QED
      BY <1>1, <1>3, <1>5, ContextType
  <2>3. /\ Len(ioIn') = Len(ioIn) + 1
        /\ \A i \in 1 .. Len(ioIn) : ioIn'[i] = ioIn[i]
        /\ ioIn'[Len(ioIn) + 1].job = req.page
    BY <1>5, <2>1, <2>2, AppendParts DEF ScheduleIn
  <2>4. UNCHANGED <<ioWait, finished>>
    BY <2>1 DEF ScheduleIn
  <2> HIDE DEF req
  <2>5. ASSUME NEW pg \in Pages
        PROVE  (\E i \in 1 .. Len(ioIn') : ioIn'[i].job = pg)
                 <=> (\E i \in 1 .. Len(ioIn) : ioIn[i].job = pg) \/ req.page = pg
    <3>1. \A i \in 1 .. Len(ioIn') : i \in 1 .. Len(ioIn) \/ i = Len(ioIn) + 1
      BY <1>5, <2>3
    <3>2. \A i \in 1 .. Len(ioIn) : i \in 1 .. Len(ioIn')
      BY <1>5, <2>3
    <3>3. Len(ioIn) + 1 \in 1 .. Len(ioIn')
      BY <1>5, <2>3
    <3> QED
      BY <2>3, <3>1, <3>2, <3>3
  <2> QED
    BY <1>1, <1>4, <1>6, <2>1, <2>4, <2>5 DEF Transit, req
<1>7. CASE req.type = "wait"
  <2>1. Asked(req.page[1])
    BY <1>1, <1>7 DEF Asked
  <2>2. ioWait[req.page[1]] = NoPage
    BY <1>1, <1>3, <2>1 DEF Inputting, OneInput, Waiting
  <2>3. ScheduleWait(req.page) /\ status' = status
    BY <1>2, <1>7, <2>2 DEF Schedule, WaitThrows
  <2>4. \A pg \in Pages : pg # NoPage /\ pg[1] \in Procs
    BY DEF Pages, Procs, NoPage, NoProc
  <2>5. UNCHANGED <<ioIn, finished>>
    BY <2>3 DEF ScheduleWait
  <2>6. \A pg \in Pages : ioWait'[pg[1]] = pg <=> ioWait[pg[1]] = pg \/ req.page = pg
    BY <1>1, <1>3, <2>2, <2>3, <2>4 DEF ScheduleWait, IoTypes
  <2> QED
    BY <1>1, <1>4, <1>7, <2>3, <2>5, <2>6 DEF Transit
<1>8. CASE req.type = "out"
  <2>1. UNCHANGED <<ioIn, ioWait, finished, status>>
    BY <1>2, <1>8 DEF Schedule, ScheduleOut
  <2> QED
    BY <1>1, <1>4, <1>8, <2>1 DEF Transit
<1> QED
  BY <1>3, <1>6, <1>7, <1>8

LEMMA ScheduleFrames ==
  ASSUME IInv, FInv, Schedule
  PROVE  FInv'
<1>1. /\ UNCHANGED <<frame, present, dirty, ref, timestamp, time, VC, tlb, pageHist, stale>>
      /\ UNCHANGED <<numFrames, frames, pinned, openFrames, owed, left, quanta, cleaning>>
      /\ UNCHANGED <<running, ready, blocked, lines, restart>>
      /\ reqTicks' = 0
  BY DEF Schedule, pageVars, frameVars, mmuVars, replaceVars, runVars, schedVars, traceVars,
         setVars, histVars
<1>2. /\ \A pg \in Pages : Transit(pg)' <=> Transit(pg)
      /\ UNCHANGED <<status, finished>>
  BY ScheduleTransit
<1>3. PageTypes'
  <2>1. Frames' = Frames /\ MaxTime' = MaxTime /\ Slots' = Slots
    BY <1>1 DEF Frames, MaxTime, Slots
  <2> QED
    BY <1>1, <2>1 DEF FInv, PageTypes
<1>4. StepTypes'
  <2>1. reqTicks' \in 0 .. MaxReqTicks
    BY <1>1, VmmAssumption
  <2> QED
    BY <1>1, <1>2, <2>1 DEF FInv, StepTypes
<1>5. CountTypes' /\ Histories' /\ Covered' /\ FramesMatch'
  <2>1. UNCHANGED <<frame, frameVars, pageHist, stale>>
    BY <1>1 DEF frameVars
  <2>2. \A p : Alive(p)' <=> Alive(p)
    BY <1>1 DEF Alive
  <2>3. \A i \in 1 .. Len(finished') : present'[finished'[i]]
    BY <1>1, <1>2 DEF FInv, Histories
  <2> QED
    BY <1>1, <1>2, <2>1, <2>2, <2>3, UnmovedPages
<1>6. DaemonAdvice'
  BY <1>1, <1>2 DEF FInv, DaemonAdvice
<1> QED
  BY <1>3, <1>4, <1>5, <1>6 DEF FInv

\* What a sync leaves in the page tables.
LEMMA SyncTypes ==
  ASSUME PageTypes, NEW entries, SyncTLB(entries),
         \A i \in Slots : entries[i].ref \in BOOLEAN /\ entries[i].timestamp \in 0 .. VC
  PROVE  /\ ref' \in [Pages -> BOOLEAN] /\ timestamp' \in [Pages -> 0 .. VC]
         /\ UNCHANGED <<frame, present, time>>
<1> DEFINE source == [pg \in Pages |->
                        IF SlotsOf(entries, pg) # {}
                        THEN entries[CHOOSE i \in SlotsOf(entries, pg) : TRUE]
                        ELSE [dirty |-> dirty[pg], ref |-> ref[pg],
                              timestamp |-> timestamp[pg]]]
<1>1. /\ ref' = [pg \in Pages |-> source[pg].ref]
      /\ timestamp' = [pg \in Pages |-> source[pg].timestamp]
      /\ UNCHANGED <<frame, present, time>>
  BY DEF SyncTLB
<1>2. ASSUME NEW pg \in Pages
      PROVE  source[pg].ref \in BOOLEAN /\ source[pg].timestamp \in 0 .. VC
  <2>1. CASE SlotsOf(entries, pg) # {}
    <3>1. (CHOOSE i \in SlotsOf(entries, pg) : TRUE) \in Slots
      BY <2>1 DEF SlotsOf
    <3> QED
      BY <2>1, <3>1
  <2>2. CASE SlotsOf(entries, pg) = {}
    BY <2>2 DEF PageTypes
  <2> QED
    BY <2>1, <2>2
<1> HIDE DEF source
<1> QED
  BY <1>1, <1>2

\* The steps of the TLB move no frame and no page.
LEMMA TlbFrames ==
  ASSUME IInv, FInv, Dispatch \/ QuantumOver \/ PageFault \/ Access
  PROVE  FInv'
<1>1. /\ UNCHANGED <<VC, frameVars, ioVars, replaceVars, status, pending, reqTicks, blocked, lines>>
      /\ UNCHANGED <<setVars, stale>>
  BY DEF Dispatch, QuantumOver, PageFault, Access, reqVars, schedVars, traceVars, histVars
<1>2. /\ UNCHANGED <<VC, frameVars, pageHist, status, pending, reqTicks, blocked, lines, stale>>
      /\ UNCHANGED <<numFrames, ioIn, ioWait, finished, quanta, cleaning>>
  BY <1>1 DEF frameVars, ioVars, replaceVars, setVars
<1>3. /\ RunTypes /\ Types /\ EntriesAgree /\ OnCpu /\ Places /\ PageTypes /\ StepTypes
      /\ \A i \in Slots : tlb[i] \in Entries
      /\ \A i \in Slots : tlb[i].ref \in BOOLEAN /\ tlb[i].timestamp \in 0 .. VC
      /\ VC \in Nat
  <2>1. \A i \in Slots : tlb[i] \in Entries
    BY DEF IInv, Types, RunTypes
  <2> QED
    BY <2>1 DEF IInv, Types, FInv, PageTypes, Entries
<1> DEFINE synced == /\ ref' \in [Pages -> BOOLEAN] /\ timestamp' \in [Pages -> 0 .. VC]
                     /\ UNCHANGED <<frame, present, time>>
           marked == \A i \in Slots' : tlb'[i].timestamp \in 0 .. VC
<1>4. ASSUME UNCHANGED pageVars PROVE synced
  BY <1>3, <1>4 DEF pageVars, PageTypes
<1>5. ASSUME SyncTLB(tlb) PROVE synced
  BY <1>3, <1>5, SyncTypes
<1>6. ASSUME UNCHANGED tlb PROVE marked
  BY <1>3, <1>6 DEF Slots
<1>7. ASSUME QuantumOver PROVE synced /\ marked
  BY <1>5, <1>6, <1>7 DEF QuantumOver, mmuVars
<1>8. ASSUME Dispatch PROVE synced /\ marked
  <2>1. SwitchProc(Head(Queue))
    BY <1>8 DEF Dispatch
  <2>2. CASE UNCHANGED mmuVars /\ UNCHANGED pageVars
    BY <1>4, <1>6, <2>2 DEF mmuVars
  <2>3. CASE FlushTLB
    <3>1. synced
      BY <1>5, <2>3 DEF FlushTLB
    <3>2. tlb' = [i \in Slots |-> Blank] /\ Slots' = Slots
      BY <2>3 DEF FlushTLB, Slots
    <3>3. Blank.timestamp \in 0 .. VC
      BY <1>3 DEF Blank
    <3> QED
      BY <3>1, <3>2, <3>3
  <2> QED
    BY <2>1, <2>2, <2>3 DEF SwitchProc
<1>9. ASSUME PageFault PROVE synced /\ marked
  <2>1. PICK v : tlb' = Dropped(v) /\ SyncTLB(Dropped(v))
    BY <1>9 DEF PageFault, Fault
  <2>2. Slots' = Slots
    BY <2>1 DEF Dropped, Slots
  <2>3. ASSUME NEW i \in Slots
        PROVE  Dropped(v)[i].ref \in BOOLEAN /\ Dropped(v)[i].timestamp \in 0 .. VC
    <3>1. Blank.ref \in BOOLEAN /\ Blank.timestamp \in 0 .. VC
      BY <1>3 DEF Blank
    <3>2. Dropped(v)[i] = Blank \/ Dropped(v)[i] = tlb[i]
      BY DEF Dropped
    <3> QED
      BY <1>3, <3>1, <3>2
  <2> QED
    BY <1>3, <2>1, <2>2, <2>3, SyncTypes
<1>10. ASSUME Access PROVE synced /\ marked
  <2>1. PICK v, isWrite : TlbHit(v, isWrite) \/ PageWalk(v, isWrite)
    BY <1>10 DEF Access
  <2>2. CASE TlbHit(v, isWrite)
    <3>1. PICK i \in Slots : tlb' = [tlb EXCEPT ![i] = HitEntry(i, isWrite)]
      BY <2>2 DEF TlbHit, Hits
    <3>2. UNCHANGED pageVars
      BY <2>2 DEF TlbHit
    <3>3. Slots' = Slots
      BY <3>1 DEF Slots
    <3>4. HitEntry(i, isWrite).timestamp \in 0 .. VC
      <4>1. tlb[i] \in Entries
        BY <1>3
      <4>2. HitEntry(i, isWrite).timestamp = VC
        BY <4>1 DEF HitEntry, Entries
      <4> QED
        BY <1>3, <4>2
    <3>5. \A j \in Slots : tlb'[j].timestamp \in 0 .. VC
      BY <1>3, <3>1, <3>4 DEF Slots
    <3> QED
      BY <1>4, <3>2, <3>3, <3>5
  <2>3. CASE PageWalk(v, isWrite)
    <3>1. AddTLB(v, isWrite)
      BY <2>3 DEF PageWalk
    <3>2. UNCHANGED <<frame, present, ref, timestamp, time>>
      BY <3>1 DEF AddTLB
    <3>3. PICK e : e.timestamp = VC /\ tlb' = [tlb EXCEPT ![replaceIndex] = e]
      BY <3>1 DEF AddTLB
    <3>4. Slots' = Slots /\ \A j \in Slots : tlb'[j].timestamp \in 0 .. VC
      BY <1>3, <3>3 DEF Slots
    <3> QED
      BY <1>3, <3>2, <3>4 DEF PageTypes
  <2> QED
    BY <2>1, <2>2, <2>3
<1>11. synced /\ marked
  BY <1>7, <1>8, <1>9, <1>10
<1>12. PageTypes'
  <2>1. Frames' = Frames /\ MaxTime' = MaxTime
    BY <1>2 DEF Frames, MaxTime
  <2> QED
    BY <1>2, <1>3, <1>11, <2>1 DEF PageTypes
<1>13. StepTypes'
  <2>1. InstrTime \in Nat /\ CsTime \in Nat
    BY VmmAssumption
  <2>2. owed' \in {owed, 0, CsTime}
    BY DEF Dispatch, QuantumOver, PageFault, Access, runVars
  <2>3. owed' \in 0 .. (InstrTime + CsTime)
    BY <1>3, <2>1, <2>2 DEF StepTypes
  <2>4. left' \in 1 .. quanta
    <3>1. quanta \in Nat \ {0} /\ left \in 1 .. quanta
      BY <1>3 DEF RunTypes, StepTypes
    <3>2. CASE Access
      <4>1. left' = IF pc' = "fetch" THEN left - 1 ELSE left
        BY <3>2 DEF Access
      <4>2. line[running] \in Lines /\ pc = "access"
        BY <1>3, <3>2, OnPage DEF Access, At, InRun
      <4>3. line[running].last \in BOOLEAN
        BY <4>2 DEF Lines
      <4>4. pc' = "fetch" => left > 1
        BY <3>1, <3>2, <4>3 DEF Access
      <4> QED
        BY <3>1, <4>1, <4>4
    <3>3. CASE Dispatch \/ QuantumOver \/ PageFault
      BY <3>1, <3>3 DEF Dispatch, QuantumOver, PageFault, runVars
    <3> QED
      BY <3>2, <3>3
  <2>5. restart' \in [Procs -> BOOLEAN]
    BY <1>3 DEF StepTypes, Dispatch, QuantumOver, PageFault, Access, traceVars
  <2> QED
    BY <1>2, <1>3, <2>3, <2>4, <2>5 DEF StepTypes
<1>14. CountTypes' /\ Histories' /\ Covered' /\ FramesMatch'
  <2>1. \A pg : Transit(pg)' <=> Transit(pg)
    BY <1>2 DEF Transit
  <2>2. ASSUME NEW p \in Procs, Alive(p)' PROVE Alive(p)
    <3>1. CASE UNCHANGED schedVars
      BY <1>2, <2>2, <3>1 DEF Alive, schedVars
    <3>2. CASE Dispatch
      <4>1. /\ Queue \in Seq(Procs) /\ Queue # <<>>
            /\ running' = Head(Queue) /\ ready' = Tail(Queue)
        BY <1>3, <3>2, QueueIs DEF Dispatch
      <4>2. \A i \in 1 .. Len(Queue) : Alive(Queue[i])
        <5>1. ready \in Seq(Procs)
          BY <1>3 DEF RunTypes
        <5>2. CASE running = NoProc
          BY <5>2 DEF Queue, Alive
        <5>3. CASE running # NoProc
          <6>1. running \in Procs /\ Queue = Append(ready, running)
            BY <1>3, <5>3 DEF Queue, RunTypes
          <6>2. /\ Len(Queue) = Len(ready) + 1 /\ Len(ready) \in Nat
                /\ \A i \in 1 .. Len(ready) : Queue[i] = ready[i]
                /\ Queue[Len(ready) + 1] = running
            BY <5>1, <6>1, AppendParts
          <6>3. \A i \in 1 .. Len(Queue) : i \in 1 .. Len(ready) \/ i = Len(ready) + 1
            BY <6>2
          <6> QED
            BY <6>2, <6>3 DEF Alive
        <5> QED
          BY <5>2, <5>3
      <4>3. /\ Head(Queue) = Queue[1] /\ 1 \in 1 .. Len(Queue)
            /\ Len(Tail(Queue)) = Len(Queue) - 1 /\ Len(Queue) \in Nat
            /\ \A i \in 1 .. Len(Tail(Queue)) : Tail(Queue)[i] = Queue[i + 1]
        BY <4>1, EmptySeq
      <4>4. \A i \in 1 .. Len(Tail(Queue)) : i + 1 \in 1 .. Len(Queue)
        BY <4>3
      <4> QED
        BY <1>2, <2>2, <4>1, <4>2, <4>3, <4>4 DEF Alive
    <3> QED
      BY <3>1, <3>2 DEF QuantumOver, PageFault, Access
  <2>3. \A pg \in Pages : pg[1] \in Procs
    BY DEF Pages
  <2>4. \A i \in 1 .. Len(finished') : present'[finished'[i]]
    BY <1>2, <1>11 DEF FInv, Histories
  <2> QED
    BY <1>2, <1>11, <2>1, <2>2, <2>3, <2>4, UnmovedPages
<1>15. DaemonAdvice'
  BY <1>2 DEF FInv, DaemonAdvice
<1> QED
  BY <1>12, <1>13, <1>14, <1>15 DEF FInv

-----------------------------------------------------------------------------
(***************************************************************************)
(* A process ends; an input is handed over.                                *)
(***************************************************************************)
\* As long as no frame was returned of a page that was gone, returning the
\* frames of pages that leave memory keeps the records together.
LEMMA ReturnOfPages ==
  ASSUME CountTypes, PageTypes, FramesMatch, ~ stale, UNCHANGED frame,
         NEW gone, gone \subseteq Pages, \A pg \in gone : Held(pg),
         ReturnFrames({frame[pg] : pg \in gone}, Cardinality(gone)),
         \A pg \in Pages : Held(pg)' <=> Held(pg) /\ pg \notin gone,
         \A pg \in Pages : Transit(pg)' <=> Transit(pg)
  PROVE  FramesMatch'
<1> DEFINE image == {frame[pg] : pg \in gone}
<1>1. /\ \A pg, ph \in Pages : Held(pg) /\ Held(ph) /\ frame[pg] = frame[ph] => pg = ph
      /\ frames = {frame[pg] : pg \in {ph \in Pages : Held(ph)}}
      /\ pinned = {frame[pg] : pg \in {ph \in Pages : Transit(ph)}}
      /\ openFrames = numFrames - Cardinality(frames)
  BY DEF FramesMatch
<1>2. /\ frames' = frames \ image /\ openFrames' = openFrames + Cardinality(gone)
      /\ UNCHANGED <<numFrames, pinned>>
  BY DEF ReturnFrames
<1>3. \A pg, ph \in Pages : (Held(pg) /\ Held(ph) /\ frame[pg] = frame[ph])' => pg = ph
  BY <1>1
<1>4. frames' = {frame'[pg] : pg \in {ph \in Pages : Held(ph)'}}
  BY <1>1, <1>2
<1>5. pinned' = {frame'[pg] : pg \in {ph \in Pages : Transit(ph)'}}
  BY <1>1, <1>2
<1>6. openFrames' = numFrames' - Cardinality(frames')
  <2>1. IsFiniteSet(frames) /\ Cardinality(frames) \in Nat
    <3>1. frames \subseteq Frames /\ numFrames \in Nat
      BY DEF CountTypes
    <3> QED
      BY <3>1, FramesFinite, FS_Subset, FS_CardinalityType
  <2>2. IsFiniteSet(image) /\ Cardinality(image) = Cardinality(gone) /\ Cardinality(gone) \in Nat
    BY <1>1, ImageOfPages
  <2>3. frames \cap image = image
    BY <1>1
  <2> HIDE DEF image
  <2>4. Cardinality(frames \ image) = Cardinality(frames) - Cardinality(frames \cap image)
    BY <2>1, <2>2, FS_Difference
  <2>5. numFrames \in Int
    BY DEF CountTypes
  <2>6. Cardinality(frames') = Cardinality(frames) - Cardinality(gone)
    BY <1>2, <2>2, <2>3, <2>4
  <2> QED
    BY <1>1, <1>2, <2>1, <2>2, <2>5, <2>6
<1> QED
  BY <1>3, <1>4, <1>5, <1>6 DEF FramesMatch

LEMMA TerminateFrames ==
  ASSUME IInv, FInv, Terminate
  PROVE  FInv'
<1> DEFINE gone == {pg \in PagesOf(running) : present[pg]}
<1>1. /\ ReturnFrames({frame[pg] : pg \in gone}, Cardinality(gone))
      /\ present' = [pg \in Pages |-> present[pg] /\ pg \notin gone]
      /\ UNCHANGED <<frame, ref, timestamp, time, VC, tlb, pageHist, stale>>
      /\ UNCHANGED <<ioIn, ioWait, finished, pending, ready, blocked>>
      /\ UNCHANGED <<status, owed, left, quanta, lines, restart, reqTicks, cleaning>>
      /\ running' = NoProc
  BY DEF Terminate, CleanupProcess, ioVars, mmuVars, replaceVars, reqVars, traceVars, setVars
<1>2. /\ running \in Procs /\ running \notin blocked
      /\ \A i \in 1 .. Len(ready) : ready[i] # running
  BY OnPage DEF Terminate, At, InRun, IInv, Places
<1>3. gone \subseteq Pages /\ \A pg \in gone : present[pg] /\ pg[1] = running /\ ~ Transit(pg)
  <2>1. gone \subseteq Pages /\ \A pg \in gone : present[pg] /\ pg[1] = running
    BY <1>2 DEF PagesOf, Pages
  <2> HIDE DEF gone
  <2> QED
    BY <1>2, <2>1, TransitBlocked
<1>4. \A pg \in Pages : pg[1] = running /\ present[pg] => pg \in gone
  <2>1. \A pg \in Pages : pg[1] = running => pg \in PagesOf(running)
    BY <1>2 DEF Pages, PagesOf
  <2> QED
    BY <2>1
<1> HIDE DEF gone
<1>5. /\ frames' = frames \ {frame[pg] : pg \in gone}
      /\ UNCHANGED <<numFrames, pinned>> /\ Frames' = Frames
  BY <1>1 DEF ReturnFrames, Frames
<1>6. PageTypes' /\ StepTypes' /\ DaemonAdvice'
  <2>1. Slots' = Slots /\ MaxTime' = MaxTime
    BY <1>1 DEF Slots, MaxTime
  <2> QED
    BY <1>1, <1>5, <2>1 DEF FInv, PageTypes, StepTypes, DaemonAdvice
<1>7. CountTypes'
  <2>1. IsFiniteSet({frame[pg] : pg \in gone}) /\ Cardinality(gone) \in Nat
        /\ Cardinality({frame[pg] : pg \in gone}) <= Cardinality(gone)
    BY <1>3, ImageOfPages
  <2>2. {frame[pg] : pg \in gone} \subseteq Frames
    BY <1>3 DEF FInv, PageTypes
  <2>3. CountTypes
    BY DEF FInv
  <2> QED
    BY <1>1, <2>1, <2>2, <2>3, FreeAfterReturn
<1>8. \A pg : /\ Transit(pg)' <=> Transit(pg)
              /\ Listed(pg)' <=> Listed(pg)
  BY <1>1 DEF Transit, Listed
<1>9. \A pg \in Pages : present'[pg] <=> present[pg] /\ pg \notin gone
  BY <1>1 DEF IInv, Types, TableTypes
<1>10. Histories'
  <2>1. \A p \in Procs : Alive(p)' => Alive(p) /\ p # running
    BY <1>1, <1>2 DEF Alive, Procs, NoProc
  <2>2. \A pg \in Pages : pg[1] \in Procs
    BY DEF Pages
  <2>3. ASSUME NEW i \in 1 .. Len(finished) PROVE present'[finished[i]]
    <3>1. finished[i] \in Pages
      BY JobTypes DEF IInv, Types
    <3>2. Transit(finished[i])
      BY DEF Transit
    <3> QED
      BY <1>3, <1>9, <3>1, <3>2 DEF FInv, Histories
  <2> QED
    BY <1>1, <1>3, <1>8, <1>9, <2>1, <2>2, <2>3 DEF FInv, Histories
<1>11. Covered'
  <2>1. ASSUME NEW f \in Frames
        PROVE  \/ f \notin frames' \/ f \in pinned'
               \/ \E pg \in Pages : Listed(pg)' /\ present'[pg] /\ frame'[pg] = f
    BY <1>1, <1>5, <1>8, <1>9 DEF FInv, Covered
  <2> QED
    BY <1>5, <2>1 DEF Covered
<1>12. FramesMatch'
  <2>1. CASE stale
    BY <1>1, <2>1 DEF FramesMatch
  <2>2. CASE ~ stale
    <3>1. \A pg \in gone : Held(pg)
      BY <1>3 DEF Held
    <3>2. \A pg \in Pages : Held(pg)' <=> Held(pg) /\ pg \notin gone
      BY <1>3, <1>8, <1>9 DEF Held
    <3> QED
      BY <1>1, <1>3, <1>8, <2>2, <3>1, <3>2, ReturnOfPages DEF FInv
  <2> QED
    BY <2>1, <2>2
<1> QED
  BY <1>6, <1>7, <1>10, <1>11, <1>12 DEF FInv

LEMMA DeliverFrames ==
  ASSUME IInv, FInv, Deliver
  PROVE  FInv'
<1> DEFINE pg == Head(finished)
<1>1. /\ pending = <<>> /\ pending' = <<>> /\ finished # <<>> /\ finished' = Tail(finished)
      /\ ready' = Append(ready, pg[1]) /\ blocked' = blocked \ {pg[1]} /\ running' = running
      /\ pageHist' = Append(pageHist, pg)
      /\ pinned' = pinned \ {frame[pg]} /\ UNCHANGED <<numFrames, frames, openFrames>>
      /\ UNCHANGED <<frame, present, ref, timestamp, time, VC, tlb, stale, ioIn, ioWait>>
      /\ UNCHANGED <<status, owed, left, quanta, lines, restart, reqTicks, cleaning>>
  BY DEF Deliver, At, UnblockProcess, FinishedIO, Unpin, pageVars, mmuVars, runVars, reqVars,
         traceVars, setVars, histVars
<1>2. /\ finished \in Seq(Pages) /\ ready \in Seq(Procs) /\ pageHist \in Seq(Pages)
      /\ Len(finished) \in Nat /\ Len(ready) \in Nat /\ Len(pageHist) \in Nat
  BY DEF IInv, Types, IoTypes, RunTypes, TableTypes
<1>3. /\ pg = finished[1] /\ 1 \in 1 .. Len(finished) /\ Len(finished') = Len(finished) - 1
      /\ \A i \in 1 .. Len(finished') : finished'[i] = finished[i + 1]
      /\ \A i \in 1 .. Len(finished') : i + 1 \in 1 .. Len(finished) /\ i + 1 # 1
      /\ \A i \in 1 .. Len(finished) : i # 1 => i - 1 \in 1 .. Len(finished') /\ (i - 1) + 1 = i
  <2>1. 1 \in 1 .. Len(finished)
    BY <1>1, <1>2, EmptySeq
  <2> QED
    BY <1>1, <1>2, <2>1
<1>4. pg \in Pages /\ pg[1] \in Procs /\ pg # NoPage /\ present[pg] /\ Transit(pg)
  <2>1. pg \in Pages
    BY <1>2, <1>3, ElementOfSeq
  <2>2. pg[1] \in Procs /\ pg # NoPage
    BY <2>1 DEF Pages, Procs, NoPage, NoProc
  <2> QED
    BY <1>3, <2>1, <2>2 DEF FInv, Histories, Transit
<1>5. pg[1] \in blocked
  BY <1>4, TransitBlocked
<1> HIDE DEF pg
<1>6. /\ \A i \in 1 .. Len(ioIn) : ioIn[i].job # pg
      /\ \A i \in 1 .. Len(finished) : finished[i] = pg => i = 1
      /\ ioWait[pg[1]] # pg
  <2>1. OneInput(pg[1])
    BY <1>4 DEF IInv, Inputting
  <2>2. \A i \in 1 .. Len(finished) : finished[i] = pg => i \in Ended(pg[1])
    BY DEF Ended
  <2>3. 1 \in Ended(pg[1])
    BY <1>3, <2>2
  <2>4. Queued(pg[1]) = {} /\ ~ Waiting(pg[1])
    BY <2>1, <2>3 DEF OneInput
  <2>5. \A i \in 1 .. Len(ioIn) : ioIn[i].job[1] # pg[1]
    BY <2>4 DEF Queued
  <2>6. \A i, j \in Ended(pg[1]) : i = j
    BY <2>1 DEF OneInput
  <2>7. \A i \in 1 .. Len(finished) : finished[i] = pg => i = 1
    BY <2>2, <2>3, <2>6
  <2>8. ioWait[pg[1]] # pg
    BY <1>4, <2>4 DEF Waiting
  <2>9. ASSUME NEW i \in 1 .. Len(ioIn) PROVE ioIn[i].job # pg
    <3>1. ioIn[i].job[1] # pg[1]
      BY <2>5
    <3> QED
      BY <3>1
  <2> QED
    BY <2>7, <2>8, <2>9
<1>7. \A ph \in Pages : Transit(ph)' <=> Transit(ph) /\ ph # pg
  <2>1. ASSUME NEW ph \in Pages
        PROVE  (\E i \in 1 .. Len(finished') : finished'[i] = ph)
                 <=> (\E i \in 1 .. Len(finished) : finished[i] = ph) /\ ph # pg
    <3>1. ASSUME NEW i \in 1 .. Len(finished'), finished'[i] = ph
          PROVE  (\E j \in 1 .. Len(finished) : finished[j] = ph) /\ ph # pg
      <4>1. i + 1 \in 1 .. Len(finished) /\ i + 1 # 1 /\ finished[i + 1] = ph
        BY <1>3, <3>1
      <4> QED
        BY <1>6, <4>1
    <3>2. ASSUME NEW i \in 1 .. Len(finished), finished[i] = ph, ph # pg
          PROVE  \E j \in 1 .. Len(finished') : finished'[j] = ph
      <4>1. i - 1 \in 1 .. Len(finished') /\ (i - 1) + 1 = i
        BY <1>3, <3>2
      <4>2. finished'[i - 1] = ph
        BY <1>3, <3>2, <4>1
      <4> QED
        BY <4>1, <4>2
    <3> QED
      BY <3>1, <3>2
  <2> QED
    BY <1>1, <1>6, <2>1 DEF Transit
<1>8. /\ Len(pageHist') = Len(pageHist) + 1
      /\ \A i \in 1 .. Len(pageHist) : pageHist'[i] = pageHist[i]
      /\ pageHist'[Len(pageHist) + 1] = pg
      /\ \A i \in 1 .. Len(pageHist') : i \in 1 .. Len(pageHist) \/ i = Len(pageHist) + 1
      /\ \A i \in 1 .. Len(pageHist) : i \in 1 .. Len(pageHist')
      /\ Len(pageHist) + 1 \in 1 .. Len(pageHist')
  <2>1. /\ Len(pageHist') = Len(pageHist) + 1
        /\ \A i \in 1 .. Len(pageHist) : pageHist'[i] = pageHist[i]
        /\ pageHist'[Len(pageHist) + 1] = pg
    BY <1>1, <1>2, <1>4, AppendParts
  <2> QED
    BY <1>2, <2>1
<1>9. \A ph : Listed(ph)' <=> Listed(ph) \/ ph = pg
  BY <1>8 DEF Listed
<1>10. ~ Listed(pg)
  BY <1>4 DEF FInv, Histories
<1>11. \A p : Alive(p)' => Alive(p)
  <2>1. /\ Len(ready') = Len(ready) + 1
        /\ \A i \in 1 .. Len(ready) : ready'[i] = ready[i]
        /\ ready'[Len(ready) + 1] = pg[1]
    BY <1>1, <1>2, <1>4, AppendParts
  <2>2. \A i \in 1 .. Len(ready') : i \in 1 .. Len(ready) \/ i = Len(ready) + 1
    BY <1>2, <2>1
  <2> QED
    BY <1>1, <1>5, <2>1, <2>2 DEF Alive
<1>12. Frames' = Frames /\ Slots' = Slots /\ MaxTime' = MaxTime
  BY <1>1 DEF Frames, Slots, MaxTime
<1>13. PageTypes' /\ StepTypes' /\ DaemonAdvice' /\ CountTypes'
  BY <1>1, <1>12 DEF FInv, PageTypes, StepTypes, DaemonAdvice, CountTypes
<1>14. Histories'
  <2>1. \A i, j \in 1 .. Len(pageHist') : pageHist'[i] = pageHist'[j] => i = j
    BY <1>8, <1>10 DEF FInv, Histories, Listed
  <2>2. \A ph \in Pages : Listed(ph)' => /\ ~ Transit(ph)'
                                         /\ present[ph] \/ ~ Alive(ph[1])'
    BY <1>4, <1>7, <1>9, <1>11 DEF FInv, Histories
  <2>3. \A i \in 1 .. Len(finished') : present[finished'[i]]
    BY <1>3 DEF FInv, Histories
  <2> QED
    BY <1>1, <2>1, <2>2, <2>3 DEF Histories
<1>15. Covered'
  <2>1. ASSUME NEW f \in Frames
        PROVE  \/ f \notin frames' \/ f \in pinned'
               \/ \E ph \in Pages : Listed(ph)' /\ present'[ph] /\ frame'[ph] = f
    <3>1. CASE f = frame[pg]
      BY <1>1, <1>4, <1>9, <3>1
    <3>2. CASE f # frame[pg]
      BY <1>1, <1>9, <3>2 DEF FInv, Covered
    <3> QED
      BY <3>1, <3>2
  <2> QED
    BY <1>12, <2>1 DEF Covered
<1>16. FramesMatch'
  <2> SUFFICES ASSUME ~ stale'
               PROVE  FramesMatch'
    BY DEF FramesMatch
  <2>1. /\ \A ph, qg \in Pages : Held(ph) /\ Held(qg) /\ frame[ph] = frame[qg] => ph = qg
        /\ frames = {frame[ph] : ph \in {qg \in Pages : Held(qg)}}
        /\ pinned = {frame[ph] : ph \in {qg \in Pages : Transit(qg)}}
        /\ openFrames = numFrames - Cardinality(frames)
    BY <1>1 DEF FInv, FramesMatch
  <2>2. \A ph \in Pages : Held(ph)' <=> Held(ph)
    BY <1>1, <1>4, <1>7 DEF Held
  <2>3. \A ph \in Pages : Transit(ph) => Held(ph)
    BY DEF Held
  <2>4. frames' = {frame'[ph] : ph \in {qg \in Pages : Held(qg)'}}
    BY <1>1, <2>1, <2>2
  <2>5. pinned' = {frame'[ph] : ph \in {qg \in Pages : Transit(qg)'}}
    BY <1>1, <1>4, <1>7, <2>1, <2>3
  <2> QED
    BY <1>1, <2>1, <2>2, <2>4, <2>5 DEF FramesMatch
<1> QED
  BY <1>13, <1>14, <1>15, <1>16 DEF FInv

-----------------------------------------------------------------------------
(***************************************************************************)
(* A page fault gets a frame.                                              *)
(***************************************************************************)
\* Such a sequence holds what is at these places, and nothing twice.
TakenFrom(r, hist, places) ==
  /\ (\A i, j \in 1 .. Len(hist) : hist[i] = hist[j] => i = j)
       => \A j, k \in 1 .. Len(r) : r[j] = r[k] => j = k
  /\ \A k \in 1 .. Len(r) : \E i \in places : r[k] = hist[i]
  /\ \A i \in places : \E k \in 1 .. Len(r) : r[k] = hist[i]

LEMMA RestrictionParts ==
  ASSUME NEW hist \in Seq(Pages), NEW places, places \subseteq 1 .. Len(hist),
         NEW r \in Restrictions(hist, places)
  PROVE  TakenFrom(r, hist, places)
<1>1. PICK at \in SetToSeqs(places) : r = [k \in DOMAIN at |-> hist[at[k]]]
  BY DEF Restrictions
<1>2. IsFiniteSet(places)
  <2>1. IsFiniteSet(1 .. Len(hist)) /\ Len(hist) \in Nat
    BY FS_Interval
  <2> QED
    BY <2>1, FS_Subset
<1>3. /\ at \in Seq(places)
      /\ \A i, j \in 1 .. Len(at) : at[i] = at[j] => i = j
      /\ \A x \in places : \E i \in 1 .. Len(at) : at[i] = x
  BY <1>2, OrderOfSet
<1>4. DOMAIN at = 1 .. Len(at) /\ Len(at) \in Nat /\ \A k \in 1 .. Len(at) : at[k] \in places
  BY <1>3
<1>5. Len(r) = Len(at) /\ \A k \in 1 .. Len(r) : r[k] = hist[at[k]] /\ at[k] \in places
  BY <1>1, <1>4
<1>6. ASSUME \A i, j \in 1 .. Len(hist) : hist[i] = hist[j] => i = j,
             NEW j \in 1 .. Len(r), NEW k \in 1 .. Len(r), r[j] = r[k]
      PROVE  j = k
  <2>1. at[j] \in 1 .. Len(hist) /\ at[k] \in 1 .. Len(hist) /\ hist[at[j]] = hist[at[k]]
    BY <1>5, <1>6
  <2>2. at[j] = at[k]
    BY <1>6, <2>1
  <2> QED
    BY <1>3, <1>5, <2>2
<1>7. \A k \in 1 .. Len(r) : \E i \in places : r[k] = hist[i]
  BY <1>5
<1>8. ASSUME NEW i \in places PROVE \E k \in 1 .. Len(r) : r[k] = hist[i]
  BY <1>3, <1>5
<1> QED
  BY <1>6, <1>7, <1>8 DEF TakenFrom

\* Of the pages that are present the victim alone leaves the policies' list, and
\* nothing joins it.
LEMMA VictimLeaves ==
  ASSUME TableTypes, NEW i \in 1 .. Len(pageHist), NEW times, IsVictim(i, times), WithoutVictim(i),
         \A j, k \in 1 .. Len(pageHist) : pageHist[j] = pageHist[k] => j = k
  PROVE  /\ \A j, k \in 1 .. Len(pageHist') : pageHist'[j] = pageHist'[k] => j = k
         /\ \A pg : Listed(pg)' => Listed(pg) /\ pg # pageHist[i]
         /\ \A pg : Listed(pg) /\ present[pg] /\ pg # pageHist[i] => Listed(pg)'
<1>1. pageHist \in Seq(Pages) /\ Len(pageHist) \in Nat /\ DOMAIN pageHist = 1 .. Len(pageHist)
  BY DEF TableTypes
<1>2. CASE policy = "fifo"
  <2>1. pageHist' = SubSeq(pageHist, i + 1, Len(pageHist))
    BY <1>2 DEF WithoutVictim
  <2>2. /\ Len(pageHist') = Len(pageHist) - i
        /\ \A k \in 1 .. Len(pageHist') : pageHist'[k] = pageHist[i + k]
    <3>1. \A j \in i + 1 .. Len(pageHist) : pageHist[j] \in Pages
      BY <1>1, ElementOfSeq
    <3>2. /\ Len(pageHist') = IF i + 1 <= Len(pageHist) THEN Len(pageHist) - (i + 1) + 1 ELSE 0
          /\ \A k \in 1 .. Len(pageHist) - (i + 1) + 1 : pageHist'[k] = pageHist[(i + 1) + k - 1]
      BY <1>1, <2>1, <3>1, SubSeqProperties
    <3>3. Len(pageHist) - (i + 1) + 1 = Len(pageHist) - i /\ Len(pageHist') = Len(pageHist) - i
      <4>1. Len(pageHist') = IF i + 1 <= Len(pageHist) THEN Len(pageHist) - (i + 1) + 1 ELSE 0
        BY <3>2
      <4>2. i \in Nat /\ i <= Len(pageHist) /\ Len(pageHist) \in Nat
        BY <1>1
      <4> QED
        BY <4>1, <4>2
    <3>4. \A k \in 1 .. Len(pageHist') : (i + 1) + k - 1 = i + k
      BY <1>1, <3>3
    <3> QED
      BY <3>2, <3>3, <3>4
  <2>3. \A k \in 1 .. Len(pageHist') : i + k \in 1 .. Len(pageHist) /\ i + k # i
    BY <1>1, <2>2
  <2>4. ASSUME NEW k \in 1 .. Len(pageHist), present[pageHist[k]], k # i
        PROVE  \E j \in 1 .. Len(pageHist') : pageHist'[j] = pageHist[k]
    <3>1. i <= k
      <4>1. \A pg : Rank(pg, times) = 0
        BY <1>2 DEF Rank
      <4> QED
        BY <1>1, <2>4, <4>1 DEF IsVictim
    <3>2. k - i \in 1 .. Len(pageHist') /\ i + (k - i) = k
      BY <1>1, <2>2, <2>4, <3>1
    <3> QED
      BY <2>2, <3>2
  <2>5. \A j, k \in 1 .. Len(pageHist') : pageHist'[j] = pageHist'[k] => j = k
    BY <2>2, <2>3
  <2>6. \A pg : Listed(pg)' => Listed(pg) /\ pg # pageHist[i]
    BY <2>2, <2>3 DEF Listed
  <2>7. \A pg : Listed(pg) /\ present[pg] /\ pg # pageHist[i] => Listed(pg)'
    BY <2>4 DEF Listed
  <2> QED
    BY <2>5, <2>6, <2>7
<1>3. CASE policy # "fifo"
  <2> DEFINE places == {j \in DOMAIN pageHist : present[pageHist[j]] /\ pageHist[j] # pageHist[i]}
  <2>1. pageHist' \in Restrictions(pageHist, places)
    BY <1>3 DEF WithoutVictim
  <2>2. places \subseteq 1 .. Len(pageHist)
    BY <1>1
  <2>3. \A j \in places : j \in 1 .. Len(pageHist) /\ pageHist[j] # pageHist[i]
    BY <1>1
  <2>4. \A j \in 1 .. Len(pageHist) : present[pageHist[j]] /\ pageHist[j] # pageHist[i] => j \in places
    BY <1>1
  <2> HIDE DEF places
  <2>5. /\ \A j, k \in 1 .. Len(pageHist') : pageHist'[j] = pageHist'[k] => j = k
        /\ \A k \in 1 .. Len(pageHist') : \E j \in places : pageHist'[k] = pageHist[j]
        /\ \A j \in places : \E k \in 1 .. Len(pageHist') : pageHist'[k] = pageHist[j]
    <3>1. pageHist \in Seq(Pages)
      BY <1>1
    <3>2. TakenFrom(pageHist', pageHist, places)
      BY <2>1, <2>2, <3>1, RestrictionParts
    <3> QED
      BY <3>2 DEF TakenFrom
  <2>6. \A pg : (\E k \in 1 .. Len(pageHist') : pageHist'[k] = pg) => Listed(pg) /\ pg # pageHist[i]
    BY <2>3, <2>5 DEF Listed
  <2>7. ASSUME NEW pg, Listed(pg), present[pg], pg # pageHist[i]
        PROVE  \E k \in 1 .. Len(pageHist') : pageHist'[k] = pg
    <3>1. PICK j \in 1 .. Len(pageHist) : pageHist[j] = pg
      BY <2>7 DEF Listed
    <3>2. j \in places
      BY <2>4, <2>7, <3>1
    <3> QED
      BY <2>5, <3>1, <3>2
  <2> QED
    BY <2>5, <2>6, <2>7 DEF Listed
<1> QED
  BY <1>2, <1>3

\* The page of the process that faulted is on its way in.
LEMMA WantedTransit ==
  ASSUME IInv, At("resolve"), UNCHANGED ioVars, Block, NEW out \in Pages, AsksFor(out)
  PROVE  /\ Wanted \in Pages /\ Wanted[1] = running /\ Alive(running)
         /\ ~ present[Wanted] /\ ~ Transit(Wanted)
         /\ \A pg \in Pages : Transit(pg)' <=> Transit(pg) \/ pg = Wanted
         /\ \A p \in Procs : Alive(p)' <=> Alive(p)
<1>1. /\ pc = "resolve" /\ pending = <<>>
      /\ UNCHANGED <<ioIn, ioWait, finished, ready>>
      /\ blocked' = blocked \cup {running} /\ running' = NoProc
  BY DEF At, Block, ioVars
<1>2. running \in Procs /\ Wanted \in Pages /\ Wanted[1] = running /\ ~ present[Wanted]
  BY <1>1, OnPage, BlockedStep DEF IInv, InRun, OnCpu
<1>3. ~ Transit(Wanted)
  BY <1>2, TransitBlocked DEF IInv, Places
<1>4. pending' # <<>> /\ pending'[1].type # "out" /\ pending'[1].page = Wanted
  BY DEF AsksFor, Request
<1>5. \A pg \in Pages : Transit(pg)' <=> Transit(pg) \/ pg = Wanted
  BY <1>1, <1>4 DEF Transit
<1>6. \A p \in Procs : Alive(p)' <=> Alive(p)
  BY <1>1 DEF Alive, Procs, NoProc
<1> QED
  BY <1>2, <1>3, <1>5, <1>6 DEF Alive

LEMMA ResolveFreeFrames ==
  ASSUME IInv, FInv, ResolveFree
  PROVE  FInv'
<1>1. PICK f \in Frames : GetFrame(f) /\ frame' = [frame EXCEPT ![Wanted] = f]
  BY DEF ResolveFree
<1>2. /\ f \notin frames /\ f \notin pinned
      /\ frames' = frames \cup {f} /\ openFrames' = openFrames - 1
      /\ pinned' = pinned \cup {f} /\ numFrames' = numFrames
  BY <1>1 DEF GetFrame, CanGet, IsFirstFree
<1>3. /\ At("resolve") /\ Block /\ UpdateTime /\ AsksFor(Wanted)
      /\ present' = [present EXCEPT ![Wanted] = TRUE]
      /\ UNCHANGED <<timestamp, VC, ioVars, ioIn, ioWait, finished, tlb, pageHist, status>>
      /\ UNCHANGED <<owed, left, reqTicks, quanta, lines, restart, cleaning, stale>>
  BY DEF ResolveFree, AsksFor, ioVars, mmuVars, replaceVars, traceVars, setVars, histVars
<1>4. Wanted \in Pages
  BY <1>3, OnPage DEF IInv, At, InRun
<1>5. /\ Wanted[1] = running /\ Alive(running)
      /\ ~ present[Wanted] /\ ~ Transit(Wanted)
      /\ \A pg \in Pages : Transit(pg)' <=> Transit(pg) \/ pg = Wanted
      /\ \A p \in Procs : Alive(p)' <=> Alive(p)
  BY <1>3, <1>4, WantedTransit
<1>6. /\ frame \in [Pages -> Frames] /\ present \in [Pages -> BOOLEAN]
      /\ \A pg \in Pages : pg[1] \in Procs
  BY DEF FInv, PageTypes, IInv, Types, TableTypes, Pages
<1>7. /\ frame' \in [Pages -> Frames] /\ frame'[Wanted] = f
      /\ \A pg \in Pages : pg # Wanted => frame'[pg] = frame[pg]
      /\ \A pg \in Pages : present'[pg] <=> present[pg] \/ pg = Wanted
  BY <1>1, <1>3, <1>4, <1>6
<1>8. ~ Listed(Wanted)
  BY <1>4, <1>5 DEF FInv, Histories
<1>9. \A pg : Listed(pg)' <=> Listed(pg)
  BY <1>3 DEF Listed
<1>10. Frames' = Frames /\ Slots' = Slots /\ MaxTime' = MaxTime
  BY <1>2, <1>3 DEF Frames, Slots, MaxTime
<1>11. PageTypes' /\ StepTypes' /\ DaemonAdvice'
  <2>1. ref' \in [Pages -> BOOLEAN] /\ time' \in [Pages -> 0 .. MaxTime]
    BY <1>3, UpdateTypes DEF FInv
  <2> QED
    BY <1>2, <1>3, <1>7, <1>10, <2>1 DEF FInv, PageTypes, StepTypes, DaemonAdvice
<1>12. /\ numFrames \in Nat \ {0} /\ frames \subseteq Frames /\ pinned \subseteq Frames
       /\ openFrames \in Int /\ Cardinality(Frames \ frames) <= openFrames
       /\ IsFiniteSet(Frames)
  BY FramesFinite DEF FInv, CountTypes
<1>13. CountTypes'
  <2>1. IsFiniteSet(Frames \ frames) /\ f \in Frames \ frames
    BY <1>2, <1>12, FS_Subset
  <2>2. /\ Cardinality((Frames \ frames) \ {f}) = Cardinality(Frames \ frames) - 1
        /\ Cardinality(Frames \ frames) \in Nat
    BY <2>1, FS_RemoveElement, FS_CardinalityType
  <2>3. Frames \ frames' = (Frames \ frames) \ {f}
    BY <1>2
  <2>4. Cardinality(Frames \ frames') <= openFrames'
    BY <1>2, <1>12, <2>2, <2>3
  <2>5. openFrames' \in Int /\ frames' \subseteq Frames /\ pinned' \subseteq Frames
    BY <1>2, <1>12
  <2> QED
    BY <1>2, <1>10, <1>12, <2>4, <2>5 DEF CountTypes
<1>14. Histories'
  <2>1. ASSUME NEW i \in 1 .. Len(finished) PROVE present'[finished[i]]
    <3>1. finished[i] \in Pages /\ present[finished[i]]
      BY JobTypes DEF IInv, Types, FInv, Histories
    <3> QED
      BY <1>7, <3>1
  <2>2. \A pg \in Pages : Listed(pg) => ~ Transit(pg) /\ (present[pg] \/ ~ Alive(pg[1]))
    BY DEF FInv, Histories
  <2>3. \A pg \in Pages : Listed(pg)' => ~ Transit(pg)' /\ (present'[pg] \/ ~ Alive(pg[1])')
    BY <1>5, <1>6, <1>7, <1>8, <1>9, <2>2
  <2> QED
    BY <1>3, <2>1, <2>3 DEF FInv, Histories
<1>15. Covered'
  <2>1. ASSUME NEW g \in Frames
        PROVE  \/ g \notin frames' \/ g \in pinned'
               \/ \E pg \in Pages : Listed(pg)' /\ present'[pg] /\ frame'[pg] = g
    <3>1. CASE g = f
      BY <1>2, <3>1
    <3>2. CASE g # f
      BY <1>2, <1>7, <1>8, <1>9, <3>2 DEF FInv, Covered
    <3> QED
      BY <3>1, <3>2
  <2> QED
    BY <1>10, <2>1 DEF Covered
<1>16. FramesMatch'
  <2> SUFFICES ASSUME ~ stale'
               PROVE  FramesMatch'
    BY DEF FramesMatch
  <2>1. /\ \A pg, ph \in Pages : Held(pg) /\ Held(ph) /\ frame[pg] = frame[ph] => pg = ph
        /\ frames = {frame[pg] : pg \in {ph \in Pages : Held(ph)}}
        /\ pinned = {frame[pg] : pg \in {ph \in Pages : Transit(ph)}}
        /\ openFrames = numFrames - Cardinality(frames)
    BY <1>3 DEF FInv, FramesMatch
  <2>2. \A pg \in Pages : Held(pg)' <=> Held(pg) \/ pg = Wanted
    BY <1>5, <1>7 DEF Held
  <2>3. ~ Held(Wanted) /\ \A pg \in Pages : Held(pg) => frame[pg] # f
    BY <1>2, <1>5, <2>1 DEF Held
  <2>4. \A pg, ph \in Pages : (Held(pg) /\ Held(ph) /\ frame[pg] = frame[ph])' => pg = ph
    BY <1>7, <2>1, <2>2, <2>3
  <2>5. frames' = {frame'[pg] : pg \in {ph \in Pages : Held(ph)'}}
    BY <1>2, <1>4, <1>7, <2>1, <2>2, <2>3
  <2>6. pinned' = {frame'[pg] : pg \in {ph \in Pages : Transit(ph)'}}
    BY <1>2, <1>4, <1>5, <1>7, <2>1
  <2>7. openFrames' = numFrames' - Cardinality(frames')
    <3>1. Cardinality(frames \cup {f}) = Cardinality(frames) + 1 /\ Cardinality(frames) \in Nat
      BY <1>2, <1>12, FS_Subset, FS_AddElement, FS_CardinalityType
    <3> QED
      BY <1>2, <1>12, <2>1, <3>1
  <2> QED
    BY <2>4, <2>5, <2>6, <2>7 DEF FramesMatch
<1> QED
  BY <1>11, <1>13, <1>14, <1>15, <1>16 DEF FInv

LEMMA ResolveVictimFrames ==
  ASSUME IInv, FInv, ResolveVictim
  PROVE  FInv'
<1>1. PICK i \in DOMAIN pageHist :
        LET out == pageHist[i]
        IN  /\ IsVictim(i, Updated)
            /\ WithoutVictim(i)
            /\ frame' = [frame EXCEPT ![Wanted] = frame[out]]
            /\ Pin(frame[out])
            /\ present' = [present EXCEPT ![out] = FALSE]
            /\ pending' = IF dirty[out]
                          THEN <<Request("wait", Wanted, NoPage),
                                 Request("out", out, Wanted)>>
                          ELSE <<Request("in", Wanted, NoPage)>>
  BY DEF ResolveVictim
<1> DEFINE out == pageHist[i]
<1>2. /\ IsVictim(i, Updated) /\ present[out] /\ WithoutVictim(i) /\ AsksFor(out)
      /\ frame' = [frame EXCEPT ![Wanted] = frame[out]]
      /\ pinned' = pinned \cup {frame[out]} /\ UNCHANGED <<numFrames, frames, openFrames>>
      /\ present' = [present EXCEPT ![out] = FALSE]
  BY <1>1 DEF AsksFor, Pin, IsVictim
<1>3. /\ At("resolve") /\ Block /\ UpdateTime
      /\ UNCHANGED <<timestamp, VC, ioVars, ioIn, ioWait, finished, tlb, status>>
      /\ UNCHANGED <<owed, left, reqTicks, quanta, lines, restart, cleaning, stale>>
  BY DEF ResolveVictim, ioVars, mmuVars, traceVars, setVars
<1>4. i \in 1 .. Len(pageHist) /\ out \in Pages /\ TableTypes /\ Listed(out)
  <2>1. pageHist \in Seq(Pages) /\ TableTypes
    BY DEF IInv, Types, TableTypes
  <2> QED
    BY <2>1, ElementOfSeq DEF Listed
<1>5. \A j, k \in 1 .. Len(pageHist) : pageHist[j] = pageHist[k] => j = k
  BY DEF FInv, Histories
<1>6. /\ \A j, k \in 1 .. Len(pageHist') : pageHist'[j] = pageHist'[k] => j = k
      /\ \A pg : Listed(pg)' => Listed(pg) /\ pg # out
      /\ \A pg : Listed(pg) /\ present[pg] /\ pg # out => Listed(pg)'
  BY <1>2, <1>4, <1>5, VictimLeaves
<1> HIDE DEF out
<1>7. /\ Wanted \in Pages /\ Wanted[1] = running /\ Alive(running)
      /\ ~ present[Wanted] /\ ~ Transit(Wanted)
      /\ \A pg \in Pages : Transit(pg)' <=> Transit(pg) \/ pg = Wanted
      /\ \A p \in Procs : Alive(p)' <=> Alive(p)
  BY <1>2, <1>3, <1>4, WantedTransit
<1>8. /\ frame \in [Pages -> Frames] /\ present \in [Pages -> BOOLEAN]
      /\ \A pg \in Pages : pg[1] \in Procs
  BY DEF FInv, PageTypes, IInv, Types, TableTypes, Pages
<1>9. /\ out # Wanted /\ ~ Listed(Wanted) /\ ~ Transit(out)
      /\ frame' \in [Pages -> Frames] /\ frame'[Wanted] = frame[out]
      /\ \A pg \in Pages : pg # Wanted => frame'[pg] = frame[pg]
      /\ \A pg \in Pages : present'[pg] <=> present[pg] /\ pg # out
  <2>1. out # Wanted /\ ~ Listed(Wanted) /\ ~ Transit(out)
    BY <1>2, <1>4, <1>7 DEF FInv, Histories
  <2> QED
    BY <1>2, <1>4, <1>7, <1>8, <2>1
<1>10. Frames' = Frames /\ Slots' = Slots /\ MaxTime' = MaxTime
  BY <1>2, <1>3 DEF Frames, Slots, MaxTime
<1>11. PageTypes' /\ StepTypes' /\ DaemonAdvice'
  <2>1. ref' \in [Pages -> BOOLEAN] /\ time' \in [Pages -> 0 .. MaxTime]
    BY <1>3, UpdateTypes DEF FInv
  <2> QED
    BY <1>2, <1>3, <1>9, <1>10, <2>1 DEF FInv, PageTypes, StepTypes, DaemonAdvice
<1>12. CountTypes'
  BY <1>2, <1>4, <1>8, <1>10 DEF FInv, CountTypes
<1>13. Histories'
  <2>1. ASSUME NEW k \in 1 .. Len(finished) PROVE present'[finished[k]]
    <3>1. finished[k] \in Pages /\ present[finished[k]] /\ Transit(finished[k])
      BY JobTypes DEF IInv, Types, FInv, Histories, Transit
    <3> QED
      BY <1>9, <3>1
  <2>2. \A pg \in Pages : Listed(pg) => ~ Transit(pg) /\ (present[pg] \/ ~ Alive(pg[1]))
    BY DEF FInv, Histories
  <2>3. \A pg \in Pages : Listed(pg)' => ~ Transit(pg)' /\ (present'[pg] \/ ~ Alive(pg[1])')
    BY <1>6, <1>7, <1>8, <1>9, <2>2
  <2> QED
    BY <1>3, <1>6, <2>1, <2>3 DEF Histories
<1>14. Covered'
  <2>1. ASSUME NEW g \in Frames
        PROVE  \/ g \notin frames' \/ g \in pinned'
               \/ \E pg \in Pages : Listed(pg)' /\ present'[pg] /\ frame'[pg] = g
    <3>1. CASE g = frame[out]
      BY <1>2, <3>1
    <3>2. CASE g # frame[out]
      BY <1>2, <1>6, <1>9, <3>2 DEF FInv, Covered
    <3> QED
      BY <3>1, <3>2
  <2> QED
    BY <1>10, <2>1 DEF Covered
<1>15. FramesMatch'
  <2> SUFFICES ASSUME ~ stale'
               PROVE  FramesMatch'
    BY DEF FramesMatch
  <2>1. /\ \A pg, ph \in Pages : Held(pg) /\ Held(ph) /\ frame[pg] = frame[ph] => pg = ph
        /\ frames = {frame[pg] : pg \in {ph \in Pages : Held(ph)}}
        /\ pinned = {frame[pg] : pg \in {ph \in Pages : Transit(ph)}}
        /\ openFrames = numFrames - Cardinality(frames)
    BY <1>3 DEF FInv, FramesMatch
  <2>2. \A pg \in Pages : Held(pg)' <=> (Held(pg) /\ pg # out) \/ pg = Wanted
    BY <1>7, <1>9 DEF Held
  <2>3. Held(out) /\ ~ Held(Wanted)
    BY <1>2, <1>7 DEF Held
  <2>4. \A pg, ph \in Pages : (Held(pg) /\ Held(ph) /\ frame[pg] = frame[ph])' => pg = ph
    BY <1>4, <1>9, <2>1, <2>2, <2>3
  <2>5. frames' = {frame'[pg] : pg \in {ph \in Pages : Held(ph)'}}
    BY <1>2, <1>4, <1>7, <1>9, <2>1, <2>2, <2>3
  <2>6. pinned' = {frame'[pg] : pg \in {ph \in Pages : Transit(ph)'}}
    BY <1>2, <1>7, <1>9, <2>1
  <2> QED
    BY <1>2, <2>1, <2>4, <2>5, <2>6 DEF FramesMatch
<1> QED
  BY <1>11, <1>12, <1>13, <1>14, <1>15 DEF FInv

-----------------------------------------------------------------------------
(***************************************************************************)
(* The cleaning daemon.                                                    *)
(***************************************************************************)
\* Every order goes through each page of the policies' list once.
LEMMA ClearOrderParts ==
  ASSUME TableTypes, NEW order \in ClearOrders,
         \A i, j \in 1 .. Len(pageHist) : pageHist[i] = pageHist[j] => i = j
  PROVE  /\ order \in Seq(Pages) /\ Len(order) = Len(pageHist)
         /\ \A i, j \in 1 .. Len(order) : order[i] = order[j] => i = j
         /\ \A pg : Listed(pg) <=> \E i \in 1 .. Len(order) : order[i] = pg
<1>1. order \in Seq(Pages) /\ Len(order) = Len(pageHist)
  BY ClearOrdersType
<1>2. pageHist \in Seq(Pages) /\ Len(pageHist) \in Nat /\ DOMAIN pageHist = 1 .. Len(pageHist)
  BY DEF TableTypes
<1>3. CASE policy = "fifo"
  <2>1. order = pageHist
    BY <1>3 DEF ClearOrders
  <2> QED
    BY <1>1, <2>1 DEF Listed
<1>4. CASE policy # "fifo"
  <2>1. PICK f \in SetToSeqs(DOMAIN pageHist) : order = [i \in DOMAIN pageHist |-> pageHist[f[i]]]
    BY <1>4 DEF ClearOrders
  <2>2. IsFiniteSet(DOMAIN pageHist) /\ Cardinality(DOMAIN pageHist) = Len(pageHist)
    <3>1. 1 \in Int /\ Len(pageHist) \in Int
      BY <1>2
    <3>2. /\ IsFiniteSet(1 .. Len(pageHist))
          /\ Cardinality(1 .. Len(pageHist))
               = IF 1 > Len(pageHist) THEN 0 ELSE Len(pageHist) - 1 + 1
      BY <3>1, FS_Interval
    <3> QED
      BY <1>2, <3>2
  <2>3. /\ f \in Seq(DOMAIN pageHist) /\ Len(f) = Len(pageHist)
        /\ \A i, j \in 1 .. Len(f) : f[i] = f[j] => i = j
        /\ \A x \in DOMAIN pageHist : \E i \in 1 .. Len(f) : f[i] = x
    BY <2>1, <2>2, OrderOfSet
  <2>4. \A i \in 1 .. Len(pageHist) : f[i] \in 1 .. Len(pageHist) /\ order[i] = pageHist[f[i]]
    BY <1>2, <2>1, <2>3
  <2>5. ASSUME NEW i \in 1 .. Len(order), NEW j \in 1 .. Len(order), order[i] = order[j]
        PROVE  i = j
    <3>1. pageHist[f[i]] = pageHist[f[j]] /\ f[i] \in 1 .. Len(pageHist)
          /\ f[j] \in 1 .. Len(pageHist)
      BY <1>1, <2>4, <2>5
    <3> QED
      BY <1>1, <2>3, <3>1
  <2>6. ASSUME NEW pg PROVE Listed(pg) <=> \E i \in 1 .. Len(order) : order[i] = pg
    <3>1. ASSUME NEW i \in 1 .. Len(pageHist), pageHist[i] = pg
          PROVE  \E j \in 1 .. Len(order) : order[j] = pg
      <4>1. PICK j \in 1 .. Len(f) : f[j] = i
        BY <1>2, <2>3
      <4>2. j \in 1 .. Len(order) /\ order[j] = pageHist[f[j]]
        BY <1>1, <2>3, <2>4
      <4> QED
        BY <3>1, <4>1, <4>2
    <3>2. ASSUME NEW j \in 1 .. Len(order), order[j] = pg
          PROVE  Listed(pg)
      BY <1>1, <2>4, <3>2 DEF Listed
    <3> QED
      BY <3>1, <3>2 DEF Listed
  <2> QED
    BY <1>1, <2>5, <2>6
<1> QED
  BY <1>3, <1>4

\* How many the first n pages of such an order are.
LEMMA FirstPages ==
  ASSUME NEW order \in Seq(Pages), NEW n \in 1 .. Len(order),
         \A i, j \in 1 .. Len(order) : order[i] = order[j] => i = j
  PROVE  LET gone == ToSet(SubSeq(order, 1, n))
             rest == SubSeq(order, n + 1, Len(order))
         IN  /\ gone = {order[i] : i \in 1 .. n} /\ gone \subseteq Pages
             /\ Cardinality(gone) = n
             /\ \A i, j \in 1 .. Len(rest) : rest[i] = rest[j] => i = j
             /\ \A pg : (\E i \in 1 .. Len(rest) : rest[i] = pg)
                          <=> pg \notin gone /\ \E i \in 1 .. Len(order) : order[i] = pg
<1> DEFINE chosen == SubSeq(order, 1, n)
           gone == ToSet(chosen)
           rest == SubSeq(order, n + 1, Len(order))
<1>1. /\ Len(order) \in Nat /\ n \in Nat /\ n >= 1 /\ n <= Len(order)
      /\ \A i \in 1 .. Len(order) : order[i] \in Pages
  BY ElementOfSeq
<1>2. chosen \in Seq(Pages) /\ Len(chosen) = n /\ \A k \in 1 .. n : chosen[k] = order[k]
  <2>1. \A i \in 1 .. n : order[i] \in Pages
    BY <1>1
  <2>2. /\ chosen \in Seq(Pages) /\ Len(chosen) = (IF 1 <= n THEN n - 1 + 1 ELSE 0)
        /\ \A k \in 1 .. n - 1 + 1 : chosen[k] = order[1 + k - 1]
    BY <1>1, <2>1, SubSeqProperties
  <2>3. n - 1 + 1 = n /\ \A k \in 1 .. n : 1 + k - 1 = k
    BY <1>1
  <2> HIDE DEF chosen
  <2> QED
    BY <1>1, <2>2, <2>3
<1>3. /\ rest \in Seq(Pages) /\ Len(rest) = Len(order) - n
      /\ \A k \in 1 .. Len(rest) : rest[k] = order[n + k]
  <2>1. \A i \in n + 1 .. Len(order) : order[i] \in Pages
    BY <1>1
  <2>2. /\ rest \in Seq(Pages)
        /\ Len(rest) = (IF n + 1 <= Len(order) THEN Len(order) - (n + 1) + 1 ELSE 0)
        /\ \A k \in 1 .. Len(order) - (n + 1) + 1 : rest[k] = order[(n + 1) + k - 1]
    BY <1>1, <2>1, SubSeqProperties
  <2> HIDE DEF rest
  <2>3. Len(rest) = Len(order) - n /\ Len(order) - (n + 1) + 1 = Len(order) - n
    <3>1. Len(rest) = (IF n + 1 <= Len(order) THEN Len(order) - (n + 1) + 1 ELSE 0)
      BY <2>2
    <3> QED
      BY <1>1, <3>1
  <2>4. \A k \in 1 .. Len(rest) : (n + 1) + k - 1 = n + k
    BY <1>1, <2>3
  <2> QED
    BY <2>2, <2>3, <2>4
<1> HIDE DEF chosen, rest
<1>4. gone = {order[i] : i \in 1 .. n}
  <2>1. DOMAIN chosen = 1 .. n
    BY <1>2
  <2> QED
    BY <1>2, <2>1 DEF ToSet
<1> HIDE DEF gone
<1>5. \A i \in 1 .. n : i \in 1 .. Len(order)
  BY <1>1
<1>6. gone \subseteq Pages
  BY <1>1, <1>4, <1>5
<1>7. Cardinality(gone) = n
  <2> DEFINE fun == [i \in 1 .. n |-> order[i]]
  <2>1. fun \in Bijection(1 .. n, gone)
    BY <1>4, <1>5 DEF Bijection, Injection, Surjection, IsInjective
  <2>2. ExistsBijection(1 .. n, gone)
    BY <2>1 DEF ExistsBijection
  <2>3. IsFiniteSet(1 .. n) /\ Cardinality(1 .. n) = IF 1 > n THEN 0 ELSE n - 1 + 1
    BY <1>1, FS_Interval
  <2>4. Cardinality(1 .. n) = n
    BY <1>1, <2>3
  <2> QED
    BY <2>2, <2>3, <2>4, FS_Bijection
<1>8. \A k \in 1 .. Len(rest) : n + k \in 1 .. Len(order) /\ \A i \in 1 .. n : i # n + k
  BY <1>1, <1>3
<1>9. ASSUME NEW i \in 1 .. Len(rest), NEW j \in 1 .. Len(rest), rest[i] = rest[j]
      PROVE  i = j
  <2>1. n + i = n + j
    BY <1>3, <1>8, <1>9
  <2> QED
    BY <1>1, <2>1
<1>10. ASSUME NEW k \in 1 .. Len(rest)
       PROVE  rest[k] \notin gone /\ \E i \in 1 .. Len(order) : order[i] = rest[k]
  BY <1>3, <1>4, <1>5, <1>8
<1>11. ASSUME NEW i \in 1 .. Len(order), order[i] \notin gone
       PROVE  \E k \in 1 .. Len(rest) : rest[k] = order[i]
  <2>1. i \notin 1 .. n
    BY <1>4, <1>11
  <2>2. i - n \in 1 .. Len(rest) /\ n + (i - n) = i
    BY <1>1, <1>3, <2>1
  <2>3. rest[i - n] = order[n + (i - n)]
    BY <1>3, <2>2
  <2> QED
    BY <2>2, <2>3
<1>12. \A pg : (\E i \in 1 .. Len(rest) : rest[i] = pg)
                 <=> pg \notin gone /\ \E i \in 1 .. Len(order) : order[i] = pg
  BY <1>10, <1>11
<1> QED
  BY <1>4, <1>6, <1>7, <1>9, <1>12 DEF gone, rest, chosen

LEMMA ClearPagesFrames ==
  ASSUME IInv, FInv, ClearPages, IInv'
  PROVE  FInv'
<1> DEFINE n == ToClean
<1>1. PICK order \in ClearOrders :
        LET chosen == SubSeq(order, 1, n)
            gone   == ToSet(chosen)
            saves  == Restrictions(chosen, {i \in 1 .. n : dirty[chosen[i]]})
        IN  /\ present' = [pg \in Pages |-> present[pg] /\ pg \notin gone]
            /\ ref' = [pg \in Pages |-> ref[pg] /\ pg \notin gone]
            /\ ReturnFrames({frame[pg] : pg \in gone}, n)
            /\ pageHist' = SubSeq(order, n + 1, Len(order))
            /\ \E toSave \in saves :
                 pending' = [k \in DOMAIN toSave |-> Request("out", toSave[k], NoPage)]
            /\ stale' = (stale \/ \E pg \in gone : ~ present[pg])
  BY DEF ClearPages
<1> DEFINE gone == ToSet(SubSeq(order, 1, n))
<1>2. /\ present' = [pg \in Pages |-> present[pg] /\ pg \notin gone]
      /\ ref' = [pg \in Pages |-> ref[pg] /\ pg \notin gone]
      /\ ReturnFrames({frame[pg] : pg \in gone}, n)
      /\ pageHist' = SubSeq(order, n + 1, Len(order))
      /\ stale' = (stale \/ \E pg \in gone : ~ present[pg])
      /\ \E toSave : pending' = [k \in DOMAIN toSave |-> Request("out", toSave[k], NoPage)]
  BY <1>1
<1>3. /\ pending = <<>> /\ n \in 1 .. Len(pageHist)
      /\ UNCHANGED <<frame, timestamp, time, VC, ioIn, ioWait, finished, tlb, status>>
      /\ UNCHANGED <<running, ready, blocked, owed, left, reqTicks, quanta, lines, restart, cleaning>>
  BY DEF ClearPages, At, ioVars, mmuVars, schedVars, traceVars, setVars
<1>4. /\ TableTypes /\ \A i, j \in 1 .. Len(pageHist) : pageHist[i] = pageHist[j] => i = j
  BY DEF IInv, Types, FInv, Histories
<1>5. /\ order \in Seq(Pages) /\ Len(order) = Len(pageHist)
      /\ \A i, j \in 1 .. Len(order) : order[i] = order[j] => i = j
      /\ \A pg : Listed(pg) <=> \E i \in 1 .. Len(order) : order[i] = pg
  BY <1>4, ClearOrderParts
<1>6. n \in 1 .. Len(order) /\ n \in Nat
  BY <1>3, <1>5
<1> HIDE DEF n
<1>7. /\ gone = {order[i] : i \in 1 .. n} /\ gone \subseteq Pages
      /\ Cardinality(gone) = n
      /\ \A i, j \in 1 .. Len(pageHist') : pageHist'[i] = pageHist'[j] => i = j
      /\ \A pg : Listed(pg)' <=> pg \notin gone /\ \E i \in 1 .. Len(order) : order[i] = pg
  <2>1. LET rest == SubSeq(order, n + 1, Len(order))
        IN  /\ gone = {order[i] : i \in 1 .. n} /\ gone \subseteq Pages
            /\ Cardinality(gone) = n
            /\ \A i, j \in 1 .. Len(rest) : rest[i] = rest[j] => i = j
            /\ \A pg : (\E i \in 1 .. Len(rest) : rest[i] = pg)
                         <=> pg \notin gone /\ \E i \in 1 .. Len(order) : order[i] = pg
    BY <1>5, <1>6, FirstPages
  <2> HIDE DEF gone
  <2>2. pageHist' = SubSeq(order, n + 1, Len(order))
    BY <1>2
  <2> QED
    BY <2>1, <2>2 DEF Listed
<1> HIDE DEF gone
<1>8. /\ \A pg : Listed(pg)' <=> Listed(pg) /\ pg \notin gone
      /\ \A pg \in gone : Listed(pg) /\ ~ Transit(pg)
  <2>1. \A pg \in gone : Listed(pg)
    <3>1. \A i \in 1 .. n : i \in 1 .. Len(order)
      BY <1>6
    <3> QED
      BY <1>5, <1>7, <3>1
  <2> QED
    BY <1>5, <1>7, <2>1 DEF FInv, Histories
<1>9. \A pg : Transit(pg)' <=> Transit(pg)
  <2>1. pending' # <<>> => pending'[1].type = "out"
    <3>1. PICK toSave : pending' = [k \in DOMAIN toSave |-> Request("out", toSave[k], NoPage)]
      BY <1>2
    <3>2. pending' \in Seq(Requests)
      BY DEF IInv, Types, IoTypes
    <3>3. pending' # <<>> => 1 \in 1 .. Len(pending')
      BY <3>2, EmptySeq
    <3>4. DOMAIN pending' = 1 .. Len(pending')
      BY <3>2
    <3> QED
      BY <3>1, <3>3, <3>4 DEF Request
  <2> QED
    BY <1>3, <2>1 DEF Transit
<1>10. /\ frames' = frames \ {frame[pg] : pg \in gone}
       /\ UNCHANGED <<numFrames, pinned>> /\ Frames' = Frames
  BY <1>2 DEF ReturnFrames, Frames
<1>11. PageTypes' /\ StepTypes' /\ DaemonAdvice'
  <2>1. Slots' = Slots /\ MaxTime' = MaxTime
    BY <1>3 DEF Slots, MaxTime
  <2>2. ref' \in [Pages -> BOOLEAN]
    BY <1>2
  <2> QED
    BY <1>3, <1>10, <2>1, <2>2 DEF FInv, PageTypes, StepTypes, DaemonAdvice
<1>12. CountTypes'
  <2>1. IsFiniteSet({frame[pg] : pg \in gone}) /\ Cardinality({frame[pg] : pg \in gone}) <= n
    BY <1>7, ImageOfPages
  <2>2. {frame[pg] : pg \in gone} \subseteq Frames
    BY <1>7 DEF FInv, PageTypes
  <2>3. CountTypes
    BY DEF FInv
  <2> QED
    BY <1>2, <1>6, <2>1, <2>2, <2>3, FreeAfterReturn
<1>13. \A pg \in Pages : present'[pg] <=> present[pg] /\ pg \notin gone
  BY <1>2 DEF IInv, Types, TableTypes
<1>14. Histories'
  <2>1. \A p : Alive(p)' <=> Alive(p)
    BY <1>3 DEF Alive
  <2>2. ASSUME NEW i \in 1 .. Len(finished) PROVE present'[finished[i]]
    <3>1. finished[i] \in Pages /\ present[finished[i]] /\ Transit(finished[i])
      BY JobTypes DEF IInv, Types, FInv, Histories, Transit
    <3> QED
      BY <1>8, <1>13, <3>1
  <2> QED
    BY <1>3, <1>7, <1>8, <1>9, <1>13, <2>1, <2>2 DEF FInv, Histories
<1>15. Covered'
  <2>1. ASSUME NEW f \in Frames
        PROVE  \/ f \notin frames' \/ f \in pinned'
               \/ \E pg \in Pages : Listed(pg)' /\ present'[pg] /\ frame'[pg] = f
    BY <1>3, <1>8, <1>10, <1>13 DEF FInv, Covered
  <2> QED
    BY <1>10, <2>1 DEF Covered
<1>16. FramesMatch'
  <2>1. CASE stale'
    BY <2>1 DEF FramesMatch
  <2>2. CASE ~ stale'
    <3>1. ~ stale /\ \A pg \in gone : Held(pg)
      BY <1>2, <2>2 DEF Held
    <3>2. \A pg \in Pages : Held(pg)' <=> Held(pg) /\ pg \notin gone
      BY <1>8, <1>9, <1>13 DEF Held
    <3> QED
      BY <1>2, <1>3, <1>7, <1>9, <3>1, <3>2, ReturnOfPages DEF FInv
  <2> QED
    BY <2>1, <2>2
<1> QED
  BY <1>11, <1>12, <1>14, <1>15, <1>16 DEF FInv

\* A frame that is neither free nor pinned belongs to a page the daemon can drop,
\* so settings that follow the advice always leave enough of these.
LEMMA ClearThrowsFrames ==
  ASSUME IInv, FInv, ClearThrows
  PROVE  FInv'
<1>1. /\ status' = "exception" /\ ToClean > Len(pageHist)
      /\ UNCHANGED <<pageVars, VC, frameVars, ioVars, mmuVars, replaceVars, runVars,
                     reqVars, schedVars, traceVars, setVars, histVars>>
  BY DEF ClearThrows
<1>2. /\ UNCHANGED <<frame, present, dirty, ref, timestamp, time, VC, tlb, pageHist, stale>>
      /\ UNCHANGED <<numFrames, frames, pinned, openFrames, ioIn, ioWait, finished, pending>>
      /\ UNCHANGED <<running, ready, blocked, owed, left, reqTicks, quanta, lines, restart>>
      /\ cleaning' = cleaning /\ UNCHANGED frameVars
  BY <1>1 DEF pageVars, frameVars, ioVars, mmuVars, replaceVars, runVars, reqVars, schedVars,
              traceVars, setVars, histVars
<1>3. PageTypes' /\ StepTypes'
  <2>1. Frames' = Frames /\ Slots' = Slots /\ MaxTime' = MaxTime
    BY <1>2 DEF Frames, Slots, MaxTime
  <2> QED
    BY <1>1, <1>2, <2>1 DEF FInv, PageTypes, StepTypes
<1>4. CountTypes' /\ Histories' /\ Covered' /\ FramesMatch'
  <2>1. \A pg : Transit(pg)' <=> Transit(pg)
    BY <1>2 DEF Transit
  <2>2. \A p : Alive(p)' <=> Alive(p)
    BY <1>2 DEF Alive
  <2>3. \A i \in 1 .. Len(finished') : present'[finished'[i]]
    BY <1>2 DEF FInv, Histories
  <2> QED
    BY <1>2, <2>1, <2>2, <2>3, UnmovedPages
<1>5. DaemonAdvice'
  <2> DEFINE len  == Len(pageHist)
             held == {frame[pageHist[i]] : i \in 1 .. len}
             free == Frames \ frames
  <2>1. /\ pageHist \in Seq(Pages) /\ len \in Nat /\ cleaning \in Nat \X Nat
    BY DEF IInv, Types, TableTypes, RunTypes
  <2>2. /\ numFrames \in Nat /\ pinned \subseteq Frames /\ openFrames \in Int
        /\ Cardinality(free) <= openFrames
    BY DEF FInv, CountTypes
  <2>3. IsFiniteSet(Frames) /\ Cardinality(Frames) = numFrames
    BY <2>2, FramesFinite
  <2>4. IsFiniteSet(held) /\ Cardinality(held) <= len /\ Cardinality(held) \in Nat
    <3>1. IsFiniteSet(1 .. len) /\ Cardinality(1 .. len) = len
      <4>1. 1 \in Int /\ len \in Nat /\ len \in Int
        BY <2>1
      <4> HIDE DEF len
      <4>2. IsFiniteSet(1 .. len) /\ Cardinality(1 .. len) = IF 1 > len THEN 0 ELSE len - 1 + 1
        BY <4>1, FS_Interval
      <4> QED
        BY <4>1, <4>2
    <3> DEFINE fun == [i \in 1 .. len |-> frame[pageHist[i]]]
    <3>2. fun \in Surjection(1 .. len, held)
      BY DEF Surjection
    <3> HIDE DEF fun, held, len
    <3>3. IsFiniteSet(held) /\ Cardinality(held) <= Cardinality(1 .. len)
      BY <3>1, <3>2, FS_Surjection
    <3>4. Cardinality(held) \in Nat
      BY <3>3, FS_CardinalityType
    <3> QED
      BY <3>1, <3>3, <3>4
  <2>5. Frames \subseteq (free \cup pinned) \cup held
    BY DEF FInv, Covered, Listed
  <2>6. /\ IsFiniteSet(free) /\ IsFiniteSet(pinned)
        /\ Cardinality(free) \in Nat /\ Cardinality(pinned) \in Nat
    BY <2>2, <2>3, FS_Subset, FS_CardinalityType
  <2> HIDE DEF held, free
  <2>7. /\ IsFiniteSet(free \cup pinned) /\ Cardinality(free \cup pinned) \in Nat
        /\ Cardinality(free \cup pinned) <= Cardinality(free) + Cardinality(pinned)
    <3>1. IsFiniteSet(free \cap pinned) /\ Cardinality(free \cap pinned) \in Nat
      BY <2>6, FS_Subset, FS_CardinalityType
    <3>2. /\ IsFiniteSet(free \cup pinned)
          /\ Cardinality(free \cup pinned)
               = Cardinality(free) + Cardinality(pinned) - Cardinality(free \cap pinned)
      BY <2>6, FS_Union
    <3> QED
      BY <2>6, <3>1, <3>2, FS_CardinalityType
  <2>8. /\ IsFiniteSet((free \cup pinned) \cup held)
        /\ Cardinality((free \cup pinned) \cup held)
             <= Cardinality(free \cup pinned) + Cardinality(held)
        /\ Cardinality((free \cup pinned) \cup held) \in Nat
    <3>1. IsFiniteSet((free \cup pinned) \cap held)
          /\ Cardinality((free \cup pinned) \cap held) \in Nat
      BY <2>7, FS_Subset, FS_CardinalityType
    <3>2. /\ IsFiniteSet((free \cup pinned) \cup held)
          /\ Cardinality((free \cup pinned) \cup held)
               = Cardinality(free \cup pinned) + Cardinality(held)
                   - Cardinality((free \cup pinned) \cap held)
      BY <2>4, <2>7, FS_Union
    <3> QED
      BY <2>4, <2>7, <3>1, <3>2, FS_CardinalityType
  <2>9. numFrames <= Cardinality((free \cup pinned) \cup held)
    BY <2>3, <2>5, <2>8, FS_Subset
  <2>10. numFrames <= openFrames + Cardinality(pinned) + len
    BY <2>1, <2>2, <2>4, <2>6, <2>7, <2>8, <2>9
  <2>11. CheckOpen < cleaning[1] /\ cleaning[2] > len
    <3>1. ToClean # 0
      BY <1>1, <2>1
    <3> QED
      BY <1>1, <3>1 DEF ToClean
  <2>12. ~ (cleaning[1] < numFrames /\ cleaning[2] < numFrames - cleaning[1])
    <3>1. /\ openFrames + Cardinality(pinned) < cleaning[1] /\ cleaning[2] > len
          /\ cleaning[1] \in Nat /\ cleaning[2] \in Nat
      BY <2>1, <2>11 DEF CheckOpen
    <3> QED
      BY <2>1, <2>2, <2>6, <2>10, <3>1
  <2> QED
    BY <1>2, <2>12 DEF DaemonAdvice
<1> QED
  BY <1>3, <1>4, <1>5 DEF FInv

-----------------------------------------------------------------------------
(***************************************************************************)
(* The invariant holds, and what follows from it.                          *)
(***************************************************************************)
LEMMA InitFInv ==
  ASSUME Init
  PROVE  FInv
<1>1. PICK s \in Settings :
        /\ ReplaceInit(s.policy) /\ FrameInit(s.frames) /\ MmuInit(s.tlb)
        /\ quanta = s.quanta /\ left = s.quanta /\ lines = s.lines
  BY DEF Init
<1>2. /\ s.frames \in Nat \ {0} /\ s.tlb \in Nat \ {0} /\ s.quanta \in Nat \ {0}
      /\ s.lines \in Nat
  BY VmmAssumption
<1>3. /\ numFrames = s.frames /\ frames = {} /\ pinned = {} /\ openFrames = numFrames
      /\ pageHist = <<>>
      /\ tlb = [i \in 0 .. s.tlb - 1 |-> Blank]
  BY <1>1 DEF FrameInit, ReplaceInit, MmuInit
<1>4. /\ status = "running" /\ owed = 0 /\ pending = <<>> /\ reqTicks = 0 /\ stale = FALSE
      /\ frame = [pg \in Pages |-> 0] /\ present = [pg \in Pages |-> FALSE]
      /\ ref = [pg \in Pages |-> FALSE] /\ timestamp = [pg \in Pages |-> 0]
      /\ time = [pg \in Pages |-> 0] /\ VC = 0
      /\ restart = [p \in Procs |-> FALSE]
      /\ ioIn = <<>> /\ finished = <<>> /\ ioWait = [p \in Procs |-> NoPage]
  BY DEF Init, PageTableInit, IoInit
<1>5. PageTypes
  <2>1. 0 \in Frames
    BY <1>2, <1>3 DEF Frames
  <2>2. 0 \in 0 .. MaxTime
    BY PolicyAssumption DEF MaxTime
  <2> QED
    BY <1>3, <1>4, <2>1, <2>2 DEF PageTypes, Blank, Slots
<1>6. StepTypes
  BY <1>1, <1>2, <1>4, VmmAssumption DEF StepTypes
<1>7. CountTypes
  <2>1. Cardinality(Frames) = numFrames
    BY <1>2, <1>3, FramesFinite
  <2>2. Frames \ frames = Frames
    BY <1>3
  <2> QED
    BY <1>2, <1>3, <2>1, <2>2 DEF CountTypes
<1>8. \A pg \in Pages : ~ Transit(pg) /\ ~ present[pg]
  <2>1. \A pg \in Pages : pg[1] \in Procs /\ pg # NoPage
    BY DEF Pages, Procs, NoPage, NoProc
  <2> QED
    BY <1>4, <2>1 DEF Transit
<1>9. Histories
  BY <1>3, <1>4 DEF Histories, Listed
<1>10. Covered
  BY <1>3 DEF Covered
<1>11. FramesMatch
  <2>1. \A pg \in Pages : ~ Held(pg)
    BY <1>8 DEF Held
  <2>2. Cardinality(frames) = 0
    BY <1>3, FS_EmptySet
  <2> QED
    BY <1>2, <1>3, <1>8, <2>1, <2>2 DEF FramesMatch
<1>12. DaemonAdvice
  BY <1>4 DEF DaemonAdvice
<1> QED
  BY <1>5, <1>6, <1>7, <1>9, <1>10, <1>11, <1>12 DEF FInv

LEMMA NextFInv ==
  ASSUME IInv, FInv, [Next]_vars
  PROVE  FInv'
<1>1. CASE CpuTick \/ RequestTick \/ Idle
  BY <1>1, TickFrames
<1>2. CASE Schedule
  BY <1>2, ScheduleFrames
<1>3. CASE Deliver
  BY <1>3, DeliverFrames
<1>4. CASE Dispatch \/ QuantumOver \/ PageFault \/ Access
  BY <1>4, TlbFrames
<1>5. CASE \/ Finish \/ Restart \/ ReadLine \/ IllegalLine \/ EndOfData \/ FinishedQuanta
           \/ Misjudge \/ ResolveNone \/ ResolveUndefined \/ NothingToClean \/ UNCHANGED vars
  BY <1>5, QuietFrames
<1>6. CASE Terminate
  BY <1>6, TerminateFrames
<1>7. CASE ResolveFree
  BY <1>7, ResolveFreeFrames
<1>8. CASE ResolveVictim
  BY <1>8, ResolveVictimFrames
<1>9. CASE ClearPages
  BY <1>9, NextIInv, ClearPagesFrames
<1>10. CASE ClearThrows
  BY <1>10, ClearThrowsFrames
<1> QED
  BY <1>1, <1>2, <1>3, <1>4, <1>5, <1>6, <1>7, <1>8, <1>9, <1>10 DEF Next, Stopped

\* The invariant the theorems of this module follow from.
THEOREM FrameInvariance == Spec => [](IInv /\ FInv)
<1>1. Init => IInv /\ FInv
  BY InitIInv, InitFInv
<1>2. IInv /\ FInv /\ [Next]_vars => (IInv /\ FInv)'
  BY NextIInv, NextFInv
<1> QED
  BY <1>1, <1>2, PTL DEF Spec

-----------------------------------------------------------------------------
(***************************************************************************)
(* What the other invariants need not know: at which points the program    *)
(* can be, and that the settings stay.                                     *)
(***************************************************************************)
ControlTypes ==
  /\ pc \in {"loop", "fetch", "access", "sync", "quantum", "resolve", "ended", "clean"}
  /\ ioTime \in Nat \ {0} /\ policy \in Policies
  /\ lost \in BOOLEAN /\ stale \in BOOLEAN

LEMMA InitControl == Init => ControlTypes
<1> SUFFICES ASSUME Init PROVE ControlTypes
  OBVIOUS
<1>1. PICK s \in Settings : policy = s.policy /\ ioTime = s.io
  BY DEF Init, ReplaceInit, IoInit
<1>2. s.policy \in Policies /\ s.io \in Nat \ {0}
  BY VmmAssumption
<1>3. pc = "loop" /\ lost = FALSE /\ stale = FALSE
  BY DEF Init
<1> QED
  BY <1>1, <1>2, <1>3 DEF ControlTypes

LEMMA NextControl == IInv /\ ControlTypes /\ [Next]_vars => ControlTypes'
<1> SUFFICES ASSUME IInv, ControlTypes, [Next]_vars PROVE ControlTypes'
  OBVIOUS
<1> USE DEF ControlTypes
<1>1. CASE CpuTick \/ RequestTick \/ Idle
  <2>1. Tick => ioTime' = ioTime
    BY Zenon DEF Tick
  <2> QED
    BY <1>1, <2>1 DEF CpuTick, RequestTick, Idle, runVars, replaceVars, histVars
<1>2. CASE Schedule
  <2>1. Head(pending) \in Requests
    BY <1>2, PendingTail DEF Schedule, IInv, Types
  <2>2. \/ ScheduleIn(Head(pending).page)
        \/ ScheduleWait(Head(pending).page)
        \/ ScheduleOut(Head(pending).page[1], Head(pending).release)
    BY <1>2, <2>1 DEF Schedule, Requests
  <2>3. ioTime' = ioTime
    BY <2>2 DEF ScheduleIn, ScheduleWait, ScheduleOut
  <2> QED
    BY <1>2, <2>3 DEF Schedule, runVars, replaceVars, histVars
<1>3. CASE Deliver \/ Dispatch \/ Finish
  BY <1>3 DEF Deliver, FinishedIO, Dispatch, Finish, runVars, replaceVars, histVars, ioVars
<1>4. CASE Restart \/ ReadLine \/ IllegalLine \/ EndOfData
  BY <1>4 DEF Restart, ReadLine, IllegalLine, EndOfData, runVars, replaceVars, histVars,
              ioVars
<1>5. CASE Access
  <2>1. left \in Nat \ {0}
    BY DEF IInv, Types, RunTypes
  <2>2. /\ pc' = CASE line[running].last              -> "ended"
                   [] ~ line[running].last /\ left = 1 -> "sync"
                   [] ~ line[running].last /\ left > 1 -> "fetch"
        /\ policy' = policy /\ ioTime' = ioTime /\ lost' = lost /\ stale' = stale
    BY <1>5 DEF Access, replaceVars, ioVars
  <2>3. pc' \in {"ended", "sync", "fetch"}
    BY <2>1, <2>2
  <2> QED
    BY <2>2, <2>3
<1>6. CASE PageFault \/ QuantumOver \/ FinishedQuanta \/ Terminate
  BY <1>6 DEF PageFault, QuantumOver, FinishedQuanta, Terminate, replaceVars, histVars,
              ioVars
<1>7. CASE Misjudge \/ ResolveFree \/ ResolveNone \/ ResolveUndefined
  BY <1>7 DEF Misjudge, ResolveFree, ResolveNone, ResolveUndefined, runVars, replaceVars,
              histVars, ioVars
<1>8. CASE ResolveVictim
  BY <1>8 DEF ResolveVictim, ioVars
<1>9. CASE NothingToClean \/ ClearPages \/ ClearThrows
  BY <1>9 DEF NothingToClean, ClearPages, ClearThrows, runVars, replaceVars, histVars,
              ioVars
<1>10. CASE UNCHANGED vars
  BY <1>10 DEF vars, runVars, replaceVars, histVars, ioVars
<1> QED
  BY <1>1, <1>2, <1>3, <1>4, <1>5, <1>6, <1>7, <1>8, <1>9, <1>10 DEF Next, Stopped

\* Every variable has its type, under every policy and for any number of processes,
\* pages, frames and TLB entries: no queue holds anything but what it is said to, no
\* time stamp is of the future, no reference bits leave their byte, and every frame
\* number is one (Vmm!TypeOK).
THEOREM SpecTypeOK == Spec => []TypeOK
<1>1. IInv /\ FInv /\ ControlTypes => TypeOK
  <2> SUFFICES ASSUME IInv, FInv, ControlTypes PROVE TypeOK
    OBVIOUS
  <2>1. openFrames \in Nat
    <3>1. IsFiniteSet(Frames)
      BY FramesFinite DEF FInv, CountTypes
    <3>2. Cardinality(Frames \ frames) \in Nat
      BY <3>1, FS_Subset, FS_CardinalityType
    <3> QED
      BY <3>2 DEF FInv, CountTypes
  <2>2. \A i \in Slots : tlb[i].valid => tlb[i].frame \in Frames
    <3> SUFFICES ASSUME NEW i \in Slots, tlb[i].valid PROVE tlb[i].frame \in Frames
      OBVIOUS
    <3>1. tlb[i].frame = frame[Page(tlb[i].vpn)] /\ curProc \in Procs
      BY DEF IInv, EntriesAgree
    <3>2. Page(tlb[i].vpn) \in Pages
      BY <3>1 DEF IInv, Types, RunTypes, Entries, Page, Pages
    <3> QED
      BY <3>1, <3>2 DEF FInv, PageTypes
  <2>3. /\ present \in [Pages -> BOOLEAN] /\ dirty \in [Pages -> BOOLEAN]
        /\ pageHist \in Seq(Pages)
    BY DEF IInv, Types, TableTypes
  <2>4. /\ ioOut \in [Procs -> Seq(Contexts(Pages \cup {NoPage}))]
        /\ ioIn \in Seq(Contexts(Pages))
        /\ ioWait \in [Procs -> Pages \cup {NoPage}] /\ finished \in Seq(Pages)
        /\ pending \in Seq(Requests)
    BY DEF IInv, Types, IoTypes
  <2>5. /\ ready \in Seq(Procs) /\ running \in Procs \cup {NoProc} /\ blocked \subseteq Procs
        /\ curProc \in Procs \cup {NoProc} /\ tlb \in [Slots -> Entries]
        /\ line \in [Procs -> Lines] /\ quanta \in Nat \ {0} /\ cleaning \in Nat \X Nat
        /\ unsaved \subseteq Pages
    BY DEF IInv, Types, RunTypes
  <2>6. replaceIndex \in Slots
    BY DEF IInv, EntriesAgree
  <2> QED
    BY <2>1, <2>2, <2>3, <2>4, <2>5, <2>6
       DEF TypeOK, FInv, PageTypes, StepTypes, CountTypes, ControlTypes
<1>2. Spec => []ControlTypes
  BY Invariance, InitControl, NextControl, PTL DEF Spec
<1> QED
  BY <1>1, <1>2, FrameInvariance, PTL

\* The frame allocator's bits, pins and count agree with the page tables, as long as
\* the daemon has returned no frame of a page that was gone (Vmm!FramesSound).
THEOREM SpecFramesSound == Spec => []FramesSound
<1>1. IInv /\ FInv => FramesSound
  <2> SUFFICES ASSUME IInv, FInv, ~ stale PROVE FramesSound
    BY DEF FramesSound
  <2>1. InTransit = {pg \in Pages : Transit(pg)}
    BY TransitIs
  <2> DEFINE held == {pg \in Pages : present[pg]} \cup InTransit
  <2>2. held = {pg \in Pages : Held(pg)}
    BY <2>1 DEF Held
  <2> HIDE DEF held
  <2>3. /\ \A pg, ph \in held : frame[pg] = frame[ph] => pg = ph
        /\ frames = {frame[pg] : pg \in held}
        /\ pinned = {frame[pg] : pg \in InTransit}
        /\ openFrames = numFrames - Cardinality(frames)
    BY <2>1, <2>2 DEF FInv, FramesMatch
  <2>4. Cardinality({frame[pg] : pg \in held}) = Cardinality(held)
    <3>1. held \subseteq Pages
      BY <2>2
    <3> QED
      BY <2>3, <3>1, ImageOfPages
  <2> QED
    BY <2>3, <2>4 DEF FramesSound, held
<1> QED
  BY <1>1, FrameInvariance, PTL

\* Settings that follow the daemon's advice never make the program stop with an
\* exception, and nothing else does (Vmm!DaemonAdvice).
THEOREM SpecDaemonAdvice == Spec => []DaemonAdvice
<1>1. FInv => DaemonAdvice
  BY DEF FInv
<1> QED
  BY <1>1, FrameInvariance, PTL
=============================================================================
