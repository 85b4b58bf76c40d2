---------------------------- MODULE PageReplace ----------------------------
(***************************************************************************)
(* The three page replacement policies of Project 2 (src/Policy/pr_*.cpp): *)
(* FIFO, LRU by the time stamps of the TLB, and the approximation of LRU   *)
(* by shifted reference bits.  Each keeps the pages whose input ended in   *)
(* `pageHist'.  The pages of a process that ended stay there, with their   *)
(* present bit cleared, until somebody comes across them.                  *)
(***************************************************************************)
EXTENDS PageTable, SequencesExt

CONSTANTS
  Policies,   \* the policies under test
  TopBit      \* the bit updateTime sets; 2^7 in a uint8_t

ASSUME PolicyAssumption ==
  Policies \subseteq {"fifo", "lru", "lru_approx"} /\ TopBit \in Nat \ {0}

VARIABLES policy, pageHist

replaceVars == <<policy, pageHist>>

MaxTime == 2 * TopBit - 1

ReplaceInit(kind) == policy = kind /\ pageHist = <<>>

-----------------------------------------------------------------------------
(***************************************************************************)
(* updateTime of the approximation, for the pages in the list.             *)
(***************************************************************************)
\* Variant: the bits are not shifted.
UpdatedUnshifted ==
  [pg \in Pages |->
     IF policy = "lru_approx" /\ pg \in ToSet(pageHist) /\ ref[pg]
     THEN time[pg] + TopBit
     ELSE time[pg]]

Updated ==
  [pg \in Pages |->
     IF policy = "lru_approx" /\ pg \in ToSet(pageHist)
     THEN time[pg] \div 2 + (IF ref[pg] THEN TopBit ELSE 0)
     ELSE time[pg]]

UpdateTime ==
  /\ time' = Updated
  /\ ref' = [pg \in Pages |->
               ref[pg] /\ ~ (policy = "lru_approx" /\ pg \in ToSet(pageHist))]

-----------------------------------------------------------------------------
(***************************************************************************)
(* The page that has to go, in resolvePageFault.  `times' are the times    *)
(* after updateTime.                                                       *)
(***************************************************************************)
\* What the policies rank the pages by.
Rank(pg, times) == CASE policy = "fifo"       -> 0
                     [] policy = "lru"        -> timestamp[pg]
                     [] policy = "lru_approx" -> times[pg]

\* Without a page to choose FIFO calls front() on an empty queue and LRU
\* follows a NULL pointer.  The approximation compares with a minimum that
\* starts at the largest time: if all times are the largest, it falls back on
\* the front of the list, which may be an entry it has just removed.
HasVictim(times) ==
  \E i \in 1 .. Len(pageHist) :
    /\ present[pageHist[i]]
    /\ policy = "lru_approx" => times[pageHist[i]] < MaxTime \/ present[pageHist[1]]

\* The page that has to go is at the first of the places with the lowest rank.
IsVictim(i, times) ==
  /\ present[pageHist[i]]
  /\ \A j \in DOMAIN pageHist :
       present[pageHist[j]] =>
         \/ Rank(pageHist[i], times) < Rank(pageHist[j], times)
         \/ Rank(pageHist[i], times) = Rank(pageHist[j], times) /\ i <= j

\* What is at some places of a list, in the order of the list: one sequence.
Restrictions(hist, places) ==
  {[k \in DOMAIN at |-> hist[at[k]]] :
     at \in {f \in SetToSeqs(places) : \A j, k \in DOMAIN f : j < k => f[j] < f[k]}}

\* FIFO pops up to the victim; the others erase it and all stale entries.
WithoutVictim(i) ==
  pageHist' \in
    IF policy = "fifo" THEN {SubSeq(pageHist, i + 1, Len(pageHist))}
    ELSE Restrictions(pageHist, {j \in DOMAIN pageHist :
                                   present[pageHist[j]] /\ pageHist[j] # pageHist[i]})

\* finishedIO
FinishedIO(pg) == pageHist' = Append(pageHist, pg) /\ UNCHANGED policy

\* The order clearPages goes through.  The comparison of the sort holds for
\* equal elements in both directions: these may come in any order.
ClearOrders ==
  IF policy = "fifo" THEN {pageHist}
  ELSE {hist \in {[i \in DOMAIN pageHist |-> pageHist[f[i]]] :
                    f \in SetToSeqs(DOMAIN pageHist)} :
          \A i \in 2 .. Len(hist) : Rank(hist[i - 1], time) <= Rank(hist[i], time)}
=============================================================================
