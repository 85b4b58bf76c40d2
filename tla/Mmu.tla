-------------------------------- MODULE Mmu --------------------------------
(***************************************************************************)
(* cMMU (src/Project2/src/mmu.cpp): a TLB in front of the page table of    *)
(* the process on the cpu.  Entries are replaced in a ring.  The present   *)
(* bit of the page table is looked at on a hit, too, because pages leave   *)
(* memory without the TLB being told.                                      *)
(***************************************************************************)
EXTENDS PageTable

VARIABLES
  tlb,            \* TLB, of tlb_size entries
  replaceIndex,   \* where the next entry goes
  curProc         \* the process whose table ptbr is; NoProc at the start

mmuVars == <<tlb, replaceIndex, curProc>>

Slots == DOMAIN tlb
Page(v) == <<curProc, v>>

Blank == [valid |-> FALSE, vpn |-> 0, frame |-> 0, dirty |-> FALSE,
          ref |-> FALSE, timestamp |-> 0]

MmuInit(size) ==
  /\ tlb = [i \in 0 .. size - 1 |-> Blank]
  /\ replaceIndex = 0
  /\ curProc = NoProc

-----------------------------------------------------------------------------
(***************************************************************************)
(* syncTLB: the entries' bits go to the page table (all entries: ref is    *)
(* set in every valid one).  `entries' is the TLB at that moment.          *)
(***************************************************************************)
Marked(entry) == entry.valid /\ (entry.dirty \/ entry.ref)

SlotsOf(entries, pg) == {i \in Slots : Marked(entries[i]) /\ Page(entries[i].vpn) = pg}

SyncTLB(entries) ==
  LET source == [pg \in Pages |->
                   IF SlotsOf(entries, pg) # {}
                   THEN entries[CHOOSE i \in SlotsOf(entries, pg) : TRUE]
                   ELSE [dirty |-> dirty[pg], ref |-> ref[pg],
                         timestamp |-> timestamp[pg]]]
  IN  /\ dirty' = [pg \in Pages |-> source[pg].dirty]
      /\ ref' = [pg \in Pages |-> source[pg].ref]
      /\ timestamp' = [pg \in Pages |-> source[pg].timestamp]
      /\ UNCHANGED <<frame, present, time>>

\* flushTLB(true)
FlushTLB ==
  /\ SyncTLB(tlb)
  /\ tlb' = [i \in Slots |-> Blank]
  /\ replaceIndex' = 0

\* switchProc: nothing happens if the process is on the cpu already.
SwitchProc(p) ==
  IF p = curProc
  THEN UNCHANGED mmuVars /\ UNCHANGED pageVars
  ELSE FlushTLB /\ curProc' = p

-----------------------------------------------------------------------------
(***************************************************************************)
(* getAddr                                                                 *)
(***************************************************************************)
Hits(v) == {i \in Slots : tlb[i].valid /\ tlb[i].vpn = v}

\* The entry that answers a hit, after it.
HitEntry(i, isWrite) ==
  [tlb[i] EXCEPT !.dirty = isWrite, !.ref = TRUE, !.timestamp = VC]

TlbHit(v, isWrite) ==
  /\ present[Page(v)]
  /\ \E i \in Hits(v) : tlb' = [tlb EXCEPT ![i] = HitEntry(i, isWrite)]
  /\ UNCHANGED <<replaceIndex, curProc>>
  /\ UNCHANGED pageVars

\* addTLB: of the entry that is replaced only the dirty bit is saved.
AddTLB(v, isWrite) ==
  LET old == tlb[replaceIndex]
  IN  /\ dirty' = IF old.valid THEN [dirty EXCEPT ![Page(old.vpn)] = old.dirty]
                  ELSE dirty
      /\ tlb' = [tlb EXCEPT ![replaceIndex] =
                   [valid |-> TRUE, vpn |-> v, frame |-> frame[Page(v)],
                    dirty |-> isWrite, ref |-> TRUE, timestamp |-> VC]]
      /\ replaceIndex' = (replaceIndex + 1) % Cardinality(Slots)
      /\ UNCHANGED <<frame, present, ref, timestamp, time, curProc>>

PageWalk(v, isWrite) ==
  /\ Hits(v) = {}
  /\ present[Page(v)]
  /\ AddTLB(v, isWrite)

\* Variant: the entry of a page that is gone stays valid.
DroppedKept(v) == tlb

\* An entry of a page that is gone is dropped.
Dropped(v) == [i \in Slots |-> IF i \in Hits(v) THEN Blank ELSE tlb[i]]

\* A page fault; cCPU::run then syncs the TLB.
Fault(v) ==
  /\ ~ present[Page(v)]
  /\ tlb' = Dropped(v)
  /\ SyncTLB(Dropped(v))
  /\ UNCHANGED <<replaceIndex, curProc>>

-----------------------------------------------------------------------------
\* The TLB answers as the page table would: no page has two entries, and the
\* entry of a page that is present names the frame the page is in, although
\* pages leave memory and come back without the TLB being told.
TlbAgrees ==
  /\ \A i, j \in Slots :
       tlb[i].valid /\ tlb[j].valid /\ tlb[i].vpn = tlb[j].vpn => i = j
  /\ \A i \in Slots : tlb[i].valid /\ present[Page(tlb[i].vpn)]
                        => tlb[i].frame = frame[Page(tlb[i].vpn)]
=============================================================================
