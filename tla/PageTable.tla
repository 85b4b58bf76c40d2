----------------------------- MODULE PageTable -----------------------------
(***************************************************************************)
(* What the parts of Project 2 share: the page tables of the processes     *)
(* (sPTE, data_structs.h) and the virtual counter.  A page is named by its *)
(* process and its number in that process' table; pids start at 1 here, so *)
(* that 0 can stand for NULL.                                              *)
(***************************************************************************)
EXTENDS Integers, Sequences, FiniteSets

CONSTANTS
  NumProcs,   \* processes that were loaded
  PTSize      \* entries of a page table that the traces use

ASSUME PageAssumption == NumProcs \in Nat \ {0} /\ PTSize \in Nat \ {0}

VARIABLES
  frame,      \* sPTE::frame
  present,    \* flags[FI_PRESENT]
  dirty,      \* flags[FI_DIRTY]
  ref,        \* flags[FI_REF]
  timestamp,  \* sPTE::timestamp, for LRU
  time,       \* sPTE::time, the reference bits of the approximation
  VC          \* the virtual counter

pageVars == <<frame, present, dirty, ref, timestamp, time>>

Procs  == 1 .. NumProcs
VPNs   == 0 .. PTSize - 1
Pages  == Procs \X VPNs
NoProc == 0
NoPage == <<NoProc, 0>>

PagesOf(p) == {p} \X VPNs

\* initProcesses clears every table.
PageTableInit ==
  /\ frame = [pg \in Pages |-> 0]
  /\ present = [pg \in Pages |-> FALSE]
  /\ dirty = [pg \in Pages |-> FALSE]
  /\ ref = [pg \in Pages |-> FALSE]
  /\ timestamp = [pg \in Pages |-> 0]
  /\ time = [pg \in Pages |-> 0]
  /\ VC = 0
=============================================================================
