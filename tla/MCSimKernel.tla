---------------------------- MODULE MCSimKernel ----------------------------
(***************************************************************************)
(* Instances of SimKernel for TLC.                                         *)
(***************************************************************************)
EXTENDS SimKernel

CONSTANTS p1, p2, p3

TwoProcs   == {p1, p2}
ThreeProcs == {p1, p2, p3}

BothDevices == <<"B", "C">>
BlockDevice == <<"B">>

RoundRobin  == {"rr"}
AllPolicies == {"fcfs", "rr", "lottery", "multi"}

\* Two levels, with quanta of one and of two ticks.
TwoLevelQuanta == [l \in 0 .. 1 |-> l + 1]

\* The multi-level queues read 0 as the highest priority, the lottery as no
\* ticket at all; FCFS and round robin do not look at priorities.
MCPriorities ==
  [q \in AllPolicies |-> CASE q = "multi"   -> {0, 2}
                           [] q = "lottery" -> {0, 1}
                           [] OTHER         -> {1}]
=============================================================================
