---------------------------- MODULE MCProcessor ----------------------------
(***************************************************************************)
(* Instances of Processor for TLC: programs modelled on the traces in      *)
(* src/Project1/bin.                                                       *)
(***************************************************************************)
EXTENDS Processor, TLC

CONSTANTS p1, p2, p3

ThreeProcs == {p1, p2, p3}
TwoProcs   == {p1, p2}
Symmetry   == Permutations(ThreeProcs)

\* A main program that starts two others, one of which fails in every way in
\* which a program can fail to start another one, and then asks for a device
\* that does not exist.  The last line of io has no line end.
ManyTexts ==
  [main   |-> <<"S", "5", "nl", "C", "1", "io", "nl", "C", "1", "faulty", "nl",
                "A", "2", "sp", "nl", "D", "1", "nl", "E", "nl">>,
   io     |-> <<"S", "1", "nl", "I", "B", "nl", "D", "2", "nl", "I", "C", "nl", "E">>,
   faulty |-> <<"A", "1", "nl", "C", "1", "missing", "nl", "C", "1", "empty", "nl",
                "C", "-1", "io", "nl", "I", "X", "nl", "E", "nl">>,
   empty  |-> <<>>]

\* As in main.trace and proc1.trace: compute, start a process, compute.
TwoTexts ==
  [main  |-> <<"S", "5", "nl", "C", "1", "other", "nl", "A", "2", "nl", "E", "nl">>,
   other |-> <<"S", "1", "nl", "A", "1", "nl", "P", "nl", "E", "nl">>]

Words == {"1", "2", "5", "-1", "B", "C", "X"}

MCValue == [w \in Words |-> CASE w = "1" -> 1 [] w = "2" -> 2 [] w = "5" -> 5
                              [] w = "-1" -> -1 [] OTHER -> 0]
=============================================================================
