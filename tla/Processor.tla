----------------------------- MODULE Processor -----------------------------
(***************************************************************************)
(* The simulated cpu of Project 1 (src/Project1/src/cpu.cpp) and the way   *)
(* the kernel uses it (kernel.cpp: swapProcesses, boot, initProcess,       *)
(* cleanupProcess): registers, program text, process contexts and the      *)
(* flags of the program status word.  Which process is next is the         *)
(* scheduler's affair (SimKernel): here it is any ready one, at each tick. *)
(*                                                                         *)
(* A program is a sequence of words; "nl" ends a line, "sp" is a blank     *)
(* beyond the one that separates two words.  PC counts words, from 0.      *)
(***************************************************************************)
EXTENDS Integers, Sequences, FiniteSets, FiniteSetsExt

CONSTANTS
  Procs, NoProc,
  Text,       \* name of a file -> the words in it
  InitText,   \* main.trace
  Value       \* atoi: word -> number

ASSUME ProcessorAssumption ==
  /\ NoProc \notin Procs
  /\ InitText \in DOMAIN Text
  /\ Text[InitText] # <<>>
  /\ \A f \in DOMAIN Text : Text[f] \in Seq(STRING)
  \* The text ends with a line end or in a line of one letter: the tokenizer
  \* does not stop at the end of the text and would read beyond it.
  /\ \A f \in DOMAIN Text : LET n == Len(Text[f]) IN
       n > 0 => \/ Text[f][n] = "nl"
                \/ Text[f][n] \in {"E", "P"} /\ (n > 1 => Text[f][n - 1] = "nl")

VARIABLES
  cpu,          \* the registers: PC, VC, PSW, KMode, and the text it executes
  context,      \* process -> PC, VC, PSW and text in its ProcessInfo
  runningProc,  \* the kernel's idea of whose values are in the cpu
  life,         \* process -> "none", "ready", "blocked" or "ended"
  verdict,      \* process -> why it ended
  printed       \* process -> VC in the trace when it terminated

vars == <<cpu, context, runningProc, life, verdict, printed>>

\* A new process has read nothing of its text.
Fresh(f) == [PC |-> 0, VC |-> 0, PSW |-> {}, text |-> f]

InUserMode(r) ==
  [PC |-> r.PC, VC |-> r.VC, PSW |-> r.PSW, text |-> r.text, KMode |-> FALSE]

Init ==
  /\ cpu = InUserMode(Fresh(InitText))
  /\ context = [p \in Procs |-> Fresh(InitText)]
  /\ runningProc = NoProc
  /\ \E p \in Procs : life = [q \in Procs |-> IF q = p THEN "ready" ELSE "none"]
  /\ verdict = [p \in Procs |-> "none"]
  /\ printed = [p \in Procs |-> 0]

-----------------------------------------------------------------------------
(***************************************************************************)
(* tokenizeLine: up to MAX_PARAMS operands of the instruction at word i    *)
(* (from 1).  After two operands it stops without looking for the end of   *)
(* the line: it has read the character behind the second one.              *)
(***************************************************************************)
LineEnd(t, i) == Min({k \in i .. Len(t) : t[k] = "nl"} \cup {Len(t) + 1})

OperandPlaces(t, i) == {k \in i + 1 .. LineEnd(t, i) - 1 : t[k] # "sp"}

OperandCount(t, i) == Min({2, Cardinality(OperandPlaces(t, i))})

Operand(t, i, n) == LET first == Min(OperandPlaces(t, i)) IN
  t[IF n = 1 THEN first ELSE Min(OperandPlaces(t, i) \ {first})]

\* PC after the line was tokenized.
PCBehind(t, i) ==
  IF OperandCount(t, i) < 2 THEN LineEnd(t, i)
  ELSE LET places == OperandPlaces(t, i)
           second == Min(places \ {Min(places)})
       IN IF t[second + 1] \in {"nl", "sp"} THEN second + 1 ELSE second

(***************************************************************************)
(* cCPU::run with registers c: the instruction at PC.                      *)
(***************************************************************************)
Computing == {"S", "A", "D"}
SysCalls  == {"C", "I"}
Operands(op) == IF op = "C" THEN 2 ELSE 1

Raise(c, flags) == [c EXCEPT !.PSW = @ \cup flags]

Compute(c, op, n) ==
  [c EXCEPT !.VC = CASE op = "S" -> n [] op = "A" -> c.VC + n [] op = "D" -> c.VC - n]

Run(c) ==
  LET t    == Text[c.text]
      i    == c.PC + 1
      op   == t[i]
      read == [c EXCEPT !.PC = PCBehind(t, i)]
  IN CASE c.PC >= Len(t) - 1            -> Raise(c, {"EXCEPTION", "ABNORMAL"})
       [] c.PC < Len(t) - 1 /\ op \in Computing \cup SysCalls ->
            IF OperandCount(t, i) # Operands(op) THEN Raise(read, {"EXCEPTION"})
            ELSE IF op \in Computing
                 THEN Raise(Compute(read, op, Value[Operand(t, i, 1)]), {"FINISHED"})
                 ELSE Raise([read EXCEPT !.KMode = TRUE], {"SYSCALL"})
       [] c.PC < Len(t) - 1 /\ op = "P" ->
            Raise(c, IF c.KMode THEN {"FINISHED"} ELSE {"EXCEPTION"})
       [] c.PC < Len(t) - 1 /\ op = "E" -> Raise(c, {"TERMINATE"})
       [] OTHER                         -> Raise(c, {"EXCEPTION"})

-----------------------------------------------------------------------------
(***************************************************************************)
(* swapProcesses: user mode, and if the cpu holds the values of another    *)
(* process, those are stored and the values of p loaded.                   *)
(***************************************************************************)
\* Variant: the flags of the process before stay in the cpu.
LoadKeepsFlags(p) ==
  IF runningProc = p THEN InUserMode(cpu)
  ELSE InUserMode([context[p] EXCEPT !.VC = context[p].PC, !.PSW = cpu.PSW])

\* The value register is loaded with the program counter (kernel.cpp:192, 196).
Load(p) ==
  IF runningProc = p THEN InUserMode(cpu)
  ELSE InUserMode([context[p] EXCEPT !.VC = context[p].PC])

\* Variant: the program counter of the process that leaves is not stored.
StoreKeepsPC(p) ==
  IF runningProc \in {p, NoProc} THEN context
  ELSE [context EXCEPT ![runningProc].VC = cpu.VC, ![runningProc].PSW = cpu.PSW]

Store(p) ==
  IF runningProc \in {p, NoProc} THEN context
  ELSE [context EXCEPT ![runningProc].PC = cpu.PC, ![runningProc].VC = cpu.VC,
                       ![runningProc].PSW = cpu.PSW]

-----------------------------------------------------------------------------
(***************************************************************************)
(* One tick of boot(): swap, run, and the branch for the flags.            *)
(***************************************************************************)
Executed(p) == Run(Load(p))

Has(p, flag) == life[p] = "ready" /\ flag \in Executed(p).PSW

Clear(c, flag) == [c EXCEPT !.PSW = @ \ {flag}]

Computes(p) ==
  /\ Has(p, "FINISHED")
  /\ cpu' = Clear(Executed(p), "FINISHED")
  /\ context' = Store(p)
  /\ runningProc' = p
  /\ UNCHANGED <<life, verdict, printed>>

\* cleanupProcess
CleanUp(p, why) ==
  /\ life' = [life EXCEPT ![p] = "ended"]
  /\ verdict' = [verdict EXCEPT ![p] = why]
  /\ context' = Store(p)
  /\ runningProc' = NoProc

Faults(p) ==
  /\ Has(p, "EXCEPTION") /\ ~ Has(p, "FINISHED")
  /\ cpu' = Executed(p)
  /\ CleanUp(p, IF Has(p, "ABNORMAL") THEN "abnormal" ELSE "exception")
  /\ UNCHANGED printed

\* The system call the cpu has just decoded: its opcode and operands.
Called(p, op) ==
  /\ Has(p, "SYSCALL") /\ ~ Has(p, "FINISHED") /\ ~ Has(p, "EXCEPTION")
  /\ Text[Executed(p).text][Load(p).PC + 1] = op

CallOperand(p, n) == Operand(Text[Executed(p).text], Load(p).PC + 1, n)

\* Variant: the flag of the system call is not cleared.
SysCallDoneKeepsFlag(p) == cpu' = Executed(p)

SysCallDone(p) == cpu' = Clear(Executed(p), "SYSCALL")

\* initProcess returns early if the priority is negative, the file does not
\* exist or there is nothing in it.
CanCreate(p) ==
  /\ Value[CallOperand(p, 1)] >= 0
  /\ CallOperand(p, 2) \in DOMAIN Text
  /\ Text[CallOperand(p, 2)] # <<>>

Creates(p) ==
  /\ Called(p, "C") /\ CanCreate(p)
  /\ \E q \in Procs :
       /\ life[q] = "none"
       /\ life' = [life EXCEPT ![q] = "ready"]
       /\ context' = [Store(p) EXCEPT ![q] = Fresh(CallOperand(p, 2))]
  /\ SysCallDone(p)
  /\ runningProc' = p
  /\ UNCHANGED <<verdict, printed>>

CreatesNothing(p) ==
  /\ Called(p, "C") /\ ~ CanCreate(p)
  /\ SysCallDone(p)
  /\ context' = Store(p)
  /\ runningProc' = p
  /\ UNCHANGED <<life, verdict, printed>>

\* The registers of a process that blocks stay in the cpu.
Blocks(p) ==
  /\ Called(p, "I") /\ CallOperand(p, 1) \in {"B", "C"}
  /\ life' = [life EXCEPT ![p] = "blocked"]
  /\ SysCallDone(p)
  /\ context' = Store(p)
  /\ runningProc' = p
  /\ UNCHANGED <<verdict, printed>>

NoSuchDevice(p) ==
  /\ Called(p, "I") /\ CallOperand(p, 1) \notin {"B", "C"}
  /\ SysCallDone(p)
  /\ CleanUp(p, "no device")
  /\ UNCHANGED printed

Terminates(p) ==
  /\ Has(p, "TERMINATE")
  /\ ~ Has(p, "FINISHED") /\ ~ Has(p, "EXCEPTION") /\ ~ Has(p, "SYSCALL")
  /\ printed' = [printed EXCEPT ![p] = Executed(p).VC]
  /\ cpu' = [Executed(p) EXCEPT !.VC = 0]
  /\ CleanUp(p, "end")

\* The device has answered.
Unblock(p) ==
  /\ life[p] = "blocked"
  /\ life' = [life EXCEPT ![p] = "ready"]
  /\ UNCHANGED <<cpu, context, runningProc, verdict, printed>>

Next == \E p \in Procs :
  \/ Computes(p) \/ Faults(p) \/ Creates(p) \/ CreatesNothing(p)
  \/ Blocks(p) \/ NoSuchDevice(p) \/ Terminates(p) \/ Unblock(p)

Spec == Init /\ [][Next]_vars

-----------------------------------------------------------------------------
(***************************************************************************)
(* Reference: a program alone on a cpu of its own.  Texts have no jumps,   *)
(* so it is over after at most as many instructions as there are words.    *)
(***************************************************************************)
Over(c) == {"EXCEPTION", "TERMINATE"} \cap c.PSW # {}

Step(c) == IF Over(c) THEN c
           ELSE Run(InUserMode([c EXCEPT !.PSW = {}]))

Alone == [f \in DOMAIN Text |->
  LET after[n \in 0 .. Len(Text[f])] ==
        IF n = 0 \/ Text[f] = <<>> THEN InUserMode(Fresh(f)) ELSE Step(after[n - 1])
  IN after]

\* What ends a program with these registers.
Reason(c) ==
  IF "TERMINATE" \in c.PSW THEN "end"
  ELSE IF "ABNORMAL" \in c.PSW THEN "abnormal" ELSE "exception"

\* The registers of p, wherever they are.
PCOf(p)  == IF runningProc = p THEN cpu.PC ELSE context[p].PC
VCOf(p)  == IF runningProc = p THEN cpu.VC ELSE context[p].VC
PSWOf(p) == IF runningProc = p THEN cpu.PSW ELSE context[p].PSW

Alive(p) == life[p] \in {"ready", "blocked"}

-----------------------------------------------------------------------------
(***************************************************************************)
(* Properties                                                              *)
(***************************************************************************)
\* Between two ticks no process carries flags ("Any process execution which
\* returns to the kernel but does not terminate the process should reset the
\* PSW so subsequent exceptions/terminations are not lost by stray PSW
\* values.", cpu.h), whether its PSW is in the cpu or in its context.
NoStrayFlags == \A p \in Procs : Alive(p) => PSWOf(p) = {}

\* Whatever else runs in between, a process executes its own text in order:
\* its program counter is one it would have alone, and from a tick to the next
\* it stays or moves on by exactly one instruction.
ProgramOrder ==
  [][\A p \in Procs : Alive(p) /\ Alive(p)' =>
       \E n \in 0 .. Len(Text[context[p].text]) - 1 :
         /\ PCOf(p) = Alone[context[p].text][n].PC
         /\ PCOf(p)' \in {PCOf(p), Alone[context[p].text][n + 1].PC}]_vars

\* A process ends for the reason, and with the program counter, with which its
\* text ends alone on a cpu, with the one exception of a device that does not
\* exist, which the cpu alone cannot see.  (Not with the same value: ValueIsOwn.)
EndsAsAlone ==
  [][\A p \in Procs : Alive(p) /\ life'[p] = "ended" /\ verdict'[p] # "no device" =>
       LET end == Alone[context[p].text][Len(Text[context[p].text])] IN
       cpu'.PC = end.PC /\ verdict'[p] = Reason(end)]_vars

\* getSetVC "is useful for swapping out process values" (cpu.h): a process
\* computes with its own value.
ValueIsOwn ==
  \A p \in Procs : Alive(p) =>
    \E n \in 0 .. Len(Text[context[p].text]) :
      /\ PCOf(p) = Alone[context[p].text][n].PC
      /\ VCOf(p) = Alone[context[p].text][n].VC
=============================================================================
