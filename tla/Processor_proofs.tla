------------------------- MODULE Processor_proofs -------------------------
(***************************************************************************)
(* Theorems about the simulated cpu and the kernel's use of it, for every  *)
(* set of processes and every set of program texts.                        *)
(***************************************************************************)
EXTENDS Processor, NumberFacts

-----------------------------------------------------------------------------
(***************************************************************************)
(* One instruction.  All that is known of the registers is that they have  *)
(* a PSW; nothing is said about the numbers in them.                       *)
(***************************************************************************)
HasPSW(c) == "PSW" \in DOMAIN c

Outcomes == {{"EXCEPTION", "ABNORMAL"}, {"EXCEPTION"}, {"FINISHED"}, {"SYSCALL"},
             {"TERMINATE"}}

LEMMA RaiseFlags ==
  ASSUME NEW c, HasPSW(c), NEW S
  PROVE  HasPSW(Raise(c, S)) /\ Raise(c, S).PSW = c.PSW \cup S
BY DEF HasPSW, Raise

\* An instruction raises exactly one outcome, if no flag was set before it.
LEMMA RunOutcome ==
  ASSUME NEW c, HasPSW(c), c.PSW = {}
  PROVE  HasPSW(Run(c)) /\ Run(c).PSW \in Outcomes
<1> DEFINE t    == Text[c.text]
           i    == c.PC + 1
           op   == t[i]
           read == [c EXCEPT !.PC = PCBehind(t, i)]
           kernel == [read EXCEPT !.KMode = TRUE]
           computed == Compute(read, op, Value[Operand(t, i, 1)])
           Plain(d) == HasPSW(d) /\ d.PSW = {}
<1>1. Plain(c) /\ Plain(read)
  BY DEF HasPSW
<1>2. Plain(kernel)
  BY <1>1 DEF HasPSW
<1>3. Plain(computed)
  BY <1>1 DEF HasPSW, Compute
<1>4. \/ Run(c) = Raise(c, {"EXCEPTION", "ABNORMAL"})
      \/ Run(c) = Raise(read, {"EXCEPTION"})
      \/ Run(c) = Raise(computed, {"FINISHED"})
      \/ Run(c) = Raise(kernel, {"SYSCALL"})
      \/ Run(c) = Raise(c, {"FINISHED"})
      \/ Run(c) = Raise(c, {"EXCEPTION"})
      \/ Run(c) = Raise(c, {"TERMINATE"})
  <2> HIDE DEF t, i
  <2> QED
    BY SMTT(40) DEF Run, t, i
<1> HIDE DEF read, kernel, computed
<1>5. ASSUME NEW d, NEW S \in Outcomes, Plain(d), Run(c) = Raise(d, S)
      PROVE  HasPSW(Run(c)) /\ Run(c).PSW \in Outcomes
  <2>1. HasPSW(d) /\ d.PSW = {} /\ Run(c) = Raise(d, S)
    BY <1>5
  <2>2. HasPSW(Raise(d, S)) /\ Raise(d, S).PSW = d.PSW \cup S
    BY <2>1, RaiseFlags, Zenon
  <2>3. d.PSW \cup S = S
    BY <2>1
  <2> HIDE DEF Raise, Run
  <2> QED
    BY <2>1, <2>2, <2>3, Zenon
<1> QED
  BY <1>1, <1>2, <1>3, <1>4, <1>5 DEF Outcomes
-----------------------------------------------------------------------------
(***************************************************************************)
(* The invariant.  NoStrayFlags is about the PSW of a process wherever it  *)
(* is; it is inductive once the cpu and the contexts are known to have one.*)
(***************************************************************************)
Shape ==
  /\ HasPSW(cpu)
  /\ DOMAIN context = Procs /\ \A p \in Procs : HasPSW(context[p])
  /\ runningProc \in Procs \cup {NoProc}
  /\ DOMAIN life = Procs

IInv == Shape /\ NoStrayFlags

LEMMA InitIInv == Init => IInv
BY DEF Init, IInv, Shape, HasPSW, InUserMode, Fresh, NoStrayFlags, PSWOf

LEMMA LoadedPlain ==
  ASSUME IInv, NEW p \in Procs, life[p] = "ready"
  PROVE  HasPSW(Load(p)) /\ Load(p).PSW = {}
<1>1. PSWOf(p) = {}
  BY DEF IInv, NoStrayFlags, Alive
<1>2. CASE runningProc = p
  BY <1>1, <1>2 DEF Load, InUserMode, HasPSW, PSWOf
<1>3. CASE runningProc # p
  <2> DEFINE c == [context[p] EXCEPT !.VC = context[p].PC]
  <2>1. Load(p) = InUserMode(c)
    BY <1>3 DEF Load
  <2>2. c.PSW = context[p].PSW
    BY DEF IInv, Shape, HasPSW
  <2>3. context[p].PSW = {}
    BY <1>1, <1>3 DEF PSWOf
  <2> HIDE DEF c
  <2> QED
    BY <2>1, <2>2, <2>3 DEF InUserMode, HasPSW
<1> QED
  BY <1>2, <1>3

LEMMA ExecutedOutcome ==
  ASSUME IInv, NEW p \in Procs, life[p] = "ready"
  PROVE  HasPSW(Executed(p)) /\ Executed(p).PSW \in Outcomes
BY LoadedPlain, RunOutcome, Zenon DEF Executed

\* The contexts once p is in the cpu: those of the others keep their flags.
LEMMA StoredFlags ==
  ASSUME IInv, NEW p \in Procs
  PROVE  /\ DOMAIN Store(p) = Procs /\ \A q \in Procs : HasPSW(Store(p)[q])
         /\ \A q \in Procs \ {p} : Store(p)[q].PSW = PSWOf(q)
<1> USE DEF IInv, Shape
<1>1. CASE runningProc \in {p, NoProc}
  BY <1>1, ProcessorAssumption DEF Store, PSWOf
<1>2. CASE runningProc \notin {p, NoProc}
  <2> DEFINE r == runningProc
             s == [[[context[r] EXCEPT !.PC = cpu.PC] EXCEPT !.VC = cpu.VC]
                     EXCEPT !.PSW = cpu.PSW]
  <2>1. r \in Procs
    BY <1>2
  <2>2. HasPSW(s) /\ s.PSW = cpu.PSW
    BY <2>1 DEF HasPSW
  <2>3. Store(p) = [context EXCEPT ![r] = s]
    BY <1>2, <2>1 DEF Store
  <2> HIDE DEF s
  <2> QED
    BY <1>2, <2>1, <2>2, <2>3 DEF PSWOf
<1> QED
  BY <1>1, <1>2

LEMMA ClearFlag ==
  ASSUME NEW c, HasPSW(c), NEW f
  PROVE  HasPSW(Clear(c, f)) /\ Clear(c, f).PSW = c.PSW \ {f}
BY DEF HasPSW, Clear
\* The outcome a flag stands for, and the register file when it is cleared.
LEMMA OneFlag ==
  ASSUME IInv, NEW p \in Procs, life[p] = "ready",
         NEW f \in {"FINISHED", "SYSCALL"}, f \in Executed(p).PSW
  PROVE  HasPSW(Clear(Executed(p), f)) /\ Clear(Executed(p), f).PSW = {}
<1>1. HasPSW(Executed(p)) /\ Executed(p).PSW \in Outcomes
  BY ExecutedOutcome
<1>2. Executed(p).PSW = {f}
  BY <1>1 DEF Outcomes
<1>3. /\ HasPSW(Clear(Executed(p), f))
      /\ Clear(Executed(p), f).PSW = Executed(p).PSW \ {f}
  BY <1>1, ClearFlag, Zenon
<1> QED
  BY <1>2, <1>3

\* A tick after which the process still lives.
LEMMA TickLeavesNoFlags ==
  ASSUME IInv, NEW p \in Procs, life[p] = "ready",
         HasPSW(cpu'), cpu'.PSW = {}, context' = Store(p), runningProc' = p,
         life' \in {life, [life EXCEPT ![p] = "blocked"]}
  PROVE  IInv'
<1>1. /\ DOMAIN Store(p) = Procs /\ \A q \in Procs : HasPSW(Store(p)[q])
      /\ \A q \in Procs \ {p} : Store(p)[q].PSW = PSWOf(q)
  BY StoredFlags
<1>2. \A q \in Procs : Alive(q)' => Alive(q)
  BY DEF IInv, Shape, Alive
<1>3. ASSUME NEW q \in Procs, Alive(q)' PROVE PSWOf(q)' = {}
  <2>1. CASE q = p
    BY <2>1 DEF PSWOf
  <2>2. CASE q # p
    BY <1>1, <1>2, <1>3, <2>2 DEF PSWOf, IInv, NoStrayFlags
  <2> QED
    BY <2>1, <2>2
<1>4. Shape'
  BY <1>1 DEF IInv, Shape
<1> QED
  BY <1>3, <1>4 DEF IInv, NoStrayFlags

\* A tick in which the process ends.
LEMMA EndLeavesNoFlags ==
  ASSUME IInv, NEW p \in Procs, NEW why, HasPSW(cpu'), CleanUp(p, why)
  PROVE  IInv'
<1>1. /\ DOMAIN Store(p) = Procs /\ \A q \in Procs : HasPSW(Store(p)[q])
      /\ \A q \in Procs \ {p} : Store(p)[q].PSW = PSWOf(q)
  BY StoredFlags
<1>2. /\ context' = Store(p) /\ runningProc' = NoProc
      /\ life' = [life EXCEPT ![p] = "ended"]
  BY DEF CleanUp
<1>3. ASSUME NEW q \in Procs, Alive(q)' PROVE PSWOf(q)' = {}
  <2>1. q # p /\ Alive(q)
    BY <1>2, <1>3 DEF IInv, Shape, Alive
  <2>2. PSWOf(q)' = Store(p)[q].PSW
    BY <1>2, ProcessorAssumption DEF PSWOf
  <2> QED
    BY <1>1, <2>1, <2>2 DEF IInv, NoStrayFlags
<1>4. Shape'
  BY <1>1, <1>2 DEF IInv, Shape
<1> QED
  BY <1>3, <1>4 DEF IInv, NoStrayFlags

LEMMA CreateLeavesNoFlags ==
  ASSUME IInv, NEW p \in Procs, Creates(p)
  PROVE  IInv'
<1>1. PICK q \in Procs :
        /\ life[q] = "none" /\ life' = [life EXCEPT ![q] = "ready"]
        /\ context' = [Store(p) EXCEPT ![q] = Fresh(CallOperand(p, 2))]
  BY DEF Creates
<1> DEFINE f == Fresh(CallOperand(p, 2))
<1>2. HasPSW(f) /\ f.PSW = {}
  BY DEF Fresh, HasPSW
<1>3. life[p] = "ready" /\ p # q
  BY <1>1 DEF Creates, Called, Has
<1>4. HasPSW(cpu') /\ cpu'.PSW = {} /\ runningProc' = p
  BY <1>3, OneFlag DEF Creates, Called, Has, SysCallDone
<1>5. /\ DOMAIN Store(p) = Procs /\ \A r \in Procs : HasPSW(Store(p)[r])
      /\ \A r \in Procs \ {p} : Store(p)[r].PSW = PSWOf(r)
  BY StoredFlags
<1> HIDE DEF f
<1>6. /\ DOMAIN context' = Procs
      /\ context'[q] = f
      /\ \A r \in Procs \ {q} : context'[r] = Store(p)[r]
  BY <1>1, <1>5 DEF f
<1>7. ASSUME NEW r \in Procs, Alive(r)' PROVE PSWOf(r)' = {}
  <2>1. CASE r = p
    BY <1>4, <2>1 DEF PSWOf
  <2>2. CASE r = q
    BY <1>2, <1>3, <1>4, <1>6, <2>2 DEF PSWOf
  <2>3. CASE r \notin {p, q}
    <3>1. Alive(r)
      BY <1>1, <1>7, <2>3 DEF IInv, Shape, Alive
    <3>2. PSWOf(r)' = PSWOf(r)
      BY <1>4, <1>5, <1>6, <2>3 DEF PSWOf
    <3> QED
      BY <3>1, <3>2 DEF IInv, NoStrayFlags
  <2> QED
    BY <2>1, <2>2, <2>3
<1>8. Shape'
  BY <1>1, <1>2, <1>4, <1>5, <1>6 DEF IInv, Shape
<1> QED
  BY <1>7, <1>8 DEF IInv, NoStrayFlags

LEMMA NextIInv == IInv /\ [Next]_vars => IInv'
<1> SUFFICES ASSUME IInv, [Next]_vars PROVE IInv'
  OBVIOUS
<1>1. ASSUME NEW p \in Procs, Computes(p) PROVE IInv'
  <2>1. HasPSW(cpu') /\ cpu'.PSW = {}
    BY <1>1, OneFlag DEF Computes, Has
  <2> QED
    BY <1>1, <2>1, TickLeavesNoFlags DEF Computes, Has
<1>2. ASSUME NEW p \in Procs, CreatesNothing(p) \/ Blocks(p) PROVE IInv'
  <2>1. life[p] = "ready" /\ "SYSCALL" \in Executed(p).PSW /\ SysCallDone(p)
    BY <1>2 DEF CreatesNothing, Blocks, Called, Has
  <2>2. HasPSW(cpu') /\ cpu'.PSW = {}
    BY <2>1, OneFlag DEF SysCallDone
  <2> QED
    BY <1>2, <2>1, <2>2, TickLeavesNoFlags DEF CreatesNothing, Blocks
<1>3. ASSUME NEW p \in Procs, Creates(p) PROVE IInv'
  BY <1>3, CreateLeavesNoFlags
<1>4. ASSUME NEW p \in Procs, Faults(p) PROVE IInv'
  <2>1. HasPSW(cpu')
    BY <1>4, ExecutedOutcome DEF Faults, Has
  <2> QED
    BY <1>4, <2>1, EndLeavesNoFlags DEF Faults
<1>5. ASSUME NEW p \in Procs, NoSuchDevice(p) PROVE IInv'
  <2>1. HasPSW(cpu')
    BY <1>5, OneFlag DEF NoSuchDevice, Called, Has, SysCallDone
  <2> QED
    BY <1>5, <2>1, EndLeavesNoFlags DEF NoSuchDevice
<1>6. ASSUME NEW p \in Procs, Terminates(p) PROVE IInv'
  <2>1. HasPSW(Executed(p)) /\ cpu' = [Executed(p) EXCEPT !.VC = 0]
    BY <1>6, ExecutedOutcome DEF Terminates, Has
  <2>2. HasPSW(cpu')
    BY <2>1 DEF HasPSW
  <2> QED
    BY <1>6, <2>2, EndLeavesNoFlags DEF Terminates
<1>7. ASSUME NEW p \in Procs, Unblock(p) PROVE IInv'
  <2>1. \A q \in Procs : Alive(q)' => Alive(q)
    BY <1>7 DEF Unblock, Alive, IInv, Shape
  <2> QED
    BY <1>7, <2>1 DEF Unblock, IInv, Shape, NoStrayFlags, PSWOf
<1>8. CASE UNCHANGED vars
  BY <1>8 DEF vars, IInv, Shape, NoStrayFlags, PSWOf, Alive
<1> QED
  BY <1>1, <1>2, <1>3, <1>4, <1>5, <1>6, <1>7, <1>8 DEF Next

\* No flag of the PSW survives a tick in a process that goes on, whatever texts
\* the processes have and however they are scheduled: no exception, system call
\* or end of one process is taken for one of another, or for its next one.
THEOREM NoFlagSurvives == Spec => []NoStrayFlags
<1>1. IInv => NoStrayFlags
  BY DEF IInv
<1> QED
  BY <1>1, InitIInv, NextIInv, PTL DEF Spec

-----------------------------------------------------------------------------
(***************************************************************************)
(* A program alone on its cpu.  Alone is defined by recursion: that such a *)
(* function exists is what the lemma shows.                                *)
(***************************************************************************)
LEMMA AloneSteps ==
  ASSUME NEW f \in DOMAIN Text, Text[f] # <<>>
  PROVE  /\ Alone[f][0] = InUserMode(Fresh(f))
         /\ \A n \in 1 .. Len(Text[f]) : Alone[f][n] = Step(Alone[f][n - 1])
<1> DEFINE c0 == InUserMode(Fresh(f))
           After(g, m) == g = [n \in 0 .. m |-> IF n = 0 \/ Text[f] = <<>> THEN c0
                                                ELSE Step(g[n - 1])]
           S == {m \in Nat : \E g : After(g, m)}
           L == Len(Text[f])
<1>0. L \in Nat
  BY ProcessorAssumption
<1>1. Alone[f] = CHOOSE g : After(g, L)
  BY Zenon DEF Alone
<1> HIDE DEF c0, L
<1>2. 0 \in S
  <2>1. After([n \in 0 .. 0 |-> c0], 0)
    OBVIOUS
  <2> QED
    BY <2>1
<1>3. ASSUME NEW m \in S \cap Nat PROVE m + 1 \in S
  <2>1. PICK g : After(g, m)
    OBVIOUS
  <2> DEFINE h == [n \in 0 .. m + 1 |-> IF n = m + 1 THEN Step(g[m]) ELSE g[n]]
  <2>2. \A n \in 0 .. m : g[n] = IF n = 0 THEN c0 ELSE Step(g[n - 1])
    BY <2>1
  <2>3. \A n \in 0 .. m + 1 : h[n] = IF n = 0 THEN c0 ELSE Step(h[n - 1])
    BY <2>2
  <2>4. h = [n \in 0 .. m + 1 |-> h[n]]
    OBVIOUS
  <2>5. After(h, m + 1)
    <3> HIDE DEF h
    <3> QED
      BY <2>3, <2>4
  <2> HIDE DEF h, After
  <2> QED
    BY <2>5
<1>4. \E g : After(g, L)
  <2> HIDE DEF After
  <2>1. Nat \subseteq S
    BY <1>2, <1>3, InductionOverSet
  <2> QED
    BY <1>0, <2>1
<1>5. After(Alone[f], L)
  <2> HIDE DEF After
  <2> QED
    BY <1>1, <1>4
<1>6. \A n \in 0 .. L : Alone[f][n] = IF n = 0 THEN c0 ELSE Step(Alone[f][n - 1])
  <2> DEFINE a == Alone[f]
  <2>1. a = [n \in 0 .. L |-> IF n = 0 \/ Text[f] = <<>> THEN c0
                              ELSE Step(a[n - 1])]
    BY <1>5
  <2> HIDE DEF a
  <2>2. \A n \in 0 .. L : a[n] = IF n = 0 THEN c0 ELSE Step(a[n - 1])
    BY <2>1
  <2> QED
    BY <2>2 DEF a
<1> QED
  BY <1>0, <1>6 DEF c0, L

-----------------------------------------------------------------------------
(***************************************************************************)
(* One instruction in user mode, as far as the order of a program goes:    *)
(* the next program counter and the flags depend on the text and the       *)
(* program counter alone.                                                  *)
(***************************************************************************)
HasRegs(c) == {"PC", "VC", "PSW", "text"} \subseteq DOMAIN c

Decodes(t, pc) == pc < Len(t) - 1 /\ t[pc + 1] \in Computing \cup SysCalls

NextPC(t, pc) == IF Decodes(t, pc) THEN PCBehind(t, pc + 1) ELSE pc

Flags(t, pc) ==
  IF pc >= Len(t) - 1 THEN {"EXCEPTION", "ABNORMAL"}
  ELSE IF t[pc + 1] = "E" THEN {"TERMINATE"}
  ELSE IF ~ Decodes(t, pc) \/ OperandCount(t, pc + 1) # Operands(t[pc + 1])
       THEN {"EXCEPTION"}
  ELSE IF t[pc + 1] \in Computing THEN {"FINISHED"} ELSE {"SYSCALL"}

\* Both are about a program counter that is a number.
LEMMA RunForm ==
  ASSUME NEW r, r.PSW = {}, r.PC \in Int, Len(Text[r.text]) \in Nat
  PROVE  /\ HasRegs(Run(InUserMode(r)))
         /\ Run(InUserMode(r)).text = r.text
         /\ Run(InUserMode(r)).PC = NextPC(Text[r.text], r.PC)
         /\ Run(InUserMode(r)).PSW = Flags(Text[r.text], r.PC)
<1> DEFINE c    == InUserMode(r)
           t    == Text[r.text]
           i    == r.PC + 1
           op   == t[i]
           read == [c EXCEPT !.PC = PCBehind(t, i)]
           value == Value[Operand(t, i, 1)]
           kernel == [read EXCEPT !.KMode = TRUE]
           computed == Compute(read, op, value)
           At(d, pc) == /\ HasRegs(d) /\ d.text = r.text /\ d.PC = pc /\ d.PSW = {}
<1>1. At(c, r.PC) /\ At(read, PCBehind(t, i)) /\ At(kernel, PCBehind(t, i))
  BY DEF InUserMode, HasRegs
<1>2. At(computed, PCBehind(t, i))
  BY <1>1 DEF Compute, HasRegs
<1>3. c.KMode = FALSE /\ c.text = r.text /\ c.PC = r.PC
  BY DEF InUserMode
<1>4. ASSUME NEW d, NEW pc, At(d, pc), NEW F, Run(c) = Raise(d, F),
             pc = NextPC(t, r.PC), F = Flags(t, r.PC)
      PROVE  /\ HasRegs(Run(c)) /\ Run(c).text = r.text
             /\ Run(c).PC = NextPC(t, r.PC) /\ Run(c).PSW = Flags(t, r.PC)
  <2> HIDE DEF c, t
  <2>1. Raise(d, F).PSW = F /\ Raise(d, F).PC = pc /\ Raise(d, F).text = r.text
        /\ HasRegs(Raise(d, F))
    BY <1>4 DEF Raise, HasRegs
  <2> QED
    BY <1>4, <2>1
<1>5. t = Text[c.text] /\ i = c.PC + 1
  BY <1>3
<1>6. Len(t) \in Nat /\ r.PC \in Int
  OBVIOUS
<1> HIDE DEF c, t, i, kernel, computed, read, value
<1>7. CASE r.PC >= Len(t) - 1
  <2>1. Run(c) = Raise(c, {"EXCEPTION", "ABNORMAL"})
    BY <1>3, <1>6, <1>7 DEF Run, t
  <2>2. r.PC = NextPC(t, r.PC) /\ {"EXCEPTION", "ABNORMAL"} = Flags(t, r.PC)
    BY <1>6, <1>7 DEF NextPC, Flags, Decodes
  <2> QED
    BY <1>1, <1>4, <2>1, <2>2 DEF c, t
<1>8. CASE r.PC < Len(t) - 1 /\ op \notin Computing \cup SysCalls
  <2>1. op # "E" => Run(c) = Raise(c, {"EXCEPTION"})
    BY <1>3, <1>5, <1>6, <1>8 DEF Run, t, i
  <2>2. op = "E" => Run(c) = Raise(c, {"TERMINATE"})
    BY <1>3, <1>5, <1>6, <1>8 DEF Run, t, i
  <2>3. r.PC = NextPC(t, r.PC)
    BY <1>8 DEF NextPC, Decodes, i
  <2>4. op # "E" => {"EXCEPTION"} = Flags(t, r.PC)
    BY <1>6, <1>8 DEF Flags, Decodes, i
  <2>5. op = "E" => {"TERMINATE"} = Flags(t, r.PC)
    BY <1>6, <1>8 DEF Flags, Decodes, i
  <2> QED
    BY <1>1, <1>4, <2>1, <2>2, <2>3, <2>4, <2>5 DEF c, t
<1>10. r.PC < Len(t) - 1 /\ op \in Computing \cup SysCalls =>
         Run(c) = IF OperandCount(t, i) # Operands(op) THEN Raise(read, {"EXCEPTION"})
                  ELSE IF op \in Computing THEN Raise(computed, {"FINISHED"})
                  ELSE Raise(kernel, {"SYSCALL"})
  <2> DEFINE branch == IF OperandCount(t, i) # Operands(op) THEN Raise(read, {"EXCEPTION"})
                       ELSE IF op \in Computing THEN Raise(computed, {"FINISHED"})
                       ELSE Raise(kernel, {"SYSCALL"})
  <2>1. Run(c) = CASE c.PC >= Len(t) - 1 -> Raise(c, {"EXCEPTION", "ABNORMAL"})
       [] c.PC < Len(t) - 1 /\ op \in Computing \cup SysCalls -> branch
       [] c.PC < Len(t) - 1 /\ op = "P" ->
            Raise(c, IF c.KMode THEN {"FINISHED"} ELSE {"EXCEPTION"})
       [] c.PC < Len(t) - 1 /\ op = "E" -> Raise(c, {"TERMINATE"})
       [] OTHER                         -> Raise(c, {"EXCEPTION"})
    <3>1. branch = IF OperandCount(Text[c.text], c.PC + 1) # Operands(op)
                   THEN Raise([c EXCEPT !.PC = PCBehind(Text[c.text], c.PC + 1)],
                              {"EXCEPTION"})
                   ELSE IF op \in Computing
                        THEN Raise(Compute([c EXCEPT !.PC = PCBehind(Text[c.text], c.PC + 1)],
                                  op, Value[Operand(Text[c.text], c.PC + 1, 1)]), {"FINISHED"})
                        ELSE Raise([[c EXCEPT !.PC = PCBehind(Text[c.text], c.PC + 1)]
                                      EXCEPT !.KMode = TRUE], {"SYSCALL"})
      BY <1>5, Zenon DEF read, computed, kernel, value
    <3> QED
      BY <1>5, <3>1, Zenon DEF Run
  <2> HIDE DEF branch
  <2>2. r.PC < Len(t) - 1 /\ op \in Computing \cup SysCalls => Run(c) = branch
    BY <1>3, <1>6, <2>1 DEF Computing, SysCalls
  <2> QED
    BY <2>2 DEF branch
<1>9. CASE r.PC < Len(t) - 1 /\ op \in Computing \cup SysCalls
  <2>1. PCBehind(t, i) = NextPC(t, r.PC)
    BY <1>9 DEF NextPC, Decodes, i
  <2>2. CASE OperandCount(t, i) # Operands(op)
    <3>1. Run(c) = Raise(read, {"EXCEPTION"})
      BY <1>9, <1>10, <2>2
    <3>2. {"EXCEPTION"} = Flags(t, r.PC)
      BY <1>6, <1>9, <2>2 DEF Flags, Decodes, Computing, SysCalls, i
    <3> QED
      BY <1>1, <1>4, <2>1, <3>1, <3>2 DEF c, t
  <2>3. CASE OperandCount(t, i) = Operands(op) /\ op \in Computing
    <3>1. Run(c) = Raise(computed, {"FINISHED"})
      BY <1>9, <1>10, <2>3
    <3>2. {"FINISHED"} = Flags(t, r.PC)
      BY <1>6, <1>9, <2>3 DEF Flags, Decodes, Computing, SysCalls, i
    <3> QED
      BY <1>2, <1>4, <2>1, <3>1, <3>2 DEF c, t
  <2>4. CASE OperandCount(t, i) = Operands(op) /\ op \notin Computing
    <3>1. Run(c) = Raise(kernel, {"SYSCALL"})
      BY <1>9, <1>10, <2>4
    <3>2. {"SYSCALL"} = Flags(t, r.PC)
      BY <1>6, <1>9, <2>4 DEF Flags, Decodes, Computing, SysCalls, i
    <3> QED
      BY <1>1, <1>4, <2>1, <3>1, <3>2 DEF c, t
  <2> QED
    BY <2>2, <2>3, <2>4
<1> QED
  BY <1>6, <1>7, <1>8, <1>9 DEF c, t

\* An instruction that is decoded leaves the program counter behind its line
\* or behind its operands.
LEMMA BehindIsAhead ==
  ASSUME NEW t \in Seq(STRING), NEW i \in 1 .. Len(t)
  PROVE  PCBehind(t, i) \in Nat /\ PCBehind(t, i) >= i
<1> DEFINE ends == {k \in i .. Len(t) : t[k] = "nl"} \cup {Len(t) + 1}
           places == OperandPlaces(t, i)
           first == Min(places)
           second == Min(places \ {first})
<1>1. LineEnd(t, i) \in ends
  <2>1. ends \subseteq Nat /\ ends # {}
    OBVIOUS
  <2> HIDE DEF ends
  <2>2. Min(ends) \in ends
    BY <2>1, MinExists
  <2> QED
    BY <2>2 DEF LineEnd, ends
<1>2. LineEnd(t, i) \in Nat
  BY <1>1
<1>3. CASE OperandCount(t, i) < 2
  <2>1. PCBehind(t, i) = LineEnd(t, i)
    BY <1>3 DEF PCBehind
  <2> QED
    BY <2>1, <1>1
<1>4. CASE ~ (OperandCount(t, i) < 2)
  <2>1. places \subseteq i + 1 .. LineEnd(t, i) - 1 /\ places \subseteq Nat
    BY <1>2 DEF OperandPlaces
  <2>2. IsFiniteSet(places) /\ Cardinality(places) \in Nat
    <3>1. IsFiniteSet(i + 1 .. LineEnd(t, i) - 1)
      BY <1>2, FS_Interval
    <3> HIDE DEF places
    <3> QED
      BY <2>1, <3>1, FS_Subset, FS_CardinalityType
  <2>3. Cardinality(places) >= 2
    <3> DEFINE n == Cardinality(places)
    <3>1. ASSUME n = 0 PROVE OperandCount(t, i) = 0
      <4>1. Min({2, 0}) = 0
        BY DEF Min
      <4> QED
        BY <3>1, <4>1 DEF OperandCount
    <3>2. ASSUME n = 1 PROVE OperandCount(t, i) = 1
      <4>1. Min({2, 1}) = 1
        BY DEF Min
      <4> QED
        BY <3>2, <4>1 DEF OperandCount
    <3> HIDE DEF places, n
    <3>3. n \in Nat
      BY <2>2 DEF n
    <3> QED
      BY <1>4, <3>1, <3>2, <3>3 DEF n
  <2> HIDE DEF places
  <2>4. places # {}
    BY <2>3, FS_EmptySet
  <2>5. first \in places
    BY <2>1, <2>4, MinExists
  <2>6. places \ {first} # {}
    <3>1. ASSUME places = {first} PROVE FALSE
      <4>1. Cardinality(places) = 1
        BY <3>1, FS_Singleton
      <4> QED
        BY <2>3, <4>1
    <3> QED
      BY <2>5, <3>1
  <2> HIDE DEF first
  <2>7. second \in places \ {first}
    BY <2>1, <2>6, MinExists
  <2> HIDE DEF second
  <2>8. second \in Nat /\ second >= i + 1
    BY <2>1, <2>7, <1>2
  <2>9. PCBehind(t, i) \in {second, second + 1}
    BY <1>4 DEF PCBehind, first, second, places
  <2> QED
    BY <2>8, <2>9
<1> QED
  BY <1>3, <1>4

LEMMA NextPCAhead ==
  ASSUME NEW f \in DOMAIN Text, NEW pc \in Nat
  PROVE  /\ NextPC(Text[f], pc) \in Nat
         /\ NextPC(Text[f], pc) > pc \/ Flags(Text[f], pc) \cap {"EXCEPTION", "TERMINATE"} # {}
<1> DEFINE t == Text[f]
<1>1. t \in Seq(STRING)
  BY ProcessorAssumption
<1> HIDE DEF t
<1>3. CASE Decodes(t, pc)
  <2>1. pc + 1 \in 1 .. Len(t)
    BY <1>1, <1>3 DEF Decodes
  <2>2. PCBehind(t, pc + 1) \in Nat /\ PCBehind(t, pc + 1) >= pc + 1
    BY <1>1, <2>1, BehindIsAhead
  <2> QED
    BY <1>3, <2>2 DEF NextPC, t
<1>4. CASE ~ Decodes(t, pc)
  <2>1. Flags(t, pc) \in {{"EXCEPTION", "ABNORMAL"}, {"TERMINATE"}, {"EXCEPTION"}}
    BY <1>4 DEF Flags
  <2> QED
    BY <1>4, <2>1 DEF NextPC, t
<1> QED
  BY <1>3, <1>4

\* The registers of a program that executes f.
Executes(c, f) == HasRegs(c) /\ c.text = f /\ c.PC \in Nat

LEMMA OneStepAlone ==
  ASSUME NEW f \in DOMAIN Text, NEW c, Executes(c, f)
  PROVE  /\ Over(c) => Step(c) = c
         /\ ~ Over(c) => /\ Executes(Step(c), f)
                         /\ Step(c).PC = NextPC(Text[f], c.PC)
                         /\ Step(c).PSW = Flags(Text[f], c.PC)
<1> DEFINE r == [c EXCEPT !.PSW = {}]
<1>1. r.PSW = {} /\ r.PC = c.PC /\ r.text = f
  BY DEF Executes, HasRegs
<1>2. Len(Text[f]) \in Nat /\ r.PC \in Int
  BY <1>1, ProcessorAssumption DEF Executes
<1>3. Over(c) => Step(c) = c
  BY DEF Step
<1>4. ~ Over(c) => Step(c) = Run(InUserMode(r))
  BY DEF Step
<1> HIDE DEF r
<1>5. /\ HasRegs(Run(InUserMode(r)))
      /\ Run(InUserMode(r)).text = f
      /\ Run(InUserMode(r)).PC = NextPC(Text[f], c.PC)
      /\ Run(InUserMode(r)).PSW = Flags(Text[f], c.PC)
  BY <1>1, <1>2, RunForm
<1>6. NextPC(Text[f], c.PC) \in Nat
  BY NextPCAhead DEF Executes
<1> QED
  BY <1>3, <1>4, <1>5, <1>6 DEF Executes

\* After n instructions a program is over, or n words or more into its text.
LEMMA AloneAhead ==
  ASSUME NEW f \in DOMAIN Text, Text[f] # <<>>, NEW n \in 0 .. Len(Text[f])
  PROVE  /\ Executes(Alone[f][n], f)
         /\ Over(Alone[f][n]) \/ Alone[f][n].PC >= n
<1> DEFINE a == Alone[f]
           L == Len(Text[f])
           Good(m) == Executes(a[m], f) /\ (Over(a[m]) \/ a[m].PC >= m)
           S == {m \in Nat : m <= L => Good(m)}
<1>1. L \in Nat
  BY ProcessorAssumption
<1>2. a[0] = InUserMode(Fresh(f)) /\ \A m \in 1 .. L : a[m] = Step(a[m - 1])
  BY AloneSteps
<1> HIDE DEF a, L
<1>3. 0 \in S
  <2>1. HasRegs(a[0]) /\ a[0].text = f /\ a[0].PC = 0
    BY <1>2 DEF InUserMode, Fresh, HasRegs
  <2> QED
    BY <2>1 DEF Executes
<1>4. ASSUME NEW m \in S \cap Nat PROVE m + 1 \in S
  <2> SUFFICES ASSUME m + 1 <= L PROVE Good(m + 1)
    OBVIOUS
  <2>1. m \in Nat /\ Good(m)
    BY <1>1
  <2>2. a[m + 1] = Step(a[m])
    <3>1. m + 1 \in 1 .. L /\ (m + 1) - 1 = m
      BY <1>1, <2>1
    <3> QED
      BY <1>2, <3>1
  <2> DEFINE c == a[m]
  <2> HIDE DEF c
  <2>3. Executes(c, f) /\ (Over(c) \/ c.PC >= m) /\ a[m + 1] = Step(c)
    BY <2>1, <2>2 DEF c
  <2>4. CASE Over(c)
    BY <2>3, <2>4, OneStepAlone
  <2>5. CASE ~ Over(c)
    <3>1. /\ Executes(Step(c), f) /\ Step(c).PC = NextPC(Text[f], c.PC)
          /\ Step(c).PSW = Flags(Text[f], c.PC)
      BY <2>3, <2>5, OneStepAlone
    <3>2. c.PC \in Nat /\ c.PC >= m
      BY <2>3, <2>5 DEF Executes
    <3>3. /\ NextPC(Text[f], c.PC) \in Nat
          /\ \/ NextPC(Text[f], c.PC) > c.PC
             \/ Flags(Text[f], c.PC) \cap {"EXCEPTION", "TERMINATE"} # {}
      BY <3>2, NextPCAhead
    <3>4. Over(Step(c)) \/ Step(c).PC >= m + 1
      BY <2>1, <3>1, <3>2, <3>3 DEF Over
    <3> QED
      BY <2>3, <3>1, <3>4
  <2> QED
    BY <2>4, <2>5
<1>5. n \in S
  <2> HIDE DEF S
  <2>1. Nat \subseteq S
    BY <1>3, <1>4, InductionOverSet
  <2> QED
    BY <1>1, <2>1 DEF L
<1> QED
  BY <1>1, <1>5 DEF a, L

\* What is over stays as it is.
LEMMA AloneStays ==
  ASSUME NEW f \in DOMAIN Text, Text[f] # <<>>, NEW n \in 0 .. Len(Text[f]),
         Over(Alone[f][n])
  PROVE  Alone[f][Len(Text[f])] = Alone[f][n]
<1> DEFINE a == Alone[f]
           L == Len(Text[f])
           S == {d \in Nat : n + d <= L => a[n + d] = a[n]}
<1>1. L \in Nat
  BY ProcessorAssumption
<1>2. \A m \in 1 .. L : a[m] = Step(a[m - 1])
  BY AloneSteps
<1>3. Step(a[n]) = a[n]
  BY AloneAhead, OneStepAlone
<1> HIDE DEF a, L
<1>4. n \in 0 .. L
  BY DEF L
<1>5. 0 \in S
  BY <1>4
<1>6. ASSUME NEW d \in S \cap Nat PROVE d + 1 \in S
  <2> SUFFICES ASSUME n + (d + 1) <= L PROVE a[n + (d + 1)] = a[n]
    OBVIOUS
  <2>1. n + (d + 1) \in 1 .. L /\ (n + (d + 1)) - 1 = n + d
    BY <1>1, <1>4
  <2>2. a[n + d] = a[n]
    BY <1>1, <1>4
  <2>3. a[n + (d + 1)] = Step(a[n + d])
    BY <1>2, <2>1
  <2> QED
    BY <1>3, <2>2, <2>3
<1>7. L - n \in S
  <2> HIDE DEF S
  <2>1. Nat \subseteq S
    BY <1>5, <1>6, InductionOverSet
  <2> QED
    BY <1>1, <1>4, <2>1
<1>8. n + (L - n) = L
  BY <1>1, <1>4
<1> QED
  BY <1>1, <1>7, <1>8 DEF a, L

\* A program is over after as many instructions as it has words: what is not
\* over after n of them has another one, and that is as the program counter says.
LEMMA AloneContinues ==
  ASSUME NEW f \in DOMAIN Text, Text[f] # <<>>, NEW n \in 0 .. Len(Text[f]),
         ~ Over(Alone[f][n])
  PROVE  /\ n \in 0 .. Len(Text[f]) - 1
         /\ Alone[f][n + 1].PC = NextPC(Text[f], Alone[f][n].PC)
         /\ Alone[f][n + 1].PSW = Flags(Text[f], Alone[f][n].PC)
<1> DEFINE a == Alone[f]
           L == Len(Text[f])
<1>1. L \in Nat \ {0}
  <2>1. Text[f] \in Seq(STRING)
    BY ProcessorAssumption
  <2> QED
    BY <2>1
<1>2. \A m \in 1 .. L : a[m] = Step(a[m - 1])
  BY AloneSteps
<1>3. \A m \in 0 .. L : Executes(a[m], f) /\ (Over(a[m]) \/ a[m].PC >= m)
  BY AloneAhead
<1>4. ASSUME NEW m \in 0 .. L, ~ Over(a[m]), m < L
      PROVE  /\ a[m + 1].PC = NextPC(Text[f], a[m].PC)
             /\ a[m + 1].PSW = Flags(Text[f], a[m].PC)
  <2>1. m + 1 \in 1 .. L /\ (m + 1) - 1 = m
    BY <1>1, <1>4
  <2>2. a[m + 1] = Step(a[m])
    BY <1>2, <2>1
  <2>3. Executes(a[m], f)
    BY <1>3
  <2> HIDE DEF a
  <2> QED
    BY <1>4, <2>2, <2>3, OneStepAlone
<1>5. ASSUME ~ Over(a[L]) PROVE FALSE
  <2>1. L - 1 \in 0 .. L /\ (L - 1) + 1 = L /\ L - 1 < L
    BY <1>1
  <2>2. ~ Over(a[L - 1])
    <3>1. Executes(a[L - 1], f) /\ a[L] = Step(a[L - 1])
      BY <1>1, <1>2, <1>3, <2>1
    <3> HIDE DEF a, L
    <3> QED
      BY <1>5, <3>1, OneStepAlone
  <2>3. a[L].PSW = Flags(Text[f], a[L - 1].PC)
    BY <1>4, <2>1, <2>2
  <2>4. a[L - 1].PC \in Nat /\ a[L - 1].PC >= L - 1
    BY <1>3, <2>1, <2>2 DEF Executes
  <2>5. a[L].PSW = {"EXCEPTION", "ABNORMAL"}
    BY <2>3, <2>4 DEF Flags
  <2> QED
    BY <1>5, <2>5 DEF Over
<1>6. n < L
  BY <1>1, <1>5
<1> QED
  BY <1>1, <1>4, <1>6

-----------------------------------------------------------------------------
(***************************************************************************)
(* The invariant about the order of a program.  The program counter of a   *)
(* process that lives, wherever it is, is one the program has alone before *)
(* it is over; the cpu holds the text of the process it runs for.          *)
(***************************************************************************)
OnTrack(f, pc) ==
  /\ f \in DOMAIN Text /\ Text[f] # <<>>
  /\ \E n \in 0 .. Len(Text[f]) : ~ Over(Alone[f][n]) /\ Alone[f][n].PC = pc

Order ==
  /\ HasRegs(cpu) /\ DOMAIN verdict = Procs
  /\ \A p \in Procs : HasRegs(context[p])
  /\ runningProc # NoProc =>
       Alive(runningProc) /\ cpu.text = context[runningProc].text
  /\ \A p \in Procs : Alive(p) => OnTrack(context[p].text, PCOf(p))

\* ProgramOrder says this of every step.
Advances(p) ==
  \E n \in 0 .. Len(Text[context[p].text]) - 1 :
    /\ PCOf(p) = Alone[context[p].text][n].PC
    /\ PCOf(p)' \in {PCOf(p), Alone[context[p].text][n + 1].PC}

AllAdvance == \A p \in Procs : Alive(p) /\ Alive(p)' => Advances(p)

\* EndsAsAlone says this of every step.
EndsRight(p) ==
  LET end == Alone[context[p].text][Len(Text[context[p].text])] IN
  cpu'.PC = end.PC /\ verdict'[p] = Reason(end)

AllEndRight ==
  \A p \in Procs :
    Alive(p) /\ life'[p] = "ended" /\ verdict'[p] # "no device" => EndsRight(p)

LEMMA FreshOnTrack ==
  ASSUME NEW f \in DOMAIN Text, Text[f] # <<>>
  PROVE  OnTrack(f, 0)
<1>1. Alone[f][0] = InUserMode(Fresh(f))
  BY AloneSteps
<1>2. Alone[f][0].PC = 0 /\ ~ Over(Alone[f][0])
  BY <1>1 DEF InUserMode, Fresh, Over
<1>3. 0 \in 0 .. Len(Text[f])
  BY ProcessorAssumption
<1> QED
  BY <1>2, <1>3 DEF OnTrack

LEMMA InitOrder == Init => Order
<1> SUFFICES ASSUME Init PROVE Order
  OBVIOUS
<1>1. HasRegs(cpu) /\ DOMAIN verdict = Procs /\ \A p \in Procs : HasRegs(context[p])
  BY DEF Init, InUserMode, Fresh, HasRegs
<1>2. runningProc = NoProc
  BY DEF Init
<1>3. OnTrack(InitText, 0)
  BY FreshOnTrack, ProcessorAssumption
<1>4. \A p \in Procs : context[p].text = InitText /\ PCOf(p) = 0
  BY <1>2, ProcessorAssumption DEF Init, Fresh, PCOf
<1> QED
  BY <1>1, <1>2, <1>3, <1>4 DEF Order

\* The n-th instruction of the program of p is the one a tick executes.
IsStep(p, n) ==
  LET a == Alone[context[p].text] IN
  /\ ~ Over(a[n])
  /\ PCOf(p) = a[n].PC
  /\ Executed(p).PC = a[n + 1].PC
  /\ Executed(p).PSW = a[n + 1].PSW

LEMMA LoadedRegs ==
  ASSUME IInv, Order, NEW p \in Procs, life[p] = "ready"
  PROVE  \E r : /\ Load(p) = InUserMode(r)
                /\ r.PSW = {} /\ r.PC = PCOf(p) /\ r.text = context[p].text
<1>1. PSWOf(p) = {} /\ p # NoProc
  BY ProcessorAssumption DEF IInv, NoStrayFlags, Alive
<1>2. CASE runningProc = p
  BY <1>1, <1>2 DEF Load, PSWOf, PCOf, Order
<1>3. CASE runningProc # p
  <2> DEFINE r == [context[p] EXCEPT !.VC = context[p].PC]
  <2>1. Load(p) = InUserMode(r)
    BY <1>3 DEF Load
  <2>2. r.PSW = context[p].PSW /\ r.PC = context[p].PC /\ r.text = context[p].text
    BY DEF Order, HasRegs
  <2> HIDE DEF r
  <2> QED
    BY <1>1, <1>3, <2>1, <2>2 DEF PSWOf, PCOf
<1> QED
  BY <1>2, <1>3

LEMMA TickIsStep ==
  ASSUME IInv, Order, NEW p \in Procs, life[p] = "ready"
  PROVE  /\ HasRegs(Executed(p)) /\ Executed(p).text = context[p].text
         /\ \E n \in 0 .. Len(Text[context[p].text]) - 1 : IsStep(p, n)
<1> DEFINE f == context[p].text
           a == Alone[f]
<1>1. PICK r : /\ Load(p) = InUserMode(r)
               /\ r.PSW = {} /\ r.PC = PCOf(p) /\ r.text = f
  BY LoadedRegs
<1>2. PICK n \in 0 .. Len(Text[f]) : ~ Over(a[n]) /\ a[n].PC = PCOf(p)
  BY DEF Order, OnTrack, Alive
<1>3. f \in DOMAIN Text /\ Text[f] # <<>>
  BY DEF Order, OnTrack, Alive
<1>4. Len(Text[f]) \in Nat /\ r.PC \in Int
  <2>1. Executes(a[n], f)
    BY <1>3, AloneAhead
  <2> QED
    BY <1>1, <1>2, <1>3, <2>1, ProcessorAssumption DEF Executes
<1>5. /\ n \in 0 .. Len(Text[f]) - 1
      /\ a[n + 1].PC = NextPC(Text[f], PCOf(p))
      /\ a[n + 1].PSW = Flags(Text[f], PCOf(p))
  <2>1. /\ n \in 0 .. Len(Text[f]) - 1
        /\ a[n + 1].PC = NextPC(Text[f], a[n].PC)
        /\ a[n + 1].PSW = Flags(Text[f], a[n].PC)
    <3> HIDE DEF f
    <3> QED
      BY <1>2, <1>3, AloneContinues
  <2> QED
    BY <1>2, <2>1
<1>6. /\ HasRegs(Executed(p)) /\ Executed(p).text = f
      /\ Executed(p).PC = NextPC(Text[f], PCOf(p))
      /\ Executed(p).PSW = Flags(Text[f], PCOf(p))
  <2> HIDE DEF f
  <2>1. Executed(p) = Run(InUserMode(r))
    BY <1>1 DEF Executed
  <2> QED
    BY <1>1, <1>4, <2>1, RunForm
<1>7. IsStep(p, n)
  BY <1>2, <1>5, <1>6 DEF IsStep
<1> QED
  BY <1>5, <1>6, <1>7

\* The contexts once p is in the cpu: the others' texts and places are as before.
LEMMA StoredPlaces ==
  ASSUME IInv, Order, NEW p \in Procs, NEW q \in Procs
  PROVE  /\ HasRegs(Store(p)[q])
         /\ Store(p)[q].text = context[q].text
         /\ q # p => Store(p)[q].PC = PCOf(q)
<1>1. CASE runningProc \in {p, NoProc}
  BY <1>1, ProcessorAssumption DEF Store, PCOf, Order
<1>2. CASE runningProc \notin {p, NoProc}
  <2> DEFINE r == runningProc
             s == [[[context[r] EXCEPT !.PC = cpu.PC] EXCEPT !.VC = cpu.VC]
                     EXCEPT !.PSW = cpu.PSW]
  <2>1. r \in Procs /\ DOMAIN context = Procs
    BY <1>2 DEF IInv, Shape
  <2>2. HasRegs(s) /\ s.PC = cpu.PC /\ s.text = context[r].text
    BY <2>1 DEF HasRegs, Order
  <2>3. Store(p) = [context EXCEPT ![r] = s]
    BY <1>2, <2>1 DEF Store
  <2> HIDE DEF s
  <2> QED
    BY <1>2, <2>1, <2>2, <2>3 DEF PCOf, Order
<1> QED
  BY <1>1, <1>2

LEMMA StayingAdvances ==
  ASSUME Order, NEW q \in Procs, Alive(q), PCOf(q)' = PCOf(q)
  PROVE  Advances(q)
<1> DEFINE f == context[q].text
<1>1. PICK n \in 0 .. Len(Text[f]) : ~ Over(Alone[f][n]) /\ Alone[f][n].PC = PCOf(q)
  BY DEF Order, OnTrack
<1>2. f \in DOMAIN Text /\ Text[f] # <<>>
  BY DEF Order, OnTrack
<1>3. n \in 0 .. Len(Text[f]) - 1
  <2> HIDE DEF f
  <2> QED
    BY <1>1, <1>2, AloneContinues
<1> QED
  BY <1>1, <1>3 DEF Advances

\* A process that is not the one of the tick.
LEMMA OthersStay ==
  ASSUME IInv, Order, NEW p \in Procs, NEW q \in Procs \ {p}, Alive(q),
         context'[q] = Store(p)[q], runningProc' \in {p, NoProc}
  PROVE  /\ OnTrack(context'[q].text, PCOf(q)') /\ HasRegs(context'[q])
         /\ Advances(q)
<1>1. /\ HasRegs(context'[q]) /\ context'[q].text = context[q].text
      /\ context'[q].PC = PCOf(q)
  BY StoredPlaces
<1>2. PCOf(q)' = PCOf(q)
  BY <1>1, ProcessorAssumption DEF PCOf
<1> QED
  BY <1>1, <1>2, StayingAdvances DEF Order

\* The process of the tick, when it goes on.
LEMMA GoesOn ==
  ASSUME IInv, Order, NEW p \in Procs, life[p] = "ready",
         NEW flag \in {"FINISHED", "SYSCALL"}, flag \in Executed(p).PSW,
         cpu' = Clear(Executed(p), flag), context'[p] = Store(p)[p],
         runningProc' = p
  PROVE  /\ HasRegs(cpu') /\ HasRegs(context'[p]) /\ cpu'.text = context'[p].text
         /\ OnTrack(context'[p].text, PCOf(p)')
         /\ Advances(p)
<1> DEFINE f == context[p].text
           a == Alone[f]
<1>1. /\ HasRegs(Executed(p)) /\ Executed(p).text = f
      /\ \E n \in 0 .. Len(Text[f]) - 1 : IsStep(p, n)
  BY TickIsStep
<1>2. PICK n \in 0 .. Len(Text[f]) - 1 : IsStep(p, n)
  BY <1>1
<1>3. HasRegs(context'[p]) /\ context'[p].text = f
  BY StoredPlaces
<1>4. HasRegs(cpu') /\ cpu'.text = f /\ cpu'.PC = Executed(p).PC
  <2> DEFINE c == Executed(p)
  <2>1. HasRegs(c) /\ c.text = f /\ cpu' = Clear(c, flag)
    BY <1>1
  <2> HIDE DEF c, f
  <2>2. HasRegs(cpu') /\ cpu'.text = f /\ cpu'.PC = c.PC
    BY <2>1 DEF Clear, HasRegs
  <2> QED
    BY <2>2 DEF c
<1>5. PCOf(p)' = a[n + 1].PC
  BY <1>2, <1>4 DEF PCOf, IsStep
<1>6. ~ Over(a[n + 1])
  <2>1. Executed(p).PSW = {flag}
    BY ExecutedOutcome DEF Outcomes
  <2> QED
    BY <1>2, <2>1 DEF IsStep, Over
<1>7. f \in DOMAIN Text /\ Text[f] # <<>> /\ Len(Text[f]) \in Nat
  BY ProcessorAssumption DEF Order, OnTrack, Alive
<1>8. n + 1 \in 0 .. Len(Text[f])
  BY <1>7
<1>9. OnTrack(f, PCOf(p)')
  <2> HIDE DEF f
  <2> QED
    BY <1>5, <1>6, <1>7, <1>8 DEF OnTrack, a
<1>10. Advances(p)
  BY <1>2, <1>5 DEF Advances, IsStep
<1> QED
  BY <1>3, <1>4, <1>9, <1>10

\* The process of the tick, when it ends: where and for what it would end alone.
LEMMA EndsForItsReason ==
  ASSUME IInv, Order, NEW p \in Procs, life[p] = "ready",
         {"EXCEPTION", "TERMINATE"} \cap Executed(p).PSW # {}
  PROVE  LET f == context[p].text IN
         /\ Executed(p).PC = Alone[f][Len(Text[f])].PC
         /\ Reason(Executed(p)) = Reason(Alone[f][Len(Text[f])])
<1> DEFINE f == context[p].text
           a == Alone[f]
<1>1. PICK n \in 0 .. Len(Text[f]) - 1 : IsStep(p, n)
  BY TickIsStep
<1>2. f \in DOMAIN Text /\ Text[f] # <<>> /\ Len(Text[f]) \in Nat
  BY ProcessorAssumption DEF Order, OnTrack, Alive
<1>3. Over(a[n + 1]) /\ n + 1 \in 0 .. Len(Text[f])
  BY <1>1, <1>2 DEF IsStep, Over
<1>4. a[Len(Text[f])] = a[n + 1]
  <2> HIDE DEF f
  <2> QED
    BY <1>2, <1>3, AloneStays
<1> QED
  BY <1>1, <1>4 DEF IsStep, Reason

LEMMA TickInOrder ==
  ASSUME IInv, Order, NEW p \in Procs, life[p] = "ready",
         NEW flag \in {"FINISHED", "SYSCALL"}, flag \in Executed(p).PSW,
         cpu' = Clear(Executed(p), flag), context' = Store(p),
         runningProc' = p, verdict' = verdict,
         life' \in {life, [life EXCEPT ![p] = "blocked"]}
  PROVE  Order' /\ AllAdvance /\ AllEndRight
<1>1. /\ HasRegs(cpu') /\ HasRegs(context'[p]) /\ cpu'.text = context'[p].text
      /\ OnTrack(context'[p].text, PCOf(p)')
      /\ Advances(p)
  BY GoesOn
<1>2. /\ Alive(p)'
      /\ \A q \in Procs : Alive(q)' => Alive(q)
      /\ \A q \in Procs : life'[q] = "ended" => life[q] = "ended"
  BY DEF IInv, Shape, Alive
<1>3. \A q \in Procs : HasRegs(context'[q]) /\ context'[q].text = context[q].text
  BY StoredPlaces
<1>4. ASSUME NEW q \in Procs, Alive(q)'
      PROVE  OnTrack(context'[q].text, PCOf(q)') /\ Advances(q)
  <2>1. CASE q = p
    BY <1>1, <2>1
  <2>2. CASE q # p
    BY <1>2, <1>4, <2>2, OthersStay
  <2> QED
    BY <2>1, <2>2
<1>5. AllEndRight
  BY <1>2 DEF AllEndRight, Alive
<1>6. DOMAIN verdict' = Procs
  BY DEF Order
<1>7. Order'
  BY <1>1, <1>2, <1>3, <1>4, <1>6 DEF Order
<1> QED
  BY <1>4, <1>5, <1>7 DEF AllAdvance

LEMMA EndInOrder ==
  ASSUME IInv, Order, NEW p \in Procs, life[p] = "ready", NEW why,
         CleanUp(p, why), HasRegs(cpu'),
         \/ why = "no device"
         \/ /\ why = Reason(Executed(p))
            /\ {"EXCEPTION", "TERMINATE"} \cap Executed(p).PSW # {}
            /\ cpu'.PC = Executed(p).PC
  PROVE  Order' /\ AllAdvance /\ AllEndRight
<1>1. /\ context' = Store(p) /\ runningProc' = NoProc
      /\ life' = [life EXCEPT ![p] = "ended"]
      /\ verdict' = [verdict EXCEPT ![p] = why]
  BY DEF CleanUp
<1>2. \A q \in Procs : HasRegs(context'[q]) /\ context'[q].text = context[q].text
  BY <1>1, StoredPlaces
<1>3. \A q \in Procs : Alive(q)' => Alive(q) /\ q # p
  BY <1>1 DEF IInv, Shape, Alive
<1>4. ASSUME NEW q \in Procs, Alive(q)'
      PROVE  OnTrack(context'[q].text, PCOf(q)') /\ Advances(q)
  BY <1>1, <1>3, <1>4, OthersStay
<1>5. ASSUME NEW q \in Procs, Alive(q), life'[q] = "ended", verdict'[q] # "no device"
      PROVE  EndsRight(q)
  <2>1. q = p
    BY <1>1, <1>5 DEF IInv, Shape, Alive
  <2>2. verdict'[q] = why
    BY <1>1, <2>1 DEF Order
  <2>3. why = Reason(Executed(p)) /\ cpu'.PC = Executed(p).PC
    BY <1>5, <2>2
  <2>4. {"EXCEPTION", "TERMINATE"} \cap Executed(p).PSW # {}
    BY <1>5, <2>2
  <2> QED
    BY <2>1, <2>2, <2>3, <2>4, EndsForItsReason DEF EndsRight
<1>6. AllEndRight
  BY <1>5 DEF AllEndRight
<1>7. DOMAIN verdict' = Procs
  BY <1>1 DEF Order
<1>8. Order'
  BY <1>1, <1>2, <1>4, <1>7 DEF Order
<1> QED
  BY <1>4, <1>6, <1>8 DEF AllAdvance

LEMMA CreateInOrder ==
  ASSUME IInv, Order, NEW p \in Procs, Creates(p)
  PROVE  Order' /\ AllAdvance /\ AllEndRight
<1> DEFINE g == CallOperand(p, 2)
<1>1. PICK q \in Procs :
        /\ life[q] = "none" /\ life' = [life EXCEPT ![q] = "ready"]
        /\ context' = [Store(p) EXCEPT ![q] = Fresh(g)]
  BY DEF Creates
<1>2. /\ life[p] = "ready" /\ "SYSCALL" \in Executed(p).PSW
      /\ cpu' = Clear(Executed(p), "SYSCALL")
      /\ runningProc' = p /\ verdict' = verdict
      /\ g \in DOMAIN Text /\ Text[g] # <<>>
  BY DEF Creates, Called, Has, SysCallDone, CanCreate
<1> HIDE DEF g
<1>3. DOMAIN Store(p) = Procs /\ p # q
  BY <1>1, <1>2, StoredFlags
<1>4. /\ context'[q] = Fresh(g)
      /\ \A r \in Procs \ {q} : context'[r] = Store(p)[r]
  BY <1>1, <1>3
<1>5. /\ HasRegs(cpu') /\ HasRegs(context'[p]) /\ cpu'.text = context'[p].text
      /\ OnTrack(context'[p].text, PCOf(p)')
      /\ Advances(p)
  <2>1. context'[p] = Store(p)[p]
    BY <1>3, <1>4
  <2> QED
    BY <1>2, <2>1, GoesOn
<1>6. /\ ~ Alive(q) /\ Alive(p)'
      /\ \A r \in Procs \ {q} : (Alive(r)' => Alive(r))
      /\ \A r \in Procs : life'[r] = "ended" => life[r] = "ended" /\ r # q
  BY <1>1, <1>2, <1>3 DEF IInv, Shape, Alive
<1>7. \A r \in Procs \ {q} : HasRegs(context'[r]) /\ context'[r].text = context[r].text
  BY <1>4, StoredPlaces
<1>8. HasRegs(context'[q]) /\ OnTrack(context'[q].text, PCOf(q)')
  <2>1. HasRegs(Fresh(g)) /\ Fresh(g).text = g /\ Fresh(g).PC = 0
    BY DEF Fresh, HasRegs
  <2>2. PCOf(q)' = 0
    BY <1>2, <1>3, <1>4, <2>1 DEF PCOf
  <2> QED
    BY <1>2, <1>4, <2>1, <2>2, FreshOnTrack
<1>9. ASSUME NEW r \in Procs \ {q}, Alive(r)'
      PROVE  OnTrack(context'[r].text, PCOf(r)') /\ Advances(r)
  <2>1. CASE r = p
    BY <1>5, <2>1
  <2>2. CASE r # p
    <3>1. Alive(r) /\ context'[r] = Store(p)[r]
      BY <1>4, <1>6, <1>9
    <3> QED
      BY <1>2, <2>2, <3>1, OthersStay
  <2> QED
    BY <2>1, <2>2
<1>10. AllEndRight
  BY <1>6 DEF AllEndRight, Alive
<1>11. DOMAIN verdict' = Procs
  BY <1>2 DEF Order
<1>12. Order'
  BY <1>2, <1>5, <1>6, <1>7, <1>8, <1>9, <1>11 DEF Order
<1> QED
  BY <1>6, <1>9, <1>10, <1>12 DEF AllAdvance

LEMMA NextOrder ==
  IInv /\ Order /\ [Next]_vars
    => Order' /\ ((AllAdvance /\ AllEndRight) \/ UNCHANGED vars)
<1> SUFFICES ASSUME IInv, Order, [Next]_vars
             PROVE  Order' /\ ((AllAdvance /\ AllEndRight) \/ UNCHANGED vars)
  OBVIOUS
<1>1. ASSUME NEW p \in Procs, Computes(p) PROVE Order' /\ AllAdvance /\ AllEndRight
  BY <1>1, TickInOrder DEF Computes, Has
<1>2. ASSUME NEW p \in Procs, CreatesNothing(p) \/ Blocks(p)
      PROVE  Order' /\ AllAdvance /\ AllEndRight
  <2>1. /\ life[p] = "ready" /\ "SYSCALL" \in Executed(p).PSW
        /\ cpu' = Clear(Executed(p), "SYSCALL") /\ context' = Store(p)
        /\ runningProc' = p /\ verdict' = verdict
        /\ life' \in {life, [life EXCEPT ![p] = "blocked"]}
    BY <1>2 DEF CreatesNothing, Blocks, Called, Has, SysCallDone
  <2> QED
    BY <2>1, TickInOrder
<1>3. ASSUME NEW p \in Procs, Creates(p) PROVE Order' /\ AllAdvance /\ AllEndRight
  BY <1>3, CreateInOrder
<1>4. ASSUME NEW p \in Procs, Faults(p) PROVE Order' /\ AllAdvance /\ AllEndRight
  <2>1. /\ life[p] = "ready" /\ "EXCEPTION" \in Executed(p).PSW
        /\ cpu' = Executed(p)
        /\ CleanUp(p, IF Has(p, "ABNORMAL") THEN "abnormal" ELSE "exception")
    BY <1>4 DEF Faults, Has
  <2>2. "TERMINATE" \notin Executed(p).PSW
    BY <2>1, ExecutedOutcome DEF Outcomes
  <2>3. (IF Has(p, "ABNORMAL") THEN "abnormal" ELSE "exception") = Reason(Executed(p))
    BY <2>1, <2>2 DEF Has, Reason
  <2>4. HasRegs(cpu')
    BY <2>1, TickIsStep
  <2>5. cpu'.PC = Executed(p).PC
    BY <2>1
  <2> QED
    BY <2>1, <2>3, <2>4, <2>5, EndInOrder
<1>5. ASSUME NEW p \in Procs, NoSuchDevice(p) PROVE Order' /\ AllAdvance /\ AllEndRight
  <2>1. life[p] = "ready" /\ cpu' = Clear(Executed(p), "SYSCALL")
        /\ CleanUp(p, "no device")
    BY <1>5 DEF NoSuchDevice, Called, Has, SysCallDone
  <2>2. HasRegs(cpu')
    <3>1. HasRegs(Executed(p))
      BY <2>1, TickIsStep
    <3> QED
      BY <2>1, <3>1 DEF Clear, HasRegs
  <2> QED
    BY <2>1, <2>2, EndInOrder
<1>6. ASSUME NEW p \in Procs, Terminates(p) PROVE Order' /\ AllAdvance /\ AllEndRight
  <2>1. /\ life[p] = "ready" /\ "TERMINATE" \in Executed(p).PSW
        /\ cpu' = [Executed(p) EXCEPT !.VC = 0] /\ CleanUp(p, "end")
    BY <1>6 DEF Terminates, Has
  <2>2. HasRegs(cpu') /\ cpu'.PC = Executed(p).PC
    <3>1. HasRegs(Executed(p))
      BY <2>1, TickIsStep
    <3> QED
      BY <2>1, <3>1 DEF HasRegs
  <2>3. Reason(Executed(p)) = "end"
    BY <2>1 DEF Reason
  <2> QED
    BY <2>1, <2>2, <2>3, EndInOrder
<1>7. ASSUME NEW p \in Procs, Unblock(p) PROVE Order' /\ AllAdvance /\ AllEndRight
  <2>1. /\ \A q \in Procs : (Alive(q)' <=> Alive(q))
        /\ \A q \in Procs : life'[q] = "ended" <=> life[q] = "ended"
        /\ runningProc' \in Procs \cup {NoProc}
    BY <1>7 DEF Unblock, Alive, IInv, Shape
  <2>2. \A q \in Procs : PCOf(q)' = PCOf(q)
    BY <1>7 DEF Unblock, PCOf
  <2>3. AllAdvance
    BY <2>2, StayingAdvances DEF AllAdvance
  <2>4. AllEndRight
    BY <2>1 DEF AllEndRight, Alive
  <2>5. \A q \in Procs : Alive(q)' => OnTrack(context'[q].text, PCOf(q)')
    BY <1>7, <2>1, <2>2 DEF Unblock, Order
  <2> QED
    BY <1>7, <2>1, <2>3, <2>4, <2>5 DEF Unblock, Order
<1>8. CASE UNCHANGED vars
  BY <1>8 DEF vars, Order, PCOf, Alive, OnTrack
<1> QED
  BY <1>1, <1>2, <1>3, <1>4, <1>5, <1>6, <1>7, <1>8 DEF Next

\* Whatever programs run beside it and however they are scheduled, a program ends
\* where and as it would alone on the cpu: at its E, at its first fault or behind
\* its text.
THEOREM SpecEndsAsAlone == Spec => EndsAsAlone
<1>1. AllEndRight => \A p \in Procs :
        Alive(p) /\ life'[p] = "ended" /\ verdict'[p] # "no device" =>
          LET end == Alone[context[p].text][Len(Text[context[p].text])] IN
          cpu'.PC = end.PC /\ verdict'[p] = Reason(end)
  BY DEF AllEndRight, EndsRight
<1> QED
  BY <1>1, InitIInv, NextIInv, InitOrder, NextOrder, PTL DEF Spec, EndsAsAlone

\* No tick of the kernel moves a program otherwise than by its next instruction,
\* and none moves a program that is not the one in the cpu.
THEOREM SpecProgramOrder == Spec => ProgramOrder
<1>1. AllAdvance => \A p \in Procs : Alive(p) /\ Alive(p)' =>
        \E n \in 0 .. Len(Text[context[p].text]) - 1 :
          /\ PCOf(p) = Alone[context[p].text][n].PC
          /\ PCOf(p)' \in {PCOf(p), Alone[context[p].text][n + 1].PC}
  BY DEF AllAdvance, Advances
<1> QED
  BY <1>1, InitIInv, NextIInv, InitOrder, NextOrder, PTL DEF Spec, ProgramOrder
=============================================================================
