-------------------------------- MODULE Vmm --------------------------------
(***************************************************************************)
(* Project 2, the virtual memory manager: the main loop (cVMM::start), the *)
(* cpu that runs the traces, the round-robin scheduler and the cleaning    *)
(* daemon, around the page tables, the frames, the I/O controller, the MMU *)
(* and the page replacement policies of the modules it extends.            *)
(*                                                                         *)
(* The program is one thread.  What it does between two ticks of the       *)
(* virtual counter is a step; ticks are steps of their own, because I/O    *)
(* goes on in them: `owed' counts those the cpu has to let pass before it  *)
(* goes on, `pending' the I/O requests, each of which lets some pass too.  *)
(* The traces are chosen line by line.  What the cpu makes of a second     *)
(* fault on one line (circularFaultCheck) is left out: see Misjudge.       *)
(***************************************************************************)
EXTENDS FrameAlloc, IoControl, Mmu, PageReplace

CONSTANTS
  Settings,      \* under test: the policy, total_frames, clean_min, cleanup_amnt,
                 \* tlb_size (not 0, addTLB would divide by it), pf_time, quanta, and
                 \* (a bound) how many lines are not the last
  InstrTime,     \* instr_time
  CsTime,        \* cs_time
  MaxReqTicks    \* bound: ticks of a request (see RequestTick)

ASSUME VmmAssumption ==
  /\ Settings \subseteq [policy : Policies, frames : Nat \ {0}, min : Nat,
                          amount : Nat, tlb : Nat \ {0}, io : Nat \ {0}, quanta : Nat \ {0},
                          lines : Nat]
  /\ InstrTime \in Nat /\ CsTime \in Nat
  /\ MaxReqTicks \in Nat

VARIABLES
  status,     \* "running", "done", "exception" or "undefined" (behaviour)
  pc, owed, pending, reqTicks,
  ready, running, blocked,   \* readyQueue, runningProc, blockedVector
  quanta, left,   \* cCPU::quanta, and the iterations that are left in run()
  line,       \* per process, the line it is at
  restart,    \* sProc::restart
  lines,      \* lines that may still be read before the last ones
  cleaning,   \* <<clean_min, cleanup_amnt>>
  unsaved,    \* history: pages last accessed by a write that memory alone has
  lost,       \* history: such a page was dropped without an output
  stale       \* history: the daemon returned the frame of a page that was gone

runVars   == <<pc, owed, left>>
setVars   == <<quanta, cleaning>>
reqVars   == <<pending, reqTicks>>
schedVars == <<ready, running, blocked>>
traceVars == <<line, restart, lines>>
histVars  == <<unsaved, lost, stale>>
vars == <<pageVars, VC, frameVars, ioVars, mmuVars, replaceVars, status, runVars,
          reqVars, schedVars, traceVars, setVars, histVars>>

Line(op, vpn, last) == [op |-> op, vpn |-> vpn, last |-> last]
NoLine == Line("none", 0, FALSE)

Accesses == {Line(op, v, last) : op \in {"R", "W"}, v \in VPNs, last \in BOOLEAN}

\* A request to the I/O controller; `release' as in an output.
Request(type, pg, release) == [type |-> type, page |-> pg, release |-> release]

Init ==
  /\ PageTableInit
  /\ status = "running" /\ pc = "loop" /\ owed = 0 /\ pending = <<>> /\ reqTicks = 0
  /\ ready = [p \in Procs |-> p] /\ running = NoProc /\ blocked = {}
  /\ line = [p \in Procs |-> NoLine] /\ restart = [p \in Procs |-> FALSE]
  /\ \E s \in Settings :
       /\ ReplaceInit(s.policy) /\ FrameInit(s.frames) /\ MmuInit(s.tlb)
       /\ IoInit(s.io)
       /\ cleaning = <<s.min, s.amount>> /\ lines = s.lines
       /\ quanta = s.quanta /\ left = s.quanta
  /\ unsaved = {} /\ lost = FALSE /\ stale = FALSE

-----------------------------------------------------------------------------
(***************************************************************************)
(* Ticks                                                                   *)
(***************************************************************************)
CpuTick ==
  /\ status = "running" /\ pending = <<>> /\ owed > 0
  /\ owed' = owed - 1
  /\ Tick
  /\ UNCHANGED <<frameVars, mmuVars, replaceVars, status, pc, left, reqVars,
                 schedVars, traceVars, setVars, histVars>>

\* scheduleIO lets ioreq_time ticks pass, but never initialises the counter of
\* that loop: any number of ticks may pass.
RequestTick ==
  /\ status = "running" /\ pending # <<>> /\ reqTicks < MaxReqTicks
  /\ reqTicks' = reqTicks + 1
  /\ Tick
  /\ UNCHANGED <<frameVars, mmuVars, replaceVars, status, runVars, pending,
                 schedVars, traceVars, setVars, histVars>>

\* The rest of scheduleIO.
Schedule ==
  /\ status = "running" /\ pending # <<>>
  /\ LET req == Head(pending)
     IN  /\ CASE req.type = "in"   -> ScheduleIn(req.page)
              [] req.type = "wait" -> ScheduleWait(req.page)
              [] req.type = "out"  -> ScheduleOut(req.page[1], req.release)
         /\ status' = IF req.type = "wait" /\ WaitThrows(req.page)
                      THEN "exception" ELSE status
  /\ pending' = Tail(pending)
  /\ reqTicks' = 0
  /\ UNCHANGED <<pageVars, VC, frameVars, mmuVars, replaceVars, runVars, schedVars,
                 traceVars, setVars, histVars>>

\* The program goes on at `at'.
At(at) == /\ status = "running" /\ pending = <<>> /\ owed = 0
          /\ pc = at

-----------------------------------------------------------------------------
(***************************************************************************)
(* The main loop                                                           *)
(***************************************************************************)
UnblockProcess(p) ==
  ready' = Append(ready, p) /\ blocked' = blocked \ {p} /\ UNCHANGED running

\* One input that ended: its process can run again, the policy learns of the
\* page, and its frame is no longer pinned.
Deliver ==
  /\ At("loop") /\ finished # <<>>
  /\ LET pg == Head(finished)
     IN  /\ UnblockProcess(pg[1])
         /\ FinishedIO(pg)
         /\ Unpin(frame[pg])
  /\ finished' = Tail(finished)
  /\ UNCHANGED <<pageVars, VC, ioOut, ioIn, ioWait, ioTime, mmuVars, status, runVars, reqVars,
                 traceVars, setVars, histVars>>

\* getNextToRun puts the process that ran at the end of the queue.
Queue == IF running = NoProc THEN ready ELSE Append(ready, running)

\* Everybody waits for I/O.
Idle ==
  /\ At("loop") /\ finished = <<>> /\ Queue = <<>> /\ blocked # {}
  /\ Tick
  /\ UNCHANGED <<frameVars, mmuVars, replaceVars, status, runVars, reqVars, schedVars,
                 traceVars, setVars, histVars>>

\* A switch costs time if somebody was on the cpu before.
Dispatch ==
  /\ At("loop") /\ finished = <<>> /\ Queue # <<>>
  /\ running' = Head(Queue) /\ ready' = Tail(Queue)
  /\ SwitchProc(Head(Queue))
  /\ owed' = IF curProc \in {NoProc, Head(Queue)} THEN 0 ELSE CsTime
  /\ left' = quanta
  /\ pc' = "fetch"
  /\ UNCHANGED <<VC, frameVars, ioVars, replaceVars, status, reqVars, blocked,
                 traceVars, setVars, histVars>>

\* numProcesses() is 0.
Finish ==
  /\ At("loop") /\ Queue = <<>> /\ blocked = {}
  /\ status' = "done"
  /\ UNCHANGED <<pageVars, VC, frameVars, ioVars, mmuVars, replaceVars, runVars,
                 reqVars, schedVars, traceVars, setVars, histVars>>

-----------------------------------------------------------------------------
(***************************************************************************)
(* cCPU::run                                                               *)
(***************************************************************************)
Restart ==
  /\ At("fetch") /\ restart[running]
  /\ restart' = [restart EXCEPT ![running] = FALSE]
  /\ owed' = InstrTime
  /\ pc' = "access"
  /\ UNCHANGED <<pageVars, VC, frameVars, ioVars, mmuVars, replaceVars, status, left,
                 reqVars, schedVars, line, lines, setVars, histVars>>

ReadLine ==
  /\ At("fetch") /\ ~ restart[running]
  /\ \E ln \in Accesses :
       /\ ln.last \/ lines > 0
       /\ line' = [line EXCEPT ![running] = ln]
       /\ lines' = IF ln.last THEN lines ELSE lines - 1
  /\ owed' = InstrTime
  /\ pc' = "access"
  /\ UNCHANGED <<pageVars, VC, frameVars, ioVars, mmuVars, replaceVars, status, left,
                 reqVars, schedVars, restart, setVars, histVars>>

\* A line that is too short, or whose operation is unknown, ends the quantum:
\* CPU_EX is treated as CPU_OK is, but the TLB has not been synced.
IllegalLine ==
  /\ At("fetch") /\ ~ restart[running] /\ lines > 0
  /\ line' = [line EXCEPT ![running] = Line("illegal", 0, FALSE)]
  /\ lines' = lines - 1
  /\ owed' \in {0, InstrTime}
  /\ pc' = "quantum"
  /\ unsaved' = unsaved \ {Page(tlb[i].vpn) : i \in {j \in Slots : tlb[j].valid}}
  /\ UNCHANGED <<pageVars, VC, frameVars, ioVars, mmuVars, replaceVars, status, left,
                 reqVars, schedVars, restart, setVars, lost, stale>>

\* The trace is empty, or its last line was illegal.
EndOfData ==
  /\ At("fetch") /\ ~ restart[running] /\ line[running].op \in {"none", "illegal"}
  /\ pc' = "ended"
  /\ UNCHANGED <<pageVars, VC, frameVars, ioVars, mmuVars, replaceVars, status, owed,
                 left, reqVars, schedVars, traceVars, setVars, histVars>>

\* getAddr found the page, in the TLB or in the table.
Access ==
  /\ At("access")
  /\ LET ln == line[running]
     IN  /\ TlbHit(ln.vpn, ln.op = "W") \/ PageWalk(ln.vpn, ln.op = "W")
         /\ unsaved' = IF ln.op = "W" THEN unsaved \cup {Page(ln.vpn)}
                       ELSE unsaved \ {Page(ln.vpn)}
         /\ pc' = CASE ln.last              -> "ended"
                    [] ~ ln.last /\ left = 1 -> "sync"
                    [] ~ ln.last /\ left > 1 -> "fetch"
         /\ left' = IF pc' = "fetch" THEN left - 1 ELSE left
  /\ UNCHANGED <<VC, frameVars, ioVars, replaceVars, status, owed, reqVars, schedVars,
                 traceVars, setVars, lost, stale>>

PageFault ==
  /\ At("access")
  /\ Fault(line[running].vpn)
  /\ restart' = [restart EXCEPT ![running] = TRUE]
  /\ pc' = "resolve"
  /\ UNCHANGED <<VC, frameVars, ioVars, replaceVars, status, owed, left, reqVars,
                 schedVars, line, lines, setVars, histVars>>

\* Variant: the TLB is not synced.
QuantumOverUnsynced ==
  /\ At("sync")
  /\ pc' = "quantum"
  /\ UNCHANGED <<pageVars, VC, frameVars, ioVars, mmuVars, replaceVars, status, owed,
                 left, reqVars, schedVars, traceVars, setVars, histVars>>

\* The loop in run() is over.
QuantumOver ==
  /\ At("sync")
  /\ SyncTLB(tlb)
  /\ pc' = "quantum"
  /\ UNCHANGED <<VC, frameVars, ioVars, mmuVars, replaceVars, status, owed, left,
                 reqVars, schedVars, traceVars, setVars, histVars>>

-----------------------------------------------------------------------------
(***************************************************************************)
(* What the main loop makes of the result                                  *)
(***************************************************************************)
FinishedQuanta ==
  /\ At("quantum")
  /\ UpdateTime
  /\ pc' = "clean"
  /\ UNCHANGED <<frame, present, dirty, timestamp, VC, frameVars, ioVars, mmuVars,
                 replaceVars, status, owed, left, reqVars, schedVars, traceVars,
                 setVars, histVars>>

\* The frames of the pages that are present go back, but the policy is not told.
CleanupProcess(p) ==
  LET held == {pg \in PagesOf(p) : present[pg]}
  IN  /\ ReturnFrames({frame[pg] : pg \in held}, Cardinality(held))
      /\ present' = [pg \in Pages |-> present[pg] /\ pg \notin held]
      /\ unsaved' = unsaved \ held

Terminate ==
  /\ At("ended")
  /\ CleanupProcess(running)
  /\ running' = NoProc
  /\ pc' = "clean"
  /\ UNCHANGED <<frame, dirty, ref, timestamp, time, VC, ioVars, mmuVars, replaceVars,
                 status, owed, left, reqVars, ready, blocked, traceVars, setVars,
                 lost, stale>>

Wanted == Page(line[running].vpn)

\* Variant: the blocked process stays the running one.
BlockInPlace == blocked' = blocked \cup {running} /\ UNCHANGED <<running, ready>>

Block == blocked' = blocked \cup {running} /\ running' = NoProc /\ UNCHANGED ready

\* Whether the cpu saw a circular fault is asked of a second variable `result'
\* that hides the first and has no value yet, so any fault may be answered by
\* resolveCircularPF, which does nothing: the process tries again.
Misjudge ==
  /\ At("resolve")
  /\ pc' = "clean"
  /\ UNCHANGED <<pageVars, VC, frameVars, ioVars, mmuVars, replaceVars, status, owed,
                 left, reqVars, schedVars, traceVars, setVars, histVars>>

\* resolvePageFault with a free frame: the page counts as present at once.
ResolveFree ==
  /\ At("resolve")
  /\ \E f \in Frames : GetFrame(f) /\ frame' = [frame EXCEPT ![Wanted] = f]
  /\ present' = [present EXCEPT ![Wanted] = TRUE]
  /\ UpdateTime
  /\ pending' = <<Request("in", Wanted, NoPage)>>
  /\ Block
  /\ pc' = "clean"
  /\ UNCHANGED <<dirty, timestamp, VC, ioVars, mmuVars, replaceVars, status, owed, left,
                 reqTicks, traceVars, setVars, histVars>>

\* ... with a page that has to go.  If it is dirty it is written out first, and
\* the input waits for that output.
ResolveVictim ==
  /\ At("resolve") /\ NoneFree /\ HasVictim(Updated)
  /\ \E i \in DOMAIN pageHist :
       LET out == pageHist[i]
       IN  /\ IsVictim(i, Updated)
           /\ WithoutVictim(i)
           /\ frame' = [frame EXCEPT ![Wanted] = frame[out]]
           /\ Pin(frame[out])
           /\ present' = [present EXCEPT ![out] = FALSE]
           /\ dirty' = [dirty EXCEPT ![out] = FALSE]
           /\ pending' = IF dirty[out]
                         THEN <<Request("wait", Wanted, NoPage),
                                Request("out", out, Wanted)>>
                         ELSE <<Request("in", Wanted, NoPage)>>
           /\ lost' = (lost \/ (out \in unsaved /\ ~ dirty[out]))
           /\ unsaved' = unsaved \ {out}
  /\ UpdateTime
  /\ Block
  /\ pc' = "clean"
  /\ UNCHANGED <<timestamp, VC, ioVars, mmuVars, policy, status, owed, left, reqTicks,
                 traceVars, setVars, stale>>

\* PR_NO_AVAIL: the process tries again.
ResolveNone ==
  /\ At("resolve") /\ NoneFree /\ pageHist = <<>>
  /\ pc' = "clean"
  /\ UNCHANGED <<pageVars, VC, frameVars, ioVars, mmuVars, replaceVars, status, owed,
                 left, reqVars, schedVars, traceVars, setVars, histVars>>

\* The policy runs off its list; or the context of the input comes from pageIn,
\* which has no return statement.
ResolveUndefined ==
  /\ At("resolve") /\ NoneFree /\ pageHist # <<>>
  /\ ~ HasVictim(Updated)
       \/ \E i \in DOMAIN pageHist : IsVictim(i, Updated) /\ dirty[pageHist[i]]
  /\ status' = "undefined"
  /\ UNCHANGED <<pageVars, VC, frameVars, ioVars, mmuVars, replaceVars, runVars,
                 reqVars, schedVars, traceVars, setVars, histVars>>

-----------------------------------------------------------------------------
(***************************************************************************)
(* The cleaning daemon                                                     *)
(***************************************************************************)
\* checkClean
ToClean == IF CheckOpen < cleaning[1] THEN cleaning[2] ELSE 0

NothingToClean ==
  /\ At("clean") /\ ToClean = 0
  /\ pc' = "loop"
  /\ UNCHANGED <<pageVars, VC, frameVars, ioVars, mmuVars, replaceVars, status, owed,
                 left, reqVars, schedVars, traceVars, setVars, histVars>>

\* clearPages, for the first pages of one of the orders.  It does not look
\* whether a page is present.
ClearPages ==
  /\ At("clean") /\ ToClean \in 1 .. Len(pageHist)
  /\ \E order \in ClearOrders :
       LET chosen == SubSeq(order, 1, ToClean)
           gone   == ToSet(chosen)
           saves  == Restrictions(chosen, {i \in 1 .. ToClean : dirty[chosen[i]]})
       IN  /\ present' = [pg \in Pages |-> present[pg] /\ pg \notin gone]
           /\ ref' = [pg \in Pages |-> ref[pg] /\ pg \notin gone]
           /\ dirty' = [pg \in Pages |-> dirty[pg] /\ pg \notin gone]
           /\ ReturnFrames({frame[pg] : pg \in gone}, ToClean)
           /\ pageHist' = SubSeq(order, ToClean + 1, Len(order))
           /\ \E toSave \in saves :
                pending' = [k \in DOMAIN toSave |-> Request("out", toSave[k], NoPage)]
           /\ lost' = (lost \/ \E pg \in gone \cap unsaved : ~ dirty[pg])
           /\ unsaved' = unsaved \ gone
           /\ stale' = (stale \/ \E pg \in gone : ~ present[pg])
  /\ pc' = "loop"
  /\ UNCHANGED <<frame, timestamp, time, VC, ioVars, mmuVars, policy, status, owed,
                 left, reqTicks, schedVars, traceVars, setVars>>

\* cVMMExc: more pages than there are.
ClearThrows ==
  /\ At("clean") /\ ToClean > Len(pageHist)
  /\ status' = "exception"
  /\ UNCHANGED <<pageVars, VC, frameVars, ioVars, mmuVars, replaceVars, runVars,
                 reqVars, schedVars, traceVars, setVars, histVars>>

-----------------------------------------------------------------------------
\* The program has ended.
Stopped == status # "running" /\ UNCHANGED vars

Next ==
  \/ CpuTick \/ RequestTick \/ Schedule
  \/ Deliver \/ Idle \/ Dispatch \/ Finish
  \/ Restart \/ ReadLine \/ IllegalLine \/ EndOfData
  \/ Access \/ PageFault \/ QuantumOver
  \/ FinishedQuanta \/ Terminate
  \/ Misjudge \/ ResolveFree \/ ResolveVictim \/ ResolveNone \/ ResolveUndefined
  \/ NothingToClean \/ ClearPages \/ ClearThrows
  \/ Stopped

Spec == Init /\ [][Next]_vars

-----------------------------------------------------------------------------
(***************************************************************************)
(* Properties                                                              *)
(***************************************************************************)
\* What the queues of the I/O controller, the TLB, the traces and the queue of
\* requests hold.
Contexts(jobs) == [job : jobs, time : Int, due : Int, ahead : Int]

Entries == [valid : BOOLEAN, vpn : VPNs, frame : Int, dirty : BOOLEAN, ref : BOOLEAN,
            timestamp : Int]

Lines == [op : {"R", "W", "none", "illegal"}, vpn : VPNs, last : BOOLEAN]

Requests == [type : {"in", "wait", "out"}, page : Pages, release : Pages \cup {NoPage}]

\* Every variable has its type: the queues hold what they are said to hold, no time
\* stamp is of the future, no reference bits leave their byte, and every frame
\* number is one.
TypeOK ==
  /\ VC \in Nat
  /\ frame \in [Pages -> Frames] /\ time \in [Pages -> 0 .. MaxTime]
  /\ present \in [Pages -> BOOLEAN] /\ dirty \in [Pages -> BOOLEAN]
  /\ ref \in [Pages -> BOOLEAN] /\ timestamp \in [Pages -> 0 .. VC]
  /\ numFrames \in Nat \ {0}
  /\ frames \subseteq Frames /\ pinned \subseteq Frames /\ openFrames \in Nat
  /\ ioTime \in Nat \ {0}
  /\ ioOut \in [Procs -> Seq(Contexts(Pages \cup {NoPage}))]
  /\ ioIn \in Seq(Contexts(Pages))
  /\ ioWait \in [Procs -> Pages \cup {NoPage}] /\ finished \in Seq(Pages)
  /\ tlb \in [Slots -> Entries] /\ replaceIndex \in Slots
  /\ \A i \in Slots : /\ tlb[i].timestamp \in 0 .. VC
                      /\ tlb[i].valid => tlb[i].frame \in Frames
  /\ curProc \in Procs \cup {NoProc}
  /\ policy \in Policies /\ pageHist \in Seq(Pages)
  /\ status \in {"running", "done", "exception", "undefined"}
  /\ pc \in {"loop", "fetch", "access", "sync", "quantum", "resolve", "ended", "clean"}
  /\ owed \in 0 .. (InstrTime + CsTime) /\ reqTicks \in 0 .. MaxReqTicks
  /\ pending \in Seq(Requests)
  /\ ready \in Seq(Procs) /\ blocked \subseteq Procs
  /\ running \in Procs \cup {NoProc}
  /\ quanta \in Nat \ {0} /\ left \in 1 .. quanta /\ cleaning \in Nat \X Nat
  /\ line \in [Procs -> Lines] /\ restart \in [Procs -> BOOLEAN] /\ lines \in Nat
  /\ unsaved \subseteq Pages /\ lost \in BOOLEAN /\ stale \in BOOLEAN

-----------------------------------------------------------------------------
Jobs(queue) == {queue[i].job : i \in 1 .. Len(queue)}

\* Pages on their way in.
InTransit ==
  Jobs(ioIn) \cup ToSet(finished) \cup ({ioWait[p] : p \in Procs} \ {NoPage})
    \cup {req.page : req \in {r \in ToSet(pending) : r.type # "out"}}

\* The places at which an input of a process can be.
Inputs(p) ==
  ({"queued"} \X {i \in DOMAIN ioIn : ioIn[i].job[1] = p})
    \cup ({"ended"} \X {i \in DOMAIN finished : finished[i][1] = p})
    \cup ({"waiting"} \X {q \in Procs : q = p /\ ioWait[q] # NoPage})
    \cup ({"asked"} \X {i \in DOMAIN pending :
                          pending[i].type # "out" /\ pending[i].page[1] = p})

\* The outputs that let it go.
Releases(p) ==
  ({NoProc} \X {i \in DOMAIN pending : pending[i].release[1] = p})
    \cup (UNION {{q} \X {i \in DOMAIN ioOut[q] : ioOut[q][i].job[1] = p} : q \in Procs})

AtMostOne(S) == \A a, b \in S : a = b

\* No process is in two places, and a process is blocked exactly while one page
\* of its is on its way in: no wakeup is lost and none comes twice, whatever
\* policy, daemon and other processes do to its pages.  An input that waits has
\* exactly one output that lets it go.
BlockedForOnePage ==
  /\ IsInjective(ready)
  /\ running \notin ToSet(ready) \cup blocked
  /\ blocked \cap ToSet(ready) = {}
  /\ \A p \in Procs :
       /\ AtMostOne(Inputs(p)) /\ (p \in blocked <=> Inputs(p) # {})
       /\ ioWait[p] # NoPage => AtMostOne(Releases(p)) /\ Releases(p) # {}

\* The frame allocator's three records agree with the page tables: every page in
\* memory or on its way has a frame of its own, no other frame is taken, the
\* frames of pages on their way are pinned, and openFrames counts the rest.
\* This ends when the daemon returns the frame of a page that was gone: the
\* policies keep the pages of a process that ended.
FramesSound ==
  ~ stale =>
    LET transit == InTransit
        held    == {pg \in Pages : present[pg]} \cup transit
    IN  /\ Cardinality({frame[pg] : pg \in held}) = Cardinality(held)
        /\ frames = {frame[pg] : pg \in held}
        /\ pinned = {frame[pg] : pg \in transit}
        /\ openFrames = numFrames - Cardinality(frames)

\* A page whose last access was a write is not dropped without an output,
\* wherever its dirty bit is at that moment: in the TLB, or in the page table.
\* (A read after the write clears the bit; so does an illegal line hide it.)
WritesKept == ~ lost

\* When the daemon asks for more pages than there are, FIFO says to check that the
\* threshold is less than the number of frames and the amount less than what is
\* left (pr_fifo.cpp:168).  Under each of the policies, settings that pass this
\* check never make the program stop, and nothing else does.  (The same message of
\* the other two, pr_lru.cpp:203 and pr_lruApprox.cpp:214, wants the threshold
\* "greater than the total frame cout": with such a threshold the program can stop.)
DaemonAdvice ==
  status = "exception" =>
    ~ (cleaning[1] < numFrames /\ cleaning[2] < numFrames - cleaning[1])
=============================================================================
