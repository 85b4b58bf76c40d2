----------------------------- MODULE IoControl -----------------------------
(***************************************************************************)
(* cIOControl (src/Project2/src/io_control.cpp): one queue of outputs per  *)
(* process, one queue of inputs, and per process one input that waits for  *)
(* an output.  Only the first of a queue is counted down; the others hold  *)
(* what they need on top of the one before them.                           *)
(*                                                                         *)
(* A context has its `job' (the page an input reads, or the one whose input *)
(* an output releases, or NoPage), the `time' left, and two things nobody  *)
(* acts on: `due', the VC the log promises for its end, and how many were  *)
(* `ahead'.                                                                *)
(***************************************************************************)
EXTENDS PageTable, SequencesExt

VARIABLES
  ioOut,      \* io_out
  ioIn,       \* io_in
  ioWait,     \* io_in_wait: the page to read, or NoPage
  ioTime,     \* io_time, pf_time of the settings
  finished    \* finishedPTE: pages whose input ended

ioVars == <<ioOut, ioIn, ioWait, finished, ioTime>>

IoInit(ticks) ==
  /\ ioTime = ticks
  /\ ioOut = [p \in Procs |-> <<>>]
  /\ ioIn = <<>>
  /\ ioWait = [p \in Procs |-> NoPage]
  /\ finished = <<>>

\* Variant: the time of the one before is not taken off.
ContextFull(job, queue, now) ==
  [job |-> job, time |-> ioTime, due |-> now + ioTime, ahead |-> Len(queue)]

\* A context for the end of `queue'.
Context(job, queue, now) ==
  [job   |-> job,
   time  |-> IF queue = <<>> THEN ioTime ELSE ioTime - Last(queue).time,
   due   |-> now + ioTime,
   ahead |-> Len(queue)]

-----------------------------------------------------------------------------
(***************************************************************************)
(* tick.  The first context is counted down; if that ends it, the next one *)
(* is counted down in the same tick, and so on.                            *)
(***************************************************************************)
EndingNow(queue) ==
  LET waits == SelectInSeq(queue, LAMBDA ctx : ctx.time > 1)
  IN  IF waits = 0 THEN Len(queue) ELSE waits - 1

CountedDown(queue) ==
  LET rest == SubSeq(queue, EndingNow(queue) + 1, Len(queue))
  IN  IF rest = <<>> THEN rest ELSE [rest EXCEPT ![1].time = @ - 1]

\* The process whose input an output releases; an output is named <<queue, place>>.
Owner(c) == ioOut[c[1]][c[2]].job[1]

\* The outputs that end now and release an input.
Releasing ==
  {c \in UNION {{p} \X (1 .. EndingNow(ioOut[p])) : p \in Procs} :
     ioOut[c[1]][c[2]].job # NoPage /\ ioWait[Owner(c)] # NoPage}

Before(c, d) == c[1] < d[1] \/ (c[1] = d[1] /\ c[2] < d[2])

\* They, in the order in which tick comes to them.
ReleaseOrders ==
  {order \in SetToSeqs(Releasing) :
     \A j, k \in DOMAIN order : j < k => Before(order[j], order[k])}

\* removeWait, for each of them.  As each takes off the time of the one before
\* it, their times alternate.
RemoveWait(order) ==
  LET first == Context(NoPage, ioIn, VC + 1).time
  IN  ioIn \o [k \in 1 .. Len(order) |->
                 [job   |-> ioWait[Owner(order[k])],
                  time  |-> IF k % 2 = 1 THEN first ELSE ioTime - first,
                  due   |-> VC + 1 + ioTime,
                  ahead |-> Len(ioIn) + k - 1]]

\* The VC moves on and the I/O with it; inputs that end set the page up.
Tick ==
  \E order \in ReleaseOrders :
    LET inputs == RemoveWait(order)
        ending == [i \in 1 .. EndingNow(inputs) |-> inputs[i].job]
        ended  == ToSet(ending)
    IN  /\ VC' = VC + 1
        /\ ioOut' = [p \in Procs |-> CountedDown(ioOut[p])]
        /\ ioWait' = [p \in Procs |-> IF \E c \in Releasing : Owner(c) = p
                                       THEN NoPage ELSE ioWait[p]]
        /\ ioIn' = CountedDown(inputs)
        /\ finished' = finished \o ending
        /\ present' = [pg \in Pages |-> pg \in ended \/ present[pg]]
        /\ dirty' = [pg \in Pages |-> pg \notin ended /\ dirty[pg]]
        /\ ref' = [pg \in Pages |-> pg \notin ended /\ ref[pg]]
        /\ timestamp' = [pg \in Pages |-> IF pg \in ended THEN VC + 1 ELSE timestamp[pg]]
        /\ UNCHANGED <<frame, time, ioTime>>

-----------------------------------------------------------------------------
(***************************************************************************)
(* The end of scheduleIO, for the three types of requests.                 *)
(***************************************************************************)
\* IO_OUT: `release' is the page whose input waits, or NoPage.
ScheduleOut(p, release) ==
  /\ ioOut' = [ioOut EXCEPT ![p] = Append(@, Context(release, @, VC))]
  /\ UNCHANGED <<ioIn, ioWait, finished, ioTime>>

\* IO_IN
ScheduleIn(pg) ==
  /\ ioIn' = Append(ioIn, Context(pg, ioIn, VC))
  /\ UNCHANGED <<ioOut, ioWait, finished, ioTime>>

\* IO_IN_WAIT; a second one of the same process throws (dumpIOError).
WaitThrows(pg) == ioWait[pg[1]] # NoPage

ScheduleWait(pg) ==
  /\ ioWait' = [ioWait EXCEPT ![pg[1]] = pg]
  /\ UNCHANGED <<ioOut, ioIn, finished, ioTime>>

-----------------------------------------------------------------------------
\* The VC at which the i-th context of a queue ends: each one behind the first
\* is counted down already in the tick in which the one before it ends.
EndsAt(queue, i) ==
  FoldLeft(LAMBDA sum, ctx : sum + (IF ctx.time > 1 THEN ctx.time - 1 ELSE 0),
           VC + queue[1].time, SubSeq(queue, 2, i))

Queues == {ioOut[p] : p \in Procs} \cup {ioIn}

\* The I/O controller logs when an I/O will complete.  It is up to two ticks early,
\* wherever it stands: one tick if it is behind another, whose last tick counts for
\* both, and one if an output released it, in a tick that counts for it already.  It
\* is late only with more than one other ahead of it, because no more than the time
\* of the one before it is taken off.
IoAsLogged ==
  \A queue \in Queues : \A i \in 1 .. Len(queue) :
    /\ queue[i].ahead <= 1 => EndsAt(queue, i) <= queue[i].due
    /\ EndsAt(queue, i) >= queue[i].due - (IF queue[i].ahead = 0 THEN 1 ELSE 2)
=============================================================================
