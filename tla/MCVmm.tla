------------------------------- MODULE MCVmm -------------------------------
(***************************************************************************)
(* An instance of Vmm for TLC.  The virtual counter only grows; states that *)
(* differ only in it are identified: due times are taken relative to it,   *)
(* and time stamps, which are only compared, by their rank.  (`evaluated'   *)
(* makes TLC compute the variables that the view shows in part.)           *)
(***************************************************************************)
EXTENDS Vmm

AllPolicies == {"fifo", "lru", "lru_approx"}

Setting(kind, total, min, amount, size, ticks, q, more) ==
  [policy |-> kind, frames |-> total, min |-> min, amount |-> amount, tlb |-> size,
   io |-> ticks, quanta |-> q, lines |-> more]

\* FIFO and LRU with a daemon that keeps to what FIFO advises, and enough lines to
\* fill all frames; a daemon that takes every page; no daemon, with a frame for
\* each process and with one for both.
MCSettings ==
  {Setting("fifo", 3, 1, 1, 1, 2, 1, 3), Setting("lru", 3, 1, 1, 1, 1, 1, 3),
   Setting("lru_approx", 2, 2, 2, 2, 3, 2, 2), Setting("lru", 2, 0, 0, 1, 3, 2, 2),
   Setting("lru_approx", 1, 0, 0, 2, 3, 1, 2)}

Relative(queue) == [i \in 1 .. Len(queue) |-> [queue[i] EXCEPT !.due = @ - VC]]

MCView ==
  LET stamps == {VC} \cup {timestamp[pg] : pg \in Pages}
                  \cup {tlb[i].timestamp : i \in Slots}
      rank   == [t \in stamps |-> Cardinality({s \in stamps : s < t})]
      evaluated == <<pageVars, ioVars, mmuVars>> = <<pageVars, ioVars, mmuVars>>
  IN  <<frame, present, dirty, ref, time, [pg \in Pages |-> rank[timestamp[pg]]],
        [i \in Slots |-> [tlb[i] EXCEPT !.timestamp = rank[@]]], rank[VC],
        replaceIndex, curProc, frameVars, replaceVars,
        [p \in Procs |-> Relative(ioOut[p])], Relative(ioIn), ioWait, finished,
        status, runVars, reqVars, schedVars, traceVars, setVars, histVars,
        evaluated>>
=============================================================================
