---------------------------- MODULE BoundedFifo ----------------------------
(***************************************************************************)
(* What the scullBuffer character device promises to its users: a FIFO of  *)
(* at most Capacity items in which every system call takes effect at one   *)
(* instant between its start and its return.  A write that finds the queue *)
(* full and a read that finds it empty return 0; a call that fails has no  *)
(* effect.  ScullBuffer implements this specification as long as no copy   *)
(* to or from user space fails and no read asks for zero bytes.            *)
(***************************************************************************)
EXTENDS Naturals, Sequences

CONSTANTS Producers,  \* processes that write; an item carries its producer
          Consumers,  \* processes that read
          Capacity    \* the number of items the device can hold

VARIABLES queue,      \* the items in the device, oldest first
          reply       \* what the last call of each process returned

fifoVars == <<queue, reply>>

Users == Producers \cup Consumers

Answer(u, r) == reply' = [reply EXCEPT ![u] = r]

FifoInit ==
  /\ queue = <<>>
  /\ reply = [u \in Users |-> "none"]

\* A process enters read() or write().
Begin(u) ==
  /\ reply[u] # "pending"
  /\ Answer(u, "pending")
  /\ UNCHANGED queue

Put(p) ==
  /\ reply[p] = "pending"
  /\ Len(queue) < Capacity
  /\ queue' = Append(queue, p)
  /\ Answer(p, "ok")

Get(c) ==
  /\ reply[c] = "pending"
  /\ queue # <<>>
  /\ queue' = Tail(queue)
  /\ Answer(c, Head(queue))

\* 0 is returned only when the device really is full, or really is empty.
RefusePut(p) ==
  /\ reply[p] = "pending"
  /\ Len(queue) = Capacity
  /\ Answer(p, "zero")
  /\ UNCHANGED queue

RefuseGet(c) ==
  /\ reply[c] = "pending"
  /\ queue = <<>>
  /\ Answer(c, "zero")
  /\ UNCHANGED queue

Fail(u) ==
  /\ reply[u] = "pending"
  /\ Answer(u, "error")
  /\ UNCHANGED queue

\* The process closes the device between two calls.
Leave(u) ==
  /\ reply[u] # "pending"
  /\ Answer(u, "none")
  /\ UNCHANGED queue

FifoNext ==
  \/ \E u \in Users : Begin(u) \/ Fail(u) \/ Leave(u)
  \/ \E p \in Producers : Put(p) \/ RefusePut(p)
  \/ \E c \in Consumers : Get(c) \/ RefuseGet(c)

FifoSpec == FifoInit /\ [][FifoNext]_fifoVars
=============================================================================
