------------------------------- MODULE IDPool -------------------------------
(***************************************************************************)
(* What cIDManager promises to its callers (id.h): an ID that is reserved  *)
(* belongs to nobody else, and a request only fails when every ID is in    *)
(* use.  Which of the free IDs is handed out is left open.                 *)
(***************************************************************************)
CONSTANT IDs        \* the IDs that can be reserved

VARIABLES held,     \* the IDs that are reserved
          answer,   \* what the last call returned: {id}, or {} for nothing
          threw     \* the last call ended in an exception

poolVars == <<held, answer, threw>>

PoolInit == held = {} /\ answer = {} /\ threw = FALSE

Reserve ==
  \E id \in IDs \ held :
    held' = held \cup {id} /\ answer' = {id} /\ threw' = FALSE

Refuse == held = IDs /\ answer' = {} /\ threw' = TRUE /\ UNCHANGED held

Return ==
  \E id \in held : held' = held \ {id} /\ answer' = {} /\ threw' = FALSE

PoolNext == Reserve \/ Refuse \/ Return

PoolSpec == PoolInit /\ [][PoolNext]_poolVars
=============================================================================
