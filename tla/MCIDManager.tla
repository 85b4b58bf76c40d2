---------------------------- MODULE MCIDManager ----------------------------
(***************************************************************************)
(* IDManager with five IDs, of which the last plays UINT_MAX.              *)
(***************************************************************************)
EXTENDS IDManager
=============================================================================
