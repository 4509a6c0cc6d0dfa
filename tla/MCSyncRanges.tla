------------------------------ MODULE MCSyncRanges ------------------------------
(***************************************************************************)
(* POST /sync over the messages of several conversations, for TLC. There   *)
(* is no symmetry: one property is about liveness.                         *)
(***************************************************************************)
EXTENDS SyncRanges

Spec == RangesSpec
=============================================================================
