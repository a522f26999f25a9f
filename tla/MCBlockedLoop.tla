--------------------------- MODULE MCBlockedLoop ---------------------------
(***************************************************************************)
(* BlockedLoop for TLC: every acyclic graph over three cards, every key    *)
(* order and every combination of statuses.                                *)
(***************************************************************************)
EXTENDS BlockedLoop
CONSTANTS a, b, c
=============================================================================
