---------------------------- MODULE MCCardTurns ----------------------------
(***************************************************************************)
(* Instances of CardTurns for TLC.                                         *)
(***************************************************************************)
EXTENDS CardTurns, TLC
=============================================================================
