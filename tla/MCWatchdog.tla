---------------------------- MODULE MCWatchdog ----------------------------
(***************************************************************************)
(* Instances of Watchdog for TLC.                                          *)
(***************************************************************************)
EXTENDS Watchdog

\* No signal, an overload under a quota that is not over, an error for good.
MCTails ==
  {[reset |-> NoReset, result |-> "fine"], [reset |-> 2, result |-> "overload"],
   [reset |-> NoReset, result |-> "permanent"]}
=============================================================================
