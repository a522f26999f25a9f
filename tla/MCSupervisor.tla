--------------------------- MODULE MCSupervisor ---------------------------
(***************************************************************************)
(* Instances of Supervisor for TLC.                                        *)
(***************************************************************************)
EXTENDS Supervisor

MCReasons == {"runner_done", "escalations_pending", "session_incomplete", "stalled",
              "permanent_api_error"}
MCCrowdedReasons == {"stalled", "permanent_api_error"}
=============================================================================
