----------------------------- MODULE MCSupervisor -----------------------------
(* Instances of Supervisor for TLC: one bot, a few executions. *)
EXTENDS SupervisorSlots

CONSTANTS b1
=============================================================================
