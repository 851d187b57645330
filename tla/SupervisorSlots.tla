--------------------------- MODULE SupervisorSlots ---------------------------
(***************************************************************************)
(* The supervisor as an implementation of BotSlots.                        *)
(***************************************************************************)
EXTENDS Supervisor

LiveMap == [b \in Bots |-> {i \in Insts : proc[b][i] \in Live}]
UsedMap == [b \in Bots |-> {i \in Insts : proc[b][i] # "none"}]
SlotMap == [b \in Bots |-> IF ~up THEN "down"
                           ELSE IF SafelyOffline(rec[b]) THEN "free" ELSE "held"]

Slots == INSTANCE BotSlots WITH live <- LiveMap, used <- UsedMap, slot <- SlotMap

(* Every step of the supervisor, of a bot or of the kernel is a step of     *)
(* BotSlots or invisible there: between any two executions of a bot there   *)
(* is a moment with none, and the record knows it.                          *)
ImplementsSlots == Slots!Spec
=============================================================================
