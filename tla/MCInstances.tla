----------------------------- MODULE MCInstances -----------------------------
(***************************************************************************)
(* What the portal and the supervisor believe of the executions of a bot,  *)
(* on small instances: the operations of two requests on a bot with two    *)
(* cogs, and the heartbeats of two executions.  The two modules share no   *)
(* state, so one configuration checks them side by side.                   *)
(***************************************************************************)
EXTENDS BotOperations, Heartbeat

VARIABLE part   \* the module a behaviour is about

Parts == {"operations", "heartbeats"}

InstancesVars == <<part, vars, beatVars>>

\* The others stay as they are.
Only(p) ==
    /\ part = p /\ part' = p
    /\ IF p = "operations" THEN TRUE ELSE UNCHANGED vars
    /\ IF p = "heartbeats" THEN TRUE ELSE UNCHANGED beatVars

\* Only the part that is run starts in any of its initial states.
InstancesInit ==
    /\ part \in Parts
    /\ Init
    /\ BeatInit

InstancesNext ==
    \/ Only("operations") /\ Next
    \/ Only("heartbeats") /\ BeatNext

At(p, action) == part = p /\ action
InstancesFairness ==
    /\ \A o \in Ops : WF_vars(At("operations", Coroutine(o)))
    /\ WF_beatVars(At("heartbeats", Reporter)) /\ WF_beatVars(At("heartbeats", Channel))
    /\ SF_beatVars(At("heartbeats", \E d \in flight : Delivered(d)))
    /\ WF_beatVars(At("heartbeats", GoesStale)) /\ WF_beatVars(At("heartbeats", GrowsOld))
    /\ WF_beatVars(At("heartbeats", StartRecorded)) /\ WF_beatVars(At("heartbeats", ExitEvidence))

InstancesSpec == InstancesInit /\ [][InstancesNext]_InstancesVars /\ InstancesFairness

InstancesTypeOK ==
    /\ part \in Parts
    /\ TypeOK
    /\ BeatTypeOK

\* ReadyIsShown and LossIsShown: the health shown follows the bot.
HealthIsShown == part = "heartbeats" => ReadyIsShown /\ LossIsShown

\* BeatOfItsInstance, NewestWins, OnlineReportedReady, WorksOnItsInstance and
\* OverIsCompleted: what is stored of heartbeats, shown for them and recorded of operations
\* is of the execution it was sent by or asked of.
BeliefsAreRight ==
    /\ BeatOfItsInstance /\ NewestWins /\ OnlineReportedReady
    /\ WorksOnItsInstance /\ OverIsCompleted
==============================================================================
