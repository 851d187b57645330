--------------------------- MODULE BotOperations ---------------------------
(***************************************************************************)
(* Typed operations on the application of one running bot                  *)
(* (portal/bot_operations.py): loading, unloading and reloading cogs and   *)
(* synchronizing commands.  They share the per-bot lock of the             *)
(* supervisor's lifecycle operations, which appear here as the portal sees *)
(* them: a record, its state and health evidence that lags behind it.      *)
(*                                                                         *)
(* Every action is a stretch of code between two awaits.  The catalogue's  *)
(* cogs have no dependencies, and a cog that may not be operated is        *)
(* refused before an operation exists.                                     *)
(***************************************************************************)
EXTENDS Naturals, FiniteSets

CONSTANTS
    Ops,     \* requests of the portal
    Kinds,   \* the kinds of operation requested
    Cogs,    \* the reloadable cogs of the bot's catalogue entry
    MaxInst  \* bound on the executions of the bot

AllKinds == {"load", "unload", "reload", "reload_all", "sync"}
CogKinds == {"load", "unload", "reload"}

ASSUME OperationsAssumption ==
    /\ Kinds \subseteq AllKinds /\ MaxInst \in Nat
    /\ Cogs # {} /\ Ops \cap {"free", "lifecycle"} = {}

VARIABLES
    rec,     \* the supervisor's record: instance and state
    alive,   \* does the process of the record's instance live?
    loaded,  \* the cogs loaded in it
    evid,    \* health evidence: instance, running, fresh READY heartbeat
    lock,    \* the per-bot lock: "free", "lifecycle" or the operation
    op       \* operation records and the coroutines that work on them

vars == <<rec, alive, loaded, evid, lock, op>>

NoOp == [kind |-> "sync", cog |-> CHOOSE c \in Cogs : TRUE, pc |-> "new",
         inst |-> 0, status |-> "none", completed |-> FALSE,
         todo |-> {}, failed |-> FALSE]

---------------------------------------------------------------------------
(* What the prerequisites read.                                            *)

VerifiedByInstance(o) == rec.inst = op[o].inst   \* mutant

\* Health evidence allows the operation, for the instance on record.
EvidenceAllows(kind) ==
    /\ evid.running
    /\ kind = "sync" => evid.ready
    /\ rec.inst = evid.inst

\* _verify_instance: the recorded instance still runs.
Verified(o) == rec.inst = op[o].inst /\ rec.state = "RUNNING"

Becomes(o, new) == op' = [op EXCEPT ![o] = new]

\* The lock is released without _fail or _complete.
Abandon(o) == Becomes(o, [op[o] EXCEPT !.pc = "over"])

Complete(o, status) ==
    Becomes(o, [op[o] EXCEPT !.pc = "over", !.status = status, !.completed = TRUE])


FailTyped(o) == Complete(o, "error")   \* mutant
Fail(o) == Complete(o, "failed")

KeepLock(o) == UNCHANGED lock   \* mutant
Release(o) == lock' = "free"

---------------------------------------------------------------------------
(* The portal's coroutines.                                                *)

\* _prerequisites up to its await of the health store.
Request(o, kind, cog) ==
    /\ op[o].pc = "new"
    /\ rec.state = "RUNNING"
    /\ Becomes(o, [op[o] EXCEPT !.pc = "health", !.kind = kind, !.cog = cog])
    /\ UNCHANGED <<rec, alive, loaded, evid, lock>>

Refused(o) ==
    /\ op[o].pc = "health"
    /\ ~EvidenceAllows(op[o].kind)
    /\ Becomes(o, [op[o] EXCEPT !.pc = "over"])
    /\ UNCHANGED <<rec, alive, loaded, evid, lock>>

Unlocked(o) == lock = "free"

\* The evidence suffices: _begin and _lock, which do not await anything.
BeginLocked(o) ==
    /\ op[o].pc = "health"
    /\ EvidenceAllows(op[o].kind)
    /\ ~Unlocked(o)
    /\ Becomes(o, [op[o] EXCEPT !.pc = "over", !.inst = evid.inst,
                                !.status = "failed", !.completed = TRUE])
    /\ UNCHANGED <<rec, alive, loaded, evid, lock>>

Begin(o) ==
    /\ op[o].pc = "health"
    /\ EvidenceAllows(op[o].kind)
    /\ Unlocked(o)
    /\ lock' = o
    /\ Becomes(o, [op[o] EXCEPT !.pc = IF op[o].kind \in CogKinds THEN "list" ELSE "call",
                                !.inst = evid.inst, !.status = "running",
                                !.todo = IF op[o].kind = "reload_all" THEN Cogs
                                         ELSE {op[o].cog}])
    /\ UNCHANGED <<rec, alive, loaded, evid>>

\* The bot answers a call only while its process lives.
Reaches(o) == alive /\ rec.inst = op[o].inst

\* list_loaded_cogs, then the checks of _cog_operation.
Lists(o) ==
    /\ op[o].pc = "list"
    /\ IF Reaches(o) /\ (op[o].cog \in loaded <=> op[o].kind # "load")
       THEN Becomes(o, [op[o] EXCEPT !.pc = "call"]) /\ UNCHANGED lock
       ELSE Fail(o) /\ Release(o)
    /\ UNCHANGED <<rec, alive, loaded, evid>>

\* The bot performs the call; its answer is on the way.
Performs(o, c) ==
    /\ op[o].pc = "call"
    /\ c \in op[o].todo
    /\ Reaches(o)
    /\ loaded' = CASE op[o].kind = "load" -> loaded \cup {c}
                   [] op[o].kind = "unload" -> loaded \ {c}
                   [] OTHER -> loaded
    /\ Becomes(o, [op[o] EXCEPT !.pc = "answer", !.todo = @ \ {c}])
    /\ UNCHANGED <<rec, alive, evid, lock>>

\* The adapter raises: the extension fails, or the process is gone.
\* Reload-all counts the failure and goes on.
Raises(o, c) ==
    /\ op[o].pc = "call"
    /\ c \in op[o].todo
    /\ IF op[o].kind = "reload_all" /\ op[o].todo # {c}
       THEN /\ Becomes(o, [op[o] EXCEPT !.todo = @ \ {c}, !.failed = TRUE])
            /\ UNCHANGED lock
       ELSE /\ IF op[o].kind = "reload_all" THEN Complete(o, "partial") ELSE Fail(o)
            /\ Release(o)
    /\ UNCHANGED <<rec, alive, loaded, evid>>

\* The answer arrives and the instance is verified.  sync_commands re-raises a
\* changed instance without _fail.
Answers(o) ==
    /\ op[o].pc = "answer"
    /\ IF ~Verified(o)
       THEN (IF op[o].kind = "sync" THEN Abandon(o) ELSE Fail(o)) /\ Release(o)
       ELSE IF op[o].todo # {}
       THEN Becomes(o, [op[o] EXCEPT !.pc = "call"]) /\ UNCHANGED lock
       ELSE Complete(o, IF op[o].failed THEN "partial" ELSE "succeeded") /\ Release(o)
    /\ UNCHANGED <<rec, alive, loaded, evid>>

---------------------------------------------------------------------------
(* The supervisor.                                                         *)

NoEvidence == [inst |-> rec.inst, running |-> FALSE, ready |-> FALSE]

StartBegins ==
    /\ lock = "free"
    /\ rec.state \in {"OFFLINE", "CRASHED"}
    /\ rec.inst < MaxInst
    /\ lock' = "lifecycle"
    /\ rec' = [inst |-> rec.inst + 1, state |-> "STARTING"]
    /\ alive' = TRUE
    /\ loaded' = Cogs
    /\ UNCHANGED <<evid, op>>

StartEnds ==
    /\ rec.state = "STARTING"
    /\ lock' = "free"
    /\ IF alive
       THEN /\ rec' = [rec EXCEPT !.state = "RUNNING"]
            /\ evid' = [inst |-> rec.inst, running |-> TRUE, ready |-> FALSE]
       ELSE rec' = [rec EXCEPT !.state = "CRASHED"] /\ UNCHANGED evid
    /\ UNCHANGED <<alive, loaded, op>>

StopBegins ==
    /\ lock = "free"
    /\ rec.state = "RUNNING"
    /\ alive
    /\ lock' = "lifecycle"
    /\ rec' = [rec EXCEPT !.state = "STOPPING"]
    /\ UNCHANGED <<alive, loaded, evid, op>>

StopEnds ==
    /\ rec.state = "STOPPING"
    /\ ~alive
    /\ lock' = "free"
    /\ rec' = [rec EXCEPT !.state = "OFFLINE"]
    /\ evid' = NoEvidence
    /\ UNCHANGED <<alive, loaded, op>>

ProcessExits ==
    /\ alive
    /\ alive' = FALSE
    /\ UNCHANGED <<rec, loaded, evid, lock, op>>

\* _process_exited changes the record, then awaits the health store.
ExitNoticed ==
    /\ rec.state = "RUNNING" /\ ~alive
    /\ rec' = [rec EXCEPT !.state = "CRASHED"]
    /\ UNCHANGED <<alive, loaded, evid, lock, op>>

ExitRecorded ==
    /\ rec.state = "CRASHED" /\ evid.running /\ evid.inst = rec.inst
    /\ evid' = NoEvidence
    /\ UNCHANGED <<rec, alive, loaded, lock, op>>

\* A heartbeat of the running instance, or its expiry.
ReadyChanges ==
    /\ evid.running
    /\ evid' = [evid EXCEPT !.ready = ~@]
    /\ UNCHANGED <<rec, alive, loaded, lock, op>>

---------------------------------------------------------------------------
Init ==
    /\ rec = [inst |-> 0, state |-> "OFFLINE"]
    /\ alive = FALSE
    /\ loaded = {}
    /\ evid = [inst |-> 0, running |-> FALSE, ready |-> FALSE]
    /\ lock = "free"
    /\ op = [o \in Ops |-> NoOp]

Coroutine(o) ==
    \/ Refused(o) \/ BeginLocked(o) \/ Begin(o) \/ Lists(o) \/ Answers(o)
    \/ \E c \in Cogs : Performs(o, c) \/ Raises(o, c)

Lifecycle == StartBegins \/ StartEnds \/ StopBegins \/ StopEnds

Next ==
    \/ \E o \in Ops, kind \in Kinds, cog \in Cogs : Request(o, kind, cog)
    \/ \E o \in Ops : Coroutine(o)
    \/ Lifecycle
    \/ ProcessExits \/ ExitNoticed \/ ExitRecorded \/ ReadyChanges

Spec == Init /\ [][Next]_vars

\* Adapter calls return or raise: the control channel bounds them.
LiveSpec == Spec /\ \A o \in Ops : WF_vars(Coroutine(o))

---------------------------------------------------------------------------
(* Properties.                                                             *)

\* Every variable keeps its type.
TypeOK ==
    /\ rec \in [inst : 0 .. MaxInst,
                state : {"OFFLINE", "STARTING", "RUNNING", "STOPPING", "CRASHED"}]
    /\ alive \in BOOLEAN
    /\ loaded \subseteq Cogs
    /\ evid \in [inst : 0 .. MaxInst, running : BOOLEAN, ready : BOOLEAN]
    /\ lock \in Ops \cup {"free", "lifecycle"}
    /\ op \in [Ops -> [kind : AllKinds, cog : Cogs,
                       pc : {"new", "health", "list", "call", "answer", "over"},
                       inst : 0 .. MaxInst,
                       status : {"none", "running", "succeeded", "partial", "failed"},
                       completed : BOOLEAN, todo : SUBSET Cogs, failed : BOOLEAN]]

Working(o) == op[o].pc \in {"list", "call", "answer"}

\* docs/portal/bot-operations.md: "restart versus reload/sync conflicts fail": no
\* execution of the bot begins or ends by a lifecycle operation, and no other
\* operation works, while an operation works on the instance it is bound to.
WorksOnItsInstance ==
    \A o \in Ops : Working(o) =>
        /\ lock = o
        /\ rec.inst = op[o].inst
        /\ rec.state \in {"RUNNING", "CRASHED"}

\* An operation reported as succeeded took effect: at that moment its cog is
\* loaded (or not) as asked, in a process still on record as running.
SucceededTookEffect ==
    [][\A o \in Ops : op'[o].status = "succeeded" /\ op[o].status # "succeeded"
          => /\ rec.state = "RUNNING"
             /\ op[o].kind \in {"load", "reload"} => op[o].cog \in loaded
             /\ op[o].kind = "unload" => op[o].cog \notin loaded]_vars

\* The record of an operation on cogs that began says how and when it ended.  (A
\* synchronization whose adapter call fails re-raises before its record is closed.)
OverIsCompleted ==
    \A o \in Ops : op[o].pc = "over" /\ op[o].status # "none" /\ op[o].kind # "sync" =>
        op[o].completed /\ op[o].status \in {"succeeded", "partial", "failed"}

\* Every operation that began ends and frees the lock; one on cogs with a result.
OperationsEnd ==
    \A o \in Ops :
        Working(o) ~> (lock # o /\ (op[o].kind # "sync" => op[o].completed))
=============================================================================
