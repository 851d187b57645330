------------------------------ MODULE Supervisor ------------------------------
(***************************************************************************)
(* The bot process supervisor: supervisor/service.py with its process      *)
(* controller (controller.py), durable record file (state.py) and the      *)
(* process half of the health evidence (health.py).                        *)
(*                                                                         *)
(* Each bot has at most one lifecycle operation at a time (the per-bot     *)
(* asyncio lock).  An action is the code between two suspension points of  *)
(* the event loop, so a whole run of straight-line code is one step.       *)
(* Executions of a bot are numbered 1..MaxInst: the number stands for the  *)
(* process_instance_id and for the pid the kernel gave that execution.     *)
(***************************************************************************)
EXTENDS Naturals, FiniteSets

CONSTANTS
    Bots,       \* registered bot ids
    Enabled,    \* those whose manifest enables them
    MaxInst,    \* bound on the executions of one bot
    Faults      \* which of FaultKinds the environment may produce

FaultKinds == {"pidreuse",  \* the kernel gives a reaped pid to another program
               "shutdown",  \* orderly supervisor restart with no operation running
               "midop",     \* orderly supervisor restart at any time
               "crash",     \* supervisor death at any time
               "idlecrash", \* supervisor death between operations
               "disk",      \* a save of the record file raises OSError
               "latepipe"}  \* a descendant keeps the output pipes open after an exit

ASSUME SupervisorAssumption ==
    /\ Enabled \subseteq Bots
    /\ MaxInst \in Nat
    /\ Faults \subseteq FaultKinds

VARIABLES
    proc,       \* what the kernel holds under the pid of each execution
    child,      \* SubprocessController._processes: executions with a waiter task
    up,         \* the supervisor runs and accepts operations
    rec,        \* SupervisorService._records
    file,       \* the record file
    op,         \* the operation holding the bot's lock and where it is suspended
    opStatus,   \* status of the bot's latest OperationRecord
    health,     \* process evidence last given to the HealthStore
    foreignHit  \* history: some signal reached a program that is not a bot

vars == <<proc, child, up, rec, file, op, opStatus, health, foreignHit>>

-----------------------------------------------------------------------------
Insts == 1..MaxInst

(* "dying" is alive with SIGKILL delivered; "gone" has been reaped;         *)
(* "foreign" is a reaped pid that another program now owns.                 *)
ProcStatus == {"none", "alive", "dying", "zombie", "gone", "foreign"}
Live == {"alive", "dying"}
Reaped == {"gone", "foreign"}

States == {"OFFLINE", "STARTING", "RUNNING", "STOPPING", "RESTARTING",
           "CRASHED", "UNKNOWN"}

(* ident abstracts (os_start_ticks, expected_argv): unset while the ticks   *)
(* are 0, "zombie" when argv was read after the exit and before the reap.   *)
Record == [inst: 0..MaxInst, pid: BOOLEAN, ident: {"unset", "live", "zombie"},
           st: States, adopted: BOOLEAN, expected: BOOLEAN, forced: BOOLEAN]

(* An absent record behaves like an OFFLINE one of no execution.            *)
NoRec == [inst |-> 0, pid |-> FALSE, ident |-> "unset", st |-> "OFFLINE",
          adopted |-> FALSE, expected |-> FALSE, forced |-> FALSE]
NextRec(i) == [NoRec EXCEPT !.inst = i + 1, !.st = "STARTING"]  \* mutant
NewRec(i) == [NoRec EXCEPT !.inst = i, !.st = "STARTING"]

(* The states _start_locked does not refuse.                                *)
OfflineOrStopping(r) == r.st \in {"OFFLINE", "CRASHED", "STOPPING"}  \* mutant
OfflineOrConflict(r) == r.st \in {"OFFLINE", "CRASHED", "UNKNOWN"}   \* mutant
SafelyOffline(r) == r.st \in {"OFFLINE", "CRASHED"}

(* The state _process_exited gives a record.                                *)
UnchangedByExit(expected) == IF expected THEN "OFFLINE" ELSE "RUNNING"  \* mutant
ExitState(expected) == IF expected THEN "OFFLINE" ELSE "CRASHED"

(* StateStore._encode: the state field is written but load overwrites it.   *)
Entry == [inst: 0..MaxInst, pid: BOOLEAN, ident: {"unset", "live", "zombie"}]
Encode(r) == [inst |-> r.inst, pid |-> r.pid, ident |-> r.ident]
EncodeAll(rs) == [b \in Bots |-> Encode(rs[b])]
Decode(e) == [inst |-> e.inst, pid |-> e.pid, ident |-> e.ident,
              st |-> "UNKNOWN", adopted |-> TRUE, expected |-> FALSE,
              forced |-> FALSE]

Evidence == [inst: 0..MaxInst, desired: {"running", "stopped"}, running: BOOLEAN,
             verified: BOOLEAN, unexpected: BOOLEAN, conflict: BOOLEAN]
NoEvidence == [inst |-> 0, desired |-> "stopped", running |-> FALSE,
               verified |-> FALSE, unexpected |-> FALSE, conflict |-> FALSE]
(* The evidence _start_locked, _stop_locked and _process_exited give.       *)
StartedEvidence(i) ==
    [NoEvidence EXCEPT !.inst = i, !.desired = "running", !.running = TRUE,
                       !.verified = TRUE]
StoppedEvidence(i) == [NoEvidence EXCEPT !.inst = i, !.verified = TRUE]
ExitEvidence(i, expected) ==
    [NoEvidence EXCEPT !.inst = i, !.verified = TRUE, !.unexpected = ~expected,
                       !.desired = IF expected THEN "stopped" ELSE "running"]

Idle == [act |-> "none", pc |-> "idle"]

-----------------------------------------------------------------------------
(* linux_process_identity of the pid a record or an entry holds (pid 0 has  *)
(* no /proc entry).                                                         *)
Identity(b, e) ==
    IF ~e.pid \/ e.inst = 0 THEN "none"
    ELSE LET p == proc[b][e.inst] IN
         IF p \in Live THEN "live"
         ELSE IF p \in {"zombie", "foreign"} THEN p ELSE "none"

(* _verify_identity succeeds: an unset identity equals no evidence.         *)
PidExists(b, r) == Identity(b, r) # "none"  \* mutant
Verified(b, r) == Identity(b, r) = r.ident

(* _persist starting from file content f.  A failed save raises before or   *)
(* after the replace took effect.                                           *)
Save(f, rs, ok) ==
    IF ok THEN file' = EncodeAll(rs)
          ELSE "disk" \in Faults /\ file' \in {f, EncodeAll(rs)}

(* _operate ends: a SupervisorError marks the operation FAILED, any other   *)
(* exception leaves it RUNNING with a completion time.                      *)
Finish(b, status) ==
    /\ op' = [op EXCEPT ![b] = Idle]
    /\ opStatus' = [opStatus EXCEPT ![b] = status]
Hold(b, act, pc) ==
    /\ op' = [op EXCEPT ![b] = [act |-> act, pc |-> pc]]
    /\ opStatus' = [opStatus EXCEPT ![b] = "RUNNING"]

Accepts(b) == up /\ op[b] = Idle

(* The except clause of _start_locked: CRASHED, then persisted.             *)
StartFailed(b, r, f) ==
    LET rs == [rec EXCEPT ![b] = [r EXCEPT !.st = "CRASHED"]] IN
    \E ok \in BOOLEAN :
        /\ rec' = rs
        /\ Save(f, rs, ok)
        /\ Finish(b, IF ok THEN "FAILED" ELSE "RUNNING")

-----------------------------------------------------------------------------
(* _start_locked up to its first suspension, on the record r, the file      *)
(* content f and the evidence h that the code before it left.               *)
BeginStart(b, act, r, f, h) ==
    \/ \* disabled, not safely offline, no token or no executable: the
       \* code raises before it touches the record
       /\ rec' = [rec EXCEPT ![b] = r]
       /\ file' = f
       /\ health' = h
       /\ Finish(b, "FAILED")
       /\ UNCHANGED proc
    \/ /\ b \in Enabled
       /\ SafelyOffline(r)
       /\ \E i \in Insts :
            /\ proc[b][i] = "none"
            /\ \A j \in Insts : j < i => proc[b][j] # "none"
            /\ health' = h
            /\ \/ \* Popen forks; create_subprocess_exec then suspends
                  /\ rec' = [rec EXCEPT ![b] = NewRec(i)]
                  /\ proc' = [proc EXCEPT ![b][i] = "alive"]
                  /\ file' = f
                  /\ Hold(b, act, "spawn")
               \/ \* Popen raises OSError: nothing ever ran
                  /\ proc' = [proc EXCEPT ![b][i] = "gone"]
                  /\ StartFailed(b, NewRec(i), f)

Room(b) == \E i \in Insts : proc[b][i] = "none"

Start(b) ==
    /\ Accepts(b)
    /\ Room(b)
    /\ BeginStart(b, "start", rec[b], file, health)
    /\ UNCHANGED <<child, up, foreignHit>>

(* create_subprocess_exec returns: the process and its waiter are tracked   *)
(* and the record learns the pid; the startup grace begins.                 *)
SpawnReturns(b) ==
    /\ op[b].pc = "spawn"
    /\ child' = [child EXCEPT ![b] = @ \cup {rec[b].inst}]
    /\ rec' = [rec EXCEPT ![b].pid = TRUE]
    /\ Hold(b, op[b].act, "grace")
    /\ UNCHANGED <<proc, up, file, health, foreignHit>>

(* Without a descendant on the pipes, the exit callback of an earlier       *)
(* execution runs long before a later grace period ends.                    *)
CallbacksDone(b) ==
    "latepipe" \in Faults
        \/ \A i \in child[b] : i = rec[b].inst \/ proc[b][i] \notin Reaped

GraceEnds(b) ==
    LET r == rec[b]
        failed == proc[b][r.inst] \in Reaped \/ Identity(b, r) = "none"
        ready == [r EXCEPT !.ident = Identity(b, r), !.st = "RUNNING"]
        rs == [rec EXCEPT ![b] = ready]
    IN
    /\ op[b].pc = "grace"
    /\ CallbacksDone(b)
    /\ \/ \* process.returncode is set, or no kernel identity
          /\ failed
          /\ StartFailed(b, r, file)
          /\ UNCHANGED health
       \/ /\ ~failed
          /\ rec' = rs
          /\ file' = EncodeAll(rs)
          /\ health' = [health EXCEPT ![b] = StartedEvidence(r.inst)]
          /\ Finish(b, "SUCCEEDED")
       \/ \* _persist raises: the running process is recorded as CRASHED
          /\ ~failed
          /\ "disk" \in Faults
          /\ \E f \in {file, EncodeAll(rs)} : StartFailed(b, ready, f)
          /\ UNCHANGED health
    /\ UNCHANGED <<proc, child, up, foreignHit>>

-----------------------------------------------------------------------------
(* controller.terminate and controller.kill on the pid of record r.         *)
SignalTermAgain(b, r, status) ==  \* mutant
    /\ UNCHANGED proc
    /\ foreignHit' = (foreignHit \/ proc[b][r.inst] = "foreign")
Signal(b, r, status) ==
    LET p == proc[b][r.inst] IN
    /\ proc' = IF status = "dying" /\ p \in Live
               THEN [proc EXCEPT ![b][r.inst] = "dying"] ELSE proc
    /\ foreignHit' = (foreignHit \/ p = "foreign")

(* _verify_identity raises: the record becomes UNKNOWN and is persisted.    *)
IdentityRefused(b, r) ==
    LET rs == [rec EXCEPT ![b] = [r EXCEPT !.st = "UNKNOWN"]] IN
    /\ ~Verified(b, r)
    /\ \E ok \in BOOLEAN :
        /\ rec' = rs
        /\ Save(file, rs, ok)
        /\ Finish(b, IF ok THEN "FAILED" ELSE "RUNNING")
    /\ UNCHANGED <<proc, foreignHit>>

(* _stop_locked up to the wait for the exit.                                *)
BeginStop(b, act, r) ==
    /\ r.st # "OFFLINE"
    /\ \/ IdentityRefused(b, r)
       \/ /\ Verified(b, r)
          /\ rec' = [rec EXCEPT ![b] = [r EXCEPT !.st = "STOPPING",
                                                 !.expected = TRUE]]
          /\ Signal(b, r, "alive")
          /\ Hold(b, act, "term")
          /\ UNCHANGED file
    /\ UNCHANGED <<child, up, health>>

StopRefused(b) ==
    /\ Accepts(b)
    /\ rec[b].st = "OFFLINE"
    /\ Finish(b, "FAILED")
    /\ UNCHANGED <<proc, child, up, rec, file, health, foreignHit>>

Stop(b) ==
    /\ Accepts(b)
    /\ BeginStop(b, "stop", rec[b])

Restart(b) ==
    /\ Accepts(b)
    /\ Room(b)
    /\ IF SafelyOffline(rec[b])
       THEN /\ BeginStart(b, "restart", rec[b], file, health)
            /\ UNCHANGED <<child, up, foreignHit>>
       ELSE BeginStop(b, "restart", [rec[b] EXCEPT !.st = "RESTARTING"])

(* wait_for_exit: on its own child the code awaits the process and resumes  *)
(* after the waiter task ran the exit callback; on an adopted process it    *)
(* polls /proc until the pid is free.                                       *)
NotAwaited(b) == TRUE  \* mutant
ExitSeen(b) ==
    IF rec[b].adopted THEN Identity(b, rec[b]) = "none"
                      ELSE rec[b].inst \notin child[b]

StopFinishes(b) ==
    LET r == [rec[b] EXCEPT !.st = "OFFLINE"]
        rs == [rec EXCEPT ![b] = r]
        h == [health EXCEPT ![b] = StoppedEvidence(r.inst)]
    IN
    /\ op[b].pc \in {"term", "kill"}
    /\ ExitSeen(b)
    /\ \/ /\ op[b].act = "stop"
          /\ rec' = rs
          /\ file' = EncodeAll(rs)
          /\ health' = h
          /\ Finish(b, "SUCCEEDED")
          /\ UNCHANGED proc
       \/ /\ op[b].act = "restart"
          /\ BeginStart(b, "restart", r, EncodeAll(rs), h)
       \/ \* _persist raises
          /\ rec' = rs
          /\ Save(file, rs, FALSE)
          /\ Finish(b, "RUNNING")
          /\ UNCHANGED <<proc, health>>
    /\ UNCHANGED <<child, up, foreignHit>>

(* The stop timeout: identity is proved again before SIGKILL.               *)
NeverTimesOut(b) == op[b].pc = "timeout" /\ UNCHANGED vars  \* mutant
StopTimesOut(b) ==
    /\ op[b].pc = "term"
    /\ ~ExitSeen(b)
    /\ \/ IdentityRefused(b, rec[b])
       \/ /\ Verified(b, rec[b])
          /\ rec' = [rec EXCEPT ![b].forced = TRUE]
          /\ Signal(b, rec[b], "dying")
          /\ Hold(b, op[b].act, "kill")
          /\ UNCHANGED file
    /\ UNCHANGED <<child, up, health>>

(* The second wait raises TimeoutError, which no handler maps.              *)
KillTimesOut(b) ==
    /\ op[b].pc = "kill"
    /\ ~ExitSeen(b)
    /\ Finish(b, "RUNNING")
    /\ UNCHANGED <<proc, child, up, rec, file, health, foreignHit>>

(* _wait resumes after the reap: the execution is forgotten and the record  *)
(* captured at its spawn is closed.  A replaced record is not in rec, but   *)
(* its execution still reaches the HealthStore.                             *)
ExitCallback(b, i) ==
    LET current == rec[b].inst = i
        expected == current /\ rec[b].expected
        rs == IF current
              THEN [rec EXCEPT ![b].st = ExitState(expected)] ELSE rec
        h == [health EXCEPT ![b] = ExitEvidence(i, expected)]
    IN
    /\ i \in child[b]
    /\ proc[b][i] \in Reaped
    /\ child' = [child EXCEPT ![b] = @ \ {i}]
    /\ rec' = rs
    /\ \E ok \in BOOLEAN :
        /\ Save(file, rs, ok)
        /\ health' = IF ok THEN h ELSE health
    /\ UNCHANGED <<proc, up, op, opStatus, foreignHit>>

-----------------------------------------------------------------------------
(* The kernel and the bots.                                                 *)
OsStep(b, i, from, to) ==
    /\ proc[b][i] \in from
    /\ proc' = [proc EXCEPT ![b][i] = to]
    /\ UNCHANGED <<child, up, rec, file, op, opStatus, health, foreignHit>>

Exits(b, i) == OsStep(b, i, Live, "zombie")
Reap(b, i) == OsStep(b, i, {"zombie"}, "gone")
PidReused(b, i) == "pidreuse" \in Faults /\ OsStep(b, i, {"gone"}, "foreign")
ForeignExits(b, i) == OsStep(b, i, {"foreign"}, "gone")

(* The supervisor process ends; the bots run in their own sessions.         *)
GoesDown ==
    /\ up
    /\ up' = FALSE
    /\ child' = [b \in Bots |-> {}]
    /\ rec' = [b \in Bots |-> NoRec]
    /\ op' = [b \in Bots |-> Idle]
    /\ opStatus' = [b \in Bots |-> "none"]
    /\ health' = [b \in Bots |-> NoEvidence]
    /\ UNCHANGED <<proc, foreignHit>>

Shutdown ==
    /\ \/ "midop" \in Faults
       \/ "shutdown" \in Faults /\ \A b \in Bots : op[b] = Idle
    /\ \E ok \in BOOLEAN : Save(file, rec, ok)
    /\ GoesDown

Crash ==
    /\ \/ "crash" \in Faults
       \/ "idlecrash" \in Faults /\ \A b \in Bots : op[b] = Idle
    /\ GoesDown
    /\ UNCHANGED file

(* startup(): each saved record is dropped, adopted or kept as a conflict.  *)
Recover(b) ==
    LET r == Decode(file[b])
        id == Identity(b, file[b])
    IN  IF id = "none" THEN NoRec
        ELSE IF id = r.ident THEN [r EXCEPT !.st = "RUNNING"]
        ELSE [r EXCEPT !.adopted = FALSE]

Startup ==
    LET rs == [b \in Bots |-> Recover(b)] IN
    /\ ~up
    /\ \E ok \in BOOLEAN :
        /\ Save(file, rs, ok)
        /\ up' = ok
        /\ rec' = IF ok THEN rs ELSE rec
        /\ health' = IF ~ok THEN health ELSE
            [b \in Bots |->
                [inst |-> rs[b].inst,
                 desired |-> IF rs[b].inst # 0 THEN "running" ELSE "stopped",
                 running |-> rs[b].st = "RUNNING", verified |-> rs[b].adopted,
                 unexpected |-> FALSE, conflict |-> rs[b].st = "UNKNOWN"]]
    /\ UNCHANGED <<proc, child, op, opStatus, foreignHit>>

-----------------------------------------------------------------------------
Init ==
    /\ proc = [b \in Bots |-> [i \in Insts |-> "none"]]
    /\ child = [b \in Bots |-> {}]
    /\ up = FALSE
    /\ rec = [b \in Bots |-> NoRec]
    /\ file = EncodeAll(rec)
    /\ op = [b \in Bots |-> Idle]
    /\ opStatus = [b \in Bots |-> "none"]
    /\ health = [b \in Bots |-> NoEvidence]
    /\ foreignHit = FALSE

Lifecycle(b) ==
    \/ Start(b) \/ Stop(b) \/ StopRefused(b) \/ Restart(b)
    \/ SpawnReturns(b) \/ GraceEnds(b)
    \/ StopFinishes(b) \/ StopTimesOut(b) \/ KillTimesOut(b)

Kernel(b, i) == Exits(b, i) \/ Reap(b, i) \/ PidReused(b, i) \/ ForeignExits(b, i)

Next ==
    \/ \E b \in Bots : Lifecycle(b)
    \/ \E b \in Bots, i \in Insts : ExitCallback(b, i) \/ Kernel(b, i)
    \/ Shutdown \/ Crash \/ Startup

Spec == Init /\ [][Next]_vars
(* The event loop runs ready code, every wait for an exit ends by the exit  *)
(* or by its timeout, the child watcher reaps and a process with SIGKILL    *)
(* delivered ends.  Nothing makes a client issue an operation, a bot exit   *)
(* by itself or the supervisor go down.                                     *)
Fairness ==
    /\ WF_vars(Startup)
    /\ \A b \in Bots :
        /\ WF_vars(SpawnReturns(b)) /\ WF_vars(GraceEnds(b))
        /\ WF_vars(StopFinishes(b) \/ StopTimesOut(b) \/ KillTimesOut(b))
        /\ \A i \in Insts :
            /\ WF_vars(ExitCallback(b, i)) /\ WF_vars(Reap(b, i))
            /\ WF_vars(proc[b][i] = "dying" /\ Exits(b, i))

LiveSpec == Spec /\ Fairness

-----------------------------------------------------------------------------
(* Every variable has its type.                                             *)
TypeOK ==
    /\ proc \in [Bots -> [Insts -> ProcStatus]]
    /\ child \in [Bots -> SUBSET (0..MaxInst)]
    /\ up \in BOOLEAN
    /\ rec \in [Bots -> Record]
    /\ file \in [Bots -> Entry]
    /\ op \in [Bots -> [act: {"none", "start", "stop", "restart"},
                        pc: {"idle", "spawn", "grace", "term", "kill"}]]
    /\ opStatus \in [Bots -> {"none", "RUNNING", "SUCCEEDED", "FAILED"}]
    /\ health \in [Bots -> Evidence]
    /\ foreignHit \in BOOLEAN

(* A bot never runs twice: start refuses every record that may stand for a  *)
(* live process, through operations, exits and supervisor restarts.         *)
AtMostOneLive ==
    \A b \in Bots : \A i, j \in Insts :
        proc[b][i] \in Live /\ proc[b][j] \in Live => i = j

(* While the supervisor runs, each live process is the one its bot's record *)
(* names, and that record refuses a start.                                  *)
LiveIsRecorded ==
    up => \A b \in Bots, i \in Insts :
            proc[b][i] \in Live =>
                rec[b].inst = i /\ rec[b].st \notin {"OFFLINE", "CRASHED"}

(* The record r covers every live process of the bot, as far as an          *)
(* operation suspended at pc has established it.                            *)
Covers(b, r, pc) ==
    \A i \in Insts : proc[b][i] \in Live =>
        /\ r.inst = i /\ ~SafelyOffline(r)
        /\ pc # "spawn" => r.pid /\ (r.adopted \/ i \in child[b])
        /\ pc \notin {"spawn", "grace"} => r.ident = "live"

Saved(b) ==
    \A i \in Insts : proc[b][i] \in Live =>
        file[b] = [inst |-> i, pid |-> TRUE, ident |-> "live"]

(* The inductive strengthening of AtMostOneLive: the record covers each     *)
(* live process while the supervisor runs, the file does while it is down.  *)
SafetyInv ==
    \A b \in Bots :
        IF up THEN Covers(b, rec[b], op[b].pc)
              ELSE op[b] = Idle /\ child[b] = {} /\ Saved(b)

(* The file is up to date for every bot that no start has left half-way, so *)
(* that the supervisor may even die between operations.                     *)
FileIsCurrent ==
    up => \A b \in Bots :
            op[b].pc \notin {"spawn", "grace"} => file[b] = Encode(rec[b])

(* Between operations the record file holds the pid and the kernel identity *)
(* of each live process, so the next supervisor can adopt it.               *)
DurableKnowsLive ==
    \A b \in Bots, i \in Insts :
        proc[b][i] \in Live /\ op[b] = Idle =>
            file[b] = [inst |-> i, pid |-> TRUE, ident |-> "live"]

(* terminate and kill never reach a program that took over a reaped pid.    *)
NeverSignalsForeign == ~foreignHit

(* Between operations the HealthStore of a RUNNING record holds verified    *)
(* evidence of that very execution, so its heartbeats are accepted: no late *)
(* exit callback of an earlier execution has replaced it.                   *)
RunningIsTrusted ==
    \A b \in Bots :
        up /\ op[b] = Idle /\ rec[b].st = "RUNNING" =>
            health[b].inst = rec[b].inst /\ health[b].running /\ health[b].verified

(* The inductive strengthening of RunningIsTrusted: of the executions with  *)
(* a waiter only the recorded one may still have to exit, and none may once *)
(* the record r is offline.                                                 *)
Trusts(b, r, pc, h) ==
    /\ child[b] \subseteq Insts
    /\ \A i \in child[b] :
           /\ proc[b][i] # "none"
           /\ proc[b][i] \in Reaped \/ (i = r.inst /\ ~SafelyOffline(r))
    /\ r.adopted => child[b] = {}
    /\ pc \in {"spawn", "grace"} =>
           r.inst # 0 /\ proc[b][r.inst] # "none" /\ ~r.adopted
    /\ pc = "spawn" => r.st = "STARTING" /\ r.inst \notin child[b]
    /\ pc = "grace" => r.pid
    /\ r.st = "RUNNING" => /\ child[b] \subseteq {r.inst}
                           /\ h.inst = r.inst /\ h.running /\ h.verified

TrustInv == up => \A b \in Bots : Trusts(b, rec[b], op[b].pc, health[b])

(* What memory and the record file say of the executions of a bot is true   *)
(* of its processes: the properties above with their inductive forms.       *)
RecordsAreTrue ==
    /\ DurableKnowsLive /\ RunningIsTrusted /\ LiveIsRecorded
    /\ SafetyInv /\ FileIsCurrent /\ TrustInv

(* A conflicting record is never overwritten by the record of a new start.  *)
ConflictIsKept ==
    [][\A b \in Bots : up /\ up' /\ rec[b].st = "UNKNOWN" =>
            rec'[b].inst = rec[b].inst]_vars

(* The per-bot lock is always released.                                     *)
OperationsEnd == \A b \in Bots : op[b] # Idle ~> op[b] = Idle

(* A stop that proved the identity of its process ends that process, even   *)
(* if it ignores SIGTERM.                                                   *)
StopEndsProcess ==
    \A b \in Bots, i \in Insts :
        op[b].pc = "term" /\ rec[b].inst = i ~> proc[b][i] \notin Live

(* A process with a waiter task that exits without a stop becomes crashed:  *)
(* its record does not stay RUNNING, whenever the exit falls.               *)
ChildExitIsNoticed ==
    \A b \in Bots, i \in Insts :
        rec[b].inst = i /\ i \in child[b] /\ proc[b][i] = "gone"
            ~> ~(rec[b].inst = i /\ rec[b].st = "RUNNING")

(* "Unexpected non-zero and zero exits both become `crashed`", also those   *)
(* of a process an earlier supervisor started.                              *)
ExitIsNoticed ==
    \A b \in Bots, i \in Insts :
        rec[b].inst = i /\ proc[b][i] = "gone"
            ~> ~(rec[b].inst = i /\ rec[b].st = "RUNNING")
=============================================================================
