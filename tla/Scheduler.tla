----------------------------- MODULE Scheduler -----------------------------
(***************************************************************************)
(* The durable administrative scheduler (portal/scheduler.py).             *)
(*                                                                         *)
(* A SQLite file holds the task definitions, the executions claimed so far *)
(* and one lease.  Runner processes poll it (SchedulerRunner.run), users   *)
(* edit tasks through the web process, and Run Now requests execute a task *)
(* inside the web process.  Every action is one SQLite transaction or one  *)
(* stretch of code between awaits; a transaction that only reads a task is *)
(* part of the step before it, since it commutes with the writes of users. *)
(*                                                                         *)
(* Times are natural numbers of clock ticks.  Names, parameters, owners    *)
(* and audit events are left out: what the checks before an execution      *)
(* would say of a task's owner and of its catalogue entry is `barred'.     *)
(***************************************************************************)
EXTENDS Integers, FiniteSets

CONSTANTS
    NTasks,       \* tasks 1..NTasks, in the order of created_at
    Runners,      \* processes that run SchedulerRunner.run
    Webs,         \* concurrent Run Now requests of the one web process
    Skipping,     \* tasks whose type has the misfire policy SKIP
    Schedules,    \* the schedules users submit
    Grace,        \* grace_seconds, in ticks
    HistoryLimit, \* history_per_task
    MaxTasks,     \* max_total
    MaxTime,      \* bound on the clock
    MaxRows,      \* bound on the executions ever claimed
    MaxEdits,     \* bound on the user's edits of all tasks
    Faults        \* "crash", "webcrash", "revoke", "deploy"

Tasks == 1 .. NTasks
Executors == Runners \cup Webs
None == 0                                  \* no next run; no occurrence
Free == "free"                             \* no lease in force
Stale == "stale"                           \* the lease of a dead runner
FaultKinds == {"crash", "webcrash", "revoke", "deploy"}

ASSUME SchedulerAssumption ==
    /\ NTasks \in Nat /\ Grace \in Nat /\ HistoryLimit \in Nat \ {0}
    /\ MaxTasks \in Nat /\ MaxTime \in Nat \ {0}
    /\ MaxRows \in Nat /\ MaxEdits \in Nat
    /\ Skipping \subseteq Tasks
    /\ Schedules \subseteq [kind : {"once", "every"}, n : Nat \ {0}]
    /\ Runners \cap Webs = {} /\ {Free, Stale} \cap Executors = {}
    /\ Faults \subseteq FaultKinds

VARIABLES
    now,      \* the wall clock
    tasks,    \* table scheduled_tasks
    rows,     \* table task_executions, in the order of started_at
    claims,   \* how many executions were ever claimed
    lease,    \* table scheduler_lease: its unexpired owner, Stale or Free
    ex,       \* the control state of each executor
    barred,   \* what would make the checks before an execution refuse a task
    edits,    \* how many edits users made
    started   \* history: the occurrences whose adapter call has begun

vars == <<now, tasks, rows, claims, lease, ex, barred, edits, started>>

Absent == [life |-> "absent", enabled |-> FALSE, kind |-> "once", n |-> 1,
           next |-> None, rev |-> 0, suspended |-> FALSE]
NoRow == [task |-> 0, occ |-> None, status |-> "none"]
NoJob == [task |-> 0, kind |-> "once", n |-> 1, planned |-> None]
Resting(pc) == [pc |-> pc, job |-> NoJob, queue |-> {},
                row |-> 0, at |-> 0, rev |-> 0]

\* In a pass, with the jobs still to be dealt with in the order of their tasks.
Passing(queue) == [Resting("pass") EXCEPT !.queue = queue]

---------------------------------------------------------------------------
(* Schedules.                                                              *)

\* validate_schedule: a one-time date must not lie in the past.
Valid(s) == s.kind = "once" => s.n >= now

\* next_run: strictly after `after', or None for a one-time date gone by.
NextRun(s, after) ==
    CASE s.kind = "every" -> after + s.n
      [] s.kind = "once" /\ s.n > after -> s.n
      [] OTHER -> None

Active(t) == tasks[t].life = "active"
Due(t) == Active(t) /\ tasks[t].enabled /\ tasks[t].next \in 1 .. now

---------------------------------------------------------------------------
(* The portal's edits.  A stale revision is refused without any effect, so *)
(* reading and writing the task is one step here.                          *)

UserWrites(t, rec) ==
    /\ edits < MaxEdits
    /\ edits' = edits + 1
    /\ tasks' = [tasks EXCEPT ![t] = rec]
    /\ UNCHANGED <<now, rows, claims, lease, ex, barred, started>>

\* The task id is new: creation order is the order of ids.
Create(t, s, on) ==
    /\ tasks[t].life = "absent"
    /\ \A u \in Tasks : u < t => tasks[u].life # "absent"
    /\ Cardinality({u \in Tasks : Active(u)}) < MaxTasks
    /\ Valid(s)
    /\ UserWrites(t, [life |-> "active", enabled |-> on, kind |-> s.kind,
                      n |-> s.n, next |-> IF on THEN NextRun(s, now) ELSE None,
                      rev |-> 1, suspended |-> FALSE])

\* SchedulerService.update, and set_enabled, which calls it with the stored
\* schedule.
Update(t, s, on) ==
    /\ Active(t)
    /\ Valid(s)
    /\ UserWrites(t, [tasks[t] EXCEPT !.enabled = on, !.kind = s.kind, !.n = s.n,
                        !.next = IF on THEN NextRun(s, now) ELSE None,
                        !.rev = @ + 1, !.suspended = FALSE])

Edit(t, s) == Update(t, s, tasks[t].enabled)

SetEnabled(t, on) == Update(t, [kind |-> tasks[t].kind, n |-> tasks[t].n], on)

Delete(t) ==
    /\ Active(t)
    /\ UserWrites(t, [tasks[t] EXCEPT !.life = "deleted", !.enabled = FALSE,
                        !.next = None, !.rev = @ + 1])

---------------------------------------------------------------------------
(* Claiming and finishing executions.                                      *)

Locked(e) ==  \* task_id in self._locks: a set of the process, not of the file
    \E w \in Webs \ {e} : e \in Webs /\ ex[w].pc = "exec"
                              /\ ex[w].job.task = ex[e].job.task

\* UNIQUE(task_id, occurrence); the occurrence of a manual run is fresh.
TakenByRunning(t, occ) ==   \* mutant
    \E i \in 1 .. claims :
        rows[i] = [task |-> t, occ |-> occ, status |-> "running"]

Taken(t, occ) == \E i \in 1 .. claims : rows[i].task = t /\ rows[i].occ = occ

\* The DELETE of finish: a task keeps its HistoryLimit newest executions.
Outdated(i, t) ==
    /\ rows[i].task = t
    /\ Cardinality({j \in i + 1 .. claims : rows[j].task = t}) >= HistoryLimit

SettledUnlessFailed(e, status) ==   \* mutant
    [i \in 1 .. MaxRows |->
        IF Outdated(i, ex[e].job.task) THEN NoRow
        ELSE IF i = ex[e].row /\ rows[i] # NoRow /\ status # "failed"
             THEN [rows[i] EXCEPT !.status = status] ELSE rows[i]]

\* finish: an UPDATE by execution id, which is void if the row was deleted.
Settled(e, status) ==
    [i \in 1 .. MaxRows |->
        IF Outdated(i, ex[e].job.task) THEN NoRow
        ELSE IF i = ex[e].row /\ rows[i] # NoRow
             THEN [rows[i] EXCEPT !.status = status] ELSE rows[i]]

\* The next due task of the pass, or sleep until the next poll.
Continue(e) == IF ex[e].queue = {} THEN Resting("idle") ELSE Passing(ex[e].queue)

\* After _execute: run_due reads the task again (a deleted one is skipped) in
\* order to advance it; a Run Now request is over.
Advance(e, t, rev) ==
    IF e \in Runners /\ Active(t)
    THEN [ex[e] EXCEPT !.pc = "settling", !.rev = rev] ELSE Continue(e)

\* The next process has another owner id: a lease left behind is no one's.
Dies(r) ==
    /\ ex' = [ex EXCEPT ![r] = Resting("down")]
    /\ lease' = IF lease = r THEN Stale ELSE lease

\* A SchedulerError leaves run_due and run, so the runner process ends; in the
\* web process it only fails the request.
Escapes(e) == IF e \in Runners THEN Dies(e)
              ELSE ex' = [ex EXCEPT ![e] = Resting("idle")] /\ UNCHANGED lease

---------------------------------------------------------------------------
(* The runner.                                                             *)

RecoverStopped ==   \* mutant
    [i \in 1 .. MaxRows |-> IF rows[i].status = "running"
                            THEN [rows[i] EXCEPT !.status = "stopped"] ELSE rows[i]]

RecoverRunning ==
    [i \in 1 .. MaxRows |-> IF rows[i].status = "running"
                            THEN [rows[i] EXCEPT !.status = "unknown"] ELSE rows[i]]

RunnerStarts(r) ==
    /\ ex[r].pc = "down"
    /\ ex' = [ex EXCEPT ![r] = Resting("idle")]
    /\ rows' = RecoverRunning
    /\ UNCHANGED <<now, tasks, claims, lease, barred, edits, started>>

\* stop(), noticed between two passes.
RunnerStops(r) ==
    /\ ex[r].pc = "idle"
    /\ ex' = [ex EXCEPT ![r] = Resting("down")]
    /\ lease' = IF lease = r THEN Free ELSE lease
    /\ UNCHANGED <<now, tasks, rows, claims, barred, edits, started>>

Job(t) == [task |-> t, kind |-> tasks[t].kind, n |-> tasks[t].n,
           planned |-> tasks[t].next]

\* acquire_lease (which renews one's own), then list() once for the pass.
Poll(r) ==
    /\ ex[r].pc = "idle"
    /\ lease \in {r, Free}
    /\ lease' = r
    /\ LET due == {t \in Tasks : Due(t)} IN
       ex' = IF due = {} THEN ex
             ELSE [ex EXCEPT ![r] = Passing({Job(t) : t \in due})]
    /\ UNCHANGED <<now, tasks, rows, claims, barred, edits, started>>

\* The lease lasts 30 seconds and is not renewed during a pass.
LeaseLapses ==
    /\ lease = Stale \/ (lease \in Runners /\ ex[lease].pc = "exec")
    /\ lease' = Free
    /\ UNCHANGED <<now, tasks, rows, claims, ex, barred, edits, started>>

Claim(e, job, occ, queue) ==
    /\ claims < MaxRows
    /\ claims' = claims + 1
    /\ rows' = [rows EXCEPT ![claims + 1] =
                  [task |-> job.task, occ |-> occ, status |-> "running"]]
    /\ ex' = [ex EXCEPT ![e] = [pc |-> "claimed", job |-> job, queue |-> queue,
                                row |-> claims + 1, at |-> now, rev |-> 0]]

\* The first job of the pass, as the pass's list() saw it.
ClaimDue(r) ==
    /\ ex[r].pc = "pass"
    /\ \E job \in ex[r].queue :
       /\ \A other \in ex[r].queue : job.task <= other.task
       /\ IF Taken(job.task, job.planned)
          THEN Escapes(r) /\ UNCHANGED <<rows, claims>>
          ELSE Claim(r, job, job.planned, ex[r].queue \ {job}) /\ UNCHANGED lease
    /\ UNCHANGED <<now, tasks, barred, edits, started>>

\* run_now, up to and including the claim.
RunNow(w, t) ==
    /\ ex[w].pc = "idle"
    /\ Active(t) /\ tasks[t].enabled
    /\ Claim(w, [Job(t) EXCEPT !.planned = now], None, {})
    /\ UNCHANGED <<now, tasks, lease, barred, edits, started>>

---------------------------------------------------------------------------
(* _execute, after the claim.                                              *)

Scheduled(e) == e \in Runners

Missed(e) ==
    /\ Scheduled(e)
    /\ \/ ex[e].job.task \in Skipping /\ ex[e].at > ex[e].job.planned
       \/ ex[e].at - ex[e].job.planned > Grace

\* A revoked owner stops only scheduled runs, a new release every run.
Refused(e) == \/ barred[ex[e].job.task] = "release"
              \/ barred[ex[e].job.task] = "owner" /\ Scheduled(e)

FinishAndAdvance(e, status) ==
    LET t == ex[e].job.task IN
    /\ rows' = Settled(e, status)
    /\ ex' = [ex EXCEPT ![e] = Advance(e, t, tasks[t].rev)]
    /\ UNCHANGED <<now, tasks, claims, lease, barred, edits, started>>

Overlaps(e) ==
    /\ ex[e].pc = "claimed" /\ Locked(e)
    /\ FinishAndAdvance(e, "conflict")

Misfires(e) ==
    /\ ex[e].pc = "claimed" /\ ~Locked(e) /\ Missed(e)
    /\ FinishAndAdvance(e, "misfired")

\* The execution is finished first; then _suspend reads the task.
Refuses(e) ==
    LET t == ex[e].job.task IN
    /\ ex[e].pc = "claimed" /\ ~Locked(e) /\ ~Missed(e) /\ Refused(e)
    /\ rows' = Settled(e, "refused")
    /\ ex' = [ex EXCEPT ![e] = IF Active(t)
                               THEN [@ EXCEPT !.pc = "suspending", !.rev = tasks[t].rev]
                               ELSE Continue(e)]
    /\ UNCHANGED <<now, tasks, claims, lease, barred, edits, started>>

Suspended(rec) ==
    [rec EXCEPT !.enabled = FALSE, !.next = None, !.suspended = TRUE, !.rev = @ + 1]

\* _suspend writes if nobody has written since it read.
SuspendWrites(e) ==
    LET t == ex[e].job.task IN
    /\ ex[e].pc = "suspending"
    /\ IF tasks[t].rev = ex[e].rev
       THEN /\ tasks' = [tasks EXCEPT ![t] = Suspended(@)]
            /\ ex' = [ex EXCEPT ![e] = Advance(e, t, tasks[t].rev + 1)]
            /\ UNCHANGED lease
       ELSE Escapes(e) /\ UNCHANGED tasks
    /\ UNCHANGED <<now, rows, claims, barred, edits, started>>

Begin(e) ==
    /\ ex[e].pc = "claimed" /\ ~Locked(e) /\ ~Missed(e) /\ ~Refused(e)
    /\ ex' = [ex EXCEPT ![e].pc = "exec"]
    /\ started' = IF Scheduled(e)
                  THEN started \cup {<<ex[e].job.task, ex[e].job.planned>>} ELSE started
    /\ UNCHANGED <<now, tasks, rows, claims, lease, barred, edits>>

AdapterReturns(e) ==
    /\ ex[e].pc = "exec"
    /\ \E status \in {"succeeded", "failed"} : FinishAndAdvance(e, status)

---------------------------------------------------------------------------
(* run_due, after _execute: the stored task is advanced by the schedule    *)
(* the pass's list() saw.                                                  *)

AdvancedRevived(rec, job) ==   \* mutant
    LET next == IF job.kind = "once" THEN None ELSE NextRun(job, job.planned) IN
    [rec EXCEPT !.enabled = next # None, !.next = next, !.rev = @ + 1]

NotAdvanced(rec, job) ==   \* mutant
    LET next == IF job.kind = "once" THEN rec.next ELSE NextRun(job, job.planned) IN
    [rec EXCEPT !.enabled = @ /\ next # None, !.next = next, !.rev = @ + 1]

Advanced(rec, job) ==
    LET next == IF job.kind = "once" THEN None ELSE NextRun(job, job.planned) IN
    [rec EXCEPT !.enabled = @ /\ next # None, !.next = next, !.rev = @ + 1]

Settle(r) ==
    LET t == ex[r].job.task IN
    /\ ex[r].pc = "settling"
    /\ IF tasks[t].rev = ex[r].rev
       THEN /\ tasks' = [tasks EXCEPT ![t] = Advanced(@, ex[r].job)]
            /\ ex' = [ex EXCEPT ![r] = Continue(r)]
            /\ UNCHANGED lease
       ELSE Escapes(r) /\ UNCHANGED tasks
    /\ UNCHANGED <<now, rows, claims, barred, edits, started>>

---------------------------------------------------------------------------
(* The environment.                                                        *)

Crash(r) ==
    /\ "crash" \in Faults
    /\ ex[r].pc # "down"
    /\ Dies(r)
    /\ UNCHANGED <<now, tasks, rows, claims, barred, edits, started>>

WebCrash ==
    /\ "webcrash" \in Faults
    /\ \E w \in Webs : ex[w].pc # "idle"
    /\ ex' = [e \in Executors |-> IF e \in Webs THEN Resting("idle") ELSE ex[e]]
    /\ UNCHANGED <<now, tasks, rows, claims, lease, barred, edits, started>>

\* The owner is disabled, deleted or loses a permission, or regains it.
OwnerChanges(t) ==
    /\ "revoke" \in Faults
    /\ barred[t] \in {"no", "owner"}
    /\ barred' = [barred EXCEPT ![t] = IF @ = "no" THEN "owner" ELSE "no"]
    /\ UNCHANGED <<now, tasks, rows, claims, lease, ex, edits, started>>

\* A release whose catalogue no longer matches the task; nothing runs then.
Deploy(t) ==
    /\ "deploy" \in Faults
    /\ \A e \in Executors : ex[e].pc = IF e \in Runners THEN "down" ELSE "idle"
    /\ barred[t] # "release"
    /\ barred' = [barred EXCEPT ![t] = "release"]
    /\ UNCHANGED <<now, tasks, rows, claims, lease, ex, edits, started>>

Tick ==
    /\ now < MaxTime
    /\ now' = now + 1
    /\ UNCHANGED <<tasks, rows, claims, lease, ex, barred, edits, started>>

---------------------------------------------------------------------------
Init ==
    /\ now = 1
    /\ tasks = [t \in Tasks |-> Absent]
    /\ rows = [i \in 1 .. MaxRows |-> NoRow]
    /\ claims = 0
    /\ lease = Free
    /\ ex = [e \in Executors |-> Resting(IF e \in Runners THEN "down" ELSE "idle")]
    /\ barred = [t \in Tasks |-> "no"]
    /\ edits = 0
    /\ started = {}

UserStep ==
    \E t \in Tasks :
        \/ \E s \in Schedules, on \in BOOLEAN : Create(t, s, on)
        \/ \E s \in Schedules : Edit(t, s)
        \/ \E on \in BOOLEAN : SetEnabled(t, on)
        \/ Delete(t)
        \/ \E w \in Webs : RunNow(w, t)

Execute(e) ==
    \/ Overlaps(e) \/ Misfires(e) \/ Refuses(e) \/ SuspendWrites(e)
    \/ Begin(e) \/ AdapterReturns(e)

RunnerStep(r) ==
    RunnerStarts(r) \/ Poll(r) \/ ClaimDue(r) \/ Settle(r)

Environment ==
    \/ LeaseLapses \/ WebCrash \/ Tick
    \/ \E r \in Runners : RunnerStops(r) \/ Crash(r)
    \/ \E t \in Tasks : OwnerChanges(t) \/ Deploy(t)

Next ==
    \/ UserStep
    \/ \E r \in Runners : RunnerStep(r)
    \/ \E e \in Executors : Execute(e)
    \/ Environment

Spec == Init /\ [][Next]_vars

\* The event loop runs every ready coroutine, calls to the supervisor, the
\* backups and the bots end (their own timeouts), a dead runner is started
\* again by its process manager and not stopped before every poll, and an
\* unrenewed lease runs out.
Fairness ==
    /\ \A r \in Runners : WF_vars(RunnerStep(r)) /\ SF_vars(Poll(r))
    /\ \A e \in Executors : WF_vars(Execute(e))
    /\ WF_vars(LeaseLapses)

LiveSpec == Spec /\ Fairness
---------------------------------------------------------------------------
(* Properties.                                                             *)

TaskRecs == [life : {"absent", "active", "deleted"}, enabled : BOOLEAN,
             kind : {"once", "every"}, n : Nat \ {0}, next : Nat, rev : Nat,
             suspended : BOOLEAN]
Jobs == [task : 0 .. NTasks, kind : {"once", "every"}, n : Nat \ {0}, planned : Nat]
Statuses == {"none", "running", "succeeded", "failed", "misfired", "refused",
             "conflict", "unknown"}
Rows == [task : 0 .. NTasks, occ : Nat, status : Statuses]
Pcs == {"down", "idle", "pass", "claimed", "exec", "suspending", "settling"}
Controls == [pc : Pcs, job : Jobs, queue : SUBSET Jobs, row : 0 .. MaxRows,
             at : Nat, rev : Nat]

\* Every variable keeps its type.
TypeOK ==
    /\ now \in 1 .. MaxTime
    /\ tasks \in [Tasks -> TaskRecs]
    /\ rows \in [1 .. MaxRows -> Rows]
    /\ claims \in 0 .. MaxRows
    /\ lease \in Runners \cup {Free, Stale}
    /\ ex \in [Executors -> Controls]
    /\ barred \in [Tasks -> {"no", "owner", "release"}]
    /\ edits \in 0 .. MaxEdits
    /\ started \subseteq Tasks \X Nat

\* docs/architecture/scheduling.md: "A restart cannot reclaim an occurrence" and
\* "destructive work is not repeated": the adapter is called at most once for a
\* planned occurrence, whatever crashes, edits and second runners do.
OccurrenceOnce ==
    [][\A r \in Runners : ex'[r].pc = "exec" /\ ex[r].pc # "exec"
          => <<ex'[r].job.task, ex'[r].job.planned>> \notin started]_vars

\* With every runner up, a scheduled execution shown as running is being run by
\* someone: what a crash abandoned has been recovered as unknown.
RunningIsOwned ==
    (\A r \in Runners : ex[r].pc # "down") =>
        \A i \in 1 .. MaxRows : rows[i].status = "running" /\ rows[i].occ # None =>
            \E e \in Executors : ex[e].row = i /\ ex[e].pc \in {"claimed", "exec"}

\* An occurrence already claimed is never left as the next one to run, where
\* its claim would fail for ever: only the runner about to advance it has it.
ClaimedIsNotDue ==
    \A t \in Tasks, i \in 1 .. MaxRows :
        Active(t) /\ rows[i].task = t /\ rows[i].occ = tasks[t].next
                  /\ rows[i].occ # None
        => \E r \in Runners : ex[r].job.task = t /\ ex[r].job.planned = tasks[t].next

\* "never replayed ... no backlogs": one runner claims the occurrences of a task
\* in strictly increasing order of their planned times.
ClaimsInOrder ==
    \A i, j \in 1 .. MaxRows :
        i < j /\ rows[i].task = rows[j].task /\ None \notin {rows[i].occ, rows[j].occ}
        => rows[i].occ < rows[j].occ

\* A recurring task that is enabled has a next run, however the edits of users
\* fall between the reads and writes of a pass.
RecurringNeverStalls ==
    \A t \in Tasks : Active(t) /\ tasks[t].enabled /\ tasks[t].kind = "every"
                     => tasks[t].next # None

\* "Failure suspends the task": until a user saves it again, a suspended task
\* stays disabled, although the same pass advances it after suspending it.
SuspendedIsDisabled ==
    \A t \in Tasks : Active(t) /\ tasks[t].suspended => ~tasks[t].enabled

\* What is stored of tasks and executions agrees with who runs them.
RunsAreAccounted ==
    RunningIsOwned /\ ClaimsInOrder /\ SuspendedIsDisabled /\ RecurringNeverStalls

\* A due task is dealt with: its occurrence is executed, misfired or refused and
\* the task advanced, or its owner changes it.
DueIsSettled ==
    \A t \in Tasks, p \in 1 .. MaxTime :
        (Due(t) /\ tasks[t].next = p) ~> ~(Due(t) /\ tasks[t].next = p)

\* No execution is shown as running for ever.
ExecutionsEnd ==
    \A i \in 1 .. MaxRows : rows[i].status = "running" ~> rows[i].status # "running"
=============================================================================
