---------------------------- MODULE SchedulerProofs ----------------------------
(***************************************************************************)
(* Proofs about Scheduler, for any numbers of tasks, runners, requests,    *)
(* executions and ticks.                                                   *)
(***************************************************************************)
EXTENDS Scheduler, FiniteSetTheorems, TLAPS

Working == {"claimed", "exec", "suspending", "settling"}

\* Jobs under way and queued are jobs of tasks.
Placed ==
    \A e \in Executors :
        /\ ex[e].pc \in Working => ex[e].job.task \in Tasks
        /\ \A job \in ex[e].queue : job.task \in Tasks

Typed == TypeOK /\ Placed

---------------------------------------------------------------------------
(* The pieces of a step.                                                   *)

LEMMA RestingType ==
    ASSUME NEW pc \in Pcs
    PROVE  /\ Resting(pc) \in Controls /\ Resting(pc).pc = pc
           /\ Resting(pc).queue = {} /\ Resting(pc).job = NoJob /\ Resting(pc).row = 0
<1>1. NoJob \in Jobs  BY SchedulerAssumption DEF NoJob, Jobs, None
<1>2. 0 \in 0 .. MaxRows  BY SchedulerAssumption
<1>3. QED  BY <1>1, <1>2 DEF Resting, Controls

LEMMA PassingType ==
    ASSUME NEW queue \in SUBSET Jobs
    PROVE  /\ Passing(queue) \in Controls /\ Passing(queue).pc = "pass"
           /\ Passing(queue).queue = queue /\ Passing(queue).job = NoJob
           /\ Passing(queue).row = 0
<1>1. "pass" \in Pcs  BY DEF Pcs
<1>2. /\ Resting("pass") \in Controls /\ Resting("pass").pc = "pass"
      /\ Resting("pass").job = NoJob /\ Resting("pass").row = 0
  BY <1>1, RestingType
<1>3. QED  BY <1>2 DEF Passing, Controls

LEMMA JobType ==
    ASSUME TypeOK, NEW t \in Tasks
    PROVE  /\ Job(t) \in Jobs /\ Job(t).task = t /\ Job(t).planned = tasks[t].next
           /\ Job(t).kind = tasks[t].kind /\ Job(t).n = tasks[t].n
<1>1. tasks[t] \in TaskRecs  BY DEF TypeOK
<1>2. t \in 0 .. NTasks  BY SchedulerAssumption DEF Tasks
<1>3. QED  BY <1>1, <1>2 DEF Job, Jobs, TaskRecs

LEMMA ContinueType ==
    ASSUME TypeOK, NEW e \in Executors
    PROVE  /\ Continue(e) \in Controls /\ Continue(e).pc \in {"idle", "pass"}
           /\ Continue(e).queue = ex[e].queue /\ Continue(e).job = NoJob
           /\ Continue(e).row = 0
<1>1. ex[e] \in Controls /\ ex[e].queue \in SUBSET Jobs  BY DEF TypeOK, Controls
<1>2. CASE ex[e].queue = {}
  <2>1. "idle" \in Pcs  BY DEF Pcs
  <2>2. QED  BY <1>2, <2>1, RestingType DEF Continue
<1>3. CASE ex[e].queue # {}
  BY <1>1, <1>3, PassingType DEF Continue
<1>4. QED  BY <1>2, <1>3

LEMMA AdvanceType ==
    ASSUME TypeOK, NEW e \in Executors, NEW t, NEW rev \in Nat
    PROVE  /\ Advance(e, t, rev) \in Controls
           /\ Advance(e, t, rev).pc \in {"idle", "pass", "settling"}
           /\ Advance(e, t, rev).queue = ex[e].queue
           /\ Advance(e, t, rev).pc = "settling" =>
                /\ Active(t) /\ e \in Runners /\ Advance(e, t, rev).job = ex[e].job
                /\ Advance(e, t, rev).rev = rev
           /\ Advance(e, t, rev).pc # "settling" =>
                Advance(e, t, rev).job = NoJob /\ (e \in Runners => ~Active(t))
<1>1. ex[e] \in Controls  BY DEF TypeOK
<1>2. CASE e \in Runners /\ Active(t)
  <2>1. Advance(e, t, rev) = [ex[e] EXCEPT !.pc = "settling", !.rev = rev]
    BY <1>2 DEF Advance
  <2>2. QED  BY <1>1, <1>2, <2>1 DEF Controls, Pcs
<1>3. CASE ~(e \in Runners /\ Active(t))
  <2>1. Advance(e, t, rev) = Continue(e)  BY <1>3 DEF Advance
  <2>2. QED  BY <1>3, <2>1, ContinueType
<1>4. QED  BY <1>2, <1>3

LEMMA SettledType ==
    ASSUME TypeOK, NEW e \in Executors, NEW status \in Statuses
    PROVE  /\ Settled(e, status) \in [1 .. MaxRows -> Rows]
           /\ \A i \in 1 .. MaxRows :
                /\ rows[i] = NoRow => Settled(e, status)[i] = NoRow
                /\ \/ Settled(e, status)[i] = NoRow
                   \/ /\ Settled(e, status)[i].task = rows[i].task
                      /\ Settled(e, status)[i].occ = rows[i].occ
                      /\ Settled(e, status)[i].status =
                            (IF i = ex[e].row THEN status ELSE rows[i].status)
<1>1. NoRow \in Rows  BY SchedulerAssumption DEF NoRow, Rows, None, Statuses
<1>2. \A i \in 1 .. MaxRows : rows[i] \in Rows  BY DEF TypeOK
<1>3. ASSUME NEW i \in 1 .. MaxRows
      PROVE  /\ Settled(e, status)[i] \in Rows
             /\ rows[i] = NoRow => Settled(e, status)[i] = NoRow
             /\ \/ Settled(e, status)[i] = NoRow
                \/ /\ Settled(e, status)[i].task = rows[i].task
                   /\ Settled(e, status)[i].occ = rows[i].occ
                   /\ Settled(e, status)[i].status =
                         (IF i = ex[e].row THEN status ELSE rows[i].status)
  <2>1. rows[i] \in Rows  BY <1>2
  <2>2. Settled(e, status)[i] =
            IF Outdated(i, ex[e].job.task) THEN NoRow
            ELSE IF i = ex[e].row /\ rows[i] # NoRow
                 THEN [rows[i] EXCEPT !.status = status] ELSE rows[i]
    BY DEF Settled
  <2>3. [rows[i] EXCEPT !.status = status] \in Rows
    BY <2>1 DEF Rows
  <2>4. CASE Outdated(i, ex[e].job.task)  BY <1>1, <2>2, <2>4
  <2>5. CASE ~Outdated(i, ex[e].job.task) /\ i = ex[e].row /\ rows[i] # NoRow
    <3>1. Settled(e, status)[i] = [rows[i] EXCEPT !.status = status]
      BY <2>2, <2>5
    <3>2. /\ Settled(e, status)[i].task = rows[i].task
          /\ Settled(e, status)[i].occ = rows[i].occ
          /\ Settled(e, status)[i].status = status
      BY <2>1, <3>1 DEF Rows
    <3>3. Settled(e, status)[i] \in Rows  BY <2>3, <3>1
    <3>4. QED  BY <2>5, <3>2, <3>3
  <2>6. CASE ~Outdated(i, ex[e].job.task) /\ ~(i = ex[e].row /\ rows[i] # NoRow)
    BY <2>1, <2>2, <2>6
  <2>7. QED  BY <2>4, <2>5, <2>6
<1>4. QED  BY <1>3 DEF Settled

LEMMA RecoverType ==
    ASSUME TypeOK
    PROVE  /\ RecoverRunning \in [1 .. MaxRows -> Rows]
           /\ \A i \in 1 .. MaxRows :
                /\ RecoverRunning[i].task = rows[i].task
                /\ RecoverRunning[i].occ = rows[i].occ
                /\ RecoverRunning[i].status # "running"
                /\ rows[i].status # "running" => RecoverRunning[i] = rows[i]
                /\ rows[i] = NoRow => RecoverRunning[i] = NoRow
<1>1. ASSUME NEW i \in 1 .. MaxRows
      PROVE  /\ RecoverRunning[i] \in Rows
             /\ RecoverRunning[i].task = rows[i].task
             /\ RecoverRunning[i].occ = rows[i].occ
             /\ RecoverRunning[i].status # "running"
             /\ rows[i].status # "running" => RecoverRunning[i] = rows[i]
             /\ rows[i] = NoRow => RecoverRunning[i] = NoRow
  <2>1. rows[i] \in Rows  BY DEF TypeOK
  <2>2. RecoverRunning[i] = IF rows[i].status = "running"
                            THEN [rows[i] EXCEPT !.status = "unknown"] ELSE rows[i]
    BY DEF RecoverRunning
  <2>8. NoRow.status # "running"  BY DEF NoRow
  <2>3. "unknown" \in Statuses  BY DEF Statuses
  <2>4. [rows[i] EXCEPT !.status = "unknown"] \in Rows  BY <2>1, <2>3 DEF Rows
  <2>5. CASE rows[i].status = "running"
    <3>1. RecoverRunning[i] = [rows[i] EXCEPT !.status = "unknown"]  BY <2>2, <2>5
    <3>2. /\ RecoverRunning[i].task = rows[i].task
          /\ RecoverRunning[i].occ = rows[i].occ
          /\ RecoverRunning[i].status = "unknown"
      BY <2>1, <3>1 DEF Rows
    <3>3. RecoverRunning[i] \in Rows  BY <2>4, <3>1
    <3>4. rows[i] # NoRow  BY <2>5, <2>8
    <3>5. QED  BY <2>5, <3>2, <3>3, <3>4
  <2>6. CASE rows[i].status # "running"  BY <2>1, <2>2, <2>6
  <2>7. QED  BY <2>5, <2>6
<1>2. QED  BY <1>1 DEF RecoverRunning

\* A runner that dies, and a request whose error is answered.
LEMMA EscapesEffect ==
    ASSUME TypeOK, NEW e \in Executors, Escapes(e)
    PROVE  /\ ex' \in [Executors -> Controls] /\ lease' \in Runners \cup {Free, Stale}
           /\ ex' = [ex EXCEPT ![e] = ex'[e]]
           /\ ex'[e] = Resting(IF e \in Runners THEN "down" ELSE "idle")
<1>1. "down" \in Pcs /\ "idle" \in Pcs  BY DEF Pcs
<1>2. Resting("down") \in Controls /\ Resting("idle") \in Controls
  BY <1>1, RestingType
<1>3. CASE e \in Runners
  <2>1. Dies(e)  BY <1>3 DEF Escapes
  <2>2. QED  BY <1>2, <1>3, <2>1 DEF Dies, TypeOK
<1>4. CASE e \notin Runners
  BY <1>2, <1>4 DEF Escapes, TypeOK
<1>5. QED  BY <1>3, <1>4

LEMMA NextRunType ==
    ASSUME NEW s, s.kind \in {"once", "every"}, s.n \in Nat \ {0}, NEW after \in Nat
    PROVE  /\ NextRun(s, after) \in Nat
           /\ s.kind = "every" => NextRun(s, after) # None
           /\ NextRun(s, after) # None => NextRun(s, after) > after
BY DEF NextRun, None

---------------------------------------------------------------------------
(* Every variable keeps its type.                                          *)

LEMMA ExTyped ==
    ASSUME Typed, NEW e \in Executors, NEW c \in Controls, ex' = [ex EXCEPT ![e] = c],
           c.pc \in Working => c.job.task \in Tasks,
           \A job \in c.queue : job.task \in Tasks
    PROVE  ex' \in [Executors -> Controls] /\ Placed'
<1>1. ex \in [Executors -> Controls] /\ Placed  BY DEF Typed, TypeOK
<1>2. ex' \in [Executors -> Controls] /\ ex'[e] = c
      /\ \A f \in Executors \ {e} : ex'[f] = ex[f]
  BY <1>1
<1>3. QED  BY <1>1, <1>2 DEF Placed

\* The task of a job under way.
LEMMA WorkingTask ==
    ASSUME Typed, NEW e \in Executors, ex[e].pc \in Working
    PROVE  /\ ex[e].job.task \in Tasks /\ ex[e].job \in Jobs /\ ex[e] \in Controls
           /\ tasks[ex[e].job.task] \in TaskRecs
BY DEF Typed, TypeOK, Placed, Controls

LEMMA RestingTyped ==
    ASSUME Typed, NEW e \in Executors, NEW pc \in Pcs \ Working,
           ex' = [ex EXCEPT ![e] = Resting(pc)]
    PROVE  ex' \in [Executors -> Controls] /\ Placed'
<1> DEFINE c == Resting(pc)
<1>1. c \in Controls /\ c.pc = pc /\ c.queue = {} /\ pc \notin Working
  BY RestingType
<1> HIDE DEF c
<1>2. ex' = [ex EXCEPT ![e] = c]  BY DEF c
<1>3. QED  BY <1>1, <1>2, ExTyped

LEMMA WriteTyped ==
    ASSUME Typed, NEW t \in Tasks, NEW new \in TaskRecs, UserWrites(t, new)
    PROVE  Typed'
<1>1. edits + 1 \in 0 .. MaxEdits
  BY SchedulerAssumption DEF UserWrites, Typed, TypeOK
<1>2. QED  BY <1>1 DEF UserWrites, Typed, TypeOK, Placed, Free, Stale

LEMMA CreatedRec ==
    ASSUME TypeOK, NEW s \in Schedules, NEW on \in BOOLEAN
    PROVE  [life |-> "active", enabled |-> on, kind |-> s.kind, n |-> s.n,
            next |-> IF on THEN NextRun(s, now) ELSE None, rev |-> 1,
            suspended |-> FALSE] \in TaskRecs
<1>1. s.kind \in {"once", "every"} /\ s.n \in Nat \ {0}  BY SchedulerAssumption
<1>2. now \in Nat  BY SchedulerAssumption DEF TypeOK
<1>3. NextRun(s, now) \in Nat  BY <1>1, <1>2, NextRunType
<1>4. QED  BY <1>1, <1>3 DEF TaskRecs, None

LEMMA CreateTyped ==
    ASSUME Typed, NEW t \in Tasks, NEW s \in Schedules, NEW on \in BOOLEAN,
           Create(t, s, on)
    PROVE  Typed'
BY CreatedRec, WriteTyped DEF Create, Typed

\* The record an update stores.
UpdatedRec(t, s, on) ==
    [tasks[t] EXCEPT !.enabled = on, !.kind = s.kind, !.n = s.n,
                     !.next = IF on THEN NextRun(s, now) ELSE None,
                     !.rev = @ + 1, !.suspended = FALSE]

LEMMA UpdateRec ==
    ASSUME TypeOK, NEW t \in Tasks, NEW s, s.kind \in {"once", "every"},
           s.n \in Nat \ {0}, NEW on \in BOOLEAN
    PROVE  LET new == UpdatedRec(t, s, on) IN
           /\ new \in TaskRecs /\ new.enabled = on /\ new.kind = s.kind
           /\ new.next = (IF on THEN NextRun(s, now) ELSE None) /\ ~new.suspended
           /\ new.life = tasks[t].life /\ new.rev = tasks[t].rev + 1
<1>1. now \in Nat /\ tasks[t] \in TaskRecs  BY SchedulerAssumption DEF TypeOK
<1> DEFINE x == IF on THEN NextRun(s, now) ELSE None
<1>2. x \in Nat  BY <1>1, NextRunType DEF None
<1>3. UpdatedRec(t, s, on)
        = [tasks[t] EXCEPT !.enabled = on, !.kind = s.kind, !.n = s.n, !.next = x,
                           !.rev = tasks[t].rev + 1, !.suspended = FALSE]
  BY <1>1 DEF UpdatedRec, TaskRecs
<1>4. UpdatedRec(t, s, on) =
        [life |-> tasks[t].life, enabled |-> on, kind |-> s.kind, n |-> s.n,
         next |-> x, rev |-> tasks[t].rev + 1, suspended |-> FALSE]
  BY <1>1, <1>3 DEF TaskRecs
<1> HIDE DEF x
<1>5. LET new == UpdatedRec(t, s, on) IN
      /\ new \in TaskRecs /\ new.enabled = on /\ new.kind = s.kind
      /\ new.next = x /\ ~new.suspended
      /\ new.life = tasks[t].life /\ new.rev = tasks[t].rev + 1
  BY <1>1, <1>2, <1>4 DEF TaskRecs
<1>6. QED  BY <1>5 DEF x

LEMMA UpdateTyped ==
    ASSUME Typed, NEW t \in Tasks, NEW s, s.kind \in {"once", "every"},
           s.n \in Nat \ {0}, NEW on \in BOOLEAN, Update(t, s, on)
    PROVE  Typed'
<1>1. UserWrites(t, UpdatedRec(t, s, on))  BY DEF Update, UpdatedRec
<1>2. UpdatedRec(t, s, on) \in TaskRecs  BY UpdateRec DEF Typed
<1>3. QED  BY <1>1, <1>2, WriteTyped

\* Edit and SetEnabled are updates.
LEMMA EditUpdates ==
    ASSUME TypeOK, NEW t \in Tasks,
           (\E s \in Schedules : Edit(t, s)) \/ (\E on \in BOOLEAN : SetEnabled(t, on))
    PROVE  \E s : \E on \in BOOLEAN :
             /\ s.kind \in {"once", "every"} /\ s.n \in Nat \ {0} /\ Update(t, s, on)
<1>1. tasks[t] \in TaskRecs  BY DEF TypeOK
<1>2. CASE \E s \in Schedules : Edit(t, s)
  <2>1. PICK s \in Schedules : Edit(t, s)  BY <1>2
  <2>2. /\ s.kind \in {"once", "every"} /\ s.n \in Nat \ {0}
        /\ tasks[t].enabled \in BOOLEAN /\ Update(t, s, tasks[t].enabled)
    BY <1>1, <2>1, SchedulerAssumption DEF Edit, TaskRecs
  <2>3. QED  BY <2>2
<1>3. CASE \E on \in BOOLEAN : SetEnabled(t, on)
  <2>1. PICK on \in BOOLEAN : SetEnabled(t, on)  BY <1>3
  <2> DEFINE s == [kind |-> tasks[t].kind, n |-> tasks[t].n]
  <2>2. s.kind \in {"once", "every"} /\ s.n \in Nat \ {0} /\ Update(t, s, on)
    BY <1>1, <2>1 DEF SetEnabled, TaskRecs
  <2> HIDE DEF s
  <2>3. QED  BY <2>2
<1>4. QED  BY <1>2, <1>3

DeletedRec(t) ==
    [tasks[t] EXCEPT !.life = "deleted", !.enabled = FALSE, !.next = None, !.rev = @ + 1]

LEMMA DeleteRec ==
    ASSUME TypeOK, NEW t \in Tasks
    PROVE  DeletedRec(t) \in TaskRecs /\ DeletedRec(t).life = "deleted"
<1>1. tasks[t] \in TaskRecs  BY DEF TypeOK
<1>2. DeletedRec(t) =
        [life |-> "deleted", enabled |-> FALSE, kind |-> tasks[t].kind,
         n |-> tasks[t].n, next |-> None, rev |-> tasks[t].rev + 1,
         suspended |-> tasks[t].suspended]
  <2>1. DeletedRec(t) = [tasks[t] EXCEPT !.life = "deleted", !.enabled = FALSE,
                                         !.next = None, !.rev = tasks[t].rev + 1]
    BY <1>1 DEF DeletedRec, TaskRecs
  <2>2. QED  BY <1>1, <2>1 DEF TaskRecs
<1>3. tasks[t].rev + 1 \in Nat  BY <1>1 DEF TaskRecs
<1>4. QED  BY <1>1, <1>2, <1>3 DEF TaskRecs, None

LEMMA DeleteTyped ==
    ASSUME Typed, NEW t \in Tasks, Delete(t)
    PROVE  Typed'
<1>1. UserWrites(t, DeletedRec(t))  BY DEF Delete, DeletedRec
<1>2. DeletedRec(t) \in TaskRecs  BY DeleteRec DEF Typed
<1>3. QED  BY <1>1, <1>2, WriteTyped

\* What a claim changes.
LEMMA ClaimEffect ==
    ASSUME Typed, NEW e \in Executors, NEW job \in Jobs, job.task \in Tasks,
           NEW occ \in Nat, NEW queue \in SUBSET ex[e].queue, Claim(e, job, occ, queue)
    PROVE  LET row == [task |-> job.task, occ |-> occ, status |-> "running"]
               c == [pc |-> "claimed", job |-> job, queue |-> queue,
                     row |-> claims + 1, at |-> now, rev |-> 0] IN
           /\ claims' = claims + 1 /\ claims' \in 0 .. MaxRows
           /\ claims + 1 \in 1 .. MaxRows /\ rows'[claims + 1] = row
           /\ \A i \in 1 .. MaxRows : i # claims + 1 => rows'[i] = rows[i]
           /\ ex' = [ex EXCEPT ![e] = c] /\ ex'[e] = c
           /\ rows' \in [1 .. MaxRows -> Rows] /\ ex' \in [Executors -> Controls] /\ Placed'
<1> DEFINE row == [task |-> job.task, occ |-> occ, status |-> "running"]
           c == [pc |-> "claimed", job |-> job, queue |-> queue,
                 row |-> claims + 1, at |-> now, rev |-> 0]
<1>1. claims + 1 \in 1 .. MaxRows /\ now \in Nat
  BY SchedulerAssumption DEF Claim, Typed, TypeOK
<1>2. row \in Rows  BY DEF Rows, Statuses, Jobs
<1>3. rows' = [rows EXCEPT ![claims + 1] = row] /\ rows \in [1 .. MaxRows -> Rows]
  BY DEF Claim, Typed, TypeOK
<1>4. ex[e].queue \in SUBSET Jobs /\ \A k \in ex[e].queue : k.task \in Tasks
  BY DEF Typed, TypeOK, Controls, Placed
<1>5. c \in Controls  BY <1>1, <1>4 DEF Controls, Pcs
<1>6. ex' = [ex EXCEPT ![e] = c]  BY DEF Claim
<1>7. /\ c.pc \in Working => c.job.task \in Tasks
      /\ \A k \in c.queue : k.task \in Tasks
  BY <1>4
<1> HIDE DEF c, row
<1>8. ex' \in [Executors -> Controls] /\ Placed'  BY <1>5, <1>6, <1>7, ExTyped
<1>9. ex'[e] = c  BY <1>6 DEF Typed, TypeOK
<1>10. rows' \in [1 .. MaxRows -> Rows] /\ rows'[claims + 1] = row
       /\ \A i \in 1 .. MaxRows : i # claims + 1 => rows'[i] = rows[i]
  BY <1>1, <1>2, <1>3
<1>11. claims' = claims + 1 /\ claims' \in 0 .. MaxRows  BY <1>1 DEF Claim
<1>12. QED  BY <1>1, <1>6, <1>8, <1>9, <1>10, <1>11 DEF c, row

LEMMA RunNowJob ==
    ASSUME TypeOK, NEW t \in Tasks
    PROVE  LET job == [Job(t) EXCEPT !.planned = now] IN
           job \in Jobs /\ job.task = t
<1>1. Job(t) \in Jobs /\ Job(t).task = t /\ now \in Nat
  BY JobType, SchedulerAssumption DEF TypeOK
<1>2. QED  BY <1>1 DEF Jobs

LEMMA RunNowTyped ==
    ASSUME Typed, NEW w \in Webs, NEW t \in Tasks, RunNow(w, t)
    PROVE  Typed'
<1>1. w \in Executors /\ None \in Nat  BY DEF Executors, None
<1>2. [Job(t) EXCEPT !.planned = now] \in Jobs /\ [Job(t) EXCEPT !.planned = now].task \in Tasks
  BY RunNowJob DEF Typed
<1>3. Claim(w, [Job(t) EXCEPT !.planned = now], None, {})  BY DEF RunNow
<1>4. claims' \in 0 .. MaxRows /\ rows' \in [1 .. MaxRows -> Rows]
      /\ ex' \in [Executors -> Controls] /\ Placed'
  <2> DEFINE job == [Job(t) EXCEPT !.planned = now]
  <2>1. {} \in SUBSET ex[w].queue  OBVIOUS
  <2>2. job \in Jobs /\ job.task \in Tasks /\ Claim(w, job, None, {})
    BY <1>2, <1>3
  <2> HIDE DEF job
  <2>3. QED  BY <1>1, <2>1, <2>2, ClaimEffect
<1>5. UNCHANGED <<now, tasks, lease, barred, edits, started>>  BY DEF RunNow
<1>6. QED  BY <1>4, <1>5 DEF Typed, TypeOK

LEMMA ClaimDueTyped ==
    ASSUME Typed, NEW r \in Runners, ClaimDue(r)
    PROVE  Typed'
<1>1. r \in Executors  BY DEF Executors
<1>2. PICK job \in ex[r].queue :
        IF Taken(job.task, job.planned)
        THEN Escapes(r) /\ UNCHANGED <<rows, claims>>
        ELSE Claim(r, job, job.planned, ex[r].queue \ {job}) /\ UNCHANGED lease
  BY DEF ClaimDue
<1>3. job \in Jobs /\ job.task \in Tasks /\ job.planned \in Nat
  BY <1>1, <1>2 DEF Typed, TypeOK, Controls, Placed, Jobs
<1>4. UNCHANGED <<now, tasks, barred, edits, started>>  BY DEF ClaimDue
<1>5. CASE Taken(job.task, job.planned)
  <2>1. Escapes(r) /\ UNCHANGED <<rows, claims>>  BY <1>2, <1>5
  <2>2. /\ ex' = [ex EXCEPT ![r] = ex'[r]] /\ ex'[r] = Resting("down")
        /\ lease' \in Runners \cup {Free, Stale}
    BY <1>1, <2>1, EscapesEffect DEF Typed
  <2>3. "down" \in Pcs \ Working  BY DEF Pcs, Working
  <2>4. ex' \in [Executors -> Controls] /\ Placed'
    BY <1>1, <2>2, <2>3, RestingTyped
  <2>5. QED  BY <1>4, <2>1, <2>2, <2>4 DEF Typed, TypeOK
<1>6. CASE ~Taken(job.task, job.planned)
  <2>1. Claim(r, job, job.planned, ex[r].queue \ {job}) /\ UNCHANGED lease
    BY <1>2, <1>6
  <2>2. claims' \in 0 .. MaxRows /\ rows' \in [1 .. MaxRows -> Rows]
        /\ ex' \in [Executors -> Controls] /\ Placed'
    <3>1. ex[r].queue \ {job} \in SUBSET ex[r].queue  OBVIOUS
    <3>2. QED  BY <1>1, <1>3, <2>1, <3>1, ClaimEffect
  <2>3. QED  BY <1>4, <2>1, <2>2 DEF Typed, TypeOK
<1>7. QED  BY <1>5, <1>6

LEMMA RunnerStartsTyped ==
    ASSUME Typed, NEW r \in Runners, RunnerStarts(r)
    PROVE  Typed'
<1>1. r \in Executors /\ "idle" \in Pcs \ Working  BY DEF Executors, Pcs, Working
<1>2. ex' \in [Executors -> Controls] /\ Placed'
  BY <1>1, RestingTyped DEF RunnerStarts
<1>3. rows' \in [1 .. MaxRows -> Rows]  BY RecoverType DEF RunnerStarts, Typed
<1>4. QED  BY <1>2, <1>3 DEF RunnerStarts, Typed, TypeOK

LEMMA RunnerStopsTyped ==
    ASSUME Typed, NEW r \in Runners, RunnerStops(r) \/ Crash(r)
    PROVE  Typed'
<1>1. r \in Executors /\ "down" \in Pcs \ Working  BY DEF Executors, Pcs, Working
<1>2. ex' = [ex EXCEPT ![r] = Resting("down")] /\ lease' \in {Free, Stale, lease}
      /\ UNCHANGED <<now, tasks, rows, claims, barred, edits, started>>
  BY DEF RunnerStops, Crash, Dies
<1>3. ex' \in [Executors -> Controls] /\ Placed'
  BY <1>1, <1>2, RestingTyped
<1>4. QED  BY <1>2, <1>3 DEF Typed, TypeOK

\* The jobs a poll finds.
LEMMA PollEffect ==
    ASSUME Typed, NEW r \in Runners, Poll(r)
    PROVE  /\ ex' = [ex EXCEPT ![r] = ex'[r]] /\ lease' = r
           /\ UNCHANGED <<now, tasks, rows, claims, barred, edits, started>>
           /\ \/ ex'[r] = ex[r]
              \/ /\ ex'[r].pc = "pass" /\ ex'[r].job = NoJob /\ ex'[r].row = 0
                 /\ ex'[r].queue = {Job(t) : t \in {u \in Tasks : Due(u)}}
           /\ ex'[r] \in Controls
           /\ \A job \in {Job(t) : t \in {u \in Tasks : Due(u)}} :
                job \in Jobs /\ job.task \in Tasks
<1>1. r \in Executors /\ ex \in [Executors -> Controls]
  BY DEF Executors, Typed, TypeOK
<1> DEFINE queue == {Job(t) : t \in {u \in Tasks : Due(u)}}
<1>2. \A job \in queue : job \in Jobs /\ job.task \in Tasks
  BY JobType DEF Typed
<1>3. /\ Passing(queue) \in Controls /\ Passing(queue).pc = "pass"
      /\ Passing(queue).queue = queue /\ Passing(queue).job = NoJob
      /\ Passing(queue).row = 0
  BY <1>2, PassingType
<1>4. ex' = ex \/ ex' = [ex EXCEPT ![r] = Passing(queue)]  BY DEF Poll
<1>5. UNCHANGED <<now, tasks, rows, claims, barred, edits, started>> /\ lease' = r
  BY DEF Poll
<1> HIDE DEF queue
<1>6. CASE ex' = ex
  <2>1. ex' = [ex EXCEPT ![r] = ex'[r]] /\ ex'[r] = ex[r] /\ ex'[r] \in Controls
    BY <1>1, <1>6
  <2>2. QED  BY <1>2, <1>5, <2>1 DEF queue
<1>7. CASE ex' = [ex EXCEPT ![r] = Passing(queue)]
  <2>1. ex' = [ex EXCEPT ![r] = ex'[r]] /\ ex'[r] = Passing(queue)
    BY <1>1, <1>7
  <2>2. QED  BY <1>2, <1>3, <1>5, <2>1 DEF queue
<1>8. QED  BY <1>4, <1>6, <1>7

LEMMA PollTyped ==
    ASSUME Typed, NEW r \in Runners, Poll(r)
    PROVE  Typed'
<1>1. r \in Executors  BY DEF Executors
<1>2. /\ ex' = [ex EXCEPT ![r] = ex'[r]] /\ lease' = r /\ ex'[r] \in Controls
      /\ UNCHANGED <<now, tasks, rows, claims, barred, edits, started>>
  BY PollEffect
<1>3. /\ ex'[r].pc \in Working => ex'[r].job.task \in Tasks
      /\ \A job \in ex'[r].queue : job.task \in Tasks
  <2>1. CASE ex'[r] = ex[r]  BY <1>1, <2>1 DEF Typed, Placed
  <2>2. CASE ex'[r] # ex[r]  BY <2>2, PollEffect DEF Working
  <2>3. QED  BY <2>1, <2>2
<1>4. ex' \in [Executors -> Controls] /\ Placed'
  <2> DEFINE c == ex'[r]
  <2>1. /\ c \in Controls /\ ex' = [ex EXCEPT ![r] = c]
        /\ c.pc \in Working => c.job.task \in Tasks
        /\ \A job \in c.queue : job.task \in Tasks
    BY <1>2, <1>3
  <2> HIDE DEF c
  <2>2. QED  BY <1>1, <2>1, ExTyped
<1>5. QED  BY <1>2, <1>4 DEF Typed, TypeOK

\* What the end of an execution changes.
LEMMA FinishEffect ==
    ASSUME Typed, NEW e \in Executors, ex[e].pc \in Working,
           NEW status \in Statuses \ {"running"}, FinishAndAdvance(e, status)
    PROVE  /\ rows' = Settled(e, status) /\ rows' \in [1 .. MaxRows -> Rows]
           /\ ex' = [ex EXCEPT ![e] = ex'[e]]
           /\ ex'[e] = Advance(e, ex[e].job.task, tasks[ex[e].job.task].rev)
           /\ ex' \in [Executors -> Controls] /\ Placed'
           /\ UNCHANGED <<now, tasks, claims, lease, barred, edits, started>>
<1>1. ex[e].job.task \in Tasks /\ tasks[ex[e].job.task] \in TaskRecs
  BY WorkingTask
<1> DEFINE c == Advance(e, ex[e].job.task, tasks[ex[e].job.task].rev)
<1>2. /\ c \in Controls /\ c.pc \in {"idle", "pass", "settling"}
      /\ c.queue = ex[e].queue /\ (c.pc = "settling" => c.job = ex[e].job)
  <2>1. tasks[ex[e].job.task].rev \in Nat  BY <1>1 DEF TaskRecs
  <2>2. QED  BY <2>1, AdvanceType DEF Typed
<1>3. rows' = Settled(e, status) /\ ex' = [ex EXCEPT ![e] = c]
      /\ UNCHANGED <<now, tasks, claims, lease, barred, edits, started>>
  BY DEF FinishAndAdvance
<1>4. rows' \in [1 .. MaxRows -> Rows]  BY <1>3, SettledType DEF Typed
<1> HIDE DEF c
<1>5. /\ c.pc \in Working => c.job.task \in Tasks
      /\ \A job \in c.queue : job.task \in Tasks
  <2>1. \A job \in ex[e].queue : job.task \in Tasks  BY DEF Typed, Placed
  <2>2. "idle" \notin Working /\ "pass" \notin Working  BY DEF Working
  <2>3. QED  BY <1>1, <1>2, <2>1, <2>2
<1>6. ex' \in [Executors -> Controls] /\ Placed'  BY <1>2, <1>3, <1>5, ExTyped
<1>7. ex'[e] = c /\ ex' = [ex EXCEPT ![e] = ex'[e]]
  BY <1>3 DEF Typed, TypeOK
<1>8. QED  BY <1>3, <1>4, <1>6, <1>7 DEF c

\* The three actions that end an execution.
Finishes(e) == Overlaps(e) \/ Misfires(e) \/ AdapterReturns(e)

LEMMA FinishesEffect ==
    ASSUME Typed, NEW e \in Executors, Finishes(e)
    PROVE  /\ ex[e].pc \in {"claimed", "exec"}
           /\ \E status \in Statuses \ {"running"} : FinishAndAdvance(e, status)
<1>1. CASE Overlaps(e)  BY <1>1 DEF Overlaps, Statuses
<1>2. CASE Misfires(e)  BY <1>2 DEF Misfires, Statuses
<1>3. CASE AdapterReturns(e)
  <2>1. PICK status \in {"succeeded", "failed"} : FinishAndAdvance(e, status)
    BY <1>3 DEF AdapterReturns
  <2>2. ex[e].pc = "exec" /\ status \in Statuses \ {"running"}
    BY <1>3 DEF AdapterReturns, Statuses
  <2>3. QED  BY <2>1, <2>2
<1>4. QED  BY <1>1, <1>2, <1>3 DEF Finishes

LEMMA FinishesTyped ==
    ASSUME Typed, NEW e \in Executors, Finishes(e)
    PROVE  Typed'
<1>1. PICK status \in Statuses \ {"running"} : FinishAndAdvance(e, status)
  BY FinishesEffect
<1>2. ex[e].pc \in Working  BY FinishesEffect DEF Working
<1>3. QED  BY <1>1, <1>2, FinishEffect DEF Typed, TypeOK

\* What a refusal changes.
LEMMA RefusesEffect ==
    ASSUME Typed, NEW e \in Executors, Refuses(e)
    PROVE  /\ ex[e].pc = "claimed"
           /\ rows' = Settled(e, "refused") /\ rows' \in [1 .. MaxRows -> Rows]
           /\ ex' = [ex EXCEPT ![e] = ex'[e]] /\ ex'[e].queue = ex[e].queue
           /\ \/ /\ Active(ex[e].job.task) /\ ex'[e].pc = "suspending"
                 /\ ex'[e].job = ex[e].job
                 /\ ex'[e].rev = tasks[ex[e].job.task].rev
              \/ /\ ~Active(ex[e].job.task) /\ ex'[e].pc \in {"idle", "pass"}
                 /\ ex'[e].job = NoJob
           /\ ex' \in [Executors -> Controls] /\ Placed'
           /\ UNCHANGED <<now, tasks, claims, lease, barred, edits, started>>
<1>1. ex[e].pc = "claimed" /\ ex[e].pc \in Working  BY DEF Refuses, Working
<1>2. ex[e].job.task \in Tasks /\ tasks[ex[e].job.task] \in TaskRecs
      /\ ex[e] \in Controls
  BY <1>1, WorkingTask
<1> DEFINE c == IF Active(ex[e].job.task)
                THEN [ex[e] EXCEPT !.pc = "suspending",
                                   !.rev = tasks[ex[e].job.task].rev]
                ELSE Continue(e)
<1>3. rows' = Settled(e, "refused") /\ ex' = [ex EXCEPT ![e] = c]
      /\ UNCHANGED <<now, tasks, claims, lease, barred, edits, started>>
  BY DEF Refuses
<1>4. rows' \in [1 .. MaxRows -> Rows]
  <2>1. "refused" \in Statuses  BY DEF Statuses
  <2>2. QED  BY <1>3, <2>1, SettledType DEF Typed
<1>5. /\ c \in Controls /\ c.queue = ex[e].queue
      /\ \/ /\ Active(ex[e].job.task) /\ c.pc = "suspending"
            /\ c.job = ex[e].job /\ c.rev = tasks[ex[e].job.task].rev
         \/ /\ ~Active(ex[e].job.task) /\ c.pc \in {"idle", "pass"}
            /\ c.job = NoJob
  <2>1. CASE Active(ex[e].job.task)
    <3>1. c = [ex[e] EXCEPT !.pc = "suspending", !.rev = tasks[ex[e].job.task].rev]
      BY <2>1
    <3>2. tasks[ex[e].job.task].rev \in Nat /\ "suspending" \in Pcs
      BY <1>2 DEF TaskRecs, Pcs
    <3>3. QED  BY <1>2, <2>1, <3>1, <3>2 DEF Controls
  <2>2. CASE ~Active(ex[e].job.task)
    BY <2>2, ContinueType DEF Typed
  <2>3. QED  BY <2>1, <2>2
<1> HIDE DEF c
<1>6. /\ c.pc \in Working => c.job.task \in Tasks
      /\ \A job \in c.queue : job.task \in Tasks
  BY <1>2, <1>5 DEF Typed, Placed, Working
<1>7. ex' \in [Executors -> Controls] /\ Placed'  BY <1>3, <1>5, <1>6, ExTyped
<1>8. ex'[e] = c /\ ex' = [ex EXCEPT ![e] = ex'[e]]
  BY <1>3 DEF Typed, TypeOK
<1>9. QED  BY <1>1, <1>3, <1>4, <1>5, <1>7, <1>8

\* The record _suspend writes.
LEMMA SuspendRec ==
    ASSUME NEW rec \in TaskRecs
    PROVE  /\ Suspended(rec) \in TaskRecs /\ Suspended(rec).life = rec.life
           /\ ~Suspended(rec).enabled /\ Suspended(rec).next = None
           /\ Suspended(rec).kind = rec.kind /\ Suspended(rec).rev = rec.rev + 1
<1>1. Suspended(rec) =
        [life |-> rec.life, enabled |-> FALSE, kind |-> rec.kind, n |-> rec.n,
         next |-> None, rev |-> rec.rev + 1, suspended |-> TRUE]
  <2>1. Suspended(rec) = [rec EXCEPT !.enabled = FALSE, !.next = None,
                                     !.suspended = TRUE, !.rev = rec.rev + 1]
    BY DEF Suspended, TaskRecs
  <2>2. QED  BY <2>1 DEF TaskRecs
<1>2. rec.rev + 1 \in Nat  BY DEF TaskRecs
<1>3. QED  BY <1>1, <1>2 DEF TaskRecs, None

LEMMA SuspendEffect ==
    ASSUME Typed, NEW e \in Executors, SuspendWrites(e)
    PROVE  LET t == ex[e].job.task IN
           /\ ex[e].pc = "suspending" /\ t \in Tasks
           /\ ex' = [ex EXCEPT ![e] = ex'[e]]
           /\ ex' \in [Executors -> Controls] /\ Placed'
           /\ UNCHANGED <<now, rows, claims, barred, edits, started>>
           /\ \/ /\ tasks' = [tasks EXCEPT ![t] = Suspended(tasks[t])] /\ lease' = lease
                 /\ tasks[t].rev = ex[e].rev
                 /\ ex'[e] = Advance(e, t, tasks[t].rev + 1)
              \/ Escapes(e) /\ UNCHANGED tasks /\ tasks[t].rev # ex[e].rev
<1> DEFINE t == ex[e].job.task
           c == Advance(e, t, tasks[t].rev + 1)
<1>1. ex[e].pc = "suspending" /\ ex[e].pc \in Working
      /\ UNCHANGED <<now, rows, claims, barred, edits, started>>
  BY DEF SuspendWrites, Working
<1>2. t \in Tasks /\ tasks[t] \in TaskRecs  BY <1>1, WorkingTask
<1>3. CASE tasks[t].rev = ex[e].rev
  <2>1. tasks' = [tasks EXCEPT ![t] = Suspended(tasks[t])] /\ lease' = lease
        /\ ex' = [ex EXCEPT ![e] = c]
    BY <1>2, <1>3 DEF SuspendWrites, Typed, TypeOK
  <2>2. tasks[t].rev + 1 \in Nat  BY <1>2 DEF TaskRecs
  <2>3. /\ c \in Controls /\ c.pc \in {"idle", "pass", "settling"}
        /\ c.queue = ex[e].queue /\ (c.pc = "settling" => c.job = ex[e].job)
    BY <2>2, AdvanceType DEF Typed
  <2>4. ex'[e] = c /\ ex' = [ex EXCEPT ![e] = ex'[e]]
    BY <2>1 DEF Typed, TypeOK
  <2> HIDE DEF c
  <2>5. /\ c.pc \in Working => c.job.task \in Tasks
        /\ \A job \in c.queue : job.task \in Tasks
    <3>1. \A job \in ex[e].queue : job.task \in Tasks  BY DEF Typed, Placed
    <3>2. "idle" \notin Working /\ "pass" \notin Working  BY DEF Working
    <3>3. QED  BY <1>2, <2>3, <3>1, <3>2
  <2>6. ex' \in [Executors -> Controls] /\ Placed'  BY <2>1, <2>3, <2>5, ExTyped
  <2>7. QED  BY <1>1, <1>2, <1>3, <2>1, <2>4, <2>6 DEF c
<1>4. CASE tasks[t].rev # ex[e].rev
  <2>1. Escapes(e) /\ UNCHANGED tasks  BY <1>4 DEF SuspendWrites
  <2>2. /\ ex' = [ex EXCEPT ![e] = ex'[e]]
        /\ ex'[e] = Resting(IF e \in Runners THEN "down" ELSE "idle")
    BY <2>1, EscapesEffect DEF Typed
  <2>3. (IF e \in Runners THEN "down" ELSE "idle") \in Pcs \ Working
    BY DEF Pcs, Working
  <2>4. ex' \in [Executors -> Controls] /\ Placed'
    BY <2>2, <2>3, RestingTyped
  <2>5. QED  BY <1>1, <1>2, <1>4, <2>1, <2>2, <2>4
<1>5. QED  BY <1>3, <1>4

LEMMA SuspendTyped ==
    ASSUME Typed, NEW e \in Executors, SuspendWrites(e)
    PROVE  Typed'
<1> DEFINE t == ex[e].job.task
<1>1. /\ t \in Tasks /\ ex' \in [Executors -> Controls] /\ Placed'
      /\ UNCHANGED <<now, rows, claims, barred, edits, started>>
      /\ \/ tasks' = [tasks EXCEPT ![t] = Suspended(tasks[t])] /\ lease' = lease
         \/ Escapes(e) /\ UNCHANGED tasks
  BY SuspendEffect
<1>2. Suspended(tasks[t]) \in TaskRecs  BY <1>1, SuspendRec DEF Typed, TypeOK
<1>3. tasks' \in [Tasks -> TaskRecs] /\ lease' \in Runners \cup {Free, Stale}
  <2>1. CASE tasks' = [tasks EXCEPT ![t] = Suspended(tasks[t])] /\ lease' = lease
    BY <1>1, <1>2, <2>1 DEF Typed, TypeOK
  <2>2. CASE Escapes(e) /\ UNCHANGED tasks
    BY <2>2, EscapesEffect DEF Typed, TypeOK
  <2>3. QED  BY <1>1, <2>1, <2>2
<1>4. QED  BY <1>1, <1>3 DEF Typed, TypeOK

LEMMA BeginEffect ==
    ASSUME Typed, NEW e \in Executors, Begin(e)
    PROVE  /\ ex[e].pc = "claimed"
           /\ ex' = [ex EXCEPT ![e] = ex'[e]] /\ ex'[e].pc = "exec"
           /\ ex'[e].job = ex[e].job /\ ex'[e].queue = ex[e].queue
           /\ ex'[e].row = ex[e].row
           /\ ex' \in [Executors -> Controls] /\ Placed'
           /\ started' \subseteq Tasks \X Nat
           /\ started' = (IF e \in Runners
                          THEN started \cup {<<ex[e].job.task, ex[e].job.planned>>}
                          ELSE started)
           /\ UNCHANGED <<now, tasks, rows, claims, lease, barred, edits>>
<1> DEFINE c == [ex[e] EXCEPT !.pc = "exec"]
<1>1. ex[e].pc = "claimed" /\ ex[e].pc \in Working  BY DEF Begin, Working
<1>2. ex[e].job.task \in Tasks /\ ex[e].job \in Jobs /\ ex[e] \in Controls
  BY <1>1, WorkingTask
<1>3. /\ c \in Controls /\ c.pc = "exec" /\ c.job = ex[e].job
      /\ c.queue = ex[e].queue /\ c.row = ex[e].row
  BY <1>2 DEF Controls, Pcs
<1>4. ex' = [ex EXCEPT ![e] = c]  BY DEF Begin, Typed, TypeOK
<1> HIDE DEF c
<1>5. /\ c.pc \in Working => c.job.task \in Tasks
      /\ \A job \in c.queue : job.task \in Tasks
  BY <1>2, <1>3 DEF Typed, Placed
<1>6. ex' \in [Executors -> Controls] /\ Placed'  BY <1>3, <1>4, <1>5, ExTyped
<1>7. ex'[e] = c /\ ex' = [ex EXCEPT ![e] = ex'[e]]
  BY <1>4 DEF Typed, TypeOK
<1>8. started' = (IF e \in Runners
                  THEN started \cup {<<ex[e].job.task, ex[e].job.planned>>}
                  ELSE started)
      /\ UNCHANGED <<now, tasks, rows, claims, lease, barred, edits>>
  BY DEF Begin, Scheduled
<1>9. started' \subseteq Tasks \X Nat
  <2>1. started \subseteq Tasks \X Nat /\ ex[e].job.planned \in Nat
    BY <1>2 DEF Typed, TypeOK, Jobs
  <2>2. QED  BY <1>2, <1>8, <2>1
<1>10. QED  BY <1>1, <1>3, <1>6, <1>7, <1>8, <1>9

LEMMA BeginTyped ==
    ASSUME Typed, NEW e \in Executors, Begin(e)
    PROVE  Typed'
BY BeginEffect DEF Typed, TypeOK

\* The record run_due stores.
LEMMA AdvancedRec ==
    ASSUME NEW rec \in TaskRecs, NEW job \in Jobs
    PROVE  LET new == Advanced(rec, job) IN
           /\ new \in TaskRecs /\ new.life = rec.life /\ new.rev = rec.rev + 1
           /\ new.kind = rec.kind /\ new.suspended = rec.suspended
           /\ new.enabled => rec.enabled /\ new.next # None
           /\ new.next # None => new.next > job.planned
<1> DEFINE next == IF job.kind = "once" THEN None ELSE NextRun(job, job.planned)
           on == rec.enabled /\ next # None
<1>1. /\ job.kind \in {"once", "every"} /\ job.n \in Nat \ {0} /\ job.planned \in Nat
  BY DEF Jobs
<1>2. /\ NextRun(job, job.planned) \in Nat
      /\ NextRun(job, job.planned) # None => NextRun(job, job.planned) > job.planned
  BY <1>1, NextRunType
<1>3. next \in Nat /\ (next # None => next > job.planned)
  BY <1>1, <1>2 DEF None
<1>4. on \in BOOLEAN /\ (on => rec.enabled /\ next # None)
  BY DEF TaskRecs
<1>5. Advanced(rec, job) = [rec EXCEPT !.enabled = on, !.next = next, !.rev = rec.rev + 1]
  BY DEF Advanced, TaskRecs
<1> HIDE DEF next, on
<1>6. Advanced(rec, job) =
        [life |-> rec.life, enabled |-> on, kind |-> rec.kind, n |-> rec.n,
         next |-> next, rev |-> rec.rev + 1, suspended |-> rec.suspended]
  BY <1>5 DEF TaskRecs
<1>7. Advanced(rec, job) \in TaskRecs  BY <1>3, <1>4, <1>6 DEF TaskRecs
<1>8. QED  BY <1>3, <1>4, <1>6, <1>7

LEMMA SettleEffect ==
    ASSUME Typed, NEW r \in Runners, Settle(r)
    PROVE  LET t == ex[r].job.task IN
           /\ r \in Executors /\ ex[r].pc = "settling" /\ t \in Tasks
           /\ ex' = [ex EXCEPT ![r] = ex'[r]]
           /\ ex' \in [Executors -> Controls] /\ Placed'
           /\ UNCHANGED <<now, rows, claims, barred, edits, started>>
           /\ \/ /\ tasks' = [tasks EXCEPT ![t] = Advanced(tasks[t], ex[r].job)]
                 /\ lease' = lease /\ tasks[t].rev = ex[r].rev
                 /\ ex'[r] = Continue(r)
              \/ Escapes(r) /\ UNCHANGED tasks /\ tasks[t].rev # ex[r].rev
<1> DEFINE t == ex[r].job.task
           c == Continue(r)
<1>1. ex[r].pc = "settling" /\ ex[r].pc \in Working /\ r \in Executors
      /\ UNCHANGED <<now, rows, claims, barred, edits, started>>
  BY DEF Settle, Working, Executors
<1>2. t \in Tasks /\ tasks[t] \in TaskRecs  BY <1>1, WorkingTask
<1>3. CASE tasks[t].rev = ex[r].rev
  <2>1. tasks' = [tasks EXCEPT ![t] = Advanced(tasks[t], ex[r].job)] /\ lease' = lease
        /\ ex' = [ex EXCEPT ![r] = c]
    BY <1>2, <1>3 DEF Settle, Typed, TypeOK
  <2>2. c \in Controls /\ c.pc \in {"idle", "pass"} /\ c.queue = ex[r].queue
    BY <1>1, ContinueType DEF Typed
  <2>3. ex'[r] = c /\ ex' = [ex EXCEPT ![r] = ex'[r]]
    BY <1>1, <2>1 DEF Typed, TypeOK
  <2> HIDE DEF c
  <2>4. /\ c.pc \in Working => c.job.task \in Tasks
        /\ \A job \in c.queue : job.task \in Tasks
    BY <1>1, <2>2 DEF Typed, Placed, Working
  <2>5. ex' \in [Executors -> Controls] /\ Placed'
    BY <1>1, <2>1, <2>2, <2>4, ExTyped
  <2>6. QED  BY <1>1, <1>2, <1>3, <2>1, <2>3, <2>5 DEF c
<1>4. CASE tasks[t].rev # ex[r].rev
  <2>1. Escapes(r) /\ UNCHANGED tasks  BY <1>4 DEF Settle
  <2>2. ex' = [ex EXCEPT ![r] = ex'[r]] /\ ex'[r] = Resting("down")
    BY <1>1, <2>1, EscapesEffect DEF Typed
  <2>3. "down" \in Pcs \ Working  BY DEF Pcs, Working
  <2>4. ex' \in [Executors -> Controls] /\ Placed'
    BY <1>1, <2>2, <2>3, RestingTyped
  <2>5. QED  BY <1>1, <1>2, <1>4, <2>1, <2>2, <2>4
<1>5. QED  BY <1>3, <1>4

LEMMA SettleTyped ==
    ASSUME Typed, NEW r \in Runners, Settle(r)
    PROVE  Typed'
<1> DEFINE t == ex[r].job.task
<1>1. /\ r \in Executors /\ t \in Tasks /\ ex[r].pc = "settling"
      /\ ex' \in [Executors -> Controls] /\ Placed'
      /\ UNCHANGED <<now, rows, claims, barred, edits, started>>
      /\ \/ tasks' = [tasks EXCEPT ![t] = Advanced(tasks[t], ex[r].job)] /\ lease' = lease
         \/ Escapes(r) /\ UNCHANGED tasks
  BY SettleEffect
<1>2. Advanced(tasks[t], ex[r].job) \in TaskRecs
  <2>1. tasks[t] \in TaskRecs /\ ex[r].job \in Jobs
    BY <1>1, WorkingTask DEF Working
  <2>2. QED  BY <2>1, AdvancedRec
<1>3. tasks' \in [Tasks -> TaskRecs] /\ lease' \in Runners \cup {Free, Stale}
  <2>1. CASE tasks' = [tasks EXCEPT ![t] = Advanced(tasks[t], ex[r].job)] /\ lease' = lease
    BY <1>1, <1>2, <2>1 DEF Typed, TypeOK
  <2>2. CASE Escapes(r) /\ UNCHANGED tasks
    BY <1>1, <2>2, EscapesEffect DEF Typed, TypeOK
  <2>3. QED  BY <1>1, <2>1, <2>2
<1>4. QED  BY <1>1, <1>3 DEF Typed, TypeOK

\* What a crash of the web process changes.
LEMMA WebCrashEffect ==
    ASSUME Typed, WebCrash
    PROVE  /\ ex' \in [Executors -> Controls] /\ Placed'
           /\ \A e \in Webs : ex'[e] = Resting("idle")
           /\ \A e \in Runners : ex'[e] = ex[e]
           /\ UNCHANGED <<now, tasks, rows, claims, lease, barred, edits, started>>
<1> DEFINE c == Resting("idle")
<1>1. c \in Controls /\ c.pc = "idle" /\ c.queue = {}
  BY RestingType DEF Pcs
<1>2. ex' = [e \in Executors |-> IF e \in Webs THEN c ELSE ex[e]]
      /\ UNCHANGED <<now, tasks, rows, claims, lease, barred, edits, started>>
  BY DEF WebCrash
<1> HIDE DEF c
<1>3. ex' \in [Executors -> Controls]  BY <1>1, <1>2 DEF Typed, TypeOK
<1>4. Placed'
  <2>1. ASSUME NEW e \in Executors
        PROVE  /\ ex'[e].pc \in Working => ex'[e].job.task \in Tasks
               /\ \A job \in ex'[e].queue : job.task \in Tasks
    <3>1. CASE e \in Webs  BY <1>1, <1>2, <3>1 DEF Working
    <3>2. CASE e \notin Webs  BY <1>2, <3>2 DEF Typed, Placed
    <3>3. QED  BY <3>1, <3>2
  <2>2. QED  BY <2>1 DEF Placed
<1>5. (\A e \in Webs : ex'[e] = c) /\ (\A e \in Runners : ex'[e] = ex[e])
  BY <1>2, SchedulerAssumption DEF Executors
<1>6. QED  BY <1>2, <1>3, <1>4, <1>5 DEF c

\* The steps that touch neither tasks, rows nor executors.
Ambient == \/ LeaseLapses \/ Tick
           \/ \E t \in Tasks : OwnerChanges(t) \/ Deploy(t)

LEMMA AmbientTyped ==
    ASSUME Typed, Ambient
    PROVE  /\ Typed' /\ UNCHANGED <<tasks, rows, claims, ex, edits, started>>
           /\ now' \in {now, now + 1}
<1>1. now \in Nat  BY SchedulerAssumption DEF Typed, TypeOK
<1>2. CASE LeaseLapses
  BY <1>2 DEF LeaseLapses, Typed, TypeOK, Placed
<1>3. CASE Tick
  BY <1>1, <1>3, SchedulerAssumption DEF Tick, Typed, TypeOK, Placed
<1>4. ASSUME NEW t \in Tasks, OwnerChanges(t) \/ Deploy(t)
      PROVE  /\ Typed' /\ UNCHANGED <<tasks, rows, claims, ex, edits, started>>
             /\ now' \in {now, now + 1}
  BY <1>4 DEF OwnerChanges, Deploy, Typed, TypeOK, Placed
<1>5. QED  BY <1>2, <1>3, <1>4 DEF Ambient

\* The steps of the system, by what they touch.
LEMMA Steps ==
    ASSUME Next
    PROVE  \/ \E t \in Tasks, s \in Schedules : \E on \in BOOLEAN : Create(t, s, on)
           \/ \E t \in Tasks : \/ \E s \in Schedules : Edit(t, s)
                              \/ \E on \in BOOLEAN : SetEnabled(t, on)
           \/ \E t \in Tasks : Delete(t)
           \/ \E t \in Tasks, w \in Webs : RunNow(w, t)
           \/ \E r \in Runners : \/ RunnerStarts(r) \/ Poll(r) \/ ClaimDue(r)
                                \/ Settle(r) \/ RunnerStops(r) \/ Crash(r)
           \/ \E e \in Executors : \/ Finishes(e) \/ Refuses(e) \/ SuspendWrites(e)
                                  \/ Begin(e)
           \/ WebCrash
           \/ Ambient
<1>1. CASE UserStep  BY <1>1 DEF UserStep
<1>2. CASE \E r \in Runners : RunnerStep(r)  BY <1>2 DEF RunnerStep
<1>3. CASE \E e \in Executors : Execute(e)  BY <1>3 DEF Execute, Finishes
<1>4. CASE Environment  BY <1>4 DEF Environment, Ambient
<1>5. QED  BY <1>1, <1>2, <1>3, <1>4 DEF Next

LEMMA NextTyped ==
    ASSUME Typed, [Next]_vars
    PROVE  Typed'
<1>1. ASSUME NEW t \in Tasks, NEW s \in Schedules, NEW on \in BOOLEAN, Create(t, s, on)
      PROVE  Typed'
  BY <1>1, CreateTyped
<1>2. ASSUME NEW t \in Tasks,
             (\E s \in Schedules : Edit(t, s)) \/ (\E on \in BOOLEAN : SetEnabled(t, on))
      PROVE  Typed'
  <2>1. PICK s : \E on \in BOOLEAN :
             /\ s.kind \in {"once", "every"} /\ s.n \in Nat \ {0} /\ Update(t, s, on)
    BY <1>2, EditUpdates DEF Typed
  <2>2. QED  BY <2>1, UpdateTyped
<1>3. ASSUME NEW t \in Tasks, Delete(t)  PROVE Typed'
  BY <1>3, DeleteTyped
<1>4. ASSUME NEW t \in Tasks, NEW w \in Webs, RunNow(w, t)  PROVE Typed'
  BY <1>4, RunNowTyped
<1>5. ASSUME NEW r \in Runners,
             \/ RunnerStarts(r) \/ Poll(r) \/ ClaimDue(r)
             \/ Settle(r) \/ RunnerStops(r) \/ Crash(r)
      PROVE  Typed'
  BY <1>5, RunnerStartsTyped, PollTyped, ClaimDueTyped, SettleTyped, RunnerStopsTyped
<1>6. ASSUME NEW e \in Executors,
             Finishes(e) \/ Refuses(e) \/ SuspendWrites(e) \/ Begin(e)
      PROVE  Typed'
  <2>1. CASE Refuses(e)  BY <2>1, RefusesEffect DEF Typed, TypeOK
  <2>2. QED  BY <1>6, <2>1, FinishesTyped, SuspendTyped, BeginTyped
<1>7. CASE WebCrash  BY <1>7, WebCrashEffect DEF Typed, TypeOK
<1>8. CASE Ambient  BY <1>8, AmbientTyped
<1>9. CASE UNCHANGED vars  BY <1>9 DEF vars, Typed, TypeOK, Placed
<1>10. QED  BY <1>1, <1>2, <1>3, <1>4, <1>5, <1>6, <1>7, <1>8, <1>9, Steps

LEMMA InitTyped ==
    ASSUME Init
    PROVE  Typed
<1>1. \A e \in Executors : ex[e] \in Controls /\ ex[e].pc \in {"down", "idle"}
                           /\ ex[e].queue = {}
  <2>1. ASSUME NEW e \in Executors
        PROVE  ex[e] \in Controls /\ ex[e].pc \in {"down", "idle"} /\ ex[e].queue = {}
    <3> DEFINE pc == IF e \in Runners THEN "down" ELSE "idle"
    <3>1. pc \in Pcs /\ pc \in {"down", "idle"}  BY DEF Pcs
    <3>2. ex[e] = Resting(pc)  BY DEF Init
    <3> HIDE DEF pc
    <3>3. QED  BY <3>1, <3>2, RestingType
  <2>2. QED  BY <2>1
<1>2. Absent \in TaskRecs /\ NoRow \in Rows
  BY SchedulerAssumption DEF Absent, TaskRecs, NoRow, Rows, Statuses, None
<1>3. Placed  BY <1>1 DEF Placed, Working
<1>4. ex \in [Executors -> Controls]
  <2>1. ex = [e \in Executors |-> ex[e]]  BY DEF Init
  <2>2. QED  BY <1>1, <2>1
<1>5. tasks \in [Tasks -> TaskRecs] /\ rows \in [1 .. MaxRows -> Rows]
  BY <1>2 DEF Init
<1>6. /\ now \in 1 .. MaxTime /\ claims \in 0 .. MaxRows /\ edits \in 0 .. MaxEdits
      /\ lease \in Runners \cup {Free, Stale} /\ started \subseteq Tasks \X Nat
      /\ barred \in [Tasks -> {"no", "owner", "release"}]
  BY SchedulerAssumption DEF Init
<1>7. QED  BY <1>3, <1>4, <1>5, <1>6 DEF Typed, TypeOK

\* Every variable of the scheduler keeps its type.
THEOREM SchedulerTypes == Spec => []TypeOK
<1>1. Init => Typed  BY InitTyped
<1>2. Typed /\ [Next]_vars => Typed'  BY NextTyped
<1>3. Typed => TypeOK  BY DEF Typed
<1>4. QED  BY <1>1, <1>2, <1>3, PTL DEF Spec

---------------------------------------------------------------------------
(* What is stored of a task agrees with what its user asked for.           *)

TaskInv == SuspendedIsDisabled /\ RecurringNeverStalls

\* A write of a task that leaves it sound.
LEMMA WriteSound ==
    ASSUME TypeOK, TaskInv, NEW t \in Tasks, NEW rec \in TaskRecs,
           tasks' = [tasks EXCEPT ![t] = rec],
           rec.life = "active" =>
             /\ rec.suspended => ~rec.enabled
             /\ rec.enabled /\ rec.kind = "every" => rec.next # None
    PROVE  TaskInv'
<1>1. tasks'[t] = rec /\ \A u \in Tasks \ {t} : tasks'[u] = tasks[u]
  BY DEF TypeOK
<1>2. ASSUME NEW u \in Tasks, tasks'[u].life = "active"
      PROVE  /\ tasks'[u].suspended => ~tasks'[u].enabled
             /\ tasks'[u].enabled /\ tasks'[u].kind = "every" => tasks'[u].next # None
  <2>1. CASE u = t  BY <1>1, <1>2, <2>1
  <2>2. CASE u # t
    <3>1. tasks'[u] = tasks[u]  BY <1>1, <2>2
    <3>2. QED
      BY <1>2, <3>1 DEF TaskInv, SuspendedIsDisabled, RecurringNeverStalls, Active
  <2>3. QED  BY <2>1, <2>2
<1>3. QED
  BY <1>2 DEF TaskInv, SuspendedIsDisabled, RecurringNeverStalls, Active

LEMMA UpdateSound ==
    ASSUME TypeOK, TaskInv, NEW t \in Tasks, NEW s, s.kind \in {"once", "every"},
           s.n \in Nat \ {0}, NEW on \in BOOLEAN, Update(t, s, on)
    PROVE  TaskInv'
<1> DEFINE rec == UpdatedRec(t, s, on)
<1>1. tasks' = [tasks EXCEPT ![t] = rec]  BY DEF Update, UserWrites, UpdatedRec
<1>2. now \in Nat  BY SchedulerAssumption DEF TypeOK
<1>3. /\ rec \in TaskRecs /\ rec.enabled = on /\ rec.kind = s.kind
      /\ rec.next = (IF on THEN NextRun(s, now) ELSE None) /\ ~rec.suspended
  BY UpdateRec
<1>4. s.kind = "every" => NextRun(s, now) # None  BY <1>2, NextRunType
<1> HIDE DEF rec
<1>5. rec.enabled /\ rec.kind = "every" => rec.next # None  BY <1>3, <1>4
<1>6. QED  BY <1>1, <1>3, <1>5, WriteSound

LEMMA CreateSound ==
    ASSUME TypeOK, TaskInv, NEW t \in Tasks, NEW s \in Schedules, NEW on \in BOOLEAN,
           Create(t, s, on)
    PROVE  TaskInv'
<1> DEFINE rec == [life |-> "active", enabled |-> on, kind |-> s.kind, n |-> s.n,
                   next |-> IF on THEN NextRun(s, now) ELSE None, rev |-> 1,
                   suspended |-> FALSE]
<1>1. tasks' = [tasks EXCEPT ![t] = rec]  BY DEF Create, UserWrites
<1>2. now \in Nat /\ s.kind \in {"once", "every"} /\ s.n \in Nat \ {0}
  BY SchedulerAssumption DEF TypeOK
<1>3. s.kind = "every" => NextRun(s, now) # None  BY <1>2, NextRunType
<1>4. rec \in TaskRecs /\ ~rec.suspended
      /\ (rec.enabled /\ rec.kind = "every" => rec.next # None)
  BY <1>3, CreatedRec
<1> HIDE DEF rec
<1>5. QED  BY <1>1, <1>4, WriteSound

LEMMA TaskInvStep ==
    ASSUME Typed, TaskInv, [Next]_vars
    PROVE  TaskInv'
<1>0. CASE UNCHANGED tasks
  BY <1>0 DEF TaskInv, SuspendedIsDisabled, RecurringNeverStalls, Active
<1>1. ASSUME NEW t \in Tasks, NEW s \in Schedules, NEW on \in BOOLEAN, Create(t, s, on)
      PROVE  TaskInv'
  BY <1>1, CreateSound DEF Typed
<1>2. ASSUME NEW t \in Tasks,
             (\E s \in Schedules : Edit(t, s)) \/ (\E on \in BOOLEAN : SetEnabled(t, on))
      PROVE  TaskInv'
  <2>1. PICK s : \E on \in BOOLEAN :
             /\ s.kind \in {"once", "every"} /\ s.n \in Nat \ {0} /\ Update(t, s, on)
    BY <1>2, EditUpdates DEF Typed
  <2>2. QED  BY <2>1, UpdateSound DEF Typed
<1>3. ASSUME NEW t \in Tasks, Delete(t)  PROVE TaskInv'
  <2>1. tasks' = [tasks EXCEPT ![t] = DeletedRec(t)]
    BY <1>3 DEF Delete, UserWrites, DeletedRec
  <2>2. DeletedRec(t) \in TaskRecs /\ DeletedRec(t).life = "deleted"
    BY DeleteRec DEF Typed
  <2>3. QED  BY <2>1, <2>2, WriteSound DEF Typed
<1>4. ASSUME NEW t \in Tasks, NEW w \in Webs, RunNow(w, t)  PROVE TaskInv'
  BY <1>0, <1>4 DEF RunNow
<1>5. ASSUME NEW r \in Runners, Settle(r)  PROVE TaskInv'
  <2> DEFINE t == ex[r].job.task
             rec == Advanced(tasks[t], ex[r].job)
  <2>1. /\ t \in Tasks /\ ex[r].pc \in Working /\ r \in Executors
        /\ tasks' = [tasks EXCEPT ![t] = rec] \/ UNCHANGED tasks
    BY <1>5, SettleEffect DEF Working
  <2>2. tasks[t] \in TaskRecs /\ ex[r].job \in Jobs  BY <2>1, WorkingTask
  <2>3. /\ rec \in TaskRecs /\ rec.life = tasks[t].life
        /\ rec.suspended = tasks[t].suspended
        /\ rec.enabled => tasks[t].enabled /\ rec.next # None
    BY <2>2, AdvancedRec
  <2>4. tasks[t].life = "active" /\ tasks[t].suspended => ~tasks[t].enabled
    BY <2>1 DEF TaskInv, SuspendedIsDisabled, Active
  <2> HIDE DEF rec
  <2>5. CASE tasks' = [tasks EXCEPT ![t] = rec]
    BY <2>1, <2>3, <2>4, <2>5, WriteSound DEF Typed
  <2>6. QED  BY <1>0, <2>1, <2>5
<1>6. ASSUME NEW r \in Runners,
             \/ RunnerStarts(r) \/ Poll(r) \/ ClaimDue(r) \/ RunnerStops(r) \/ Crash(r)
      PROVE  TaskInv'
  BY <1>0, <1>6 DEF RunnerStarts, Poll, ClaimDue, RunnerStops, Crash
<1>7. ASSUME NEW e \in Executors, SuspendWrites(e)  PROVE TaskInv'
  <2> DEFINE t == ex[e].job.task
  <2>1. t \in Tasks /\ (tasks' = [tasks EXCEPT ![t] = Suspended(tasks[t])] \/ UNCHANGED tasks)
    BY <1>7, SuspendEffect
  <2>2. Suspended(tasks[t]) \in TaskRecs /\ ~Suspended(tasks[t]).enabled
    BY <2>1, SuspendRec DEF Typed, TypeOK
  <2>3. QED  BY <1>0, <2>1, <2>2, WriteSound DEF Typed
<1>8. ASSUME NEW e \in Executors, Finishes(e) \/ Refuses(e) \/ Begin(e)  PROVE TaskInv'
  BY <1>0, <1>8 DEF Finishes, Overlaps, Misfires, AdapterReturns, FinishAndAdvance,
                    Refuses, Begin
<1>9. CASE WebCrash  BY <1>0, <1>9 DEF WebCrash
<1>10. CASE Ambient  BY <1>0, <1>10, AmbientTyped
<1>11. CASE UNCHANGED vars  BY <1>0, <1>11 DEF vars
<1>12. QED
  BY <1>1, <1>2, <1>3, <1>4, <1>5, <1>6, <1>7, <1>8, <1>9, <1>10, <1>11, Steps

LEMMA InitTaskInv == Init => TaskInv
BY DEF Init, TaskInv, SuspendedIsDisabled, RecurringNeverStalls, Active, Absent

---------------------------------------------------------------------------
(* The steps, by what they do to the rows of executions.                   *)

Executing == {"claimed", "exec"}

\* An executor that goes on with its job or gives it up.
Goes(e) ==
    /\ ex' = [ex EXCEPT ![e] = ex'[e]]
    /\ ex'[e].queue \in SUBSET ex[e].queue
    /\ ex'[e].pc \in Working => ex[e].pc \in Working /\ ex'[e].job = ex[e].job

RowsKept == UNCHANGED <<rows, claims, ex, started>>

Claims(e, job, occ, queue) ==
    /\ Claim(e, job, occ, queue) /\ UNCHANGED <<now, started, tasks>>
    /\ ex[e].pc \in {"idle", "pass"} /\ job \in Jobs /\ job.task \in Tasks
    /\ \/ e \in Webs /\ occ = None
       \/ /\ e \in Runners /\ occ = job.planned /\ job \in ex[e].queue
          /\ ex[e].pc = "pass" /\ ~Taken(job.task, occ) /\ queue = ex[e].queue \ {job}
    /\ queue \in SUBSET ex[e].queue

Ends(e, status) ==
    /\ ex[e].pc \in Executing
    /\ rows' = Settled(e, status)
    /\ ex' = [ex EXCEPT ![e] = ex'[e]] /\ ex'[e].pc \notin Executing
    /\ Goes(e)
    /\ UNCHANGED <<claims, started>>

\* An executor that does not end in an execution, or dies in it.
Moves(e) ==
    /\ ex[e].pc # "down"
    /\ ex[e].pc \in Executing => e \in Runners /\ ex'[e].pc = "down"
    /\ ex' = [ex EXCEPT ![e] = ex'[e]] /\ ex'[e].pc \notin Executing
    /\ Goes(e) \/ (e \in Runners /\ Poll(e))
    /\ UNCHANGED <<rows, claims, started>>

RowStep ==
    \/ RowsKept
    \/ \E e \in Executors : \E job, queue : \E occ \in Nat : Claims(e, job, occ, queue)
    \/ \E e \in Executors : \E status \in Statuses \ {"running"} : Ends(e, status)
    \/ \E e \in Executors : Moves(e)
    \/ \E r \in Runners : RunnerStarts(r)
    \/ \E e \in Executors : Begin(e)
    \/ WebCrash

LEMMA RestsGoes ==
    ASSUME Typed, NEW e \in Executors, NEW pc \in {"down", "idle"},
           ex' = [ex EXCEPT ![e] = Resting(pc)]
    PROVE  /\ Goes(e) /\ ex' = [ex EXCEPT ![e] = ex'[e]] /\ ex'[e].pc = pc
           /\ ex'[e].pc \notin Executing
<1> DEFINE c == Resting(pc)
<1>1. c.pc = pc /\ c.queue = {}  BY RestingType DEF Pcs
<1> HIDE DEF c
<1>2. ex' = [ex EXCEPT ![e] = c]  BY DEF c
<1>3. ex'[e] = c /\ ex' = [ex EXCEPT ![e] = ex'[e]]  BY <1>2 DEF Typed, TypeOK
<1>4. QED  BY <1>1, <1>3 DEF Goes, Working, Executing

LEMMA EscapesGoes ==
    ASSUME Typed, NEW e \in Executors, Escapes(e)
    PROVE  /\ Goes(e) /\ ex' = [ex EXCEPT ![e] = ex'[e]]
           /\ e \in Runners => ex'[e].pc = "down"
           /\ ex'[e].pc \notin Executing /\ ex'[e].pc \in {"down", "idle"}
<1> DEFINE pc == IF e \in Runners THEN "down" ELSE "idle"
<1>1. ex' = [ex EXCEPT ![e] = ex'[e]] /\ ex'[e] = Resting(pc)
  BY EscapesEffect DEF Typed
<1>2. ex' = [ex EXCEPT ![e] = Resting(pc)] /\ pc \in {"down", "idle"}
      /\ (e \in Runners => pc = "down")
  BY <1>1
<1> HIDE DEF pc
<1>3. QED  BY <1>2, RestsGoes

LEMMA AdvanceGoes ==
    ASSUME Typed, NEW e \in Executors, ex[e].pc \in Working, NEW t, NEW rev \in Nat,
           ex' = [ex EXCEPT ![e] = ex'[e]], ex'[e] = Advance(e, t, rev)
    PROVE  /\ Goes(e) /\ ex'[e].pc \notin Executing
           /\ ex'[e].pc \in {"idle", "pass", "settling"}
           /\ ex'[e].pc = "settling" => ex'[e].job = ex[e].job /\ ex'[e].rev = rev
           /\ ex'[e].pc # "settling" => (e \in Runners => ~Active(t))
<1> DEFINE c == Advance(e, t, rev)
<1>1. /\ c.pc \in {"idle", "pass", "settling"} /\ c.queue = ex[e].queue
      /\ c.pc = "settling" => c.job = ex[e].job /\ c.rev = rev
      /\ c.pc # "settling" => (e \in Runners => ~Active(t))
  BY AdvanceType DEF Typed
<1> HIDE DEF c
<1>2. ex'[e] = c  BY DEF c
<1>3. QED  BY <1>1, <1>2 DEF Goes, Working, Executing

LEMMA RowSteps ==
    ASSUME Typed, [Next]_vars
    PROVE  RowStep
<1>1. ASSUME NEW t \in Tasks, NEW s \in Schedules, NEW on \in BOOLEAN, Create(t, s, on)
      PROVE  RowsKept
  BY <1>1 DEF Create, UserWrites, RowsKept
<1>2. ASSUME NEW t \in Tasks,
             (\E s \in Schedules : Edit(t, s)) \/ (\E on \in BOOLEAN : SetEnabled(t, on))
      PROVE  RowsKept
  BY <1>2 DEF Edit, SetEnabled, Update, UserWrites, RowsKept
<1>3. ASSUME NEW t \in Tasks, Delete(t)  PROVE RowsKept
  BY <1>3 DEF Delete, UserWrites, RowsKept
<1>4. ASSUME NEW t \in Tasks, NEW w \in Webs, RunNow(w, t)
      PROVE  RowStep
  <2> DEFINE job == [Job(t) EXCEPT !.planned = now]
  <2>1. job \in Jobs /\ job.task \in Tasks  BY RunNowJob DEF Typed
  <2>2. w \in Executors /\ None \in Nat  BY DEF Executors, None
  <2>3. Claims(w, job, None, {})  BY <1>4, <2>1 DEF RunNow, Claims
  <2> HIDE DEF job
  <2>4. QED  BY <2>2, <2>3 DEF RowStep
<1>5. ASSUME NEW r \in Runners, ClaimDue(r)
      PROVE  RowStep
  <2>1. r \in Executors /\ ex[r].pc = "pass" /\ UNCHANGED <<now, tasks, started>>
    BY <1>5 DEF Executors, ClaimDue
  <2>2. PICK job \in ex[r].queue :
          IF Taken(job.task, job.planned)
          THEN Escapes(r) /\ UNCHANGED <<rows, claims>>
          ELSE Claim(r, job, job.planned, ex[r].queue \ {job}) /\ UNCHANGED lease
    BY <1>5 DEF ClaimDue
  <2>3. job \in Jobs /\ job.task \in Tasks /\ job.planned \in Nat
    BY <2>1, <2>2 DEF Typed, TypeOK, Controls, Placed, Jobs
  <2>4. CASE Taken(job.task, job.planned)
    <3>1. Escapes(r) /\ UNCHANGED <<rows, claims>>  BY <2>2, <2>4
    <3>2. Moves(r)
      BY <2>1, <3>1, EscapesGoes DEF Moves, Executing
    <3>3. QED  BY <2>1, <3>2 DEF RowStep
  <2>5. CASE ~Taken(job.task, job.planned)
    <3> DEFINE queue == ex[r].queue \ {job}
    <3>1. Claim(r, job, job.planned, queue)  BY <2>2, <2>5
    <3>2. Claims(r, job, job.planned, queue)
      BY <2>1, <2>3, <2>5, <3>1 DEF Claims
    <3> HIDE DEF queue
    <3>3. QED  BY <2>1, <2>3, <3>2 DEF RowStep
  <2>6. QED  BY <2>4, <2>5
<1>6. ASSUME NEW r \in Runners, RunnerStops(r) \/ Crash(r)
      PROVE  r \in Executors /\ Moves(r)
  <2>1. r \in Executors  BY DEF Executors
  <2>2. ex' = [ex EXCEPT ![r] = Resting("down")] /\ ex[r].pc # "down"
        /\ UNCHANGED <<rows, claims, started>>
    BY <1>6 DEF RunnerStops, Crash, Dies
  <2>3. /\ Goes(r) /\ ex' = [ex EXCEPT ![r] = ex'[r]] /\ ex'[r].pc = "down"
        /\ ex'[r].pc \notin Executing
    BY <2>1, <2>2, RestsGoes
  <2>4. QED  BY <2>1, <2>2, <2>3 DEF Moves
<1>7. ASSUME NEW r \in Runners, Poll(r)
      PROVE  r \in Executors /\ Moves(r)
  <2>1. ex[r].pc = "idle" /\ r \in Executors  BY <1>7 DEF Poll, Executors
  <2>2. ex' = [ex EXCEPT ![r] = ex'[r]] /\ UNCHANGED <<rows, claims, started>>
        /\ (ex'[r] = ex[r] \/ ex'[r].pc = "pass")
    BY <1>7, PollEffect
  <2>3. QED  BY <1>7, <2>1, <2>2 DEF Moves, Executing
<1>8. ASSUME NEW r \in Runners, Settle(r)
      PROVE  r \in Executors /\ Moves(r)
  <2>1. /\ r \in Executors /\ ex[r].pc = "settling"
        /\ ex' = [ex EXCEPT ![r] = ex'[r]] /\ UNCHANGED <<rows, claims, started>>
        /\ ex'[r] = Continue(r) \/ Escapes(r)
    BY <1>8, SettleEffect
  <2>2. CASE Escapes(r)
    BY <2>1, <2>2, EscapesGoes DEF Moves, Executing
  <2>3. CASE ex'[r] = Continue(r)
    <3>1. ex'[r].pc \in {"idle", "pass"} /\ ex'[r].queue = ex[r].queue
      BY <2>1, <2>3, ContinueType DEF Typed
    <3>2. QED  BY <2>1, <3>1 DEF Moves, Executing, Goes, Working
  <2>4. QED  BY <2>1, <2>2, <2>3
<1>9. ASSUME NEW e \in Executors, SuspendWrites(e)
      PROVE  Moves(e)
  <2> DEFINE t == ex[e].job.task
  <2>1. /\ ex[e].pc = "suspending" /\ t \in Tasks
        /\ ex' = [ex EXCEPT ![e] = ex'[e]] /\ UNCHANGED <<rows, claims, started>>
        /\ ex'[e] = Advance(e, t, tasks[t].rev + 1) \/ Escapes(e)
    BY <1>9, SuspendEffect
  <2>2. CASE Escapes(e)
    BY <2>1, <2>2, EscapesGoes DEF Moves, Executing
  <2>3. CASE ex'[e] = Advance(e, t, tasks[t].rev + 1)
    <3>1. tasks[t].rev + 1 \in Nat  BY <2>1 DEF Typed, TypeOK, TaskRecs
    <3>2. Goes(e) /\ ex'[e].pc \notin Executing
      BY <2>1, <2>3, <3>1, AdvanceGoes DEF Working
    <3>3. QED  BY <2>1, <3>2 DEF Moves, Executing
  <2>4. QED  BY <2>1, <2>2, <2>3
<1>10. ASSUME NEW e \in Executors, Finishes(e)
       PROVE  \E status \in Statuses \ {"running"} : Ends(e, status)
  <2>1. PICK status \in Statuses \ {"running"} : FinishAndAdvance(e, status)
    BY <1>10, FinishesEffect
  <2>2. ex[e].pc \in Executing /\ ex[e].pc \in Working
    BY <1>10, FinishesEffect DEF Executing, Working
  <2> DEFINE t == ex[e].job.task
  <2>3. /\ rows' = Settled(e, status) /\ ex' = [ex EXCEPT ![e] = ex'[e]]
        /\ ex'[e] = Advance(e, t, tasks[t].rev) /\ UNCHANGED <<claims, started>>
    BY <2>1, <2>2, FinishEffect
  <2>4. tasks[t].rev \in Nat  BY <2>2, WorkingTask DEF TaskRecs
  <2>5. Goes(e) /\ ex'[e].pc \notin Executing
    BY <2>2, <2>3, <2>4, AdvanceGoes
  <2>6. QED  BY <2>2, <2>3, <2>5 DEF Ends
<1>11. ASSUME NEW e \in Executors, Refuses(e)
       PROVE  \E status \in Statuses \ {"running"} : Ends(e, status)
  <2>1. /\ ex[e].pc = "claimed" /\ rows' = Settled(e, "refused")
        /\ ex' = [ex EXCEPT ![e] = ex'[e]] /\ UNCHANGED <<claims, started>>
        /\ ex'[e].queue = ex[e].queue
        /\ \/ ex'[e].pc = "suspending" /\ ex'[e].job = ex[e].job
           \/ ex'[e].pc \in {"idle", "pass"}
    BY <1>11, RefusesEffect
  <2>2. "refused" \in Statuses \ {"running"}  BY DEF Statuses
  <2>3. QED  BY <2>1, <2>2 DEF Ends, Executing, Goes, Working
<1>12. ASSUME Ambient  PROVE RowsKept
  BY <1>12, AmbientTyped DEF RowsKept
<1>13. ASSUME UNCHANGED vars  PROVE RowsKept
  BY <1>13 DEF vars, RowsKept
<1>14. QED
  BY <1>1, <1>2, <1>3, <1>4, <1>5, <1>6, <1>7, <1>8, <1>9, <1>10, <1>11, <1>12,
     <1>13, Steps DEF RowStep

---------------------------------------------------------------------------
(* Rows are numbered in the order of the claims.                           *)

RowsPlaced ==
    /\ \A i \in 1 .. MaxRows : i > claims => rows[i] = NoRow
    /\ \A e \in Executors : ex[e].pc \in Executing => ex[e].row \in 1 .. claims
    /\ \A w \in Webs : ex[w].pc \in Executing => rows[ex[w].row].occ = None

\* What RowsPlaced says of one executor.
LEMMA RowOf ==
    ASSUME Typed, RowsPlaced, NEW e \in Executors, ex[e].pc \in Executing
    PROVE  /\ ex[e].row \in 1 .. claims /\ ex[e].row \in 1 .. MaxRows
           /\ e \in Webs => rows[ex[e].row].occ = None
BY SchedulerAssumption DEF RowsPlaced, Typed, TypeOK

\* What each step leaves of the other executors.
LEMMA Others ==
    ASSUME Typed, NEW e \in Executors, ex' = [ex EXCEPT ![e] = ex'[e]]
    PROVE  \A f \in Executors \ {e} : ex'[f] = ex[f]
BY DEF Typed, TypeOK

LEMMA BeginKeepsRow ==
    ASSUME Typed, NEW e \in Executors, Begin(e)
    PROVE  /\ UNCHANGED <<rows, claims>> /\ ex[e].pc \in Executing
           /\ \A f \in Executors : /\ ex'[f].pc \in Executing <=> ex[f].pc \in Executing
                                   /\ ex'[f].row = ex[f].row /\ ex'[f].job = ex[f].job
           /\ \A f \in Executors : ex'[f].pc = "claimed" => ex[f].pc = "claimed" /\ f # e
<1>1. /\ ex[e].pc = "claimed" /\ ex'[e].pc = "exec" /\ ex'[e].row = ex[e].row
      /\ ex'[e].job = ex[e].job
      /\ ex' = [ex EXCEPT ![e] = ex'[e]] /\ UNCHANGED <<rows, claims>>
  BY BeginEffect
<1>2. \A f \in Executors \ {e} : ex'[f] = ex[f]  BY <1>1, Others
<1>3. QED  BY <1>1, <1>2 DEF Executing

LEMMA StartsEffect ==
    ASSUME Typed, NEW r \in Runners, RunnerStarts(r)
    PROVE  /\ rows' = RecoverRunning /\ UNCHANGED <<now, tasks, claims, started>>
           /\ r \in Executors /\ ex[r].pc = "down"
           /\ ex' = [ex EXCEPT ![r] = ex'[r]]
           /\ ex'[r].pc = "idle" /\ ex'[r].queue = {} /\ ex'[r].job = NoJob
<1>1. r \in Executors  BY DEF Executors
<1>2. ex' = [ex EXCEPT ![r] = Resting("idle")]  BY DEF RunnerStarts
<1>3. ex'[r] = Resting("idle")  BY <1>1, <1>2 DEF Typed, TypeOK
<1>4. Resting("idle").pc = "idle" /\ Resting("idle").queue = {}
      /\ Resting("idle").job = NoJob
  BY RestingType DEF Pcs
<1>5. QED  BY <1>1, <1>2, <1>3, <1>4 DEF RunnerStarts

LEMMA WebsRest ==
    ASSUME Typed, WebCrash
    PROVE  /\ \A e \in Executors : ex'[e].pc \in Working => e \in Runners /\ ex'[e] = ex[e]
           /\ \A r \in Runners : ex'[r] = ex[r]
           /\ UNCHANGED <<now, tasks, rows, claims, started>>
<1>1. /\ \A e \in Webs : ex'[e] = Resting("idle")
      /\ \A r \in Runners : ex'[r] = ex[r]
      /\ UNCHANGED <<now, tasks, rows, claims, started>>
  BY WebCrashEffect
<1>2. Resting("idle").pc = "idle"  BY RestingType DEF Pcs
<1>3. QED  BY <1>1, <1>2 DEF Executors, Working

\* A claim adds a row that no one else has.
LEMMA ClaimsEffect ==
    ASSUME Typed, RowsPlaced, NEW e \in Executors, NEW job, NEW queue, NEW occ \in Nat,
           Claims(e, job, occ, queue)
    PROVE  /\ claims' = claims + 1 /\ claims' \in 0 .. MaxRows /\ claims + 1 \in 1 .. MaxRows
           /\ rows'[claims + 1] = [task |-> job.task, occ |-> occ, status |-> "running"]
           /\ \A i \in 1 .. MaxRows : i # claims + 1 => rows'[i] = rows[i]
           /\ \A f \in Executors \ {e} : ex'[f] = ex[f]
           /\ ex'[e].pc = "claimed" /\ ex'[e].row = claims + 1 /\ ex'[e].job = job
           /\ ex'[e].queue = queue
           /\ ex[e].pc \notin Executing
           /\ UNCHANGED <<now, started, tasks>>
           /\ \A f \in Executors : ex[f].pc \in Executing => ex[f].row # claims + 1
<1>1. job \in Jobs /\ job.task \in Tasks /\ queue \in SUBSET ex[e].queue
      /\ Claim(e, job, occ, queue) /\ ex[e].pc \notin Executing
      /\ UNCHANGED <<now, started, tasks>>
  BY DEF Claims, Executing
<1> DEFINE c == [pc |-> "claimed", job |-> job, queue |-> queue,
                 row |-> claims + 1, at |-> now, rev |-> 0]
<1>2. /\ claims' = claims + 1 /\ claims' \in 0 .. MaxRows
      /\ claims + 1 \in 1 .. MaxRows
      /\ rows'[claims + 1] = [task |-> job.task, occ |-> occ, status |-> "running"]
      /\ \A i \in 1 .. MaxRows : i # claims + 1 => rows'[i] = rows[i]
      /\ ex' = [ex EXCEPT ![e] = c] /\ ex'[e] = c
  BY <1>1, ClaimEffect
<1>7. c.pc = "claimed" /\ c.row = claims + 1 /\ c.job = job /\ c.queue = queue
  OBVIOUS
<1> HIDE DEF c
<1>3. ex' = [ex EXCEPT ![e] = ex'[e]] /\ ex'[e].pc = "claimed" /\ ex'[e].row = claims + 1
      /\ ex'[e].job = job /\ ex'[e].queue = queue
  BY <1>2, <1>7
<1>4. \A f \in Executors \ {e} : ex'[f] = ex[f]  BY <1>3, Others
<1>5. \A f \in Executors : ex[f].pc \in Executing => ex[f].row # claims + 1
  BY RowOf DEF Typed, TypeOK
<1>6. QED  BY <1>1, <1>2, <1>3, <1>4, <1>5

LEMMA RowsPlacedStep ==
    ASSUME Typed, Typed', RowsPlaced, [Next]_vars
    PROVE  RowsPlaced'
<1>0. claims \in 0 .. MaxRows  BY DEF Typed, TypeOK
<1>1. CASE RowsKept  BY <1>1 DEF RowsKept, RowsPlaced
<1>2. ASSUME NEW e \in Executors, NEW job, NEW queue, NEW occ \in Nat,
             Claims(e, job, occ, queue)
      PROVE  RowsPlaced'
  <2>1. /\ claims' = claims + 1 /\ claims + 1 \in 1 .. MaxRows
        /\ rows'[claims + 1] = [task |-> job.task, occ |-> occ, status |-> "running"]
        /\ \A i \in 1 .. MaxRows : i # claims + 1 => rows'[i] = rows[i]
        /\ \A f \in Executors \ {e} : ex'[f] = ex[f]
        /\ ex'[e].row = claims + 1
    BY <1>2, ClaimsEffect
  <2>2. e \in Webs => occ = None
    BY <1>2, SchedulerAssumption DEF Claims
  <2>3. \A i \in 1 .. MaxRows : i > claims' => rows'[i] = NoRow
    BY <1>0, <2>1 DEF RowsPlaced
  <2>4. ASSUME NEW f \in Executors, ex'[f].pc \in Executing
        PROVE  ex'[f].row \in 1 .. claims' /\ (f \in Webs => rows'[ex'[f].row].occ = None)
    <3>1. CASE f = e  BY <2>1, <2>2, <3>1
    <3>2. CASE f # e
      <4>1. ex'[f] = ex[f]  BY <2>1, <3>2
      <4>2. ex[f].row \in 1 .. claims /\ ex[f].row \in 1 .. MaxRows
            /\ (f \in Webs => rows[ex[f].row].occ = None)
        BY <2>4, <4>1, RowOf
      <4>3. rows'[ex[f].row] = rows[ex[f].row]  BY <1>0, <2>1, <4>2
      <4>4. ex[f].row \in 1 .. claims'  BY <1>0, <2>1, <4>2
      <4>5. QED  BY <4>1, <4>2, <4>3, <4>4
    <3>3. QED  BY <3>1, <3>2
  <2>5. QED  BY <2>3, <2>4 DEF RowsPlaced, Executors
<1>3. ASSUME NEW e \in Executors, NEW status \in Statuses \ {"running"}, Ends(e, status)
      PROVE  RowsPlaced'
  <2>1. /\ rows' = Settled(e, status) /\ UNCHANGED claims
        /\ ex' = [ex EXCEPT ![e] = ex'[e]] /\ ex'[e].pc \notin Executing
    BY <1>3 DEF Ends
  <2>2. \A f \in Executors \ {e} : ex'[f] = ex[f]  BY <2>1, Others
  <2>3. \A i \in 1 .. MaxRows : /\ rows[i] = NoRow => rows'[i] = NoRow
                                /\ rows'[i] = NoRow \/ rows'[i].occ = rows[i].occ
    BY <2>1, SettledType DEF Typed
  <2>4. ASSUME NEW f \in Executors, ex'[f].pc \in Executing
        PROVE  ex'[f].row \in 1 .. claims' /\ (f \in Webs => rows'[ex'[f].row].occ = None)
    <3>1. f # e /\ ex'[f] = ex[f]  BY <2>1, <2>2, <2>4
    <3>2. ex[f].row \in 1 .. claims /\ ex[f].row \in 1 .. MaxRows
          /\ (f \in Webs => rows[ex[f].row].occ = None)
      BY <2>4, <3>1, RowOf
    <3>3. QED  BY <2>1, <2>3, <3>1, <3>2 DEF NoRow
  <2>5. QED  BY <2>1, <2>3, <2>4 DEF RowsPlaced, Executors
<1>4. ASSUME NEW e \in Executors, Moves(e)
      PROVE  RowsPlaced'
  <2>1. /\ ex' = [ex EXCEPT ![e] = ex'[e]] /\ ex'[e].pc \notin Executing
        /\ UNCHANGED <<rows, claims>>
    BY <1>4 DEF Moves
  <2>2. \A f \in Executors \ {e} : ex'[f] = ex[f]  BY <2>1, Others
  <2>3. QED  BY <2>1, <2>2 DEF RowsPlaced, Executors
<1>5. ASSUME NEW r \in Runners, RunnerStarts(r)
      PROVE  RowsPlaced'
  <2>1. /\ rows' = RecoverRunning /\ UNCHANGED claims
        /\ ex' = [ex EXCEPT ![r] = ex'[r]] /\ ex'[r].pc \notin Executing
        /\ r \in Executors
    BY <1>5, StartsEffect DEF Executing
  <2>2. \A f \in Executors \ {r} : ex'[f] = ex[f]  BY <2>1, Others
  <2>3. \A i \in 1 .. MaxRows : /\ rows[i] = NoRow => rows'[i] = NoRow
                                /\ rows'[i].occ = rows[i].occ
    BY <2>1, RecoverType DEF Typed
  <2>4. ASSUME NEW f \in Executors, ex'[f].pc \in Executing
        PROVE  ex'[f].row \in 1 .. claims' /\ (f \in Webs => rows'[ex'[f].row].occ = None)
    <3>1. ex'[f] = ex[f]  BY <2>1, <2>2, <2>4
    <3>2. ex[f].row \in 1 .. claims /\ ex[f].row \in 1 .. MaxRows
          /\ (f \in Webs => rows[ex[f].row].occ = None)
      BY <2>4, <3>1, RowOf
    <3>3. QED  BY <2>1, <2>3, <3>1, <3>2
  <2>5. QED  BY <2>1, <2>3, <2>4 DEF RowsPlaced, Executors
<1>6. ASSUME NEW e \in Executors, Begin(e)
      PROVE  RowsPlaced'
  BY <1>6, BeginKeepsRow DEF RowsPlaced, Executors
<1>7. CASE WebCrash
  <2>1. /\ \A e \in Executors : ex'[e].pc \in Executing => e \in Runners /\ ex'[e] = ex[e]
        /\ UNCHANGED <<rows, claims>>
    BY <1>7, WebsRest DEF Working, Executing
  <2>2. QED  BY <2>1, SchedulerAssumption DEF RowsPlaced, Executors
<1>8. QED  BY <1>1, <1>2, <1>3, <1>4, <1>5, <1>6, <1>7, RowSteps DEF RowStep

LEMMA InitRowsPlaced ==
    ASSUME Init
    PROVE  RowsPlaced /\ \A e \in Executors : ex[e].pc \notin Working /\ ex[e].queue = {}
<1>1. \A e \in Executors : ex[e] = Resting("down") \/ ex[e] = Resting("idle")
  BY DEF Init
<1>2. /\ Resting("down").pc = "down" /\ Resting("idle").pc = "idle"
      /\ Resting("down").queue = {} /\ Resting("idle").queue = {}
  BY RestingType DEF Pcs
<1>3. \A e \in Executors : ex[e].pc \notin Working /\ ex[e].queue = {}
  BY <1>1, <1>2 DEF Working
<1>4. QED  BY <1>3 DEF Init, RowsPlaced, Working, Executing, Executors

---------------------------------------------------------------------------
(* With every runner up, a scheduled row in the state running is owned.    *)

LEMMA OwnedStep ==
    ASSUME Typed, RowsPlaced, RunningIsOwned, [Next]_vars
    PROVE  RunningIsOwned'
<1> SUFFICES ASSUME \A r \in Runners : ex'[r].pc # "down",
                    NEW i \in 1 .. MaxRows, rows'[i].status = "running",
                    rows'[i].occ # None
             PROVE  \E f \in Executors : ex'[f].row = i /\ ex'[f].pc \in Executing
  BY DEF RunningIsOwned, Executing
<1>0. ASSUME \A r \in Runners : ex[r].pc # "down", rows[i].status = "running",
             rows[i].occ # None
      PROVE  \E f \in Executors : ex[f].row = i /\ ex[f].pc \in Executing
  BY <1>0 DEF RunningIsOwned, Executing
<1>1. CASE RowsKept  BY <1>0, <1>1 DEF RowsKept
<1>2. ASSUME NEW e \in Executors, NEW job, NEW queue, NEW occ \in Nat,
             Claims(e, job, occ, queue)
      PROVE  \E f \in Executors : ex'[f].row = i /\ ex'[f].pc \in Executing
  <2>1. /\ \A k \in 1 .. MaxRows : k # claims + 1 => rows'[k] = rows[k]
        /\ \A f \in Executors \ {e} : ex'[f] = ex[f]
        /\ ex'[e].row = claims + 1 /\ ex'[e].pc = "claimed"
        /\ ex[e].pc \notin Executing
    BY <1>2, ClaimsEffect
  <2>2. CASE i = claims + 1  BY <2>1, <2>2 DEF Executing
  <2>3. CASE i # claims + 1
    <3>1. rows[i].status = "running" /\ rows[i].occ # None  BY <2>1, <2>3
    <3>2. ex[e].pc # "down"  BY <1>2 DEF Claims
    <3>3. \A r \in Runners : ex[r].pc # "down"  BY <2>1, <3>2 DEF Executors
    <3>4. PICK f \in Executors : ex[f].row = i /\ ex[f].pc \in Executing
      BY <1>0, <3>1, <3>3
    <3>5. ex'[f] = ex[f]  BY <2>1, <3>4
    <3>6. QED  BY <3>4, <3>5
  <2>4. QED  BY <2>2, <2>3
<1>3. ASSUME NEW e \in Executors, NEW status \in Statuses \ {"running"}, Ends(e, status)
      PROVE  \E f \in Executors : ex'[f].row = i /\ ex'[f].pc \in Executing
  <2>1. /\ rows' = Settled(e, status) /\ ex[e].pc \in Executing
        /\ ex' = [ex EXCEPT ![e] = ex'[e]]
    BY <1>3 DEF Ends
  <2>2. \A f \in Executors \ {e} : ex'[f] = ex[f]  BY <2>1, Others
  <2>3. rows'[i] # NoRow  BY DEF NoRow
  <2>4. rows[i].occ # None /\ rows[i].status = "running" /\ i # ex[e].row
    BY <2>1, <2>3, SettledType DEF Typed
  <2>5. \A r \in Runners : ex[r].pc # "down"
    BY <2>1, <2>2 DEF Executors, Executing
  <2>6. PICK f \in Executors : ex[f].row = i /\ ex[f].pc \in Executing
    BY <1>0, <2>4, <2>5
  <2>7. QED  BY <2>2, <2>4, <2>6
<1>4. ASSUME NEW e \in Executors, Moves(e)
      PROVE  \E f \in Executors : ex'[f].row = i /\ ex'[f].pc \in Executing
  <2>1. /\ ex' = [ex EXCEPT ![e] = ex'[e]] /\ UNCHANGED rows
        /\ ex[e].pc \notin Executing
    BY <1>4 DEF Moves
  <2>2. \A f \in Executors \ {e} : ex'[f] = ex[f]  BY <2>1, Others
  <2>3. CASE \E r \in Runners : ex[r].pc = "down"
    <3>1. e \in Runners /\ ex[e].pc = "down"  BY <2>2, <2>3 DEF Executors
    <3>2. QED  BY <1>4, <3>1 DEF Moves
  <2>4. CASE \A r \in Runners : ex[r].pc # "down"
    <3>1. PICK f \in Executors : ex[f].row = i /\ ex[f].pc \in Executing
      BY <1>0, <2>1, <2>4
    <3>2. QED  BY <2>1, <2>2, <3>1
  <2>5. QED  BY <2>3, <2>4
<1>5. ASSUME NEW r \in Runners, RunnerStarts(r)
      PROVE  \E f \in Executors : ex'[f].row = i /\ ex'[f].pc \in Executing
  <2>1. rows'[i].status # "running"
    BY <1>5, StartsEffect, RecoverType DEF Typed
  <2>2. QED  BY <2>1
<1>6. ASSUME NEW e \in Executors, Begin(e)
      PROVE  \E f \in Executors : ex'[f].row = i /\ ex'[f].pc \in Executing
  <2>1. /\ UNCHANGED rows
        /\ \A f \in Executors : /\ ex'[f].pc \in Executing <=> ex[f].pc \in Executing
                                /\ ex'[f].row = ex[f].row
    BY <1>6, BeginKeepsRow
  <2>2. \A r \in Runners : ex[r].pc # "down"
    <3>1. ex' = [ex EXCEPT ![e] = ex'[e]] /\ ex[e].pc = "claimed"  BY <1>6, BeginEffect
    <3>2. QED  BY <3>1, Others DEF Executors
  <2>3. QED  BY <1>0, <2>1, <2>2
<1>7. CASE WebCrash
  <2>1. (\A r \in Runners : ex'[r] = ex[r]) /\ UNCHANGED rows  BY <1>7, WebsRest
  <2>2. PICK f \in Executors : ex[f].row = i /\ ex[f].pc \in Executing
    BY <1>0, <2>1
  <2>3. f \notin Webs  BY <2>1, <2>2, RowOf
  <2>4. QED  BY <2>1, <2>2, <2>3 DEF Executors
<1>8. QED  BY <1>1, <1>2, <1>3, <1>4, <1>5, <1>6, <1>7, RowSteps DEF RowStep

---------------------------------------------------------------------------
(* No occurrence is executed twice, while the history is complete.         *)

\* Longer histories than ever claimed: finish deletes no execution.
NoneForgotten == HistoryLimit >= MaxRows

LEMMA NeverOutdated ==
    ASSUME TypeOK, NoneForgotten, NEW i \in 1 .. MaxRows, NEW t
    PROVE  ~Outdated(i, t)
<1> DEFINE later == {j \in i + 1 .. claims : rows[j].task = t}
<1>1. claims \in Nat /\ claims <= MaxRows /\ i \in Nat /\ i >= 1 /\ MaxRows \in Nat
      /\ HistoryLimit \in Nat
  BY SchedulerAssumption DEF TypeOK
<1>2. IsFiniteSet(i + 1 .. claims)
      /\ Cardinality(i + 1 .. claims) = IF i + 1 > claims THEN 0 ELSE claims - (i + 1) + 1
  BY <1>1, FS_Interval
<1>3. Cardinality(later) <= Cardinality(i + 1 .. claims) /\ IsFiniteSet(later)
  <2>1. later \in SUBSET (i + 1 .. claims)  OBVIOUS
  <2>2. QED  BY <1>2, <2>1, FS_Subset
<1>4. Cardinality(later) \in Nat  BY <1>3, FS_CardinalityType
<1>5. Cardinality(i + 1 .. claims) < MaxRows
  <2>1. MaxRows >= 1  BY <1>1
  <2>2. QED  BY <1>1, <1>2, <2>1
<1>6. Cardinality(i + 1 .. claims) \in Nat  BY <1>1, <1>2
<1>7. ~(Cardinality(later) >= HistoryLimit)
  BY <1>1, <1>3, <1>4, <1>5, <1>6 DEF NoneForgotten
<1>8. QED  BY <1>7 DEF Outdated

LEMMA SettledKeeps ==
    ASSUME TypeOK, NoneForgotten, NEW e \in Executors, NEW status \in Statuses
    PROVE  \A i \in 1 .. MaxRows : /\ Settled(e, status)[i].task = rows[i].task
                                   /\ Settled(e, status)[i].occ = rows[i].occ
<1>1. ASSUME NEW i \in 1 .. MaxRows
      PROVE  /\ Settled(e, status)[i].task = rows[i].task
             /\ Settled(e, status)[i].occ = rows[i].occ
  <2>1. ~Outdated(i, ex[e].job.task)  BY NeverOutdated
  <2>2. Settled(e, status)[i] = IF i = ex[e].row /\ rows[i] # NoRow
                                THEN [rows[i] EXCEPT !.status = status] ELSE rows[i]
    BY <2>1 DEF Settled
  <2>3. rows[i] \in Rows  BY DEF TypeOK
  <2>4. CASE Settled(e, status)[i] = rows[i]  BY <2>4
  <2>5. CASE Settled(e, status)[i] = [rows[i] EXCEPT !.status = status]
    BY <2>3, <2>5 DEF Rows
  <2>6. QED  BY <2>2, <2>4, <2>5
<1>2. QED  BY <1>1

\* Scheduled work is planned for some time.
Planned ==
    \A r \in Runners :
        /\ ex[r].pc \in Working => ex[r].job.planned # None
        /\ \A job \in ex[r].queue : job.planned # None

\* A scheduled execution is about its row.
RowsTrue ==
    \A r \in Runners : ex[r].pc \in Executing =>
        /\ rows[ex[r].row].task = ex[r].job.task
        /\ rows[ex[r].row].occ = ex[r].job.planned

\* UNIQUE(task_id, occurrence).
RowsUnique ==
    \A i, j \in 1 .. claims :
        /\ rows[i].task = rows[j].task /\ rows[i].occ = rows[j].occ
        /\ rows[i].occ # None
        => i = j

\* What was started has a row, and what is about to start was not started.
StartedClaimed ==
    /\ \A s \in started : \E i \in 1 .. claims : rows[i].task = s[1] /\ rows[i].occ = s[2]
    /\ \A r \in Runners : ex[r].pc = "claimed" =>
           <<ex[r].job.task, ex[r].job.planned>> \notin started

\* Runners do not share rows.
RowsApart ==
    \A r, q \in Runners :
        /\ ex[r].pc \in Executing /\ ex[q].pc \in Executing
        /\ ex[r].row = ex[q].row
        => r = q

OnceInv == RowsTrue /\ RowsUnique /\ StartedClaimed /\ RowsApart

LEMMA OnceKept ==
    ASSUME Typed, Typed', RowsPlaced, OnceInv, UNCHANGED <<claims, started>>,
           \A i \in 1 .. MaxRows : rows'[i].task = rows[i].task /\ rows'[i].occ = rows[i].occ,
           \A r \in Runners : ex'[r].pc \in Executing =>
                ex'[r].row = ex[r].row /\ ex'[r].job = ex[r].job /\ ex'[r].pc = ex[r].pc
    PROVE  OnceInv'
<1>1. \A i \in 1 .. claims : i \in 1 .. MaxRows
  BY SchedulerAssumption DEF Typed, TypeOK
<1>2. \A r \in Runners : ex[r].pc \in Executing => ex[r].row \in 1 .. MaxRows
  BY RowOf DEF Executors
<1>3. RowsTrue'  BY <1>2 DEF OnceInv, RowsTrue
<1>4. RowsUnique'  BY <1>1 DEF OnceInv, RowsUnique
<1>5. StartedClaimed'
  <2>1. \A s \in started : \E i \in 1 .. claims : rows'[i].task = s[1] /\ rows'[i].occ = s[2]
    BY <1>1 DEF OnceInv, StartedClaimed
  <2>2. \A r \in Runners : ex'[r].pc = "claimed" =>
           <<ex'[r].job.task, ex'[r].job.planned>> \notin started
    BY DEF OnceInv, StartedClaimed, Executing
  <2>3. QED  BY <2>1, <2>2 DEF StartedClaimed
<1>6. RowsApart'  BY DEF OnceInv, RowsApart
<1>7. QED  BY <1>3, <1>4, <1>5, <1>6 DEF OnceInv

\* The steps, by what they do to the jobs of runners.
LEMMA JobSteps ==
    ASSUME Typed, [Next]_vars
    PROVE  \/ \A r \in Runners : ex'[r] = ex[r]
           \/ \E e \in Executors : \E job, queue : \E occ \in Nat : Claims(e, job, occ, queue)
           \/ \E e \in Executors : Goes(e)
           \/ \E r \in Runners : Poll(r)
<1>1. ASSUME NEW r \in Runners, RunnerStarts(r)
      PROVE  r \in Executors /\ Goes(r)
  <2>1. /\ r \in Executors /\ ex' = [ex EXCEPT ![r] = ex'[r]]
        /\ ex'[r].pc = "idle" /\ ex'[r].queue = {}
    BY <1>1, StartsEffect
  <2>2. QED  BY <2>1 DEF Goes, Working
<1>2. ASSUME NEW e \in Executors, Begin(e)
      PROVE  Goes(e)
  BY <1>2, BeginEffect DEF Goes, Working
<1>3. QED  BY <1>1, <1>2, RowSteps, WebsRest DEF RowStep, RowsKept, Ends, Moves

LEMMA PlannedStep ==
    ASSUME Typed, RowsPlaced, Planned, [Next]_vars
    PROVE  Planned'
<1>1. CASE \A r \in Runners : ex'[r] = ex[r]  BY <1>1 DEF Planned
<1>2. ASSUME NEW e \in Executors, NEW job, NEW queue, NEW occ \in Nat,
             Claims(e, job, occ, queue)
      PROVE  Planned'
  <2>1. \A f \in Executors \ {e} : ex'[f] = ex[f]  BY <1>2, ClaimsEffect
  <2>2. ex'[e].job = job /\ ex'[e].queue = queue /\ queue \in SUBSET ex[e].queue
    BY <1>2, ClaimsEffect DEF Claims
  <2>3. e \in Runners => job \in ex[e].queue
    BY <1>2, SchedulerAssumption DEF Claims
  <2>4. QED  BY <2>1, <2>2, <2>3 DEF Planned, Executors
<1>3. ASSUME NEW e \in Executors, Goes(e)
      PROVE  Planned'
  <2>1. \A f \in Executors \ {e} : ex'[f] = ex[f]  BY <1>3, Others DEF Goes
  <2>2. QED  BY <1>3, <2>1 DEF Goes, Planned, Executors
<1>4. ASSUME NEW r \in Runners, Poll(r)
      PROVE  Planned'
  <2>1. r \in Executors /\ ex' = [ex EXCEPT ![r] = ex'[r]]
        /\ \/ ex'[r] = ex[r]
           \/ /\ ex'[r].pc = "pass"
              /\ ex'[r].queue = {Job(t) : t \in {u \in Tasks : Due(u)}}
    BY <1>4, PollEffect DEF Executors
  <2>2. \A f \in Executors \ {r} : ex'[f] = ex[f]  BY <2>1, Others
  <2>3. \A t \in Tasks : Due(t) => Job(t).planned # None
    BY JobType DEF Typed, Due, None
  <2>4. /\ ex'[r].pc \in Working => ex'[r].job.planned # None
        /\ \A job \in ex'[r].queue : job.planned # None
    BY <2>1, <2>3 DEF Planned, Working
  <2>5. QED  BY <2>2, <2>4 DEF Planned, Executors
<1>5. QED  BY <1>1, <1>2, <1>3, <1>4, JobSteps

LEMMA OnceStep ==
    ASSUME NoneForgotten, Typed, Typed', RowsPlaced, Planned, OnceInv, [Next]_vars
    PROVE  OnceInv'
<1>1. CASE RowsKept
  BY <1>1, OnceKept DEF RowsKept
<1>2. ASSUME NEW e \in Executors, NEW job, NEW queue, NEW occ \in Nat,
             Claims(e, job, occ, queue)
      PROVE  OnceInv'
  <2>1. /\ claims' = claims + 1 /\ claims' \in 0 .. MaxRows /\ claims + 1 \in 1 .. MaxRows
        /\ rows'[claims + 1] = [task |-> job.task, occ |-> occ, status |-> "running"]
        /\ \A i \in 1 .. MaxRows : i # claims + 1 => rows'[i] = rows[i]
        /\ \A f \in Executors \ {e} : ex'[f] = ex[f]
        /\ ex'[e].pc = "claimed" /\ ex'[e].row = claims + 1 /\ ex'[e].job = job
        /\ ex[e].pc \notin Executing /\ UNCHANGED started
        /\ \A f \in Executors : ex[f].pc \in Executing => ex[f].row # claims + 1
    BY <1>2, ClaimsEffect
  <2>2. \/ e \in Webs /\ e \notin Runners /\ occ = None
        \/ e \in Runners /\ occ = job.planned /\ ~Taken(job.task, occ)
    BY <1>2, SchedulerAssumption DEF Claims
  <2>0. rows'[claims + 1].task = job.task /\ rows'[claims + 1].occ = occ  BY <2>1
  <2>3. \A i \in 1 .. claims : i \in 1 .. MaxRows /\ i # claims + 1 /\ rows'[i] = rows[i]
    BY <2>1, SchedulerAssumption DEF Typed, TypeOK
  <2>4. \A f \in Executors \ {e} : ex[f].pc \in Executing =>
           ex[f].row \in 1 .. claims /\ rows'[ex[f].row] = rows[ex[f].row]
    BY <2>3, RowOf
  <2>5. RowsTrue'
    BY <2>0, <2>1, <2>2, <2>4 DEF OnceInv, RowsTrue, Executors
  <2>6. RowsUnique'
    <3>1. ASSUME NEW i \in 1 .. claims', NEW j \in 1 .. claims',
                 rows'[i].task = rows'[j].task, rows'[i].occ = rows'[j].occ,
                 rows'[i].occ # None, i # j
          PROVE  FALSE
      <4>1. CASE i \in 1 .. claims /\ j \in 1 .. claims
        <5>1. rows'[i] = rows[i] /\ rows'[j] = rows[j]  BY <2>3, <4>1
        <5>2. QED  BY <3>1, <4>1, <5>1 DEF OnceInv, RowsUnique
      <4>2. ASSUME NEW k \in 1 .. claims, rows'[k].task = rows'[claims + 1].task,
                   rows'[k].occ = rows'[claims + 1].occ, rows'[k].occ # None
            PROVE  FALSE
        <5>1. rows[k].task = job.task /\ rows[k].occ = occ  BY <2>0, <2>1, <2>3, <4>2
        <5>2. occ # None /\ ~Taken(job.task, occ)  BY <2>0, <2>2, <4>2, <2>1
        <5>3. QED  BY <5>1, <5>2 DEF Taken
      <4>3. \/ i = claims + 1 /\ j \in 1 .. claims
            \/ j = claims + 1 /\ i \in 1 .. claims
            \/ i \in 1 .. claims /\ j \in 1 .. claims
        BY <2>1, <3>1, SchedulerAssumption DEF Typed, TypeOK
      <4>4. QED  BY <3>1, <4>1, <4>2, <4>3
    <3>2. QED  BY <3>1 DEF RowsUnique
  <2>7. StartedClaimed'
    <3>1. 1 .. claims \subseteq 1 .. claims'  BY <2>1, SchedulerAssumption DEF Typed, TypeOK
    <3>2. \A s \in started : \E i \in 1 .. claims' : rows'[i].task = s[1] /\ rows'[i].occ = s[2]
      <4>1. ASSUME NEW s \in started
            PROVE  \E i \in 1 .. claims' : rows'[i].task = s[1] /\ rows'[i].occ = s[2]
        <5>1. PICK i \in 1 .. claims : rows[i].task = s[1] /\ rows[i].occ = s[2]
          BY DEF OnceInv, StartedClaimed
        <5>2. i \in 1 .. claims' /\ rows'[i] = rows[i]  BY <2>3, <3>1
        <5>3. QED  BY <5>1, <5>2
      <4>2. QED  BY <4>1
    <3>3. e \in Runners => <<job.task, job.planned>> \notin started
      <4>1. ASSUME e \in Runners, <<job.task, job.planned>> \in started  PROVE FALSE
        <5>1. PICK i \in 1 .. claims : /\ rows[i].task = <<job.task, job.planned>>[1]
                                      /\ rows[i].occ = <<job.task, job.planned>>[2]
          BY <4>1 DEF OnceInv, StartedClaimed
        <5>2. Taken(job.task, job.planned)  BY <5>1 DEF Taken
        <5>3. QED  BY <2>2, <4>1, <5>2
      <4>2. QED  BY <4>1
    <3>4. \A r \in Runners : ex'[r].pc = "claimed" =>
             <<ex'[r].job.task, ex'[r].job.planned>> \notin started
      BY <2>1, <3>3 DEF OnceInv, StartedClaimed, Executors
    <3>5. QED  BY <2>1, <3>2, <3>4 DEF StartedClaimed
  <2>8. RowsApart'
    BY <2>1 DEF OnceInv, RowsApart, Executors
  <2>9. QED  BY <2>5, <2>6, <2>7, <2>8 DEF OnceInv
<1>3. ASSUME NEW e \in Executors, NEW status \in Statuses \ {"running"}, Ends(e, status)
      PROVE  OnceInv'
  <2>1. /\ rows' = Settled(e, status) /\ UNCHANGED <<claims, started>>
        /\ ex' = [ex EXCEPT ![e] = ex'[e]] /\ ex'[e].pc \notin Executing
    BY <1>3 DEF Ends
  <2>2. \A f \in Executors \ {e} : ex'[f] = ex[f]  BY <2>1, Others
  <2>3. \A i \in 1 .. MaxRows : rows'[i].task = rows[i].task /\ rows'[i].occ = rows[i].occ
    BY <2>1, SettledKeeps DEF Typed
  <2>4. QED  BY <2>1, <2>2, <2>3, OnceKept DEF Executors
<1>4. ASSUME NEW e \in Executors, Moves(e)
      PROVE  OnceInv'
  <2>1. /\ ex' = [ex EXCEPT ![e] = ex'[e]] /\ ex'[e].pc \notin Executing
        /\ UNCHANGED <<rows, claims, started>>
    BY <1>4 DEF Moves
  <2>2. \A f \in Executors \ {e} : ex'[f] = ex[f]  BY <2>1, Others
  <2>3. QED  BY <2>1, <2>2, OnceKept DEF Executors
<1>5. ASSUME NEW r \in Runners, RunnerStarts(r)
      PROVE  OnceInv'
  <2>1. /\ rows' = RecoverRunning /\ UNCHANGED <<claims, started>>
        /\ ex' = [ex EXCEPT ![r] = ex'[r]] /\ ex'[r].pc \notin Executing
        /\ r \in Executors
    BY <1>5, StartsEffect DEF Executing
  <2>2. \A f \in Executors \ {r} : ex'[f] = ex[f]  BY <2>1, Others
  <2>3. \A i \in 1 .. MaxRows : rows'[i].task = rows[i].task /\ rows'[i].occ = rows[i].occ
    BY <2>1, RecoverType DEF Typed
  <2>4. QED  BY <2>1, <2>2, <2>3, OnceKept DEF Executors
<1>6. ASSUME NEW e \in Executors, Begin(e)
      PROVE  OnceInv'
  <2>1. /\ UNCHANGED <<rows, claims>> /\ ex[e].pc = "claimed"
        /\ \A f \in Executors : /\ ex'[f].pc \in Executing <=> ex[f].pc \in Executing
                                /\ ex'[f].row = ex[f].row /\ ex'[f].job = ex[f].job
        /\ \A f \in Executors : ex'[f].pc = "claimed" => ex[f].pc = "claimed" /\ f # e
        /\ started' = (IF e \in Runners
                       THEN started \cup {<<ex[e].job.task, ex[e].job.planned>>}
                       ELSE started)
    BY <1>6, BeginKeepsRow, BeginEffect
  <2>2. RowsTrue' /\ RowsUnique' /\ RowsApart'
    BY <2>1 DEF OnceInv, RowsTrue, RowsUnique, RowsApart, Executors
  <2>3. e \in Runners =>
          /\ ex[e].row \in 1 .. claims /\ rows[ex[e].row].task = ex[e].job.task
          /\ rows[ex[e].row].occ = ex[e].job.planned /\ ex[e].job.planned # None
    BY <2>1, RowOf DEF OnceInv, RowsTrue, Planned, Executing, Working
  <2>4. \A s \in started' : \E i \in 1 .. claims : rows[i].task = s[1] /\ rows[i].occ = s[2]
    BY <2>1, <2>3 DEF OnceInv, StartedClaimed
  <2>5. ASSUME NEW r \in Runners, ex'[r].pc = "claimed"
        PROVE  <<ex'[r].job.task, ex'[r].job.planned>> \notin started'
    <3>1. r \in Executors /\ r # e /\ ex[r].pc = "claimed" /\ ex'[r].job = ex[r].job
      BY <2>1, <2>5 DEF Executors
    <3>2. <<ex[r].job.task, ex[r].job.planned>> \notin started
      BY <3>1 DEF OnceInv, StartedClaimed
    <3>3. ASSUME e \in Runners, ex[r].job.task = ex[e].job.task,
                 ex[r].job.planned = ex[e].job.planned
          PROVE  FALSE
      <4>1. ex[r].row \in 1 .. claims /\ rows[ex[r].row].task = ex[r].job.task
            /\ rows[ex[r].row].occ = ex[r].job.planned
        BY <3>1, RowOf DEF OnceInv, RowsTrue, Executing
      <4>2. ex[r].row = ex[e].row
        BY <2>3, <3>3, <4>1 DEF OnceInv, RowsUnique
      <4>3. r = e  BY <2>1, <3>1, <3>3, <4>2 DEF OnceInv, RowsApart, Executing
      <4>4. QED  BY <3>1, <4>3
    <3>4. QED  BY <2>1, <3>1, <3>2, <3>3
  <2>6. StartedClaimed'  BY <2>1, <2>4, <2>5 DEF StartedClaimed
  <2>7. QED  BY <2>2, <2>6 DEF OnceInv
<1>7. CASE WebCrash
  <2>1. (\A r \in Runners : ex'[r] = ex[r]) /\ UNCHANGED <<rows, claims, started>>
    BY <1>7, WebsRest
  <2>2. QED  BY <2>1, OnceKept
<1>8. QED  BY <1>1, <1>2, <1>3, <1>4, <1>5, <1>6, <1>7, RowSteps DEF RowStep

\* What the property says of one step.
LEMMA OnceHere ==
    ASSUME Typed, OnceInv, [Next]_vars, NEW r \in Runners,
           ex'[r].pc = "exec", ex[r].pc # "exec"
    PROVE  <<ex'[r].job.task, ex'[r].job.planned>> \notin started
<1>1. r \in Executors  BY DEF Executors
<1>2. ASSUME NEW e \in Executors, ex' = [ex EXCEPT ![e] = ex'[e]]
      PROVE  r = e
  BY <1>1, <1>2, Others
<1>3. ASSUME NEW e \in Executors, ex' = [ex EXCEPT ![e] = ex'[e]], ex'[e].pc # "exec"
      PROVE  FALSE
  BY <1>2, <1>3
<1>4. ASSUME NEW e \in Executors, Begin(e)
      PROVE  <<ex'[r].job.task, ex'[r].job.planned>> \notin started
  <2>1. ex[r].pc = "claimed" /\ ex'[r].job = ex[r].job
    BY <1>2, <1>4, BeginEffect
  <2>2. QED  BY <2>1 DEF OnceInv, StartedClaimed
<1>5. ASSUME NEW q \in Runners, RunnerStarts(q)  PROVE FALSE
  BY <1>3, <1>5, StartsEffect
<1>6. ASSUME NEW e \in Executors, NEW job, NEW queue, NEW occ \in Nat,
             Claims(e, job, occ, queue)
      PROVE  FALSE
  <2> DEFINE c == [pc |-> "claimed", job |-> job, queue |-> queue,
                   row |-> claims + 1, at |-> now, rev |-> 0]
  <2>1. ex' = [ex EXCEPT ![e] = c] /\ c.pc # "exec"  BY <1>6 DEF Claims, Claim
  <2> HIDE DEF c
  <2>2. ex'[e] = c /\ ex' = [ex EXCEPT ![e] = ex'[e]]
    BY <2>1 DEF Typed, TypeOK
  <2>3. QED  BY <1>3, <2>1, <2>2
<1>7. QED
  BY <1>1, <1>3, <1>4, <1>5, <1>6, RowSteps, WebsRest
  DEF RowStep, RowsKept, Ends, Moves, Executing

LEMMA InitOnce ==
    ASSUME Init
    PROVE  Planned /\ OnceInv
<1>1. \A e \in Executors : ex[e].pc \notin Working /\ ex[e].queue = {}
  BY InitRowsPlaced
<1>2. \A r \in Runners : ex[r].pc \notin Executing /\ ex[r].pc # "claimed"
                         /\ ex[r].pc \notin Working /\ ex[r].queue = {}
  BY <1>1 DEF Executors, Executing, Working
<1>3. claims = 0 /\ started = {}  BY DEF Init
<1>4. QED
  BY <1>2, <1>3 DEF Planned, OnceInv, RowsTrue, RowsUnique, StartedClaimed, RowsApart

\* docs/architecture/scheduling.md: "A restart cannot reclaim an occurrence": no
\* occurrence is executed twice, for any number of runners, crashes and edits,
\* as long as finish has deleted no execution from the history.
THEOREM OccursOnce == NoneForgotten => (Spec => OccurrenceOnce)
<1> SUFFICES ASSUME NoneForgotten PROVE Spec => OccurrenceOnce  OBVIOUS
<1> DEFINE Inv == Typed /\ RowsPlaced /\ Planned /\ OnceInv
<1>1. Init => Inv  BY InitTyped, InitRowsPlaced, InitOnce
<1>2. Inv /\ [Next]_vars => Inv'
  BY NextTyped, RowsPlacedStep, PlannedStep, OnceStep
<1>3. Inv /\ [Next]_vars =>
        [\A r \in Runners : ex'[r].pc = "exec" /\ ex[r].pc # "exec"
            => <<ex'[r].job.task, ex'[r].job.planned>> \notin started]_vars
  BY OnceHere
<1>4. QED  BY <1>1, <1>2, <1>3, PTL DEF Spec, OccurrenceOnce

---------------------------------------------------------------------------
(* The steps, by what they do to the order of the claims.                  *)

\* Rows are deleted or change their status.
Shrinks ==
    \A i \in 1 .. MaxRows :
        \/ rows'[i] = NoRow
        \/ rows'[i].task = rows[i].task /\ rows'[i].occ = rows[i].occ

\* What run_due and _suspend write next was read by this step or before it.
Arrives(e) ==
    ex'[e].pc \in {"suspending", "settling"} =>
        ex'[e] = ex[e] \/ ex'[e].rev = tasks'[ex'[e].job.task].rev

\* Why a runner gives up the job it works on without writing its task.
Drops(e) ==
    \/ ~Active(ex[e].job.task)
    \/ /\ ex[e].pc \in {"suspending", "settling"}
       /\ tasks[ex[e].job.task].rev # ex[e].rev
    \/ "crash" \in Faults

Proceeds(e) ==
    /\ Shrinks /\ UNCHANGED <<now, tasks>> /\ Goes(e) /\ Arrives(e)
    /\ e \in Runners /\ ex[e].pc \in Working /\ ex'[e].pc \notin Working => Drops(e)

Rewrites(t, rec) ==
    /\ tasks' = [tasks EXCEPT ![t] = rec]
    /\ UNCHANGED <<now, rows, ex>>
    /\ rec.life = "active" /\ rec.next # None => rec.next > now

Suspends(e) ==
    /\ ex[e].pc = "suspending" /\ Goes(e) /\ Arrives(e) /\ UNCHANGED <<now, rows>>
    /\ tasks' = [tasks EXCEPT ![ex[e].job.task] = Suspended(tasks[ex[e].job.task])]

Settles(r) ==
    /\ ex[r].pc = "settling" /\ Goes(r) /\ ex'[r].pc \notin Working
    /\ UNCHANGED <<now, rows>>
    /\ tasks' = [tasks EXCEPT ![ex[r].job.task] =
                    Advanced(tasks[ex[r].job.task], ex[r].job)]

OrderStep ==
    \/ /\ Shrinks /\ UNCHANGED tasks /\ now' \in {now, now + 1}
       /\ \A r \in Runners : ex'[r] = ex[r]
    \/ \E e \in Executors : Proceeds(e)
    \/ \E e \in Executors : \E job, queue : \E occ \in Nat : Claims(e, job, occ, queue)
    \/ \E r \in Runners : Poll(r)
    \/ \E t \in Tasks, rec \in TaskRecs : Rewrites(t, rec)
    \/ \E e \in Executors : Suspends(e)
    \/ \E r \in Runners : Settles(r)

\* Whoever comes to rest neither suspends nor settles.
LEMMA RestsArrives ==
    ASSUME NEW e, ex'[e].pc \in {"down", "idle", "pass", "exec", "claimed"}
    PROVE  Arrives(e)
BY DEF Arrives

LEMMA RewriteSteps ==
    ASSUME Typed, NEW t \in Tasks,
           \/ \E s \in Schedules : \E on \in BOOLEAN : Create(t, s, on)
           \/ \E s \in Schedules : Edit(t, s)
           \/ \E on \in BOOLEAN : SetEnabled(t, on)
           \/ Delete(t)
    PROVE  \E rec \in TaskRecs : Rewrites(t, rec)
<1>0. now \in Nat /\ None \in Nat  BY SchedulerAssumption DEF Typed, TypeOK, None
<1>1. ASSUME NEW s \in Schedules, NEW on \in BOOLEAN, Create(t, s, on)
      PROVE  \E rec \in TaskRecs : Rewrites(t, rec)
  <2> DEFINE next == IF on THEN NextRun(s, now) ELSE None
             rec == [life |-> "active", enabled |-> on, kind |-> s.kind, n |-> s.n,
                     next |-> next, rev |-> 1, suspended |-> FALSE]
  <2>1. s.kind \in {"once", "every"} /\ s.n \in Nat \ {0}  BY SchedulerAssumption
  <2>2. next # None => next > now  BY <1>0, <2>1, NextRunType
  <2>3. rec \in TaskRecs  BY CreatedRec DEF Typed
  <2>4. tasks' = [tasks EXCEPT ![t] = rec] /\ UNCHANGED <<now, rows, ex>>
    BY <1>1 DEF Create, UserWrites
  <2> HIDE DEF next
  <2>5. rec.next = next  OBVIOUS
  <2> HIDE DEF rec
  <2>6. QED  BY <2>2, <2>3, <2>4, <2>5 DEF Rewrites
<1>2. ASSUME \/ \E s \in Schedules : Edit(t, s)
             \/ \E on \in BOOLEAN : SetEnabled(t, on)
      PROVE  \E rec \in TaskRecs : Rewrites(t, rec)
  <2>1. PICK s : \E on \in BOOLEAN :
             /\ s.kind \in {"once", "every"} /\ s.n \in Nat \ {0} /\ Update(t, s, on)
    BY <1>2, EditUpdates DEF Typed
  <2>2. PICK on \in BOOLEAN : Update(t, s, on)  BY <2>1
  <2> DEFINE rec == UpdatedRec(t, s, on)
  <2>3. rec \in TaskRecs /\ rec.next = (IF on THEN NextRun(s, now) ELSE None)
    BY <2>1, UpdateRec DEF Typed
  <2>4. NextRun(s, now) # None => NextRun(s, now) > now  BY <1>0, <2>1, NextRunType
  <2>5. tasks' = [tasks EXCEPT ![t] = rec] /\ UNCHANGED <<now, rows, ex>>
    BY <2>2 DEF Update, UserWrites, UpdatedRec
  <2> HIDE DEF rec
  <2>6. QED  BY <2>3, <2>4, <2>5 DEF Rewrites
<1>3. ASSUME Delete(t)
      PROVE  \E rec \in TaskRecs : Rewrites(t, rec)
  <2>1. tasks' = [tasks EXCEPT ![t] = DeletedRec(t)] /\ UNCHANGED <<now, rows, ex>>
    BY <1>3 DEF Delete, UserWrites, DeletedRec
  <2>2. DeletedRec(t) \in TaskRecs /\ DeletedRec(t).life = "deleted"
    BY DeleteRec DEF Typed
  <2>3. QED  BY <2>1, <2>2 DEF Rewrites
<1>4. QED  BY <1>1, <1>2, <1>3

LEMMA OrderSteps ==
    ASSUME Typed, [Next]_vars
    PROVE  OrderStep
<1>0. /\ UNCHANGED rows => Shrinks
      /\ \A r \in Runners : r \in Executors
  BY DEF Shrinks, Executors
<1>1. ASSUME NEW t \in Tasks,
             \/ \E s \in Schedules : \E on \in BOOLEAN : Create(t, s, on)
             \/ \E s \in Schedules : Edit(t, s)
             \/ \E on \in BOOLEAN : SetEnabled(t, on)
             \/ Delete(t)
      PROVE  OrderStep
  <2>1. \E rec \in TaskRecs : Rewrites(t, rec)  BY <1>1, RewriteSteps
  <2>2. QED  BY <2>1 DEF OrderStep
<1>2. ASSUME NEW t \in Tasks, NEW w \in Webs, RunNow(w, t)
      PROVE  OrderStep
  <2> DEFINE job == [Job(t) EXCEPT !.planned = now]
  <2>1. job \in Jobs /\ job.task \in Tasks  BY RunNowJob DEF Typed
  <2>2. w \in Executors /\ None \in Nat  BY DEF Executors, None
  <2>3. Claims(w, job, None, {})  BY <1>2, <2>1 DEF RunNow, Claims
  <2> HIDE DEF job
  <2>4. QED  BY <2>2, <2>3 DEF OrderStep
<1>3. ASSUME NEW r \in Runners, ClaimDue(r)
      PROVE  OrderStep
  <2>1. r \in Executors /\ ex[r].pc = "pass" /\ UNCHANGED <<now, tasks, started>>
    BY <1>0, <1>3 DEF ClaimDue
  <2>2. PICK job \in ex[r].queue :
          IF Taken(job.task, job.planned)
          THEN Escapes(r) /\ UNCHANGED <<rows, claims>>
          ELSE Claim(r, job, job.planned, ex[r].queue \ {job}) /\ UNCHANGED lease
    BY <1>3 DEF ClaimDue
  <2>3. job \in Jobs /\ job.task \in Tasks /\ job.planned \in Nat
    BY <2>1, <2>2 DEF Typed, TypeOK, Controls, Placed, Jobs
  <2>4. CASE Taken(job.task, job.planned)
    <3>1. Goes(r) /\ ex'[r].pc \in {"down", "idle"} /\ UNCHANGED rows
      BY <2>1, <2>2, <2>4, EscapesGoes
    <3>2. Proceeds(r)
      BY <1>0, <2>1, <3>1, RestsArrives DEF Proceeds, Working
    <3>3. QED  BY <2>1, <3>2 DEF OrderStep
  <2>5. CASE ~Taken(job.task, job.planned)
    <3> DEFINE queue == ex[r].queue \ {job}
    <3>1. Claim(r, job, job.planned, queue)  BY <2>2, <2>5
    <3>2. Claims(r, job, job.planned, queue)
      BY <2>1, <2>3, <2>5, <3>1 DEF Claims
    <3> HIDE DEF queue
    <3>3. QED  BY <2>1, <2>3, <3>2 DEF OrderStep
  <2>6. QED  BY <2>4, <2>5
<1>4. ASSUME NEW r \in Runners, RunnerStops(r) \/ Crash(r)
      PROVE  OrderStep
  <2>1. ex' = [ex EXCEPT ![r] = Resting("down")] /\ UNCHANGED <<now, tasks, rows>>
    BY <1>4 DEF RunnerStops, Crash, Dies
  <2>2. Goes(r) /\ ex'[r].pc = "down"
    BY <1>0, <2>1, RestsGoes
  <2>3. ex[r].pc \in Working => "crash" \in Faults
    BY <1>4 DEF RunnerStops, Crash, Working
  <2>4. Proceeds(r)  BY <1>0, <2>1, <2>2, <2>3, RestsArrives DEF Proceeds, Drops
  <2>5. QED  BY <1>0, <2>4 DEF OrderStep
<1>5. ASSUME NEW r \in Runners, RunnerStarts(r)
      PROVE  OrderStep
  <2>1. /\ rows' = RecoverRunning /\ UNCHANGED <<now, tasks>> /\ ex[r].pc = "down"
        /\ ex' = [ex EXCEPT ![r] = ex'[r]] /\ ex'[r].pc = "idle" /\ ex'[r].queue = {}
    BY <1>5, StartsEffect
  <2>2. Shrinks  BY <2>1, RecoverType DEF Shrinks, Typed
  <2>3. Proceeds(r)
    BY <2>1, <2>2, RestsArrives DEF Proceeds, Goes, Working
  <2>4. QED  BY <1>0, <2>3 DEF OrderStep
<1>6. ASSUME NEW r \in Runners, Settle(r)
      PROVE  OrderStep
  <2> DEFINE t == ex[r].job.task
  <2>1. /\ ex[r].pc = "settling" /\ ex' = [ex EXCEPT ![r] = ex'[r]]
        /\ UNCHANGED <<now, rows>>
        /\ \/ /\ tasks' = [tasks EXCEPT ![t] = Advanced(tasks[t], ex[r].job)]
              /\ ex'[r] = Continue(r)
           \/ Escapes(r) /\ UNCHANGED tasks /\ tasks[t].rev # ex[r].rev
    BY <1>6, SettleEffect
  <2>2. CASE Escapes(r) /\ UNCHANGED tasks /\ tasks[t].rev # ex[r].rev
    <3>1. Goes(r) /\ ex'[r].pc \in {"down", "idle"}
      BY <1>0, <2>2, EscapesGoes
    <3>2. Proceeds(r)
      BY <1>0, <2>1, <2>2, <3>1, RestsArrives DEF Proceeds, Drops
    <3>3. QED  BY <1>0, <3>2 DEF OrderStep
  <2>3. CASE /\ tasks' = [tasks EXCEPT ![t] = Advanced(tasks[t], ex[r].job)]
             /\ ex'[r] = Continue(r)
    <3>1. ex'[r].pc \in {"idle", "pass"} /\ ex'[r].queue = ex[r].queue
      BY <1>0, <2>3, ContinueType DEF Typed
    <3>2. Settles(r)  BY <2>1, <2>3, <3>1 DEF Settles, Goes, Working
    <3>3. QED  BY <3>2 DEF OrderStep
  <2>4. QED  BY <2>1, <2>2, <2>3
<1>7. ASSUME NEW e \in Executors, SuspendWrites(e)
      PROVE  OrderStep
  <2> DEFINE t == ex[e].job.task
  <2>1. /\ ex[e].pc = "suspending" /\ t \in Tasks /\ ex' = [ex EXCEPT ![e] = ex'[e]]
        /\ UNCHANGED <<now, rows>>
        /\ \/ /\ tasks' = [tasks EXCEPT ![t] = Suspended(tasks[t])]
              /\ ex'[e] = Advance(e, t, tasks[t].rev + 1)
           \/ Escapes(e) /\ UNCHANGED tasks /\ tasks[t].rev # ex[e].rev
    BY <1>7, SuspendEffect
  <2>2. CASE Escapes(e) /\ UNCHANGED tasks /\ tasks[t].rev # ex[e].rev
    <3>1. Goes(e) /\ ex'[e].pc \in {"down", "idle"}
      BY <2>2, EscapesGoes
    <3>2. Proceeds(e)
      BY <1>0, <2>1, <2>2, <3>1, RestsArrives DEF Proceeds, Drops
    <3>3. QED  BY <3>2 DEF OrderStep
  <2>3. CASE /\ tasks' = [tasks EXCEPT ![t] = Suspended(tasks[t])]
             /\ ex'[e] = Advance(e, t, tasks[t].rev + 1)
    <3>1. tasks[t] \in TaskRecs /\ tasks[t].rev + 1 \in Nat
      BY <2>1 DEF Typed, TypeOK, TaskRecs
    <3>2. /\ Goes(e) /\ ex'[e].pc \in {"idle", "pass", "settling"}
          /\ ex'[e].pc = "settling" =>
               ex'[e].job = ex[e].job /\ ex'[e].rev = tasks[t].rev + 1
      <4> DEFINE rev == tasks[t].rev + 1
      <4>1. /\ ex[e].pc \in Working /\ rev \in Nat
            /\ ex' = [ex EXCEPT ![e] = ex'[e]] /\ ex'[e] = Advance(e, t, rev)
        BY <2>1, <2>3, <3>1 DEF Working
      <4> HIDE DEF rev, t
      <4>2. /\ Goes(e) /\ ex'[e].pc \in {"idle", "pass", "settling"}
            /\ ex'[e].pc = "settling" => ex'[e].job = ex[e].job /\ ex'[e].rev = rev
        BY <4>1, AdvanceGoes
      <4>3. QED  BY <4>2 DEF rev
    <3>3. tasks'[t].rev = tasks[t].rev + 1
      BY <2>1, <2>3, <3>1, SuspendRec DEF Typed, TypeOK
    <3>4. Arrives(e)  BY <3>2, <3>3 DEF Arrives
    <3>5. Suspends(e)  BY <2>1, <2>3, <3>2, <3>4 DEF Suspends
    <3>6. QED  BY <3>5 DEF OrderStep
  <2>4. QED  BY <2>1, <2>2, <2>3
<1>8. ASSUME NEW e \in Executors, Finishes(e)
      PROVE  OrderStep
  <2>1. PICK status \in Statuses \ {"running"} : FinishAndAdvance(e, status)
    BY <1>8, FinishesEffect
  <2>2. ex[e].pc \in Working  BY <1>8, FinishesEffect DEF Working
  <2> DEFINE t == ex[e].job.task
  <2>3. /\ rows' = Settled(e, status) /\ ex' = [ex EXCEPT ![e] = ex'[e]]
        /\ ex'[e] = Advance(e, t, tasks[t].rev) /\ UNCHANGED <<now, tasks>>
    BY <2>1, <2>2, FinishEffect
  <2>4. tasks[t].rev \in Nat  BY <2>2, WorkingTask DEF TaskRecs
  <2>5. /\ Goes(e) /\ ex'[e].pc \in {"idle", "pass", "settling"}
        /\ ex'[e].pc = "settling" => ex'[e].job = ex[e].job /\ ex'[e].rev = tasks[t].rev
        /\ ex'[e].pc # "settling" => (e \in Runners => ~Active(t))
    <3> DEFINE rev == tasks[t].rev
    <3>1. rev \in Nat /\ ex' = [ex EXCEPT ![e] = ex'[e]] /\ ex'[e] = Advance(e, t, rev)
      BY <2>3, <2>4
    <3> HIDE DEF rev, t
    <3>2. /\ Goes(e) /\ ex'[e].pc \in {"idle", "pass", "settling"}
          /\ ex'[e].pc = "settling" => ex'[e].job = ex[e].job /\ ex'[e].rev = rev
          /\ ex'[e].pc # "settling" => (e \in Runners => ~Active(t))
      BY <2>2, <3>1, AdvanceGoes
    <3>3. QED  BY <3>2 DEF rev
  <2>6. Shrinks  BY <2>3, SettledType DEF Shrinks, Typed
  <2>8. Arrives(e)  BY <2>3, <2>5 DEF Arrives
  <2>9. e \in Runners /\ ex'[e].pc \notin Working => Drops(e)
    BY <2>5 DEF Drops, Working
  <2>10. Proceeds(e)  BY <2>3, <2>5, <2>6, <2>8, <2>9 DEF Proceeds
  <2>11. QED  BY <2>10 DEF OrderStep
<1>9. ASSUME NEW e \in Executors, Refuses(e)
      PROVE  OrderStep
  <2> DEFINE t == ex[e].job.task
  <2>1. /\ ex[e].pc = "claimed" /\ rows' = Settled(e, "refused")
        /\ ex' = [ex EXCEPT ![e] = ex'[e]] /\ ex'[e].queue = ex[e].queue
        /\ UNCHANGED <<now, tasks>>
        /\ \/ /\ ex'[e].pc = "suspending" /\ ex'[e].job = ex[e].job
              /\ ex'[e].rev = tasks[t].rev
           \/ ~Active(t) /\ ex'[e].pc \in {"idle", "pass"}
    BY <1>9, RefusesEffect
  <2>2. "refused" \in Statuses  BY DEF Statuses
  <2>3. Shrinks  BY <2>1, <2>2, SettledType DEF Shrinks, Typed
  <2>4. Goes(e) /\ Arrives(e)  BY <2>1 DEF Goes, Arrives, Working
  <2>5. ex'[e].pc \notin Working => Drops(e)  BY <2>1 DEF Drops, Working
  <2>6. Proceeds(e)  BY <2>1, <2>3, <2>4, <2>5 DEF Proceeds
  <2>7. QED  BY <2>6 DEF OrderStep
<1>10. ASSUME NEW e \in Executors, Begin(e)
       PROVE  OrderStep
  <2>1. /\ ex[e].pc = "claimed" /\ ex'[e].pc = "exec" /\ ex'[e].job = ex[e].job
        /\ ex' = [ex EXCEPT ![e] = ex'[e]] /\ ex'[e].queue = ex[e].queue
        /\ UNCHANGED <<now, tasks, rows>>
    BY <1>10, BeginEffect
  <2>2. Proceeds(e)
    BY <1>0, <2>1, RestsArrives DEF Proceeds, Goes, Working
  <2>3. QED  BY <2>2 DEF OrderStep
<1>11. CASE WebCrash
  BY <1>0, <1>11, WebsRest DEF OrderStep
<1>12. CASE Ambient
  BY <1>0, <1>12, AmbientTyped DEF OrderStep
<1>13. CASE UNCHANGED vars
  BY <1>0, <1>13 DEF OrderStep, vars
<1>14. ASSUME NEW r \in Runners, Poll(r)  PROVE OrderStep
  BY <1>14 DEF OrderStep
<1>15. QED
  BY <1>1, <1>2, <1>3, <1>4, <1>5, <1>6, <1>7, <1>8, <1>9, <1>10, <1>11, <1>12,
     <1>13, <1>14, Steps

---------------------------------------------------------------------------
(* A single runner claims in the order of the planned times.               *)

\* SchedulerRunner: "intended for one dedicated local process".
SingleRunner == \A r, q \in Runners : r = q

\* No execution of t was planned for later than time.
Behind(t, time) ==
    \A i \in 1 .. MaxRows : rows[i].task = t => rows[i].occ <= time

RowsGone == \A i \in 1 .. MaxRows : rows[i].occ <= now

NextAhead ==
    \A t \in Tasks : Active(t) /\ tasks[t].next # None => Behind(t, tasks[t].next)

JobsAhead ==
    \A r \in Runners : ex[r].pc \in Working =>
        ex[r].job.planned \in 1 .. now /\ Behind(ex[r].job.task, ex[r].job.planned)

\* A queued job is the only one about its task, and its task has not been
\* moved to an earlier time.
QueueAhead ==
    \A r \in Runners : \A job \in ex[r].queue :
        /\ job.planned \in 1 .. now /\ Behind(job.task, job.planned)
        /\ Active(job.task) /\ tasks[job.task].next # None
              => job.planned <= tasks[job.task].next
        /\ ex[r].pc \in Working => job.task # ex[r].job.task
        /\ \A other \in ex[r].queue : other.task = job.task => other = job

OrderInv == ClaimsInOrder /\ RowsGone /\ NextAhead /\ JobsAhead /\ QueueAhead

LEMMA ShrinksBehind ==
    ASSUME Typed, Shrinks, NEW t \in Tasks, NEW time \in Nat, Behind(t, time)
    PROVE  Behind(t, time)'
<1>1. ASSUME NEW i \in 1 .. MaxRows, rows'[i].task = t
      PROVE  rows'[i].occ <= time
  <2>1. CASE rows'[i] = NoRow  BY <2>1 DEF NoRow, None
  <2>2. CASE rows'[i].task = rows[i].task /\ rows'[i].occ = rows[i].occ
    BY <1>1, <2>2 DEF Behind
  <2>3. QED  BY <2>1, <2>2 DEF Shrinks
<1>2. QED  BY <1>1 DEF Behind

LEMMA ShrinksOrder ==
    ASSUME Typed, Shrinks, ClaimsInOrder, RowsGone, now' \in Nat, now <= now'
    PROVE  ClaimsInOrder' /\ RowsGone'
<1>1. ASSUME NEW i \in 1 .. MaxRows, rows'[i].occ # None
      PROVE  rows'[i].task = rows[i].task /\ rows'[i].occ = rows[i].occ
  BY <1>1 DEF Shrinks, NoRow
<1>2. ClaimsInOrder'  BY <1>1 DEF ClaimsInOrder
<1>3. now \in Nat /\ \A i \in 1 .. MaxRows : rows[i].occ \in Nat
  BY SchedulerAssumption DEF Typed, TypeOK, Rows
<1>4. RowsGone'
  <2>1. ASSUME NEW i \in 1 .. MaxRows  PROVE rows'[i].occ <= now'
    <3>1. CASE rows'[i].occ = None  BY <3>1 DEF None
    <3>2. CASE rows'[i].occ # None  BY <1>1, <1>3, <3>2 DEF RowsGone
    <3>3. QED  BY <3>1, <3>2
  <2>2. QED  BY <2>1 DEF RowsGone
<1>5. QED  BY <1>2, <1>4

\* The facts about a runner's work that types give.
LEMMA RunnersWork ==
    ASSUME Typed, NEW r \in Runners
    PROVE  /\ r \in Executors /\ now \in Nat
           /\ ex[r].pc \in Working => ex[r].job.task \in Tasks /\ ex[r].job.planned \in Nat
           /\ \A job \in ex[r].queue :
                job \in Jobs /\ job.task \in Tasks /\ job.planned \in Nat
<1>1. r \in Executors /\ now \in Nat /\ ex[r] \in Controls
  BY SchedulerAssumption DEF Executors, Typed, TypeOK
<1>2. ex[r].job \in Jobs /\ ex[r].queue \in SUBSET Jobs  BY <1>1 DEF Controls
<1>3. \A job \in Jobs : job.planned \in Nat  BY DEF Jobs
<1>4. QED  BY <1>1, <1>2, <1>3 DEF Typed, Placed

\* Steps after which the runners still have some of the work they had.
LEMMA WorkKept ==
    ASSUME Typed, Shrinks, JobsAhead, QueueAhead, now' \in {now, now + 1},
           \A r \in Runners :
             /\ ex'[r].queue \in SUBSET ex[r].queue
             /\ ex'[r].pc \in Working => ex[r].pc \in Working /\ ex'[r].job = ex[r].job,
           \A r \in Runners : \A job \in ex'[r].queue :
             tasks'[job.task].life = "active" /\ tasks'[job.task].next # None
               => job.planned <= tasks'[job.task].next
    PROVE  JobsAhead' /\ QueueAhead'
<1>1. ASSUME NEW r \in Runners, ex'[r].pc \in Working
      PROVE  /\ ex'[r].job.planned \in 1 .. now'
             /\ \A i \in 1 .. MaxRows :
                  rows'[i].task = ex'[r].job.task => rows'[i].occ <= ex'[r].job.planned
  <2> DEFINE t == ex[r].job.task
             p == ex[r].job.planned
  <2>1. ex[r].pc \in Working /\ ex'[r].job = ex[r].job  BY <1>1
  <2>2. t \in Tasks /\ p \in Nat /\ now \in Nat  BY <2>1, RunnersWork
  <2>3. p \in 1 .. now /\ Behind(t, p)  BY <2>1 DEF JobsAhead
  <2> HIDE DEF t, p
  <2>4. \A i \in 1 .. MaxRows : rows'[i].task = t => rows'[i].occ <= p
    BY <2>2, <2>3, ShrinksBehind DEF Behind
  <2>5. p \in 1 .. now'  BY <2>2, <2>3
  <2>6. QED  BY <2>1, <2>4, <2>5 DEF t, p
<1>2. ASSUME NEW r \in Runners, NEW job \in ex'[r].queue
      PROVE  job.planned \in 1 .. now' /\ Behind(job.task, job.planned)'
  <2> DEFINE t == job.task
             p == job.planned
  <2>1. job \in ex[r].queue  BY <1>2
  <2>2. t \in Tasks /\ p \in Nat /\ now \in Nat  BY <2>1, RunnersWork
  <2>3. p \in 1 .. now /\ Behind(t, p)  BY <2>1 DEF QueueAhead
  <2> HIDE DEF t, p
  <2>4. \A i \in 1 .. MaxRows : rows'[i].task = t => rows'[i].occ <= p
    BY <2>2, <2>3, ShrinksBehind DEF Behind
  <2>5. p \in 1 .. now'  BY <2>2, <2>3
  <2>6. QED  BY <2>4, <2>5 DEF Behind, t, p
<1>3. JobsAhead'  BY <1>1 DEF JobsAhead, Behind
<1>4. QueueAhead'
  <2>1. ASSUME NEW r \in Runners, NEW job \in ex'[r].queue
        PROVE  /\ ex'[r].pc \in Working => job.task # ex'[r].job.task
               /\ \A other \in ex'[r].queue : other.task = job.task => other = job
    BY DEF QueueAhead
  <2>2. QED  BY <1>2, <2>1 DEF QueueAhead, Active
<1>5. QED  BY <1>3, <1>4

\* Steps that leave the tasks alone.
LEMMA NextKept ==
    ASSUME Typed, Shrinks, NextAhead, UNCHANGED tasks
    PROVE  NextAhead'
<1>1. ASSUME NEW t \in Tasks, Active(t), tasks[t].next # None
      PROVE  Behind(t, tasks[t].next)'
  <2> DEFINE p == tasks[t].next
  <2>1. p \in Nat  BY DEF Typed, TypeOK, TaskRecs
  <2>2. Behind(t, p)  BY <1>1 DEF NextAhead
  <2> HIDE DEF p
  <2>3. \A i \in 1 .. MaxRows : rows'[i].task = t => rows'[i].occ <= p
    BY <2>1, <2>2, ShrinksBehind DEF Behind
  <2>4. QED  BY <2>3 DEF Behind, p
<1>2. QED  BY <1>1 DEF NextAhead, Active

\* Steps that write one task, whose next run then lies ahead.
LEMMA NextWritten ==
    ASSUME Typed, UNCHANGED rows, NextAhead, NEW t \in Tasks, NEW rec \in TaskRecs,
           tasks' = [tasks EXCEPT ![t] = rec],
           rec.life = "active" /\ rec.next # None => Behind(t, rec.next)
    PROVE  /\ NextAhead' /\ tasks'[t] = rec
           /\ \A u \in Tasks : u # t => tasks'[u] = tasks[u]
<1>1. tasks'[t] = rec /\ \A u \in Tasks : u # t => tasks'[u] = tasks[u]
  BY DEF Typed, TypeOK
<1>2. ASSUME NEW u \in Tasks, tasks'[u].life = "active", tasks'[u].next # None
      PROVE  Behind(u, tasks'[u].next)
  <2>1. CASE u = t  BY <1>1, <1>2, <2>1
  <2>2. CASE u # t
    <3>1. tasks'[u] = tasks[u]  BY <1>1, <2>2
    <3>2. QED  BY <1>2, <3>1 DEF NextAhead, Active
  <2>3. QED  BY <2>1, <2>2
<1>3. NextAhead'  BY <1>2 DEF NextAhead, Active, Behind
<1>4. QED  BY <1>1, <1>3

\* What Goes says of every runner.
LEMMA GoesOthers ==
    ASSUME Typed, NEW e \in Executors, Goes(e)
    PROVE  \A r \in Runners :
             /\ r # e => ex'[r] = ex[r]
             /\ ex'[r].queue \in SUBSET ex[r].queue
             /\ ex'[r].pc \in Working => ex[r].pc \in Working /\ ex'[r].job = ex[r].job
<1>1. ASSUME NEW r \in Runners, r # e  PROVE ex'[r] = ex[r]
  BY <1>1, Others DEF Goes, Executors
<1>2. QED  BY <1>1 DEF Goes

LEMMA OrderRewritten ==
    ASSUME Typed, OrderInv, NEW t \in Tasks, NEW rec \in TaskRecs, Rewrites(t, rec)
    PROVE  OrderInv'
<1>1. /\ tasks' = [tasks EXCEPT ![t] = rec] /\ UNCHANGED <<now, rows, ex>>
      /\ rec.life = "active" /\ rec.next # None => rec.next > now
  BY DEF Rewrites
<1>2. now \in Nat /\ rec.next \in Nat /\ \A i \in 1 .. MaxRows : rows[i].occ \in Nat
  BY SchedulerAssumption DEF Typed, TypeOK, TaskRecs, Rows
<1>3. rec.life = "active" /\ rec.next # None => Behind(t, rec.next)
  BY <1>1, <1>2 DEF OrderInv, RowsGone, Behind
<1>4. /\ NextAhead' /\ tasks'[t] = rec
      /\ \A u \in Tasks : u # t => tasks'[u] = tasks[u]
  BY <1>1, <1>3, NextWritten DEF OrderInv
<1>5. Shrinks  BY <1>1 DEF Shrinks
<1>6. ASSUME NEW r \in Runners, NEW job \in ex[r].queue,
             tasks'[job.task].life = "active", tasks'[job.task].next # None
      PROVE  job.planned <= tasks'[job.task].next
  <2>1. job.task \in Tasks /\ job.planned \in Nat  BY RunnersWork
  <2>2. CASE job.task = t
    <3>1. rec.next > now /\ job.planned \in 1 .. now
      BY <1>1, <1>4, <1>6, <2>2 DEF OrderInv, QueueAhead
    <3>2. QED  BY <1>2, <1>4, <2>1, <2>2, <3>1
  <2>3. CASE job.task # t
    <3>1. tasks'[job.task] = tasks[job.task]  BY <1>4, <2>1, <2>3
    <3>2. QED  BY <1>6, <3>1 DEF OrderInv, QueueAhead, Active
  <2>4. QED  BY <2>2, <2>3
<1>7. JobsAhead' /\ QueueAhead'
  BY <1>1, <1>5, <1>6, WorkKept DEF OrderInv
<1>8. ClaimsInOrder' /\ RowsGone'
  BY <1>1, <1>2, <1>5, ShrinksOrder DEF OrderInv
<1>9. QED  BY <1>4, <1>7, <1>8 DEF OrderInv

LEMMA OrderSuspended ==
    ASSUME Typed, OrderInv, NEW e \in Executors, Suspends(e)
    PROVE  OrderInv'
<1> DEFINE t == ex[e].job.task
           rec == Suspended(tasks[t])
<1>1. /\ ex[e].pc \in Working /\ Goes(e) /\ UNCHANGED <<now, rows>>
      /\ tasks' = [tasks EXCEPT ![t] = rec]
  BY DEF Suspends, Working
<1>2. t \in Tasks /\ rec \in TaskRecs /\ rec.next = None /\ now \in Nat
  BY <1>1, WorkingTask, SuspendRec, SchedulerAssumption DEF Typed, TypeOK
<1> HIDE DEF t, rec
<1>3. /\ NextAhead' /\ tasks'[t] = rec
      /\ \A u \in Tasks : u # t => tasks'[u] = tasks[u]
  BY <1>1, <1>2, NextWritten DEF OrderInv
<1>4. Shrinks  BY <1>1 DEF Shrinks
<1>5. \A r \in Runners :
        /\ ex'[r].queue \in SUBSET ex[r].queue
        /\ ex'[r].pc \in Working => ex[r].pc \in Working /\ ex'[r].job = ex[r].job
  BY <1>1, GoesOthers
<1>6. ASSUME NEW r \in Runners, NEW job \in ex'[r].queue,
             tasks'[job.task].life = "active", tasks'[job.task].next # None
      PROVE  job.planned <= tasks'[job.task].next
  <2>1. job \in ex[r].queue /\ job.task \in Tasks  BY <1>5, RunnersWork
  <2>2. job.task # t  BY <1>2, <1>3, <1>6
  <2>3. tasks'[job.task] = tasks[job.task]  BY <1>3, <2>1, <2>2
  <2>4. QED  BY <1>6, <2>1, <2>3 DEF OrderInv, QueueAhead, Active
<1>7. JobsAhead' /\ QueueAhead'
  BY <1>1, <1>4, <1>5, <1>6, WorkKept DEF OrderInv
<1>8. ClaimsInOrder' /\ RowsGone'
  BY <1>1, <1>2, <1>4, ShrinksOrder DEF OrderInv
<1>9. QED  BY <1>3, <1>7, <1>8 DEF OrderInv

LEMMA OrderSettled ==
    ASSUME SingleRunner, Typed, OrderInv, NEW r \in Runners, Settles(r)
    PROVE  OrderInv'
<1> DEFINE t == ex[r].job.task
           rec == Advanced(tasks[t], ex[r].job)
<1>1. /\ ex[r].pc \in Working /\ Goes(r) /\ UNCHANGED <<now, rows>> /\ r \in Executors
      /\ tasks' = [tasks EXCEPT ![t] = rec]
  BY DEF Settles, Working, Executors
<1>2. t \in Tasks /\ tasks[t] \in TaskRecs /\ ex[r].job \in Jobs /\ now \in Nat
  BY <1>1, WorkingTask, SchedulerAssumption DEF Typed, TypeOK
<1>3. rec \in TaskRecs /\ (rec.next # None => rec.next > ex[r].job.planned)
  BY <1>2, AdvancedRec
<1>4. Behind(t, ex[r].job.planned) /\ ex[r].job.planned \in Nat
  BY <1>1, <1>2 DEF OrderInv, JobsAhead, Jobs
<1>5. rec.next # None => Behind(t, rec.next)
  <2>1. rec.next \in Nat /\ \A i \in 1 .. MaxRows : rows[i].occ \in Nat
    BY <1>3 DEF TaskRecs, Typed, TypeOK, Rows
  <2>2. QED  BY <1>3, <1>4, <2>1 DEF Behind
<1>6. /\ NextAhead' /\ tasks'[t] = rec
      /\ \A u \in Tasks : u # t => tasks'[u] = tasks[u]
  BY <1>1, <1>2, <1>3, <1>5, NextWritten DEF OrderInv
<1>7. Shrinks  BY <1>1 DEF Shrinks
<1>8. \A q \in Runners :
        /\ ex'[q].queue \in SUBSET ex[q].queue
        /\ ex'[q].pc \in Working => ex[q].pc \in Working /\ ex'[q].job = ex[q].job
  BY <1>1, GoesOthers
<1>9. ASSUME NEW q \in Runners, NEW job \in ex'[q].queue,
             tasks'[job.task].life = "active", tasks'[job.task].next # None
      PROVE  job.planned <= tasks'[job.task].next
  <2>1. q = r /\ job \in ex[r].queue /\ job.task \in Tasks
    BY <1>8, RunnersWork DEF SingleRunner
  <2>2. job.task # t  BY <1>1, <2>1 DEF OrderInv, QueueAhead
  <2>3. tasks'[job.task] = tasks[job.task]  BY <1>6, <2>1, <2>2
  <2>4. QED  BY <1>9, <2>1, <2>3 DEF OrderInv, QueueAhead, Active
<1>10. JobsAhead' /\ QueueAhead'
  BY <1>1, <1>7, <1>8, <1>9, WorkKept DEF OrderInv
<1>11. ClaimsInOrder' /\ RowsGone'
  BY <1>1, <1>2, <1>7, ShrinksOrder DEF OrderInv
<1>12. QED  BY <1>6, <1>10, <1>11 DEF OrderInv

LEMMA OrderClaimed ==
    ASSUME SingleRunner, Typed, RowsPlaced, OrderInv, NEW e \in Executors, NEW job,
           NEW queue, NEW occ \in Nat, Claims(e, job, occ, queue)
    PROVE  OrderInv'
<1>1. /\ claims' = claims + 1 /\ claims + 1 \in 1 .. MaxRows
      /\ rows'[claims + 1] = [task |-> job.task, occ |-> occ, status |-> "running"]
      /\ \A i \in 1 .. MaxRows : i # claims + 1 => rows'[i] = rows[i]
      /\ \A f \in Executors \ {e} : ex'[f] = ex[f]
      /\ ex'[e].pc = "claimed" /\ ex'[e].job = job /\ ex'[e].queue = queue
      /\ UNCHANGED <<now, tasks>>
  BY ClaimsEffect
<1>2. rows'[claims + 1].task = job.task /\ rows'[claims + 1].occ = occ  BY <1>1
<1>3. \/ e \in Webs /\ e \notin Runners /\ occ = None
      \/ /\ e \in Runners /\ occ = job.planned /\ job \in ex[e].queue
         /\ ~Taken(job.task, occ) /\ queue = ex[e].queue \ {job}
  BY SchedulerAssumption DEF Claims
<1>4. /\ now \in Nat /\ claims \in Nat
      /\ \A i \in 1 .. MaxRows : i \in Nat /\ rows[i].occ \in Nat
  BY SchedulerAssumption DEF Typed, TypeOK, Rows
<1>5. \A i \in 1 .. MaxRows : i > claims => rows[i].occ = None
  BY DEF RowsPlaced, NoRow
<1>6. ASSUME NEW t, NEW time \in Nat, Behind(t, time),
             e \in Runners /\ t = job.task => job.planned <= time
      PROVE  \A i \in 1 .. MaxRows : rows'[i].task = t => rows'[i].occ <= time
  <2>1. ASSUME NEW i \in 1 .. MaxRows, rows'[i].task = t  PROVE rows'[i].occ <= time
    <3>1. CASE i = claims + 1  BY <1>2, <1>3, <1>6, <2>1, <3>1 DEF None
    <3>2. CASE i # claims + 1  BY <1>1, <1>6, <2>1, <3>2 DEF Behind
    <3>3. QED  BY <3>1, <3>2
  <2>2. QED  BY <2>1
\* What the queue said of the job that a runner claims.
<1>7. ASSUME e \in Runners
      PROVE  /\ job.task \in Tasks /\ occ = job.planned
             /\ job.planned \in 1 .. now /\ Behind(job.task, job.planned)
             /\ Active(job.task) /\ tasks[job.task].next # None
                  => job.planned <= tasks[job.task].next
             /\ \A other \in queue : other.task # job.task
  <2>1. job \in ex[e].queue /\ queue = ex[e].queue \ {job} /\ occ = job.planned
    BY <1>3, <1>7, SchedulerAssumption
  <2>2. job.task \in Tasks  BY <1>7, <2>1, RunnersWork
  <2>3. QED  BY <1>7, <2>1, <2>2 DEF OrderInv, QueueAhead
<1>8. ClaimsInOrder'
  <2>1. ASSUME NEW i \in 1 .. MaxRows, NEW j \in 1 .. MaxRows, i < j,
               rows'[i].task = rows'[j].task, rows'[i].occ # None, rows'[j].occ # None
        PROVE  rows'[i].occ < rows'[j].occ
    <3>1. CASE j = claims + 1
      <4>1. i \in 1 .. claims /\ rows'[i] = rows[i]  BY <1>1, <1>4, <2>1, <3>1
      <4>2. e \in Runners  BY <1>2, <1>3, <2>1, <3>1
      <4>3. rows[i].task = job.task /\ rows[i].occ <= occ
        BY <1>2, <1>7, <2>1, <3>1, <4>1, <4>2 DEF Behind
      <4>4. rows[i].occ # occ
        BY <1>3, <4>1, <4>2, <4>3, SchedulerAssumption DEF Taken
      <4>5. QED  BY <1>2, <1>4, <3>1, <4>1, <4>3, <4>4
    <3>2. CASE i = claims + 1
      <4>1. j > claims /\ j # claims + 1  BY <1>4, <2>1, <3>2
      <4>2. rows'[j].occ = None  BY <1>1, <1>5, <4>1
      <4>3. QED  BY <2>1, <4>2
    <3>3. CASE i # claims + 1 /\ j # claims + 1
      <4>1. rows'[i] = rows[i] /\ rows'[j] = rows[j]  BY <1>1, <3>3
      <4>2. QED  BY <2>1, <4>1 DEF OrderInv, ClaimsInOrder
    <3>4. QED  BY <3>1, <3>2, <3>3
  <2>2. QED  BY <2>1 DEF ClaimsInOrder
<1>9. RowsGone'
  <2>1. ASSUME NEW i \in 1 .. MaxRows  PROVE rows'[i].occ <= now
    <3>1. CASE i = claims + 1
      <4>1. CASE e \in Runners  BY <1>2, <1>4, <1>7, <3>1, <4>1
      <4>2. CASE e \notin Runners  BY <1>2, <1>3, <1>4, <3>1, <4>2 DEF None
      <4>3. QED  BY <4>1, <4>2
    <3>2. CASE i # claims + 1  BY <1>1, <3>2 DEF OrderInv, RowsGone
    <3>3. QED  BY <3>1, <3>2
  <2>2. QED  BY <1>1, <2>1 DEF RowsGone
<1>10. NextAhead'
  <2>1. ASSUME NEW t \in Tasks, Active(t), tasks[t].next # None
        PROVE  \A i \in 1 .. MaxRows : rows'[i].task = t => rows'[i].occ <= tasks[t].next
    <3>1. tasks[t].next \in Nat  BY DEF Typed, TypeOK, TaskRecs
    <3>2. Behind(t, tasks[t].next)  BY <2>1 DEF OrderInv, NextAhead
    <3>3. QED  BY <1>6, <1>7, <2>1, <3>1, <3>2
  <2>2. QED  BY <1>1, <2>1 DEF NextAhead, Active, Behind
<1>11. JobsAhead'
  <2>1. ASSUME NEW r \in Runners, ex'[r].pc \in Working
        PROVE  /\ ex'[r].job.planned \in 1 .. now
               /\ \A i \in 1 .. MaxRows :
                    rows'[i].task = ex'[r].job.task => rows'[i].occ <= ex'[r].job.planned
    <3>1. CASE r = e
      <4>1. job.planned \in 1 .. now /\ Behind(job.task, job.planned) /\ job.planned \in Nat
        BY <1>4, <1>7, <3>1
      <4>2. \A i \in 1 .. MaxRows : rows'[i].task = job.task => rows'[i].occ <= job.planned
        BY <1>6, <4>1
      <4>3. QED  BY <1>1, <3>1, <4>1, <4>2
    <3>2. CASE r # e
      <4>1. ex'[r] = ex[r] /\ e \notin Runners
        BY <1>1, <3>2 DEF Executors, SingleRunner
      <4>2. ex[r].job.planned \in 1 .. now /\ Behind(ex[r].job.task, ex[r].job.planned)
            /\ ex[r].job.planned \in Nat
        BY <2>1, <4>1, RunnersWork DEF OrderInv, JobsAhead
      <4>3. \A i \in 1 .. MaxRows :
               rows'[i].task = ex[r].job.task => rows'[i].occ <= ex[r].job.planned
        BY <1>6, <4>1, <4>2
      <4>4. QED  BY <4>1, <4>2, <4>3
    <3>3. QED  BY <3>1, <3>2
  <2>2. QED  BY <1>1, <2>1 DEF JobsAhead, Behind
<1>12. QueueAhead'
  <2>1. ASSUME NEW r \in Runners, NEW k \in ex'[r].queue
        PROVE  /\ k \in ex[r].queue /\ k.task \in Tasks /\ k.planned \in Nat
               /\ ex'[r].queue \in SUBSET ex[r].queue
               /\ e \in Runners => k.task # job.task
    <3>1. CASE r = e
      BY <1>1, <1>3, <1>7, <2>1, <3>1, RunnersWork DEF SingleRunner
    <3>2. CASE r # e
      <4>1. ex'[r] = ex[r] /\ e \notin Runners
        BY <1>1, <3>2 DEF Executors, SingleRunner
      <4>2. QED  BY <2>1, <4>1, RunnersWork
    <3>3. QED  BY <3>1, <3>2
  <2>2. ASSUME NEW r \in Runners, NEW k \in ex'[r].queue
        PROVE  /\ k.planned \in 1 .. now
               /\ \A i \in 1 .. MaxRows : rows'[i].task = k.task => rows'[i].occ <= k.planned
               /\ Active(k.task) /\ tasks[k.task].next # None
                    => k.planned <= tasks[k.task].next
    <3>1. /\ k \in ex[r].queue /\ k.planned \in Nat /\ (e \in Runners => k.task # job.task)
      BY <2>1
    <3>2. /\ k.planned \in 1 .. now /\ Behind(k.task, k.planned)
          /\ Active(k.task) /\ tasks[k.task].next # None => k.planned <= tasks[k.task].next
      BY <3>1 DEF OrderInv, QueueAhead
    <3>3. \A i \in 1 .. MaxRows : rows'[i].task = k.task => rows'[i].occ <= k.planned
      BY <1>6, <3>1, <3>2
    <3>4. QED  BY <3>2, <3>3
  <2>3. ASSUME NEW r \in Runners, NEW k \in ex'[r].queue
        PROVE  /\ ex'[r].pc \in Working => k.task # ex'[r].job.task
               /\ \A other \in ex'[r].queue : other.task = k.task => other = k
    <3>1. k \in ex[r].queue /\ ex'[r].queue \in SUBSET ex[r].queue  BY <2>1
    <3>2. \A other \in ex'[r].queue : other.task = k.task => other = k
      BY <3>1 DEF OrderInv, QueueAhead
    <3>3. CASE r = e  BY <1>1, <2>1, <3>2, <3>3
    <3>4. CASE r # e
      <4>1. ex'[r] = ex[r]  BY <1>1, <3>4 DEF Executors
      <4>2. QED  BY <3>1, <3>2, <4>1 DEF OrderInv, QueueAhead
    <3>5. QED  BY <3>3, <3>4
  <2>4. QED  BY <1>1, <2>2, <2>3 DEF QueueAhead, Active, Behind
<1>13. QED  BY <1>8, <1>9, <1>10, <1>11, <1>12 DEF OrderInv

LEMMA OrderPolled ==
    ASSUME Typed, OrderInv, NEW r \in Runners, Poll(r)
    PROVE  OrderInv'
<1>1. /\ r \in Executors /\ ex' = [ex EXCEPT ![r] = ex'[r]]
      /\ UNCHANGED <<now, tasks, rows>>
      /\ \/ ex'[r] = ex[r]
         \/ /\ ex'[r].pc = "pass"
            /\ ex'[r].queue = {Job(t) : t \in {u \in Tasks : Due(u)}}
  BY PollEffect DEF Executors
<1>2. \A f \in Executors \ {r} : ex'[f] = ex[f]  BY <1>1, Others
<1>3. ClaimsInOrder' /\ RowsGone' /\ NextAhead'
  BY <1>1 DEF OrderInv, ClaimsInOrder, RowsGone, NextAhead, Active, Behind
<1>4. CASE ex'[r] = ex[r]
  <2>1. \A q \in Runners : ex'[q] = ex[q]  BY <1>2, <1>4 DEF Executors
  <2>2. JobsAhead' /\ QueueAhead'
    BY <1>1, <2>1 DEF OrderInv, JobsAhead, QueueAhead, Active, Behind
  <2>3. QED  BY <1>3, <2>2 DEF OrderInv
<1>5. CASE /\ ex'[r].pc = "pass"
           /\ ex'[r].queue = {Job(t) : t \in {u \in Tasks : Due(u)}}
  <2>1. ASSUME NEW t \in Tasks, Due(t)
        PROVE  /\ Job(t).task = t /\ Job(t).planned = tasks[t].next
               /\ tasks[t].next \in 1 .. now /\ Behind(t, tasks[t].next)
    <3>1. Job(t).task = t /\ Job(t).planned = tasks[t].next  BY JobType DEF Typed
    <3>2. tasks[t].next \in 1 .. now /\ Active(t) /\ tasks[t].next # None
      BY <2>1 DEF Due, None
    <3>3. QED  BY <3>1, <3>2 DEF OrderInv, NextAhead
  <2>2. \A job \in ex'[r].queue :
          /\ job.planned \in 1 .. now /\ Behind(job.task, job.planned)
          /\ job.planned = tasks[job.task].next
          /\ \A other \in ex'[r].queue : other.task = job.task => other = job
    BY <1>5, <2>1
  <2>3. \A job \in ex'[r].queue :
          Active(job.task) /\ tasks[job.task].next # None => job.planned <= tasks[job.task].next
    <3>1. \A job \in ex'[r].queue : job.planned \in Nat  BY <2>2
    <3>2. QED  BY <2>2, <3>1
  <2>4. JobsAhead'
    BY <1>1, <1>2, <1>5 DEF OrderInv, JobsAhead, Executors, Working, Behind
  <2>5. ASSUME NEW q \in Runners, NEW job \in ex'[q].queue
        PROVE  /\ job.planned \in 1 .. now /\ Behind(job.task, job.planned)
               /\ Active(job.task) /\ tasks[job.task].next # None
                     => job.planned <= tasks[job.task].next
               /\ ex'[q].pc \in Working => job.task # ex'[q].job.task
               /\ \A other \in ex'[q].queue : other.task = job.task => other = job
    <3>1. CASE q = r  BY <1>5, <2>2, <2>3, <3>1 DEF Working
    <3>2. CASE q # r
      <4>1. ex'[q] = ex[q]  BY <1>2, <3>2 DEF Executors
      <4>2. QED  BY <4>1 DEF OrderInv, QueueAhead
    <3>3. QED  BY <3>1, <3>2
  <2>6. QueueAhead'  BY <1>1, <2>5 DEF QueueAhead, Active, Behind
  <2>7. QED  BY <1>3, <2>4, <2>6 DEF OrderInv
<1>6. QED  BY <1>1, <1>4, <1>5

LEMMA OrderProceeds ==
    ASSUME Typed, Typed', OrderInv, Shrinks, UNCHANGED tasks, now' \in {now, now + 1},
           \A r \in Runners :
             /\ ex'[r].queue \in SUBSET ex[r].queue
             /\ ex'[r].pc \in Working => ex[r].pc \in Working /\ ex'[r].job = ex[r].job
    PROVE  OrderInv'
<1>1. now \in Nat /\ now' \in Nat /\ now <= now'
  BY SchedulerAssumption DEF Typed, TypeOK
<1>2. \A r \in Runners : \A job \in ex'[r].queue :
        tasks'[job.task].life = "active" /\ tasks'[job.task].next # None
          => job.planned <= tasks'[job.task].next
  BY DEF OrderInv, QueueAhead, Active
<1>3. JobsAhead' /\ QueueAhead'  BY <1>2, WorkKept DEF OrderInv
<1>4. NextAhead'  BY NextKept DEF OrderInv
<1>5. ClaimsInOrder' /\ RowsGone'  BY <1>1, ShrinksOrder DEF OrderInv
<1>6. QED  BY <1>3, <1>4, <1>5 DEF OrderInv

LEMMA OrderInvStep ==
    ASSUME SingleRunner, Typed, Typed', RowsPlaced, OrderInv, [Next]_vars
    PROVE  OrderInv'
<1>1. CASE /\ Shrinks /\ UNCHANGED tasks /\ now' \in {now, now + 1}
           /\ \A r \in Runners : ex'[r] = ex[r]
  BY <1>1, OrderProceeds
<1>2. ASSUME NEW e \in Executors, Proceeds(e)  PROVE OrderInv'
  <2>1. Shrinks /\ UNCHANGED <<now, tasks>> /\ Goes(e)  BY <1>2 DEF Proceeds
  <2>2. \A r \in Runners :
          /\ ex'[r].queue \in SUBSET ex[r].queue
          /\ ex'[r].pc \in Working => ex[r].pc \in Working /\ ex'[r].job = ex[r].job
    BY <2>1, GoesOthers
  <2>3. QED  BY <2>1, <2>2, OrderProceeds
<1>3. QED
  BY <1>1, <1>2, OrderClaimed, OrderPolled, OrderRewritten, OrderSuspended,
     OrderSettled, OrderSteps DEF OrderStep

LEMMA InitOrder ==
    ASSUME Init
    PROVE  OrderInv
<1>1. \A r \in Runners : ex[r].pc \notin Working /\ ex[r].queue = {}
  BY InitRowsPlaced DEF Executors
<1>2. \A i \in 1 .. MaxRows : rows[i].occ = None  BY DEF Init, NoRow
<1>3. now = 1 /\ \A t \in Tasks : ~Active(t)  BY DEF Init, Active, Absent
<1>4. QED
  BY <1>1, <1>2, <1>3 DEF OrderInv, ClaimsInOrder, RowsGone, NextAhead, JobsAhead,
                          QueueAhead, None

\* What a crash, an edit or a Run Now request leaves behind agrees with who runs
\* it, for one runner process beside any number of requests: no scheduled
\* execution is left running unowned, occurrences are claimed in the order of
\* their planned times, a suspended task is disabled and an enabled recurring
\* task has a next run.
THEOREM Accounted == SingleRunner => (Spec => []RunsAreAccounted)
<1> SUFFICES ASSUME SingleRunner PROVE Spec => []RunsAreAccounted  OBVIOUS
<1> DEFINE Inv == Typed /\ RowsPlaced /\ TaskInv /\ RunningIsOwned /\ OrderInv
<1>1. Init => Inv
  <2>1. Init => RunningIsOwned  BY DEF Init, RunningIsOwned, NoRow
  <2>2. QED  BY <2>1, InitTyped, InitRowsPlaced, InitTaskInv, InitOrder
<1>2. Inv /\ [Next]_vars => Inv'
  BY NextTyped, RowsPlacedStep, TaskInvStep, OwnedStep, OrderInvStep
<1>3. Inv => RunsAreAccounted  BY DEF RunsAreAccounted, TaskInv, OrderInv
<1>4. QED  BY <1>1, <1>2, <1>3, PTL DEF Spec

---------------------------------------------------------------------------
(* An occurrence that has been claimed does not stay the next one.         *)

Claimed(t, i) ==
    /\ Active(t) /\ rows[i].task = t
    /\ rows[i].occ = tasks[t].next /\ rows[i].occ # None

WorksOn(r, t) ==
    ex[r].pc \in Working /\ ex[r].job.task = t /\ ex[r].job.planned = tasks[t].next

ClaimedIsWorkedOn ==
    \A t \in Tasks, i \in 1 .. MaxRows : Claimed(t, i) => \E r \in Runners : WorksOn(r, t)

\* A runner whose write will fail has been overtaken by one that moved the task.
Overtaken ==
    \A r \in Runners :
        /\ ex[r].pc \in {"suspending", "settling"}
        /\ Active(ex[r].job.task)
        /\ tasks[ex[r].job.task].rev # ex[r].rev
        => tasks[ex[r].job.task].next \in {None} \cup (Nat \ {ex[r].job.planned})

DueInv == ClaimedIsWorkedOn /\ Overtaken

\* Nothing claimed is due while the only runner works on nothing.
LEMMA IdleNoneClaimed ==
    ASSUME SingleRunner, DueInv, NEW r \in Runners, ex[r].pc \notin Working,
           NEW t \in Tasks, NEW i \in 1 .. MaxRows
    PROVE  ~Claimed(t, i)
BY DEF SingleRunner, DueInv, ClaimedIsWorkedOn, WorksOn

\* A write of a task that moves it past every execution claimed for it.
LEMMA DueWritten ==
    ASSUME SingleRunner, Typed, DueInv, UNCHANGED rows, NEW t \in Tasks,
           \A u \in Tasks : u # t => tasks'[u] = tasks[u],
           tasks'[t].life = "active" /\ tasks'[t].next # None =>
               \A i \in 1 .. MaxRows : rows[i].task = t => rows[i].occ < tasks'[t].next,
           tasks'[t].next \in Nat,
           \A r \in Runners : ex'[r] = ex[r] \/ (ex[r].pc \in Working /\ ex[r].job.task = t)
    PROVE  ClaimedIsWorkedOn'
<1>1. ASSUME NEW u \in Tasks, NEW i \in 1 .. MaxRows, tasks'[u].life = "active",
             rows[i].task = u, rows[i].occ = tasks'[u].next, rows[i].occ # None
      PROVE  \E r \in Runners : /\ ex'[r].pc \in Working /\ ex'[r].job.task = u
                                /\ ex'[r].job.planned = tasks'[u].next
  <2>1. CASE u = t  BY <1>1, <2>1
  <2>2. CASE u # t
    <3>1. tasks'[u] = tasks[u]  BY <2>2
    <3>2. PICK r \in Runners : WorksOn(r, u)
      BY <1>1, <3>1 DEF DueInv, ClaimedIsWorkedOn, Claimed, Active
    <3>3. ex'[r] = ex[r]  BY <2>2, <3>2 DEF WorksOn
    <3>4. QED  BY <3>1, <3>2, <3>3 DEF WorksOn
  <2>3. QED  BY <2>1, <2>2
<1>2. QED  BY <1>1 DEF ClaimedIsWorkedOn, Claimed, Active, WorksOn

LEMMA DueRewritten ==
    ASSUME SingleRunner, Typed, OrderInv, DueInv, NEW t \in Tasks, NEW rec \in TaskRecs,
           Rewrites(t, rec)
    PROVE  DueInv'
<1>1. /\ tasks' = [tasks EXCEPT ![t] = rec] /\ UNCHANGED <<now, rows, ex>>
      /\ rec.life = "active" /\ rec.next # None => rec.next > now
  BY DEF Rewrites
<1>2. tasks'[t] = rec /\ \A u \in Tasks : u # t => tasks'[u] = tasks[u]
  BY <1>1 DEF Typed, TypeOK
<1>3. now \in Nat /\ rec.next \in Nat /\ \A i \in 1 .. MaxRows : rows[i].occ \in Nat
  BY SchedulerAssumption DEF Typed, TypeOK, TaskRecs, Rows
<1>4. rec.life = "active" /\ rec.next # None =>
        \A i \in 1 .. MaxRows : rows[i].occ < rec.next
  BY <1>1, <1>3 DEF OrderInv, RowsGone
<1>5. ClaimedIsWorkedOn'  BY <1>1, <1>2, <1>3, <1>4, DueWritten
<1>6. ASSUME NEW r \in Runners, ex[r].pc \in {"suspending", "settling"},
             tasks'[ex[r].job.task].life = "active",
             tasks'[ex[r].job.task].rev # ex[r].rev
      PROVE  tasks'[ex[r].job.task].next \in {None} \cup (Nat \ {ex[r].job.planned})
  <2>1. ex[r].pc \in Working  BY <1>6 DEF Working
  <2>2. ex[r].job.task \in Tasks /\ ex[r].job.planned \in 1 .. now
    BY <2>1, RunnersWork DEF OrderInv, JobsAhead
  <2>3. CASE ex[r].job.task = t
    BY <1>1, <1>2, <1>3, <1>6, <2>2, <2>3
  <2>4. CASE ex[r].job.task # t
    <3>1. tasks'[ex[r].job.task] = tasks[ex[r].job.task]  BY <1>2, <2>2, <2>4
    <3>2. QED  BY <1>6, <3>1 DEF DueInv, Overtaken, Active
  <2>5. QED  BY <2>3, <2>4
<1>7. Overtaken'  BY <1>1, <1>6 DEF Overtaken, Active
<1>8. QED  BY <1>5, <1>7 DEF DueInv

\* Steps of one executor that keep its task where it is.
LEMMA OvertakenArrives ==
    ASSUME Typed, Overtaken, UNCHANGED tasks, NEW e \in Executors, Goes(e), Arrives(e)
    PROVE  Overtaken'
<1>1. ASSUME NEW r \in Runners, ex'[r].pc \in {"suspending", "settling"},
             tasks[ex'[r].job.task].life = "active",
             tasks[ex'[r].job.task].rev # ex'[r].rev
      PROVE  tasks[ex'[r].job.task].next \in {None} \cup (Nat \ {ex'[r].job.planned})
  <2>1. ex'[r] = ex[r]  BY <1>1, GoesOthers DEF Arrives
  <2>2. QED  BY <1>1, <2>1 DEF Overtaken, Active
<1>2. QED  BY <1>1 DEF Overtaken, Active

LEMMA DueProceeds ==
    ASSUME SingleRunner, "crash" \notin Faults, Typed, DueInv, NEW e \in Executors,
           Proceeds(e)
    PROVE  DueInv'
<1>1. Shrinks /\ UNCHANGED tasks /\ Goes(e) /\ Arrives(e)  BY DEF Proceeds
<1>2. ASSUME NEW t \in Tasks, NEW i \in 1 .. MaxRows, Active(t), rows'[i].task = t,
             rows'[i].occ = tasks[t].next, rows'[i].occ # None
      PROVE  \E r \in Runners : /\ ex'[r].pc \in Working /\ ex'[r].job.task = t
                                /\ ex'[r].job.planned = tasks[t].next
  <2>1. rows[i].task = t /\ rows[i].occ = tasks[t].next /\ tasks[t].next # None
    BY <1>1, <1>2 DEF Shrinks, NoRow
  <2>2. PICK r \in Runners : WorksOn(r, t)
    BY <1>2, <2>1 DEF DueInv, ClaimedIsWorkedOn, Claimed
  <2>3. CASE r # e
    <3>1. ex'[r] = ex[r]  BY <1>1, <2>3, GoesOthers
    <3>2. QED  BY <2>2, <3>1 DEF WorksOn
  <2>4. CASE r = e /\ ex'[r].pc \in Working
    BY <1>1, <2>2, <2>4 DEF Goes, WorksOn
  <2>5. CASE r = e /\ ex'[r].pc \notin Working
    <3>1. Drops(r)  BY <2>2, <2>5 DEF Proceeds, WorksOn
    <3>2. /\ ex[r].pc \in {"suspending", "settling"} /\ tasks[t].rev # ex[r].rev
      BY <1>2, <2>2, <3>1 DEF Drops, WorksOn
    <3>3. tasks[t].next \in {None} \cup (Nat \ {tasks[t].next})
      BY <1>2, <2>2, <3>2 DEF DueInv, Overtaken, WorksOn
    <3>4. QED  BY <2>1, <3>3
  <2>6. QED  BY <2>3, <2>4, <2>5
<1>3. ClaimedIsWorkedOn'
  BY <1>1, <1>2 DEF ClaimedIsWorkedOn, Claimed, Active, WorksOn
<1>4. Overtaken'  BY <1>1, OvertakenArrives DEF DueInv
<1>5. QED  BY <1>3, <1>4 DEF DueInv

LEMMA DueSuspended ==
    ASSUME SingleRunner, Typed, DueInv, NEW e \in Executors, Suspends(e)
    PROVE  DueInv'
<1> DEFINE t == ex[e].job.task
           rec == Suspended(tasks[t])
<1>1. /\ ex[e].pc \in Working /\ Goes(e) /\ Arrives(e) /\ UNCHANGED rows
      /\ tasks' = [tasks EXCEPT ![t] = rec]
  BY DEF Suspends, Working
<1>2. t \in Tasks /\ rec.next = None  BY <1>1, WorkingTask, SuspendRec DEF Typed, TypeOK
<1> HIDE DEF rec
<1>3. tasks'[t] = rec /\ \A u \in Tasks : u # t => tasks'[u] = tasks[u]
  BY <1>1, <1>2 DEF Typed, TypeOK
<1>4. \A r \in Runners : ex'[r] = ex[r] \/ (ex[r].pc \in Working /\ ex[r].job.task = t)
  BY <1>1, GoesOthers
<1>5. ClaimedIsWorkedOn'
  <2>1. tasks'[t].next \in Nat /\ tasks'[t].next = None  BY <1>2, <1>3 DEF None
  <2>2. QED  BY <1>1, <1>2, <1>3, <1>4, <2>1, DueWritten
<1>6. ASSUME NEW r \in Runners, ex'[r].pc \in {"suspending", "settling"},
             tasks'[ex'[r].job.task].life = "active",
             tasks'[ex'[r].job.task].rev # ex'[r].rev
      PROVE  tasks'[ex'[r].job.task].next \in {None} \cup (Nat \ {ex'[r].job.planned})
  <2>1. ex'[r] = ex[r]  BY <1>1, <1>6, GoesOthers DEF Arrives
  <2>2. ex[r].job.task \in Tasks  BY <1>6, <2>1, RunnersWork DEF Working
  <2>3. CASE ex[r].job.task = t  BY <1>2, <1>3, <2>1, <2>3
  <2>4. CASE ex[r].job.task # t
    <3>1. tasks'[ex[r].job.task] = tasks[ex[r].job.task]  BY <1>3, <2>2, <2>4
    <3>2. QED  BY <1>6, <2>1, <3>1 DEF DueInv, Overtaken, Active
  <2>5. QED  BY <2>3, <2>4
<1>7. Overtaken'  BY <1>6 DEF Overtaken, Active
<1>8. QED  BY <1>5, <1>7 DEF DueInv

LEMMA DueSettled ==
    ASSUME SingleRunner, Typed, OrderInv, DueInv, NEW r \in Runners, Settles(r)
    PROVE  DueInv'
<1> DEFINE t == ex[r].job.task
           rec == Advanced(tasks[t], ex[r].job)
<1>1. /\ ex[r].pc \in Working /\ Goes(r) /\ UNCHANGED rows /\ r \in Executors
      /\ tasks' = [tasks EXCEPT ![t] = rec] /\ ex'[r].pc \notin Working
  BY DEF Settles, Working, Executors
<1>2. t \in Tasks /\ tasks[t] \in TaskRecs /\ ex[r].job \in Jobs
  BY <1>1, WorkingTask
<1>3. rec \in TaskRecs /\ (rec.next # None => rec.next > ex[r].job.planned)
  BY <1>2, AdvancedRec
<1>4. Behind(t, ex[r].job.planned) /\ ex[r].job.planned \in Nat /\ rec.next \in Nat
      /\ \A i \in 1 .. MaxRows : rows[i].occ \in Nat
  BY <1>1, <1>2, <1>3 DEF OrderInv, JobsAhead, Jobs, TaskRecs, Typed, TypeOK, Rows
<1>5. rec.next # None => \A i \in 1 .. MaxRows : rows[i].task = t => rows[i].occ < rec.next
  BY <1>3, <1>4 DEF Behind
<1> HIDE DEF rec
<1>6. tasks'[t] = rec /\ \A u \in Tasks : u # t => tasks'[u] = tasks[u]
  BY <1>1, <1>2 DEF Typed, TypeOK
<1>7. \A q \in Runners : ex'[q] = ex[q] \/ (ex[q].pc \in Working /\ ex[q].job.task = t)
  BY <1>1, GoesOthers
<1>8. ClaimedIsWorkedOn'
  BY <1>1, <1>2, <1>4, <1>5, <1>6, <1>7, DueWritten
<1>9. \A q \in Runners : ex'[q].pc \notin {"suspending", "settling"}
  BY <1>1 DEF SingleRunner, Working
<1>10. Overtaken'  BY <1>9 DEF Overtaken
<1>11. QED  BY <1>8, <1>10 DEF DueInv

LEMMA DueClaimed ==
    ASSUME SingleRunner, Typed, RowsPlaced, OrderInv, DueInv, NEW e \in Executors,
           NEW job, NEW queue, NEW occ \in Nat, Claims(e, job, occ, queue)
    PROVE  DueInv'
<1>1. /\ rows'[claims + 1] = [task |-> job.task, occ |-> occ, status |-> "running"]
      /\ \A i \in 1 .. MaxRows : i # claims + 1 => rows'[i] = rows[i]
      /\ \A f \in Executors \ {e} : ex'[f] = ex[f]
      /\ ex'[e].pc = "claimed" /\ ex'[e].job = job /\ UNCHANGED tasks
  BY ClaimsEffect
<1>2. rows'[claims + 1].task = job.task /\ rows'[claims + 1].occ = occ  BY <1>1
<1>3. \/ e \in Webs /\ e \notin Runners /\ occ = None
      \/ e \in Runners /\ occ = job.planned /\ ex[e].pc \notin Working
  BY SchedulerAssumption DEF Claims, Working
<1>4. ASSUME NEW t \in Tasks, NEW i \in 1 .. MaxRows, Active(t), rows'[i].task = t,
             rows'[i].occ = tasks[t].next, rows'[i].occ # None
      PROVE  \E r \in Runners : /\ ex'[r].pc \in Working /\ ex'[r].job.task = t
                                /\ ex'[r].job.planned = tasks[t].next
  <2>1. CASE i = claims + 1
    BY <1>1, <1>2, <1>3, <1>4, <2>1 DEF Working
  <2>2. CASE i # claims + 1
    <3>1. Claimed(t, i)  BY <1>1, <1>4, <2>2 DEF Claimed
    <3>2. e \notin Runners  BY <1>3, <3>1, IdleNoneClaimed
    <3>3. PICK r \in Runners : WorksOn(r, t)  BY <3>1 DEF DueInv, ClaimedIsWorkedOn
    <3>4. ex'[r] = ex[r]  BY <1>1, <3>2 DEF Executors
    <3>5. QED  BY <3>3, <3>4 DEF WorksOn
  <2>3. QED  BY <2>1, <2>2
<1>5. ClaimedIsWorkedOn'
  BY <1>1, <1>4 DEF ClaimedIsWorkedOn, Claimed, Active, WorksOn
<1>6. ASSUME NEW r \in Runners, ex'[r].pc \in {"suspending", "settling"}
      PROVE  ex'[r] = ex[r]
  BY <1>1, <1>6 DEF Executors
<1>7. Overtaken'  BY <1>1, <1>6 DEF DueInv, Overtaken, Active
<1>8. QED  BY <1>5, <1>7 DEF DueInv

LEMMA DueInvStep ==
    ASSUME SingleRunner, "crash" \notin Faults, Typed, RowsPlaced, OrderInv, DueInv,
           [Next]_vars
    PROVE  DueInv'
<1>1. CASE /\ Shrinks /\ UNCHANGED tasks /\ \A r \in Runners : ex'[r] = ex[r]
  <2>1. ASSUME NEW t \in Tasks, NEW i \in 1 .. MaxRows, Active(t), rows'[i].task = t,
               rows'[i].occ = tasks[t].next, rows'[i].occ # None
        PROVE  \E r \in Runners : WorksOn(r, t)
    <3>1. rows[i].task = t /\ rows[i].occ = tasks[t].next /\ tasks[t].next # None
      BY <1>1, <2>1 DEF Shrinks, NoRow
    <3>2. QED  BY <2>1, <3>1 DEF DueInv, ClaimedIsWorkedOn, Claimed
  <2>2. ClaimedIsWorkedOn'
    BY <1>1, <2>1 DEF ClaimedIsWorkedOn, Claimed, Active, WorksOn
  <2>3. Overtaken'  BY <1>1 DEF DueInv, Overtaken, Active
  <2>4. QED  BY <2>2, <2>3 DEF DueInv
<1>2. ASSUME NEW r \in Runners, Poll(r)
      PROVE  DueInv'
  <2>1. /\ r \in Executors /\ ex[r].pc = "idle" /\ ex' = [ex EXCEPT ![r] = ex'[r]]
        /\ UNCHANGED <<tasks, rows>> /\ (ex'[r] = ex[r] \/ ex'[r].pc = "pass")
    BY <1>2, PollEffect DEF Poll, Executors
  <2>2. \A t \in Tasks, i \in 1 .. MaxRows : ~Claimed(t, i)
    BY <2>1, IdleNoneClaimed DEF Working
  <2>3. ClaimedIsWorkedOn'  BY <2>1, <2>2 DEF ClaimedIsWorkedOn, Claimed, Active
  <2>4. \A q \in Runners : ex'[q].pc \notin {"suspending", "settling"}
    BY <2>1 DEF SingleRunner
  <2>5. QED  BY <2>3, <2>4 DEF DueInv, Overtaken
<1>3. QED
  BY <1>1, <1>2, DueProceeds, DueClaimed, DueRewritten, DueSuspended, DueSettled,
     OrderSteps DEF OrderStep

\* An occurrence already claimed is never left as the next one of its task, where
\* its claim would fail for ever: proved for one runner process that does not
\* crash, beside any edits, requests and refusals.
THEOREM ClaimedNotDue ==
    SingleRunner /\ "crash" \notin Faults => (Spec => []ClaimedIsNotDue)
<1> SUFFICES ASSUME SingleRunner, "crash" \notin Faults
             PROVE  Spec => []ClaimedIsNotDue
  OBVIOUS
<1> DEFINE Inv == Typed /\ RowsPlaced /\ OrderInv /\ DueInv
<1>1. Init => Inv
  <2>1. Init => DueInv
    <3> SUFFICES ASSUME Init PROVE DueInv  OBVIOUS
    <3>1. \A r \in Runners : ex[r].pc \notin {"suspending", "settling"}
      BY InitRowsPlaced DEF Executors, Working
    <3>2. \A i \in 1 .. MaxRows : rows[i].occ = None  BY DEF Init, NoRow
    <3>3. QED  BY <3>1, <3>2 DEF DueInv, ClaimedIsWorkedOn, Claimed, Overtaken
  <2>2. QED  BY <2>1, InitTyped, InitRowsPlaced, InitOrder
<1>2. Inv /\ [Next]_vars => Inv'
  BY NextTyped, RowsPlacedStep, OrderInvStep, DueInvStep
<1>3. Inv => ClaimedIsNotDue
  BY DEF DueInv, ClaimedIsWorkedOn, Claimed, WorksOn, ClaimedIsNotDue
<1>4. QED  BY <1>1, <1>2, <1>3, PTL DEF Spec
=============================================================================
