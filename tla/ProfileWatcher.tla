---------------------------- MODULE ProfileWatcher ----------------------------
(***************************************************************************)
(* UNBOT's HabboWatch cog for one watched user: the scan that runs every   *)
(* five minutes, /check of everyone, /habbolastaccess, /habbojson, and the *)
(* files they share.  Each of the tasks suspends while the profile is      *)
(* fetched and while Discord sends a message; between two suspensions it   *)
(* runs alone.                                                             *)
(*                                                                         *)
(* Times are instants 1, 2, ...; 0 stands for None.  An alert key of the   *)
(* policy is the duration at which it is due; "hidden" profiles and        *)
(* failing lookups post alerts of their own and change no window.          *)
(***************************************************************************)
EXTENDS Naturals, FiniteSets, FiniteSetsExt

CONSTANTS
    WatchMaxTime,  \* bound on the clock
    Milestones,    \* the offline durations of the user's policy
    FailureAlert,  \* PROFILE_FAILURE_ALERT_THRESHOLD
    WatchOps       \* sets of "force", "sync", "manual", "restart": what a history has

ASSUME WatchAssumption ==
    /\ WatchMaxTime \in Nat \ {0} /\ Milestones \subseteq Nat \ {0}
    /\ FailureAlert \in Nat \ {0}
    /\ WatchOps \subseteq SUBSET {"force", "sync", "manual", "restart"}

VARIABLES
    ops,      \* what this history has, beside the scan
    wNow,     \* the clock
    habbo,    \* the user's profile at Habbo: online, last access, hidden
    st,       \* _state[user], or NoState
    mem,      \* last_online_times, logoff_times and offline_records of the user
    disk,     \* the three files
    scan,     \* periodic_check: step, fetched profile, its own `st'
    force,    \* force_upload_all_embeds
    sync,     \* reconcile_everyone_last_access
    streak,   \* _profile_failure_streaks
    posted,   \* history: windows and keys for which an alert was posted
    twice     \* history: was one of them posted again?

watchVars == <<ops, wNow, habbo, st, mem, disk, scan, force, sync, streak, posted, twice>>

NoState == [none |-> TRUE]
NewState(sent) == [was |-> "unknown", since |-> 0, sent |-> sent]
Files == [last |-> 0, logoff |-> 0, seen |-> 0, since |-> 0, sent |-> {}, ended |-> 0]
IdleScan == [at |-> "idle", profile |-> NoState, own |-> NoState, shared |-> FALSE,
             key |-> 0, back |-> FALSE]
IdleTask == [at |-> "idle", profile |-> NoState]

Later(a, b) == IF a # 0 THEN a ELSE b
Was(online) == IF online THEN "online" ELSE "offline"

---------------------------------------------------------------------------
(* The audit record.                                                       *)

\* record_offline_start: another start is another window.
StartsOffline(m, since) ==
    [m EXCEPT !.since = since, !.sent = IF m.since = since THEN @ ELSE {}]

\* record_offline_end
EndsOffline(m, back) == [m EXCEPT !.since = 0, !.sent = {}, !.seen = back, !.ended = back]

SeenOnline(m, at) == [m EXCEPT !.seen = at]

\* reconcile_last_access_for_user: only a newer access corrects the files.
Corrects(m, p) == p.access # 0 /\ ~(m.last # 0 /\ m.last >= p.access)
Reconciled(m, p) ==
    IF ~Corrects(m, p) THEN m
    ELSE IF p.online THEN SeenOnline([m EXCEPT !.last = p.access, !.logoff = 0], p.access)
    ELSE StartsOffline([m EXCEPT !.last = p.access, !.logoff = p.access], p.access)

\* resolve_milestone: the highest checkpoint reached.
Milestone(since) ==
    LET reached == {k \in Milestones : wNow - since >= k} IN
    IF since = 0 \/ reached = {} THEN 0 ELSE Max(reached)

---------------------------------------------------------------------------
(* periodic_check.                                                         *)

ScanFetches ==
    /\ scan.at = "idle"
    /\ scan' = [scan EXCEPT !.at = "fetched", !.profile = habbo]
    /\ UNCHANGED <<ops, wNow, habbo, st, mem, disk, force, sync, streak, posted, twice>>

KeepsState == st' = st /\ streak' = (IF streak < FailureAlert THEN streak + 1 ELSE streak)
\* A lookup that fails keeps the last known state; the third in a row is reported.
ScanFails ==
    /\ scan.at = "fetched"
    /\ KeepsState
    /\ scan' = IdleScan
    /\ UNCHANGED <<ops, wNow, habbo, mem, disk, force, sync, posted, twice>>

StartSeeded == NewState(mem.sent)

\* Restoring an offline window after a restart.
Restores(own, m, p) == own.was = "unknown" /\ ~p.online /\ own.since = 0
RestoredSince(m) == Later(m.since, Later(m.logoff, m.last))
AfterRestore(own, m, p) ==
    LET since == RestoredSince(m)
        m2 == StartsOffline([m EXCEPT !.logoff = Later(@, since)], since)
    IN  IF Restores(own, m, p) /\ since # 0
        THEN [own |-> [own EXCEPT !.since = since, !.sent = m2.sent], mem |-> m2]
        ELSE [own |-> own, mem |-> m]

\* The transition between what was and what is.
AfterTransition(own, m, p) ==
    LET online == IF p.online THEN SeenOnline([m EXCEPT !.last = wNow], wNow) ELSE m IN
    IF own.was = "online" /\ ~p.online
    THEN LET since == Later(m.last, wNow) IN
         [own |-> [own EXCEPT !.since = since, !.sent = {}],
          mem |-> StartsOffline([m EXCEPT !.logoff = wNow], since)]
    ELSE IF own.was = "offline" /\ p.online
    THEN [own |-> [own EXCEPT !.since = 0, !.sent = {}],
          mem |-> [(IF own.since # 0 THEN EndsOffline(online, wNow) ELSE online)
                      EXCEPT !.logoff = 0]]
    ELSE [own |-> own, mem |-> online]

\* After a correction the milestone waits for the next scan.
DueKey(own, p, corrected) ==
    IF corrected \/ p.online THEN 0
    ELSE LET key == Milestone(own.since) IN IF key \in own.sent THEN 0 ELSE key

\* mark_persisted_alert_sent
Marked(m, key) == [m EXCEPT !.sent = @ \cup {key}]

Posts(key) ==
    /\ twice' = (twice \/ <<mem.since, key>> \in posted)
    /\ posted' = posted \cup {<<mem.since, key>>}

ScanProcesses ==
    /\ scan.at = "fetched"
    /\ streak' = 0
    /\ LET p == scan.profile
           own0 == IF st = NoState THEN StartSeeded ELSE st
           r == AfterRestore(own0, Reconciled(mem, p), p)
           t == AfterTransition(r.own, r.mem, p)
           key == DueKey(t.own, p, Corrects(mem, p))
           back == own0.was = "offline" /\ p.online
           done == [t.own EXCEPT !.was = Was(p.online)]
       IN  /\ mem' = t.mem
           /\ IF key # 0 \/ back
              THEN /\ scan' = [scan EXCEPT !.at = "posting", !.own = t.own, !.key = key,
                                           !.back = back, !.shared = st # NoState]
                   /\ st' = IF st = NoState THEN st ELSE t.own
                   /\ UNCHANGED disk
              ELSE /\ scan' = IdleScan
                   /\ st' = done
                   /\ disk' = IF t.mem # mem THEN t.mem ELSE disk
    /\ UNCHANGED <<ops, wNow, habbo, force, sync, posted, twice>>

\* The message is out: note it, keep the state, save the files.  The scan holds
\* the state it works on; what replaced it meanwhile is overwritten.
ScanPosts ==
    /\ scan.at = "posting"
    /\ LET own == IF scan.shared /\ st # NoState THEN st ELSE scan.own
           sent == IF scan.key = 0 THEN own ELSE [own EXCEPT !.sent = @ \cup {scan.key}]
       IN  st' = [sent EXCEPT !.was = Was(scan.profile.online)]
    /\ mem' = IF scan.key = 0 THEN mem ELSE Marked(mem, scan.key)
    /\ disk' = mem'
    /\ IF scan.key = 0 THEN UNCHANGED <<posted, twice>> ELSE Posts(scan.key)
    /\ scan' = IdleScan
    /\ UNCHANGED <<ops, wNow, habbo, force, sync, streak>>

---------------------------------------------------------------------------
(* The commands.                                                           *)

ForceFetches ==
    /\ "force" \in ops
    /\ force.at = "idle"
    /\ force' = [at |-> "fetched", profile |-> habbo]
    /\ UNCHANGED <<ops, wNow, habbo, st, mem, disk, scan, sync, streak, posted, twice>>

\* force_upload_all_embeds makes a state with nothing sent when there is none.
ForceProcesses ==
    /\ force.at = "fetched"
    /\ LET p == force.profile
           own == IF st = NoState THEN NewState({}) ELSE st
           since == Later(mem.logoff, mem.since)
       IN  IF p.online
           THEN /\ mem' = [(IF since # 0 THEN EndsOffline([mem EXCEPT !.last = wNow], wNow)
                            ELSE SeenOnline([mem EXCEPT !.last = wNow], wNow)) EXCEPT !.logoff = 0]
                /\ st' = [own EXCEPT !.since = 0, !.was = "online"]
           ELSE /\ mem' = IF since # 0 THEN StartsOffline(mem, since) ELSE mem
                /\ st' = [own EXCEPT !.since = since, !.was = "offline"]
    /\ force' = [force EXCEPT !.at = "posting"]
    /\ UNCHANGED <<ops, wNow, habbo, disk, scan, sync, streak, posted, twice>>

ForceSaves ==
    /\ force.at = "posting"
    /\ disk' = mem
    /\ force' = IdleTask
    /\ UNCHANGED <<ops, wNow, habbo, st, mem, scan, sync, streak, posted, twice>>

SyncFetches ==
    /\ "sync" \in ops
    /\ sync.at = "idle"
    /\ sync' = [at |-> "fetched", profile |-> habbo]
    /\ UNCHANGED <<ops, wNow, habbo, st, mem, disk, scan, force, streak, posted, twice>>

SyncSaved == IF Corrects(mem, sync.profile) THEN Reconciled(mem, sync.profile) ELSE disk
\* reconcile_everyone_last_access saves when it has corrected something.
SyncReconciles ==
    /\ sync.at = "fetched"
    /\ mem' = Reconciled(mem, sync.profile)
    /\ disk' = SyncSaved
    /\ sync' = IdleTask
    /\ UNCHANGED <<ops, wNow, habbo, st, scan, force, streak, posted, twice>>

\* apply_manual_json_update, with a time the operator reads off the profile.
ManualUpdate(online, at) ==
    /\ "manual" \in ops
    /\ LET since == Later(mem.since, mem.logoff) IN
       mem' = IF online
              THEN [(IF since # 0 THEN EndsOffline([mem EXCEPT !.last = at], at)
                     ELSE SeenOnline([mem EXCEPT !.last = at], at)) EXCEPT !.logoff = 0]
              ELSE StartsOffline([mem EXCEPT !.logoff = at], at)
    /\ disk' = mem'
    /\ st' = NoState
    /\ scan' = [scan EXCEPT !.shared = FALSE, !.own = IF scan.shared THEN st ELSE scan.own]
    /\ UNCHANGED <<ops, wNow, habbo, force, sync, streak, posted, twice>>

---------------------------------------------------------------------------
(* The rest of the world.                                                  *)

\* A restart of the bot between two tasks.
Restarts ==
    /\ "restart" \in ops
    /\ scan.at = "idle" /\ force.at = "idle" /\ sync.at = "idle"
    /\ st # NoState
    /\ st' = NoState /\ mem' = disk /\ streak' = 0
    /\ UNCHANGED <<ops, wNow, habbo, disk, scan, force, sync, posted, twice>>

\* An instant is shorter than a visit: no two logins in one.
LogsIn ==
    /\ ~habbo.online /\ habbo.access < wNow
    /\ habbo' = [online |-> TRUE, access |-> wNow]
    /\ UNCHANGED <<ops, wNow, st, mem, disk, scan, force, sync, streak, posted, twice>>

LogsOut ==
    /\ habbo.online
    /\ \E at \in {habbo.access, wNow} : habbo' = [online |-> FALSE, access |-> at]
    /\ UNCHANGED <<ops, wNow, st, mem, disk, scan, force, sync, streak, posted, twice>>

WatchTick ==
    /\ wNow < WatchMaxTime
    /\ wNow' = wNow + 1
    /\ UNCHANGED <<ops, habbo, st, mem, disk, scan, force, sync, streak, posted, twice>>

WatchInit ==
    /\ ops \in WatchOps
    /\ wNow = 1
    /\ habbo \in [online : BOOLEAN, access : {1}]
    /\ st = NoState /\ mem = Files /\ disk = Files
    /\ scan = IdleScan /\ force = IdleTask /\ sync = IdleTask
    /\ streak = 0 /\ posted = {} /\ twice = FALSE

WatchNext ==
    \/ ScanFetches \/ ScanFails \/ ScanProcesses \/ ScanPosts
    \/ ForceFetches \/ ForceProcesses \/ ForceSaves
    \/ SyncFetches \/ SyncReconciles
    \/ \E online \in BOOLEAN, at \in {habbo.access, wNow} : ManualUpdate(online, at)
    \/ Restarts \/ LogsIn \/ LogsOut \/ WatchTick

WatchSpec == WatchInit /\ [][WatchNext]_watchVars

---------------------------------------------------------------------------
(* Properties.                                                             *)

WatchTypeOK ==
    /\ wNow \in 1 .. WatchMaxTime
    /\ streak \in 0 .. FailureAlert
    /\ mem.sent \subseteq Milestones /\ disk.sent \subseteq Milestones
    /\ st # NoState => st.was \in {"unknown", "online", "offline"}

\* "Persist one sent alert key to prevent duplicate embeds after restarts": no
\* milestone of an offline window is posted twice, unless an operator corrects the
\* window by hand.
AlertedOnce == ops \cap {"force", "manual"} = {} => ~twice

\* What was observed is in the files whenever no task is under way, so a restart
\* forgets nothing.
IdleIsSaved ==
    scan.at = "idle" /\ force.at = "idle" /\ sync.at = "idle" => disk = mem

\* "The comparison only moves records forward": a stale answer of Habbo never takes
\* the last online time back.
OnlyForward == []["manual" \notin ops => mem'.last >= mem.last]_watchVars
=============================================================================
