----------------------------- MODULE MCServices ------------------------------
(***************************************************************************)
(* The services under faults, on small instances: the supervisor with one  *)
(* bot and every fault, the backups of a bot with two threads of one       *)
(* process, the limit of mutations, and the calendar (sixteen weeks of     *)
(* four-hour days; the clock goes forward on day 7, in the third hour of   *)
(* the week's first weekday, and back on day 15).  The modules share no    *)
(* state, so one configuration checks them side by side.                   *)
(***************************************************************************)
EXTENDS Supervisor, Backups, WebPolicy, Calendar, TLC

VARIABLE part   \* the module a behaviour is about

Parts == {"supervisor", "backups", "web", "calendar"}

ServicesVars == <<part, vars, backupVars, webVars, calendarVars>>

\* The others stay as they are.
Only(p) ==
    /\ part = p /\ part' = p
    /\ IF p = "supervisor" THEN TRUE ELSE UNCHANGED vars
    /\ IF p = "backups" THEN TRUE ELSE UNCHANGED backupVars
    /\ IF p = "web" THEN TRUE ELSE UNCHANGED webVars
    /\ IF p = "calendar" THEN TRUE ELSE UNCHANGED calendarVars

\* Only the part that is run starts in any of its initial states.
ServicesInit ==
    /\ part \in Parts
    /\ Init
    /\ BackupsInit
    /\ WebInit /\ (part = "web" \/ webKind = "authentication")
    /\ CalendarInit /\ (part = "calendar" \/ (after = 0 /\ schedule = [weekdays |-> {0}, hour |-> 0]))

ServicesNext ==
    \/ Only("supervisor") /\ Next
    \/ Only("backups") /\ BackupsNext
    \/ Only("web") /\ WebNext
    \/ Only("calendar") /\ CalendarNext

ServicesSpec == ServicesInit /\ [][ServicesNext]_ServicesVars

CONSTANTS b1, w1, w2, c1, c2

OneProcess == (w1 :> "web") @@ (w2 :> "web")
MCSchedules ==
    [weekdays : {0 .. 6, {0}, {1}, {2, 6}, {0, 1, 3}}, hour : 0 .. DayLen - 1]
MCSymmetry == Permutations({w1, w2}) \cup Permutations({c1, c2})

ServicesTypeOK ==
    /\ part \in Parts
    /\ TypeOK
    /\ BackupsTypeOK
    /\ WebTypeOK

\* ReportedIsListed, RestoringIsKept, RolledBackLeavesNothing, ManualKeepsSafety and
\* SuccessTrims: what the portal has promised of backups and restores.
BackupsAreKept ==
    /\ [](ReportedIsListed /\ RestoringIsKept)
    /\ RolledBackLeavesNothing /\ ManualKeepsSafety /\ SuccessTrims

\* FindsTheFirst, DailyIsFound and OncePerDay: what next_run returns.
NextRunIsRight ==
    /\ [](part = "calendar" => FindsTheFirst /\ DailyIsFound)
    /\ OncePerDay
==============================================================================
