------------------------------ MODULE Calendar ------------------------------
(***************************************************************************)
(* The recurrence arithmetic of portal/scheduler.py: next_run for daily    *)
(* and weekly schedules in a time zone with daylight saving.               *)
(*                                                                         *)
(* Instants of UTC are hours since an origin; a day has DayLen hours.  The *)
(* zone's clock goes forward one hour at instant Spring and back one hour  *)
(* at instant Autumn.  A wall time is the hour count its clock shows.      *)
(***************************************************************************)
EXTENDS Integers

CONSTANTS
    DayLen,     \* hours of a day
    Spring,     \* the UTC instant the clock goes forward
    Autumn,     \* the UTC instant it goes back
    Schedules,  \* records [weekdays, hour]; a daily one has all weekdays
    Horizon     \* bound on the instants

ASSUME CalendarAssumption ==
    /\ DayLen \in Nat \ {0} /\ Horizon \in Nat
    /\ Spring \in Nat /\ Autumn \in Nat /\ Spring + 1 < Autumn
    /\ Schedules \subseteq [weekdays : SUBSET (0 .. 6), hour : 0 .. DayLen - 1]

VARIABLES
    schedule,  \* the schedule of a task
    after      \* the instant its next run is computed from

calendarVars == <<schedule, after>>

Never == -1   \* next_run raises: no valid next occurrence was found

\* The zone: what its clock shows at a UTC instant.
Local(u) == IF Spring <= u /\ u < Autumn THEN u + 1 ELSE u

\* Python's reading of a wall time with fold 0: the offset in force before the
\* transition, in the hour that is skipped and in the one that occurs twice.
Fold0(w) == IF Spring + 1 <= w /\ w < Autumn + 1 THEN w - 1 ELSE w


\* _local_candidate: a wall time that does not survive the round trip through
\* UTC does not exist.
Candidate(day, hour) ==
    LET w == day * DayLen + hour IN
    IF Local(Fold0(w)) = w THEN Fold0(w) ELSE Never

Weekday(day) == day % 7

Acceptable(s, from, day) ==
    Weekday(day) \in s.weekdays /\ Candidate(day, s.hour) > from

SearchedFewer == 0 .. 0   \* mutant
Searched == 0 .. 8


\* next_run: the first acceptable of nine local days.
NextRun(s, from) ==
    LET today == Local(from) \div DayLen
        found == {d \in Searched : Acceptable(s, from, today + d)}
    IN  IF found = {} THEN Never
        ELSE Candidate(today + (CHOOSE d \in found : \A e \in found : d <= e), s.hour)

CalendarInit == schedule \in Schedules /\ after \in 0 .. Horizon

\* A task has run: run_due computes the next run from the planned instant. When
\* next_run raises, the runner ends and nothing runs any more.
Run ==
    /\ NextRun(schedule, after) \in 0 .. Horizon
    /\ after' = NextRun(schedule, after)
    /\ UNCHANGED schedule

CalendarNext == Run

CalendarSpec == CalendarInit /\ [][CalendarNext]_calendarVars

---------------------------------------------------------------------------
(* Properties.                                                             *)

\* The instants at which a schedule is meant to run: the clock shows its hour on
\* one of its weekdays for the first time.
Meant(s) ==
    {u \in 0 .. Horizon + 15 * DayLen :
        /\ Local(u) % DayLen = s.hour
        /\ Weekday(Local(u) \div DayLen) \in s.weekdays
        /\ \A v \in u - 2 .. u - 1 : Local(v) # Local(u)}

\* What next_run finds is the first instant meant after the given one: no skipped
\* hour is invented, no day left out, no repeated hour used twice.
FindsTheFirst ==
    LET n == NextRun(schedule, after) IN
    n # Never => /\ n \in Meant(schedule) /\ n > after
                 /\ \A u \in Meant(schedule) : u > after => n <= u

\* A daily schedule always has a next run.
DailyIsFound ==
    schedule.weekdays = 0 .. 6 => NextRun(schedule, after) # Never

\* "the durable occurrence key prevents a second execution" of a repeated hour:
\* successive runs are on successive local days, never twice on one.
OncePerDay ==
    [][Local(after') \div DayLen > Local(after) \div DayLen
       \/ Local(after) % DayLen # schedule.hour]_calendarVars

\* docs/architecture/scheduling.md: "For nonexistent spring-forward wall times,
\* that day's occurrence is skipped", so some later one is found.
NextIsFound == NextRun(schedule, after) # Never
=============================================================================
