------------------------------ MODULE UserTime ------------------------------
(***************************************************************************)
(* The per-user time file of UNBOT's watcher (update_user_time_file): the  *)
(* seconds a user was seen online and offline, kept from one poll to the   *)
(* next and across restarts, with the corrections Habbo's last-access time *)
(* brings.  One watched user; instants are numbered, 0 stands for None.    *)
(***************************************************************************)
EXTENDS Integers, FiniteSetsExt

CONSTANT TimeMax   \* bound on the clock

ASSUME TimeAssumption == TimeMax \in Nat

VARIABLES
    tNow,      \* the clock
    tFile,     \* USERS/<name>.json, or NoFile
    tVisits,   \* the instants at which the user was active
    tFirst     \* history: the first instant the file accounts for

timeVars == <<tNow, tFile, tVisits, tFirst>>

NoFile == [status |-> "none", since |-> 0, seen |-> 0, on |-> 0, off |-> 0]

Positive(n) == IF n > 0 THEN n ELSE 0

\* The poll interval, divided at a transition Habbo has dated inside it.
Accrued(f, status, known, now) ==
    LET dated == f.status # status /\ known # 0
        until == IF dated THEN Max({f.seen, known}) ELSE now
        old == Positive(until - f.seen)
        new == Positive(now - until)
    IN  IF f.status = "none" \/ now <= f.seen THEN f
        ELSE [f EXCEPT !.on = @ + (IF f.status = "online" THEN old ELSE 0)
                                + (IF status = "online" THEN new ELSE 0),
                       !.off = @ + (IF f.status = "offline" THEN old ELSE 0)
                                 + (IF status = "offline" THEN new ELSE 0)]

\* Newer activity inside what looked like one offline window shortens the window.
CorrectedWindow(f, known) ==
    IF f.status = "offline" /\ known # 0 /\ f.since < known
    THEN [f EXCEPT !.off = Positive(@ - (known - f.since)), !.since = known]
    ELSE f

\* Only a brand-new file is seeded with the time before it.
Seeded(f, known, now) == IF f = NoFile THEN now - known ELSE f.off

\* Another session begins.
NewSession(f, status, known, now) ==
    IF status = "offline" /\ known # 0
    THEN [f EXCEPT !.since = known, !.off = Seeded(f, known, now)]
    ELSE [f EXCEPT !.since = now]

Updated(f, status, known, now) ==
    LET a == Accrued(f, status, known, now)
        w == IF f.status = status
             THEN IF status = "offline" THEN CorrectedWindow(a, known) ELSE a
             ELSE NewSession(a, status, known, now)
    IN  [w EXCEPT !.status = status, !.seen = now]

\* The window on record for an offline user starts at a visit, and the record only
\* moves forward.
Known ==
    {0} \cup {v \in tVisits : v >= IF tFile.status = "online" THEN tFile.seen ELSE tFile.since}

Polls ==
    /\ \E known \in Known :
         LET status == IF tNow \in tVisits THEN "online" ELSE "offline"
             since == IF status = "online" THEN 0 ELSE known
         IN  /\ tFile' = Updated(tFile, status, since, tNow)
             /\ tFirst' = IF tFile # NoFile THEN tFirst ELSE IF since # 0 THEN since ELSE tNow
    /\ UNCHANGED <<tNow, tVisits>>

\* A file that cannot be read is rebuilt.
FileLost ==
    /\ tFile # NoFile
    /\ tFile' = NoFile /\ tFirst' = 0
    /\ UNCHANGED <<tNow, tVisits>>

TimeTick ==
    /\ tNow < TimeMax
    /\ tNow' = tNow + 1
    /\ \E active \in BOOLEAN : tVisits' = IF active THEN tVisits \cup {tNow'} ELSE tVisits
    /\ UNCHANGED <<tFile, tFirst>>

TimeInit == tNow = 1 /\ tFile = NoFile /\ tVisits \in SUBSET {1} /\ tFirst = 0
TimeNext == Polls \/ FileLost \/ TimeTick
TimeSpec == TimeInit /\ [][TimeNext]_timeVars

---------------------------------------------------------------------------

TimeTypeOK ==
    /\ tFile.status \in {"none", "online", "offline"}
    /\ tFile.on \in 0 .. TimeMax /\ tFile.off \in 0 .. TimeMax

\* "Seed only a brand-new file; later intervals are accounted for from successful
\* observations to avoid double counting": the two totals together never exceed the
\* time the file accounts for.
CountedOnce == tFile # NoFile => tFile.on + tFile.off <= tFile.seen - tFirst
=============================================================================
