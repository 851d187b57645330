----------------------------- MODULE PayRecords -----------------------------
(***************************************************************************)
(* cda-pay's records of pay (RecordPay.py), their lookup (PayLookup.py),   *)
(* the daily backup of the month's file (PayBackup.py) and the voids that  *)
(* lead to a pay ban (PayVoid.py, voids.py).  One file holds the records   *)
(* and totals of a month; the process takes the month's file at its start. *)
(* A command changes memory and saves it between two suspensions; amounts  *)
(* and bonuses are one sum.                                                *)
(***************************************************************************)
EXTENDS Integers, Sequences, SequencesExt, FiniteSets

CONSTANTS
    Ids,          \* record ids
    Clerks,       \* paystat commands under way at a time
    PayDays,      \* bound on the days
    MonthEnds,    \* the last day of the first month; all days are of one week
    BackupDays,   \* backups older than these days are deleted
    PayEdits      \* bound on edits, voids, backups and restarts

ASSUME RecAssumption ==
    /\ PayDays \in Nat \ {0} /\ MonthEnds \in Nat /\ BackupDays \in Nat /\ PayEdits \in Nat

VARIABLES
    payData,      \* self.pay_data: records, daily and weekly totals
    payFiles,     \* the file of each month
    startMonth,   \* the month whose file the process took
    today,
    clerk,        \* each paystat: the record it is about to make, and whether it waits
    lookup,       \* PayLookup.pay_data
    payBackups,   \* BACKUPS: [on, month, data]
    void,         \* the name's count and whether its ban runs, in memory and on disk
    edits

recVars == <<payData, payFiles, startMonth, today, clerk, lookup, payBackups, void, edits>>

PayTimes == {"6-7 PM", "7-8 PM"}
NoTotals == [paid |-> 0, denied |-> 0, amount |-> 0]
NoPay == [records |-> <<>>, daily |-> [d \in 1 .. PayDays |-> NoTotals], weekly |-> NoTotals]
NoRecord == [id |-> "none", day |-> 0, time |-> "none", claiming |-> 0, paid |-> 0, amount |-> 0]
MonthOf(d) == IF d <= MonthEnds THEN 1 ELSE 2
Busy == edits < PayEdits /\ edits' = edits + 1

Plus(t, paid, denied, amount) ==
    [paid |-> t.paid + paid, denied |-> t.denied + denied, amount |-> t.amount + amount]
\* The denied of an edited record replace those of the day and of the week.
Adjusted(t, old, new) ==
    [paid |-> t.paid + new.paid - old.paid, denied |-> new.claiming - new.paid,
     amount |-> t.amount + new.amount - old.amount]
Saves == payFiles' = [payFiles EXCEPT ![startMonth] = payData']

\* paystat: the id is one that no record has now; near the boundary of two pay times the
\* clerk is asked for one, and otherwise the answer is deferred: either way it suspends.
Paystat(c, id, time, claiming, paid, amount) ==
    /\ clerk[c] = NoRecord /\ \A r \in Range(payData.records) : r.id # id
    /\ clerk' = [clerk EXCEPT ![c] = [id |-> id, day |-> today, time |-> time,
                                      claiming |-> claiming, paid |-> paid, amount |-> amount]]
    /\ UNCHANGED <<payData, payFiles, startMonth, today, lookup, payBackups, void, edits>>

\* No time was chosen within ten minutes, or the interaction has failed.
PaystatCancelled(c) ==
    /\ clerk[c] # NoRecord /\ clerk' = [clerk EXCEPT ![c] = NoRecord]
    /\ UNCHANGED <<payData, payFiles, startMonth, today, lookup, payBackups, void, edits>>

NeverRecorded(new) == FALSE   \* mutant
Recorded(new) == \E r \in Range(payData.records) : r.day = new.day /\ r.time = new.time
PaystatRecords(c) ==
    /\ clerk[c] # NoRecord /\ clerk' = [clerk EXCEPT ![c] = NoRecord]
    /\ LET new == clerk[c]
       IN  IF Recorded(new) THEN UNCHANGED <<payData, payFiles>>
           ELSE /\ payData' = [records |-> Append(payData.records, new),
                               daily |-> [payData.daily EXCEPT ![new.day] =
                                            Plus(@, new.paid, new.claiming - new.paid, new.amount)],
                               weekly |-> Plus(payData.weekly, new.paid, new.claiming - new.paid, new.amount)]
                /\ Saves
    /\ UNCHANGED <<startMonth, today, lookup, payBackups, void, edits>>

Edited(i, new) ==
    LET old == payData.records[i]
    IN  [payData EXCEPT !.records[i] = new,
                        !.daily[new.day] = Adjusted(@, old, new), !.weekly = Adjusted(@, old, new)]
\* The first record of an id.
Found(i) == \A j \in 1 .. i - 1 : payData.records[j].id # payData.records[i].id
\* editpay: any of the fields; the pay time is not compared with those of other records.
EditPay(i, claiming, paid, amount, time) ==
    /\ Busy /\ Found(i) /\ paid <= claiming
    /\ payData' = Edited(i, [payData.records[i] EXCEPT !.claiming = claiming, !.paid = paid,
                                                      !.amount = amount, !.time = time])
    /\ Saves
    /\ UNCHANGED <<startMonth, today, clerk, lookup, payBackups, void>>

\* More paid than claim: refused, but the claims that were given stay in memory.
EditRefused(i, claiming, paid) ==
    /\ Busy /\ Found(i) /\ paid > claiming
    /\ payData' = [payData EXCEPT !.records[i].claiming = claiming]
    /\ UNCHANGED <<payFiles, startMonth, today, clerk, lookup, payBackups, void>>

\* record_void: a void during a ban renews it, the third of a count begins one.
VoidPay ==
    /\ Busy
    /\ void' = IF void.banned THEN void
               ELSE IF void.count = 2 THEN [count |-> 0, banned |-> TRUE]
               ELSE [count |-> void.count + 1, banned |-> FALSE]
    /\ UNCHANGED <<payData, payFiles, startMonth, today, clerk, lookup, payBackups>>

\* A day ends the ban; the weekly job clears all, where the process runs at that time.
BanEnds ==
    /\ void.banned /\ void' = [count |-> 0, banned |-> FALSE]
    /\ UNCHANGED <<payData, payFiles, startMonth, today, clerk, lookup, payBackups, edits>>
ResetVoids ==
    /\ void # [count |-> 0, banned |-> FALSE] /\ today = PayDays
    /\ void' = [count |-> 0, banned |-> FALSE]
    /\ UNCHANGED <<payData, payFiles, startMonth, today, clerk, lookup, payBackups, edits>>

\* backup_task and the command: the file of the start's month, then the cleanup.
BackupRuns ==
    /\ Busy
    /\ payBackups' = {b \in payBackups : today - b.on <= BackupDays}
                       \cup {[on |-> today, month |-> startMonth, data |-> payFiles[startMonth]]}
    /\ UNCHANGED <<payData, payFiles, startMonth, today, clerk, lookup, void>>

DayPasses ==
    /\ today < PayDays /\ today' = today + 1
    /\ UNCHANGED <<payData, payFiles, startMonth, clerk, lookup, payBackups, void, edits>>

\* A new process takes the file of the month it is.
PayRestarts ==
    /\ Busy
    /\ startMonth' = MonthOf(today)
    /\ payData' = payFiles[MonthOf(today)] /\ lookup' = payData'
    /\ clerk' = [c \in Clerks |-> NoRecord]
    /\ UNCHANGED <<payFiles, today, payBackups, void>>

RecInit ==
    /\ payData = NoPay /\ payFiles = [m \in 1 .. 2 |-> NoPay] /\ startMonth = 1 /\ today = 1
    /\ clerk = [c \in Clerks |-> NoRecord] /\ lookup = NoPay /\ payBackups = {}
    /\ void \in [count : {0, 2}, banned : {FALSE}] /\ edits = 0

RecNext ==
    \/ \E c \in Clerks :
         \/ \E id \in Ids, time \in PayTimes, claiming \in {2}, paid \in {1}, amount \in {1} :
              Paystat(c, id, time, claiming, paid, amount)
         \/ PaystatCancelled(c) \/ PaystatRecords(c)
    \/ \E i \in DOMAIN payData.records :
         \/ \E claiming, paid \in 1 .. 2, time \in PayTimes : EditPay(i, claiming, paid, 2, time)
         \/ EditRefused(i, 1, 2)
    \/ VoidPay \/ BanEnds \/ ResetVoids \/ BackupRuns \/ DayPasses \/ PayRestarts

RecSpec == RecInit /\ [][RecNext]_recVars

---------------------------------------------------------------------------

RecTypeOK ==
    /\ startMonth \in 1 .. 2 /\ today \in 1 .. PayDays /\ void.count \in 0 .. 2
    /\ \A r \in Range(payData.records) : r.id \in Ids /\ r.day \in 1 .. PayDays /\ r.time \in PayTimes

OfDay(records, d) == {i \in DOMAIN records : records[i].day = d}
\* A sum of natural numbers, counted unit by unit.
SumOf(records, indices, field) == Cardinality(UNION {{i} \X (1 .. records[i][field]) : i \in indices})
\* The totals of what was paid, and of the sums, are those of the records, in memory and in
\* the files of both months, whatever is edited, refused and restarted between.
PaidTotalsAgree ==
    \A s \in {payData, payFiles[1], payFiles[2]}, field \in {"paid", "amount"} :
        /\ \A d \in 1 .. PayDays : s.daily[d][field] = SumOf(s.records, OfDay(s.records, d), field)
        /\ s.weekly[field] = SumOf(s.records, DOMAIN s.records, field)

\* "No duplicates allowed": no overlap of commands records a pay time twice, as the check
\* follows the last suspension (cda-pay-inventory.md:75 says that they can race).
RecordedOnce ==
    [][Len(payData'.records) > Len(payData.records) /\ startMonth' = startMonth
         => \A r \in Range(payData.records) :
              <<r.day, r.time>> # <<Last(payData'.records).day, Last(payData'.records).time>>]_recVars
=============================================================================
