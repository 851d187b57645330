------------------------------ MODULE PayWeek ------------------------------
(***************************************************************************)
(* rpa-admin's pay discipline and pay announcements (PayVoidCog.py,        *)
(* PayAnnounceCog.py): voids of the week and bans in two files, the weekly *)
(* reset of the minute loop or of a command, and the announcement of the   *)
(* pay windows.  A command that changes the records does not suspend; a    *)
(* loop that raises anything but a connection error stays stopped until    *)
(* the cog is loaded again.                                                *)
(***************************************************************************)
EXTENDS Integers, FiniteSets, FiniteSetsExt

CONSTANTS
    Payees,       \* user names
    PayWeeks,     \* bound on the weeks that pass
    VoidsMax,     \* bound on the voids of one name in a week
    BansMax,      \* bound on the offences of one name
    PayWindows,   \* the minutes that are announced
    PayMinutes,   \* minutes of the schedule that are modelled
    PayFaults     \* what may fail: "between", "torn", "send"

ASSUME PayAssumption ==
    /\ PayWeeks \in Nat \ {0} /\ VoidsMax \in Nat /\ BansMax \in Nat
    /\ PayMinutes \in Nat /\ PayFaults \subseteq {"between", "torn", "send"}

VARIABLES
    voids,       \* payvoids.json: in memory and on disk, by name
    bans,        \* paybans.json: offences, active_until as a duration, last_reset_monday
    payUp,       \* the cog is loaded
    resetLoop,   \* _weekly_reset_checker runs
    announcing,  \* who is about to announce a reset: "loop", "command" or "nobody"
    payWeek, payMinute,
    announceKey, \* _last_announcement_key
    resets,      \* history: how often the reset of each week was announced
    posted       \* history: how often this process announced each minute

payVars == <<voids, bans, payUp, resetLoop, announcing, payWeek, payMinute, announceKey, resets, posted>>

Threshold == 3
NoVoids == [u \in Payees |-> 0]
NoBans == [of |-> [u \in Payees |-> 0], until |-> [u \in Payees |-> 0], lastReset |-> 0]
NoKey == -1
NoResets == [w \in 1 .. PayWeeks |-> 0]

\* PAYBAN_DURATIONS, in days.
BanDays(offences) == Min({offences, 3})
Issues(count) == count % Threshold = 0
\* record_void: the voids of the week are counted, and each third one is an offence.
Voided(u) == [voids.mem EXCEPT ![u] = @ + 1]
Banned(u) ==
    IF ~Issues(voids.mem[u] + 1) THEN bans.mem
    ELSE [bans.mem EXCEPT !.of[u] = @ + 1, !.until[u] = BanDays(bans.mem.of[u] + 1)]

Saved(doc) == [mem |-> doc, disk |-> doc]
Down == payUp' = FALSE /\ resetLoop' = FALSE /\ announcing' = "nobody"

\* The void command: both files are written, one after the other.
RecordVoid(u) ==
    /\ payUp /\ voids.mem[u] < VoidsMax /\ bans.mem.of[u] < BansMax
    /\ voids' = Saved(Voided(u))
    /\ bans' = Saved(Banned(u))
    /\ UNCHANGED <<payUp, resetLoop, announcing, payWeek, payMinute, announceKey, resets, posted>>

\* The process ends between the two writes, or in the middle of the second:
\* a file that does not parse starts anew, and knows of no reset.
VoidInterrupted(u) ==
    /\ payUp /\ voids.mem[u] < VoidsMax /\ bans.mem.of[u] < BansMax
    /\ voids' = Saved(Voided(u))
    /\ \/ "between" \in PayFaults /\ bans' = bans /\ resets' = resets
       \/ "torn" \in PayFaults /\ bans' = Saved(NoBans) /\ resets' = NoResets
    /\ Down
    /\ UNCHANGED <<payWeek, payMinute, announceKey, posted>>

\* reset_payban_counter, of staff with the role.
ResetCounter(u) ==
    /\ payUp
    /\ bans' = Saved([bans.mem EXCEPT !.of[u] = 0, !.until[u] = 0])
    /\ UNCHANGED <<voids, payUp, resetLoop, announcing, payWeek, payMinute, announceKey, resets, posted>>

HasResetSometime == bans.mem.lastReset # 0   \* mutant
HasReset == bans.mem.lastReset = payWeek

\* reset_week: the voids are cleared and saved, then the week is recorded and saved.
ResetWeek(by) ==
    /\ ~HasReset
    /\ voids' = Saved(NoVoids)
    /\ bans' = Saved([bans.mem EXCEPT !.lastReset = payWeek])
    /\ announcing' = by

\* A tick of the loop, or the resetvoids command.
ResetByLoop ==
    /\ payUp /\ resetLoop /\ ResetWeek("loop")
    /\ UNCHANGED <<payUp, resetLoop, payWeek, payMinute, announceKey, resets, posted>>

ResetByCommand ==
    /\ payUp /\ ResetWeek("command")
    /\ UNCHANGED <<payUp, resetLoop, payWeek, payMinute, announceKey, resets, posted>>

ResetInterrupted ==
    /\ payUp /\ "between" \in PayFaults /\ ~HasReset
    /\ voids' = Saved(NoVoids) /\ bans' = bans
    /\ Down
    /\ UNCHANGED <<payWeek, payMinute, announceKey, resets, posted>>

\* The reset is announced in the channels that there are.
AnnouncesReset ==
    /\ announcing # "nobody" /\ announcing' = "nobody"
    /\ resets' = [resets EXCEPT ![payWeek] = @ + 1]
    /\ UNCHANGED <<voids, bans, payUp, resetLoop, payWeek, payMinute, announceKey, posted>>

\* Discord refuses the message: nobody catches it, and a loop that sent it is over.
AnnounceFails ==
    /\ "send" \in PayFaults /\ announcing # "nobody"
    /\ announcing' = "nobody"
    /\ resetLoop' = (resetLoop /\ announcing # "loop")
    /\ UNCHANGED <<voids, bans, payUp, payWeek, payMinute, announceKey, resets, posted>>

\* Monday 00:00 Eastern passes when no announcement of a reset is under way.
WeekPasses ==
    /\ payWeek < PayWeeks /\ announcing = "nobody" /\ payWeek' = payWeek + 1
    /\ UNCHANGED <<voids, bans, payUp, resetLoop, announcing, payMinute, announceKey, resets, posted>>

MinutePasses ==
    /\ payMinute < PayMinutes /\ payMinute' = payMinute + 1
    /\ UNCHANGED <<voids, bans, payUp, resetLoop, announcing, payWeek, announceKey, resets, posted>>

Remembers(key) == announceKey' = key
\* _pay_schedule_checker, twice a minute: fifteen minutes before a window, once.
AnnouncesWindow ==
    /\ payUp /\ payMinute \in PayWindows
    /\ announceKey # payMinute
    /\ Remembers(payMinute)
    /\ posted' = [posted EXCEPT ![payMinute] = @ + 1]
    /\ UNCHANGED <<voids, bans, payUp, resetLoop, announcing, payWeek, payMinute, resets>>

PayStops ==
    /\ payUp /\ Down
    /\ UNCHANGED <<voids, bans, payWeek, payMinute, announceKey, resets, posted>>

\* The cog is loaded again: both stores are read, both loops are started.
PayStarts ==
    /\ ~payUp /\ payUp' = TRUE /\ resetLoop' = TRUE
    /\ voids' = Saved(voids.disk) /\ bans' = Saved(bans.disk)
    /\ announceKey' = NoKey
    /\ posted' = [m \in PayWindows |-> 0]
    /\ UNCHANGED <<announcing, payWeek, payMinute, resets>>

PayInit ==
    /\ voids = Saved(NoVoids) /\ bans = Saved(NoBans)
    /\ payUp = FALSE /\ resetLoop = FALSE /\ announcing = "nobody"
    /\ payWeek = 1 /\ payMinute = 0 /\ announceKey = NoKey
    /\ resets = NoResets /\ posted = [m \in PayWindows |-> 0]

PayNext ==
    \/ \E u \in Payees : RecordVoid(u) \/ VoidInterrupted(u) \/ ResetCounter(u)
    \/ ResetByLoop \/ ResetByCommand \/ ResetInterrupted
    \/ AnnouncesReset \/ AnnounceFails \/ WeekPasses \/ MinutePasses \/ AnnouncesWindow
    \/ PayStops \/ PayStarts

\* The loop ticks every minute and the supervisor starts the bot; staff need do nothing.
PayFairness == SF_payVars(ResetByLoop) /\ WF_payVars(PayStarts)

PaySpec == PayInit /\ [][PayNext]_payVars /\ PayFairness

---------------------------------------------------------------------------

PayTypeOK ==
    /\ voids.mem \in [Payees -> 0 .. VoidsMax] /\ bans.mem.of \in [Payees -> 0 .. BansMax]
    /\ bans.mem.lastReset \in 0 .. PayWeeks /\ announcing \in {"loop", "command", "nobody"}
    /\ payWeek \in 1 .. PayWeeks /\ payMinute \in 0 .. PayMinutes

\* "The same idempotent helper": the reset of a week is announced once, however the loop,
\* the command and restarts meet.
ResetAnnouncedOnce == \A w \in 1 .. PayWeeks : resets[w] <= 1

\* "An idempotency key so reconnects do not double-post in a minute": a process announces
\* a pay window once, though it looks at the clock twice a minute.
WindowPostedOnce == \A m \in PayWindows : posted[m] <= 1

\* The voids of a week that has passed are reset, though the bot was down at its start or
\* died between the two writes, unless the loop itself has stopped.
WeekWaits == bans.mem.lastReset < payWeek
WeekServed == bans.mem.lastReset >= payWeek \/ (payUp /\ ~resetLoop)
WeekIsResetByLoop == WeekWaits ~> WeekServed
=============================================================================
