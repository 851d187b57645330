------------------------------ MODULE Giveaway ------------------------------
(***************************************************************************)
(* rpa-admin's giveaways (MiscGiveaway.py), one of them: the staff start,  *)
(* end and reroll it, members press its button, a task sleeps until it is  *)
(* due.  Everything between two awaits is one step; a save has no await    *)
(* in it, but the file is written in place, so that a process killed in    *)
(* the middle leaves it torn.                                              *)
(***************************************************************************)
EXTENDS Integers, FiniteSets

CONSTANTS
    Members,       \* who presses the button
    WinnerCount,   \* winners to draw
    RerollMax      \* bound on the rerolls

ASSUME GiveawayAssumption == WinnerCount \in Nat \ {0} /\ RerollMax \in Nat

VARIABLES
    giveaway,      \* _giveaways[id]
    giveawayFile,  \* the storage file
    endTask,       \* _end_tasks[id]: "none", "asleep"
    steps,         \* the coroutines under way, by what they do next
    message,       \* what the channel shows: the button and the number of entries
    restored,      \* the _restored event
    due,           \* the end time has come
    announced,     \* history: how often the end was announced
    rerolls

giveawayVars == <<giveaway, giveawayFile, endTask, steps, message, restored, due, announced, rerolls>>

NoGiveaway == [there |-> FALSE, entrants |-> {}, ended |-> FALSE, winners |-> {}]
Torn == [torn |-> TRUE]
NoMessage == [button |-> "none", count |-> 0]

\* A coroutine is what it does next and for whom.
Runs(does) == <<does, "staff">> \in steps
Turns(from, to) == steps' = (steps \ {<<from, "staff">>}) \cup (to \X {"staff"})

\* The write of the records, in place.
SavesGiveaway == giveawayFile' = giveaway'

\* giveaway_start posts the message before the record exists, with a button for no giveaway.
StartGiveaway ==
    /\ restored /\ ~giveaway.there /\ message = NoMessage /\ steps = {}
    /\ message' = [button |-> "blank", count |-> 0]
    /\ Turns("", {"sent"})
    /\ UNCHANGED <<giveaway, giveawayFile, endTask, restored, due, announced, rerolls>>

StartSaves ==
    /\ Runs("sent") /\ Turns("sent", {"saved"})
    /\ giveaway' = [NoGiveaway EXCEPT !.there = TRUE]
    /\ SavesGiveaway
    /\ UNCHANGED <<endTask, message, restored, due, announced, rerolls>>

\* _schedule_giveaway_end: it replaces the task there is.
Schedules == endTask' = "asleep"
\* The message gets its button, if it can be edited, and the end is scheduled.
StartSchedules ==
    /\ Runs("saved") /\ Turns("saved", {})
    /\ message' \in {message, [button |-> "open", count |-> Cardinality(giveaway.entrants)]}
    /\ Schedules
    /\ UNCHANGED <<giveaway, giveawayFile, restored, due, announced, rerolls>>

\* An error other than Discord's own ends the command there: nothing is scheduled.
StartFails ==
    /\ Runs("saved") /\ Turns("saved", {"failed"})
    /\ UNCHANGED <<giveaway, giveawayFile, endTask, message, restored, due, announced, rerolls>>

\* handle_entry: a member enters once, while the giveaway has not ended.
EnterGiveaway(m) ==
    /\ restored /\ giveaway.there /\ ~giveaway.ended
    /\ m \notin giveaway.entrants
    /\ giveaway' = [giveaway EXCEPT !.entrants = @ \cup {m}]
    /\ SavesGiveaway
    /\ steps' = steps \cup {<<"entered", m>>}
    /\ UNCHANGED <<endTask, message, restored, due, announced, rerolls>>

\* The message is edited later, always with an open button: the giveaway may have ended.
EntryShown(m) ==
    /\ <<"entered", m>> \in steps /\ steps' = steps \ {<<"entered", m>>}
    /\ message' \in {message, [button |-> "open", count |-> Cardinality(giveaway.entrants)]}
    /\ UNCHANGED <<giveaway, giveawayFile, endTask, restored, due, announced, rerolls>>

\* _pick_winners: among the entrants who are still members and eligible.
Draws(winners) ==
    /\ winners \subseteq giveaway.entrants /\ Cardinality(winners) <= WinnerCount

IsOpen == giveaway.there /\ ~giveaway.ended
\* _finalize_giveaway, of the task or of the end command: ended and saved in one step.
Finalizes(winners) ==
    /\ IsOpen
    /\ Draws(winners)
    /\ giveaway' = [giveaway EXCEPT !.ended = TRUE, !.winners = winners]
    /\ SavesGiveaway
    /\ Turns("", {"editEnded"})

\* _end_when_due: it wakes when the giveaway is due, and ends whatever it finds.
TaskWakes ==
    /\ endTask = "asleep" /\ due
    /\ \/ \E winners \in SUBSET Members : Finalizes(winners)
       \/ ~IsOpen /\ UNCHANGED <<giveaway, giveawayFile, steps>>
    /\ endTask' = "none"
    /\ UNCHANGED <<message, restored, due, announced, rerolls>>

\* giveaway_end: the sleeping task is forgotten later, and never cancelled.
EndGiveaway ==
    /\ restored
    /\ \E winners \in SUBSET Members : Finalizes(winners)
    /\ UNCHANGED <<endTask, message, restored, due, announced, rerolls>>

\* The message may be gone or may refuse the edit; then the results are sent.
EndShown ==
    /\ Runs("editEnded")
    /\ \/ /\ message' \in {message, [button |-> "closed", count |-> Cardinality(giveaway.entrants)]}
          /\ Turns("editEnded", {"announceEnd"})
       \/ message' = message /\ Turns("editEnded", {})
    /\ UNCHANGED <<giveaway, giveawayFile, endTask, restored, due, announced, rerolls>>

EndAnnounced ==
    /\ Runs("announceEnd") /\ Turns("announceEnd", {})
    /\ announced' \in {announced, announced + 1}
    /\ UNCHANGED <<giveaway, giveawayFile, endTask, message, restored, due, rerolls>>

\* giveaway_reroll: only of a giveaway that has ended.
RerollGiveaway(winners) ==
    /\ restored /\ giveaway.there /\ giveaway.ended
    /\ rerolls < RerollMax /\ rerolls' = rerolls + 1
    /\ Draws(winners)
    /\ giveaway' = [giveaway EXCEPT !.winners = winners]
    /\ SavesGiveaway
    /\ Turns("", {"announceReroll"})
    /\ UNCHANGED <<endTask, message, restored, due, announced>>

RerollShown ==
    /\ Runs("announceReroll") /\ Turns("announceReroll", {})
    /\ message' \in {message, [button |-> "closed", count |-> Cardinality(giveaway.entrants)]}
    /\ UNCHANGED <<giveaway, giveawayFile, endTask, restored, due, announced, rerolls>>

GiveawayDue == due' = TRUE /\ UNCHANGED <<giveaway, giveawayFile, endTask, steps, message, restored, announced, rerolls>>

Stops == endTask' = "none" /\ steps' = {} /\ restored' = FALSE /\ giveaway' = NoGiveaway
\* The process ends between two steps, or while it writes.
GiveawayStops ==
    /\ restored /\ Stops
    /\ UNCHANGED <<giveawayFile, message, due, announced, rerolls>>

\* A save of any giveaway writes them all.
StopsInWrite ==
    /\ restored /\ Stops
    /\ giveawayFile' = Torn
    /\ UNCHANGED <<message, due, announced, rerolls>>

Loaded == IF giveawayFile = Torn THEN NoGiveaway ELSE giveawayFile
\* _restore_giveaways: a file that does not parse is set aside; what has not ended is
\* scheduled again.
RestoreGiveaways ==
    /\ ~restored /\ restored' = TRUE
    /\ giveaway' = Loaded
    /\ giveawayFile' = IF giveawayFile = Torn THEN NoGiveaway ELSE giveawayFile
    /\ endTask' = IF Loaded.there /\ ~Loaded.ended THEN "asleep" ELSE "none"
    /\ UNCHANGED <<steps, message, due, announced, rerolls>>

GiveawayInit ==
    /\ giveaway = NoGiveaway /\ giveawayFile = NoGiveaway /\ endTask = "none" /\ steps = {}
    /\ message = NoMessage /\ restored = FALSE /\ due = FALSE /\ announced = 0 /\ rerolls = 0

GiveawayNext ==
    \/ StartGiveaway \/ StartSaves \/ StartSchedules \/ StartFails
    \/ \E m \in Members : EnterGiveaway(m) \/ EntryShown(m)
    \/ TaskWakes \/ EndGiveaway \/ EndShown \/ EndAnnounced
    \/ \E winners \in SUBSET Members : RerollGiveaway(winners)
    \/ RerollShown \/ GiveawayDue \/ GiveawayStops \/ StopsInWrite \/ RestoreGiveaways

\* The event loop runs what is ready; the supervisor starts the bot again; time passes.
GiveawayFairness ==
    /\ WF_giveawayVars(StartSchedules \/ StartFails) /\ SF_giveawayVars(TaskWakes) /\ WF_giveawayVars(RestoreGiveaways)
    /\ WF_giveawayVars(GiveawayDue)

GiveawaySpec == GiveawayInit /\ [][GiveawayNext]_giveawayVars /\ GiveawayFairness

---------------------------------------------------------------------------

GiveawayTypeOK ==
    /\ giveaway.entrants \subseteq Members /\ giveaway.winners \subseteq Members
    /\ endTask \in {"none", "asleep"} /\ announced \in Nat /\ rerolls \in 0 .. RerollMax

\* "The persisted giveaway record; overdue entries complete after restore; the task map
\* prevents a same-process duplicate": however the end command, the sleeping task and
\* restarts meet, the results are announced at most once.
DrawnOnce == announced <= 1

\* A giveaway whose end time has come is ended, though the bot stops and starts, unless
\* its record was lost with the file or its start failed in this very process.
EndWaits == giveaway.there /\ due
EndServed == giveaway.ended \/ giveawayFile \in {Torn, NoGiveaway} \/ Runs("failed")
OverdueEnds == EndWaits ~> EndServed
=============================================================================
