------------------------------- MODULE Raffle -------------------------------
(***************************************************************************)
(* rpa-admin's /raffle commands (MiscRaffle.py) on one raffle; the records *)
(* of different raffles meet only in the file, which every save writes     *)
(* whole.  A command of the staff suspends while it waits for the raffle's *)
(* mutation lock and while Discord takes its reply; a reply that Discord   *)
(* rejects is rolled back.  Between two suspensions a command changes the  *)
(* memory and saves it.  Only staff with the manager's role get this far.  *)
(***************************************************************************)
EXTENDS Integers, FiniteSets

CONSTANTS
    Entrants,      \* who can be entered
    Staff,         \* commands under way at a time
    EntriesMax     \* bound on the entries of one entrant

ASSUME RaffleAssumption == EntriesMax \in Nat /\ "nobody" \notin Staff

VARIABLES
    raffle,      \* the record in memory
    raffleFile,  \* raffles.json
    mutex,       \* the entrant mutation lock: its holder, or Unheld
    command,     \* what each member of the staff does
    credit       \* history: the entries that Discord confirmed

raffleVars == <<raffle, raffleFile, mutex, command, credit>>

Unheld == "nobody"
NoEntries == [u \in Entrants |-> 0]
NoRaffle == [made |-> FALSE, active |-> FALSE, multiple |-> FALSE,
             entries |-> NoEntries, winners |-> {}]
NoCommand == [at |-> "idle", who |-> "none", by |-> 0, before |-> 0]
Entered == {u \in Entrants : raffle.entries[u] > 0}

\* _save_raffles: all of the memory, by atomic replacement.
SavesRaffles == raffleFile' = raffle'

\* raffle_create: the record is in memory while the log embed is sent.
CreateRaffle(s, multiple) ==
    /\ ~raffle.made /\ command[s].at = "idle"
    /\ raffle' = [NoRaffle EXCEPT !.made = TRUE, !.active = TRUE, !.multiple = multiple]
    /\ command' = [command EXCEPT ![s].at = "creating"]
    /\ UNCHANGED <<raffleFile, mutex, credit>>

CreateSaves(s) ==
    /\ command[s].at = "creating"
    /\ raffleFile' = raffle
    /\ command' = [command EXCEPT ![s] = NoCommand]
    /\ UNCHANGED <<raffle, mutex, credit>>

\* raffle_add and raffle_remove look at the raffle before they wait for its lock;
\* `by' is what they add, or take when negative.
ChangeEntries(s, u, by) ==
    /\ raffle.made /\ raffle.active /\ command[s].at = "idle"
    /\ command' = [command EXCEPT ![s] = [at |-> "waiting", who |-> u, by |-> by, before |-> 0]]
    /\ UNCHANGED <<raffle, raffleFile, mutex, credit>>

AddedTo(count, by) == IF raffle.multiple THEN count + by ELSE 1
RemovedFrom(count, by) == IF raffle.multiple /\ count + by > 0 THEN count + by ELSE 0
Changed(count, by) == IF by > 0 THEN AddedTo(count, by) ELSE RemovedFrom(count, by)
\* A second single entry is refused, and so is the removal of who is not entered.
Refused(count, by) == IF by > 0 THEN ~raffle.multiple /\ count >= 1 ELSE count = 0

LockIsFree(s) == mutex = Unheld
\* Under the lock: change, save, and reply.
MutatesEntries(s) ==
    /\ command[s].at = "waiting" /\ LockIsFree(s)
    /\ LET c == command[s]
           count == raffle.entries[c.who]
       IN  /\ Changed(count, c.by) <= EntriesMax
           /\ IF Refused(count, c.by)
              THEN /\ command' = [command EXCEPT ![s] = NoCommand]
                   /\ UNCHANGED <<raffle, raffleFile, mutex>>
              ELSE /\ mutex' = s
                   /\ raffle' = [raffle EXCEPT !.entries[c.who] = Changed(count, c.by)]
                   /\ SavesRaffles
                   /\ command' = [command EXCEPT ![s].at = "replying", ![s].before = count,
                                                 ![s].by = Changed(count, c.by) - count]
    /\ UNCHANGED credit

ReplyAccepted(s) ==
    /\ command[s].at = "replying"
    /\ credit' = [credit EXCEPT ![command[s].who] = @ + command[s].by]
    /\ mutex' = Unheld
    /\ command' = [command EXCEPT ![s] = NoCommand]
    /\ UNCHANGED <<raffle, raffleFile>>

RollsBackNothing(s) == raffle' = raffle   \* mutant
RollsBack(s) == raffle' = [raffle EXCEPT !.entries[command[s].who] = command[s].before]
\* Discord rejects the reply: the entry is what it was before, and saved so.
ReplyRejected(s) ==
    /\ command[s].at = "replying"
    /\ RollsBack(s)
    /\ SavesRaffles
    /\ mutex' = Unheld
    /\ command' = [command EXCEPT ![s] = NoCommand]
    /\ UNCHANGED credit

\* raffle_draw: unique winners, each of whom has an entry; the raffle is closed.
\* Neither it nor raffle_end waits for the lock, and a closed raffle is drawn again.
DrawWinners(chosen) ==
    /\ raffle.made /\ chosen # {}
    /\ chosen \subseteq Entered
    /\ raffle' = [raffle EXCEPT !.winners = chosen, !.active = FALSE]
    /\ SavesRaffles
    /\ UNCHANGED <<mutex, command, credit>>

EndRaffle ==
    /\ raffle.made /\ raffle.active
    /\ raffle' = [raffle EXCEPT !.active = FALSE]
    /\ SavesRaffles
    /\ UNCHANGED <<mutex, command, credit>>

\* cog_load in a new process, or after a reload.
RaffleRestarts ==
    /\ raffle' = raffleFile
    /\ mutex' = Unheld
    /\ command' = [s \in Staff |-> NoCommand]
    /\ credit' = raffleFile.entries
    /\ UNCHANGED raffleFile

RaffleInit ==
    /\ raffle = NoRaffle /\ raffleFile = NoRaffle /\ mutex = Unheld
    /\ command = [s \in Staff |-> NoCommand]
    /\ credit = NoEntries

RaffleNext ==
    \/ \E s \in Staff :
         \/ \E multiple \in BOOLEAN : CreateRaffle(s, multiple)
         \/ \E u \in Entrants, by \in {-2, -1, 1, 2} : ChangeEntries(s, u, by)
         \/ CreateSaves(s) \/ MutatesEntries(s) \/ ReplyAccepted(s) \/ ReplyRejected(s)
    \/ \E chosen \in SUBSET Entrants : DrawWinners(chosen)
    \/ EndRaffle \/ RaffleRestarts

RaffleSpec == RaffleInit /\ [][RaffleNext]_raffleVars

---------------------------------------------------------------------------

RaffleTypeOK ==
    /\ raffle.entries \in [Entrants -> 0 .. EntriesMax] /\ credit \in [Entrants -> 0 .. EntriesMax]
    /\ raffle.winners \subseteq Entrants /\ mutex \in Staff \cup {Unheld}

\* "A rollback must finish before a second command reads or changes the same raffle,
\* otherwise restoring an old snapshot could overwrite the newer command's successful
\* update": with no reply under way the entries are what Discord confirmed, in memory
\* and in the file.
ConfirmedIsCounted ==
    (\A s \in Staff : command[s].at # "replying") /\ raffleFile.made
        => raffle.entries = credit /\ raffleFile.entries = credit
=============================================================================
