---------------------------- MODULE ReactionRoles ----------------------------
(***************************************************************************)
(* rpa-admin's reaction roles (ReactionRoleCog.py) on one message: the     *)
(* mappings of an emoji to a role in memory and in ReactionRoles.json, the *)
(* commands that change them, the restore once after the start and the     *)
(* reactions of a member, each of whose events is a task of its own.       *)
(* Discord, its message and the member's roles are external.               *)
(***************************************************************************)
EXTENDS Integers, Sequences, SequencesExt, FiniteSets, Filtering

CONSTANTS
    Emojis,        \* emojis that an entry can name
    Rejected,      \* those of them that Discord refuses as a reaction
    Admins,        \* commands under way at a time
    TogglesMax,    \* bound on the reactions of the member
    AddsMax        \* bound on the commands

ASSUME ReactAssumption == Rejected \subseteq Emojis /\ TogglesMax \in Nat /\ AddsMax \in Nat

VARIABLES
    entries,       \* self.reaction_roles: <<emoji, role>>
    entriesFile,   \* ReactionRoles.json
    shown,         \* external: the emojis with which the bot reacts
    admin,         \* the command of each admin: what it does next, its entry, what it syncs
    restore,       \* "due", the emojis _restore_bot_reactions still adds, or "ran"
    reacted,       \* external: the emojis with which the member reacts
    given,         \* external: the roles of the member
    seen,          \* the member's roles in the cache
    events,        \* reactions that the bot has not handled: [adds, emoji, at]
    calls,         \* role changes that Discord has not done: [adds, role, at]
    toggles, adds

reactVars == <<entries, entriesFile, shown, admin, restore, reacted, given, seen, events, calls, toggles, adds>>
memberSide == <<reacted, given, seen, events, calls, toggles>>
staffSide == <<entries, entriesFile, shown, admin, restore, adds>>

ReactRoles == {"roleA", "roleB"}
NoEntry == <<"none", "none">>
NoAdmin == [next |-> "idle", entry |-> NoEntry, todo |-> << >>]
EmojisOf(list) == [i \in 1 .. Len(list) |-> list[i][1]]
\* _find_entry: the first entry of that emoji.
Configured(e) == \E i \in 1 .. Len(entries) : entries[i][1] = e
FindEntry(e) == entries[CHOOSE i \in 1 .. Len(entries) :
                          entries[i][1] = e /\ \A j \in 1 .. i - 1 : entries[j][1] # e]
\* One entry for an emoji: at the place of the first, with the role of the last.
Deduped(list) ==
    LET firsts == {i \in 1 .. Len(list) : \A j \in 1 .. i - 1 : list[j][1] # list[i][1]}
        lastOf(e) == list[Max({i \in 1 .. Len(list) : list[i][1] = e})]
    IN  [k \in 1 .. Cardinality(firsts) |->
            lastOf(list[CHOOSE i \in firsts : Rank(firsts, i) = k][1])]
\* list.remove: the first such entry goes.
Without(list, entry) ==
    LET at == CHOOSE i \in 1 .. Len(list) : list[i] = entry /\ \A j \in 1 .. i - 1 : list[j] # entry
    IN  IF entry \notin Range(list) THEN list
        ELSE [i \in 1 .. Len(list) - 1 |-> list[IF i < at THEN i ELSE i + 1]]
SavesEntries == entriesFile' = entries'

Duplicate(e) == Configured(e)
\* reactionrole add, and create with a message of its own, after their awaits: the entry
\* is checked, appended and saved with no await between.
AddEntry(a, e, role) ==
    /\ admin[a].next = "idle" /\ adds < AddsMax /\ adds' = adds + 1
    /\ ~Duplicate(e)
    /\ entries' = Append(entries, <<e, role>>)
    /\ SavesEntries
    /\ admin' = [admin EXCEPT ![a] = [next |-> "fetching", entry |-> <<e, role>>, todo |-> << >>]]
    /\ UNCHANGED <<shown, restore, memberSide>>

\* _sync_message_reactions goes through the entries there are when the message is there.
SyncReads(a) ==
    /\ admin[a].next = "fetching"
    /\ admin' = [admin EXCEPT ![a] = [next |-> IF entries = << >> THEN "idle" ELSE "syncing",
                                      entry |-> @.entry, todo |-> EmojisOf(entries)]]
    /\ UNCHANGED <<entries, entriesFile, shown, restore, adds, memberSide>>

SyncAdds(a) ==
    /\ admin[a].next = "syncing" /\ Head(admin[a].todo) \notin Rejected
    /\ shown' = shown \cup {Head(admin[a].todo)}
    /\ admin' = [admin EXCEPT ![a] = IF Len(@.todo) = 1 THEN NoAdmin
                                     ELSE [next |-> "syncing", entry |-> @.entry, todo |-> Tail(@.todo)]]
    /\ UNCHANGED <<entries, entriesFile, restore, adds, memberSide>>

\* The message is gone, or Discord refuses one of the reactions: the new entry is taken
\* back, unless it is gone, which ends the command with an error.
SyncFails(a) ==
    /\ \/ admin[a].next = "fetching"
       \/ admin[a].next = "syncing" /\ Head(admin[a].todo) \in Rejected
    /\ entries' = Without(entries, admin[a].entry)
    /\ SavesEntries
    /\ admin' = [admin EXCEPT ![a] = NoAdmin]
    /\ UNCHANGED <<shown, restore, adds, memberSide>>

\* reactionrole remove.
RemoveEntry(a, e) ==
    /\ admin[a].next = "idle" /\ adds < AddsMax /\ adds' = adds + 1
    /\ Configured(e)
    /\ entries' = Without(entries, FindEntry(e))
    /\ SavesEntries
    /\ admin' = [admin EXCEPT ![a] = [next |-> "unreacting", entry |-> FindEntry(e), todo |-> << >>]]
    /\ UNCHANGED <<shown, restore, memberSide>>

\* A failure of Discord is passed over.
Unreacts(a) ==
    /\ admin[a].next = "unreacting"
    /\ shown' \in {shown, shown \ {admin[a].entry[1]}}
    /\ admin' = [admin EXCEPT ![a] = NoAdmin]
    /\ UNCHANGED <<entries, entriesFile, restore, adds, memberSide>>

Restored(list) == Deduped(list)
\* _restore_bot_reactions, once: duplicates are merged and saved, the reactions added.
RestoreStarts ==
    /\ restore = "due"
    /\ restore' = "fetching"
    /\ entries' = Restored(entries)
    /\ entriesFile' = IF entries' = entries THEN entriesFile ELSE entries'
    /\ UNCHANGED <<shown, admin, adds, memberSide>>

\* Each reaction is a call of its own; the first that fails ends the restore.
RestoreAdds ==
    /\ restore = "fetching"
    /\ \E n \in 0 .. Len(entries) :
         /\ \A i \in 1 .. n : entries[i][1] \notin Rejected
         /\ shown' = shown \cup {entries[i][1] : i \in 1 .. n}
    /\ restore' = "ran"
    /\ UNCHANGED <<entries, entriesFile, admin, adds, memberSide>>

\* External: the member reacts, or takes the reaction back.
Toggles(e) ==
    /\ toggles < TogglesMax /\ toggles' = toggles + 1
    /\ reacted' = (reacted \cup {e}) \ (reacted \cap {e})
    /\ events' = events \cup {[adds |-> e \notin reacted, emoji |-> e, at |-> toggles]}
    /\ UNCHANGED <<given, seen, calls, staffSide>>

\* on_raw_reaction_add and on_raw_reaction_remove: no entry, no change; a role in the
\* cached member is not given again.
HandlesReaction(event) ==
    /\ event \in events /\ events' = events \ {event}
    /\ LET role == FindEntry(event.emoji)[2]
       IN  calls' = IF Configured(event.emoji) /\ ~(event.adds /\ role \in seen)
                    THEN calls \cup {[adds |-> event.adds, role |-> role, at |-> event.at]} ELSE calls
    /\ UNCHANGED <<reacted, given, seen, toggles, staffSide>>

\* Discord does it, or refuses it, which is logged.
RoleCallEnds(call) ==
    /\ call \in calls /\ calls' = calls \ {call}
    /\ given' \in {given, IF call.adds THEN given \cup {call.role} ELSE given \ {call.role}}
    /\ UNCHANGED <<reacted, seen, events, toggles, staffSide>>

\* External: the event of the changed member reaches the cache.
CacheFollows == seen # given /\ seen' = given /\ UNCHANGED <<reacted, given, events, calls, toggles, staffSide>>

ReactRestarts ==
    /\ adds < AddsMax /\ adds' = adds + 1
    /\ entries' = entriesFile /\ admin' = [a \in Admins |-> NoAdmin]
    /\ restore' = "due" /\ seen' = given /\ events' = {} /\ calls' = {}
    /\ UNCHANGED <<entriesFile, shown, reacted, given, toggles>>

\* The file may have been edited by hand, with two entries for one emoji.
ReactInit ==
    /\ entriesFile \in {<< >>} \cup {<< <<e, "roleA">>, <<e, "roleB">> >> : e \in Emojis}
    /\ entries = entriesFile /\ shown = {}
    /\ admin = [a \in Admins |-> NoAdmin] /\ restore = "due"
    /\ reacted = {} /\ given = {} /\ seen = {} /\ events = {} /\ calls = {}
    /\ toggles = 0 /\ adds = 0

ReactNext ==
    \/ \E a \in Admins :
         \/ \E e \in Emojis : RemoveEntry(a, e) \/ \E role \in ReactRoles : AddEntry(a, e, role)
         \/ SyncReads(a) \/ SyncAdds(a) \/ SyncFails(a) \/ Unreacts(a)
    \/ RestoreStarts \/ RestoreAdds \/ CacheFollows \/ ReactRestarts
    \/ \E e \in Emojis : Toggles(e)
    \/ \E event \in events : HandlesReaction(event)
    \/ \E call \in calls : RoleCallEnds(call)

ReactSpec == ReactInit /\ [][ReactNext]_reactVars

---------------------------------------------------------------------------

ReactTypeOK ==
    /\ Range(entries) \subseteq Emojis \X ReactRoles /\ shown \subseteq Emojis
    /\ given \subseteq ReactRoles /\ restore \in {"due", "fetching", "ran"}

\* From the restore on, an emoji gives one role, in memory and in the file, whatever adds
\* and removals overlap and whatever duplicates the file was edited to hold.
OneRolePerEmoji ==
    restore # "due" =>
        /\ IsInjective(EmojisOf(entries))
        /\ entriesFile = entries
=============================================================================
