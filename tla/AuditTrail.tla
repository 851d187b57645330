----------------------------- MODULE AuditTrail -----------------------------
(***************************************************************************)
(* rpa-admin's audit log (ServerAuditLog.py): listeners that tell staff in *)
(* a channel what happened in the guild, and who did it by Discord's own   *)
(* audit log.  Each event is a task that suspends at every lookup and      *)
(* while its embed is sent.  The guild and its audit log are external.     *)
(* Embeds are left out, except the lines on changed permissions.           *)
(***************************************************************************)
EXTENDS Integers, Sequences, FiniteSets, FiniteSetsExt, Filtering

CONSTANTS
    Targets,        \* members, channels and roles things happen to
    Happenings,     \* which kinds of things happen, of those in Lookups and LoggedAs
    Scan,           \* the six newest entries of a kind are looked at
    AuditMax        \* bound on what happens

ASSUME AuditAssumption == Scan \in Nat \ {0} /\ AuditMax \in Nat

VARIABLES
    auditFails,     \* external: may a lookup fail and an embed be refused?
    auditLog,       \* external: the guild's entries, newest first
    happened,       \* how much has happened
    inServer,       \* external: the members and channels that are there
    handlers,       \* the listeners under way: what happened, lookups to do, what they found
    logChannels,    \* external: which of the two configured channels are there
    trail           \* history: the embeds sent

auditVars == <<auditFails, auditLog, happened, inServer, handlers, logChannels, trail>>

\* The permissions of an overwrite before and after: each allowed, denied or neither.
Permissions == {"view", "send"}
Settings == {"allow", "deny", "neutral"}
NoChange == [p \in Permissions |-> "neutral"]

\* What Discord's log records of each happening: a leave, a message or a join, nothing.
LoggedAs(kind) ==
    CASE kind \in {"leave", "message", "join"} -> "none"
      [] kind = "roles" -> "member_role_update"
      [] kind = "voice" -> "member_update"
      [] kind = "overwrites" -> "overwrite_update"
      [] OTHER -> kind
\* The listeners it wakes, and the actions that each asks the log about, in order.
Listeners(kind) ==
    CASE kind \in {"kick", "leave"} -> {"remove"}
      [] kind = "ban" -> {"ban", "remove"}
      [] OTHER -> {kind}
OverwriteActions == <<"overwrite_update", "overwrite_create", "overwrite_delete", "channel_update">>
Lookups(listener) ==
    CASE listener \in {"message", "join"} -> << >>
      [] listener = "remove" -> <<"kick", "ban">>
      [] listener = "roles" -> <<"member_role_update">>
      [] listener = "voice" -> <<"member_update">>
      [] listener = "overwrites" -> OverwriteActions
      [] OTHER -> <<listener>>

\* An entry of the log, with the permissions it says have changed.
Nothing == [action |-> "none", target |-> "none", by |-> "none", before |-> NoChange, after |-> NoChange]
EntriesOf(action) == {i \in DOMAIN auditLog : auditLog[i].action = action}
FindsOwnOnly(action, target) ==   \* mutant: one entry looked at, and no fallback
    LET all == EntriesOf(action)
    IN  IF all # {} /\ auditLog[Min(all)].target = target THEN auditLog[Min(all)] ELSE Nothing
\* _find_recent_audit_entry: the newest entry on that target, or else the newest of all.
FindRecent(action, target) ==
    LET all == EntriesOf(action)
        recent == {i \in all : Rank(all, i) <= Scan}
        own == {i \in recent : auditLog[i].target = target}
    IN  IF own # {} THEN auditLog[Min(own)] ELSE IF recent # {} THEN auditLog[Min(recent)] ELSE Nothing

\* External: something happens; Discord writes its log first.
Happens(kind, target, by, before, after) ==
    /\ happened < AuditMax /\ happened' = happened + 1
    /\ target \in inServer <=> kind # "join"
    /\ inServer' = CASE kind \in {"kick", "ban", "leave"} -> inServer \ {target}
                      [] OTHER -> inServer \cup {target}
    /\ IF kind = "overwrites" THEN before # after ELSE before = NoChange /\ after = NoChange
    /\ auditLog' = IF LoggedAs(kind) = "none" THEN auditLog
                   ELSE <<[action |-> LoggedAs(kind), target |-> target, by |-> by,
                            before |-> before, after |-> after]>> \o auditLog
    /\ handlers' = handlers \cup
         {[listener |-> l, kind |-> kind, target |-> target, todo |-> Lookups(l), found |-> Nothing,
           at |-> happened] : l \in Listeners(kind)}
    /\ UNCHANGED <<auditFails, logChannels, trail>>

\* One lookup of a listener: the first entry found ends its search, and its failure counts
\* as none found.
LooksUp(h) ==
    /\ h \in handlers /\ h.todo # << >> /\ h.found = Nothing
    /\ \E entry \in {FindRecent(Head(h.todo), h.target)} \cup (IF auditFails THEN {Nothing} ELSE {}) :
         handlers' = (handlers \ {h}) \cup
           (IF h.listener = "remove" /\ Head(h.todo) = "ban" /\ entry # Nothing
            THEN {}    \* the ban has a listener of its own
            ELSE {[h EXCEPT !.todo = Tail(@), !.found = entry]})
    /\ UNCHANGED <<auditFails, auditLog, happened, inServer, logChannels, trail>>

\* _channel_overwrite_change_lines, of the entry found: allowed, denied, and what no longer
\* is either; a permission that goes from one to the other shows both.
PermissionLines(e) ==
    {<<p, "allow">> : p \in {q \in Permissions : e.after[q] = "allow" /\ e.before[q] # "allow"}}
    \cup {<<p, "deny">> : p \in {q \in Permissions : e.after[q] = "deny" /\ e.before[q] # "deny"}}
    \cup {<<p, "neutral">> : p \in {q \in Permissions : e.before[q] # "neutral" /\ e.after[q] # e.before[q]}}

Title(h) ==
    IF h.listener # "remove" THEN h.listener
    ELSE IF h.found # Nothing THEN "kicked" ELSE "left"
ChannelOf(h) == IF h.listener = "message" THEN "messages" ELSE "audit"
\* _send_audit_embed and _send_message_log_embed.
SendsEmbed(h) ==
    /\ h \in handlers /\ (h.todo = << >> \/ h.found # Nothing)
    /\ handlers' = handlers \ {h}
    /\ \/ /\ ChannelOf(h) \in logChannels
          /\ trail' = trail \cup {[title |-> Title(h), target |-> h.target, kind |-> h.kind, at |-> h.at,
                                   found |-> h.found, lines |-> PermissionLines(h.found)]}
       \/ /\ ChannelOf(h) \notin logChannels \/ auditFails
          /\ trail' = trail
    /\ UNCHANGED <<auditFails, auditLog, happened, inServer, logChannels>>

\* External: a configured channel is deleted or made.
ChannelsChange ==
    /\ happened < AuditMax /\ happened' = happened + 1
    /\ \E c \in {"audit", "messages"} : logChannels' = (logChannels \cup {c}) \ (logChannels \cap {c})
    /\ UNCHANGED <<auditFails, auditLog, inServer, handlers, trail>>

AuditInit ==
    /\ auditFails \in BOOLEAN /\ auditLog = << >> /\ happened = 0 /\ handlers = {}
    /\ inServer \in {Targets, {}}
    /\ logChannels \in {{"audit", "messages"}} /\ trail = {}

AuditNext ==
    \/ \E kind \in Happenings, target \in Targets, by \in {"staff"},
          before, after \in {c \in [Permissions -> Settings] : c["send"] = "neutral"} :
         Happens(kind, target, by, before, after)
    \/ \E h \in handlers : LooksUp(h) \/ SendsEmbed(h)
    \/ ChannelsChange

AuditSpec == AuditInit /\ [][AuditNext]_auditVars

---------------------------------------------------------------------------

AuditTypeOK ==
    /\ \A h \in handlers : h.target \in Targets /\ Len(h.todo) \in 0 .. 4
    /\ happened \in 0 .. AuditMax /\ logChannels \subseteq {"audit", "messages"}

\* Where Discord answers, nobody who was banned is reported as having left, however the
\* two listeners that a ban wakes interleave and however many entries have followed.
BannedIsNotLeft ==
    ~auditFails => \A t \in trail : t.kind = "ban" => t.title # "left"

\* The lines sent about an overwrite tell what every permission that changed became; the
\* entry found, and so the change they tell of, may be a later one of that channel.
LinesTellTheOutcome ==
    \A t \in trail, p \in Permissions :
        IF t.found.before[p] = t.found.after[p] THEN \A s \in Settings : <<p, s>> \notin t.lines
        ELSE <<p, t.found.after[p]>> \in t.lines

\* ServerAuditLog.py:557, "Log voluntary leaves while avoiding misleading entries for
\* kicks/bans": who has left is not reported as kicked.
LeftIsNotKicked == \A t \in trail : t.kind = "leave" => t.title # "kicked"
=============================================================================
