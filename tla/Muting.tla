------------------------------- MODULE Muting -------------------------------
(***************************************************************************)
(* rpa-admin's /mute, the minute loop that clears expired mutes and the    *)
(* listener of new channels (MiscMute.py).  A mute is a role and a Discord *)
(* timeout, set by two calls; every call to Discord suspends the command.  *)
(* The state of Discord is external and changes when a call succeeds.      *)
(***************************************************************************)
EXTENDS Integers, FiniteSets

CONSTANTS
    Muted,       \* the members who are muted
    MuteRoles,   \* role ids that Discord can give out
    MuteChannels, \* channels of the guild
    MutesMax,    \* bound on the mutes of one member
    RoleThere    \* the roles named Muted at the start

ASSUME MuteAssumption ==
    /\ MutesMax \in Nat
    /\ RoleThere \subseteq MuteRoles /\ IsFiniteSet(RoleThere)
    /\ "unset" \notin MuteRoles   \* ids of roles are numbers

VARIABLES
    muteRoles,   \* the guild's roles named Muted
    roleOf,      \* external: which of them a member has
    timeout,     \* external: the member's timeout runs
    configured,  \* muted_role_id of the server configuration
    denied,      \* external: <<channel, role>> that may not write or speak
    channels,    \* external: the guild's channels
    fresh,       \* channels whose creation the listener has not handled
    refused,     \* history: channels whose listener failed, or died with the process
    muting,      \* the /mute command of each member: what it does next, with
                 \* which role, and the channels it still has to look at
    removing,    \* the member at whom the loop is
    mutes        \* how often each member was muted

muteVars == <<muteRoles, roleOf, timeout, configured, denied, channels, fresh, refused, muting, removing, mutes>>

Unset == "unset"
Nobody == "nobody"

\* The configured role while the guild has it, or else one of that name.
Resolves(role) ==
    IF configured \in muteRoles THEN role = configured
    ELSE IF muteRoles # {} THEN role \in muteRoles ELSE role = Unset
Idle == [next |-> "idle", role |-> Unset, todo |-> {}]
Turn(m, next) == muting' = [muting EXCEPT ![m].next = next]
SkipsChannels(m, role) == muting' = [muting EXCEPT ![m] = [next |-> "denying", role |-> role, todo |-> {}]]   \* mutant
\* The command goes through the channels there are now.
Denies(m, role) == muting' = [muting EXCEPT ![m] = [next |-> "denying", role |-> role, todo |-> channels]]

\* /mute of a member whom the moderator and the bot outrank, for at most 28 days.
BeginsMute(m) ==
    /\ muting[m].next = "idle" /\ mutes[m] < MutesMax
    /\ mutes' = [mutes EXCEPT ![m] = @ + 1]
    /\ \E role \in muteRoles \cup {Unset} :
         /\ Resolves(role)
         /\ IF role = Unset THEN Turn(m, "creating") /\ UNCHANGED configured
            ELSE Denies(m, role) /\ configured' = role
    /\ UNCHANGED <<muteRoles, roleOf, timeout, denied, channels, fresh, refused, removing>>

\* create_role: another command may have created one meanwhile.
CreatesRole(m, role) ==
    /\ muting[m].next = "creating" /\ role \notin muteRoles
    /\ muteRoles' = muteRoles \cup {role}
    /\ configured' = role
    /\ Denies(m, role)
    /\ UNCHANGED <<roleOf, timeout, denied, channels, fresh, refused, removing, mutes>>

\* _ensure_muted_role: a call for each channel whose overwrite is missing.
DeniesChannel(m, c) ==
    /\ c \in muting[m].todo
    /\ muting' = [muting EXCEPT ![m].todo = @ \ {c}]
    /\ denied' = denied \cup {<<c, muting[m].role>>}
    /\ UNCHANGED <<muteRoles, roleOf, timeout, configured, channels, fresh, refused, removing, mutes>>

GivesRole(m) ==
    /\ muting[m].next = "denying" /\ muting[m].todo = {}
    /\ roleOf' = [roleOf EXCEPT ![m] = @ \cup {muting[m].role}]
    /\ Turn(m, "timing")
    /\ UNCHANGED <<muteRoles, timeout, configured, denied, channels, fresh, refused, removing, mutes>>

\* Then the timeout, the record and the messages.
TimesOut(m) ==
    /\ muting[m].next = "timing"
    /\ timeout' = [timeout EXCEPT ![m] = TRUE]
    /\ muting' = [muting EXCEPT ![m] = Idle]
    /\ UNCHANGED <<muteRoles, roleOf, configured, denied, channels, fresh, refused, removing, mutes>>

\* A call that Discord refuses ends the command where it is.
MuteFails(m) ==
    /\ muting[m].next # "idle" /\ muting' = [muting EXCEPT ![m] = Idle]
    /\ UNCHANGED <<muteRoles, roleOf, timeout, configured, denied, channels, fresh, refused, removing, mutes>>

\* Discord ends a timeout when its time is over; staff may end it before.
TimeoutEnds(m) ==
    /\ timeout[m] /\ timeout' = [timeout EXCEPT ![m] = FALSE]
    /\ UNCHANGED <<muteRoles, roleOf, configured, denied, channels, fresh, refused, muting, removing, mutes>>

\* _remove_expired_mutes_from_guild: who has the role and no timeout.
Expired(m) == ~timeout[m]
LoopFinds(m) ==
    /\ removing = Nobody /\ removing' = m
    /\ \E role \in roleOf[m] : Resolves(role)
    /\ Expired(m)
    /\ UNCHANGED <<muteRoles, roleOf, timeout, configured, denied, channels, fresh, refused, muting, mutes>>

\* The role is removed and the member told, or the error logged: the next tick tries again.
LoopRemoves ==
    /\ removing # Nobody /\ removing' = Nobody
    /\ \/ \E role \in roleOf[removing] :
            Resolves(role) /\ roleOf' = [roleOf EXCEPT ![removing] = @ \ {role}]
       \/ roleOf' = roleOf
    /\ UNCHANGED <<muteRoles, timeout, configured, denied, channels, fresh, refused, muting, mutes>>

ChannelCreated(c) ==
    /\ c \notin channels /\ channels' = channels \cup {c} /\ fresh' = fresh \cup {c}
    /\ UNCHANGED <<muteRoles, roleOf, timeout, configured, denied, refused, muting, removing, mutes>>

\* on_guild_channel_create: the role denies the new channel, if there is one.
ListenerDenies(c) ==
    /\ c \in fresh /\ fresh' = fresh \ {c}
    /\ \E role \in muteRoles \cup {Unset} :
         /\ Resolves(role)
         /\ denied' = IF role = Unset THEN denied ELSE denied \cup {<<c, role>>}
    /\ UNCHANGED <<muteRoles, roleOf, timeout, configured, channels, refused, muting, removing, mutes>>

ListenerFails(c) ==
    /\ c \in fresh /\ fresh' = fresh \ {c} /\ refused' = refused \cup {c}
    /\ UNCHANGED <<muteRoles, roleOf, timeout, configured, denied, channels, muting, removing, mutes>>

MuteRestarts ==
    /\ muting' = [m \in Muted |-> Idle] /\ removing' = Nobody
    /\ fresh' = {} /\ refused' = refused \cup fresh
    /\ UNCHANGED <<muteRoles, roleOf, timeout, configured, denied, channels, mutes>>

MuteInit ==
    /\ muteRoles = RoleThere /\ roleOf = [m \in Muted |-> {}] /\ timeout = [m \in Muted |-> FALSE]
    /\ configured = Unset /\ denied = {} /\ channels \in SUBSET MuteChannels
    /\ fresh = {} /\ refused = {} /\ muting = [m \in Muted |-> Idle]
    /\ removing = Nobody /\ mutes = [m \in Muted |-> 0]

MuteNext ==
    \/ \E m \in Muted :
         \/ BeginsMute(m) \/ GivesRole(m) \/ TimesOut(m) \/ MuteFails(m) \/ TimeoutEnds(m) \/ LoopFinds(m)
         \/ \E role \in MuteRoles : CreatesRole(m, role)
         \/ \E c \in MuteChannels : DeniesChannel(m, c)
    \/ LoopRemoves \/ MuteRestarts
    \/ \E c \in MuteChannels : ChannelCreated(c) \/ ListenerDenies(c) \/ ListenerFails(c)

LoopTakes(m) == removing = m /\ LoopRemoves /\ m \in Muted /\ roleOf' # roleOf
\* The loop visits every member again and again, and a call that may succeed does in the end.
MuteFairness ==
    \A m \in Muted : SF_muteVars(LoopFinds(m)) /\ SF_muteVars(LoopTakes(m)) /\ WF_muteVars(LoopRemoves)

MuteSpec == MuteInit /\ [][MuteNext]_muteVars /\ MuteFairness

---------------------------------------------------------------------------

MuteTypeOK ==
    /\ configured \in MuteRoles \cup {Unset} /\ muteRoles \subseteq MuteRoles
    /\ removing \in Muted \cup {Nobody} /\ denied \subseteq MuteChannels \X MuteRoles

\* "Remove only stale mute roles": a member whose mute is over loses the role in the end,
\* while the guild has one such role.
RoleWaits(m) == roleOf[m] # {}
RoleServed(m) == roleOf[m] = {} \/ timeout[m] \/ Cardinality(muteRoles) > 1
ExpiredIsCleared == \A m \in Muted : RoleWaits(m) ~> RoleServed(m)

\* "Keep future channels moderation-safe without waiting for the next /mute command": the
\* role of a muted member denies every channel, those created while a command was going
\* through the channels included, once the listener has had its turn.
RoleDeniesChannels ==
    Cardinality(muteRoles) = 1 =>
        \A m \in Muted : \A role \in roleOf[m], c \in channels \ (fresh \cup refused) : <<c, role>> \in denied
=============================================================================
