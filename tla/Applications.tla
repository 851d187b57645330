---------------------------- MODULE Applications ----------------------------
(***************************************************************************)
(* rpa-admin's application channels, made when a webhook asks for one      *)
(* (WebhookApplicationChannelCog.py), and the invites and roles of the     *)
(* special units (AutoInviteCog.py, ServerSpecialUnit.py).  Each step of a *)
(* handler is a call to Discord that suspends and may fail; the guilds are *)
(* external.                                                               *)
(***************************************************************************)
EXTENDS Integers, FiniteSets

CONSTANTS
    Applicants,     \* the webhook messages
    InvitesMax,     \* bound on the invites
    AppFaults       \* of {"crash", "undo"}: restarts, and undeletable channels

ASSUME AppAssumption == InvitesMax \in Nat /\ AppFaults \subseteq {"crash", "undo"}

VARIABLES
    asked,       \* external: the webhook's message: not yet, there, gone
    making,      \* what the handler of the message does next
    appChannel,  \* external: the applicant's channel is there
    sentTo,      \* external: what was sent about it, of {"archived", "notice"}
    claimable,   \* the notice has a Claim button that the process answers
    claimed,     \* external: staff were let into the channel
    excused,     \* history: a crash, or an undeletable channel, left it as it is
    mainRole,    \* external: the member has the role of the main server
    invites,     \* external: invites made and not yet used, told to the member or not
    inviting,    \* on_member_update is making one, or telling
    inUnit,      \* external: the member is in the unit's server: "out", "joined", "in"
    unitRole,    \* external: and has its role
    invited

appVars == <<asked, making, appChannel, sentTo, claimable, claimed, excused, mainRole, invites, inviting, inUnit, unitRole, invited>>
channelBits == <<asked, making, appChannel, sentTo, claimable, claimed, excused>>
unitBits == <<mainRole, invites, inviting, inUnit, unitRole, invited>>

Goes(r, next) == making' = [making EXCEPT ![r] = next]

\* External: the webhook posts its command, in the one format that is accepted.
WebhookAsks(r) ==
    /\ asked[r] = "not yet" /\ asked' = [asked EXCEPT ![r] = "there"] /\ Goes(r, "creating")
    /\ UNCHANGED <<appChannel, sentTo, claimable, claimed, excused, unitBits>>

CreatesChannel(r) ==
    /\ making[r] = "creating"
    /\ \/ appChannel' = appChannel \cup {r} /\ Goes(r, "forwarding")
       \/ appChannel' = appChannel /\ Goes(r, "idle")
    /\ UNCHANGED <<asked, sentTo, claimable, claimed, excused, unitBits>>

\* The archived embed is found and forwarded, or not.
ForwardsArchived(r) ==
    /\ making[r] = "forwarding"
    /\ \/ sentTo' = [sentTo EXCEPT ![r] = @ \cup {"archived"}] /\ Goes(r, "notifying")
       \/ sentTo' = sentTo /\ Goes(r, "undoing")
    /\ UNCHANGED <<asked, appChannel, claimable, claimed, excused, unitBits>>

UndoesChannel(r) == Goes(r, "undoing")
\* The leadership is told, with a Claim button, or the channel is removed.
NotifiesStaff(r) ==
    /\ making[r] = "notifying"
    /\ \/ /\ sentTo' = [sentTo EXCEPT ![r] = @ \cup {"notice"}] /\ claimable' = claimable \cup {r}
          /\ Goes(r, "tidying")
       \/ sentTo' = sentTo /\ claimable' = claimable /\ UndoesChannel(r)
    /\ UNCHANGED <<asked, appChannel, claimed, excused, unitBits>>

RemovesChannel(r) ==
    /\ making[r] = "undoing" /\ Goes(r, "idle")
    /\ \/ appChannel' = appChannel \ {r} /\ excused' = excused
       \/ "undo" \in AppFaults /\ appChannel' = appChannel /\ excused' = excused \cup {r}
    /\ UNCHANGED <<asked, sentTo, claimable, claimed, unitBits>>

\* The command is deleted last; a refusal is passed over.
DeletesCommand(r) ==
    /\ making[r] = "tidying" /\ Goes(r, "idle")
    /\ asked' \in {asked, [asked EXCEPT ![r] = "gone"]}
    /\ UNCHANGED <<appChannel, sentTo, claimable, claimed, excused, unitBits>>

\* ApplicationClaimView.claim, by any of the staff.
Claims(r) ==
    /\ r \in claimable /\ r \in appChannel /\ r \notin claimed
    /\ claimed' = claimed \cup {r}
    /\ UNCHANGED <<asked, making, appChannel, sentTo, claimable, excused, unitBits>>

\* External: staff delete the channel when the application is done.
ChannelCloses(r) ==
    /\ r \in claimed /\ r \in appChannel /\ appChannel' = appChannel \ {r}
    /\ UNCHANGED <<asked, making, sentTo, claimable, claimed, excused, unitBits>>

\* External: the member gains or loses the role; what is gained is listened to.
MainRoleChanges ==
    /\ invited < InvitesMax /\ invited' = invited + 1
    /\ mainRole' = ~mainRole
    /\ inviting' = IF mainRole' /\ inviting = "idle" THEN "making" ELSE inviting
    /\ UNCHANGED <<channelBits, invites, inUnit, unitRole>>

\* _send_single_use_invite: an invite whose message is refused stays.
MakesInvite ==
    /\ inviting = "making"
    /\ \/ inviting' = "telling" /\ invites' = invites \cup {[n |-> invited, told |-> FALSE]}
       \/ inviting' = "idle" /\ invites' = invites
    /\ UNCHANGED <<channelBits, mainRole, inUnit, unitRole, invited>>

TellsInvite ==
    /\ inviting = "telling" /\ inviting' = "idle"
    /\ \/ invites' = {[i EXCEPT !.told = TRUE] : i \in invites}
       \/ invites' = invites
    /\ UNCHANGED <<channelBits, mainRole, inUnit, unitRole, invited>>

\* External: the member uses it; Discord lets it be used once.
JoinsUnit(i) ==
    /\ i \in invites /\ i.told /\ inUnit = "out"
    /\ inUnit' = "joined" /\ invites' = invites \ {i}
    /\ UNCHANGED <<channelBits, mainRole, inviting, unitRole, invited>>

\* SpecialUnitCog.on_member_join: the main server's role as it is by now; a refused role
\* is lost.
HandlesUnitJoin ==
    /\ inUnit = "joined" /\ inUnit' = "in"
    /\ unitRole' \in {FALSE, mainRole}
    /\ UNCHANGED <<channelBits, mainRole, invites, inviting, invited>>

LeavesUnit ==
    /\ inUnit = "in" /\ inUnit' = "out" /\ unitRole' = FALSE
    /\ UNCHANGED <<channelBits, mainRole, invites, inviting, invited>>

\* No view is registered again, and no event of the time before is handled.
AppRestarts ==
    /\ "crash" \in AppFaults
    /\ excused' = excused \cup {r \in Applicants : making[r] # "idle"}
    /\ making' = [r \in Applicants |-> "idle"] /\ claimable' = {} /\ inviting' = "idle"
    /\ inUnit' = IF inUnit = "joined" THEN "in" ELSE inUnit
    /\ UNCHANGED <<asked, appChannel, sentTo, claimed, mainRole, invites, unitRole, invited>>

AppInit ==
    /\ asked = [r \in Applicants |-> "not yet"] /\ making = [r \in Applicants |-> "idle"]
    /\ appChannel = {} /\ sentTo = [r \in Applicants |-> {}] /\ claimable = {} /\ claimed = {} /\ excused = {}
    /\ mainRole = FALSE /\ invites = {} /\ inviting = "idle" /\ inUnit = "out" /\ unitRole = FALSE /\ invited = 0

AppNext ==
    \/ \E r \in Applicants :
         \/ WebhookAsks(r) \/ CreatesChannel(r) \/ ForwardsArchived(r) \/ NotifiesStaff(r)
         \/ RemovesChannel(r) \/ DeletesCommand(r) \/ Claims(r) \/ ChannelCloses(r)
    \/ MainRoleChanges \/ MakesInvite \/ TellsInvite \/ HandlesUnitJoin \/ LeavesUnit \/ AppRestarts
    \/ \E i \in invites : JoinsUnit(i)

AppSpec == AppInit /\ [][AppNext]_appVars

---------------------------------------------------------------------------

AppTypeOK ==
    /\ appChannel \subseteq Applicants /\ claimable \subseteq Applicants /\ excused \subseteq Applicants
    /\ \A r \in Applicants : sentTo[r] \subseteq {"archived", "notice"}
    /\ inUnit \in {"out", "joined", "in"} /\ unitRole \in BOOLEAN

\* "preventing unseen application channels from piling up": a channel whose handler is done
\* got the archived embed and was told to staff, whichever of the calls failed,
\* unless the process died meanwhile or Discord refused to delete the channel.
NoUnseenChannels ==
    \A r \in appChannel : making[r] = "idle" /\ r \notin excused => sentTo[r] = {"archived", "notice"}
=============================================================================
