------------------------------- MODULE MCBots --------------------------------
(***************************************************************************)
(* The cogs that need no fairness to be judged, of rpa-admin, unbot and    *)
(* cda-pay, on small instances.  The cogs of one module share nothing with *)
(* those of another, so one configuration checks them side by side.        *)
(***************************************************************************)
EXTENDS CogHost, Raffle, ReactionRoles, AuditTrail, Moderation, Applications,
        ProfileWatcher, UserTime, ApiPacer, IdTracker, PayRecords

VARIABLE part   \* the module a behaviour is about

Parts == {"host", "raffle", "react", "audit", "mod", "apply", "watch", "time", "pace", "track", "records"}

BotsVars == <<part, hostVars, raffleVars, reactVars, auditVars, modVars, appVars,
              watchVars, timeVars, paceVars, trackVars, recVars>>

\* The others stay as they are.
Only(p) ==
    /\ part = p /\ part' = p
    /\ IF p = "host" THEN TRUE ELSE UNCHANGED hostVars
    /\ IF p = "raffle" THEN TRUE ELSE UNCHANGED raffleVars
    /\ IF p = "react" THEN TRUE ELSE UNCHANGED reactVars
    /\ IF p = "audit" THEN TRUE ELSE UNCHANGED auditVars
    /\ IF p = "mod" THEN TRUE ELSE UNCHANGED modVars
    /\ IF p = "apply" THEN TRUE ELSE UNCHANGED appVars
    /\ IF p = "watch" THEN TRUE ELSE UNCHANGED watchVars
    /\ IF p = "time" THEN TRUE ELSE UNCHANGED timeVars
    /\ IF p = "pace" THEN TRUE ELSE UNCHANGED paceVars
    /\ IF p = "track" THEN TRUE ELSE UNCHANGED trackVars
    /\ IF p = "records" THEN TRUE ELSE UNCHANGED recVars

\* Only the part that is run starts in any of its initial states.
BotsInit ==
    /\ part \in Parts
    /\ HostInit /\ (part = "host" \/ \A e \in Extensions : code[e].ok)
    /\ RaffleInit
    /\ ReactInit /\ (part = "react" \/ entriesFile = <<>>)
    /\ AuditInit /\ (part = "audit" \/ (~auditFails /\ inServer = {}))
    /\ ModInit /\ (part = "mod" \/ sterile)
    /\ AppInit
    /\ WatchInit /\ (part = "watch" \/ (ops = {"force"} /\ habbo.online))
    /\ TimeInit /\ (part = "time" \/ tVisits = {})
    /\ PaceInit
    /\ TrackInit
    /\ RecInit /\ (part = "records" \/ void.count = 0)

BotsNext ==
    \/ Only("host") /\ HostNext
    \/ Only("raffle") /\ RaffleNext
    \/ Only("react") /\ ReactNext
    \/ Only("audit") /\ AuditNext
    \/ Only("mod") /\ ModNext
    \/ Only("apply") /\ AppNext
    \/ Only("watch") /\ WatchNext
    \/ Only("time") /\ TimeNext
    \/ Only("pace") /\ PaceNext
    \/ Only("track") /\ TrackNext
    \/ Only("records") /\ RecNext

BotsSpec == BotsInit /\ [][BotsNext]_BotsVars

BotsTypeOK ==
    /\ part \in Parts
    /\ HostTypeOK
    /\ RaffleTypeOK
    /\ ReactTypeOK
    /\ AuditTypeOK
    /\ ModTypeOK
    /\ AppTypeOK
    /\ WatchTypeOK
    /\ TimeTypeOK
    /\ PaceTypeOK
    /\ TrackTypeOK
    /\ RecTypeOK

\* ConfirmedIsCounted, OneRolePerEmoji, IdleIsSaved, PaidTotalsAgree and CountedOnce: with
\* nothing under way, files and memory hold what was confirmed, once and completely.
FilesAreTrue ==
    /\ ConfirmedIsCounted /\ OneRolePerEmoji /\ IdleIsSaved /\ PaidTotalsAgree
    /\ CountedOnce

\* AlertedOnce, HidingAnnouncedOnce and OneActionPerFlag: what is posted is posted once.
PostedOnce == AlertedOnce /\ HidingAnnouncedOnce /\ OneActionPerFlag

\* BannedIsNotLeft, LinesTellTheOutcome and NoUnseenChannels: what staff are told of members,
\* permissions and applications is what happened.
StaffAreTold == BannedIsNotLeft /\ LinesTellTheOutcome /\ NoUnseenChannels

\* ReloadedMeansAll, RecordedOnce and OnlyForward: no step confirms, records or takes back
\* what another has changed under it.
StepsAreSound == ReloadedMeansAll /\ RecordedOnce /\ OnlyForward
==============================================================================
