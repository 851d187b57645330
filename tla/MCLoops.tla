------------------------------- MODULE MCLoops -------------------------------
(***************************************************************************)
(* The cogs whose background loops must in the end do their work, of       *)
(* rpa-admin and cda-admin, on small instances; see MCBots.  The fairness  *)
(* of each module is asked of the part alone that a behaviour is about.    *)
(***************************************************************************)
EXTENDS Giveaway, PayWeek, Muting, Verification, CdaVerify, CdaAudit

VARIABLE part   \* the module a behaviour is about

Parts == {"giveaway", "pay", "mute", "verify", "cda", "checks"}

LoopsVars == <<part, giveawayVars, payVars, muteVars, verifyVars, cdaVars, checkVars>>

\* The others stay as they are.
Only(p) ==
    /\ part = p /\ part' = p
    /\ IF p = "giveaway" THEN TRUE ELSE UNCHANGED giveawayVars
    /\ IF p = "pay" THEN TRUE ELSE UNCHANGED payVars
    /\ IF p = "mute" THEN TRUE ELSE UNCHANGED muteVars
    /\ IF p = "verify" THEN TRUE ELSE UNCHANGED verifyVars
    /\ IF p = "cda" THEN TRUE ELSE UNCHANGED cdaVars
    /\ IF p = "checks" THEN TRUE ELSE UNCHANGED checkVars

\* Only the part that is run starts in any of its initial states.
LoopsInit ==
    /\ part \in Parts
    /\ GiveawayInit
    /\ PayInit
    /\ MuteInit /\ (part = "mute" \/ channels = {})
    /\ VerifyInit /\ (part = "verify" \/ \A m \in People, n \in Names : mapping[m] = NoName /\ ~inGroup[n])
    /\ CdaInit /\ (part = "cda" \/ (cdaFile = <<>> /\ \A n \in CdaNames : groupOf[n] = None))
    /\ CheckInit /\ (part = "checks" \/ ~historyFails)
    \* Names are alike, and so are members.
    /\ mapping["m1"] # "n2" /\ cdaFile \in {<<>>, <<[user |-> "m1", name |-> "n1"]>>}

LoopsNext ==
    \/ Only("giveaway") /\ GiveawayNext
    \/ Only("pay") /\ PayNext
    \/ Only("mute") /\ MuteNext
    \/ Only("verify") /\ VerifyNext
    \/ Only("cda") /\ CdaNext
    \/ Only("checks") /\ CheckNext

At(p, action) == part = p /\ action
Run(p, action) == Only(p) /\ action
LoopsFairness ==
    /\ WF_giveawayVars(At("giveaway", StartSchedules \/ StartFails))
    /\ WF_giveawayVars(At("giveaway", RestoreGiveaways)) /\ WF_giveawayVars(At("giveaway", GiveawayDue))
    /\ WF_payVars(At("pay", PayStarts))
    /\ \A m \in Muted :
         /\ SF_LoopsVars(Run("mute", LoopFinds(m)) \/ Run("giveaway", TaskWakes) \/ Run("pay", ResetByLoop))
         /\ SF_muteVars(At("mute", LoopTakes(m)))
    /\ WF_muteVars(At("mute", LoopRemoves))
    /\ WF_verifyVars(At("verify", StartsBatch)) /\ WF_verifyVars(At("verify", UpdaterAssigns))
    /\ \A m \in People : WF_verifyVars(At("verify", UpdaterFetches(m)))
    /\ \A c \in Commands : WF_verifyVars(At("verify", JobStep(c) \/ RolesRaise(c)))
    /\ WF_cdaVars(At("cda", PassBegins)) /\ WF_cdaVars(At("cda", PassNext))
    /\ \A p \in {"task", "join"} :
         WF_cdaVars(At("cda", PassCompares(p))) /\ WF_cdaVars(At("cda", PassAssigns(p)))
    /\ \A s \in CdaAttempts : WF_cdaVars(At("cda", VerifyRoles(s)))
    /\ WF_checkVars(At("checks", SweepBegins)) /\ WF_checkVars(At("checks", SweepNext))
    /\ WF_checkVars(At("checks", SweepKicks)) /\ WF_checkVars(At("checks", CheckDayPasses))
LoopsSpec == LoopsInit /\ [][LoopsNext]_LoopsVars /\ LoopsFairness

LoopsTypeOK ==
    /\ part \in Parts
    /\ GiveawayTypeOK
    /\ PayTypeOK
    /\ MuteTypeOK
    /\ VerifyTypeOK
    /\ CdaTypeOK
    /\ CheckTypeOK

\* What waits for a loop, and its end; members are alike, so one stands for each.
Waits ==
    \/ part = "giveaway" /\ EndWaits
    \/ part = "pay" /\ WeekWaits
    \/ part = "mute" /\ RoleWaits("m1")
    \/ part = "checks" /\ StaysAwaiting("m2")
Served ==
    \/ part = "giveaway" /\ EndServed
    \/ part = "pay" /\ WeekServed
    \/ part = "mute" /\ RoleServed("m1")
    \/ part = "checks" /\ ~StaysAwaiting("m2")

\* part never changes, so this says of each module its own liveness property:
\* OverdueEnds, WeekIsResetByLoop, ExpiredIsCleared and OverdueIsRemoved.
LoopsFinish == Waits ~> Served

\* RolesSettle of rpa-admin and RolesFollowGroups of cda-admin.
RolesFollow ==
    <>[](/\ part = "verify" => RolesAgree
         /\ part = "cda" => \A u \in CdaMembers : Settled(u))

\* DrawnOnce, ResetAnnouncedOnce, WindowPostedOnce and MemberAlertedOnce: however loops,
\* commands and restarts meet, each thing is announced once.
AnnouncedOnce ==
    DrawnOnce /\ ResetAnnouncedOnce /\ WindowPostedOnce /\ MemberAlertedOnce

\* GrantedIsKept and ApprovedFromSaved: the links that staff or proofs established.
LinksAreKept == [](part = "cda" => GrantedIsKept) /\ ApprovedFromSaved
==============================================================================
