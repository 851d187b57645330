------------------------------ MODULE CdaAudit ------------------------------
(***************************************************************************)
(* cda-admin's checks of members: the two watchers that post an alert with *)
(* a Kick button (VerifyKick.py for Verified members server.json does not  *)
(* list, VerifiedRoleAudit.py for those without an employee or exempt      *)
(* role), the ban of those on a list (ServerVerifyBan.py), and the removal *)
(* of who stays Awaiting (AwaitingVerificationCleanup.py).                 *)
(***************************************************************************)
EXTENDS Naturals, Sequences, SequencesExt, FiniteSetsExt

CONSTANTS
    Checked,      \* members
    Protected,    \* those the bot may not kick
    CheckTasks,   \* scans and events that post at a time
    CheckDays,    \* bound on the days
    CheckDeeds    \* bound on changes of roles, of server.json, of lists, and restarts

ASSUME CheckAssumption ==
    Protected \subseteq Checked /\ CheckDays \in Nat /\ CheckDeeds \in Nat

VARIABLES
    standing,    \* roles of each member: [there, verified, awaiting, employee]
    listedNow,   \* the members server.json lists
    awaitingOn,  \* the day the Awaiting role was given; all joined on day 0
    alerts,      \* the messages of each watcher's channel: the members, oldest first
    historyFails,  \* external: the history of the channels may not be readable
    alerted,     \* _alerted_users of each watcher
    poster,      \* each task: [at, watcher, member]
    offered,     \* the alerts whose buttons this process serves: <<watcher, member>>
    kicking,     \* the presses of Kick past the check, while the DM is sent
    onList,      \* the members on BoS, DNH, NP or in a banned group
    banned,
    sweep,       \* cleanup_task: [at, left]
    removed,     \* history: each removal by the sweep: [member, awaited]
    checkDay, checkDeeds

checkVars == <<standing, listedNow, awaitingOn, historyFails, alerts, alerted, poster, offered, kicking, onList, banned,
               sweep, removed, checkDay, checkDeeds>>
checkQuiet == <<listedNow, awaitingOn, onList, removed, checkDay, historyFails>>

Watchers == {"unlisted", "compliance"}
NoPoster == [at |-> "no", watcher |-> "none", member |-> "none"]
CheckDeed == checkDeeds < CheckDeeds /\ checkDeeds' = checkDeeds + 1
Away(u) == standing' = [standing EXCEPT ![u].there = FALSE]

\* _has_verified_role with _load_verified_ids; _needs_action.
NeedsAlert(w, u) ==
    /\ standing[u].there /\ standing[u].verified
    /\ IF w = "unlisted" THEN u \notin listedNow ELSE ~standing[u].employee

\* on_ready, the scan commands and on_member_update: what is seen is not looked at again
\* after the delay and the wait for the lock.
SeesMember(t, w, u) ==
    /\ poster[t].at = "no" /\ NeedsAlert(w, u) /\ CheckDeed
    /\ poster' = [poster EXCEPT ![t] = [at |-> "waits", watcher |-> w, member |-> u]]
    /\ UNCHANGED <<checkQuiet, standing, alerts, alerted, offered, kicking, banned, sweep>>

NeverWaits(t) == TRUE   \* mutant
LockFree(t) == \A s \in CheckTasks : poster[s].watcher = poster[t].watcher => poster[s].at \notin {"reads", "sends"}
\* _already_alerted, the set.
TakesLock(t) ==
    /\ poster[t].at = "waits" /\ LockFree(t)
    /\ poster' = [poster EXCEPT ![t] = IF poster[t].member \in alerted[poster[t].watcher] THEN NoPoster
                                       ELSE [poster[t] EXCEPT !.at = "reads"]]
    /\ UNCHANGED <<checkQuiet, standing, alerts, alerted, offered, kicking, banned, sweep, checkDeeds>>

\* _already_alerted, the channel's history (its newest 200 messages); what cannot be read
\* does not keep from posting.
ReadsHistory(t) ==
    /\ poster[t].at = "reads"
    /\ LET w == poster[t].watcher
       IN  \E found \in {poster[t].member \in Range(alerts[w])} \cup (IF historyFails THEN {FALSE} ELSE {}) :
             /\ alerted' = IF found THEN [alerted EXCEPT ![w] = @ \cup {poster[t].member}] ELSE alerted
             /\ poster' = [poster EXCEPT ![t] = IF found THEN NoPoster ELSE [poster[t] EXCEPT !.at = "sends"]]
    /\ UNCHANGED <<checkQuiet, standing, alerts, offered, kicking, banned, sweep, checkDeeds>>

SendsAlert(t) ==
    /\ poster[t].at = "sends" /\ poster' = [poster EXCEPT ![t] = NoPoster]
    /\ LET w == poster[t].watcher
           u == poster[t].member
       IN  /\ alerts' = [alerts EXCEPT ![w] = Append(@, u)]
           /\ alerted' = [alerted EXCEPT ![w] = @ \cup {u}]
           /\ offered' = offered \cup {<<w, u>>}
    /\ UNCHANGED <<checkQuiet, standing, kicking, banned, sweep, checkDeeds>>

AlertFails(t) ==
    /\ poster[t].at = "sends" /\ poster' = [poster EXCEPT ![t] = NoPoster]
    /\ UNCHANGED <<checkQuiet, standing, alerts, alerted, offered, kicking, banned, sweep, checkDeeds>>

\* Ignore disables the buttons.
PressesIgnore(w, u) ==
    /\ <<w, u>> \in offered /\ offered' = offered \ {<<w, u>>}
    /\ UNCHANGED <<checkQuiet, standing, alerts, alerted, poster, kicking, banned, sweep, checkDeeds>>

\* Kick: the first watcher asks only whether the member is there; the second looks at the
\* roles again and sends a DM first.
PressesKick(w, u) ==
    /\ <<w, u>> \in offered /\ standing[u].there
    /\ IF w = "unlisted" THEN (IF u \in Protected THEN UNCHANGED standing ELSE Away(u)) /\ UNCHANGED kicking
       ELSE NeedsAlert(w, u) /\ kicking' = kicking \cup {u} /\ UNCHANGED standing
    /\ UNCHANGED <<checkQuiet, alerts, alerted, poster, offered, banned, sweep, checkDeeds>>
KicksAfterDM(u) ==
    /\ u \in kicking /\ kicking' = kicking \ {u}
    /\ IF u \in Protected THEN UNCHANGED standing ELSE Away(u)
    /\ UNCHANGED <<checkQuiet, alerts, alerted, poster, offered, banned, sweep, checkDeeds>>

\* ServerVerifyBan: the watched role comes on; a failing lookup at Habbo ends the handler,
\* also for one on a list.
BansListed(u) ==
    /\ CheckDeed /\ standing[u].there /\ u \in onList
    /\ \/ u \notin Protected /\ banned' = banned \cup {u} /\ Away(u)
       \/ UNCHANGED <<banned, standing>>
    /\ UNCHANGED <<checkQuiet, alerts, alerted, poster, offered, kicking, sweep>>

\* /admin bos, dnh, np, agencies add; remove.
ListsMember(u, on) ==
    /\ CheckDeed /\ (u \in onList) # on
    /\ onList' = IF on THEN onList \cup {u} ELSE onList \ {u}
    /\ UNCHANGED <<standing, listedNow, awaitingOn, historyFails, alerts, alerted, poster, offered, kicking,
                   banned, sweep, removed, checkDay>>

---------------------------------------------------------------------------
\* cleanup_task, each fifteen minutes: the members who have the role now.
SweepBegins ==
    /\ sweep.at = "no" /\ \E u \in Checked : standing[u].there /\ standing[u].awaiting
    /\ sweep' = [at |-> "next", left |-> SetToSeq({u \in Checked : standing[u].there /\ standing[u].awaiting})]
    /\ UNCHANGED <<checkQuiet, standing, alerts, alerted, poster, offered, kicking, banned, checkDeeds>>

\* Who joined less than a day ago is skipped; the others get a DM.
SweepNext ==
    /\ sweep.at = "next"
    /\ sweep' = IF sweep.left = <<>> THEN [at |-> "no", left |-> <<>>]
                ELSE IF checkDay = 0 THEN [sweep EXCEPT !.left = Tail(@)]
                ELSE [sweep EXCEPT !.at = "kick"]
    /\ UNCHANGED <<checkQuiet, standing, alerts, alerted, poster, offered, kicking, banned, checkDeeds>>

\* A refused kick goes on with the next.
AfterRefusal(left) == Tail(left)
SweepKicks ==
    /\ sweep.at = "kick"
    /\ LET u == Head(sweep.left)
       IN  IF u \in Protected \/ ~standing[u].there
           THEN /\ sweep' = [at |-> "next", left |-> AfterRefusal(sweep.left)]
                /\ UNCHANGED <<standing, removed>>
           ELSE /\ sweep' = [at |-> "next", left |-> Tail(sweep.left)]
                /\ Away(u)
                /\ removed' = removed \cup
                     {[member |-> u, awaited |-> IF standing[u].awaiting THEN checkDay - awaitingOn[u] ELSE 0]}
    /\ UNCHANGED <<listedNow, awaitingOn, onList, checkDay, historyFails, alerts, alerted, poster, offered,
                   kicking, banned, checkDeeds>>

---------------------------------------------------------------------------
\* What /verify, /va reset, the role updater and staff change of a member.
Verified(u) ==
    /\ CheckDeed /\ standing[u].there
    /\ standing' = [standing EXCEPT ![u].verified = TRUE, ![u].awaiting = FALSE]
    /\ listedNow' \in {listedNow, listedNow \cup {u}}   \* by the bot, or by hand
    /\ UNCHANGED <<awaitingOn, historyFails, alerts, alerted, poster, offered, kicking, onList, banned, sweep,
                   removed, checkDay>>
VerificationReset(u) ==
    /\ CheckDeed /\ standing[u].there /\ u \in listedNow /\ listedNow' = listedNow \ {u}
    /\ standing' = [standing EXCEPT ![u].verified = FALSE, ![u].awaiting = TRUE]
    /\ awaitingOn' = [awaitingOn EXCEPT ![u] = checkDay]
    /\ UNCHANGED <<historyFails, alerts, alerted, poster, offered, kicking, onList, banned, sweep, removed, checkDay>>
EmployeeChanges(u) ==
    /\ CheckDeed /\ standing[u].there /\ standing' = [standing EXCEPT ![u].employee = ~@]
    /\ UNCHANGED <<checkQuiet, alerts, alerted, poster, offered, kicking, banned, sweep>>
CheckDayPasses ==
    /\ checkDay < CheckDays /\ checkDay' = checkDay + 1
    /\ UNCHANGED <<standing, listedNow, awaitingOn, historyFails, alerts, alerted, poster, offered, kicking,
                   onList, banned, sweep, removed, checkDeeds>>

\* The sets and the views of the buttons are gone; the channels keep their messages.
CheckRestarts ==
    /\ CheckDeed
    /\ alerted' = [w \in Watchers |-> {}] /\ poster' = [t \in CheckTasks |-> NoPoster]
    /\ offered' = {} /\ kicking' = {} /\ sweep' = [at |-> "no", left |-> <<>>]
    /\ UNCHANGED <<checkQuiet, standing, alerts, banned>>

CheckInit ==
    /\ standing = [u \in Checked |-> [there |-> TRUE, verified |-> FALSE, awaiting |-> TRUE, employee |-> FALSE]]
    /\ listedNow = {} /\ awaitingOn = [u \in Checked |-> 0]
    /\ historyFails \in BOOLEAN /\ alerts = [w \in Watchers |-> <<>>] /\ alerted = [w \in Watchers |-> {}]
    /\ poster = [t \in CheckTasks |-> NoPoster] /\ offered = {} /\ kicking = {}
    /\ onList = {} /\ banned = {} /\ sweep = [at |-> "no", left |-> <<>>] /\ removed = {}
    /\ checkDay = 0 /\ checkDeeds = 0

CheckNext ==
    \/ \E t \in CheckTasks :
         \/ \E w \in Watchers, u \in Checked : SeesMember(t, w, u)
         \/ TakesLock(t) \/ ReadsHistory(t) \/ SendsAlert(t) \/ AlertFails(t)
    \/ \E w \in Watchers, u \in Checked : PressesIgnore(w, u) \/ PressesKick(w, u)
    \/ \E u \in Checked :
         \/ KicksAfterDM(u) \/ BansListed(u) \/ Verified(u) \/ VerificationReset(u) \/ EmployeeChanges(u)
         \/ \E on \in BOOLEAN : ListsMember(u, on)
    \/ SweepBegins \/ SweepNext \/ SweepKicks \/ CheckDayPasses \/ CheckRestarts

CheckFairness == WF_checkVars(SweepBegins) /\ WF_checkVars(SweepNext) /\ WF_checkVars(SweepKicks) /\ WF_checkVars(CheckDayPasses)
CheckSpec == CheckInit /\ [][CheckNext]_checkVars /\ CheckFairness

---------------------------------------------------------------------------

CheckTypeOK ==
    /\ checkDay \in 0 .. CheckDays /\ checkDeeds \in 0 .. CheckDeeds
    /\ \A w \in Watchers : alerted[w] \subseteq Checked /\ Range(alerts[w]) \subseteq Checked
    /\ \A u \in Checked : standing[u].verified => ~standing[u].awaiting

\* However scans, events and restarts overlap, a watcher alerts of a member once; where it
\* cannot read its channel, once in the life of the process.
MemberAlertedOnce ==
    /\ ~historyFails => \A w \in Watchers : IsInjective(alerts[w])
    /\ \A t \in CheckTasks : poster[t].at = "sends" => poster[t].member \notin alerted[poster[t].watcher]

\* One whom the bot may kick does not stay Awaiting: no refused kick ends the sweep.
StaysAwaiting(u) == standing[u].there /\ standing[u].awaiting
OverdueIsRemoved == \A u \in Checked \ Protected : StaysAwaiting(u) ~> ~StaysAwaiting(u)
=============================================================================
