---------------------------- MODULE Verification ----------------------------
(***************************************************************************)
(* rpa-admin's link between Discord members and Habbo accounts:            *)
(* /verify and forceverify (ServerVerifyRPA.py), the requests to change a  *)
(* name (UserNameChange.py), the restriction lists                         *)
(* (UserVerifyRestrict.py), the reactions that queue a member (also        *)
(* ServerRules.py), the ten-minute role updater and its join listener      *)
(* (ServerAutoRolesRPA.py), over the stores of habbo_verification_core.py. *)
(* The Habbo calls of the commands block the event loop, those of the      *)
(* updater do not; every call to Discord suspends.  Of the mapped roles    *)
(* one stands for all; nicknames are left out.                             *)
(***************************************************************************)
EXTENDS Integers, FiniteSets, Sequences

CONSTANTS
    People,      \* Discord members
    Names,       \* Habbo accounts
    Requests,    \* requests to change a name
    CodesMax,    \* bound on the codes given out
    DeedsMax,    \* bound on what members, staff and Habbo do
    DnhAtStart   \* accounts on the DNH list at the start

ASSUME VerifyAssumption == CodesMax \in Nat /\ DeedsMax \in Nat /\ DnhAtStart \subseteq Names

VARIABLES
    mapping,     \* VerifiedUsers.json
    challenge,   \* VerificationManager._challenges
    codes,       \* the codes given out so far
    motto,       \* external: the code in the motto of each account, or 0
    inGroup,     \* external: the account is in the group of the role
    listed,      \* VerifyRestrictions.json
    roles,       \* external: the member's roles
    present,     \* external: who is in the guild
    jobs,        \* what each command under way still does, and for which account
    queueing,    \* members whom a reaction is about to queue
    request,     \* the requests with their buttons
    updater,     \* AutoRoleUpdater: its copy of the mapping, its batch and its answer
    deeds

commandVars == <<mapping, challenge, codes, jobs, request>>
habboVars == <<motto, inGroup>>
memberVars == <<roles, present, queueing>>
verifyVars == <<commandVars, habboVars, memberVars, listed, updater, deeds>>

NoName == "unlinked"
NoChallenge == [name |-> NoName, code |-> 0]
NoRequest == [of |-> "nobody", from |-> NoName, to |-> NoName, state |-> "none"]
\* A command under way is one of a member, or of staff on a member or on a request.
Commands == ({"verify", "forceverify"} \X People) \cup ({"approve"} \X Requests)
NoJob == [of |-> "nobody", name |-> NoName, steps |-> << >>]
NoAnswer == [of |-> "nobody", groups |-> FALSE, proof |-> TRUE]

Deed == deeds < DeedsMax /\ deeds' = deeds + 1
IsVerified(m) == mapping[m] # NoName
Starts(c, m, n, steps) == jobs' = [jobs EXCEPT ![c] = [of |-> m, name |-> n, steps |-> steps]]
OnboardSteps == <<"roles", "verified", "restrict">>

\* VerificationManager.get_or_create: the active challenge for that account, or a new one.
GetOrCreate(m, n) ==
    IF challenge[m].name = n THEN UNCHANGED <<challenge, codes>>
    ELSE /\ codes < CodesMax /\ codes' = codes + 1
         /\ challenge' = [challenge EXCEPT ![m] = [name |-> n, code |-> codes']]

\* /verify of a member who is linked: the roles and the name of the stored account.
VerifyAgain(m) ==
    /\ IsVerified(m)
    /\ Starts(<<"verify", m>>, m, mapping[m], <<"verified", "roles">>)
    /\ UNCHANGED <<mapping, challenge, codes>>

\* The motto holds the code: the link is saved, and the challenge cleared at the end.
VerifySucceeds(m, n) ==
    /\ ~IsVerified(m) /\ challenge[m].name = n /\ motto[n] = challenge[m].code
    /\ mapping' = [mapping EXCEPT ![m] = n]
    /\ Starts(<<"verify", m>>, m, n, Append(OnboardSteps, "clear"))
    /\ UNCHANGED <<challenge, codes>>

\* The motto does not hold it, or Habbo does not answer: the member is told the code.
VerifyWaits(m, n) ==
    /\ ~IsVerified(m) /\ (challenge[m].name # n \/ motto[n] # challenge[m].code)
    /\ GetOrCreate(m, n)
    /\ UNCHANGED <<mapping, jobs>>

Verify(m, n) ==
    /\ Deed /\ m \in present /\ jobs[<<"verify", m>>] = NoJob
    /\ VerifyAgain(m) \/ VerifySucceeds(m, n) \/ VerifyWaits(m, n)
    /\ UNCHANGED <<request, habboVars, memberVars, listed, updater>>

\* forceverify of an administrator, with no challenge.
ForceVerify(m, n) ==
    /\ Deed /\ m \in present /\ jobs[<<"forceverify", m>>] = NoJob
    /\ mapping' = [mapping EXCEPT ![m] = n]
    /\ Starts(<<"forceverify", m>>, m, n, OnboardSteps)
    /\ UNCHANGED <<challenge, codes, request, habboVars, memberVars, listed, updater>>

\* The challenge expires after five minutes.
Expires(m) ==
    /\ challenge[m] # NoChallenge
    /\ challenge' = [challenge EXCEPT ![m] = NoChallenge]
    /\ UNCHANGED <<mapping, codes, jobs, request, habboVars, memberVars, listed, updater, deeds>>

\* The role that the groups of an account give.
Earned(n) == IF inGroup[n] THEN {"employee"} ELSE {}
WithRole(had, earned) == (had \ {"employee"}) \cup earned

\* _ensure_verified_role, _assign_roles_from_habbo_groups and
\* _enforce_restrictions_after_verification: a call that Discord rejects has no effect.
StepEffect(m, step, n) ==
    \/ /\ step = "verified" /\ m \in present
       /\ roles' = [roles EXCEPT ![m] = (@ \cup {"verified"}) \ {"awaiting"}]
       /\ UNCHANGED <<present, challenge, updater>>
    \/ /\ step = "roles" /\ m \in present
       /\ roles' = [roles EXCEPT ![m] = WithRole(@, Earned(n))]
       /\ UNCHANGED <<present, challenge, updater>>
    \/ /\ step = "restrict" /\ m \in present
       /\ \/ listed[n] = "none" /\ UNCHANGED <<roles, present>>
          \/ /\ listed[n] = "DNH" /\ present' = present
             /\ roles' = [roles EXCEPT ![m] = @ \ {"employee"}]
          \/ /\ listed[n] = "BoS" /\ present' = present \ {m}
             /\ roles' = [roles EXCEPT ![m] = {}]
       /\ UNCHANGED <<challenge, updater>>
    \/ /\ step = "clear" /\ challenge' = [challenge EXCEPT ![m] = NoChallenge]
       /\ UNCHANGED <<roles, present, updater>>
    \/ /\ step = "reload"   \* the updater is loaded anew, with the mapping of now
       /\ updater' = [known |-> mapping, batch |-> {}, answer |-> NoAnswer]
       /\ UNCHANGED <<roles, present, challenge>>
    \/ /\ step \notin {"clear", "reload"}
       /\ UNCHANGED <<roles, present, challenge, updater>>

JobStep(c) ==
    /\ jobs[c] # NoJob
    /\ LET job == jobs[c]
       IN  /\ StepEffect(job.of, Head(job.steps), job.name)
           /\ jobs' = [jobs EXCEPT ![c] =
                         IF Len(job.steps) = 1 THEN NoJob ELSE [job EXCEPT !.steps = Tail(@)]]
    /\ UNCHANGED <<mapping, codes, request, queueing, habboVars, listed, deeds>>

\* A role change that fails other than by permission ends the command there.
RolesRaise(c) ==
    /\ jobs[c] # NoJob /\ Head(jobs[c].steps) = "roles"
    /\ jobs' = [jobs EXCEPT ![c] = NoJob]
    /\ UNCHANGED <<mapping, challenge, codes, request, habboVars, memberVars, listed, updater, deeds>>

\* usernamechange: a request for an account that is there, other than the saved one.
RequestChange(q, m, n) ==
    /\ Deed /\ request[q] = NoRequest /\ IsVerified(m) /\ n # mapping[m]
    /\ request' = [request EXCEPT ![q] = [of |-> m, from |-> mapping[m], to |-> n, state |-> "pending"]]
    /\ UNCHANGED <<mapping, challenge, codes, jobs, habboVars, memberVars, listed, updater>>

\* "Staff approval always acts on the latest persisted data".
StillSaved(q) == mapping[request[q].of] = request[q].from
\* The buttons live as long as the process, and stay enabled until the reply is edited.
ApproveRequest(q) ==
    /\ Deed /\ request[q].state \in {"pending", "approved"}
    /\ jobs[<<"approve", q>>] = NoJob
    /\ request' = [request EXCEPT ![q].state = "approved"]
    /\ IF StillSaved(q)
       THEN /\ mapping' = [mapping EXCEPT ![request[q].of] = request[q].to]
            /\ Starts(<<"approve", q>>, request[q].of, request[q].to, <<"reload">>)
       ELSE UNCHANGED <<mapping, jobs>>
    /\ UNCHANGED <<challenge, codes, habboVars, memberVars, listed, updater>>

\* The embed is edited and its buttons disabled: declined, or approved before.
CloseRequest(q) ==
    /\ request[q].state \in {"pending", "approved"}
    /\ request' = [request EXCEPT ![q].state = "closed"]
    /\ UNCHANGED <<mapping, challenge, codes, jobs, habboVars, memberVars, listed, updater, deeds>>

\* dnh and bos, add and remove.
ListName(n, group) ==
    /\ Deed /\ listed[n] # group /\ listed' = [listed EXCEPT ![n] = group]
    /\ UNCHANGED <<commandVars, habboVars, memberVars, updater>>

\* A green check on the verification message, or on the rules by who is not verified.
Reacts(m, onRules) ==
    /\ Deed /\ m \in present /\ m \notin queueing /\ "awaiting" \notin roles[m]
    /\ onRules => ~IsVerified(m)
    /\ queueing' = queueing \cup {m}
    /\ UNCHANGED <<commandVars, habboVars, roles, present, listed, updater>>

Queues(m) ==
    /\ m \in queueing /\ queueing' = queueing \ {m}
    /\ roles' = IF m \in present THEN [roles EXCEPT ![m] = @ \cup {"awaiting"}] ELSE roles
    /\ UNCHANGED <<commandVars, habboVars, present, listed, updater, deeds>>

\* update_roles_task: a batch over the mapping of now.
StartsBatch ==
    /\ updater.batch = {} /\ updater.answer = NoAnswer
    /\ updater' = [updater EXCEPT !.known = mapping, !.batch = {m \in People : mapping[m] # NoName}]
    /\ UNCHANGED <<commandVars, habboVars, memberVars, listed, deeds>>

\* The profile and the groups of one member.  A failure counts as no groups, and is
\* limited here, but for a 429, which ends the batch.
UpdaterFetches(m) ==
    /\ m \in updater.batch /\ updater.answer = NoAnswer
    /\ \/ /\ updater' = [updater EXCEPT !.batch = @ \ {m},
                           !.answer = IF m \in present
                                      THEN [of |-> m, groups |-> inGroup[updater.known[m]], proof |-> TRUE]
                                      ELSE NoAnswer]
          /\ deeds' = deeds
       \/ /\ Deed /\ m \in present
          /\ updater' = [updater EXCEPT !.batch = @ \ {m}, !.answer = [of |-> m, groups |-> FALSE, proof |-> FALSE]]
       \/ Deed /\ updater' = [updater EXCEPT !.batch = {}]
    /\ UNCHANGED <<commandVars, habboVars, memberVars, listed>>

\* assign_roles: the role is added or removed; who has left has none.
UpdaterAssigns ==
    /\ updater.answer # NoAnswer
    /\ LET a == updater.answer
       IN  roles' = IF a.of \notin present THEN roles
                    ELSE [roles EXCEPT ![a.of] = WithRole(@, IF a.groups THEN {"employee"} ELSE {})]
    /\ updater' = [updater EXCEPT !.answer = NoAnswer]
    /\ UNCHANGED <<commandVars, habboVars, present, queueing, listed, deeds>>

\* on_member_join goes by the updater's copy of the mapping.
Joins(m) ==
    /\ Deed /\ m \notin present /\ present' = present \cup {m}
    /\ LET n == updater.known[m]
       IN  roles' = [roles EXCEPT ![m] = IF n = NoName THEN {} ELSE {"verified"} \cup Earned(n)]
    /\ UNCHANGED <<commandVars, habboVars, queueing, listed, updater>>

Leaves(m) ==
    /\ Deed /\ m \in present /\ present' = present \ {m}
    /\ roles' = [roles EXCEPT ![m] = {}]
    /\ UNCHANGED <<commandVars, habboVars, queueing, listed, updater>>

\* External: a member puts the code in the motto; an account enters or leaves the group.
ShowsCode(m) ==
    /\ challenge[m] # NoChallenge /\ motto[challenge[m].name] # challenge[m].code
    /\ motto' = [motto EXCEPT ![challenge[m].name] = challenge[m].code]
    /\ UNCHANGED <<commandVars, inGroup, memberVars, listed, updater, deeds>>

GroupChanges(n) ==
    /\ Deed /\ inGroup' = [inGroup EXCEPT ![n] = ~@]
    /\ UNCHANGED <<commandVars, motto, memberVars, listed, updater>>

VerifyRestarts ==
    /\ Deed
    /\ jobs' = [c \in Commands |-> NoJob] /\ queueing' = {}
    /\ challenge' = [m \in People |-> NoChallenge]
    /\ request' = [q \in Requests |-> IF request[q].state = "none" THEN NoRequest
                                      ELSE [request[q] EXCEPT !.state = "closed"]]
    /\ updater' = [known |-> mapping, batch |-> {}, answer |-> NoAnswer]
    /\ UNCHANGED <<mapping, codes, habboVars, roles, present, listed>>

VerifyInit ==
    /\ mapping \in [People -> Names \cup {NoName}] /\ challenge = [m \in People |-> NoChallenge] /\ codes = 0
    /\ motto = [n \in Names |-> 0] /\ inGroup \in [Names -> BOOLEAN] /\ listed = [n \in Names |-> IF n \in DnhAtStart THEN "DNH" ELSE "none"]
    /\ roles = [m \in People |-> IF IsVerified(m) THEN {"verified"} ELSE {}] /\ present = People
    /\ jobs = [c \in Commands |-> NoJob] /\ queueing = {}
    /\ request = [q \in Requests |-> NoRequest]
    /\ updater = [known |-> mapping, batch |-> {}, answer |-> NoAnswer] /\ deeds = 0

VerifyNext ==
    \/ \E m \in People :
         \/ \E n \in Names : Verify(m, n) \/ ForceVerify(m, n) \/ \E q \in Requests : RequestChange(q, m, n)
         \/ \E onRules \in BOOLEAN : Reacts(m, onRules)
         \/ Expires(m) \/ Queues(m) \/ UpdaterFetches(m) \/ Joins(m) \/ Leaves(m) \/ ShowsCode(m)
    \/ \E c \in Commands : JobStep(c) \/ RolesRaise(c)
    \/ \E q \in Requests : ApproveRequest(q) \/ CloseRequest(q)
    \/ \E n \in Names : GroupChanges(n) \/ \E group \in {"DNH", "BoS", "none"} : ListName(n, group)
    \/ StartsBatch \/ UpdaterAssigns \/ VerifyRestarts

\* Commands under way go on; the loop starts its batches and goes through them.
VerifyFairness ==
    /\ WF_verifyVars(StartsBatch) /\ WF_verifyVars(UpdaterAssigns)
    /\ \A m \in People : WF_verifyVars(UpdaterFetches(m))
    /\ \A c \in Commands : WF_verifyVars(JobStep(c) \/ RolesRaise(c))

VerifySpec == VerifyInit /\ [][VerifyNext]_verifyVars /\ VerifyFairness

---------------------------------------------------------------------------

VerifyTypeOK ==
    /\ mapping \in [People -> Names \cup {NoName}] /\ updater.known \in [People -> Names \cup {NoName}]
    /\ \A m \in People : roles[m] \subseteq {"verified", "awaiting", "employee"}
    /\ codes \in 0 .. CodesMax /\ deeds \in 0 .. DeedsMax /\ present \subseteq People

\* An approval never overwrites a link that changed after the request was made, whichever
\* of forceverify and another approval changed it.
ApprovedFromSaved ==
    [][\A q \in Requests :
         jobs[<<"approve", q>>] = NoJob /\ jobs'[<<"approve", q>>] # NoJob
           => mapping[request[q].of] = request[q].from /\ mapping'[request[q].of] = request[q].to]_verifyVars

\* Once members and staff leave them alone, the role of every linked member who is in the
\* guild is the one that the account linked now has earned, whatever copy of the mapping a
\* batch began with.
RolesAgree == \A m \in present : IsVerified(m) => ("employee" \in roles[m] <=> inGroup[mapping[m]])
RolesSettle == <>[]RolesAgree
=============================================================================
