------------------------------ MODULE CdaVerify -----------------------------
(***************************************************************************)
(* cda-admin's verified members: the verified_users of server.json and the *)
(* copies two cogs keep of them (ServerVerify.py, RoleUpdater.py), its     *)
(* other writers (NameChange.py, ServerUnVerify.py), the codes, and the    *)
(* roles that follow the Habbo groups.  A command runs to its next await   *)
(* at once.  Whether a motto holds the code and which groups a name has is *)
(* Habbo's, so the environment's; all of it is bounded by CdaDeeds.        *)
(***************************************************************************)
EXTENDS Naturals, Sequences, SequencesExt, Filtering

CONSTANTS
    CdaMembers,   \* members of the guild
    CdaNames,     \* Habbo names
    CdaAttempts,  \* /verify commands under way at a time
    CdaDeeds      \* bound on commands, changes of groups, failures, joins and restarts

ASSUME CdaAssumption == CdaDeeds \in Nat

VARIABLES
    cdaFile,     \* verified_users of server.json: [user, name]
    cdaKnown,    \* server_data of the cog "verify" and of the cog "updater"
    cdaShared,   \* the two cogs hold one object, as a name change leaves them
    cdaCodes,    \* verification_data: the name of the code each member has, or None
    attempt,     \* each /verify: [at, user, name]
    nameAsked,   \* the name-change requests that wait for a button: [user, name]
    cdaRoles,    \* the roles of each member who is in the guild, or Gone
    groupOf,     \* the highest employee group of each name, or None
    pass,        \* update_roles_task and on_member_join: [at, left, user, add, remove]
    granted,     \* history: the name of the last success or approval since a reset
    cdaDeeds

cdaVars == <<cdaFile, cdaKnown, cdaShared, cdaCodes, attempt, nameAsked, cdaRoles, groupOf, pass,
             granted, cdaDeeds>>

None == "none"
Gone == {"gone"}
Groups == {"low", "high"}   \* an employee group and its role have one name here
Cogs == {"verify", "updater"}
NoAttempt == [at |-> "no", user |-> None, name |-> None]
NoPass == [at |-> "no", left |-> <<>>, user |-> None, add |-> {}, remove |-> {}]
CdaDeed == cdaDeeds < CdaDeeds /\ cdaDeeds' = cdaDeeds + 1

Lists(list, u) == \E e \in Range(list) : e.user = u
FirstOf(list, u) ==
    CHOOSE i \in DOMAIN list : list[i].user = u /\ \A j \in 1 .. i - 1 : list[j].user # u
\* The cog "verify" appends to its list, which is the updater's too once they are shared.
Appends(e) ==
    cdaKnown' = [c \in Cogs |-> IF c = "verify" \/ cdaShared THEN Append(cdaKnown[c], e) ELSE cdaKnown[c]]

---------------------------------------------------------------------------
\* ServerVerify.py

\* A code is drawn and saved, and the member is told of it.
IssuesCode(u, n) == cdaCodes' = [cdaCodes EXCEPT ![u] = n]

\* /verify: nothing for those listed or for another name than the code's; a profile is
\* fetched where a code waits, and otherwise a code is given.
CdaVerifies(s, u, n) ==
    /\ CdaDeed /\ attempt[s].at = "no" /\ cdaRoles[u] # Gone
    /\ ~Lists(cdaKnown["verify"], u) /\ cdaCodes[u] \in {None, n}
    /\ IF cdaCodes[u] = n
       THEN attempt' = [attempt EXCEPT ![s] = [at |-> "fetch", user |-> u, name |-> n]] /\ UNCHANGED cdaCodes
       ELSE IssuesCode(u, n) /\ UNCHANGED attempt
    /\ UNCHANGED <<cdaFile, cdaKnown, cdaShared, nameAsked, cdaRoles, groupOf, pass, granted>>

\* The motto lacks the code.
VerifyUnproven(s) ==
    /\ attempt[s].at = "fetch" /\ attempt' = [attempt EXCEPT ![s] = NoAttempt]
    /\ UNCHANGED <<cdaFile, cdaKnown, cdaShared, cdaCodes, nameAsked, cdaRoles, groupOf, pass, granted, cdaDeeds>>

\* Habbo answers with another status than 200: the command goes on to give a new code.
VerifyUnanswered(s) ==
    /\ CdaDeed /\ attempt[s].at = "fetch" /\ IssuesCode(attempt[s].user, attempt[s].name)
    /\ attempt' = [attempt EXCEPT ![s] = NoAttempt]
    /\ UNCHANGED <<cdaFile, cdaKnown, cdaShared, nameAsked, cdaRoles, groupOf, pass, granted>>

\* The motto has it: the entry is appended; where the code is gone meanwhile, the command
\* ends there (KeyError), before anything is saved.
VerifyProven(s) ==
    /\ attempt[s].at = "fetch"
    /\ LET u == attempt[s].user
           e == [user |-> u, name |-> attempt[s].name]
       IN  /\ Appends(e)
           /\ IF cdaCodes[u] = None
              THEN attempt' = [attempt EXCEPT ![s] = NoAttempt] /\ UNCHANGED <<cdaFile, cdaCodes, granted>>
              ELSE /\ cdaCodes' = [cdaCodes EXCEPT ![u] = None]
                   /\ cdaFile' = cdaKnown'["verify"]
                   /\ granted' = [granted EXCEPT ![u] = e.name]
                   /\ attempt' = [attempt EXCEPT ![s].at = "roles"]
           \* The pass may be under way over the list that gains the entry.
           /\ pass' \in {pass, IF cdaShared /\ pass["task"].at # "no"
                              THEN [pass EXCEPT !["task"].left = Append(@, e)] ELSE pass}
    /\ UNCHANGED <<cdaShared, nameAsked, cdaRoles, groupOf, cdaDeeds>>

\* Its roles: Verified for Awaiting, then each employee role off and the highest on.
VerifyRoles(s) ==
    /\ attempt[s].at = "roles" /\ attempt' = [attempt EXCEPT ![s] = NoAttempt]
    /\ LET u == attempt[s].user
           swapped == (cdaRoles[u] \ {"awaiting"}) \cup {"verified"}
       IN  IF cdaRoles[u] = Gone THEN UNCHANGED cdaRoles
           ELSE \/ cdaRoles' = [cdaRoles EXCEPT ![u] =
                                  (swapped \ Groups) \cup ({groupOf[attempt[s].name]} \ {None})]
                \/ cdaRoles' = [cdaRoles EXCEPT ![u] = swapped]   \* no answer from Habbo
    /\ UNCHANGED <<cdaFile, cdaKnown, cdaShared, cdaCodes, nameAsked, groupOf, pass, granted, cdaDeeds>>

\* cleanup_task: codes older than ten minutes.
CodeExpires(u) ==
    /\ cdaCodes[u] # None /\ cdaCodes' = [cdaCodes EXCEPT ![u] = None]
    /\ UNCHANGED <<cdaFile, cdaKnown, cdaShared, attempt, nameAsked, cdaRoles, groupOf, pass, granted, cdaDeeds>>

---------------------------------------------------------------------------
\* NameChange.py, ServerUnVerify.py

AsksName(u, n) ==
    /\ CdaDeed /\ Lists(cdaFile, u) /\ nameAsked' = nameAsked \cup {[user |-> u, name |-> n]}
    /\ UNCHANGED <<cdaFile, cdaKnown, cdaShared, cdaCodes, attempt, cdaRoles, groupOf, pass, granted>>

SyncsNothing(list) == UNCHANGED <<cdaKnown, cdaShared>>   \* mutant
\* sync_server_data: the list that was saved becomes each cog's.
Syncs(list) == cdaKnown' = [c \in Cogs |-> list] /\ cdaShared' = TRUE

\* The first entry of u gets the name, or one is added.
Renamed(list, u, n) ==
    IF Lists(list, u) THEN [list EXCEPT ![FirstOf(list, u)].name = n]
    ELSE Append(list, [user |-> u, name |-> n])

\* Approve: read, changed, saved and synced without an await in between.  Another press of
\* the button may be under way, and does the same later.
ApprovesName(r) ==
    /\ r \in nameAsked
    /\ \/ nameAsked' = nameAsked \ {r} /\ UNCHANGED cdaDeeds
       \/ CdaDeed /\ UNCHANGED nameAsked
    /\ cdaFile' = Renamed(cdaFile, r.user, r.name) /\ Syncs(cdaFile')
    /\ granted' = [granted EXCEPT ![r.user] = r.name]
    /\ UNCHANGED <<cdaCodes, attempt, cdaRoles, groupOf, pass>>

RejectsName(r) ==
    /\ r \in nameAsked /\ nameAsked' = nameAsked \ {r}
    /\ UNCHANGED <<cdaFile, cdaKnown, cdaShared, cdaCodes, attempt, cdaRoles, groupOf, pass, granted, cdaDeeds>>

\* /va reset: the file only; the roles where an entry was removed.
ResetsVerification(u) ==
    /\ CdaDeed /\ cdaRoles[u] # Gone
    /\ cdaFile' = Kept(cdaFile, {e \in Range(cdaFile) : e.user # u})
    /\ granted' = [granted EXCEPT ![u] = None]
    /\ cdaRoles' = IF Lists(cdaFile, u)
                   THEN [cdaRoles EXCEPT ![u] = (@ \ {"verified"}) \cup {"awaiting"}] ELSE cdaRoles
    /\ UNCHANGED <<cdaKnown, cdaShared, cdaCodes, attempt, nameAsked, groupOf, pass>>

---------------------------------------------------------------------------
\* RoleUpdater.py

\* on_member_join: the listed are renamed and made Verified, then get their groups' roles.
JoinsGuild(u) ==
    /\ CdaDeed /\ cdaRoles[u] = Gone
    /\ IF Lists(cdaKnown["updater"], u) /\ pass["join"].at = "no"
       THEN /\ cdaRoles' = [cdaRoles EXCEPT ![u] = {"verified"}]
            /\ pass' = [pass EXCEPT !["join"] =
                          [NoPass EXCEPT !.at = "fetch", !.user = u,
                                         !.left = <<cdaKnown["updater"][FirstOf(cdaKnown["updater"], u)]>>]]
       ELSE cdaRoles' = [cdaRoles EXCEPT ![u] = {"awaiting"}] /\ UNCHANGED pass
    /\ UNCHANGED <<cdaFile, cdaKnown, cdaShared, cdaCodes, attempt, nameAsked, groupOf, granted>>

LeavesGuild(u) ==
    /\ CdaDeed /\ cdaRoles[u] # Gone /\ cdaRoles' = [cdaRoles EXCEPT ![u] = Gone]
    /\ UNCHANGED <<cdaFile, cdaKnown, cdaShared, cdaCodes, attempt, nameAsked, groupOf, pass, granted>>

\* update_roles_task, each ten minutes, over the list the cog has.
PassBegins ==
    /\ pass["task"].at = "no" /\ cdaKnown["updater"] # <<>>
    /\ pass' = [pass EXCEPT !["task"] = [NoPass EXCEPT !.at = "next", !.left = cdaKnown["updater"]]]
    /\ UNCHANGED <<cdaFile, cdaKnown, cdaShared, cdaCodes, attempt, nameAsked, cdaRoles, groupOf, granted, cdaDeeds>>

\* The next entry; one whose member is not in the guild is skipped.
PassNext ==
    /\ pass["task"].at = "next"
    /\ LET left == pass["task"].left
       IN  pass' = [pass EXCEPT !["task"] =
                      IF left = <<>> THEN NoPass
                      ELSE IF cdaRoles[Head(left).user] = Gone THEN [@ EXCEPT !.left = Tail(left)]
                      ELSE [@ EXCEPT !.at = "fetch", !.user = Head(left).user]]
    /\ UNCHANGED <<cdaFile, cdaKnown, cdaShared, cdaCodes, attempt, nameAsked, cdaRoles, groupOf, granted, cdaDeeds>>

Onward(p) == IF pass[p].left = <<>> \/ p = "join" THEN NoPass
             ELSE [NoPass EXCEPT !.at = "next", !.left = Tail(pass[p].left)]

\* No profile or groups after the retries: the entry waits for the next pass.
PassUnanswered(p) ==
    /\ CdaDeed /\ pass[p].at = "fetch" /\ pass' = [pass EXCEPT ![p] = Onward(p)]
    /\ UNCHANGED <<cdaFile, cdaKnown, cdaShared, cdaCodes, attempt, nameAsked, cdaRoles, groupOf, granted>>

AddsNone(u, n) == {groupOf[n]} \ cdaRoles[u]   \* mutant
\* The role the groups of name n give, where there is one.
RolesToAdd(u, n) == {groupOf[n]} \ ({None} \cup cdaRoles[u])
NeverRemoves(u, n) == {}   \* mutant
\* The employee roles the groups of name n do not give.
RolesToRemove(u, n) == (cdaRoles[u] \cap Groups) \ {groupOf[n]}

\* assign_roles: the differences to the roles the member has now.
PassCompares(p) ==
    /\ pass[p].at = "fetch"
    /\ LET u == pass[p].user
           n == Head(pass[p].left).name
           add == RolesToAdd(u, n)
           remove == RolesToRemove(u, n)
       IN  pass' = [pass EXCEPT ![p] = IF cdaRoles[u] = Gone \/ (add = {} /\ remove = {}) THEN Onward(p)
                                       ELSE [@ EXCEPT !.at = "assign", !.add = add, !.remove = remove]]
    /\ UNCHANGED <<cdaFile, cdaKnown, cdaShared, cdaCodes, attempt, nameAsked, cdaRoles, groupOf, granted, cdaDeeds>>

\* Each role is one request; those added come first.  Who has left takes none.
PassAssigns(p) ==
    /\ pass[p].at = "assign"
    /\ LET u == pass[p].user
       IN  cdaRoles' = IF cdaRoles[u] = Gone THEN cdaRoles
                       ELSE [cdaRoles EXCEPT ![u] = IF pass[p].add # {} THEN @ \cup pass[p].add
                                                   ELSE @ \ pass[p].remove]
    /\ pass' = [pass EXCEPT ![p] = IF @.add # {} /\ @.remove # {} /\ cdaRoles[@.user] # Gone
                                   THEN [@ EXCEPT !.add = {}] ELSE Onward(p)]
    /\ UNCHANGED <<cdaFile, cdaKnown, cdaShared, cdaCodes, attempt, nameAsked, groupOf, granted, cdaDeeds>>

---------------------------------------------------------------------------
\* Habbo moves a name to another group.
CdaGroupChanges(n, g) ==
    /\ CdaDeed /\ g # groupOf[n] /\ groupOf' = [groupOf EXCEPT ![n] = g]
    /\ UNCHANGED <<cdaFile, cdaKnown, cdaShared, cdaCodes, attempt, nameAsked, cdaRoles, pass, granted>>

\* The process starts again: each cog reads the file for itself; no button has a view.
CdaRestarts ==
    /\ CdaDeed
    /\ cdaKnown' = [c \in Cogs |-> cdaFile] /\ cdaShared' = FALSE
    /\ attempt' = [s \in CdaAttempts |-> NoAttempt] /\ nameAsked' = {}
    /\ pass' = [p \in {"task", "join"} |-> NoPass]
    /\ UNCHANGED <<cdaFile, cdaCodes, cdaRoles, groupOf, granted>>

CdaInit ==
    /\ cdaFile \in {<<>>} \cup {<<[user |-> u, name |-> n]>> : u \in CdaMembers, n \in CdaNames}
    /\ cdaKnown = [c \in Cogs |-> cdaFile] /\ cdaShared = FALSE
    /\ cdaCodes = [u \in CdaMembers |-> None] /\ attempt = [s \in CdaAttempts |-> NoAttempt]
    /\ nameAsked = {}
    /\ cdaRoles = [u \in CdaMembers |-> IF Lists(cdaFile, u) THEN {"verified"} ELSE {"awaiting"}]
    /\ groupOf \in [CdaNames -> {None, "low"}] /\ pass = [p \in {"task", "join"} |-> NoPass]
    /\ granted = [u \in CdaMembers |-> None] /\ cdaDeeds = 0

CdaNext ==
    \/ \E u \in CdaMembers :
         \/ \E n \in CdaNames : (\E s \in CdaAttempts : CdaVerifies(s, u, n)) \/ AsksName(u, n)
         \/ CodeExpires(u) \/ ResetsVerification(u) \/ JoinsGuild(u) \/ LeavesGuild(u)
    \/ \E s \in CdaAttempts : VerifyUnproven(s) \/ VerifyUnanswered(s) \/ VerifyProven(s) \/ VerifyRoles(s)
    \/ \E r \in nameAsked : ApprovesName(r) \/ RejectsName(r)
    \/ PassBegins \/ PassNext
    \/ \E p \in {"task", "join"} : PassUnanswered(p) \/ PassCompares(p) \/ PassAssigns(p)
    \/ \E n \in CdaNames, g \in Groups : CdaGroupChanges(n, g)
    \/ CdaRestarts

CdaFairness ==
    /\ WF_cdaVars(PassBegins) /\ WF_cdaVars(PassNext)
    /\ \A p \in {"task", "join"} : WF_cdaVars(PassCompares(p)) /\ WF_cdaVars(PassAssigns(p))
    /\ \A s \in CdaAttempts : WF_cdaVars(VerifyRoles(s))

CdaSpec == CdaInit /\ [][CdaNext]_cdaVars /\ CdaFairness

---------------------------------------------------------------------------

CdaTypeOK ==
    /\ cdaDeeds \in 0 .. CdaDeeds /\ cdaCodes \in [CdaMembers -> CdaNames \cup {None}]
    /\ \A u \in CdaMembers : cdaRoles[u] = Gone \/ cdaRoles[u] \subseteq Groups \cup {"awaiting", "verified"}
    /\ \A e \in Range(cdaFile) : e.user \in CdaMembers /\ e.name \in CdaNames

\* What /verify reported or an administrator approved stays in server.json until a reset,
\* although three writers replace the whole file, one of them from a copy of its own.
GrantedIsKept ==
    \A u \in CdaMembers : granted[u] # None => [user |-> u, name |-> granted[u]] \in Range(cdaFile)

\* The employee role of a member with one name in the updater's list.
Settled(u) ==
    \A e \in Range(cdaKnown["updater"]) :
        (e.user = u /\ cdaRoles[u] # Gone /\ \A f \in Range(cdaKnown["updater"]) : f.user = u => f = e)
            => cdaRoles[u] \cap Groups = {groupOf[e.name]} \ {None}
\* Once groups, members and commands are at rest, the passes bring everyone of the list to
\* the roles of their groups, whatever a join or a /verify assigned at the same time.
RolesFollowGroups == <>[](\A u \in CdaMembers : Settled(u))
=============================================================================
