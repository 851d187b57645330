------------------------------ MODULE Sessions ------------------------------
(***************************************************************************)
(* Identities and browser sessions of the portal: portal/identity.py,      *)
(* portal/sessions.py (the SQLite store), the session handling of          *)
(* portal/web.py and the administration command portal/admin.py.           *)
(*                                                                         *)
(* One browser (one cookie, several tabs) is served by the event loop of   *)
(* the web process; administrators run the command in processes of their   *)
(* own, whose transactions fall anywhere.  Handlers interleave only where  *)
(* they await a form.                                                      *)
(*                                                                         *)
(* Sessions are numbered as they are issued.  `order' lists the stored     *)
(* ones by last_seen_at; the idle and the absolute limit are abstracted to *)
(* `expired'.  session_revision and row_version are always incremented     *)
(* together and start equal: one field `rev' stands for both.  The set of  *)
(* permissions stands for bot_ids too, which is edited the same way.       *)
(***************************************************************************)
EXTENDS Naturals, Sequences, FiniteSets, Filtering

CONSTANTS
    Ids,          \* identities
    Tabs,         \* tabs of the browser
    Operators,    \* shells running the administration command
    Passwords,    \* a wrong guess is one that is not the identity's
    Permissions,
    Commands,     \* the changes asked for: records [verb, arg]
    MaxSessions,  \* the store's limit
    MaxTokens,    \* bound on the sessions ever issued
    MaxEdits      \* bound on the changes of all identities

NoOne == "anonymous"
Verbs == {"password", "enable", "disable", "promote", "demote", "grant", "revoke"}

ASSUME SessionsAssumption ==
    /\ IsFiniteSet(Ids) /\ NoOne \notin Ids
    /\ MaxSessions \in Nat \ {0} /\ MaxTokens \in Nat /\ MaxEdits \in Nat
    /\ Commands \subseteq [verb : Verbs, arg : Passwords \cup Permissions]
    /\ \A c \in Commands : /\ c.verb = "password" => c.arg \in Passwords
                           /\ c.verb = "grant" => c.arg \in Permissions

VARIABLES
    ident,    \* the rows of portal_identities
    sess,     \* what was stored with each session issued
    order,    \* the rows of portal_sessions, least recently seen first
    issued,   \* sessions issued so far
    expired,  \* those past a limit
    cookie,   \* the browser's cookie, 0 if none
    tab,      \* the request of each tab and where it is suspended
    shell     \* the command of each operator between its read and its update

vars == <<ident, sess, order, issued, expired, cookie, tab, shell>>

Absent == [exists |-> FALSE, enabled |-> FALSE, admin |-> FALSE, perms |-> {},
           pw |-> NoOne, rev |-> 0]

\* `as' is a history field: the identity when its password was verified.
Session(who, rev, as) == [who |-> who, rev |-> rev, as |-> as]
Anonymous == Session(NoOne, 0, Absent)

\* page is the session of the tab's page, whose csrf token its forms carry.
NoRequest(page) == [pc |-> "idle", page |-> page, does |-> "view", token |-> 0,
                    csrf |-> 0, who |-> NoOne, pw |-> NoOne, as |-> Absent]
NoCommand == [busy |-> FALSE]

---------------------------------------------------------------------------
(* The store.                                                              *)

Stored == {order[k] : k \in 1 .. Len(order)}

Without(tokens) == Kept(order, Stored \ tokens)

TouchedTwice(t) == Append(order, t)   \* mutant
Touched(t) == Append(Without({t}), t)

\* get: an expired session is deleted, a live one touched.
Valid(t) == t # 0 /\ t \in Stored /\ t \notin expired
Got(t) == IF Valid(t) THEN Touched(t) ELSE Without({t})

\* create: the least recently seen row makes room.
Evicted(rows) == IF Len(rows) >= MaxSessions THEN Tail(rows) ELSE rows

\* create, after a rotation has deleted the token `old'.
Created(session, old) ==
    /\ issued < MaxTokens
    /\ issued' = issued + 1
    /\ sess' = [sess EXCEPT ![issued + 1] = session]
    /\ order' = Append(Evicted(Without(expired \cup {old})), issued + 1)

---------------------------------------------------------------------------
(* The web process.                                                        *)

\* No handler is between two transactions without an await.
LoopFree == \A t \in Tabs : tab[t].pc \notin {"read", "verified"}
Starts(t) == LoopFree /\ tab[t].pc = "idle"

\* GET /portal/login: without a valid session an anonymous one is created.
LoginPage(t) ==
    /\ Starts(t)
    /\ IF Valid(cookie)
       THEN /\ order' = Got(cookie)
            /\ tab' = [tab EXCEPT ![t].page = cookie]
            /\ UNCHANGED <<sess, issued, cookie>>
       ELSE /\ Created(Anonymous, cookie)
            /\ cookie' = issued + 1
            /\ tab' = [tab EXCEPT ![t].page = issued + 1]
    /\ UNCHANGED <<ident, expired, shell>>

\* The same page for a visitor with another browser.
Visitor ==
    /\ LoopFree
    /\ Created(Anonymous, 0)
    /\ UNCHANGED <<ident, expired, cookie, tab, shell>>

Asks(t, does) == [tab[t] EXCEPT !.does = does, !.token = cookie, !.csrf = tab[t].page]

\* POST /portal/login, up to the await of its form.
SubmitLogin(t, i, pw) ==
    /\ Starts(t)
    /\ order' = Got(cookie)
    /\ tab' = IF Valid(cookie)
              THEN [tab EXCEPT ![t] = [Asks(t, "login") EXCEPT !.pc = "form",
                                                             !.who = i, !.pw = pw]]
              ELSE tab
    /\ UNCHANGED <<ident, sess, issued, expired, cookie, shell>>

\* A protected request: actor_for reads the session ...
Request(t, does) ==
    /\ Starts(t)
    /\ order' = Got(cookie)
    /\ tab' = IF Valid(cookie) /\ sess[cookie].who # NoOne
              THEN [tab EXCEPT ![t] = [Asks(t, does) EXCEPT
                                          !.pc = "read", !.who = sess[cookie].who]]
              ELSE tab
    /\ UNCHANGED <<ident, sess, issued, expired, cookie, shell>>

HonouredIfEnabled(t) == ident[tab[t].who].enabled   \* mutant
Honoured(t) ==
    /\ ident[tab[t].who].enabled
    /\ sess[tab[t].token].rev = ident[tab[t].who].rev

\* ... and then the identity; a page is answered, a mutation awaits its form
\* with the principal of this moment.
Enter(t) ==
    /\ tab[t].pc = "read"
    /\ Honoured(t)
    /\ tab' = [tab EXCEPT ![t].pc = "entered", ![t].as = ident[tab[t].who]]
    /\ UNCHANGED <<ident, sess, order, issued, expired, cookie, shell>>

TurnAway(t) ==
    /\ tab[t].pc = "read"
    /\ ~Honoured(t)
    /\ order' = Without({tab[t].token})
    /\ tab' = [tab EXCEPT ![t] = NoRequest(tab[t].page)]
    /\ UNCHANGED <<ident, sess, issued, expired, cookie, shell>>

\* The form has arrived and carries the session's csrf token, or is refused; the
\* operation runs with the principal read before the await.
CsrfOK(t) == tab[t].csrf = tab[t].token

Answer(t) ==
    /\ LoopFree
    /\ tab[t].pc = "entered"
    /\ CASE tab[t].does = "view" ->
              /\ tab' = [tab EXCEPT ![t] = NoRequest(tab[t].token)]
              /\ UNCHANGED <<order, cookie>>
         [] tab[t].does = "logout" /\ CsrfOK(t) ->
              /\ tab' = [tab EXCEPT ![t] = NoRequest(0)]
              /\ order' = Without({tab[t].token})
              /\ cookie' = 0
         [] OTHER ->
              /\ tab' = [tab EXCEPT ![t] = NoRequest(tab[t].page)]
              /\ UNCHANGED <<order, cookie>>
    /\ UNCHANGED <<ident, sess, issued, expired, shell>>

\* The form of a login is refused: csrf, the rate limit or the credentials.
LoginFails(t) ==
    /\ LoopFree
    /\ tab[t].pc = "form"
    /\ tab' = [tab EXCEPT ![t] = NoRequest(tab[t].page)]
    /\ UNCHANGED <<ident, sess, order, issued, expired, cookie, shell>>

\* authenticate: the row is read, then the password is hashed and compared.
LoginVerifies(t) ==
    LET i == tab[t].who IN
    /\ LoopFree
    /\ tab[t].pc = "form"
    /\ CsrfOK(t)
    /\ ident[i].exists /\ ident[i].enabled /\ ident[i].pw = tab[t].pw
    /\ tab' = [tab EXCEPT ![t].pc = "verified", ![t].as = ident[i]]
    /\ UNCHANGED <<ident, sess, order, issued, expired, cookie, shell>>

\* rotate: the session gets the revision of the identity as it was read.
LoginRotates(t) ==
    /\ tab[t].pc = "verified"
    /\ Created(Session(tab[t].who, tab[t].as.rev, tab[t].as), tab[t].token)
    /\ cookie' = issued + 1
    /\ tab' = [tab EXCEPT ![t] = NoRequest(tab[t].page)]
    /\ UNCHANGED <<ident, expired, shell>>

Expires ==
    \E t \in Stored \ expired :
        /\ expired' = expired \cup {t}
        /\ UNCHANGED <<ident, sess, order, issued, cookie, tab, shell>>

---------------------------------------------------------------------------
(* The administration command.                                             *)

\* identities create, or the bootstrap command.
CreateIdentity(i, admin, perms) ==
    /\ ~ident[i].exists
    /\ \E pw \in Passwords :
        ident' = [ident EXCEPT ![i] = [exists |-> TRUE, enabled |-> TRUE, admin |-> admin,
                                       perms |-> perms, pw |-> pw, rev |-> 0]]
    /\ UNCHANGED <<sess, order, issued, expired, cookie, tab, shell>>

\* The command reads the identity; a password is then typed twice.  What is to be
\* changed plays no part before the update and is chosen there.
CommandReads(o, i) ==
    /\ ~shell[o].busy
    /\ ident[i].exists
    /\ shell' = [shell EXCEPT ![o] = [busy |-> TRUE, id |-> i,
                                      perms |-> ident[i].perms, rev |-> ident[i].rev]]
    /\ UNCHANGED <<ident, sess, order, issued, expired, cookie, tab>>

\* The row admin_update writes; the permissions were computed from what was read.
Edited(row, cmd, perms) ==
    LET e == [row EXCEPT !.rev = @ + 1] IN
    CASE cmd.verb = "password" -> [e EXCEPT !.pw = cmd.arg]
      [] cmd.verb = "enable"   -> [e EXCEPT !.enabled = TRUE]
      [] cmd.verb = "disable"  -> [e EXCEPT !.enabled = FALSE]
      [] cmd.verb = "promote"  -> [e EXCEPT !.admin = TRUE]
      [] cmd.verb = "demote"   -> [e EXCEPT !.admin = FALSE]
      [] cmd.verb = "grant"    -> [e EXCEPT !.perms = perms \cup {cmd.arg}]
      [] cmd.verb = "revoke"   -> [e EXCEPT !.perms = perms \ {cmd.arg}]

Administrators == {i \in Ids : ident[i].exists /\ ident[i].enabled /\ ident[i].admin}

LastAdminOffByOne(i, cmd) ==   \* mutant
    cmd.verb \in {"disable", "demote"} /\ ident[i].admin /\ Cardinality(Administrators) < 1
LastAdmin(i, cmd) ==
    cmd.verb \in {"disable", "demote"} /\ ident[i].admin /\ Cardinality(Administrators) <= 1

AnyVersion(o) == TRUE   \* mutant
Unmodified(o) == ident[shell[o].id].rev = shell[o].rev

\* The changes made so far, one by one.
Edits == Cardinality({e \in Ids \X (1 .. MaxEdits) : e[2] <= ident[e[1]].rev})

\* admin_update: one transaction, which also deletes the identity's sessions.
CommandUpdates(o, cmd) ==
    LET s == shell[o] IN
    /\ s.busy
    /\ Unmodified(o) /\ ~LastAdmin(s.id, cmd)
    /\ Edits < MaxEdits
    /\ ident' = [ident EXCEPT ![s.id] = Edited(@, cmd, s.perms)]
    /\ order' = Without({t \in Stored : sess[t].who = s.id})
    /\ shell' = [shell EXCEPT ![o] = NoCommand]
    /\ UNCHANGED <<sess, issued, expired, cookie, tab>>

CommandFails(o, cmd) ==
    /\ shell[o].busy
    /\ ~Unmodified(o) \/ LastAdmin(shell[o].id, cmd)
    /\ shell' = [shell EXCEPT ![o] = NoCommand]
    /\ UNCHANGED <<ident, sess, order, issued, expired, cookie, tab>>

---------------------------------------------------------------------------
Init ==
    /\ ident = [i \in Ids |-> Absent]
    /\ sess = [t \in 1 .. MaxTokens |-> Anonymous]
    /\ order = <<>>
    /\ issued = 0
    /\ expired = {}
    /\ cookie = 0
    /\ tab = [t \in Tabs |-> NoRequest(0)]
    /\ shell = [o \in Operators |-> NoCommand]

Handler(t) ==
    \/ LoginPage(t)
    \/ \E i \in Ids, pw \in Passwords : SubmitLogin(t, i, pw)
    \/ \E does \in {"view", "mutate", "logout"} : Request(t, does)
    \/ Enter(t) \/ TurnAway(t) \/ Answer(t)
    \/ LoginFails(t) \/ LoginVerifies(t) \/ LoginRotates(t)

Administration ==
    \/ \E i \in Ids : \/ CreateIdentity(i, TRUE, {})
                     \/ CreateIdentity(i, FALSE, {})
                     \/ CreateIdentity(i, FALSE, Permissions)
    \/ \E o \in Operators : \/ \E i \in Ids : CommandReads(o, i)
                            \/ \E c \in Commands : CommandUpdates(o, c) \/ CommandFails(o, c)

Next == (\E t \in Tabs : Handler(t)) \/ Visitor \/ Expires \/ Administration

Spec == Init /\ [][Next]_vars

---------------------------------------------------------------------------
(* Properties.                                                             *)

Identity == [exists : BOOLEAN, enabled : BOOLEAN, admin : BOOLEAN,
             perms : SUBSET Permissions, pw : Passwords \cup {NoOne}, rev : 0 .. MaxEdits]
Tokens == 0 .. MaxTokens

\* Every variable has its type, and no session is stored twice.
TypeOK ==
    /\ ident \in [Ids -> Identity]
    /\ sess \in [1 .. MaxTokens -> [who : Ids \cup {NoOne}, rev : 0 .. MaxEdits, as : Identity]]
    /\ order \in Seq(1 .. MaxTokens) /\ Cardinality(Stored) = Len(order)
    /\ issued \in Tokens
    /\ expired \subseteq 1 .. MaxTokens
    /\ cookie \in Tokens
    /\ tab \in [Tabs -> [pc : {"idle", "form", "read", "entered", "verified"},
                         page : Tokens, does : {"view", "mutate", "logout", "login"},
                         token : Tokens, csrf : Tokens, who : Ids \cup {NoOne},
                         pw : Passwords \cup {NoOne}, as : Identity]]
    /\ shell \in [Operators -> {NoCommand} \cup
                    [busy : {TRUE}, id : Ids,
                     perms : SUBSET Permissions, rev : 0 .. MaxEdits]]

\* "They do not survive password, enabled, permission, administrator, or
\* bot-restriction changes": a request is let in only if its identity is exactly as
\* it was when the password of that session was verified, also when the change
\* falls between the verification and the rotation, or between actor_for's reads.
AcceptedIsCurrent ==
    [][\A t \in Tabs : tab[t].pc = "read" /\ tab'[t].pc = "entered"
          => /\ ident[tab[t].who] = sess[tab[t].token].as
             /\ ident[tab[t].who].enabled]_vars

\* "The last enabled administrator cannot be disabled or demoted", by whatever
\* commands run at the same time.
AdministratorRemains ==
    [][Administrators # {} => Administrators' # {}]_vars

\* "Optimistic row versions reject stale writes": a command changes the one thing it
\* names, and never takes back what another one changed after it read the identity.
EditIsExact ==
    [][\A o \in Operators :
          LET s == shell[o] IN
          s.busy /\ ~shell'[o].busy /\ ident' # ident =>
              /\ \E c \in Commands :
                    ident'[s.id] = Edited(ident[s.id], c, ident[s.id].perms)
              /\ \A i \in Ids \ {s.id} : ident'[i] = ident[i]]_vars
=============================================================================
