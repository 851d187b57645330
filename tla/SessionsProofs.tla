--------------------------- MODULE SessionsProofs ---------------------------
(***************************************************************************)
(* Proofs about Sessions, for any numbers of identities, tabs, operators,  *)
(* sessions and changes.                                                   *)
(*                                                                         *)
(* The argument: what was read of an identity (for a session, a login or a *)
(* command) was its row then, rows never get an old revision again, so as  *)
(* long as the revisions agree the whole rows do.                          *)
(***************************************************************************)
EXTENDS Sessions, Functions, FiniteSetTheorems, TLAPS

Row == [exists : BOOLEAN, enabled : BOOLEAN, admin : BOOLEAN,
        perms : SUBSET Permissions, pw : Passwords \cup {NoOne}, rev : Nat]
SessRecord == [who : Ids \cup {NoOne}, rev : Nat, as : Row]
TabRecord == [pc : {"idle", "form", "read", "entered", "verified"}, page : Nat,
              does : {"view", "mutate", "logout", "login"}, token : Nat, csrf : Nat,
              who : Ids \cup {NoOne}, pw : Passwords \cup {NoOne}, as : Row]

\* The types the argument needs.
RowsTyped == ident \in [Ids -> Row]

\* row is what identity i was at some time.
Snapshot(i, row) ==
    /\ i \in Ids /\ ident[i].exists
    /\ row.rev <= ident[i].rev
    /\ row.rev = ident[i].rev => row = ident[i]

SessionSnap(s) == s.who # NoOne => Snapshot(s.who, s.as) /\ s.rev = s.as.rev

TabSnap(r) ==
    /\ r.pc = "form" => r.who \in Ids
    /\ r.pc = "verified" => Snapshot(r.who, r.as)
    /\ r.pc = "read" => /\ r.token \in 1 .. MaxTokens
                        /\ r.who # NoOne /\ sess[r.token].who = r.who

\* What a command read of its identity.
ShellSnap(s) ==
    s.busy => /\ s.id \in Ids /\ s.perms \subseteq Permissions /\ s.rev \in Nat
              /\ s.rev <= ident[s.id].rev
              /\ s.rev = ident[s.id].rev => s.perms = ident[s.id].perms
              /\ ident[s.id].exists

SessOK ==
    /\ issued \in 0 .. MaxTokens
    /\ sess \in [1 .. MaxTokens -> SessRecord]
    /\ \A t \in 1 .. MaxTokens : /\ SessionSnap(sess[t])
                                 /\ t > issued => sess[t].who = NoOne
TabsOK == tab \in [Tabs -> TabRecord] /\ \A t \in Tabs : TabSnap(tab[t])
ShellOK == DOMAIN shell = Operators /\ \A o \in Operators : ShellSnap(shell[o])

IInv == RowsTyped /\ SessOK /\ cookie \in 0 .. MaxTokens /\ TabsOK /\ ShellOK

---------------------------------------------------------------------------
(* Rows.                                                                   *)

\* An existing row changes only together with its revision.
Grows ==
    \A i \in Ids : \/ ident'[i] = ident[i]
                   \/ ~ident[i].exists /\ ident'[i].exists
                   \/ /\ ident[i].exists /\ ident'[i].exists
                      /\ ident'[i].rev > ident[i].rev

\* An edit gives a row again, one revision on (identity.py:220-228).
LEMMA EditedRow ==
    ASSUME NEW row \in Row, NEW cmd \in Commands, NEW perms \in SUBSET Permissions
    PROVE  /\ Edited(row, cmd, perms) \in Row
           /\ Edited(row, cmd, perms).rev = row.rev + 1
           /\ Edited(row, cmd, perms).exists = row.exists
<1> DEFINE e == [row EXCEPT !.rev = @ + 1]
<1>1. e \in Row /\ e.rev = row.rev + 1 /\ e.exists = row.exists  BY DEF Row
<1>2. /\ cmd.verb = "password" => cmd.arg \in Passwords
      /\ cmd.verb = "grant" => cmd.arg \in Permissions
  BY SessionsAssumption
<1>v. cmd.verb \in Verbs
  BY SessionsAssumption
<1>3. Edited(row, cmd, perms) =
        CASE cmd.verb = "password" -> [e EXCEPT !.pw = cmd.arg]
          [] cmd.verb = "enable"   -> [e EXCEPT !.enabled = TRUE]
          [] cmd.verb = "disable"  -> [e EXCEPT !.enabled = FALSE]
          [] cmd.verb = "promote"  -> [e EXCEPT !.admin = TRUE]
          [] cmd.verb = "demote"   -> [e EXCEPT !.admin = FALSE]
          [] cmd.verb = "grant"    -> [e EXCEPT !.perms = perms \cup {cmd.arg}]
          [] cmd.verb = "revoke"   -> [e EXCEPT !.perms = perms \ {cmd.arg}]
  BY DEF Edited
<1> HIDE DEF e
<1>4. CASE cmd.verb = "password"
  <2>1. Edited(row, cmd, perms) = [e EXCEPT !.pw = cmd.arg]  BY <1>3, <1>4
  <2>2. QED  BY <1>1, <2>1, <1>2, <1>4 DEF Row
<1>5. CASE cmd.verb = "enable"
  <2>1. Edited(row, cmd, perms) = [e EXCEPT !.enabled = TRUE]  BY <1>3, <1>5
  <2>2. QED  BY <1>1, <2>1 DEF Row
<1>6. CASE cmd.verb = "disable"
  <2>1. Edited(row, cmd, perms) = [e EXCEPT !.enabled = FALSE]  BY <1>3, <1>6
  <2>2. QED  BY <1>1, <2>1 DEF Row
<1>7. CASE cmd.verb = "promote"
  <2>1. Edited(row, cmd, perms) = [e EXCEPT !.admin = TRUE]  BY <1>3, <1>7
  <2>2. QED  BY <1>1, <2>1 DEF Row
<1>8. CASE cmd.verb = "demote"
  <2>1. Edited(row, cmd, perms) = [e EXCEPT !.admin = FALSE]  BY <1>3, <1>8
  <2>2. QED  BY <1>1, <2>1 DEF Row
<1>9. CASE cmd.verb = "grant"
  <2>1. Edited(row, cmd, perms) = [e EXCEPT !.perms = perms \cup {cmd.arg}]  BY <1>3, <1>9
  <2>2. QED  BY <1>1, <2>1, <1>2, <1>9 DEF Row
<1>10. CASE cmd.verb = "revoke"
  <2>1. Edited(row, cmd, perms) = [e EXCEPT !.perms = perms \ {cmd.arg}]  BY <1>3, <1>10
  <2>2. QED  BY <1>1, <2>1 DEF Row
<1>q. QED  BY <1>v, <1>4, <1>5, <1>6, <1>7, <1>8, <1>9, <1>10 DEF Verbs

\* What was read of an identity once stays a snapshot of it, whatever is written.
LEMMA SnapshotStays ==
    ASSUME RowsTyped, RowsTyped', Grows, NEW i, NEW row \in Row, Snapshot(i, row)
    PROVE  Snapshot(i, row)'
<1>1. i \in Ids /\ ident[i] \in Row /\ ident'[i] \in Row
  BY DEF Snapshot, RowsTyped
<1>2. ident[i].rev \in Nat /\ ident'[i].rev \in Nat /\ row.rev \in Nat
  BY <1>1 DEF Row
<1>3. QED  BY <1>1, <1>2 DEF Snapshot, Grows

\* Only the creation of an identity and an update change a row.
LEMMA RowsGrow ==
    ASSUME IInv, [Next]_vars
    PROVE  RowsTyped' /\ Grows
<1> USE DEF IInv, ShellOK
<1>1. ASSUME NEW i \in Ids, NEW admin \in BOOLEAN, NEW perms \in SUBSET Permissions,
             CreateIdentity(i, admin, perms)
      PROVE  RowsTyped' /\ Grows
  <2>1. PICK pw \in Passwords :
           ident' = [ident EXCEPT ![i] = [exists |-> TRUE, enabled |-> TRUE, admin |-> admin,
                                          perms |-> perms, pw |-> pw, rev |-> 0]]
    BY <1>1 DEF CreateIdentity
  <2>2. ~ident[i].exists  BY <1>1 DEF CreateIdentity
  <2>3. [exists |-> TRUE, enabled |-> TRUE, admin |-> admin, perms |-> perms,
         pw |-> pw, rev |-> 0] \in Row
    BY <2>1 DEF Row
  <2>4. RowsTyped'  BY <2>1, <2>3 DEF RowsTyped
  <2>5. Grows  BY <2>1, <2>2 DEF RowsTyped, Grows
  <2>6. QED  BY <2>4, <2>5
<1>2. ASSUME NEW o \in Operators, NEW c \in Commands, CommandUpdates(o, c)
      PROVE  RowsTyped' /\ Grows
  <2> DEFINE i == shell[o].id
             new == Edited(ident[i], c, shell[o].perms)
  <2>1. i \in Ids /\ shell[o].perms \in SUBSET Permissions /\ ident[i].exists
    BY <1>2 DEF CommandUpdates, ShellSnap
  <2>2. ident[i] \in Row  BY <2>1 DEF RowsTyped
  <2>3. new \in Row /\ new.rev = ident[i].rev + 1 /\ new.exists = ident[i].exists
    BY <2>1, <2>2, EditedRow
  <2>4. ident' = [ident EXCEPT ![i] = new]  BY <1>2 DEF CommandUpdates
  <2> HIDE DEF new, i
  <2>5. RowsTyped'  BY <2>1, <2>3, <2>4 DEF RowsTyped
  <2>6. ident[i].rev \in Nat  BY <2>2 DEF Row
  <2>7. ident'[i] = new /\ \A j \in Ids \ {i} : ident'[j] = ident[j]
    BY <2>1, <2>4 DEF RowsTyped
  <2>9. ident'[i].rev > ident[i].rev  BY <2>3, <2>6, <2>7
  <2>8. ident'[i].exists /\ ident'[i].rev > ident[i].rev
    BY <2>1, <2>3, <2>7, <2>9, Zenon
  <2>10. Grows  BY <2>1, <2>7, <2>8 DEF Grows
  <2>11. QED  BY <2>5, <2>10
<1>3. CASE UNCHANGED ident  BY <1>3 DEF RowsTyped, Grows
<1>4. CASE Administration
  BY <1>1, <1>2, <1>3, <1>4 DEF Administration, CommandReads, CommandFails
<1>5. ASSUME NEW t \in Tabs, Handler(t)  PROVE UNCHANGED ident
  BY <1>5 DEF Handler, LoginPage, SubmitLogin, Request, Enter, TurnAway, Answer,
              LoginFails, LoginVerifies, LoginRotates
<1>6. CASE Visitor \/ Expires \/ UNCHANGED vars
  BY <1>3, <1>6 DEF Visitor, Expires, vars
<1>7. QED  BY <1>3, <1>4, <1>5, <1>6 DEF Next

---------------------------------------------------------------------------
(* Sessions and tabs.                                                      *)

\* A session once owned keeps its owner.
OwnersStay ==
    \A k \in 1 .. MaxTokens : sess[k].who # NoOne => sess'[k].who = sess[k].who

\* So a stored session remains one its identity had.
LEMMA SessionSnapStays ==
    ASSUME RowsTyped, RowsTyped', Grows, NEW s \in SessRecord, SessionSnap(s)
    PROVE  SessionSnap(s)'
BY SnapshotStays DEF SessionSnap, SessRecord

\* Steps that issue no session keep the facts about the sessions.
LEMMA SessStays ==
    ASSUME IInv, RowsTyped', Grows, UNCHANGED <<sess, issued>>
    PROVE  SessOK' /\ OwnersStay
<1>1. \A t \in 1 .. MaxTokens : sess[t] \in SessRecord /\ SessionSnap(sess[t])
  BY DEF IInv, SessOK
<1>2. \A t \in 1 .. MaxTokens : SessionSnap(sess[t])'
  BY <1>1, SessionSnapStays DEF IInv, SessionSnap, Snapshot, RowsTyped
<1>3. QED  BY <1>2 DEF IInv, SessOK, OwnersStay

\* create stores a session nobody owned before, and keeps those facts.
LEMMA SessIssued ==
    ASSUME IInv, UNCHANGED ident, NEW s \in SessRecord, SessionSnap(s),
           NEW old, Created(s, old)
    PROVE  SessOK' /\ OwnersStay /\ issued' = issued + 1 /\ issued' \in 1 .. MaxTokens
<1>1. /\ issued \in Nat /\ issued < MaxTokens /\ issued' = issued + 1
      /\ sess' = [sess EXCEPT ![issued + 1] = s]
  BY SessionsAssumption DEF IInv, SessOK, Created
<1>2. issued + 1 \in 1 .. MaxTokens  BY <1>1, SessionsAssumption
<1>3. sess' \in [1 .. MaxTokens -> SessRecord]  BY <1>1 DEF IInv, SessOK
<1>4. sess'[issued + 1] = s /\ \A t \in 1 .. MaxTokens \ {issued + 1} : sess'[t] = sess[t]
  BY <1>1, <1>2 DEF IInv, SessOK
<1>5. sess[issued + 1].who = NoOne  BY <1>1, <1>2 DEF IInv, SessOK
<1>6. OwnersStay  BY <1>4, <1>5 DEF OwnersStay
<1>7. \A t \in 1 .. MaxTokens : SessionSnap(sess[t])'
  BY <1>4 DEF IInv, SessOK, SessionSnap, Snapshot
<1>8. \A t \in 1 .. MaxTokens : t > issued' => sess'[t].who = NoOne
  BY <1>1, <1>4 DEF IInv, SessOK
<1>9. QED  BY <1>1, <1>2, <1>3, <1>6, <1>7, <1>8 DEF SessOK

\* A request in flight keeps what was read for it while others act.
LEMMA TabStays ==
    ASSUME IInv, RowsTyped', Grows, OwnersStay, NEW t \in Tabs, tab'[t] = tab[t]
    PROVE  TabSnap(tab[t])'
<1>1. tab[t] \in TabRecord /\ TabSnap(tab[t])  BY DEF IInv, TabsOK
<1>2. tab[t].as \in Row  BY <1>1 DEF TabRecord
<1>3. tab[t].pc = "verified" => Snapshot(tab[t].who, tab[t].as)'
  <2>1. SUFFICES ASSUME tab[t].pc = "verified" PROVE Snapshot(tab[t].who, tab[t].as)'
    OBVIOUS
  <2>2. Snapshot(tab[t].who, tab[t].as)  BY <1>1, <2>1 DEF TabSnap
  <2>3. QED  BY <1>2, <2>2, SnapshotStays DEF IInv, Snapshot
<1>4. tab[t].pc = "read" => /\ tab[t].token \in 1 .. MaxTokens /\ tab[t].who # NoOne
                            /\ sess'[tab[t].token].who = tab[t].who
  BY <1>1 DEF TabSnap, OwnersStay
<1>5. QED  BY <1>1, <1>3, <1>4 DEF TabSnap, Snapshot

\* The same for all tabs when none acts ...
LEMMA TabsStay ==
    ASSUME IInv, RowsTyped', Grows, OwnersStay, UNCHANGED tab
    PROVE  TabsOK'
BY TabStays DEF IInv, TabsOK

\* ... and when one tab takes a step to a record with these facts.
LEMMA TabUpdated ==
    ASSUME IInv, RowsTyped', Grows, OwnersStay, NEW t \in Tabs, NEW r \in TabRecord,
           tab' = [tab EXCEPT ![t] = r], TabSnap(tab[t])'
    PROVE  TabsOK'
<1>1. /\ tab' \in [Tabs -> TabRecord] /\ tab'[t] = r
      /\ \A u \in Tabs \ {t} : tab'[u] = tab[u]
  BY DEF IInv, TabsOK
<1>2. \A u \in Tabs : TabSnap(tab[u])'  BY <1>1, TabStays DEF TabSnap, Snapshot
<1>3. QED  BY <1>1, <1>2 DEF TabsOK

---------------------------------------------------------------------------
(* Commands.                                                               *)

\* What a command read of its identity stays a snapshot until its update.
LEMMA ShellStays ==
    ASSUME RowsTyped, RowsTyped', Grows, NEW s, ShellSnap(s)
    PROVE  s.busy => /\ s.id \in Ids /\ s.perms \subseteq Permissions /\ s.rev \in Nat
                     /\ s.rev <= ident'[s.id].rev
                     /\ s.rev = ident'[s.id].rev => s.perms = ident'[s.id].perms
                     /\ ident'[s.id].exists
<1>1. SUFFICES ASSUME s.busy
               PROVE  /\ s.id \in Ids /\ s.perms \subseteq Permissions /\ s.rev \in Nat
                      /\ s.rev <= ident'[s.id].rev
                      /\ s.rev = ident'[s.id].rev => s.perms = ident'[s.id].perms
                      /\ ident'[s.id].exists
  OBVIOUS
<1>2. /\ s.id \in Ids /\ s.perms \subseteq Permissions /\ s.rev \in Nat
      /\ s.rev <= ident[s.id].rev /\ ident[s.id].exists
      /\ s.rev = ident[s.id].rev => s.perms = ident[s.id].perms
  BY <1>1 DEF ShellSnap
<1>3. ident[s.id].rev \in Nat /\ ident'[s.id].rev \in Nat
  BY <1>2 DEF RowsTyped, Row
<1>4. \/ ident'[s.id] = ident[s.id]
      \/ ident'[s.id].exists /\ ident'[s.id].rev > ident[s.id].rev
  BY <1>2 DEF Grows
<1>5. QED  BY <1>2, <1>3, <1>4

\* Every step keeps the facts about the commands under way.
LEMMA ShellKept ==
    ASSUME IInv, [Next]_vars, RowsTyped', Grows
    PROVE  ShellOK'
<1>1. DOMAIN shell = Operators /\ \A o \in Operators : ShellSnap(shell[o])
  BY DEF IInv, ShellOK
<1>2. RowsTyped  BY DEF IInv
<1>3. CASE UNCHANGED shell
  BY <1>1, <1>2, <1>3, ShellStays DEF ShellOK, ShellSnap
<1>4. ASSUME NEW o \in Operators, NEW s, shell' = [shell EXCEPT ![o] = s], ShellSnap(s)'
      PROVE  ShellOK'
  <2>1. \A u \in Operators \ {o} : ShellSnap(shell[u])'
    BY <1>1, <1>2, <1>4, ShellStays DEF ShellSnap
  <2>2. shell'[o] = s /\ DOMAIN shell' = Operators  BY <1>1, <1>4
  <2>3. QED  BY <1>4, <2>1, <2>2 DEF ShellOK, ShellSnap
<1>5. ASSUME NEW o \in Operators, NEW i \in Ids, CommandReads(o, i)
      PROVE  ShellOK'
  <2> DEFINE s == [busy |-> TRUE, id |-> i, perms |-> ident[i].perms, rev |-> ident[i].rev]
  <2>1. ident[i] \in Row /\ ident' = ident /\ ident[i].exists
    BY <1>2, <1>5 DEF CommandReads, RowsTyped
  <2>2. ident[i].rev \in Nat /\ ident[i].perms \subseteq Permissions  BY <2>1 DEF Row
  <2>3. ShellSnap(s)'  BY <2>1, <2>2 DEF ShellSnap
  <2>4. QED  BY <1>4, <1>5, <2>3 DEF CommandReads
<1>6. ShellSnap(NoCommand)'  BY DEF ShellSnap, NoCommand
<1>7. ASSUME NEW o \in Operators, NEW c \in Commands,
             CommandUpdates(o, c) \/ CommandFails(o, c)
      PROVE  ShellOK'
  BY <1>4, <1>6, <1>7 DEF CommandUpdates, CommandFails
<1>8. CASE Administration
  BY <1>3, <1>5, <1>7, <1>8 DEF Administration, CreateIdentity
<1>9. ASSUME NEW t \in Tabs, Handler(t)  PROVE UNCHANGED shell
  BY <1>9 DEF Handler, LoginPage, SubmitLogin, Request, Enter, TurnAway, Answer,
              LoginFails, LoginVerifies, LoginRotates
<1>10. CASE Visitor \/ Expires \/ UNCHANGED vars
  BY <1>3, <1>10 DEF Visitor, Expires, vars
<1>11. QED  BY <1>3, <1>8, <1>9, <1>10 DEF Next

---------------------------------------------------------------------------
(* Handlers.                                                               *)

\* What a handler must keep, besides the rows and the commands.
WebOK == SessOK /\ cookie \in 0 .. MaxTokens /\ TabsOK

\* The row of no identity has the type of one.
LEMMA AbsentRow == Absent \in Row /\ Anonymous \in SessRecord
<1>1. Absent \in Row  BY DEF Absent, Row
<1>2. QED  BY <1>1 DEF Anonymous, Session, SessRecord, Absent

\* A tab that waits for nothing promises nothing.
LEMMA IdleTab ==
    ASSUME NEW page \in Nat
    PROVE  NoRequest(page) \in TabRecord /\ NoRequest(page).pc = "idle"
<1>1. Absent \in Row  BY AbsentRow
<1>2. QED  BY <1>1 DEF NoRequest, TabRecord

\* What the invariant says of one tab.
LEMMA TabFacts ==
    ASSUME IInv, NEW t \in Tabs
    PROVE  /\ tab[t] \in TabRecord /\ TabSnap(tab[t])
           /\ tab[t].page \in Nat /\ tab[t].token \in Nat /\ tab[t].as \in Row
           /\ cookie \in Nat
<1>1. tab[t] \in TabRecord /\ TabSnap(tab[t])  BY DEF IInv, TabsOK
<1>2. cookie \in Nat  BY SessionsAssumption DEF IInv
<1>3. QED  BY <1>1, <1>2 DEF TabRecord

\* A new anonymous session has no owner to agree with.
LEMMA AnonymousSession == Anonymous \in SessRecord /\ SessionSnap(Anonymous)
BY AbsentRow DEF Anonymous, Session, SessionSnap

\* The session of a visitor is nobody's ...
LEMMA VisitorKeeps ==
    ASSUME IInv, RowsTyped', Grows, Visitor
    PROVE  WebOK'
<1>1. UNCHANGED <<ident, cookie, tab>> /\ Created(Anonymous, 0)  BY DEF Visitor
<1>2. SessOK' /\ OwnersStay  BY <1>1, AnonymousSession, SessIssued
<1>3. QED  BY <1>1, <1>2, TabsStay DEF IInv, WebOK

\* ... and so is the one GET /portal/login makes.
LEMMA LoginPageKeeps ==
    ASSUME IInv, RowsTyped', Grows, NEW t \in Tabs, LoginPage(t)
    PROVE  WebOK'
<1>1. UNCHANGED ident  BY DEF LoginPage
<1>2. Anonymous \in SessRecord /\ SessionSnap(Anonymous)  BY AnonymousSession
<1>3. cookie \in 0 .. MaxTokens  BY DEF IInv
<1>4. ASSUME NEW p \in Nat, tab' = [tab EXCEPT ![t].page = p], OwnersStay
      PROVE  TabsOK'
  <2>1. tab[t] \in TabRecord /\ TabSnap(tab[t])  BY TabFacts
  <2> DEFINE r == [tab[t] EXCEPT !.page = p]
  <2>2. r \in TabRecord  BY <2>1 DEF TabRecord
  <2>3. tab' = [tab EXCEPT ![t] = r] /\ tab'[t] = r
    BY <1>4 DEF IInv, TabsOK
  <2>4. /\ r.pc = tab[t].pc /\ r.who = tab[t].who /\ r.as = tab[t].as
        /\ r.token = tab[t].token
    BY <2>1 DEF TabRecord
  <2> HIDE DEF r
  <2>5. TabSnap(tab[t])'
    BY <1>1, <1>4, <2>1, <2>3, <2>4 DEF TabSnap, Snapshot, OwnersStay
  <2>6. QED  BY <1>4, <2>2, <2>3, <2>5, TabUpdated
<1>6. CASE LoginPage(t) /\ Valid(cookie)
  <2>1. UNCHANGED <<sess, issued, cookie>> /\ tab' = [tab EXCEPT ![t].page = cookie]
    BY <1>6 DEF LoginPage
  <2>2. SessOK' /\ OwnersStay  BY <2>1, SessStays
  <2>3. cookie \in Nat  BY TabFacts
  <2>4. TabsOK'  BY <1>4, <2>1, <2>2, <2>3
  <2>5. QED  BY <1>3, <2>1, <2>2, <2>4 DEF WebOK
<1>7. CASE LoginPage(t) /\ ~Valid(cookie)
  <2>1. /\ Created(Anonymous, cookie) /\ cookie' = issued + 1
        /\ tab' = [tab EXCEPT ![t].page = issued + 1]
    BY <1>7 DEF LoginPage
  <2>2. SessOK' /\ OwnersStay /\ issued' = issued + 1 /\ issued' \in 1 .. MaxTokens
    BY <1>1, <1>2, <2>1, SessIssued
  <2>3. issued + 1 \in Nat /\ issued + 1 \in 0 .. MaxTokens  BY <2>2, SessionsAssumption
  <2>4. TabsOK'  BY <1>4, <2>1, <2>2, <2>3
  <2>5. QED  BY <2>1, <2>2, <2>3, <2>4 DEF WebOK
<1>8. QED  BY <1>6, <1>7

\* A handler that writes no row keeps it if its own tab ends up in order.
LEMMA QuietHandler ==
    ASSUME IInv, UNCHANGED <<ident, sess, issued>>, cookie' \in 0 .. MaxTokens,
           NEW t \in Tabs, NEW r \in TabRecord, tab' = [tab EXCEPT ![t] = r],
           tab'[t] = r => TabSnap(tab[t])'
    PROVE  WebOK'
<1>1. RowsTyped' /\ Grows  BY DEF IInv, RowsTyped, Grows
<1>2. SessOK' /\ OwnersStay  BY <1>1, SessStays
<1>3. tab'[t] = r  BY DEF IInv, TabsOK
<1>4. TabsOK'  BY <1>1, <1>2, <1>3, TabUpdated
<1>5. QED  BY <1>2, <1>4 DEF WebOK

\* Nothing but the order of the sessions changes: a request turned away at once.
LEMMA NothingChanges ==
    ASSUME IInv, UNCHANGED <<ident, sess, issued, cookie, tab>>
    PROVE  WebOK'
<1>1. RowsTyped' /\ Grows  BY DEF IInv, RowsTyped, Grows
<1>2. SessOK' /\ OwnersStay  BY <1>1, SessStays
<1>3. QED  BY <1>1, <1>2, TabsStay DEF IInv, WebOK

\* A request that ends leaves a tab that waits for nothing.
LEMMA RequestEnds ==
    ASSUME IInv, NEW t \in Tabs, TurnAway(t) \/ Answer(t) \/ LoginFails(t)
    PROVE  WebOK'
<1>1. /\ UNCHANGED <<ident, sess, issued>>
      /\ cookie' = cookie \/ cookie' = 0
      /\ \/ tab' = [tab EXCEPT ![t] = NoRequest(tab[t].page)]
         \/ tab' = [tab EXCEPT ![t] = NoRequest(tab[t].token)]
         \/ tab' = [tab EXCEPT ![t] = NoRequest(0)]
  BY DEF TurnAway, Answer, LoginFails
<1>2. cookie' \in 0 .. MaxTokens  BY <1>1, SessionsAssumption DEF IInv
<1>3. PICK p \in Nat : tab' = [tab EXCEPT ![t] = NoRequest(p)]
  <2>1. tab[t].page \in Nat /\ tab[t].token \in Nat /\ 0 \in Nat  BY TabFacts
  <2>2. QED  BY <1>1, <2>1
<1>4. NoRequest(p) \in TabRecord /\ NoRequest(p).pc = "idle"  BY IdleTab
<1>5. tab'[t] = NoRequest(p) => TabSnap(tab[t])'  BY <1>4 DEF TabSnap
<1>6. QED  BY <1>1, <1>2, <1>3, <1>4, <1>5, QuietHandler

\* A login is suspended with the name it was given.
LEMMA SubmitKeeps ==
    ASSUME IInv, NEW t \in Tabs, NEW i \in Ids, NEW pw \in Passwords, SubmitLogin(t, i, pw)
    PROVE  WebOK'
<1>1. UNCHANGED <<ident, sess, issued, cookie>>  BY DEF SubmitLogin
<1>2. CASE UNCHANGED tab  BY <1>1, <1>2, NothingChanges
<1>3. CASE tab' = [tab EXCEPT ![t] = [Asks(t, "login") EXCEPT !.pc = "form",
                                                            !.who = i, !.pw = pw]]
  <2> DEFINE r == [Asks(t, "login") EXCEPT !.pc = "form", !.who = i, !.pw = pw]
  <2>1. tab[t] \in TabRecord /\ cookie \in Nat /\ tab[t].page \in Nat  BY TabFacts
  <2>2. Asks(t, "login") \in TabRecord  BY <2>1 DEF Asks, TabRecord
  <2>3. r \in TabRecord /\ r.pc = "form" /\ r.who = i  BY <2>2 DEF TabRecord
  <2> HIDE DEF r
  <2>4. tab'[t] = r => TabSnap(tab[t])'  BY <2>3 DEF TabSnap
  <2>5. cookie' \in 0 .. MaxTokens  BY <1>1 DEF IInv
  <2>6. tab' = [tab EXCEPT ![t] = r]  BY <1>3 DEF r
  <2>7. QED  BY <1>1, <2>3, <2>4, <2>5, <2>6, QuietHandler
<1>4. QED  BY <1>2, <1>3 DEF SubmitLogin

\* A request is suspended between actor_for's reads with the owner of its session.
LEMMA RequestKeeps ==
    ASSUME IInv, NEW t \in Tabs, NEW does \in {"view", "mutate", "logout"}, Request(t, does)
    PROVE  WebOK'
<1>1. UNCHANGED <<ident, sess, issued, cookie>>  BY DEF Request
<1>2. CASE UNCHANGED tab  BY <1>1, <1>2, NothingChanges
<1>3. CASE /\ Valid(cookie) /\ sess[cookie].who # NoOne
           /\ tab' = [tab EXCEPT ![t] = [Asks(t, does) EXCEPT
                                            !.pc = "read", !.who = sess[cookie].who]]
  <2> DEFINE r == [Asks(t, does) EXCEPT !.pc = "read", !.who = sess[cookie].who]
  <2>1. tab[t] \in TabRecord /\ cookie \in Nat /\ tab[t].page \in Nat  BY TabFacts
  <2>2. cookie \in 1 .. MaxTokens  BY <1>3, <2>1 DEF IInv, Valid
  <2>3. sess[cookie] \in SessRecord  BY <2>2 DEF IInv, SessOK
  <2>4. sess[cookie].who \in Ids \cup {NoOne}  BY <2>3 DEF SessRecord
  <2>5. does \in {"view", "mutate", "logout", "login"}  OBVIOUS
  <2>6. /\ Asks(t, does) \in TabRecord /\ Asks(t, does).token = cookie
    BY <2>1, <2>5 DEF Asks, TabRecord
  <2>7. r \in TabRecord /\ r.pc = "read" /\ r.who = sess[cookie].who /\ r.token = cookie
    BY <2>4, <2>6 DEF TabRecord
  <2> HIDE DEF r
  <2>8. tab'[t] = r => TabSnap(tab[t])'  BY <1>1, <1>3, <2>2, <2>7 DEF TabSnap
  <2>9. cookie' \in 0 .. MaxTokens  BY <1>1 DEF IInv
  <2>10. tab' = [tab EXCEPT ![t] = r]  BY <1>3 DEF r
  <2>11. QED  BY <1>1, <2>7, <2>8, <2>9, <2>10, QuietHandler
<1>4. QED  BY <1>2, <1>3 DEF Request

\* What a tab that reads or verifies has of its identity.
LEMMA EnterKeeps ==
    ASSUME IInv, NEW t \in Tabs, Enter(t)
    PROVE  WebOK'
<1>1. UNCHANGED <<ident, sess, issued, cookie>>  BY DEF Enter
<1>2. tab[t] \in TabRecord /\ TabSnap(tab[t]) /\ tab[t].pc = "read"  BY TabFacts DEF Enter
<1>3. tab[t].who \in Ids  BY <1>2 DEF TabSnap, TabRecord
<1>4. ident[tab[t].who] \in Row  BY <1>3 DEF IInv, RowsTyped
<1> DEFINE r == [tab[t] EXCEPT !.pc = "entered", !.as = ident[tab[t].who]]
<1>5. r \in TabRecord /\ r.pc = "entered"  BY <1>2, <1>4 DEF TabRecord
<1>6. tab' = [tab EXCEPT ![t] = r]  BY DEF Enter, IInv, TabsOK
<1> HIDE DEF r
<1>7. tab'[t] = r => TabSnap(tab[t])'  BY <1>5 DEF TabSnap
<1>8. cookie' \in 0 .. MaxTokens  BY <1>1 DEF IInv
<1>9. QED  BY <1>1, <1>5, <1>6, <1>7, <1>8, QuietHandler

\* authenticate holds the row of this moment.
LEMMA VerifiesKeeps ==
    ASSUME IInv, NEW t \in Tabs, LoginVerifies(t)
    PROVE  WebOK'
<1>1. UNCHANGED <<ident, sess, issued, cookie>>  BY DEF LoginVerifies
<1>2. tab[t] \in TabRecord /\ TabSnap(tab[t]) /\ tab[t].pc = "form"
  BY TabFacts DEF LoginVerifies
<1>3. tab[t].who \in Ids /\ ident[tab[t].who].exists
  BY <1>2 DEF TabSnap, LoginVerifies
<1>4. ident[tab[t].who] \in Row  BY <1>3 DEF IInv, RowsTyped
<1> DEFINE r == [tab[t] EXCEPT !.pc = "verified", !.as = ident[tab[t].who]]
<1>5. /\ r \in TabRecord /\ r.pc = "verified" /\ r.who = tab[t].who
      /\ r.as = ident[tab[t].who]
  BY <1>2, <1>4 DEF TabRecord
<1>6. tab' = [tab EXCEPT ![t] = r]  BY DEF LoginVerifies, IInv, TabsOK
<1> HIDE DEF r
<1>7. ident[tab[t].who].rev <= ident[tab[t].who].rev  BY <1>4 DEF Row
<1>8. tab'[t] = r => TabSnap(tab[t])'
  BY <1>1, <1>3, <1>5, <1>7 DEF TabSnap, Snapshot
<1>9. cookie' \in 0 .. MaxTokens  BY <1>1 DEF IInv
<1>10. QED  BY <1>1, <1>5, <1>6, <1>8, <1>9, QuietHandler

\* rotate stores a session its identity had when the password was verified.
LEMMA RotatesKeeps ==
    ASSUME IInv, NEW t \in Tabs, LoginRotates(t)
    PROVE  WebOK'
<1>1. /\ UNCHANGED ident /\ cookie' = issued + 1
      /\ tab' = [tab EXCEPT ![t] = NoRequest(tab[t].page)]
      /\ Created(Session(tab[t].who, tab[t].as.rev, tab[t].as), tab[t].token)
  BY DEF LoginRotates
<1>2. /\ tab[t] \in TabRecord /\ TabSnap(tab[t]) /\ tab[t].pc = "verified"
      /\ tab[t].page \in Nat /\ tab[t].as \in Row
  BY TabFacts DEF LoginRotates
<1> DEFINE s == Session(tab[t].who, tab[t].as.rev, tab[t].as)
<1>3. tab[t].as.rev \in Nat /\ tab[t].who \in Ids \cup {NoOne}  BY <1>2 DEF Row, TabRecord
<1>4. s \in SessRecord  BY <1>2, <1>3 DEF Session, SessRecord
<1>5. SessionSnap(s)  BY <1>2 DEF SessionSnap, TabSnap, Session
<1>6. RowsTyped' /\ Grows  BY <1>1 DEF IInv, RowsTyped, Grows
<1> HIDE DEF s
<1>7. Created(s, tab[t].token)  BY <1>1 DEF s
<1>8. SessOK' /\ OwnersStay /\ issued' = issued + 1 /\ issued' \in 1 .. MaxTokens
  BY <1>1, <1>4, <1>5, <1>7, SessIssued
<1>9. cookie' \in 0 .. MaxTokens  BY <1>1, <1>8, SessionsAssumption
<1>10. NoRequest(tab[t].page) \in TabRecord /\ NoRequest(tab[t].page).pc = "idle"
  BY <1>2, IdleTab
<1>11. tab'[t] = NoRequest(tab[t].page)  BY <1>1 DEF IInv, TabsOK
<1>12. TabSnap(tab[t])'  BY <1>10, <1>11 DEF TabSnap
<1>13. TabsOK'  BY <1>1, <1>6, <1>8, <1>10, <1>12, TabUpdated
<1>14. QED  BY <1>8, <1>9, <1>13 DEF WebOK

\* The command and the expiry touch neither a session's contents nor a tab.
LEMMA CommandKeeps ==
    ASSUME IInv, RowsTyped', Grows, UNCHANGED <<sess, issued, cookie, tab>>
    PROVE  WebOK'
<1>1. SessOK' /\ OwnersStay  BY SessStays
<1>2. QED  BY <1>1, TabsStay DEF IInv, WebOK

---------------------------------------------------------------------------
(* The inductive invariant.                                                *)

\* The initial state satisfies it.
LEMMA InitIInv == Init => IInv
<1> SUFFICES ASSUME Init PROVE IInv  OBVIOUS
<1> USE SessionsAssumption, AbsentRow DEF Init
<1>1. RowsTyped  BY DEF RowsTyped
<1>2. SessOK
  BY DEF SessOK, SessionSnap, Anonymous, Session
<1>3. cookie \in 0 .. MaxTokens  OBVIOUS
<1>4. TabsOK
  <2>1. NoRequest(0) \in TabRecord /\ NoRequest(0).pc = "idle"  BY IdleTab
  <2>2. QED  BY <2>1 DEF TabsOK, TabSnap
<1>5. ShellOK  BY DEF ShellOK, ShellSnap, NoCommand
<1>6. QED  BY <1>1, <1>2, <1>3, <1>4, <1>5 DEF IInv

\* Every step keeps the invariant.
LEMMA NextIInv ==
    ASSUME IInv, [Next]_vars
    PROVE  IInv'
<1>1. RowsTyped' /\ Grows  BY RowsGrow
<1>2. ShellOK'  BY <1>1, ShellKept
<1> SUFFICES WebOK'  BY <1>1, <1>2 DEF IInv, WebOK
<1>3. ASSUME NEW t \in Tabs, Handler(t)  PROVE WebOK'
  <2>1. CASE LoginPage(t)  BY <1>1, <2>1, LoginPageKeeps
  <2>2. ASSUME NEW i \in Ids, NEW pw \in Passwords, SubmitLogin(t, i, pw)  PROVE WebOK'
    BY <2>2, SubmitKeeps
  <2>3. ASSUME NEW does \in {"view", "mutate", "logout"}, Request(t, does)  PROVE WebOK'
    BY <2>3, RequestKeeps
  <2>4. CASE Enter(t)  BY <2>4, EnterKeeps
  <2>5. CASE TurnAway(t) \/ Answer(t) \/ LoginFails(t)  BY <2>5, RequestEnds
  <2>6. CASE LoginVerifies(t)  BY <2>6, VerifiesKeeps
  <2>7. CASE LoginRotates(t)  BY <2>7, RotatesKeeps
  <2>8. QED  BY <1>3, <2>1, <2>2, <2>3, <2>4, <2>5, <2>6, <2>7 DEF Handler
<1>4. CASE Visitor  BY <1>1, <1>4, VisitorKeeps
<1>5. CASE Expires  BY <1>1, <1>5, CommandKeeps DEF Expires
<1>6. CASE Administration
  BY <1>1, <1>6, CommandKeeps
     DEF Administration, CreateIdentity, CommandReads, CommandUpdates, CommandFails
<1>7. CASE UNCHANGED vars  BY <1>1, <1>7, CommandKeeps DEF vars
<1>8. QED  BY <1>3, <1>4, <1>5, <1>6, <1>7 DEF Next

\* Rows, sessions, requests and commands agree as the argument above needs, always.
THEOREM Agreement == Spec => []IInv
<1>1. Init => IInv  BY InitIInv
<1>2. IInv /\ [Next]_vars => IInv'  BY NextIInv
<1>3. QED  BY <1>1, <1>2, PTL DEF Spec

---------------------------------------------------------------------------
(* Acceptance.                                                             *)

\* Only Enter lets a request in.
LEMMA OnlyEnter ==
    ASSUME IInv, [Next]_vars, NEW t \in Tabs, tab[t].pc = "read", tab'[t].pc = "entered"
    PROVE  Enter(t)
<1>1. tab \in [Tabs -> TabRecord]  BY DEF IInv, TabsOK
<1>2. tab'[t] # tab[t]  OBVIOUS
<1>3. ASSUME NEW u \in Tabs, Handler(u), ~Enter(t)  PROVE FALSE
  <2>1. CASE u # t
    <3>1. tab'[t] = tab[t]
      BY <1>1, <1>3, <2>1 DEF Handler, LoginPage, SubmitLogin, Request, Enter, TurnAway,
                              Answer, LoginFails, LoginVerifies, LoginRotates
    <3>2. QED  BY <1>2, <3>1
  <2>2. CASE u = t
    <3>1. TurnAway(t)
      BY <1>3, <2>2 DEF Handler, LoginPage, SubmitLogin, Request, Starts,
                        Answer, LoginFails, LoginVerifies, LoginRotates
    <3>2. tab'[t] = NoRequest(tab[t].page)  BY <1>1, <3>1 DEF TurnAway
    <3>3. QED  BY <3>2 DEF NoRequest
  <2>3. QED  BY <2>1, <2>2
<1>4. tab' # tab  BY <1>2
<1>5. ~(Visitor \/ Expires \/ Administration \/ UNCHANGED vars)
  BY <1>4 DEF Visitor, Expires, Administration, CreateIdentity, CommandReads,
              CommandUpdates, CommandFails, vars
<1>6. QED  BY <1>3, <1>5 DEF Next

\* web.py:115-128: whatever is edited while a password is hashed or between the two
\* reads of actor_for, a request is let in only if its identity is still exactly
\* the one whose password was verified.
THEOREM AcceptedCurrent == Spec => AcceptedIsCurrent
<1>1. ASSUME IInv, [Next]_vars, NEW t \in Tabs,
             tab[t].pc = "read", tab'[t].pc = "entered"
      PROVE  /\ ident[tab[t].who] = sess[tab[t].token].as
             /\ ident[tab[t].who].enabled
  <2>1. Honoured(t)  BY <1>1, OnlyEnter DEF Enter
  <2>2. TabSnap(tab[t])  BY <1>1, TabFacts
  <2>3. /\ tab[t].token \in 1 .. MaxTokens /\ tab[t].who # NoOne
        /\ sess[tab[t].token].who = tab[t].who
    BY <1>1, <2>2 DEF TabSnap
  <2>4. SessionSnap(sess[tab[t].token])  BY <1>1, <2>3 DEF IInv, SessOK
  <2>5. QED  BY <2>1, <2>3, <2>4 DEF SessionSnap, Snapshot, Honoured
<1>2. IInv /\ [Next]_vars =>
        [\A t \in Tabs : tab[t].pc = "read" /\ tab'[t].pc = "entered"
            => /\ ident[tab[t].who] = sess[tab[t].token].as
               /\ ident[tab[t].who].enabled]_vars
  BY <1>1
<1>3. QED  BY <1>2, Agreement, PTL DEF Spec, AcceptedIsCurrent

---------------------------------------------------------------------------
(* Edits.                                                                  *)

\* identity.py:203-230: a command's update leaves exactly its own change, also when
\* other commands wrote the identity after this one read it.
THEOREM EditExact == Spec => EditIsExact
<1> DEFINE Exact(o) ==
        /\ \E c \in Commands :
              ident'[shell[o].id] = Edited(ident[shell[o].id], c, ident[shell[o].id].perms)
        /\ \A i \in Ids \ {shell[o].id} : ident'[i] = ident[i]
<1>1. ASSUME IInv, [Next]_vars, NEW o \in Operators,
             shell[o].busy, ~shell'[o].busy, ident' # ident
      PROVE  Exact(o)
  <2>1. DOMAIN shell = Operators /\ ShellSnap(shell[o]) /\ ident \in [Ids -> Row]
    BY <1>1 DEF IInv, ShellOK, RowsTyped
  <2>2. ~(Visitor \/ Expires \/ UNCHANGED vars)  BY <1>1 DEF Visitor, Expires, vars
  <2>3. ASSUME NEW t \in Tabs  PROVE ~Handler(t)
    BY <1>1 DEF Handler, LoginPage, SubmitLogin, Request, Enter, TurnAway, Answer,
                LoginFails, LoginVerifies, LoginRotates
  <2>4. PICK u \in Operators, c \in Commands : CommandUpdates(u, c)
    BY <1>1, <2>2, <2>3 DEF Next, Administration, CreateIdentity, CommandReads, CommandFails
  <2>5. u = o  BY <1>1, <2>1, <2>4 DEF CommandUpdates
  <2> DEFINE i == shell[o].id
  <2>6. i \in Ids /\ shell[o].perms = ident[i].perms
    BY <1>1, <2>1, <2>4, <2>5 DEF CommandUpdates, ShellSnap, Unmodified
  <2>7. ident' = [ident EXCEPT ![i] = Edited(ident[i], c, shell[o].perms)]
    BY <2>4, <2>5 DEF CommandUpdates
  <2> HIDE DEF i
  <2>8. /\ ident'[i] = Edited(ident[i], c, ident[i].perms)
        /\ \A j \in Ids \ {i} : ident'[j] = ident[j]
    BY <2>1, <2>6, <2>7
  <2>9. QED  BY <2>8 DEF i
<1>2. IInv /\ [Next]_vars =>
        [\A o \in Operators :
            LET s == shell[o] IN
            s.busy /\ ~shell'[o].busy /\ ident' # ident =>
                /\ \E c \in Commands :
                      ident'[s.id] = Edited(ident[s.id], c, ident[s.id].perms)
                /\ \A i \in Ids \ {s.id} : ident'[i] = ident[i]]_vars
  BY <1>1
<1>3. QED  BY <1>2, Agreement, PTL DEF Spec, EditIsExact

---------------------------------------------------------------------------
(* The last administrator.                                                 *)

\* Only disable and demote take an administrator away.
LEMMA EditedAdmin ==
    ASSUME NEW row \in Row, NEW cmd \in Commands, NEW perms \in SUBSET Permissions,
           cmd.verb \notin {"disable", "demote"}, row.enabled, row.admin
    PROVE  Edited(row, cmd, perms).enabled /\ Edited(row, cmd, perms).admin
<1> DEFINE e == [row EXCEPT !.rev = @ + 1]
<1>1. e \in Row /\ e.enabled /\ e.admin  BY DEF Row
<1>2. cmd.verb \in {"password", "enable", "promote", "grant", "revoke"}
  BY SessionsAssumption DEF Verbs
<1>3. Edited(row, cmd, perms) =
        CASE cmd.verb = "password" -> [e EXCEPT !.pw = cmd.arg]
          [] cmd.verb = "enable"   -> [e EXCEPT !.enabled = TRUE]
          [] cmd.verb = "disable"  -> [e EXCEPT !.enabled = FALSE]
          [] cmd.verb = "promote"  -> [e EXCEPT !.admin = TRUE]
          [] cmd.verb = "demote"   -> [e EXCEPT !.admin = FALSE]
          [] cmd.verb = "grant"    -> [e EXCEPT !.perms = perms \cup {cmd.arg}]
          [] cmd.verb = "revoke"   -> [e EXCEPT !.perms = perms \ {cmd.arg}]
  BY DEF Edited
<1> HIDE DEF e
<1>4. \/ Edited(row, cmd, perms) = [e EXCEPT !.pw = cmd.arg]
      \/ Edited(row, cmd, perms) = [e EXCEPT !.enabled = TRUE]
      \/ Edited(row, cmd, perms) = [e EXCEPT !.admin = TRUE]
      \/ Edited(row, cmd, perms) = [e EXCEPT !.perms = perms \cup {cmd.arg}]
      \/ Edited(row, cmd, perms) = [e EXCEPT !.perms = perms \ {cmd.arg}]
  BY <1>2, <1>3
<1>5. QED  BY <1>1, <1>4 DEF Row

\* identity.py:216-219: no interleaving of commands removes the last enabled
\* administrator.
THEOREM AdministratorStays == Spec => AdministratorRemains
<1>1. ASSUME IInv, [Next]_vars, Administrators # {}  PROVE Administrators' # {}
  <2>1. ident \in [Ids -> Row]  BY <1>1 DEF IInv, RowsTyped
  <2>2. CASE UNCHANGED ident  BY <1>1, <2>2 DEF Administrators
  <2>3. ASSUME NEW i \in Ids, NEW admin \in BOOLEAN, NEW perms, CreateIdentity(i, admin, perms)
        PROVE  Administrators' # {}
    <3>1. ~ident[i].exists /\ \A j \in Ids \ {i} : ident'[j] = ident[j]
      BY <2>1, <2>3 DEF CreateIdentity
    <3>2. QED  BY <1>1, <3>1 DEF Administrators
  <2>4. ASSUME NEW o \in Operators, NEW c \in Commands, CommandUpdates(o, c)
        PROVE  Administrators' # {}
    <3> DEFINE i == shell[o].id
    <3>1. i \in Ids /\ shell[o].perms \in SUBSET Permissions /\ ident[i].exists
      BY <1>1, <2>4 DEF IInv, ShellOK, ShellSnap, CommandUpdates
    <3>2. ident[i] \in Row  BY <2>1, <3>1
    <3> DEFINE new == Edited(ident[i], c, shell[o].perms)
    <3>3. new.exists = ident[i].exists  BY <3>1, <3>2, EditedRow
    <3>4. /\ ident' = [ident EXCEPT ![i] = new] /\ ~LastAdmin(i, c)
      BY <2>4 DEF CommandUpdates
    <3>5. c.verb \notin {"disable", "demote"} /\ ident[i].enabled /\ ident[i].admin
             => new.enabled /\ new.admin
      BY <3>1, <3>2, EditedAdmin
    <3> HIDE DEF new, i
    <3>6. ident'[i] = new /\ \A j \in Ids \ {i} : ident'[j] = ident[j]
      BY <2>1, <3>1, <3>4
    <3>7. CASE \E j \in Administrators : j # i
      BY <3>6, <3>7 DEF Administrators
    <3>8. CASE Administrators = {i}
      <4>1. ident[i].enabled /\ ident[i].admin  BY <3>8 DEF Administrators
      <4>2. Cardinality(Administrators) = 1  BY <3>8, FS_Singleton
      <4>3. c.verb \notin {"disable", "demote"}  BY <3>4, <4>1, <4>2 DEF LastAdmin
      <4>4. new.exists /\ new.enabled /\ new.admin
        BY <3>1, <3>3, <3>5, <4>1, <4>3
      <4>5. QED  BY <3>1, <3>6, <4>4 DEF Administrators
    <3>9. QED  BY <1>1, <3>7, <3>8
  <2>5. CASE Administration
    BY <2>2, <2>3, <2>4, <2>5 DEF Administration, CommandReads, CommandFails
  <2>6. ASSUME NEW t \in Tabs, Handler(t)  PROVE UNCHANGED ident
    BY <2>6 DEF Handler, LoginPage, SubmitLogin, Request, Enter, TurnAway, Answer,
                LoginFails, LoginVerifies, LoginRotates
  <2>7. CASE Visitor \/ Expires \/ UNCHANGED vars
    BY <2>2, <2>7 DEF Visitor, Expires, vars
  <2>8. QED  BY <1>1, <2>2, <2>5, <2>6, <2>7 DEF Next
<1>2. IInv /\ [Next]_vars => [Administrators # {} => Administrators' # {}]_vars
  BY <1>1
<1>3. QED  BY <1>2, Agreement, PTL DEF Spec, AdministratorRemains

---------------------------------------------------------------------------
(* Types.                                                                  *)

StoredSession == [who : Ids \cup {NoOne}, rev : 0 .. MaxEdits, as : Identity]
Requests == [pc : {"idle", "form", "read", "entered", "verified"},
             page : Tokens, does : {"view", "mutate", "logout", "login"},
             token : Tokens, csrf : Tokens, who : Ids \cup {NoOne},
             pw : Passwords \cup {NoOne}, as : Identity]
ReadIdentity == [busy : {TRUE}, id : Ids, perms : SUBSET Permissions, rev : 0 .. MaxEdits]

\* A list of sessions in which none comes twice, of those up to n.
OnceEach(list, n) ==
    /\ list \in Seq(1 .. MaxTokens)
    /\ \A k \in 1 .. Len(list) : list[k] <= n
    /\ \A j, k \in 1 .. Len(list) : list[j] = list[k] => j = k

RowsBounded == ident \in [Ids -> Identity]
StoreTyped ==
    /\ issued \in Tokens /\ sess \in [1 .. MaxTokens -> StoredSession]
    /\ OnceEach(order, issued) /\ expired \subseteq 1 .. MaxTokens
WebTyped == cookie \in Tokens /\ tab \in [Tabs -> Requests]
ShellTyped == shell \in [Operators -> {NoCommand} \cup ReadIdentity]

\* No session is stored twice because none is stored that was not issued, and each new
\* one is issued then.
Typed == RowsBounded /\ StoreTyped /\ WebTyped /\ ShellTyped

\* The ranks of the indices that stay are 1, 2, ...: each is taken once.
LEMMA RankOfEach ==
    ASSUME NEW indices, IsFiniteSet(indices), indices \subseteq Nat
    PROVE  /\ Cardinality(indices) \in Nat
           /\ \A i \in indices : Rank(indices, i) \in 1 .. Cardinality(indices)
           /\ \A k \in 1 .. Cardinality(indices) : \E i \in indices : Rank(indices, i) = k
<1> DEFINE upTo(i) == {j \in indices : j <= i}
           size == Cardinality(indices)
<1>1. \A i \in indices :
        IsFiniteSet(upTo(i)) /\ Cardinality(upTo(i)) \in Nat /\ Cardinality(upTo(i)) <= size
  <2> TAKE i \in indices
  <2>1. upTo(i) \in SUBSET indices  OBVIOUS
  <2>2. IsFiniteSet(upTo(i)) /\ Cardinality(upTo(i)) <= size  BY <2>1, FS_Subset
  <2>3. QED  BY <2>2, FS_CardinalityType
<1>2. size \in Nat  BY FS_CardinalityType
<1>3. \A i \in indices : Cardinality(upTo(i)) # 0
  <2> TAKE i \in indices
  <2>1. i \in upTo(i)  OBVIOUS
  <2>2. QED  BY <1>1, <2>1, FS_EmptySet
<1>4. \A i \in indices : Rank(indices, i) \in 1 .. size
  BY <1>1, <1>2, <1>3 DEF Rank
<1>5. ASSUME NEW i \in indices, NEW j \in indices, i < j
      PROVE  Rank(indices, i) < Rank(indices, j)
  <2>1. j \notin upTo(i) /\ upTo(i) \cup {j} \in SUBSET upTo(j)
    <3>1. i \in Nat /\ j \in Nat /\ \A k \in indices : k \in Nat  OBVIOUS
    <3>2. \A k \in indices : k <= i => k <= j  BY <1>5, <3>1
    <3>3. j \notin upTo(i) /\ j \in upTo(j)  BY <1>5, <3>1
    <3>4. QED  BY <3>2, <3>3
  <2>2. Cardinality(upTo(i) \cup {j}) = Cardinality(upTo(i)) + 1
    BY <1>1, <2>1, FS_AddElement
  <2>3. Cardinality(upTo(i) \cup {j}) <= Cardinality(upTo(j))
    BY <1>1, <2>1, FS_Subset
  <2>4. QED  BY <1>1, <2>2, <2>3 DEF Rank
<1>6. \A i, j \in indices : Rank(indices, i) = Rank(indices, j) => i = j
  <2>1. SUFFICES ASSUME NEW i \in indices, NEW j \in indices,
                        Rank(indices, i) = Rank(indices, j), i # j
                 PROVE  FALSE
    OBVIOUS
  <2>2. Rank(indices, i) \in Nat  BY <1>2, <1>4
  <2>3. i < j \/ j < i  BY <2>1
  <2>4. QED  BY <1>5, <2>1, <2>2, <2>3
<1>7. \A k \in 1 .. size : \E i \in indices : Rank(indices, i) = k
  <2> DEFINE rank == [i \in indices |-> Rank(indices, i)]
  <2>1. rank \in Injection(indices, 1 .. size)
    BY <1>4, <1>6 DEF Injection, IsInjective
  <2>2. IsFiniteSet(1 .. size) /\ Cardinality(1 .. size) = size
    BY <1>2, FS_Interval
  <2>3. rank \in Surjection(indices, 1 .. size)
    BY <2>1, <2>2, FS_Injection
  <2>4. QED  BY <2>3 DEF Surjection
<1>8. QED  BY <1>2, <1>4, <1>7

\* What a deletion leaves: stored sessions, each once, none of those deleted.
LEMMA WithoutIs ==
    ASSUME SessionsAssumption, NEW n \in Tokens, OnceEach(order, n), NEW tokens
    PROVE  /\ OnceEach(Without(tokens), n)
           /\ \A k \in 1 .. Len(Without(tokens)) : Without(tokens)[k] \notin tokens
<1> DEFINE S == Stored \ tokens
           indices == {i \in DOMAIN order : order[i] \in S}
           size == Cardinality(indices)
           at(k) == CHOOSE i \in indices : Rank(indices, i) = k
           left == [k \in 1 .. size |-> order[at(k)]]
<1>1. /\ DOMAIN order = 1 .. Len(order) /\ Len(order) \in Nat
      /\ \A i \in 1 .. Len(order) : order[i] \in 1 .. MaxTokens /\ order[i] <= n
      /\ \A i, j \in 1 .. Len(order) : order[i] = order[j] => i = j
  BY DEF OnceEach
<1>2. Without(tokens) = left  BY DEF Without, Kept
<1>3. IsFiniteSet(indices) /\ indices \subseteq Nat
  <2>1. IsFiniteSet(1 .. Len(order))  BY <1>1, FS_Interval
  <2>2. indices \in SUBSET (1 .. Len(order))  BY <1>1
  <2>3. IsFiniteSet(indices)  BY <2>1, <2>2, FS_Subset
  <2>4. QED  BY <1>1, <2>2, <2>3
<1>4. \A i \in indices : i \in 1 .. Len(order) /\ order[i] \notin tokens  BY <1>1
<1> HIDE DEF indices, S
<1>5. /\ size \in Nat
      /\ \A k \in 1 .. size : \E i \in indices : Rank(indices, i) = k
  BY <1>3, RankOfEach
<1>6. \A k \in 1 .. size : at(k) \in indices /\ Rank(indices, at(k)) = k  BY <1>5
<1> HIDE DEF size, at
<1>7. \A k \in 1 .. size :
        left[k] \in 1 .. MaxTokens /\ left[k] <= n /\ left[k] \notin tokens
  BY <1>1, <1>4, <1>6
<1>8. \A j, k \in 1 .. size : left[j] = left[k] => j = k
  BY <1>1, <1>4, <1>6
<1>9. left \in Seq(1 .. MaxTokens) /\ Len(left) = size  BY <1>5, <1>7
<1>10. QED  BY <1>2, <1>7, <1>8, <1>9 DEF OnceEach

\* A session at the end of a list it is not in.
LEMMA AppendedIs ==
    ASSUME SessionsAssumption, NEW n \in Tokens, NEW list, OnceEach(list, n),
           NEW t \in 1 .. MaxTokens, t <= n, \A k \in 1 .. Len(list) : list[k] # t
    PROVE  OnceEach(Append(list, t), n)
<1> DEFINE longer == Append(list, t)
<1>1. list \in Seq(1 .. MaxTokens) /\ Len(list) \in Nat  BY DEF OnceEach
<1>2. longer \in Seq(1 .. MaxTokens) /\ Len(longer) = Len(list) + 1  BY <1>1
<1>3. /\ \A k \in 1 .. Len(list) : longer[k] = list[k]
      /\ longer[Len(list) + 1] = t
  BY <1>1
<1>4. /\ \A k \in 1 .. Len(list) : list[k] <= n
      /\ \A j, k \in 1 .. Len(list) : list[j] = list[k] => j = k
  BY DEF OnceEach
<1> HIDE DEF longer
<1>5. \A k \in 1 .. Len(longer) : k \in 1 .. Len(list) \/ k = Len(list) + 1
  BY <1>1, <1>2
<1>6. \A k \in 1 .. Len(longer) : longer[k] <= n  BY <1>3, <1>4, <1>5
<1>7. \A j, k \in 1 .. Len(longer) : longer[j] = longer[k] => j = k
  BY <1>3, <1>4, <1>5
<1>8. QED  BY <1>2, <1>6, <1>7 DEF OnceEach, longer

\* sessions.py:94-118: a session that is looked up is the one most recently seen, or gone.
LEMMA GotIs ==
    ASSUME SessionsAssumption, StoreTyped, NEW t
    PROVE  OnceEach(Got(t), issued)
<1>1. issued \in Tokens /\ OnceEach(order, issued)  BY DEF StoreTyped
<1>2. /\ OnceEach(Without({t}), issued)
      /\ \A k \in 1 .. Len(Without({t})) : Without({t})[k] # t
  BY <1>1, WithoutIs
<1>3. Valid(t) => t \in 1 .. MaxTokens /\ t <= issued  BY <1>1 DEF Valid, Stored, OnceEach
<1>4. CASE Valid(t)
  <2>1. OnceEach(Append(Without({t}), t), issued)  BY <1>1, <1>2, <1>3, <1>4, AppendedIs
  <2>2. QED  BY <1>4, <2>1 DEF Got, Touched
<1>5. CASE ~Valid(t)  BY <1>2, <1>5 DEF Got
<1>6. QED  BY <1>4, <1>5

\* sessions.py:60-92: a new session, and at the limit one less of the others.
LEMMA CreatedIs ==
    ASSUME SessionsAssumption, StoreTyped, NEW s \in StoredSession, NEW old, Created(s, old),
           expired' = expired
    PROVE  StoreTyped' /\ issued' = issued + 1 /\ issued' \in 1 .. MaxTokens
<1> DEFINE rows == Without(expired \cup {old})
<1>1. issued \in Nat /\ issued < MaxTokens /\ issued' = issued + 1
  BY SessionsAssumption DEF StoreTyped, Created, Tokens
<1>2. /\ issued \in Tokens /\ issued' \in Tokens /\ issued' \in 1 .. MaxTokens
      /\ OnceEach(order, issued)
  BY <1>1, SessionsAssumption DEF StoreTyped, Tokens
<1>3. OnceEach(rows, issued)  BY <1>2, WithoutIs
<1> HIDE DEF rows
<1>4. OnceEach(Evicted(rows), issued)
  <2>1. CASE Len(rows) >= MaxSessions
    <3>1. rows \in Seq(1 .. MaxTokens) /\ Len(rows) \in Nat /\ Len(rows) # 0
      BY <1>3, <2>1, SessionsAssumption DEF OnceEach
    <3>2. /\ Tail(rows) \in Seq(1 .. MaxTokens) /\ Len(Tail(rows)) = Len(rows) - 1
          /\ \A k \in 1 .. Len(Tail(rows)) : Tail(rows)[k] = rows[k + 1]
      BY <3>1
    <3>3. \A k \in 1 .. Len(Tail(rows)) : k + 1 \in 1 .. Len(rows)  BY <3>1, <3>2
    <3>4. \A j, k \in 1 .. Len(Tail(rows)) : Tail(rows)[j] = Tail(rows)[k] => j = k
      BY <1>3, <3>1, <3>2, <3>3 DEF OnceEach
    <3>5. \A k \in 1 .. Len(Tail(rows)) : Tail(rows)[k] <= issued
      BY <1>3, <3>2, <3>3 DEF OnceEach
    <3>6. OnceEach(Tail(rows), issued)  BY <3>2, <3>4, <3>5 DEF OnceEach
    <3>7. QED  BY <2>1, <3>6 DEF Evicted
  <2>2. CASE ~(Len(rows) >= MaxSessions)  BY <1>3, <2>2 DEF Evicted
  <2>3. QED  BY <2>1, <2>2
<1>5. /\ OnceEach(Evicted(rows), issued')
      /\ \A k \in 1 .. Len(Evicted(rows)) : Evicted(rows)[k] # issued'
  <2>1. \A k \in 1 .. Len(Evicted(rows)) :
           Evicted(rows)[k] \in 1 .. MaxTokens /\ Evicted(rows)[k] <= issued
    BY <1>4 DEF OnceEach
  <2>2. \A k \in 1 .. Len(Evicted(rows)) :
           Evicted(rows)[k] <= issued' /\ Evicted(rows)[k] # issued'
    BY <1>1, <2>1
  <2>3. QED  BY <1>4, <2>2 DEF OnceEach
<1>6. OnceEach(Append(Evicted(rows), issued'), issued')
  BY <1>1, <1>2, <1>5, AppendedIs
<1>7. order' = Append(Evicted(rows), issued')  BY <1>1 DEF Created, rows
<1>8. sess' \in [1 .. MaxTokens -> StoredSession]  BY DEF StoreTyped, Created
<1>9. QED  BY <1>1, <1>2, <1>6, <1>7, <1>8 DEF StoreTyped

\* The row of no identity, as a session and a tab hold it.
LEMMA AbsentTyped ==
    ASSUME SessionsAssumption
    PROVE  Absent \in Identity /\ Anonymous \in StoredSession
<1>1. 0 \in 0 .. MaxEdits  BY SessionsAssumption
<1>2. Absent \in Identity  BY <1>1 DEF Absent, Identity
<1>3. QED  BY <1>1, <1>2 DEF Anonymous, Session, StoredSession

LEMMA NoRequestTyped ==
    ASSUME SessionsAssumption, NEW page \in Tokens
    PROVE  NoRequest(page) \in Requests
<1>1. 0 \in Tokens  BY SessionsAssumption DEF Tokens
<1>2. QED  BY <1>1, AbsentTyped DEF NoRequest, Requests

\* A tab that takes a step to a request of its type.
LEMMA TabGoesOn ==
    ASSUME WebTyped, cookie' \in Tokens, NEW t \in Tabs, NEW r \in Requests,
           tab' = [tab EXCEPT ![t] = r]
    PROVE  WebTyped'
BY DEF WebTyped

LEMMA TabOf ==
    ASSUME WebTyped, NEW t \in Tabs
    PROVE  /\ tab[t] \in Requests /\ tab[t].page \in Tokens /\ tab[t].token \in Tokens
           /\ tab[t].who \in Ids \cup {NoOne} /\ tab[t].as \in Identity /\ cookie \in Tokens
BY DEF WebTyped, Requests

\* The bound on the changes of all identities bounds those of each.
LEMMA EditsBound ==
    ASSUME SessionsAssumption, RowsBounded, NEW i \in Ids, Edits < MaxEdits
    PROVE  ident[i].rev < MaxEdits
<1> DEFINE edits == {e \in Ids \X (1 .. MaxEdits) : e[2] <= ident[e[1]].rev}
<1>1. MaxEdits \in Nat /\ IsFiniteSet(Ids) /\ IsFiniteSet(1 .. MaxEdits) /\ Cardinality(1 .. MaxEdits) = MaxEdits
  BY SessionsAssumption, FS_Interval
<1>2. ident[i].rev \in 0 .. MaxEdits  BY DEF RowsBounded, Identity
<1>3. SUFFICES ASSUME ident[i].rev = MaxEdits  PROVE FALSE
  BY <1>1, <1>2
<1>4. IsFiniteSet(edits)
  <2>1. IsFiniteSet(Ids \X (1 .. MaxEdits))  BY <1>1, FS_Product
  <2>2. edits \in SUBSET (Ids \X (1 .. MaxEdits))  OBVIOUS
  <2>3. QED  BY <2>1, <2>2, FS_Subset
<1> DEFINE at == [n \in 1 .. MaxEdits |-> <<i, n>>]
<1>5. at \in Injection(1 .. MaxEdits, edits)
  <2>1. \A n \in 1 .. MaxEdits : <<i, n>> \in edits  BY <1>1, <1>3
  <2>2. \A m, n \in 1 .. MaxEdits : <<i, m>> = <<i, n>> => m = n  OBVIOUS
  <2> HIDE DEF edits
  <2>3. at \in [1 .. MaxEdits -> edits]  BY <2>1
  <2>4. QED  BY <2>2, <2>3 DEF Injection, IsInjective
<1>6. Cardinality(1 .. MaxEdits) <= Cardinality(edits)
  BY <1>1, <1>4, <1>5, FS_Injection
<1>7. Cardinality(edits) \in Nat  BY <1>4, FS_CardinalityType
<1>8. QED  BY <1>1, <1>6, <1>7 DEF Edits

\* An update keeps the row of its identity a row, within the bound.
LEMMA EditedTyped ==
    ASSUME SessionsAssumption, NEW row \in Identity, row.rev < MaxEdits, NEW cmd \in Commands,
           NEW perms \in SUBSET Permissions
    PROVE  Edited(row, cmd, perms) \in Identity
<1>1. MaxEdits \in Nat  BY SessionsAssumption
<1>2. row \in Row /\ row.rev \in Nat
  <2>1. row.rev \in 0 .. MaxEdits  BY DEF Identity
  <2>2. row.rev \in Nat  BY <1>1, <2>1
  <2>3. QED  BY <2>2 DEF Identity, Row
<1>3. Edited(row, cmd, perms) \in Row /\ Edited(row, cmd, perms).rev = row.rev + 1
  BY <1>2, EditedRow
<1>4. Edited(row, cmd, perms).rev \in 0 .. MaxEdits  BY <1>1, <1>2, <1>3
<1>5. QED  BY <1>3, <1>4 DEF Row, Identity

\* The administration command.
LEMMA CommandTyped ==
    ASSUME SessionsAssumption, IInv, Typed, Administration
    PROVE  Typed'
<1> USE DEF Typed
<1>1. ASSUME NEW i \in Ids, NEW admin \in BOOLEAN, NEW perms \in SUBSET Permissions,
             CreateIdentity(i, admin, perms)
      PROVE  Typed'
  <2>1. PICK pw \in Passwords :
           ident' = [ident EXCEPT ![i] = [exists |-> TRUE, enabled |-> TRUE, admin |-> admin,
                                          perms |-> perms, pw |-> pw, rev |-> 0]]
    BY <1>1 DEF CreateIdentity
  <2> DEFINE new == [exists |-> TRUE, enabled |-> TRUE, admin |-> admin,
                     perms |-> perms, pw |-> pw, rev |-> 0]
  <2>2. 0 \in 0 .. MaxEdits  BY SessionsAssumption
  <2>3. new \in Identity  BY <2>1, <2>2 DEF Identity
  <2>4. ident' = [ident EXCEPT ![i] = new]  BY <2>1
  <2> HIDE DEF new
  <2>5. RowsBounded'  BY <2>3, <2>4 DEF RowsBounded
  <2>6. UNCHANGED <<sess, order, issued, expired, cookie, tab, shell>>
    BY <1>1 DEF CreateIdentity
  <2>7. QED  BY <2>5, <2>6 DEF StoreTyped, WebTyped, ShellTyped
<1>2. ASSUME NEW o \in Operators, NEW i \in Ids, CommandReads(o, i)  PROVE Typed'
  <2> DEFINE s == [busy |-> TRUE, id |-> i, perms |-> ident[i].perms, rev |-> ident[i].rev]
  <2>1. ident[i] \in Identity  BY DEF RowsBounded
  <2>2. s \in ReadIdentity  BY <2>1 DEF Identity, ReadIdentity
  <2>3. shell' = [shell EXCEPT ![o] = s]  BY <1>2 DEF CommandReads
  <2> HIDE DEF s
  <2>4. ShellTyped'  BY <2>2, <2>3 DEF ShellTyped
  <2>5. UNCHANGED <<ident, sess, order, issued, expired, cookie, tab>>
    BY <1>2 DEF CommandReads
  <2>6. QED  BY <2>4, <2>5 DEF RowsBounded, StoreTyped, WebTyped
<1>3. ASSUME NEW o \in Operators, NEW c \in Commands, CommandUpdates(o, c)  PROVE Typed'
  <2> DEFINE i == shell[o].id
             new == Edited(ident[i], c, shell[o].perms)
             gone == {t \in Stored : sess[t].who = i}
  <2>1. i \in Ids /\ shell[o].perms \in SUBSET Permissions
    BY <1>3 DEF CommandUpdates, IInv, ShellOK, ShellSnap
  <2>2. Edits < MaxEdits /\ ident' = [ident EXCEPT ![i] = new] /\ order' = Without(gone)
    BY <1>3 DEF CommandUpdates
  <2>3. ident[i] \in Identity /\ ident[i].rev < MaxEdits
    BY <2>1, <2>2, EditsBound DEF RowsBounded
  <2>4. new \in Identity  BY <2>1, <2>3, EditedTyped
  <2> HIDE DEF new, i, gone
  <2>5. RowsBounded'  BY <2>2, <2>4 DEF RowsBounded
  <2>6. UNCHANGED <<sess, issued, expired, cookie, tab>> /\ shell' = [shell EXCEPT ![o] = NoCommand]
    BY <1>3 DEF CommandUpdates
  <2>7. OnceEach(Without(gone), issued)  BY WithoutIs DEF StoreTyped
  <2>8. StoreTyped'  BY <2>2, <2>6, <2>7 DEF StoreTyped
  <2>9. ShellTyped'  BY <2>6 DEF ShellTyped
  <2>10. QED  BY <2>5, <2>6, <2>8, <2>9 DEF WebTyped
<1>4. ASSUME NEW o \in Operators, NEW c \in Commands, CommandFails(o, c)  PROVE Typed'
  <2>1. /\ UNCHANGED <<ident, sess, order, issued, expired, cookie, tab>>
        /\ shell' = [shell EXCEPT ![o] = NoCommand]
    BY <1>4 DEF CommandFails
  <2>2. ShellTyped'  BY <2>1 DEF ShellTyped
  <2>3. QED  BY <2>1, <2>2 DEF RowsBounded, StoreTyped, WebTyped
<1>5. TRUE \in BOOLEAN /\ FALSE \in BOOLEAN /\ {} \in SUBSET Permissions
      /\ Permissions \in SUBSET Permissions
  OBVIOUS
<1>6. QED  BY <1>1, <1>2, <1>3, <1>4, <1>5 DEF Administration

\* A handler whose tab goes on, or whose session is looked up or deleted.
LEMMA HandlerTyped ==
    ASSUME SessionsAssumption, IInv, Typed, UNCHANGED <<ident, expired, shell>>,
           StoreTyped', WebTyped'
    PROVE  Typed'
BY DEF Typed, RowsBounded, ShellTyped

LEMMA StoreSame ==
    ASSUME StoreTyped, UNCHANGED <<sess, issued, expired>>, OnceEach(order', issued)
    PROVE  StoreTyped'
BY DEF StoreTyped

\* GET /portal/login, and a visitor's.
LEMMA PagesTyped ==
    ASSUME SessionsAssumption, IInv, Typed, Visitor \/ \E t \in Tabs : LoginPage(t)
    PROVE  Typed'
<1> USE DEF Typed
<1>1. Anonymous \in StoredSession  BY AbsentTyped
<1>2. CASE Visitor
  <2>1. Created(Anonymous, 0) /\ UNCHANGED <<ident, expired, cookie, tab, shell>>
    BY <1>2 DEF Visitor
  <2>2. StoreTyped'  BY <1>1, <2>1, CreatedIs
  <2>3. QED  BY <2>1, <2>2, HandlerTyped DEF WebTyped
<1>3. ASSUME NEW t \in Tabs, NEW p \in Tokens, tab' = [tab EXCEPT ![t].page = p],
             cookie' \in Tokens
      PROVE  WebTyped'
  <2> DEFINE r == [tab[t] EXCEPT !.page = p]
  <2>1. tab[t] \in Requests  BY TabOf
  <2>2. r \in Requests  BY <2>1 DEF Requests
  <2>3. tab' = [tab EXCEPT ![t] = r]  BY <1>3 DEF WebTyped
  <2> HIDE DEF r
  <2>4. QED  BY <1>3, <2>2, <2>3, TabGoesOn
<1>4. ASSUME NEW t \in Tabs, LoginPage(t)  PROVE Typed'
  <2>1. UNCHANGED <<ident, expired, shell>> /\ cookie \in Tokens
    BY <1>4 DEF LoginPage, WebTyped
  <2>2. CASE Valid(cookie)
    <3>1. /\ order' = Got(cookie) /\ tab' = [tab EXCEPT ![t].page = cookie]
          /\ UNCHANGED <<sess, issued, cookie>>
      BY <1>4, <2>2 DEF LoginPage
    <3>2. OnceEach(Got(cookie), issued)  BY GotIs
    <3>3. StoreTyped'  BY <2>1, <3>1, <3>2, StoreSame
    <3>4. WebTyped'  BY <1>3, <2>1, <3>1
    <3>5. QED  BY <2>1, <3>3, <3>4, HandlerTyped
  <2>3. CASE ~Valid(cookie)
    <3>1. /\ Created(Anonymous, cookie) /\ cookie' = issued + 1
          /\ tab' = [tab EXCEPT ![t].page = issued + 1]
      BY <1>4, <2>3 DEF LoginPage
    <3>2. StoreTyped' /\ issued' = issued + 1 /\ issued' \in 1 .. MaxTokens
      BY <1>1, <2>1, <3>1, CreatedIs
    <3>3. issued' \in Tokens  BY <3>2 DEF StoreTyped
    <3>4. WebTyped'  BY <1>3, <3>1, <3>2, <3>3
    <3>5. QED  BY <2>1, <3>2, <3>4, HandlerTyped
  <2>4. QED  BY <2>2, <2>3
<1>5. QED  BY <1>2, <1>4

\* The first steps of a login and of a protected request.
LEMMA StartsTyped ==
    ASSUME SessionsAssumption, IInv, Typed, NEW t \in Tabs,
           \/ \E i \in Ids, pw \in Passwords : SubmitLogin(t, i, pw)
           \/ \E does \in {"view", "mutate", "logout"} : Request(t, does)
    PROVE  Typed'
<1> USE DEF Typed
<1>1. /\ UNCHANGED <<ident, sess, issued, expired, cookie, shell>> /\ order' = Got(cookie)
  BY DEF SubmitLogin, Request
<1>2. OnceEach(Got(cookie), issued)  BY GotIs
<1>3. StoreTyped'  BY <1>1, <1>2, StoreSame
<1>4. /\ tab[t] \in Requests /\ cookie \in Tokens /\ tab[t].page \in Tokens
      /\ cookie' \in Tokens
  BY <1>1, TabOf
<1>5. ASSUME NEW does \in {"view", "mutate", "logout", "login"}  PROVE Asks(t, does) \in Requests
  BY <1>4 DEF Asks, Requests
<1>6. ASSUME NEW i \in Ids, NEW pw \in Passwords, SubmitLogin(t, i, pw)  PROVE WebTyped'
  <2> DEFINE a == Asks(t, "login")
             r == [a EXCEPT !.pc = "form", !.who = i, !.pw = pw]
  <2>1. a \in Requests  BY <1>5
  <2>2. tab' = IF Valid(cookie) THEN [tab EXCEPT ![t] = r] ELSE tab  BY <1>6 DEF SubmitLogin
  <2> HIDE DEF a
  <2>3. r \in Requests  BY <2>1 DEF Requests
  <2> HIDE DEF r
  <2>4. QED  BY <1>1, <1>4, <2>2, <2>3, TabGoesOn DEF WebTyped
<1>7. ASSUME NEW does \in {"view", "mutate", "logout"}, Request(t, does)  PROVE WebTyped'
  <2> DEFINE a == Asks(t, does)
             who == sess[cookie].who
             r == [a EXCEPT !.pc = "read", !.who = who]
             enters == Valid(cookie) /\ who # NoOne
  <2>1. a \in Requests  BY <1>5
  <2>2. tab' = IF enters THEN [tab EXCEPT ![t] = r] ELSE tab  BY <1>7 DEF Request
  <2>3. enters => who \in Ids \cup {NoOne}
    <3>1. enters => cookie \in 1 .. MaxTokens  BY DEF Valid, Stored, StoreTyped, OnceEach
    <3>2. \A k \in 1 .. MaxTokens : sess[k].who \in Ids \cup {NoOne}
      BY DEF StoreTyped, StoredSession
    <3>3. QED  BY <3>1, <3>2
  <2> HIDE DEF a, who
  <2>4. enters => r \in Requests  BY <2>1, <2>3 DEF Requests
  <2> HIDE DEF r, enters
  <2>5. QED  BY <1>1, <1>4, <2>2, <2>4, TabGoesOn DEF WebTyped
<1>8. WebTyped'  BY <1>6, <1>7
<1>9. QED  BY <1>1, <1>3, <1>8, HandlerTyped

\* The steps that hold the row of their identity.
LEMMA HoldsTyped ==
    ASSUME SessionsAssumption, IInv, Typed, NEW t \in Tabs, Enter(t) \/ LoginVerifies(t)
    PROVE  Typed'
<1> USE DEF Typed
<1>1. /\ UNCHANGED <<ident, sess, order, issued, expired, cookie, shell>>
      /\ tab[t].pc = "read" \/ tab[t].pc = "form"
      /\ \/ tab' = [tab EXCEPT ![t].pc = "entered", ![t].as = ident[tab[t].who]]
         \/ tab' = [tab EXCEPT ![t].pc = "verified", ![t].as = ident[tab[t].who]]
  BY DEF Enter, LoginVerifies
<1>2. tab[t] \in Requests /\ cookie \in Tokens  BY TabOf
<1>3. tab[t].who \in Ids
  <2>1. TabSnap(tab[t]) /\ tab[t].who \in Ids \cup {NoOne}  BY TabFacts, TabOf
  <2>2. QED  BY <1>1, <2>1 DEF TabSnap
<1>4. ident[tab[t].who] \in Identity  BY <1>3 DEF RowsBounded
<1>5. ASSUME NEW pc \in {"entered", "verified"},
             tab' = [tab EXCEPT ![t].pc = pc, ![t].as = ident[tab[t].who]]
      PROVE  WebTyped'
  <2> DEFINE r == [tab[t] EXCEPT !.pc = pc, !.as = ident[tab[t].who]]
  <2>1. r \in Requests  BY <1>2, <1>4 DEF Requests
  <2>2. tab' = [tab EXCEPT ![t] = r]  BY <1>5 DEF WebTyped
  <2> HIDE DEF r
  <2>3. QED  BY <1>1, <1>2, <2>1, <2>2, TabGoesOn
<1>6. WebTyped'  BY <1>1, <1>5
<1>7. StoreTyped'  BY <1>1 DEF StoreTyped
<1>8. QED  BY <1>1, <1>6, <1>7, HandlerTyped

\* The steps that end a request.
LEMMA EndsTyped ==
    ASSUME SessionsAssumption, IInv, Typed, NEW t \in Tabs,
           TurnAway(t) \/ Answer(t) \/ LoginFails(t) \/ LoginRotates(t)
    PROVE  Typed'
<1> USE DEF Typed
<1>1. /\ tab[t].page \in Tokens /\ tab[t].token \in Tokens /\ cookie \in Tokens
      /\ tab[t].who \in Ids \cup {NoOne} /\ tab[t].as \in Identity
  BY TabOf
<1>2. 0 \in Tokens  BY SessionsAssumption DEF Tokens
<1>3. ASSUME NEW p \in Tokens, tab' = [tab EXCEPT ![t] = NoRequest(p)], cookie' \in Tokens
      PROVE  WebTyped'
  BY <1>3, NoRequestTyped, TabGoesOn
<1>4. CASE TurnAway(t) \/ Answer(t) \/ LoginFails(t)
  <2>1. /\ UNCHANGED <<ident, sess, issued, expired, shell>>
        /\ cookie' = cookie \/ cookie' = 0
        /\ order' = order \/ order' = Without({tab[t].token})
        /\ \/ tab' = [tab EXCEPT ![t] = NoRequest(tab[t].page)]
           \/ tab' = [tab EXCEPT ![t] = NoRequest(tab[t].token)]
           \/ tab' = [tab EXCEPT ![t] = NoRequest(0)]
    BY <1>4 DEF TurnAway, Answer, LoginFails
  <2>2. WebTyped'  BY <1>1, <1>2, <1>3, <2>1
  <2>3. OnceEach(order', issued)  BY <2>1, WithoutIs DEF StoreTyped
  <2>4. StoreTyped'  BY <2>1, <2>3, StoreSame
  <2>5. QED  BY <2>1, <2>2, <2>4, HandlerTyped
<1>5. CASE LoginRotates(t)
  <2> DEFINE s == Session(tab[t].who, tab[t].as.rev, tab[t].as)
  <2>1. /\ Created(s, tab[t].token) /\ cookie' = issued + 1
        /\ tab' = [tab EXCEPT ![t] = NoRequest(tab[t].page)]
        /\ UNCHANGED <<ident, expired, shell>>
    BY <1>5 DEF LoginRotates
  <2>2. tab[t].as.rev \in 0 .. MaxEdits  BY <1>1 DEF Identity
  <2>3. s \in StoredSession  BY <1>1, <2>2 DEF Session, StoredSession
  <2> HIDE DEF s
  <2>4. StoreTyped' /\ issued' = issued + 1  BY <2>1, <2>3, CreatedIs
  <2>5. issued' \in Tokens  BY <2>4 DEF StoreTyped
  <2>6. WebTyped'  BY <1>1, <1>3, <2>1, <2>4, <2>5
  <2>7. QED  BY <2>1, <2>4, <2>6, HandlerTyped
<1>6. QED  BY <1>4, <1>5

LEMMA NextTyped ==
    ASSUME SessionsAssumption, IInv, Typed, [Next]_vars
    PROVE  Typed'
<1>1. ASSUME NEW t \in Tabs, Handler(t)  PROVE Typed'
  <2>1. CASE LoginPage(t)  BY <2>1, PagesTyped
  <2>2. CASE \/ \E i \in Ids, pw \in Passwords : SubmitLogin(t, i, pw)
             \/ \E does \in {"view", "mutate", "logout"} : Request(t, does)
    BY <2>2, StartsTyped
  <2>3. CASE Enter(t) \/ LoginVerifies(t)  BY <2>3, HoldsTyped
  <2>4. CASE TurnAway(t) \/ Answer(t) \/ LoginFails(t) \/ LoginRotates(t)  BY <2>4, EndsTyped
  <2>5. QED  BY <1>1, <2>1, <2>2, <2>3, <2>4 DEF Handler
<1>2. CASE Visitor  BY <1>2, PagesTyped
<1>3. CASE Expires
  <2>1. PICK t \in Stored : expired' = expired \cup {t}  BY <1>3 DEF Expires
  <2>2. t \in 1 .. MaxTokens  BY DEF Stored, Typed, StoreTyped, OnceEach
  <2>3. UNCHANGED <<ident, sess, order, issued, cookie, tab, shell>>  BY <1>3 DEF Expires
  <2>4. QED  BY <2>1, <2>2, <2>3 DEF Typed, RowsBounded, StoreTyped, WebTyped, ShellTyped
<1>4. CASE Administration  BY <1>4, CommandTyped
<1>5. CASE UNCHANGED vars
  BY <1>5 DEF vars, Typed, RowsBounded, StoreTyped, WebTyped, ShellTyped
<1>6. QED  BY <1>1, <1>2, <1>3, <1>4, <1>5 DEF Next

LEMMA InitTyped == SessionsAssumption /\ Init => Typed
<1> SUFFICES ASSUME SessionsAssumption, Init PROVE Typed  OBVIOUS
<1> USE DEF Init
<1>1. 0 \in Tokens  BY SessionsAssumption DEF Tokens
<1>2. Absent \in Identity /\ Anonymous \in StoredSession  BY AbsentTyped
<1>3. NoRequest(0) \in Requests  BY <1>1, NoRequestTyped
<1>4. OnceEach(order, issued)  BY DEF OnceEach
<1>5. QED  BY <1>1, <1>2, <1>3, <1>4 DEF Typed, RowsBounded, StoreTyped, WebTyped, ShellTyped

\* A list with each session once has as many sessions as places.
LEMMA StoredOnce ==
    ASSUME SessionsAssumption, NEW n \in Tokens, OnceEach(order, n)
    PROVE  Cardinality(Stored) = Len(order)
<1> DEFINE at == [k \in 1 .. Len(order) |-> order[k]]
<1>1. Len(order) \in Nat  BY DEF OnceEach
<1>2. IsFiniteSet(1 .. Len(order)) /\ Cardinality(1 .. Len(order)) = Len(order)
  <2>1. 1 \in Int /\ Len(order) \in Int  BY <1>1
  <2>2. /\ IsFiniteSet(1 .. Len(order))
        /\ Cardinality(1 .. Len(order)) = IF 1 > Len(order) THEN 0 ELSE Len(order) - 1 + 1
    BY <2>1, FS_Interval, Zenon
  <2>3. QED  BY <2>2, <1>1
<1>3. at \in Bijection(1 .. Len(order), Stored)
  <2>1. at \in [1 .. Len(order) -> Stored]  BY DEF Stored
  <2>2. \A j, k \in 1 .. Len(order) : at[j] = at[k] => j = k  BY DEF OnceEach
  <2>3. \A x \in Stored : \E k \in 1 .. Len(order) : at[k] = x  BY DEF Stored
  <2> HIDE DEF at
  <2>4. DOMAIN at = 1 .. Len(order)  BY <2>1
  <2>5. QED  BY <2>1, <2>2, <2>3, <2>4 DEF Bijection, Injection, Surjection, IsInjective
<1>4. ExistsBijection(1 .. Len(order), Stored)
  <2> HIDE DEF at
  <2>1. QED  BY <1>3 DEF ExistsBijection
<1>5. Cardinality(Stored) = Cardinality(1 .. Len(order))  BY <1>2, <1>4, FS_Bijection
<1>6. QED  BY <1>2, <1>5, Zenon

\* identity.py:88-95, sessions.py:28-45: every variable keeps its type (a revision stays
\* within the bound the edits have), and no session is stored twice, whatever tabs, visitors and commands do.
THEOREM SessionsTyped == Spec => []TypeOK
<1>1. Init => Typed  BY InitTyped, SessionsAssumption
<1>2. IInv /\ Typed /\ [Next]_vars => Typed'  BY NextTyped, SessionsAssumption
<1>3. Typed => TypeOK
  <2>1. SUFFICES ASSUME Typed PROVE TypeOK  OBVIOUS
  <2>2. issued \in Tokens /\ OnceEach(order, issued)  BY <2>1 DEF Typed, StoreTyped
  <2>3. order \in Seq(1 .. MaxTokens) /\ Cardinality(Stored) = Len(order)
    BY <2>2, StoredOnce, SessionsAssumption DEF OnceEach
  <2>4. /\ ident \in [Ids -> Identity] /\ sess \in [1 .. MaxTokens -> StoredSession]
        /\ expired \subseteq 1 .. MaxTokens /\ cookie \in Tokens
        /\ tab \in [Tabs -> Requests] /\ shell \in [Operators -> {NoCommand} \cup ReadIdentity]
    BY <2>1 DEF Typed, RowsBounded, StoreTyped, WebTyped, ShellTyped
  <2>5. QED  BY <2>2, <2>3, <2>4 DEF TypeOK, StoredSession, Requests, ReadIdentity
<1>4. QED  BY <1>1, <1>2, <1>3, Agreement, PTL DEF Spec
=============================================================================
