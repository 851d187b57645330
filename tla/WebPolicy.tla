------------------------------ MODULE WebPolicy -----------------------------
(***************************************************************************)
(* How the portal lets a mutation through (portal/web.py,                  *)
(* portal/management.py): the browser routes and the JSON API share the    *)
(* application, its authorizer and its sliding-window limiters.  A browser *)
(* request reads its principal before it awaits the form.  What a mutation *)
(* then does is the subject of the other modules of the portal.            *)
(***************************************************************************)
EXTENDS Naturals, Sequences, SequencesExt

CONSTANTS
    WebActors,    \* principals, and one peer that presents no valid token
    WebSlots,     \* requests under way at a time
    WebLimit,     \* mutations of a key within a window
    WebWindow,
    WebMax        \* bound on the clock

ASSUME WebAssumption == WebLimit \in Nat \ {0} /\ WebWindow \in Nat \ {0} /\ WebMax \in Nat

VARIABLES
    webKind,     \* the kind of the mutations of this history: keys of two kinds never meet
    webNow,
    policy,      \* the permissions the policy store grants each principal now
    hits,        \* SlidingWindowLimiter._hits: the instants of each principal's key
    web,         \* each request: [at, actor, permissions], as the handler holds them
    ran          \* history: the last WebLimit + 1 instants at which a mutation of a key ran

webVars == <<webKind, webNow, policy, hits, web, ran>>

Kinds == {"lifecycle", "application", "backup", "scheduler"}
\* The limiters' keys name the kind, the principal and the bot; those of lifecycle are the
\* same for both transports.  Nothing limits the scheduler's routes.
Limited == {"lifecycle", "application", "backup"}
NoWeb == [at |-> "no", actor |-> "none", permissions |-> {}]
Latest(times) == IF Len(times) > WebLimit + 1 THEN Tail(times) ELSE times
WebEnds(r) == web' = [web EXCEPT ![r] = NoWeb]

KeepsHalf(old) == SelectSeq(old, LAMBDA t : 2 * (webNow - t) < WebWindow)   \* mutant
\* Instants a whole window ago are dropped, from the oldest on.
IsRecent(t) == t + WebWindow > webNow
FirstRecent(old) ==
    CHOOSE i \in 1 .. Len(old) + 1 :
        (i <= Len(old) => IsRecent(old[i])) /\ \A j \in 1 .. i - 1 : ~IsRecent(old[j])
Recent(old) == SubSeq(old, FirstRecent(old), Len(old))
\* allow
HasRoom(a) == Len(Recent(hits[a])) < WebLimit
Counts(a) == hits' = [hits EXCEPT ![a] = IF HasRoom(a) THEN Append(Recent(@), webNow) ELSE Recent(@)]

\* A bearer token no principal has: limited by the peer.
AuthenticationFails(a) ==
    /\ webKind = "authentication" /\ Counts(a)
    /\ UNCHANGED <<webKind, webNow, policy, web, ran>>

\* A valid token, or a session: the principal is read; the browser's form is awaited.
WebArrives(r, a, browser) ==
    /\ web[r].at = "no" /\ webKind \in Kinds
    /\ web' = [web EXCEPT ![r] = [at |-> IF browser THEN "form" ELSE "handle",
                                  actor |-> a, permissions |-> policy[a]]]
    /\ UNCHANGED <<webKind, webNow, policy, hits, ran>>

\* The token of the session is in the form, or the request ends.
FormArrives(r) ==
    /\ web[r].at = "form"
    /\ WebEnds(r) \/ web' = [web EXCEPT ![r].at = "handle"]
    /\ UNCHANGED <<webKind, webNow, policy, hits, ran>>

\* lifecycle asks for the permission before it counts, the others count first; the
\* scheduler asks for it alone.
WebHandles(r) ==
    /\ web[r].at = "handle"
    /\ LET a == web[r].actor
           permitted == webKind \in web[r].permissions
           counted == webKind \in Limited /\ (webKind = "lifecycle" => permitted)
       IN  /\ IF counted THEN Counts(a) ELSE UNCHANGED hits
           /\ ran' = IF permitted /\ (counted => HasRoom(a))
                     THEN [ran EXCEPT ![a] = Latest(Append(@, webNow))] ELSE ran
    /\ WebEnds(r) /\ UNCHANGED <<webKind, webNow, policy>>

\* An administrator of the policy store.
PolicyChanges(a, granted) ==
    /\ granted # policy[a] /\ policy' = [policy EXCEPT ![a] = granted]
    /\ UNCHANGED <<webKind, webNow, hits, web, ran>>

WebTicks ==
    /\ webNow < WebMax /\ webNow' = webNow + 1
    /\ UNCHANGED <<webKind, policy, hits, web, ran>>

WebInit ==
    /\ webKind \in Kinds \cup {"authentication"} /\ webNow = 0 /\ policy = [a \in WebActors |-> {webKind}] /\ hits = [a \in WebActors |-> <<>>]
    /\ web = [r \in WebSlots |-> NoWeb] /\ ran = [a \in WebActors |-> <<>>]

WebNext ==
    \/ \E a \in WebActors : AuthenticationFails(a) \/ \E granted \in {{}, {webKind}} : PolicyChanges(a, granted)
    \/ \E r \in WebSlots :
         \/ \E a \in WebActors, browser \in BOOLEAN : WebArrives(r, a, browser)
         \/ FormArrives(r) \/ WebHandles(r)
    \/ WebTicks

WebSpec == WebInit /\ [][WebNext]_webVars

---------------------------------------------------------------------------

WebTypeOK ==
    /\ webNow \in 0 .. WebMax /\ \A a \in WebActors : Len(hits[a]) <= WebLimit
    /\ \A r \in WebSlots : web[r].at \in {"no", "form", "handle"}

Spaced(times) == Len(times) = WebLimit + 1 => Last(times) - Head(times) >= WebWindow
\* However browser and API requests overlap, no window of any position holds more mutations
\* of a principal than the limit.
WindowHolds == webKind \in Limited => \A a \in WebActors : Spaced(ran[a])
=============================================================================
