------------------------------ MODULE ApiPacer ------------------------------
(***************************************************************************)
(* The pacing gate of UNBOT's Habbo requests: wait_for_api_request_slot,   *)
(* delay_api_requests and their callers.  The scan, the slash commands and *)
(* the username finder are requesters that share one gate while the        *)
(* watcher is loaded.  A requester takes the gate's lock, sleeps until the *)
(* next slot, moves the slot on and sends; an answer 429 moves it further. *)
(***************************************************************************)
EXTENDS Naturals, FiniteSets, FiniteSetsExt

CONSTANTS
    Requesters,   \* the tasks that send requests
    Interval,     \* API_REQUEST_INTERVAL_SECONDS, in ticks
    RetryAfter,   \* the values of the retry-after header
    PaceMax       \* bound on the clock

NoOne == "no requester"

ASSUME PaceAssumption ==
    /\ NoOne \notin Requesters
    /\ Interval \in Nat \ {0} /\ RetryAfter \subseteq Nat \ {0}
    /\ PaceMax \in Nat /\ Interval <= PaceMax

VARIABLES
    pNow,       \* time.monotonic
    nextAt,     \* _next_api_request_at
    gate,       \* _api_request_lock: its holder, or NoOne
    step,       \* of each requester
    wake,       \* when a sleeping requester wakes
    lastSent,   \* history: when the last request was sent, or 0
    gap         \* history: the shortest time between two requests so far, or PaceMax

paceVars == <<pNow, nextAt, gate, step, wake, lastSent, gap>>

LeastOf(S) == Min(S)

GateOpen(r) == TRUE   \* mutant
GateFree(r) == gate = NoOne

\* The slot is taken: the next one is an interval later.
TakesSlot(r) ==
    /\ nextAt' = pNow + Interval
    /\ gate' = NoOne
    /\ step' = [step EXCEPT ![r] = "sent"]
    /\ gap' = IF lastSent = 0 THEN gap ELSE LeastOf({gap, pNow - lastSent})
    /\ lastSent' = pNow

\* Enter the gate: sleep when the slot lies ahead.
EntersGate(r) ==
    /\ step[r] = "idle" /\ GateFree(r)
    /\ IF nextAt > pNow
       THEN /\ gate' = r
            /\ step' = [step EXCEPT ![r] = "sleeping"]
            /\ wake' = [wake EXCEPT ![r] = nextAt]
            /\ UNCHANGED <<nextAt, lastSent, gap>>
       ELSE TakesSlot(r) /\ UNCHANGED wake
    /\ UNCHANGED pNow

\* The delay was computed before the sleep; it is not computed again.
Wakes(r) ==
    /\ step[r] = "sleeping" /\ pNow >= wake[r]
    /\ TakesSlot(r)
    /\ wake' = [wake EXCEPT ![r] = 0]
    /\ UNCHANGED pNow

\* fetch_json, check_username: an answer, a failure or a missing profile.
Answered(r) ==
    /\ step[r] = "sent"
    /\ step' = [step EXCEPT ![r] = "idle"]
    /\ UNCHANGED <<pNow, nextAt, gate, wake, lastSent, gap>>

\* delay_api_requests
RateLimited(r, after) ==
    /\ step[r] = "sent"
    /\ step' = [step EXCEPT ![r] = "idle"]
    /\ nextAt' = Max({nextAt, pNow + after})
    /\ UNCHANGED <<pNow, gate, wake, lastSent, gap>>

\* A sleeper may wake late.
PaceTick ==
    /\ pNow < PaceMax
    /\ pNow' = pNow + 1
    /\ UNCHANGED <<nextAt, gate, step, wake, lastSent, gap>>

PaceInit ==
    /\ pNow = 1 /\ nextAt = 0 /\ gate = NoOne
    /\ step = [r \in Requesters |-> "idle"]
    /\ wake = [r \in Requesters |-> 0]
    /\ lastSent = 0 /\ gap = PaceMax

PaceNext ==
    \/ \E r \in Requesters : EntersGate(r) \/ Wakes(r) \/ Answered(r)
    \/ \E r \in Requesters, after \in RetryAfter : RateLimited(r, after)
    \/ PaceTick

PaceSpec == PaceInit /\ [][PaceNext]_paceVars

---------------------------------------------------------------------------

PaceTypeOK ==
    /\ pNow \in 1 .. PaceMax /\ gate \in Requesters \cup {NoOne}
    /\ \A r \in Requesters : step[r] \in {"idle", "sleeping", "sent"}

\* "Pace all Habbo requests, including slash commands and retries": two requests
\* are at least an interval apart, whichever tasks send them.
RequestsAreSpaced == gap >= Interval
=============================================================================
