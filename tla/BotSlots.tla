------------------------------ MODULE BotSlots ------------------------------
(***************************************************************************)
(* What the supervisor promises about its bots.  Each bot has one slot.  A *)
(* free slot has no live process; a process is only ever launched, as a    *)
(* new execution, when no other one lives; and while a process lives the   *)
(* slot is held, also after the supervisor has been down.                  *)
(***************************************************************************)
CONSTANTS
    Bots,
    Insts   \* the executions a bot may have

VARIABLES
    live,   \* the live executions of each bot
    used,   \* the executions ever launched
    slot    \* "free": a start is accepted; "held"; "down": no supervisor

vars == <<live, used, slot>>

Init ==
    /\ live = [b \in Bots |-> {}]
    /\ used = [b \in Bots |-> {}]
    /\ slot = [b \in Bots |-> "down"]

\* A launch, also by a restart that has just seen the old process end.
Launch(b) ==
    /\ slot[b] # "down" /\ live[b] = {}
    /\ \E i \in Insts \ used[b] :
        /\ live' = [live EXCEPT ![b] = {i}]
        /\ used' = [used EXCEPT ![b] = @ \cup {i}]
    /\ slot' = [slot EXCEPT ![b] = "held"]

LaunchFails(b) ==
    /\ slot[b] # "down" /\ live[b] = {}
    /\ \E i \in Insts \ used[b] : used' = [used EXCEPT ![b] = @ \cup {i}]
    /\ slot' = [slot EXCEPT ![b] = "free"]
    /\ UNCHANGED live

Ends(b) ==
    /\ live[b] # {}
    /\ live' = [live EXCEPT ![b] = {}]
    /\ UNCHANGED <<used, slot>>

\* A conflict is recorded.
Holds(b) ==
    /\ slot[b] = "free"
    /\ slot' = [slot EXCEPT ![b] = "held"]
    /\ UNCHANGED <<live, used>>

Frees(b) ==
    /\ slot[b] = "held" /\ live[b] = {}
    /\ slot' = [slot EXCEPT ![b] = "free"]
    /\ UNCHANGED <<live, used>>

GoesDown ==
    /\ slot' = [b \in Bots |-> "down"]
    /\ UNCHANGED <<live, used>>

ComesUp ==
    /\ \A b \in Bots : slot[b] = "down"
    /\ slot' \in [Bots -> {"free", "held"}]
    /\ \A b \in Bots : live[b] # {} => slot'[b] = "held"
    /\ UNCHANGED <<live, used>>

Next ==
    \/ \E b \in Bots : Launch(b) \/ LaunchFails(b) \/ Ends(b) \/ Holds(b) \/ Frees(b)
    \/ GoesDown \/ ComesUp

Spec == Init /\ [][Next]_vars
=============================================================================
