-------------------------- MODULE MCSchedulerSafe --------------------------
(***************************************************************************)
(* The scheduler under every fault.  The steps explored are those of two   *)
(* small instances: runners that crash and contend for the lease, and one  *)
(* runner beside the requests of users whose rights and releases change.   *)
(***************************************************************************)
EXTENDS MCScheduler

Claimed(i) == rows'[i].task # 0

\* No Run Now request so far, and owners who keep their rights.
AboutRunners ==
    /\ \A i \in 1 .. MaxRows : Claimed(i) => rows'[i].occ # None
    /\ \A t \in Tasks : barred[t] = "no" /\ barred'[t] = "no"

\* A single runner, which abandons no execution, and a shorter time.
AboutUsers ==
    /\ ex[r1].pc \in {"claimed", "exec"} => ex'[r1].pc # "down"
    /\ ex'[r2].pc = "down"
    /\ \A i \in 1 .. MaxRows :
           Claimed(i) /\ rows'[i].status = "unknown" => rows'[i].occ = None
    /\ now' < MaxTime /\ 2 * claims' <= MaxRows /\ edits' < MaxEdits

OneInstance == AboutRunners \/ AboutUsers
=============================================================================
