---------------------------- MODULE MCScheduler ----------------------------
(* The scheduler on small instances. *)
EXTENDS Scheduler

CONSTANTS r1, r2, w1, w2

OneTime(t) == [kind |-> "once", n |-> t]
Every(d) == [kind |-> "every", n |-> d]

\* A one-time task and a recurring one whose period is longer than the grace.
MCSchedules == {OneTime(3), Every(2)}
=============================================================================
