----------------------------- MODULE Heartbeat -----------------------------
(***************************************************************************)
(* Health of one bot: the bot's HeartbeatReporter (shared/heartbeat.py),   *)
(* the datagrams its sender threads have under way, and the supervisor's   *)
(* HealthStore (supervisor/health.py), which the portal reads.             *)
(*                                                                         *)
(* Every emit sends in a thread of its own, so datagrams may be delivered  *)
(* in any order or lost.  A datagram carries its instance, its sequence    *)
(* number and the Discord flags; maintenance is never set by a bot.  Ages  *)
(* are abstracted to `fresh' (within 30 s) and `young' (within 60 s).      *)
(*                                                                         *)
(* Sequence numbers grow without bound in the code.  Only their order is   *)
(* ever used, so when no datagram of the execution is under way the model  *)
(* starts counting again: what was accepted gets number 0.                 *)
(***************************************************************************)
EXTENDS Naturals, FiniteSets

CONSTANTS
    MaxExecutions,    \* bound on the executions of the bot
    MaxSeq,     \* bound on the heartbeats of one count
    MaxFlight,  \* bound on the sender threads under way
    Resumes     \* may Discord resume a session, without a new READY?

ASSUME HeartbeatAssumption ==
    /\ MaxExecutions \in Nat /\ MaxSeq \in Nat /\ MaxFlight \in Nat
    /\ Resumes \in BOOLEAN

VARIABLES
    inst,     \* executions so far; the last one may be running
    discord,  \* the real session of the running bot: "off" (no process),
              \* "down", "up" (connected), "ready"
    rep,      \* the reporter's flags, next sequence number and task
    flight,   \* datagrams handed to a sender thread
    ev,       \* the stored evidence
    newest,   \* history: the newest datagram received since it was set
    supUp     \* is the supervisor running?

beatVars == <<inst, discord, rep, flight, ev, newest, supUp>>

NoBeat == [inst |-> 0, seq |-> 0, connected |-> FALSE, ready |-> FALSE]
NewReporter == [connected |-> FALSE, ready |-> FALSE, seq |-> 1, sent |-> 0,
                task |-> "none"]

\* Evidence as the supervisor sets it: heartbeats start afresh.
Evidence(i, desired, running, verified, unexpected) ==
    [inst |-> i, desired |-> desired, running |-> running, verified |-> verified,
     unexpected |-> unexpected, beat |-> NoBeat, fresh |-> FALSE, young |-> running]

---------------------------------------------------------------------------
(* The bot.                                                                *)

Beat(i, r) == [inst |-> i, seq |-> r.seq, connected |-> r.connected, ready |-> r.ready]

\* emit, up to its await of the sender thread.
Emit(r) ==
    /\ r.seq <= MaxSeq
    /\ Cardinality(flight) < MaxFlight
    /\ flight' = flight \cup {Beat(inst, r)}

\* start() creates the task unless it exists.
Started(r) == [r EXCEPT !.task = IF @ = "none" THEN "due" ELSE @]

\* A new session: on_connect, later on_ready.
Connects ==
    /\ discord = "down"
    /\ discord' = "up"
    /\ rep' = Started([rep EXCEPT !.connected = TRUE, !.ready = FALSE])
    /\ UNCHANGED <<inst, flight, ev, newest, supUp>>

Readies ==
    /\ discord = "up"
    /\ discord' = "ready"
    /\ rep' = Started([rep EXCEPT !.connected = TRUE, !.ready = TRUE])
    /\ UNCHANGED <<inst, flight, ev, newest, supUp>>

\* RESUMED: discord.py dispatches on_resumed, for which nothing listens.
SessionResumes ==
    /\ Resumes
    /\ discord = "down" /\ rep.task # "none"
    /\ discord' = "ready"
    /\ UNCHANGED <<inst, rep, flight, ev, newest, supUp>>

ClearedNothing(r) == r   \* mutant
Cleared(r) == [r EXCEPT !.connected = FALSE, !.ready = FALSE]

Disconnects ==
    /\ discord \in {"up", "ready"}
    /\ discord' = "down"
    /\ Emit(Cleared(rep))
    /\ rep' = [Cleared(rep) EXCEPT !.seq = @ + 1]
    /\ UNCHANGED <<inst, ev, newest, supUp>>

Quiet == \A d \in flight : d.inst # inst

\* One turn of _run, which awaits its thread and then sleeps for the cadence.
RunEmits ==
    /\ discord # "off"
    /\ rep.task = "due"
    /\ LET r == IF Quiet THEN [rep EXCEPT !.seq = 1] ELSE rep IN
       Emit(r) /\ rep' = [r EXCEPT !.seq = @ + 1, !.sent = r.seq, !.task = "waiting"]
    /\ IF Quiet /\ ev.beat.inst = inst
       THEN ev' = [ev EXCEPT !.beat.seq = 0] /\ newest' = 0
       ELSE UNCHANGED <<ev, newest>>
    /\ UNCHANGED <<inst, discord, supUp>>

CadenceEnds ==
    /\ rep.task = "waiting"
    /\ \A d \in flight : ~(d.inst = inst /\ d.seq = rep.sent)
    /\ rep' = [rep EXCEPT !.task = "due"]
    /\ UNCHANGED <<inst, discord, flight, ev, newest, supUp>>

---------------------------------------------------------------------------
(* The store.                                                              *)

Refreshed(d) ==
    [ev EXCEPT !.beat = d, !.fresh = TRUE]

AcceptsAnyOrder(d) == ev.verified /\ d.inst = ev.inst   \* mutant

\* accept_heartbeat's conditions.
Accepts(d) == ev.verified /\ d.inst = ev.inst /\ d.seq > ev.beat.seq

\* The thread's sendto succeeds and the receiver handles the datagram.
Delivered(d) ==
    /\ d \in flight
    /\ supUp
    /\ flight' = flight \ {d}
    /\ ev' = IF Accepts(d) THEN Refreshed(d) ELSE ev
    /\ newest' = IF ev.verified /\ d.inst = ev.inst /\ d.seq > newest
                 THEN d.seq ELSE newest
    /\ UNCHANGED <<inst, discord, rep, supUp>>

\* The send times out or finds no receiver.
Lost(d) ==
    /\ d \in flight
    /\ flight' = flight \ {d}
    /\ UNCHANGED <<inst, discord, rep, ev, newest, supUp>>

GoesStale ==
    /\ ev.fresh
    /\ ev' = [ev EXCEPT !.fresh = FALSE]
    /\ UNCHANGED <<inst, discord, rep, flight, newest, supUp>>

GrowsOld ==
    /\ ev.young
    /\ ev' = [ev EXCEPT !.young = FALSE]
    /\ UNCHANGED <<inst, discord, rep, flight, newest, supUp>>

---------------------------------------------------------------------------
(* The supervisor's side of the evidence.                                  *)

\* A start: the process begins; the evidence follows after the grace period.
ProcessStarts ==
    /\ supUp /\ discord = "off" /\ ~ev.running
    /\ inst < MaxExecutions
    /\ inst' = inst + 1
    /\ discord' = "down"
    /\ rep' = NewReporter
    /\ UNCHANGED <<flight, ev, newest, supUp>>

StartRecorded ==
    /\ supUp /\ discord # "off" /\ ev.inst < inst
    /\ ev' = Evidence(inst, "running", TRUE, TRUE, FALSE)
    /\ newest' = 0
    /\ UNCHANGED <<inst, discord, rep, flight, supUp>>

BotExits ==
    /\ discord # "off"
    /\ discord' = "off"
    /\ rep' = [rep EXCEPT !.task = "none"]
    /\ UNCHANGED <<inst, flight, ev, newest, supUp>>

\* A stop, or _process_exited.
ExitEvidence ==
    /\ supUp /\ discord = "off" /\ ev.running
    /\ \E expected \in BOOLEAN :
        ev' = Evidence(ev.inst, IF expected THEN "stopped" ELSE "running",
                       FALSE, TRUE, ~expected)
    /\ newest' = 0
    /\ UNCHANGED <<inst, discord, rep, flight, supUp>>

SupervisorEnds ==
    /\ supUp
    /\ supUp' = FALSE
    /\ UNCHANGED <<inst, discord, rep, flight, ev, newest>>

\* startup() adopts the process if it lives; the grace period starts anew.
SupervisorStarts ==
    /\ ~supUp
    /\ supUp' = TRUE
    /\ ev' = IF discord # "off" THEN Evidence(inst, "running", TRUE, TRUE, FALSE)
             ELSE Evidence(inst, "stopped", FALSE, FALSE, FALSE)
    /\ newest' = 0
    /\ UNCHANGED <<inst, discord, rep, flight>>

---------------------------------------------------------------------------
(* reconcile, for an enabled bot without crash loop, restart, maintenance  *)
(* or process conflict.                                                    *)

Shown ==
    CASE ev.unexpected /\ ~ev.running -> "crashed"
      [] ev.desired = "stopped" /\ ~ev.running -> "offline"
      [] ev.running /\ ev.verified /\ ev.fresh /\ ev.beat.connected /\ ev.beat.ready
            -> "online"
      [] ev.running /\ ev.verified /\ ev.young -> "starting"
      [] ev.running /\ ev.verified /\ ev.fresh -> "disconnected"
      [] OTHER -> "unknown"

---------------------------------------------------------------------------
BeatInit ==
    /\ inst = 0
    /\ discord = "off"
    /\ rep = NewReporter
    /\ flight = {}
    /\ ev = Evidence(0, "stopped", FALSE, FALSE, FALSE)
    /\ newest = 0
    /\ supUp = TRUE

Gateway == Connects \/ Readies \/ SessionResumes \/ Disconnects
Reporter == RunEmits \/ CadenceEnds
Channel == \E d \in flight : Delivered(d) \/ Lost(d)
Clock == GoesStale \/ GrowsOld
Supervisor == ProcessStarts \/ StartRecorded \/ ExitEvidence
              \/ SupervisorEnds \/ SupervisorStarts

BeatNext == Gateway \/ Reporter \/ Channel \/ Clock \/ Supervisor \/ BotExits

BeatSpec == BeatInit /\ [][BeatNext]_beatVars

\* The reporter's loop, its threads and the receiver run; not every datagram
\* is lost; the supervisor records starts and exits, and comes back; clocks run.
BeatFairness ==
    /\ WF_beatVars(Reporter)
    /\ WF_beatVars(Channel)
    /\ SF_beatVars(\E d \in flight : Delivered(d))
    /\ WF_beatVars(GoesStale) /\ WF_beatVars(GrowsOld)
    /\ WF_beatVars(StartRecorded) /\ WF_beatVars(ExitEvidence)

BeatLiveSpec == BeatSpec /\ BeatFairness

---------------------------------------------------------------------------
(* Properties.                                                             *)

Beats == [inst : 0 .. MaxExecutions, seq : 0 .. MaxSeq, connected : BOOLEAN, ready : BOOLEAN]

\* Every variable keeps its type; as decode_heartbeat demands, no heartbeat
\* is ready without a connection.
BeatTypeOK ==
    /\ inst \in 0 .. MaxExecutions
    /\ discord \in {"off", "down", "up", "ready"}
    /\ rep \in [connected : BOOLEAN, ready : BOOLEAN, seq : 1 .. MaxSeq + 1,
                sent : 0 .. MaxSeq, task : {"none", "due", "waiting"}]
    /\ flight \subseteq {b \in Beats : b.ready => b.connected}
    /\ ev \in [inst : 0 .. MaxExecutions, desired : {"running", "stopped"}, running : BOOLEAN,
               verified : BOOLEAN, unexpected : BOOLEAN, beat : Beats,
               fresh : BOOLEAN, young : BOOLEAN]
    /\ newest \in 0 .. MaxSeq
    /\ supUp \in BOOLEAN

\* docs/supervisor/health.md: a heartbeat counts only for the instance it was
\* sent by: stored health never mixes two executions of the bot.
BeatOfItsInstance == ev.beat.inst \in {0, ev.inst}

\* "its sequence must exceed the last accepted": in whatever order datagrams
\* arrive, the stored heartbeat is the newest one received.
NewestWins == ev.beat.seq = newest

\* A bot is shown online only if its latest execution itself reported READY,
\* even while datagrams of earlier executions are still under way.
OnlineReportedReady ==
    supUp /\ Shown = "online" => ev.beat.ready /\ ev.beat.inst = inst

\* "reconnect plus READY becomes Online": while a bot is ready and has had a READY
\* since its last disconnect, it is shown online again and again.  (A session that
\* resumes has none: see SessionResumes.)
ReadyIsShown ==
    []<>(Shown = "online" \/ ~(discord = "ready" /\ rep.ready /\ supUp))

\* A bot that has lost Discord, or its process, for good is not shown online
\* again and again.
LossIsShown ==
    <>[](discord # "ready" /\ supUp) => <>[](Shown # "online")
=============================================================================
