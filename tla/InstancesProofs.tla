---------------------------- MODULE InstancesProofs ----------------------------
(***************************************************************************)
(* What is believed of the executions of a bot, for any numbers of them,   *)
(* of requests, of cogs and of datagrams: an operation works on the        *)
(* execution it is bound to and took effect if it succeeded, and the       *)
(* health stored and shown is of the execution that sent it.               *)
(***************************************************************************)
EXTENDS MCInstances, TLAPS

---------------------------------------------------------------------------
(* Operations on the application of a bot.                                 *)

OpRecs == [kind : AllKinds, cog : Cogs,
           pc : {"new", "health", "list", "call", "answer", "over"},
           inst : 0 .. MaxInst,
           status : {"none", "running", "succeeded", "partial", "failed"},
           completed : BOOLEAN, todo : SUBSET Cogs, failed : BOOLEAN]

(* The record w of operation o agrees with the lock and with the process.   *)
Holds(o, w) ==
    w.pc \in {"list", "call", "answer"} =>
        /\ lock = o /\ rec.inst = w.inst /\ rec.state \in {"RUNNING", "CRASHED"}

Reported(w) ==
    /\ w.pc \in {"new", "health"} => w.status = "none"
    /\ w.pc \in {"list", "call", "answer"} => w.status = "running"
    /\ w.pc = "over" /\ w.status # "none" /\ w.kind # "sync" =>
           w.completed /\ w.status \in {"succeeded", "partial", "failed"}

Effect(w) ==
    /\ w.kind \in CogKinds /\ w.pc \in {"list", "call"} => w.todo = {w.cog}
    /\ w.kind \in CogKinds /\ w.pc = "answer" => w.todo = {}
    /\ w.kind = "reload" /\ w.pc \in {"call", "answer"} => w.cog \in loaded
    /\ w.kind = "load" /\ w.pc = "answer" => w.cog \in loaded
    /\ w.kind = "unload" /\ w.pc = "answer" => w.cog \notin loaded

(* A lifecycle operation under way holds the lock, and a bot that is down   *)
(* has no evidence that would let an operation begin.                       *)
LockFits ==
    /\ rec.state \in {"STARTING", "STOPPING"} <=> lock = "lifecycle"
    /\ rec.state = "OFFLINE" => ~evid.running

OpsInv ==
    /\ TypeOK /\ LockFits
    /\ \A o \in Ops : Holds(o, op[o]) /\ Reported(op[o]) /\ Effect(op[o])

LEMMA OpType == ASSUME TypeOK, NEW o \in Ops PROVE op[o] \in OpRecs
BY DEF TypeOK, OpRecs

(* Writing the record of o is a change of that record alone.                *)
LEMMA WriteOne ==
    ASSUME TypeOK, NEW o \in Ops, NEW w, Becomes(o, w)
    PROVE  op'[o] = w /\ op' = [op EXCEPT ![o] = op'[o]]
BY DEF TypeOK, Becomes

(* A step of the coroutine of o concerns the others only by the lock, which *)
(* none of them holds if it changes hands or if a call is performed.        *)
LEMMA StepOfOne ==
    ASSUME OpsInv, NEW o \in Ops,
           op'[o] \in OpRecs, op' = [op EXCEPT ![o] = op'[o]],
           UNCHANGED <<rec, alive, evid>>,
           lock' \in Ops \cup {"free", "lifecycle"}, loaded' \subseteq Cogs,
           lock \in {"free", o} \/ UNCHANGED <<lock, loaded>>,
           lock' = "lifecycle" <=> lock = "lifecycle",
           Holds(o, op[o])', Reported(op[o])', Effect(op[o])'
    PROVE  OpsInv'
<1>1. \A q \in Ops \ {o} : op'[q] = op[q]
  BY DEF OpsInv, TypeOK
<1>2. TypeOK'
  <2>1. op' \in [Ops -> OpRecs]
    BY DEF OpsInv, TypeOK, OpRecs
  <2>2. QED  BY <2>1 DEF OpsInv, TypeOK, OpRecs
<1>3. LockFits'  BY DEF OpsInv, LockFits
<1>4. ASSUME NEW q \in Ops
      PROVE  Holds(q, op[q])' /\ Reported(op[q])' /\ Effect(op[q])'
  <2>1. CASE q = o  BY <2>1
  <2>2. CASE q # o
    <3>1. op'[q] = op[q] /\ Holds(q, op[q]) /\ Reported(op[q]) /\ Effect(op[q])
      BY <1>1, <2>2 DEF OpsInv
    <3>2. CASE UNCHANGED <<lock, loaded>>
      BY <3>1, <3>2 DEF Holds, Reported, Effect
    <3>3. CASE lock \in {"free", o}
      <4>1. lock # q  BY <2>2, <3>3, OperationsAssumption
      <4>2. op[q].pc \notin {"list", "call", "answer"}  BY <3>1, <4>1 DEF Holds
      <4>3. QED  BY <3>1, <4>2 DEF Holds, Reported, Effect
    <3>4. QED  BY <3>2, <3>3
  <2>3. QED  BY <2>1, <2>2
<1>5. QED  BY <1>2, <1>3, <1>4 DEF OpsInv

(* A step that leaves the lock and the cogs alone.                          *)
LEMMA QuietStep ==
    ASSUME OpsInv, NEW o \in Ops,
           op'[o] \in OpRecs, op' = [op EXCEPT ![o] = op'[o]],
           UNCHANGED <<rec, alive, loaded, evid, lock>>,
           Holds(o, op[o])', Reported(op[o])', Effect(op[o])'
    PROVE  OpsInv'
<1>1. lock' \in Ops \cup {"free", "lifecycle"} /\ loaded' \subseteq Cogs
  BY DEF OpsInv, TypeOK
<1>2. (lock' = "lifecycle" <=> lock = "lifecycle") /\ UNCHANGED <<rec, alive, evid>>
  OBVIOUS
<1>3. QED  BY <1>1, <1>2, StepOfOne

(* A step that ends an operation gives up its lock.                         *)
LEMMA EndStep ==
    ASSUME OpsInv, NEW o \in Ops, lock = o, Release(o),
           op'[o] \in OpRecs, op' = [op EXCEPT ![o] = op'[o]],
           UNCHANGED <<rec, alive, loaded, evid>>,
           op'[o].pc = "over", Reported(op[o])'
    PROVE  OpsInv'
<1>1. lock' = "free" /\ lock' \in Ops \cup {"free", "lifecycle"}  BY DEF Release
<1>2. lock' = "lifecycle" <=> lock = "lifecycle"
  BY <1>1, OperationsAssumption
<1>3. loaded' \subseteq Cogs  BY DEF OpsInv, TypeOK
<1>4. Holds(o, op[o])' /\ Effect(op[o])'  BY DEF Holds, Effect
<1>5. lock \in {"free", o} /\ UNCHANGED <<rec, alive, evid>>  OBVIOUS
<1>6. QED  BY <1>1, <1>2, <1>3, <1>4, <1>5, StepOfOne

(* An operation that ends with a result.                                    *)
LEMMA EndOfOne ==
    ASSUME OpsInv, NEW o \in Ops, lock = o,
           NEW s \in {"succeeded", "partial", "failed"}, Complete(o, s), Release(o),
           UNCHANGED <<rec, alive, loaded, evid>>
    PROVE  OpsInv'
<1>1. op[o] \in OpRecs /\ TypeOK  BY OpType DEF OpsInv
<1>2. /\ op'[o] = [op[o] EXCEPT !.pc = "over", !.status = s, !.completed = TRUE]
      /\ op' = [op EXCEPT ![o] = op'[o]]
  BY <1>1, WriteOne DEF Complete
<1>3. op'[o] \in OpRecs  BY <1>1, <1>2 DEF OpRecs
<1>4. op'[o].pc = "over" /\ op'[o].status = s /\ op'[o].completed
  BY <1>1, <1>2 DEF OpRecs
<1>5. Reported(op[o])'  BY <1>4 DEF Reported
<1>6. QED  BY <1>2, <1>3, <1>4, <1>5, EndStep

(* What a working operation may rely on.                                    *)
LEMMA WorkingHolds ==
    ASSUME OpsInv, NEW o \in Ops, Working(o)
    PROVE  /\ lock = o /\ lock # "lifecycle" /\ rec.inst = op[o].inst
           /\ rec.state \in {"RUNNING", "CRASHED"} /\ op[o].status = "running"
BY OperationsAssumption DEF OpsInv, Working, Holds, Reported

LEMMA RequestInv ==
    ASSUME OpsInv, NEW o \in Ops, NEW kind \in Kinds, NEW cog \in Cogs,
           Request(o, kind, cog)
    PROVE  OpsInv'
<1>1. op[o] \in OpRecs /\ TypeOK /\ op[o].pc = "new" /\ kind \in AllKinds
  BY OpType, OperationsAssumption DEF OpsInv, Request
<1>2. /\ op'[o] = [op[o] EXCEPT !.pc = "health", !.kind = kind, !.cog = cog]
      /\ op' = [op EXCEPT ![o] = op'[o]]
  BY <1>1, WriteOne DEF Request
<1>3. op'[o] \in OpRecs  BY <1>1, <1>2 DEF OpRecs
<1>4. op'[o].pc = "health" /\ op'[o].status = op[o].status
  BY <1>1, <1>2 DEF OpRecs
<1>5. op[o].status = "none"  BY <1>1 DEF OpsInv, Reported
<1>6. Holds(o, op[o])' /\ Reported(op[o])' /\ Effect(op[o])'
  BY <1>4, <1>5 DEF Holds, Reported, Effect
<1>7. UNCHANGED <<rec, alive, loaded, evid, lock>>  BY DEF Request
<1>8. QED  BY <1>2, <1>3, <1>6, <1>7, QuietStep

LEMMA RefusedInv ==
    ASSUME OpsInv, NEW o \in Ops, Refused(o)
    PROVE  OpsInv'
<1>1. op[o] \in OpRecs /\ TypeOK /\ op[o].pc = "health"
  BY OpType DEF OpsInv, Refused
<1>2. op'[o] = [op[o] EXCEPT !.pc = "over"] /\ op' = [op EXCEPT ![o] = op'[o]]
  BY <1>1, WriteOne DEF Refused
<1>3. op'[o] \in OpRecs  BY <1>1, <1>2 DEF OpRecs
<1>4. op'[o].pc = "over" /\ op'[o].status = op[o].status
  BY <1>1, <1>2 DEF OpRecs
<1>5. op[o].status = "none"  BY <1>1 DEF OpsInv, Reported
<1>6. Holds(o, op[o])' /\ Reported(op[o])' /\ Effect(op[o])'
  BY <1>4, <1>5 DEF Holds, Reported, Effect
<1>7. UNCHANGED <<rec, alive, loaded, evid, lock>>  BY DEF Refused
<1>8. QED  BY <1>2, <1>3, <1>6, <1>7, QuietStep

LEMMA BeginLockedInv ==
    ASSUME OpsInv, NEW o \in Ops, BeginLocked(o)
    PROVE  OpsInv'
<1>1. op[o] \in OpRecs /\ TypeOK /\ evid.inst \in 0 .. MaxInst
  BY OpType DEF OpsInv, TypeOK
<1>2. /\ op'[o] = [op[o] EXCEPT !.pc = "over", !.inst = evid.inst,
                                !.status = "failed", !.completed = TRUE]
      /\ op' = [op EXCEPT ![o] = op'[o]]
  BY <1>1, WriteOne DEF BeginLocked
<1>3. op'[o] \in OpRecs  BY <1>1, <1>2 DEF OpRecs
<1>4. op'[o].pc = "over" /\ op'[o].status = "failed" /\ op'[o].completed
  BY <1>1, <1>2 DEF OpRecs
<1>5. Holds(o, op[o])' /\ Reported(op[o])' /\ Effect(op[o])'
  BY <1>4 DEF Holds, Reported, Effect
<1>6. UNCHANGED <<rec, alive, loaded, evid, lock>>  BY DEF BeginLocked
<1>7. QED  BY <1>2, <1>3, <1>5, <1>6, QuietStep

(* The evidence is of the recorded instance and nothing starts or stops it. *)
LEMMA BeginInv ==
    ASSUME OpsInv, NEW o \in Ops, Begin(o)
    PROVE  OpsInv'
<1> DEFINE k == op[o].kind
           t == IF k = "reload_all" THEN Cogs ELSE {op[o].cog}
           p == IF k \in CogKinds THEN "list" ELSE "call"
<1>1. op[o] \in OpRecs /\ TypeOK /\ evid.inst \in 0 .. MaxInst
  BY OpType DEF OpsInv, TypeOK
<1>2. op[o].cog \in Cogs /\ t \in SUBSET Cogs /\ p \in {"list", "call"}
  BY <1>1 DEF OpRecs
<1>3. /\ op'[o] = [op[o] EXCEPT !.pc = p, !.inst = evid.inst,
                                !.status = "running", !.todo = t]
      /\ op' = [op EXCEPT ![o] = op'[o]]
  BY <1>1, WriteOne DEF Begin
<1> HIDE DEF t, p
<1>4. op'[o] \in OpRecs  BY <1>1, <1>2, <1>3 DEF OpRecs
<1>5. /\ op'[o].kind = k /\ op'[o].cog = op[o].cog /\ op'[o].pc = p
      /\ op'[o].inst = evid.inst /\ op'[o].status = "running" /\ op'[o].todo = t
  BY <1>1, <1>3 DEF OpRecs
<1>6. lock = "free" /\ lock' = o /\ UNCHANGED <<rec, alive, loaded, evid>>
  BY DEF Begin, Unlocked
<1>7. rec.inst = evid.inst /\ evid.running  BY DEF Begin, EvidenceAllows
<1>8. rec.state \in {"RUNNING", "CRASHED"}
  BY <1>6, <1>7 DEF OpsInv, LockFits, TypeOK
<1>9. Holds(o, op[o])'  BY <1>5, <1>6, <1>7, <1>8 DEF Holds
<1>10. Reported(op[o])'  BY <1>2, <1>5 DEF Reported
<1>11. Effect(op[o])'
  <2>1. k \in CogKinds => p = "list" /\ t = {op[o].cog}  BY DEF p, t, CogKinds
  <2>2. k \notin CogKinds => k \notin {"load", "unload", "reload"}  BY DEF CogKinds
  <2>3. QED  BY <1>5, <2>1, <2>2 DEF Effect
<1>12. /\ lock' = "lifecycle" <=> lock = "lifecycle"
       /\ lock' \in Ops \cup {"free", "lifecycle"} /\ loaded' \subseteq Cogs
       /\ UNCHANGED <<rec, alive, evid>> /\ lock \in {"free", o}
  BY <1>6, OperationsAssumption DEF OpsInv, TypeOK
<1>13. QED
  BY <1>3, <1>4, <1>9, <1>10, <1>11, <1>12, StepOfOne

LEMMA ListsInv ==
    ASSUME OpsInv, NEW o \in Ops, Lists(o)
    PROVE  OpsInv'
<1>1. Working(o) /\ op[o].pc = "list" /\ UNCHANGED <<rec, alive, loaded, evid>>
  BY DEF Lists, Working
<1>2. /\ lock = o /\ lock # "lifecycle" /\ rec.inst = op[o].inst
      /\ rec.state \in {"RUNNING", "CRASHED"} /\ op[o].status = "running"
  BY <1>1, WorkingHolds
<1>3. CASE Reaches(o) /\ (op[o].cog \in loaded <=> op[o].kind # "load")
  <2>1. op[o] \in OpRecs /\ TypeOK  BY OpType DEF OpsInv
  <2>2. Becomes(o, [op[o] EXCEPT !.pc = "call"]) /\ UNCHANGED lock
    BY <1>3 DEF Lists
  <2>3. op'[o] = [op[o] EXCEPT !.pc = "call"] /\ op' = [op EXCEPT ![o] = op'[o]]
    BY <2>1, <2>2, WriteOne
  <2>4. op'[o] \in OpRecs  BY <2>1, <2>3 DEF OpRecs
  <2>5. /\ op'[o].pc = "call" /\ op'[o].status = op[o].status
        /\ op'[o].kind = op[o].kind /\ op'[o].cog = op[o].cog
        /\ op'[o].inst = op[o].inst /\ op'[o].todo = op[o].todo
    BY <2>1, <2>3 DEF OpRecs
  <2>6. Effect(op[o])  BY DEF OpsInv
  <2>7. Holds(o, op[o])' /\ Reported(op[o])'
    BY <1>1, <1>2, <2>2, <2>5 DEF Holds, Reported
  <2>8. Effect(op[o])'  BY <1>1, <1>3, <2>5, <2>6 DEF Effect
  <2>9. QED  BY <1>1, <2>2, <2>3, <2>4, <2>7, <2>8, QuietStep
<1>4. CASE ~(Reaches(o) /\ (op[o].cog \in loaded <=> op[o].kind # "load"))
  <2>1. Complete(o, "failed") /\ Release(o)  BY <1>4 DEF Lists, Fail
  <2>2. QED  BY <1>1, <1>2, <2>1, EndOfOne
<1>5. QED  BY <1>3, <1>4

LEMMA PerformsInv ==
    ASSUME OpsInv, NEW o \in Ops, NEW c \in Cogs, Performs(o, c)
    PROVE  OpsInv'
<1>1. Working(o) /\ op[o].pc = "call" /\ c \in op[o].todo
  BY DEF Performs, Working
<1>2. /\ lock = o /\ lock # "lifecycle" /\ rec.inst = op[o].inst
      /\ rec.state \in {"RUNNING", "CRASHED"} /\ op[o].status = "running"
  BY <1>1, WorkingHolds
<1>3. op[o] \in OpRecs /\ TypeOK  BY OpType DEF OpsInv
<1>4. Becomes(o, [op[o] EXCEPT !.pc = "answer", !.todo = op[o].todo \ {c}])
  <2>1. [op[o] EXCEPT !.pc = "answer", !.todo = @ \ {c}]
          = [op[o] EXCEPT !.pc = "answer", !.todo = op[o].todo \ {c}]
    BY <1>3 DEF OpRecs
  <2>2. QED  BY <2>1 DEF Performs
<1>5. /\ op'[o] = [op[o] EXCEPT !.pc = "answer", !.todo = op[o].todo \ {c}]
      /\ op' = [op EXCEPT ![o] = op'[o]]
  BY <1>3, <1>4, WriteOne
<1>6. op'[o] \in OpRecs  BY <1>3, <1>5 DEF OpRecs
<1>7. /\ op'[o].pc = "answer" /\ op'[o].status = op[o].status
      /\ op'[o].kind = op[o].kind /\ op'[o].cog = op[o].cog
      /\ op'[o].inst = op[o].inst /\ op'[o].todo = op[o].todo \ {c}
  BY <1>3, <1>5 DEF OpRecs
<1>8. UNCHANGED <<rec, alive, evid, lock>>  BY DEF Performs
<1>9. /\ op[o].kind = "load" => loaded' = loaded \cup {c}
      /\ op[o].kind = "unload" => loaded' = loaded \ {c}
      /\ op[o].kind \notin {"load", "unload"} => loaded' = loaded
  BY DEF Performs
<1>10. loaded' \subseteq Cogs  BY <1>9, <1>3 DEF TypeOK
<1>11. Effect(op[o])  BY DEF OpsInv
<1>12. op[o].kind \in CogKinds => op[o].todo = {op[o].cog} /\ c = op[o].cog
  BY <1>1, <1>11 DEF Effect
<1>13. Effect(op[o])'
  BY <1>1, <1>7, <1>9, <1>11, <1>12 DEF Effect, CogKinds
<1>14. Holds(o, op[o])' /\ Reported(op[o])'
  BY <1>2, <1>7, <1>8 DEF Holds, Reported
<1>15. /\ lock' = "lifecycle" <=> lock = "lifecycle"
       /\ lock' \in Ops \cup {"free", "lifecycle"} /\ lock \in {"free", o}
       /\ UNCHANGED <<rec, alive, evid>>
  BY <1>2, <1>3, <1>8 DEF TypeOK
<1>16. QED  BY <1>5, <1>6, <1>10, <1>13, <1>14, <1>15, StepOfOne

LEMMA RaisesInv ==
    ASSUME OpsInv, NEW o \in Ops, NEW c \in Cogs, Raises(o, c)
    PROVE  OpsInv'
<1>1. Working(o) /\ op[o].pc = "call" /\ UNCHANGED <<rec, alive, loaded, evid>>
  BY DEF Raises, Working
<1>2. /\ lock = o /\ lock # "lifecycle" /\ rec.inst = op[o].inst
      /\ rec.state \in {"RUNNING", "CRASHED"} /\ op[o].status = "running"
  BY <1>1, WorkingHolds
<1>3. CASE op[o].kind = "reload_all" /\ op[o].todo # {c}
  <2>1. op[o] \in OpRecs /\ TypeOK  BY OpType DEF OpsInv
  <2>2. [op[o] EXCEPT !.todo = @ \ {c}, !.failed = TRUE]
          = [op[o] EXCEPT !.todo = op[o].todo \ {c}, !.failed = TRUE]
    BY <2>1 DEF OpRecs
  <2>3. Becomes(o, [op[o] EXCEPT !.todo = op[o].todo \ {c}, !.failed = TRUE])
        /\ UNCHANGED lock
    BY <1>3, <2>2 DEF Raises
  <2>4. /\ op'[o] = [op[o] EXCEPT !.todo = op[o].todo \ {c}, !.failed = TRUE]
        /\ op' = [op EXCEPT ![o] = op'[o]]
    BY <2>1, <2>3, WriteOne
  <2>5. op'[o] \in OpRecs  BY <2>1, <2>4 DEF OpRecs
  <2>6. /\ op'[o].pc = "call" /\ op'[o].status = op[o].status
        /\ op'[o].kind = "reload_all" /\ op'[o].inst = op[o].inst
    BY <1>1, <1>3, <2>1, <2>4 DEF OpRecs
  <2>7. Holds(o, op[o])' /\ Reported(op[o])' /\ Effect(op[o])'
    BY <1>1, <1>2, <2>3, <2>6 DEF Holds, Reported, Effect, CogKinds
  <2>8. QED  BY <1>1, <2>3, <2>4, <2>5, <2>7, QuietStep
<1>4. CASE ~(op[o].kind = "reload_all" /\ op[o].todo # {c})
  <2>1. Release(o) /\ (Complete(o, "partial") \/ Complete(o, "failed"))
    BY <1>4 DEF Raises, Fail
  <2>2. QED  BY <1>1, <1>2, <2>1, EndOfOne
<1>5. QED  BY <1>3, <1>4

LEMMA AnswersInv ==
    ASSUME OpsInv, NEW o \in Ops, Answers(o)
    PROVE  OpsInv'
<1>1. Working(o) /\ op[o].pc = "answer" /\ UNCHANGED <<rec, alive, loaded, evid>>
  BY DEF Answers, Working
<1>2. /\ lock = o /\ lock # "lifecycle" /\ rec.inst = op[o].inst
      /\ rec.state \in {"RUNNING", "CRASHED"} /\ op[o].status = "running"
  BY <1>1, WorkingHolds
<1>3. op[o] \in OpRecs /\ TypeOK  BY OpType DEF OpsInv
<1>4. CASE ~Verified(o) /\ op[o].kind = "sync"
  <2>1. Becomes(o, [op[o] EXCEPT !.pc = "over"]) /\ Release(o)
    BY <1>4 DEF Answers, Abandon
  <2>2. op'[o] = [op[o] EXCEPT !.pc = "over"] /\ op' = [op EXCEPT ![o] = op'[o]]
    BY <1>3, <2>1, WriteOne
  <2>3. op'[o] \in OpRecs  BY <1>3, <2>2 DEF OpRecs
  <2>4. op'[o].pc = "over" /\ op'[o].kind = "sync"
    BY <1>3, <1>4, <2>2 DEF OpRecs
  <2>5. Reported(op[o])'  BY <2>4 DEF Reported
  <2>6. QED  BY <1>1, <1>2, <2>1, <2>2, <2>3, <2>4, <2>5, EndStep
<1>5. CASE ~Verified(o) /\ op[o].kind # "sync"
  <2>1. Complete(o, "failed") /\ Release(o)  BY <1>5 DEF Answers, Fail
  <2>2. QED  BY <1>1, <1>2, <2>1, EndOfOne
<1>6. CASE Verified(o) /\ op[o].todo # {}
  <2>1. Becomes(o, [op[o] EXCEPT !.pc = "call"]) /\ UNCHANGED lock
    BY <1>6 DEF Answers
  <2>2. op'[o] = [op[o] EXCEPT !.pc = "call"] /\ op' = [op EXCEPT ![o] = op'[o]]
    BY <1>3, <2>1, WriteOne
  <2>3. op'[o] \in OpRecs  BY <1>3, <2>2 DEF OpRecs
  <2>4. /\ op'[o].pc = "call" /\ op'[o].kind = op[o].kind
        /\ op'[o].status = op[o].status /\ op'[o].inst = op[o].inst
    BY <1>3, <2>2 DEF OpRecs
  <2>5. Effect(op[o])  BY DEF OpsInv
  <2>6. op[o].kind \notin CogKinds  BY <1>1, <1>6, <2>5 DEF Effect
  <2>7. Holds(o, op[o])' /\ Reported(op[o])' /\ Effect(op[o])'
    BY <1>1, <1>2, <2>1, <2>4, <2>6 DEF Holds, Reported, Effect, CogKinds
  <2>8. QED  BY <1>1, <2>1, <2>2, <2>3, <2>7, QuietStep
<1>7. CASE Verified(o) /\ op[o].todo = {}
  <2>1. Release(o) /\ (Complete(o, "partial") \/ Complete(o, "succeeded"))
    BY <1>7 DEF Answers
  <2>2. QED  BY <1>1, <1>2, <2>1, EndOfOne
<1>8. QED  BY <1>4, <1>5, <1>6, <1>7

(* No lifecycle operation begins or ends while an operation works.          *)
LEMMA LifecycleInv ==
    ASSUME OpsInv, Lifecycle
    PROVE  OpsInv'
<1>1. op' = op /\ lock \in {"free", "lifecycle"}
  BY DEF Lifecycle, StartBegins, StartEnds, StopBegins, StopEnds, OpsInv, LockFits
<1>2. TypeOK'
  <2>1. TypeOK /\ MaxInst \in Nat  BY OperationsAssumption DEF OpsInv
  <2>2. CASE StartBegins
    <3>1. rec.inst + 1 \in 0 .. MaxInst  BY <2>1, <2>2 DEF TypeOK, StartBegins
    <3>2. rec' \in [inst : 0 .. MaxInst,
                    state : {"OFFLINE", "STARTING", "RUNNING", "STOPPING", "CRASHED"}]
      BY <2>2, <3>1 DEF StartBegins
    <3>3. QED  BY <2>1, <2>2, <3>2 DEF TypeOK, StartBegins
  <2>3. CASE StartEnds
    <3>1. CASE alive
      <4>1. rec.inst \in 0 .. MaxInst  BY <2>1 DEF TypeOK
      <4>2. rec' = [rec EXCEPT !.state = "RUNNING"]  BY <2>3, <3>1 DEF StartEnds
      <4>3. rec' \in [inst : 0 .. MaxInst,
                      state : {"OFFLINE", "STARTING", "RUNNING", "STOPPING", "CRASHED"}]
        BY <2>1, <4>2 DEF TypeOK
      <4>4. evid' = [inst |-> rec.inst, running |-> TRUE, ready |-> FALSE]
        BY <2>3, <3>1 DEF StartEnds
      <4>5. evid' \in [inst : 0 .. MaxInst, running : BOOLEAN, ready : BOOLEAN]
        BY <4>1, <4>4
      <4>6. QED  BY <2>1, <2>3, <4>3, <4>5 DEF TypeOK, StartEnds
    <3>2. CASE ~alive  BY <2>1, <2>3, <3>2 DEF TypeOK, StartEnds
    <3>3. QED  BY <3>1, <3>2
  <2>4. CASE StopBegins  BY <2>1, <2>4 DEF TypeOK, StopBegins
  <2>5. CASE StopEnds  BY <2>1, <2>5 DEF TypeOK, StopEnds, NoEvidence
  <2>6. QED  BY <2>2, <2>3, <2>4, <2>5 DEF Lifecycle
<1>3. LockFits'
  BY DEF Lifecycle, StartBegins, StartEnds, StopBegins, StopEnds, OpsInv, TypeOK,
         LockFits, NoEvidence
<1>4. ASSUME NEW o \in Ops
      PROVE  Holds(o, op[o])' /\ Reported(op[o])' /\ Effect(op[o])'
  <2>1. Holds(o, op[o]) /\ Reported(op[o]) /\ Effect(op[o])  BY DEF OpsInv
  <2>2. op[o].pc \notin {"list", "call", "answer"}
    BY <1>1, <2>1, OperationsAssumption DEF Holds
  <2>3. QED  BY <1>1, <2>1, <2>2 DEF Holds, Reported, Effect
<1>5. QED  BY <1>2, <1>3, <1>4 DEF OpsInv

LEMMA ExitInv ==
    ASSUME OpsInv, ProcessExits \/ ExitNoticed \/ ExitRecorded \/ ReadyChanges
    PROVE  OpsInv'
<1>1. UNCHANGED <<op, lock, loaded>>
  BY DEF ProcessExits, ExitNoticed, ExitRecorded, ReadyChanges
<1>2. rec'.inst = rec.inst /\ (rec'.state = rec.state
          \/ (rec.state = "RUNNING" /\ rec'.state = "CRASHED"))
  BY DEF ProcessExits, ExitNoticed, ExitRecorded, ReadyChanges, OpsInv, TypeOK
<1>3. TypeOK'
  <2>1. TypeOK  BY DEF OpsInv
  <2>2. CASE ProcessExits  BY <2>1, <2>2 DEF TypeOK, ProcessExits
  <2>3. CASE ExitNoticed  BY <2>1, <2>3 DEF TypeOK, ExitNoticed
  <2>4. CASE ExitRecorded  BY <2>1, <2>4 DEF TypeOK, ExitRecorded, NoEvidence
  <2>5. CASE ReadyChanges
    <3>1. evid' \in [inst : 0 .. MaxInst, running : BOOLEAN, ready : BOOLEAN]
      <4>1. evid.inst \in 0 .. MaxInst /\ evid.running \in BOOLEAN  BY <2>1 DEF TypeOK
      <4>2. evid' = [inst |-> evid.inst, running |-> evid.running, ready |-> ~evid.ready]
        BY <2>1, <2>5 DEF TypeOK, ReadyChanges
      <4>3. QED  BY <4>1, <4>2
    <3>2. QED  BY <2>1, <2>5, <3>1 DEF TypeOK, ReadyChanges
  <2>6. QED  BY <2>2, <2>3, <2>4, <2>5
<1>4. LockFits'
  BY <1>1, <1>2 DEF ProcessExits, ExitNoticed, ExitRecorded, ReadyChanges, OpsInv,
                    TypeOK, LockFits, NoEvidence
<1>5. QED  BY <1>1, <1>2, <1>3, <1>4 DEF OpsInv, Holds, Reported, Effect

LEMMA StepInv == OpsInv /\ [Next]_vars => OpsInv'
<1> SUFFICES ASSUME OpsInv, [Next]_vars PROVE OpsInv'  OBVIOUS
<1>1. ASSUME NEW o \in Ops, NEW kind \in Kinds, NEW cog \in Cogs, Request(o, kind, cog)
      PROVE  OpsInv'
  BY <1>1, RequestInv
<1>2. ASSUME NEW o \in Ops, Coroutine(o) PROVE OpsInv'
  BY <1>2, RefusedInv, BeginLockedInv, BeginInv, ListsInv, PerformsInv, RaisesInv,
     AnswersInv DEF Coroutine
<1>3. CASE Lifecycle  BY <1>3, LifecycleInv
<1>4. CASE ProcessExits \/ ExitNoticed \/ ExitRecorded \/ ReadyChanges
  BY <1>4, ExitInv
<1>5. CASE UNCHANGED vars
  BY <1>5 DEF vars, OpsInv, TypeOK, LockFits, Holds, Reported, Effect
<1>6. QED  BY <1>1, <1>2, <1>3, <1>4, <1>5 DEF Next

LEMMA OpsInit == Init => OpsInv
<1> SUFFICES ASSUME Init PROVE OpsInv  OBVIOUS
<1>1. NoOp \in OpRecs /\ NoOp.pc = "new" /\ NoOp.status = "none"
  <2>1. (CHOOSE c \in Cogs : TRUE) \in Cogs  BY OperationsAssumption
  <2>2. QED  BY <2>1, OperationsAssumption DEF NoOp, OpRecs, AllKinds
<1>2. \A o \in Ops : op[o] = NoOp  BY DEF Init
<1>3. TypeOK
  <2>1. op \in [Ops -> OpRecs]  BY <1>1 DEF Init
  <2>2. 0 \in 0 .. MaxInst  BY OperationsAssumption
  <2>3. QED  BY <2>1, <2>2 DEF Init, TypeOK, OpRecs
<1>4. LockFits  BY DEF Init, LockFits
<1>5. QED  BY <1>1, <1>2, <1>3, <1>4 DEF OpsInv, Holds, Reported, Effect

(* The lock, the instances and the effects agree in every reachable state.  *)
THEOREM OperationsInvariant == Spec => []OpsInv
<1>1. QED  BY OpsInit, StepInv, PTL DEF Spec

(* Every variable of the operations keeps its type.                         *)
THEOREM OperationsTypes == Spec => []TypeOK
<1>1. OpsInv => TypeOK  BY DEF OpsInv
<1>2. QED  BY <1>1, OperationsInvariant, PTL

(* "restart versus reload/sync conflicts fail": an operation works under    *)
(* the lock and on the instance it is bound to.                             *)
THEOREM BoundToInstance == Spec => []WorksOnItsInstance
<1>1. OpsInv => WorksOnItsInstance
  BY DEF OpsInv, Holds, WorksOnItsInstance, Working
<1>2. QED  BY <1>1, OperationsInvariant, PTL

(* An operation on cogs that is over says so and with which result.         *)
THEOREM OverCompleted == Spec => []OverIsCompleted
<1>1. OpsInv => OverIsCompleted  BY DEF OpsInv, Reported, OverIsCompleted
<1>2. QED  BY <1>1, OperationsInvariant, PTL

(* Only an answer of the instance that still runs makes an operation        *)
(* succeed, and what the call did to the cog is still so.                   *)
LEMMA OnlyAnswersSucceed ==
    ASSUME OpsInv, [Next]_vars, NEW o \in Ops,
           op'[o].status = "succeeded", op[o].status # "succeeded"
    PROVE  op[o].pc = "answer" /\ Verified(o)
<1>1. op[o] \in OpRecs /\ op \in [Ops -> OpRecs]
  BY OpType DEF OpsInv, TypeOK, OpRecs
<1>2. PICK q \in Ops : (\E k \in Kinds, c \in Cogs : Request(q, k, c)) \/ Coroutine(q)
  BY DEF Next, vars, Lifecycle, StartBegins, StartEnds, StopBegins, StopEnds,
         ProcessExits, ExitNoticed, ExitRecorded, ReadyChanges
<1>3. ASSUME NEW w, Becomes(q, w) PROVE op'[q] = w /\ q = o
  BY <1>1, <1>3 DEF Becomes
<1>4. ASSUME NEW s, Complete(q, s)
      PROVE  op'[o] = [op[o] EXCEPT !.pc = "over", !.status = s, !.completed = TRUE]
  BY <1>3, <1>4 DEF Complete
<1>5. ASSUME NEW s \in {"partial", "failed"}, Complete(q, s) PROVE FALSE
  <2>1. op'[o] = [op[o] EXCEPT !.pc = "over", !.status = s, !.completed = TRUE]
    BY <1>4, <1>5
  <2>2. op'[o].status = s  BY <1>1, <2>1 DEF OpRecs
  <2>3. QED  BY <1>5, <2>2
<1>6. ASSUME NEW k \in Kinds, NEW c \in Cogs, Request(q, k, c) PROVE FALSE
  <2>1. op'[o] = [op[o] EXCEPT !.pc = "health", !.kind = k, !.cog = c]
    BY <1>3, <1>6 DEF Request
  <2>2. QED  BY <1>1, <2>1 DEF OpRecs
<1>7. ASSUME Refused(q) PROVE FALSE
  <2>1. op'[o] = [op[o] EXCEPT !.pc = "over"]  BY <1>3, <1>7 DEF Refused
  <2>2. QED  BY <1>1, <2>1 DEF OpRecs
<1>8. ASSUME BeginLocked(q) PROVE FALSE
  <2>1. op'[o] = [op[o] EXCEPT !.pc = "over", !.inst = evid.inst,
                               !.status = "failed", !.completed = TRUE]
    BY <1>3, <1>8 DEF BeginLocked
  <2>2. QED  BY <1>1, <2>1 DEF OpRecs
<1>9. ASSUME Begin(q) PROVE FALSE
  <2> DEFINE p == IF op[o].kind \in CogKinds THEN "list" ELSE "call"
             t == IF op[o].kind = "reload_all" THEN Cogs ELSE {op[o].cog}
  <2>1. op'[o] = [op[o] EXCEPT !.pc = p, !.inst = evid.inst, !.status = "running",
                               !.todo = t]
    BY <1>3, <1>9 DEF Begin
  <2> HIDE DEF p, t
  <2>2. QED  BY <1>1, <2>1 DEF OpRecs
<1>10. ASSUME Lists(q) PROVE FALSE
  <2>1. Complete(q, "failed") \/ Becomes(q, [op[q] EXCEPT !.pc = "call"])
    BY <1>10 DEF Lists, Fail
  <2>2. op'[o] = [op[o] EXCEPT !.pc = "call"]  BY <1>3, <1>5, <2>1
  <2>3. QED  BY <1>1, <2>2 DEF OpRecs
<1>11. ASSUME NEW c \in Cogs, Performs(q, c) PROVE FALSE
  <2>1. op'[o] = [op[o] EXCEPT !.pc = "answer", !.todo = @ \ {c}]
    BY <1>3, <1>11 DEF Performs
  <2>2. QED  BY <1>1, <2>1 DEF OpRecs
<1>12. ASSUME NEW c \in Cogs, Raises(q, c) PROVE FALSE
  <2>1. \/ Complete(q, "partial") \/ Complete(q, "failed")
        \/ Becomes(q, [op[q] EXCEPT !.todo = @ \ {c}, !.failed = TRUE])
    BY <1>12 DEF Raises, Fail
  <2>2. op'[o] = [op[o] EXCEPT !.todo = @ \ {c}, !.failed = TRUE]
    BY <1>3, <1>5, <2>1
  <2>3. QED  BY <1>1, <2>2 DEF OpRecs
<1>13. Answers(q)
  BY <1>2, <1>6, <1>7, <1>8, <1>9, <1>10, <1>11, <1>12 DEF Coroutine
<1>14. ASSUME ~Verified(q) PROVE FALSE
  <2>1. Complete(q, "failed") \/ Becomes(q, [op[q] EXCEPT !.pc = "over"])
    BY <1>13, <1>14 DEF Answers, Fail, Abandon
  <2>2. op'[o] = [op[o] EXCEPT !.pc = "over"]  BY <1>3, <1>5, <2>1
  <2>3. QED  BY <1>1, <2>2 DEF OpRecs
<1>15. q = o
  <2>1. \E w : Becomes(q, w)  BY <1>13 DEF Answers, Fail, Abandon, Complete
  <2>2. QED  BY <1>3, <2>1
<1>16. QED  BY <1>13, <1>14, <1>15 DEF Answers

(* An operation reported as succeeded took effect.                          *)
THEOREM TookEffect == Spec => SucceededTookEffect
<1>1. OpsInv /\ [Next]_vars =>
        [\A o \in Ops : op'[o].status = "succeeded" /\ op[o].status # "succeeded"
            => /\ rec.state = "RUNNING"
               /\ op[o].kind \in {"load", "reload"} => op[o].cog \in loaded
               /\ op[o].kind = "unload" => op[o].cog \notin loaded]_vars
  <2> SUFFICES ASSUME OpsInv, [Next]_vars, NEW o \in Ops,
                      op'[o].status = "succeeded", op[o].status # "succeeded"
               PROVE  /\ rec.state = "RUNNING"
                      /\ op[o].kind \in {"load", "reload"} => op[o].cog \in loaded
                      /\ op[o].kind = "unload" => op[o].cog \notin loaded
    OBVIOUS
  <2>1. op[o].pc = "answer" /\ Verified(o)  BY OnlyAnswersSucceed
  <2>2. Effect(op[o])  BY DEF OpsInv
  <2>3. QED  BY <2>1, <2>2 DEF Verified, Effect
<1>2. QED  BY <1>1, OperationsInvariant, PTL DEF Spec, SucceededTookEffect

---------------------------------------------------------------------------
(* The health of the bot.                                                  *)

RepRecs == [connected : BOOLEAN, ready : BOOLEAN, seq : 1 .. MaxSeq + 1,
            sent : 0 .. MaxSeq, task : {"none", "due", "waiting"}]
EvRecs == [inst : 0 .. MaxExecutions, desired : {"running", "stopped"},
           running : BOOLEAN, verified : BOOLEAN, unexpected : BOOLEAN,
           beat : Beats, fresh : BOOLEAN, young : BOOLEAN]

(* What the bot says, has said and is known for is of its own executions.   *)
BotOwn ==
    /\ rep.ready => rep.connected
    /\ discord # "off" => inst # 0
    /\ \A d \in flight : d.inst # 0

StoreOwn ==
    /\ ev.running => ev.inst = inst
    /\ ev.beat.inst = 0 => ~ev.beat.ready

BeatInv == BeatTypeOK /\ BotOwn /\ StoreOwn /\ BeatOfItsInstance /\ NewestWins

LEMMA BeatTypes ==
    ASSUME BeatTypeOK
    PROVE  /\ inst \in 0 .. MaxExecutions /\ rep \in RepRecs /\ ev \in EvRecs
           /\ ev.beat \in Beats /\ newest \in 0 .. MaxSeq /\ MaxSeq \in Nat
           /\ \A d \in flight : d \in Beats
BY HeartbeatAssumption DEF BeatTypeOK, RepRecs, EvRecs

LEMMA NoBeatType == NoBeat \in Beats /\ NoBeat.inst = 0 /\ NoBeat.seq = 0 /\ ~NoBeat.ready
<1>1. 0 \in 0 .. MaxExecutions /\ 0 \in 0 .. MaxSeq  BY HeartbeatAssumption
<1>2. QED  BY <1>1 DEF NoBeat, Beats

LEMMA EvidenceType ==
    ASSUME NEW i \in 0 .. MaxExecutions, NEW s \in {"running", "stopped"},
           NEW r \in BOOLEAN, NEW v \in BOOLEAN, NEW u \in BOOLEAN
    PROVE  /\ Evidence(i, s, r, v, u) \in EvRecs
           /\ Evidence(i, s, r, v, u).inst = i /\ Evidence(i, s, r, v, u).running = r
           /\ Evidence(i, s, r, v, u).beat = NoBeat
<1>1. NoBeat \in Beats  BY NoBeatType
<1>2. QED  BY <1>1 DEF Evidence, EvRecs

(* A step of the bot: it may hand one datagram, true of it, to a thread.    *)
LEMMA BotStep ==
    ASSUME BeatInv, UNCHANGED <<inst, ev, newest, supUp>>,
           discord' \in {"off", "down", "up", "ready"},
           discord' # "off" => discord # "off",
           rep' \in RepRecs, rep'.ready => rep'.connected,
           \A d \in flight' \ flight :
               d \in Beats /\ d.inst # 0 /\ (d.ready => d.connected)
    PROVE  BeatInv'
<1>1. flight \subseteq {b \in Beats : b.ready => b.connected}
  BY DEF BeatInv, BeatTypeOK
<1>2. \A d \in flight' : d \in Beats /\ (d.ready => d.connected)  BY <1>1
<1>3. BeatTypeOK'  BY <1>2 DEF BeatInv, BeatTypeOK, RepRecs, Beats
<1>4. BotOwn'  BY DEF BeatInv, BotOwn
<1>5. (StoreOwn /\ BeatOfItsInstance /\ NewestWins)'
  BY DEF BeatInv, StoreOwn, BeatOfItsInstance, NewestWins
<1>6. QED  BY <1>3, <1>4, <1>5 DEF BeatInv

(* A datagram is handed over.                                               *)
LEMMA EmitStep ==
    ASSUME BeatInv, discord # "off", NEW r \in RepRecs, r.ready => r.connected, Emit(r)
    PROVE  /\ r.seq + 1 \in 1 .. MaxSeq + 1 /\ r.seq \in 0 .. MaxSeq
           /\ \A d \in flight' \ flight :
                  d \in Beats /\ d.inst # 0 /\ (d.ready => d.connected)
<1>1. inst \in 0 .. MaxExecutions /\ MaxSeq \in Nat /\ inst # 0
  BY BeatTypes DEF BeatInv, BotOwn
<1>2. r.seq \in 1 .. MaxSeq + 1 /\ r.seq <= MaxSeq  BY DEF Emit, RepRecs
<1>3. r.seq + 1 \in 1 .. MaxSeq + 1 /\ r.seq \in 0 .. MaxSeq  BY <1>1, <1>2
<1>4. /\ Beat(inst, r) \in Beats /\ Beat(inst, r).inst # 0
      /\ Beat(inst, r).ready => Beat(inst, r).connected
  BY <1>1, <1>3 DEF Beat, Beats, RepRecs
<1>5. QED  BY <1>3, <1>4 DEF Emit

LEMMA StartedType ==
    ASSUME NEW r \in RepRecs
    PROVE  /\ Started(r) \in RepRecs
           /\ Started(r).ready = r.ready /\ Started(r).connected = r.connected
<1> DEFINE k == IF r.task = "none" THEN "due" ELSE r.task
<1>1. Started(r) = [r EXCEPT !.task = k]  BY DEF Started
<1>2. k \in {"none", "due", "waiting"}  BY DEF RepRecs
<1> HIDE DEF k
<1>3. QED  BY <1>1, <1>2 DEF RepRecs

LEMMA GatewayInv == ASSUME BeatInv, Gateway PROVE BeatInv'
<1>1. /\ rep \in RepRecs /\ discord \in {"off", "down", "up", "ready"}
      /\ rep.ready => rep.connected
  BY BeatTypes DEF BeatInv, BeatTypeOK, BotOwn
<1>2. CASE Connects
  <2> DEFINE r == [rep EXCEPT !.connected = TRUE, !.ready = FALSE]
  <2>1. r \in RepRecs /\ ~r.ready  BY <1>1 DEF RepRecs
  <2>2. rep' = Started(r)  BY <1>2 DEF Connects
  <2> HIDE DEF r
  <2>3. rep' \in RepRecs /\ (rep'.ready => rep'.connected)
    BY <2>1, <2>2, StartedType
  <2>4. /\ UNCHANGED <<inst, ev, newest, supUp, flight>>
        /\ discord' = "up" /\ discord = "down"
    BY <1>2 DEF Connects
  <2>5. QED  BY <2>3, <2>4, BotStep
<1>3. CASE Readies
  <2> DEFINE r == [rep EXCEPT !.connected = TRUE, !.ready = TRUE]
  <2>1. r \in RepRecs /\ r.connected  BY <1>1 DEF RepRecs
  <2>2. rep' = Started(r)  BY <1>3 DEF Readies
  <2> HIDE DEF r
  <2>3. rep' \in RepRecs /\ (rep'.ready => rep'.connected)
    BY <2>1, <2>2, StartedType
  <2>4. /\ UNCHANGED <<inst, ev, newest, supUp, flight>>
        /\ discord' = "ready" /\ discord = "up"
    BY <1>3 DEF Readies
  <2>5. QED  BY <2>3, <2>4, BotStep
<1>4. CASE SessionResumes
  <2>1. /\ UNCHANGED <<inst, ev, newest, supUp, flight, rep>>
        /\ discord' = "ready" /\ discord = "down"
    BY <1>4 DEF SessionResumes
  <2>2. QED  BY <1>1, <2>1, BotStep
<1>5. CASE Disconnects
  <2> DEFINE r == Cleared(rep)
  <2>1. r \in RepRecs /\ ~r.ready  BY <1>1 DEF RepRecs, Cleared
  <2>2. /\ UNCHANGED <<inst, ev, newest, supUp>> /\ Emit(r)
        /\ discord' = "down" /\ discord # "off" /\ rep' = [r EXCEPT !.seq = r.seq + 1]
    BY <1>5 DEF Disconnects
  <2> HIDE DEF r
  <2>3. /\ r.seq + 1 \in 1 .. MaxSeq + 1
        /\ \A d \in flight' \ flight :
               d \in Beats /\ d.inst # 0 /\ (d.ready => d.connected)
    BY <2>1, <2>2, EmitStep
  <2>4. rep' \in RepRecs /\ ~rep'.ready  BY <2>1, <2>2, <2>3 DEF RepRecs
  <2>5. QED  BY <2>2, <2>3, <2>4, BotStep
<1>6. QED  BY <1>2, <1>3, <1>4, <1>5 DEF Gateway

(* A turn of the reporter's loop, and what the numbers it starts again      *)
(* change of the evidence.                                                  *)
LEMMA RunEmitsInv == ASSUME BeatInv, RunEmits PROVE BeatInv'
<1> DEFINE r == IF Quiet THEN [rep EXCEPT !.seq = 1] ELSE rep
<1>1. /\ rep \in RepRecs /\ (rep.ready => rep.connected)
      /\ ev \in EvRecs /\ ev.beat \in Beats /\ MaxSeq \in Nat
  BY BeatTypes DEF BeatInv, BotOwn
<1>2. r \in RepRecs /\ (r.ready => r.connected)
  <2>1. 1 \in 1 .. MaxSeq + 1  BY <1>1
  <2>2. QED  BY <1>1, <2>1 DEF RepRecs
<1>3. /\ discord # "off" /\ Emit(r) /\ UNCHANGED <<inst, discord, supUp>>
      /\ rep' = [r EXCEPT !.seq = r.seq + 1, !.sent = r.seq, !.task = "waiting"]
      /\ \/ ev' = [ev EXCEPT !.beat.seq = 0] /\ newest' = 0
         \/ UNCHANGED <<ev, newest>>
  BY DEF RunEmits
<1> HIDE DEF r
<1>4. /\ r.seq + 1 \in 1 .. MaxSeq + 1 /\ r.seq \in 0 .. MaxSeq
      /\ \A d \in flight' \ flight :
             d \in Beats /\ d.inst # 0 /\ (d.ready => d.connected)
  BY <1>2, <1>3, EmitStep
<1>5. rep' \in RepRecs /\ (rep'.ready => rep'.connected)
  BY <1>2, <1>3, <1>4 DEF RepRecs
<1>6. CASE UNCHANGED <<ev, newest>>
  <2>1. discord' \in {"off", "down", "up", "ready"}  BY <1>3 DEF BeatInv, BeatTypeOK
  <2>2. QED  BY <1>3, <1>4, <1>5, <1>6, <2>1, BotStep
<1>7. CASE ev' = [ev EXCEPT !.beat.seq = 0] /\ newest' = 0
  <2> DEFINE b == [ev.beat EXCEPT !.seq = 0]
  <2>1. ev' = [ev EXCEPT !.beat = b]  BY <1>7
  <2>2. /\ b \in Beats /\ b.inst = ev.beat.inst /\ b.ready = ev.beat.ready
        /\ b.seq = 0 /\ 0 \in 0 .. MaxSeq
    BY <1>1 DEF Beats
  <2> HIDE DEF b
  <2>3. /\ ev' \in EvRecs /\ ev'.beat = b /\ ev'.inst = ev.inst
        /\ ev'.running = ev.running
    BY <1>1, <2>1, <2>2 DEF EvRecs
  <2>4. flight \subseteq {x \in Beats : x.ready => x.connected}
    BY DEF BeatInv, BeatTypeOK
  <2>5. \A d \in flight' : d \in Beats /\ (d.ready => d.connected)
    BY <1>4, <2>4
  <2>6. BeatTypeOK'
    BY <1>3, <1>5, <1>7, <2>2, <2>3, <2>5 DEF BeatInv, BeatTypeOK, RepRecs, EvRecs, Beats
  <2>7. BotOwn'  BY <1>3, <1>4, <1>5 DEF BeatInv, BotOwn
  <2>8. (StoreOwn /\ BeatOfItsInstance /\ NewestWins)'
    BY <1>3, <1>7, <2>2, <2>3 DEF BeatInv, StoreOwn, BeatOfItsInstance, NewestWins
  <2>9. QED  BY <2>6, <2>7, <2>8 DEF BeatInv
<1>8. QED  BY <1>3, <1>6, <1>7

LEMMA ReporterInv == ASSUME BeatInv, Reporter PROVE BeatInv'
<1>1. CASE RunEmits  BY <1>1, RunEmitsInv
<1>2. CASE CadenceEnds
  <2>1. /\ rep \in RepRecs /\ (rep.ready => rep.connected)
        /\ discord \in {"off", "down", "up", "ready"}
    BY BeatTypes DEF BeatInv, BeatTypeOK, BotOwn
  <2>2. /\ UNCHANGED <<inst, discord, flight, ev, newest, supUp>>
        /\ rep' = [rep EXCEPT !.task = "due"]
    BY <1>2 DEF CadenceEnds
  <2>3. rep' \in RepRecs /\ (rep'.ready => rep'.connected)  BY <2>1, <2>2 DEF RepRecs
  <2>4. QED  BY <2>1, <2>2, <2>3, BotStep
<1>3. QED  BY <1>1, <1>2 DEF Reporter

(* A step of the store: the evidence it leaves is of one execution.         *)
LEMMA StoreStep ==
    ASSUME BeatInv, UNCHANGED <<inst, discord, rep>>, flight' \subseteq flight,
           supUp' \in BOOLEAN, ev' \in EvRecs, newest' \in 0 .. MaxSeq,
           ev'.running => ev'.inst = inst, ev'.beat.inst = 0 => ~ev'.beat.ready,
           ev'.beat.inst \in {0, ev'.inst}, ev'.beat.seq = newest'
    PROVE  BeatInv'
<1>1. flight' \subseteq {b \in Beats : b.ready => b.connected}
  BY DEF BeatInv, BeatTypeOK
<1>2. BeatTypeOK'  BY <1>1 DEF BeatInv, BeatTypeOK, EvRecs, Beats
<1>3. BotOwn'  BY DEF BeatInv, BotOwn
<1>4. (StoreOwn /\ BeatOfItsInstance /\ NewestWins)'
  BY DEF StoreOwn, BeatOfItsInstance, NewestWins
<1>5. QED  BY <1>2, <1>3, <1>4 DEF BeatInv

(* What the store relies on.                                                *)
LEMMA StoreHolds ==
    ASSUME BeatInv
    PROVE  /\ ev \in EvRecs /\ newest \in 0 .. MaxSeq /\ supUp \in BOOLEAN
           /\ ev.running => ev.inst = inst
           /\ ev.beat.inst = 0 => ~ev.beat.ready
           /\ ev.beat.inst \in {0, ev.inst} /\ ev.beat.seq = newest
BY BeatTypes DEF BeatInv, BeatTypeOK, StoreOwn, BeatOfItsInstance, NewestWins

LEMMA DeliveredInv ==
    ASSUME BeatInv, NEW d \in flight, Delivered(d) PROVE BeatInv'
<1>1. /\ d \in Beats /\ d.inst # 0 /\ MaxSeq \in Nat
  BY BeatTypes DEF BeatInv, BotOwn
<1>2. /\ UNCHANGED <<inst, discord, rep, supUp>> /\ flight' \subseteq flight
      /\ ev' = (IF Accepts(d) THEN Refreshed(d) ELSE ev)
      /\ newest' = (IF ev.verified /\ d.inst = ev.inst /\ d.seq > newest
                    THEN d.seq ELSE newest)
  BY DEF Delivered
<1>3. CASE Accepts(d)
  <2>1. ev' = [ev EXCEPT !.beat = d, !.fresh = TRUE]  BY <1>2, <1>3 DEF Refreshed
  <2>2. /\ ev' \in EvRecs /\ ev'.beat = d /\ ev'.inst = ev.inst
        /\ ev'.running = ev.running
    BY <1>1, <2>1, StoreHolds DEF EvRecs
  <2>3. newest' = d.seq /\ d.inst = ev.inst
    BY <1>2, <1>3, StoreHolds DEF Accepts
  <2>4. d.seq \in 0 .. MaxSeq  BY <1>1 DEF Beats
  <2>5. QED  BY <1>1, <1>2, <2>2, <2>3, <2>4, StoreHolds, StoreStep
<1>4. CASE ~Accepts(d)
  <2>1. ev' = ev  BY <1>2, <1>4
  <2>2. newest' = newest  BY <1>2, <1>4, StoreHolds DEF Accepts
  <2>3. QED  BY <1>2, <2>1, <2>2, StoreHolds, StoreStep
<1>5. QED  BY <1>3, <1>4

LEMMA ChannelInv == ASSUME BeatInv, Channel \/ Clock PROVE BeatInv'
<1>1. ASSUME NEW d \in flight, Delivered(d) PROVE BeatInv'  BY <1>1, DeliveredInv
<1>2. ASSUME NEW d \in flight, Lost(d) PROVE BeatInv'
  <2>1. UNCHANGED <<inst, discord, rep, ev, newest, supUp>> /\ flight' \subseteq flight
    BY <1>2 DEF Lost
  <2>2. QED  BY <2>1, StoreHolds, StoreStep
<1>3. CASE Clock
  <2>1. /\ UNCHANGED <<inst, discord, rep, flight, newest, supUp>>
        /\ ev' = [ev EXCEPT !.fresh = FALSE] \/ ev' = [ev EXCEPT !.young = FALSE]
    BY <1>3 DEF Clock, GoesStale, GrowsOld
  <2>2. /\ ev' \in EvRecs /\ ev'.beat = ev.beat /\ ev'.inst = ev.inst
        /\ ev'.running = ev.running
    BY <2>1, StoreHolds DEF EvRecs
  <2>3. QED  BY <2>1, <2>2, StoreHolds, StoreStep
<1>4. QED  BY <1>1, <1>2, <1>3 DEF Channel

(* Evidence set by the supervisor has heard no heartbeat yet.               *)
LEMMA AnewInv ==
    ASSUME BeatInv, NEW i \in 0 .. MaxExecutions, NEW s \in {"running", "stopped"},
           NEW r \in BOOLEAN, NEW v \in BOOLEAN, NEW u \in BOOLEAN,
           ev' = Evidence(i, s, r, v, u), newest' = 0, r => i = inst,
           UNCHANGED <<inst, discord, rep, flight>>, supUp' \in BOOLEAN
    PROVE  BeatInv'
<1>1. /\ ev' \in EvRecs /\ ev'.inst = i /\ ev'.running = r /\ ev'.beat = NoBeat
  BY EvidenceType
<1>2. newest' \in 0 .. MaxSeq  BY HeartbeatAssumption
<1>3. QED  BY <1>1, <1>2, NoBeatType, StoreStep

LEMMA SupervisorInv == ASSUME BeatInv, Supervisor PROVE BeatInv'
<1>1. /\ inst \in 0 .. MaxExecutions /\ ev.inst \in 0 .. MaxExecutions
      /\ supUp \in BOOLEAN
  BY BeatTypes DEF BeatInv, BeatTypeOK
<1>2. CASE ProcessStarts
  <2>1. /\ UNCHANGED <<flight, ev, newest, supUp>> /\ ~ev.running
        /\ inst' = inst + 1 /\ inst < MaxExecutions /\ discord' = "down"
        /\ rep' = NewReporter
    BY <1>2 DEF ProcessStarts
  <2>2. inst' \in 0 .. MaxExecutions /\ inst' # 0
    BY <1>1, <2>1, HeartbeatAssumption
  <2>3. rep' \in RepRecs /\ ~rep'.ready
    <3>1. 1 \in 1 .. MaxSeq + 1 /\ 0 \in 0 .. MaxSeq  BY HeartbeatAssumption
    <3>2. QED  BY <2>1, <3>1 DEF NewReporter, RepRecs
  <2>4. BeatTypeOK'
    BY <2>1, <2>2, <2>3 DEF BeatInv, BeatTypeOK, RepRecs, Beats
  <2>5. BotOwn' /\ StoreOwn'
    BY <2>1, <2>2, <2>3 DEF BeatInv, BotOwn, StoreOwn
  <2>6. (BeatOfItsInstance /\ NewestWins)'
    BY <2>1 DEF BeatInv, BeatOfItsInstance, NewestWins
  <2>7. QED  BY <2>4, <2>5, <2>6 DEF BeatInv
<1>3. CASE StartRecorded
  BY <1>1, <1>3, AnewInv DEF StartRecorded
<1>4. CASE ExitEvidence
  <2>1. PICK expected \in BOOLEAN :
            ev' = Evidence(ev.inst, IF expected THEN "stopped" ELSE "running",
                           FALSE, TRUE, ~expected)
    BY <1>4 DEF ExitEvidence
  <2>2. (IF expected THEN "stopped" ELSE "running") \in {"running", "stopped"}
    OBVIOUS
  <2>3. newest' = 0 /\ UNCHANGED <<inst, discord, rep, flight, supUp>>
    BY <1>4 DEF ExitEvidence
  <2>4. QED  BY <1>1, <2>1, <2>2, <2>3, AnewInv
<1>5. CASE SupervisorEnds
  <2>1. UNCHANGED <<inst, discord, rep, flight, ev, newest>> /\ supUp' = FALSE
    BY <1>5 DEF SupervisorEnds
  <2>2. QED  BY <2>1, StoreHolds, StoreStep
<1>6. CASE SupervisorStarts
  <2>1. UNCHANGED <<inst, discord, rep, flight>> /\ newest' = 0 /\ supUp' = TRUE
    BY <1>6 DEF SupervisorStarts
  <2>2. CASE discord # "off"
    <3>1. ev' = Evidence(inst, "running", TRUE, TRUE, FALSE)
      BY <1>6, <2>2 DEF SupervisorStarts
    <3>2. QED  BY <1>1, <2>1, <3>1, AnewInv
  <2>3. CASE discord = "off"
    <3>1. ev' = Evidence(inst, "stopped", FALSE, FALSE, FALSE)
      BY <1>6, <2>3 DEF SupervisorStarts
    <3>2. QED  BY <1>1, <2>1, <3>1, AnewInv
  <2>4. QED  BY <2>2, <2>3
<1>7. QED  BY <1>2, <1>3, <1>4, <1>5, <1>6 DEF Supervisor

LEMMA BotExitsInv == ASSUME BeatInv, BotExits PROVE BeatInv'
<1>1. rep \in RepRecs /\ (rep.ready => rep.connected)  BY BeatTypes DEF BeatInv, BotOwn
<1>2. /\ UNCHANGED <<inst, flight, ev, newest, supUp>> /\ discord' = "off"
      /\ rep' = [rep EXCEPT !.task = "none"]
  BY DEF BotExits
<1>3. rep' \in RepRecs /\ (rep'.ready => rep'.connected)  BY <1>1, <1>2 DEF RepRecs
<1>4. QED  BY <1>2, <1>3, BotStep

LEMMA BeatStepInv == BeatInv /\ [BeatNext]_beatVars => BeatInv'
<1> SUFFICES ASSUME BeatInv, [BeatNext]_beatVars PROVE BeatInv'  OBVIOUS
<1>1. CASE BeatNext
  BY <1>1, GatewayInv, ReporterInv, ChannelInv, SupervisorInv, BotExitsInv DEF BeatNext
<1>2. CASE UNCHANGED beatVars
  BY <1>2 DEF beatVars, BeatInv, BeatTypeOK, BotOwn, StoreOwn, BeatOfItsInstance,
              NewestWins
<1>3. QED  BY <1>1, <1>2

LEMMA BeatInitInv == BeatInit => BeatInv
<1> SUFFICES ASSUME BeatInit PROVE BeatInv  OBVIOUS
<1>1. /\ inst = 0 /\ discord = "off" /\ rep = NewReporter /\ flight = {}
      /\ ev = Evidence(0, "stopped", FALSE, FALSE, FALSE) /\ newest = 0 /\ supUp = TRUE
  BY DEF BeatInit
<1>2. /\ 0 \in 0 .. MaxExecutions /\ 0 \in 0 .. MaxSeq /\ 1 \in 1 .. MaxSeq + 1
  BY HeartbeatAssumption
<1>3. ev \in EvRecs /\ ev.inst = 0 /\ ~ev.running /\ ev.beat = NoBeat
  BY <1>1, <1>2, EvidenceType
<1>4. rep \in RepRecs /\ ~rep.ready  BY <1>1, <1>2 DEF NewReporter, RepRecs
<1>5. BeatTypeOK
  BY <1>1, <1>2, <1>3, <1>4 DEF BeatTypeOK, RepRecs, EvRecs
<1>6. BotOwn /\ StoreOwn /\ BeatOfItsInstance /\ NewestWins
  BY <1>1, <1>3, <1>4, NoBeatType DEF BotOwn, StoreOwn, BeatOfItsInstance, NewestWins
<1>7. QED  BY <1>5, <1>6 DEF BeatInv

(* Online is shown for a heartbeat of the latest execution that had READY.  *)
LEMMA OnlineOwn == ASSUME BeatInv PROVE OnlineReportedReady
<1> SUFFICES ASSUME Shown = "online" PROVE ev.beat.ready /\ ev.beat.inst = inst
  BY DEF OnlineReportedReady
<1>1. ev.running /\ ev.beat.ready  BY DEF Shown
<1>2. QED  BY <1>1, StoreHolds

---------------------------------------------------------------------------
(* The two side by side.                                                   *)

Agree == part \in Parts /\ OpsInv /\ BeatInv

LEMMA AgreeInit == InstancesInit => Agree
BY OpsInit, BeatInitInv DEF InstancesInit, Agree

LEMMA AgreeStep == Agree /\ [InstancesNext]_InstancesVars => Agree'
<1> SUFFICES ASSUME Agree, [InstancesNext]_InstancesVars PROVE Agree'  OBVIOUS
<1>1. [Next]_vars /\ [BeatNext]_beatVars /\ part' = part
  BY DEF InstancesNext, InstancesVars, Only
<1>2. QED  BY <1>1, StepInv, BeatStepInv DEF Agree

LEMMA Agreement == InstancesSpec => []Agree
<1>1. QED  BY AgreeInit, AgreeStep, PTL DEF InstancesSpec

(* Every variable of the operations and of the heartbeats keeps its type.   *)
THEOREM InstancesTypes == InstancesSpec => []InstancesTypeOK
<1>1. Agree => InstancesTypeOK
  BY DEF Agree, OpsInv, BeatInv, InstancesTypeOK
<1>2. QED  BY <1>1, Agreement, PTL

(* docs/supervisor/health.md, docs/portal/bot-operations.md: stored health  *)
(* is the newest of the execution on record, only an execution that had     *)
(* READY itself is shown online, an operation works under the lock on the   *)
(* execution it is bound to and its record says how it ended.               *)
THEOREM BeliefsHold == InstancesSpec => []BeliefsAreRight
<1>1. Agree => BeliefsAreRight
  <2> SUFFICES ASSUME Agree PROVE BeliefsAreRight  OBVIOUS
  <2>1. WorksOnItsInstance /\ OverIsCompleted
    BY DEF Agree, OpsInv, Holds, Reported, Working, WorksOnItsInstance, OverIsCompleted
  <2>2. BeatOfItsInstance /\ NewestWins /\ OnlineReportedReady
    BY OnlineOwn DEF Agree, BeatInv
  <2>3. QED  BY <2>1, <2>2 DEF BeliefsAreRight
<1>2. QED  BY <1>1, Agreement, PTL
=============================================================================
