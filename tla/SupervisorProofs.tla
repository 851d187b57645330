---------------------------- MODULE SupervisorProofs ----------------------------
(***************************************************************************)
(* Proofs about the supervisor for every set of bots and every number of   *)
(* executions: type correctness under all faults; the absence of two live  *)
(* processes of one bot when the record file can be written and the        *)
(* supervisor restarts only between operations; what the evidence of the   *)
(* HealthStore is worth; and that the supervisor implements BotSlots.      *)
(***************************************************************************)
EXTENDS SupervisorSlots, FiniteSetTheorems, TLAPS

Acts == {"none", "start", "stop", "restart"}
Pcs == {"idle", "spawn", "grace", "term", "kill"}
Statuses == {"none", "RUNNING", "SUCCEEDED", "FAILED"}

(* A save writes well-formed entries or leaves the content it found.        *)
LEMMA SaveType ==
    ASSUME NEW f \in [Bots -> Entry], NEW rs \in [Bots -> Record],
           NEW ok \in BOOLEAN, Save(f, rs, ok)
    PROVE  file' \in [Bots -> Entry]
<1>1. EncodeAll(rs) \in [Bots -> Entry]
  BY DEF EncodeAll, Encode, Entry, Record
<1>2. QED  BY <1>1 DEF Save

LEMMA NoRecType == NoRec \in Record /\ Encode(NoRec) \in Entry
<1>1. NoRec \in Record  BY SupervisorAssumption DEF NoRec, Record, States
<1>2. NoRec \in Record => Encode(NoRec) \in Entry  BY DEF Record, Encode, Entry
<1>3. QED  BY <1>1, <1>2

LEMMA RestateType ==
    ASSUME NEW r \in Record, NEW s \in States
    PROVE  [r EXCEPT !.st = s] \in Record
BY DEF Record

LEMMA NewRecType == \A i \in Insts : NewRec(i) \in Record
<1> SUFFICES ASSUME NEW i \in Insts PROVE NewRec(i) \in Record  OBVIOUS
<1>1. i \in 0..MaxInst  BY SupervisorAssumption DEF Insts
<1>2. [NoRec EXCEPT !.inst = i] \in Record  BY <1>1, NoRecType DEF Record
<1>3. NewRec(i) = [[NoRec EXCEPT !.inst = i] EXCEPT !.st = "STARTING"]
  BY DEF NewRec
<1>4. "STARTING" \in States  BY DEF States
<1>5. [[NoRec EXCEPT !.inst = i] EXCEPT !.st = "STARTING"] \in Record
  <2> DEFINE r == [NoRec EXCEPT !.inst = i]
  <2> HIDE DEF r
  <2>1. r \in Record  BY <1>2 DEF r
  <2>2. [r EXCEPT !.st = "STARTING"] \in Record  BY <2>1, <1>4, RestateType
  <2>3. QED  BY <2>2 DEF r
<1>6. QED  BY <1>3, <1>5

LEMMA NoEvidenceType == NoEvidence \in Evidence
BY SupervisorAssumption DEF Evidence, NoEvidence

LEMMA EvidenceType ==
    ASSUME NEW i \in 0..MaxInst, NEW e \in BOOLEAN
    PROVE  /\ StartedEvidence(i) \in Evidence
           /\ StoppedEvidence(i) \in Evidence
           /\ ExitEvidence(i, e) \in Evidence
<1>1. NoEvidence \in Evidence  BY NoEvidenceType
<1>2. StartedEvidence(i) \in Evidence /\ StoppedEvidence(i) \in Evidence
  BY <1>1 DEF Evidence, StartedEvidence, StoppedEvidence
<1>3. (IF e THEN "stopped" ELSE "running") \in {"running", "stopped"}
  OBVIOUS
<1>4. ExitEvidence(i, e) \in Evidence
  BY <1>1, <1>3 DEF Evidence, ExitEvidence
<1>5. QED  BY <1>2, <1>4

(* Ending or suspending an operation keeps the operation table well formed. *)
LEMMA FinishType ==
    ASSUME TypeOK, NEW b \in Bots, NEW s \in Statuses, Finish(b, s)
    PROVE  /\ op' \in [Bots -> [act: Acts, pc: Pcs]]
           /\ opStatus' \in [Bots -> Statuses]
BY DEF TypeOK, Finish, Idle, Acts, Pcs, Statuses

LEMMA HoldType ==
    ASSUME TypeOK, NEW b \in Bots, NEW a \in Acts, NEW pc \in Pcs, Hold(b, a, pc)
    PROVE  /\ op' \in [Bots -> [act: Acts, pc: Pcs]]
           /\ opStatus' \in [Bots -> Statuses]
BY DEF TypeOK, Hold, Acts, Pcs, Statuses

(* The part of the type invariant an operation step can disturb.            *)
OpType == /\ rec' \in [Bots -> Record]
          /\ file' \in [Bots -> Entry]
          /\ op' \in [Bots -> [act: Acts, pc: Pcs]]
          /\ opStatus' \in [Bots -> Statuses]

LEMMA StartFailedType ==
    ASSUME TypeOK, NEW b \in Bots, NEW r \in Record, NEW f \in [Bots -> Entry],
           StartFailed(b, r, f)
    PROVE  OpType
<1> DEFINE rs == [rec EXCEPT ![b] = [r EXCEPT !.st = "CRASHED"]]
<1>1. rs \in [Bots -> Record]  BY DEF TypeOK, Record, States
<1>2. PICK ok \in BOOLEAN : rec' = rs /\ Save(f, rs, ok)
                            /\ Finish(b, IF ok THEN "FAILED" ELSE "RUNNING")
  BY DEF StartFailed
<1> HIDE DEF rs
<1>3. file' \in [Bots -> Entry]  BY <1>1, <1>2, SaveType
<1>4. (IF ok THEN "FAILED" ELSE "RUNNING") \in Statuses  BY DEF Statuses
<1>5. QED  BY <1>1, <1>2, <1>3, <1>4, FinishType DEF OpType

LEMMA BeginStartType ==
    ASSUME TypeOK, NEW b \in Bots, NEW a \in Acts, NEW r \in Record,
           NEW f \in [Bots -> Entry], NEW h \in [Bots -> Evidence],
           BeginStart(b, a, r, f, h)
    PROVE  OpType /\ proc' \in [Bots -> [Insts -> ProcStatus]]
                  /\ health' \in [Bots -> Evidence]
<1>1. CASE /\ rec' = [rec EXCEPT ![b] = r]
           /\ file' = f /\ health' = h /\ Finish(b, "FAILED") /\ UNCHANGED proc
  <2>1. "FAILED" \in Statuses  BY DEF Statuses
  <2>2. OpType  BY <1>1, <2>1, FinishType DEF OpType, TypeOK
  <2>3. QED  BY <1>1, <2>2 DEF TypeOK
<1>2. ASSUME NEW i \in Insts, health' = h,
             rec' = [rec EXCEPT ![b] = NewRec(i)],
             proc' = [proc EXCEPT ![b][i] = "alive"], file' = f, Hold(b, a, "spawn")
      PROVE  OpType /\ proc' \in [Bots -> [Insts -> ProcStatus]]
                    /\ health' \in [Bots -> Evidence]
  <2>1. NewRec(i) \in Record  BY <1>2, NewRecType
  <2>2. "spawn" \in Pcs  BY DEF Pcs
  <2>3. OpType  BY <1>2, <2>1, <2>2, HoldType DEF OpType, TypeOK
  <2>4. proc' \in [Bots -> [Insts -> ProcStatus]]  BY <1>2 DEF TypeOK, ProcStatus
  <2>5. QED  BY <1>2, <2>3, <2>4
<1>3. ASSUME NEW i \in Insts, health' = h,
             proc' = [proc EXCEPT ![b][i] = "gone"], StartFailed(b, NewRec(i), f)
      PROVE  OpType /\ proc' \in [Bots -> [Insts -> ProcStatus]]
                    /\ health' \in [Bots -> Evidence]
  <2>1. NewRec(i) \in Record  BY <1>3, NewRecType
  <2>2. OpType  BY <1>3, <2>1, StartFailedType
  <2>3. proc' \in [Bots -> [Insts -> ProcStatus]]  BY <1>3 DEF TypeOK, ProcStatus
  <2>4. QED  BY <1>3, <2>2, <2>3
<1>4. CASE \E i \in Insts :
              /\ health' = h
              /\ \/ /\ rec' = [rec EXCEPT ![b] = NewRec(i)]
                    /\ proc' = [proc EXCEPT ![b][i] = "alive"]
                    /\ file' = f
                    /\ Hold(b, a, "spawn")
                 \/ /\ proc' = [proc EXCEPT ![b][i] = "gone"]
                    /\ StartFailed(b, NewRec(i), f)
  BY <1>2, <1>3, <1>4
<1>5. QED  BY <1>1, <1>4 DEF BeginStart

LEMMA IdentityRefusedType ==
    ASSUME TypeOK, NEW b \in Bots, NEW r \in Record, IdentityRefused(b, r)
    PROVE  OpType
<1> DEFINE rs == [rec EXCEPT ![b] = [r EXCEPT !.st = "UNKNOWN"]]
<1>1. rs \in [Bots -> Record]  BY DEF TypeOK, Record, States
<1>2. PICK ok \in BOOLEAN : rec' = rs /\ Save(file, rs, ok)
                            /\ Finish(b, IF ok THEN "FAILED" ELSE "RUNNING")
  BY DEF IdentityRefused
<1> HIDE DEF rs
<1>0. file \in [Bots -> Entry]  BY DEF TypeOK
<1>3. file' \in [Bots -> Entry]  BY <1>0, <1>1, <1>2, SaveType
<1>4. (IF ok THEN "FAILED" ELSE "RUNNING") \in Statuses  BY DEF Statuses
<1>5. QED  BY <1>1, <1>2, <1>3, <1>4, FinishType DEF OpType

LEMMA SignalType ==
    ASSUME TypeOK, NEW b \in Bots, NEW r \in Record, NEW s \in {"alive", "dying"},
           Signal(b, r, s)
    PROVE  /\ proc' \in [Bots -> [Insts -> ProcStatus]]
           /\ foreignHit' \in BOOLEAN
BY DEF TypeOK, Signal, ProcStatus, Live

LEMMA BeginStopType ==
    ASSUME TypeOK, NEW b \in Bots, NEW a \in Acts, NEW r \in Record,
           BeginStop(b, a, r)
    PROVE  TypeOK'
<1>1. OpType /\ proc' \in [Bots -> [Insts -> ProcStatus]] /\ foreignHit' \in BOOLEAN
  <2>1. CASE IdentityRefused(b, r)
    <3>1. OpType  BY <2>1, IdentityRefusedType
    <3>2. UNCHANGED <<proc, foreignHit>>  BY <2>1 DEF IdentityRefused
    <3>3. QED  BY <3>1, <3>2 DEF TypeOK
  <2>2. CASE /\ rec' = [rec EXCEPT ![b] = [r EXCEPT !.st = "STOPPING",
                                                    !.expected = TRUE]]
             /\ Signal(b, r, "alive") /\ Hold(b, a, "term") /\ UNCHANGED file
    <3>1. rec' \in [Bots -> Record]  BY <2>2 DEF TypeOK, Record, States
    <3>2. "term" \in Pcs  BY DEF Pcs
    <3>3. OpType  BY <2>2, <3>1, <3>2, HoldType DEF OpType, TypeOK
    <3>4. QED  BY <2>2, <3>3, SignalType
  <2>3. QED  BY <2>1, <2>2 DEF BeginStop
<1>2. UNCHANGED <<child, up, health>>  BY DEF BeginStop
<1>3. QED  BY <1>1, <1>2 DEF TypeOK, OpType, Acts, Pcs, Statuses

LEMMA StopFinishesType ==
    ASSUME TypeOK, NEW b \in Bots, StopFinishes(b)
    PROVE  TypeOK'
<1> DEFINE r == [rec[b] EXCEPT !.st = "OFFLINE"]
           rs == [rec EXCEPT ![b] = r]
           h == [health EXCEPT ![b] = StoppedEvidence(r.inst)]
<1>0. rec[b] \in Record /\ "OFFLINE" \in States  BY DEF TypeOK, States
<1>1. r \in Record /\ rs \in [Bots -> Record]
  <2>1. r \in Record  BY <1>0, RestateType
  <2> HIDE DEF r
  <2>2. QED  BY <2>1 DEF TypeOK
<1>2. EncodeAll(rs) \in [Bots -> Entry]
  BY <1>1 DEF EncodeAll, Encode, Entry, Record
<1>3. h \in [Bots -> Evidence]
  <2>1. r.inst \in 0..MaxInst  BY <1>1 DEF Record
  <2>2. StoppedEvidence(r.inst) \in Evidence  BY <2>1, EvidenceType
  <2>3. QED  BY <2>2 DEF TypeOK
<1> HIDE DEF r, rs, h
<1>4. OpType /\ proc' \in [Bots -> [Insts -> ProcStatus]]
             /\ health' \in [Bots -> Evidence]
  <2>1. CASE /\ rec' = rs /\ file' = EncodeAll(rs) /\ health' = h
             /\ Finish(b, "SUCCEEDED") /\ UNCHANGED proc
    <3>1. "SUCCEEDED" \in Statuses  BY DEF Statuses
    <3>2. OpType  BY <2>1, <3>1, <1>1, <1>2, FinishType DEF OpType
    <3>3. QED  BY <2>1, <3>2, <1>3 DEF TypeOK
  <2>2. CASE BeginStart(b, "restart", r, EncodeAll(rs), h)
    <3>1. "restart" \in Acts  BY DEF Acts
    <3>2. QED  BY <2>2, <3>1, <1>1, <1>2, <1>3, BeginStartType
  <2>3. CASE /\ rec' = rs /\ Save(file, rs, FALSE)
             /\ Finish(b, "RUNNING") /\ UNCHANGED <<proc, health>>
    <3>1. file \in [Bots -> Entry]  BY DEF TypeOK
    <3>2. file' \in [Bots -> Entry]  BY <2>3, <3>1, <1>1, SaveType
    <3>3. "RUNNING" \in Statuses  BY DEF Statuses
    <3>4. OpType  BY <2>3, <3>2, <3>3, <1>1, FinishType DEF OpType
    <3>5. QED  BY <2>3, <3>4 DEF TypeOK
  <2>4. QED  BY <2>1, <2>2, <2>3 DEF StopFinishes, r, rs, h
<1>5. UNCHANGED <<child, up, foreignHit>>  BY DEF StopFinishes
<1>6. QED  BY <1>4, <1>5 DEF TypeOK, OpType, Acts, Pcs, Statuses

LEMMA GraceEndsType ==
    ASSUME TypeOK, NEW b \in Bots, GraceEnds(b)
    PROVE  TypeOK'
<1> DEFINE r == rec[b]
           failed == proc[b][r.inst] \in Reaped \/ Identity(b, r) = "none"
           ready == [r EXCEPT !.ident = Identity(b, r), !.st = "RUNNING"]
           rs == [rec EXCEPT ![b] = ready]
<1>1. r \in Record /\ file \in [Bots -> Entry]  BY DEF TypeOK
<1>2. ASSUME ~failed PROVE ready \in Record
  <2>1. Identity(b, r) \in {"live", "zombie"}
    BY <1>2 DEF Identity, Reaped
  <2>2. QED  BY <1>1, <2>1 DEF Record, States
<1>3. ready \in Record => rs \in [Bots -> Record] /\ EncodeAll(rs) \in [Bots -> Entry]
  BY DEF TypeOK, EncodeAll, Encode, Entry, Record
<1>4. StartedEvidence(r.inst) \in Evidence
  BY <1>1, EvidenceType DEF Record
<1> HIDE DEF r, ready, rs, failed
<1>5. OpType /\ health' \in [Bots -> Evidence]
  <2>1. CASE StartFailed(b, r, file) /\ UNCHANGED health
    BY <2>1, <1>1, StartFailedType DEF TypeOK
  <2>2. CASE /\ ~failed /\ rec' = rs /\ file' = EncodeAll(rs)
             /\ health' = [health EXCEPT ![b] = StartedEvidence(r.inst)]
             /\ Finish(b, "SUCCEEDED")
    <3>1. "SUCCEEDED" \in Statuses  BY DEF Statuses
    <3>2. OpType  BY <2>2, <3>1, <1>2, <1>3, FinishType DEF OpType
    <3>3. QED  BY <2>2, <3>2, <1>4 DEF TypeOK
  <2>3. ASSUME ~failed, NEW f \in {file, EncodeAll(rs)}, StartFailed(b, ready, f),
               UNCHANGED health
        PROVE  OpType /\ health' \in [Bots -> Evidence]
    <3>1. f \in [Bots -> Entry] /\ ready \in Record  BY <2>3, <1>1, <1>2, <1>3
    <3>2. QED  BY <2>3, <3>1, StartFailedType DEF TypeOK
  <2>4. QED  BY <2>1, <2>2, <2>3 DEF GraceEnds, r, failed, ready, rs
<1>6. UNCHANGED <<proc, child, up, foreignHit>>  BY DEF GraceEnds
<1>7. QED  BY <1>5, <1>6 DEF TypeOK, OpType, Acts, Pcs, Statuses

LEMMA ExitCallbackType ==
    ASSUME TypeOK, NEW b \in Bots, NEW i \in Insts, ExitCallback(b, i)
    PROVE  TypeOK'
<1> DEFINE current == rec[b].inst = i
           expected == current /\ rec[b].expected
           rs == IF current
                 THEN [rec EXCEPT ![b].st = ExitState(expected)] ELSE rec
           h == [health EXCEPT ![b] = ExitEvidence(i, expected)]
<1>1. rs \in [Bots -> Record]
  <2>1. rec[b] \in Record /\ ExitState(expected) \in States
    BY DEF TypeOK, ExitState, States
  <2>2. [rec[b] EXCEPT !.st = ExitState(expected)] \in Record
    BY <2>1, RestateType
  <2>3. QED  BY <2>2 DEF TypeOK
<1>2. h \in [Bots -> Evidence]
  <2>1. expected \in BOOLEAN /\ i \in 0..MaxInst
    BY SupervisorAssumption DEF TypeOK, Insts, Record
  <2>2. ExitEvidence(i, expected) \in Evidence  BY <2>1, EvidenceType
  <2>3. QED  BY <2>2 DEF TypeOK
<1> HIDE DEF rs, h
<1>3. PICK ok \in BOOLEAN : Save(file, rs, ok) /\ health' = IF ok THEN h ELSE health
  BY DEF ExitCallback, rs, h
<1>4. file \in [Bots -> Entry]  BY DEF TypeOK
<1>5. file' \in [Bots -> Entry]  BY <1>1, <1>3, <1>4, SaveType
<1>6. rec' \in [Bots -> Record]  BY <1>1 DEF ExitCallback, rs
<1>7. health' \in [Bots -> Evidence]  BY <1>2, <1>3 DEF TypeOK
<1>8. child' \in [Bots -> SUBSET (0..MaxInst)]  BY DEF ExitCallback, TypeOK
<1>9. UNCHANGED <<proc, up, op, opStatus, foreignHit>>  BY DEF ExitCallback
<1>10. QED  BY <1>5, <1>6, <1>7, <1>8, <1>9 DEF TypeOK

LEMMA SpawnReturnsType ==
    ASSUME TypeOK, NEW b \in Bots, SpawnReturns(b)
    PROVE  TypeOK'
<1>1. op[b].act \in Acts /\ "grace" \in Pcs  BY DEF TypeOK, Acts, Pcs
<1>2. /\ op' \in [Bots -> [act: Acts, pc: Pcs]]
      /\ opStatus' \in [Bots -> Statuses]
  BY <1>1, HoldType DEF SpawnReturns
<1>3. rec' \in [Bots -> Record]
  <2>1. rec[b] \in Record /\ rec \in [Bots -> Record]  BY DEF TypeOK
  <2>2. [rec[b] EXCEPT !.pid = TRUE] \in Record  BY <2>1 DEF Record
  <2>3. rec' = [rec EXCEPT ![b] = [rec[b] EXCEPT !.pid = TRUE]]
    BY DEF SpawnReturns
  <2>4. QED  BY <2>1, <2>2, <2>3
<1>4. child' \in [Bots -> SUBSET (0..MaxInst)]
  BY DEF SpawnReturns, TypeOK, Record
<1>5. UNCHANGED <<proc, up, file, health, foreignHit>>  BY DEF SpawnReturns
<1>6. QED  BY <1>2, <1>3, <1>4, <1>5 DEF TypeOK, Acts, Pcs, Statuses

LEMMA StopTimesOutType ==
    ASSUME TypeOK, NEW b \in Bots, StopTimesOut(b)
    PROVE  TypeOK'
<1>1. rec[b] \in Record  BY DEF TypeOK
<1>2. OpType /\ proc' \in [Bots -> [Insts -> ProcStatus]] /\ foreignHit' \in BOOLEAN
  <2>1. CASE IdentityRefused(b, rec[b])
    <3>1. OpType  BY <2>1, <1>1, IdentityRefusedType
    <3>2. UNCHANGED <<proc, foreignHit>>  BY <2>1 DEF IdentityRefused
    <3>3. QED  BY <3>1, <3>2 DEF TypeOK
  <2>2. CASE /\ rec' = [rec EXCEPT ![b].forced = TRUE]
             /\ Signal(b, rec[b], "dying") /\ Hold(b, op[b].act, "kill")
             /\ UNCHANGED file
    <3>1. rec' \in [Bots -> Record]  BY <2>2, <1>1 DEF TypeOK, Record
    <3>2. "kill" \in Pcs /\ op[b].act \in Acts  BY DEF TypeOK, Acts, Pcs
    <3>3. OpType  BY <2>2, <3>1, <3>2, HoldType DEF OpType, TypeOK
    <3>4. QED  BY <2>2, <3>3, <1>1, SignalType
  <2>3. QED  BY <2>1, <2>2 DEF StopTimesOut
<1>3. UNCHANGED <<child, up, health>>  BY DEF StopTimesOut
<1>4. QED  BY <1>2, <1>3 DEF TypeOK, OpType, Acts, Pcs, Statuses

(* The operations that begin from the idle state of a bot.                  *)
LEMMA RequestType ==
    ASSUME TypeOK, NEW b \in Bots, Start(b) \/ Stop(b) \/ StopRefused(b) \/ Restart(b)
    PROVE  TypeOK'
<1>1. /\ rec[b] \in Record /\ file \in [Bots -> Entry] /\ health \in [Bots -> Evidence]
      /\ {"start", "stop", "restart"} \subseteq Acts
  BY DEF TypeOK, Acts
<1>2. ASSUME NEW a \in Acts, BeginStart(b, a, rec[b], file, health),
             UNCHANGED <<child, up, foreignHit>>
      PROVE  TypeOK'
  <2>1. OpType /\ proc' \in [Bots -> [Insts -> ProcStatus]]
               /\ health' \in [Bots -> Evidence]
    BY <1>1, <1>2, BeginStartType
  <2>2. QED  BY <1>2, <2>1 DEF TypeOK, OpType, Acts, Pcs, Statuses
<1>3. CASE Start(b)  BY <1>1, <1>2, <1>3 DEF Start
<1>4. CASE Stop(b)  BY <1>1, <1>4, BeginStopType DEF Stop
<1>5. CASE StopRefused(b)
  <2>1. "FAILED" \in Statuses  BY DEF Statuses
  <2>2. Finish(b, "FAILED")  BY <1>5 DEF StopRefused
  <2>3. QED  BY <1>5, <2>1, <2>2, FinishType
             DEF StopRefused, TypeOK, Acts, Pcs, Statuses
<1>6. CASE Restart(b)
  <2>1. [rec[b] EXCEPT !.st = "RESTARTING"] \in Record
    BY <1>1, RestateType DEF States
  <2>2. CASE BeginStart(b, "restart", rec[b], file, health)
               /\ UNCHANGED <<child, up, foreignHit>>
    BY <2>2, <1>1, <1>2
  <2>3. CASE BeginStop(b, "restart", [rec[b] EXCEPT !.st = "RESTARTING"])
    BY <2>1, <2>3, <1>1, BeginStopType
  <2>4. QED  BY <1>6, <2>2, <2>3 DEF Restart
<1>7. QED  BY <1>3, <1>4, <1>5, <1>6

LEMMA KillTimesOutType ==
    ASSUME TypeOK, NEW b \in Bots, KillTimesOut(b)
    PROVE  TypeOK'
<1>1. "RUNNING" \in Statuses  BY DEF Statuses
<1>2. QED  BY <1>1, FinishType DEF KillTimesOut, TypeOK, Acts, Pcs, Statuses

LEMMA DownType ==
    ASSUME TypeOK, GoesDown, file' \in [Bots -> Entry]
    PROVE  TypeOK'
<1>1. NoRec \in Record /\ NoEvidence \in Evidence
  BY NoRecType, NoEvidenceType
<1>2. rec' \in [Bots -> Record] /\ health' \in [Bots -> Evidence]
  BY <1>1 DEF GoesDown
<1>3. /\ up' \in BOOLEAN
      /\ child' \in [Bots -> SUBSET (0..MaxInst)]
      /\ opStatus' \in [Bots -> Statuses]
      /\ op' \in [Bots -> [act: Acts, pc: Pcs]]
  BY DEF GoesDown, Statuses, Idle, Acts, Pcs
<1>4. UNCHANGED <<proc, foreignHit>>  BY DEF GoesDown
<1>5. QED  BY <1>2, <1>3, <1>4 DEF TypeOK, Acts, Pcs, Statuses

LEMMA RecoverType ==
    ASSUME TypeOK, NEW b \in Bots
    PROVE  Recover(b) \in Record
<1>1. Decode(file[b]) \in Record  BY DEF TypeOK, Decode, Entry, Record, States
<1>2. [Decode(file[b]) EXCEPT !.st = "RUNNING"] \in Record
  BY <1>1, RestateType DEF States
<1>3. [Decode(file[b]) EXCEPT !.adopted = FALSE] \in Record
  BY <1>1 DEF Record
<1>4. QED  BY <1>2, <1>3, NoRecType DEF Recover

LEMMA StartupType ==
    ASSUME TypeOK, Startup
    PROVE  TypeOK'
<1> DEFINE rs == [b \in Bots |-> Recover(b)]
           ev(b) == [inst |-> rs[b].inst,
                     desired |-> IF rs[b].inst # 0 THEN "running" ELSE "stopped",
                     running |-> rs[b].st = "RUNNING", verified |-> rs[b].adopted,
                     unexpected |-> FALSE, conflict |-> rs[b].st = "UNKNOWN"]
<1>1. rs \in [Bots -> Record] /\ file \in [Bots -> Entry]
  BY RecoverType DEF TypeOK
<1>2. ASSUME NEW b \in Bots PROVE ev(b) \in Evidence
  <2>1. rs[b] \in Record  BY <1>1
  <2> HIDE DEF rs
  <2>2. QED  BY <2>1 DEF Record, Evidence
<1> HIDE DEF rs, ev
<1>3. PICK ok \in BOOLEAN : /\ Save(file, rs, ok) /\ up' = ok
                            /\ rec' = IF ok THEN rs ELSE rec
                            /\ health' = IF ~ok THEN health ELSE [b \in Bots |-> ev(b)]
  BY DEF Startup, rs, ev
<1>4. file' \in [Bots -> Entry]  BY <1>1, <1>3, SaveType
<1>5. health' \in [Bots -> Evidence]  BY <1>2, <1>3 DEF TypeOK
<1>6. rec' \in [Bots -> Record]  BY <1>1, <1>3 DEF TypeOK
<1>7. UNCHANGED <<proc, child, op, opStatus, foreignHit>>  BY DEF Startup
<1>8. QED  BY <1>3, <1>4, <1>5, <1>6, <1>7 DEF TypeOK

LEMMA KernelType ==
    ASSUME TypeOK, NEW b \in Bots, NEW i \in Insts, Kernel(b, i)
    PROVE  TypeOK'
<1>1. PICK from \in SUBSET ProcStatus, to \in ProcStatus : OsStep(b, i, from, to)
  BY DEF Kernel, Exits, Reap, PidReused, ForeignExits, ProcStatus, Live
<1>2. QED  BY <1>1 DEF OsStep, TypeOK

(* Every variable keeps its type under every fault the model has.           *)
THEOREM TypeCorrect == Spec => []TypeOK
<1>1. Init => TypeOK
  <2> SUFFICES ASSUME Init PROVE TypeOK  OBVIOUS
  <2>0. rec = [b \in Bots |-> NoRec] /\ file = [b \in Bots |-> Encode(rec[b])]
    BY DEF Init, EncodeAll
  <2>1. rec \in [Bots -> Record] /\ file \in [Bots -> Entry]
    BY <2>0, NoRecType
  <2>2. health \in [Bots -> Evidence]
    BY NoEvidenceType DEF Init
  <2>3. /\ op \in [Bots -> [act: Acts, pc: Pcs]]
        /\ proc \in [Bots -> [Insts -> ProcStatus]]
        /\ child \in [Bots -> SUBSET (0..MaxInst)]
        /\ opStatus \in [Bots -> Statuses]
    BY DEF Init, Idle, Acts, Pcs, Statuses, ProcStatus
  <2>4. up \in BOOLEAN /\ foreignHit \in BOOLEAN  BY DEF Init
  <2>5. QED  BY <2>1, <2>2, <2>3, <2>4 DEF TypeOK, Acts, Pcs, Statuses
<1>2. TypeOK /\ [Next]_vars => TypeOK'
  <2> SUFFICES ASSUME TypeOK, [Next]_vars PROVE TypeOK'  OBVIOUS
  <2>1. ASSUME NEW b \in Bots, Lifecycle(b) PROVE TypeOK'
    BY <2>1, RequestType, SpawnReturnsType, GraceEndsType, StopFinishesType,
       StopTimesOutType, KillTimesOutType DEF Lifecycle
  <2>2. ASSUME NEW b \in Bots, NEW i \in Insts, ExitCallback(b, i) \/ Kernel(b, i)
        PROVE  TypeOK'
    BY <2>2, ExitCallbackType, KernelType
  <2>3. CASE Shutdown
    <3>1. PICK ok \in BOOLEAN : Save(file, rec, ok)  BY <2>3 DEF Shutdown
    <3>0. file \in [Bots -> Entry] /\ rec \in [Bots -> Record]  BY DEF TypeOK
    <3>2. file' \in [Bots -> Entry]  BY <3>0, <3>1, SaveType
    <3>3. QED  BY <2>3, <3>2, DownType DEF Shutdown
  <2>4. CASE Crash
    <3>1. file' \in [Bots -> Entry]  BY <2>4 DEF Crash, TypeOK
    <3>2. QED  BY <2>4, <3>1, DownType DEF Crash
  <2>5. CASE Startup  BY <2>5, StartupType
  <2>6. CASE UNCHANGED vars  BY <2>6 DEF vars, TypeOK
  <2>7. QED  BY <2>1, <2>2, <2>3, <2>4, <2>5, <2>6 DEF Next
<1>3. QED  BY <1>1, <1>2, PTL DEF Spec

(* A proved identity is never that of a program that reused the pid.        *)
LEMMA VerifiedIsOurs ==
    ASSUME TypeOK, NEW b \in Bots, NEW r \in Record, Verified(b, r)
    PROVE  proc[b][r.inst] # "foreign"
<1>1. r.ident \notin {"none", "foreign"}  BY DEF Record
<1>2. Identity(b, r) \notin {"none", "foreign"}  BY <1>1 DEF Verified
<1>3. QED  BY <1>2 DEF Identity, Live

(* No signal reaches a program that took over a reaped pid, whatever the    *)
(* faults: both signals follow a proof of identity in the same step.        *)
THEOREM SignalsOnlyOurs == Spec => []NeverSignalsForeign
<1>1. Init => NeverSignalsForeign  BY DEF Init, NeverSignalsForeign
<1>2. TypeOK /\ NeverSignalsForeign /\ [Next]_vars => NeverSignalsForeign'
  <2> SUFFICES ASSUME TypeOK, ~foreignHit, [Next]_vars PROVE ~foreignHit'
    BY DEF NeverSignalsForeign
  <2>1. ASSUME NEW b \in Bots, NEW a, NEW r \in Record, BeginStop(b, a, r)
        PROVE  ~foreignHit'
    BY <2>1, VerifiedIsOurs DEF BeginStop, IdentityRefused, Signal
  <2>2. ASSUME NEW b \in Bots, Lifecycle(b) PROVE ~foreignHit'
    <3>1. rec[b] \in Record /\ [rec[b] EXCEPT !.st = "RESTARTING"] \in Record
      BY RestateType DEF TypeOK, States
    <3>2. CASE Stop(b)  BY <3>1, <3>2, <2>1 DEF Stop
    <3>3. CASE Restart(b)  BY <3>1, <3>3, <2>1 DEF Restart
    <3>4. CASE StopTimesOut(b)
      BY <3>1, <3>4, VerifiedIsOurs DEF StopTimesOut, IdentityRefused, Signal
    <3>5. CASE Start(b) \/ StopRefused(b) \/ SpawnReturns(b) \/ GraceEnds(b)
               \/ StopFinishes(b) \/ KillTimesOut(b)
      BY <3>5 DEF Start, StopRefused, SpawnReturns, GraceEnds, StopFinishes,
                  KillTimesOut
    <3>6. QED  BY <2>2, <3>2, <3>3, <3>4, <3>5 DEF Lifecycle
  <2>3. ASSUME NEW b \in Bots, NEW i \in Insts, ExitCallback(b, i) \/ Kernel(b, i)
        PROVE  ~foreignHit'
    BY <2>3 DEF ExitCallback, Kernel, Exits, Reap, PidReused, ForeignExits, OsStep
  <2>4. CASE Shutdown \/ Crash \/ Startup
    BY <2>4 DEF Shutdown, Crash, Startup, GoesDown
  <2>5. CASE UNCHANGED vars  BY <2>5 DEF vars
  <2>6. QED  BY <2>2, <2>3, <2>4, <2>5 DEF Next
<1>3. QED  BY <1>1, <1>2, TypeCorrect, PTL DEF Spec

---------------------------------------------------------------------------
(***************************************************************************)
(* A conflict, a record whose process is not proved to be the bot's, stays *)
(* until the supervisor goes down: no operation holds the lock of a bot    *)
(* with such a record, and none begins a new execution on it.              *)
(***************************************************************************)

Settled == \A b \in Bots : op[b].pc # "idle" => up /\ rec[b].st # "UNKNOWN"

(* b's record becomes r and its lock o: if the lock is held r is no         *)
(* conflict, and a conflict keeps the execution it names.                   *)
Settles(b, r, o) ==
    /\ rec' = [rec EXCEPT ![b] = r] /\ op' = [op EXCEPT ![b] = o]
    /\ o.pc # "idle" => r.st # "UNKNOWN"
    /\ rec[b].st = "UNKNOWN" => r.inst = rec[b].inst
SettlesOne(b) == up /\ up' /\ \E r, o : Settles(b, r, o)

LEMMA BeginStartSettles ==
    ASSUME TypeOK, NEW b \in Bots, NEW a, NEW r, NEW f, NEW h, BeginStart(b, a, r, f, h),
           r.inst = rec[b].inst, SafelyOffline(r) => rec[b].st # "UNKNOWN"
    PROVE  \E s, o : Settles(b, s, o)
<1>1. CASE rec' = [rec EXCEPT ![b] = r] /\ Finish(b, "FAILED")
  <2>1. Settles(b, r, Idle)
    BY <1>1 DEF Settles, Finish, Idle
  <2> QED BY <2>1
<1>2. ASSUME NEW i \in Insts, SafelyOffline(r), rec' = [rec EXCEPT ![b] = NewRec(i)],
             Hold(b, a, "spawn")
      PROVE  \E s, o : Settles(b, s, o)
  <2>1. NewRec(i).st # "UNKNOWN"
    BY DEF NewRec, NoRec
  <2>2. Settles(b, NewRec(i), [act |-> a, pc |-> "spawn"])
    BY <1>2, <2>1 DEF Settles, Hold
  <2> QED BY <2>2
<1>3. ASSUME NEW i \in Insts, SafelyOffline(r), StartFailed(b, NewRec(i), f)
      PROVE  \E s, o : Settles(b, s, o)
  <2>1. Settles(b, [NewRec(i) EXCEPT !.st = "CRASHED"], Idle)
    BY <1>3 DEF Settles, StartFailed, Finish, Idle
  <2> QED BY <2>1
<1> QED BY <1>1, <1>2, <1>3 DEF BeginStart

LEMMA RefusedSettles ==
    ASSUME NEW b \in Bots, NEW r, IdentityRefused(b, r), r.inst = rec[b].inst,
           r \in Record
    PROVE  \E s, o : Settles(b, s, o)
<1>1. [r EXCEPT !.st = "UNKNOWN"].inst = r.inst
  BY DEF Record
<1>2. Settles(b, [r EXCEPT !.st = "UNKNOWN"], Idle)
  BY <1>1 DEF Settles, IdentityRefused, Finish, Idle
<1> QED BY <1>2

LEMMA BeginStopSettles ==
    ASSUME NEW b \in Bots, NEW a, NEW r \in Record, BeginStop(b, a, r),
           r.inst = rec[b].inst
    PROVE  \E s, o : Settles(b, s, o)
<1> DEFINE stopping == [r EXCEPT !.st = "STOPPING", !.expected = TRUE]
<1>1. CASE IdentityRefused(b, r)
  BY <1>1, RefusedSettles
<1>2. CASE rec' = [rec EXCEPT ![b] = stopping] /\ Hold(b, a, "term")
  <2>1. stopping.inst = r.inst /\ stopping.st = "STOPPING"
    BY DEF Record
  <2> HIDE DEF stopping
  <2>2. Settles(b, stopping, [act |-> a, pc |-> "term"])
    BY <1>2, <2>1 DEF Settles, Hold
  <2> QED BY <2>2
<1> QED BY <1>1, <1>2 DEF BeginStop

LEMMA RequestSettles ==
    ASSUME TypeOK, NEW b \in Bots, Start(b) \/ Stop(b) \/ StopRefused(b) \/ Restart(b)
    PROVE  SettlesOne(b)
<1> USE DEF SettlesOne
<1>1. up /\ rec[b] \in Record /\ (SafelyOffline(rec[b]) => rec[b].st # "UNKNOWN")
  BY DEF TypeOK, SafelyOffline, Start, Stop, StopRefused, Restart, Accepts
<1>2. up'
  BY <1>1 DEF Start, Stop, StopRefused, Restart, BeginStop
<1>3. CASE Start(b)
  BY <1>1, <1>2, <1>3, BeginStartSettles DEF Start
<1>4. CASE Stop(b)
  BY <1>1, <1>2, <1>4, BeginStopSettles DEF Stop
<1>5. CASE StopRefused(b)
  <2>1. Settles(b, rec[b], Idle)
    BY <1>5 DEF Settles, StopRefused, Finish, Idle, TypeOK
  <2> QED BY <1>1, <1>2, <2>1
<1>6. CASE Restart(b)
  <2> DEFINE r == [rec[b] EXCEPT !.st = "RESTARTING"]
  <2>1. r \in Record /\ r.inst = rec[b].inst
    BY <1>1 DEF Record, States
  <2> HIDE DEF r
  <2>2. CASE BeginStart(b, "restart", rec[b], file, health)
    BY <1>1, <1>2, <2>2, BeginStartSettles
  <2>3. CASE BeginStop(b, "restart", r)
    BY <1>1, <1>2, <2>1, <2>3, BeginStopSettles
  <2> QED BY <1>6, <2>2, <2>3 DEF Restart, r
<1> QED BY <1>3, <1>4, <1>5, <1>6

LEMMA HeldSettles ==
    ASSUME TypeOK, Settled, NEW b \in Bots,
           \/ SpawnReturns(b) \/ GraceEnds(b)
           \/ StopFinishes(b) \/ StopTimesOut(b) \/ KillTimesOut(b)
    PROVE  SettlesOne(b)
<1> USE DEF SettlesOne
<1>1. up /\ rec[b].st # "UNKNOWN" /\ rec[b] \in Record
  BY DEF TypeOK, Settled, SpawnReturns, GraceEnds, StopFinishes, StopTimesOut, KillTimesOut
<1>2. up'
  BY <1>1 DEF SpawnReturns, GraceEnds, StopFinishes, StopTimesOut, KillTimesOut
<1>3. CASE SpawnReturns(b)
  <2>1. [rec[b] EXCEPT !.pid = TRUE].st # "UNKNOWN"
    BY <1>1 DEF Record
  <2>2. Settles(b, [rec[b] EXCEPT !.pid = TRUE], [act |-> op[b].act, pc |-> "grace"])
    BY <1>1, <1>3, <2>1 DEF Settles, SpawnReturns, Hold
  <2> QED BY <1>1, <1>2, <2>2
<1>4. CASE GraceEnds(b)
  <2> DEFINE ready == [rec[b] EXCEPT !.ident = Identity(b, rec[b]), !.st = "RUNNING"]
  <2>1. CASE StartFailed(b, rec[b], file)
    <3>1. Settles(b, [rec[b] EXCEPT !.st = "CRASHED"], Idle)
      BY <1>1, <2>1 DEF Settles, StartFailed, Finish, Idle
    <3> QED BY <1>1, <1>2, <3>1
  <2>2. CASE rec' = [rec EXCEPT ![b] = ready] /\ Finish(b, "SUCCEEDED")
    <3>1. Settles(b, ready, Idle)
      BY <1>1, <2>2 DEF Settles, Finish, Idle
    <3> QED BY <1>1, <1>2, <3>1
  <2>3. ASSUME NEW f, StartFailed(b, ready, f)
        PROVE  \E r, o : Settles(b, r, o)
    <3>1. Settles(b, [ready EXCEPT !.st = "CRASHED"], Idle)
      BY <1>1, <2>3 DEF Settles, StartFailed, Finish, Idle
    <3> QED BY <3>1
  <2> HIDE DEF ready
  <2> QED BY <1>1, <1>2, <1>4, <2>1, <2>2, <2>3 DEF GraceEnds, ready
<1>5. CASE StopFinishes(b)
  <2> DEFINE r == [rec[b] EXCEPT !.st = "OFFLINE"]
             rs == [rec EXCEPT ![b] = r]
             h == [health EXCEPT ![b] = StoppedEvidence(r.inst)]
  <2>1. CASE rec' = rs /\ \E status \in {"SUCCEEDED", "RUNNING"} : Finish(b, status)
    <3>1. Settles(b, r, Idle)
      BY <1>1, <2>1 DEF Settles, Finish, Idle
    <3> QED BY <1>1, <1>2, <3>1
  <2>2. CASE BeginStart(b, "restart", r, EncodeAll(rs), h)
    <3>1. r.inst = rec[b].inst
      BY <1>1 DEF Record
    <3> HIDE DEF r, rs, h
    <3> QED BY <1>1, <1>2, <2>2, <3>1, BeginStartSettles
  <2>3. \/ BeginStart(b, "restart", r, EncodeAll(rs), h)
        \/ rec' = rs /\ \E status \in {"SUCCEEDED", "RUNNING"} : Finish(b, status)
    BY <1>5 DEF StopFinishes
  <2> QED BY <2>1, <2>2, <2>3
<1>6. CASE StopTimesOut(b)
  <2>1. CASE IdentityRefused(b, rec[b])
    BY <1>1, <1>2, <2>1, RefusedSettles
  <2>2. CASE rec' = [rec EXCEPT ![b].forced = TRUE] /\ Hold(b, op[b].act, "kill")
    <3>1. [rec[b] EXCEPT !.forced = TRUE].st # "UNKNOWN"
      BY <1>1 DEF Record
    <3>2. Settles(b, [rec[b] EXCEPT !.forced = TRUE], [act |-> op[b].act, pc |-> "kill"])
      BY <1>1, <2>2, <3>1 DEF Settles, Hold
    <3> QED BY <1>1, <1>2, <3>2
  <2> QED BY <1>6, <2>1, <2>2 DEF StopTimesOut
<1>7. CASE KillTimesOut(b)
  <2>1. Settles(b, rec[b], Idle)
    BY <1>7 DEF Settles, KillTimesOut, Finish, Idle, TypeOK
  <2> QED BY <1>1, <1>2, <2>1
<1> QED BY <1>3, <1>4, <1>5, <1>6, <1>7

ConflictStays == \A b \in Bots : up /\ up' /\ rec[b].st = "UNKNOWN" => rec'[b].inst = rec[b].inst

LEMMA SettleStep ==
    ASSUME TypeOK, Settled, [Next]_vars
    PROVE  Settled' /\ ConflictStays
<1> USE DEF Settled, ConflictStays
<1>1. ASSUME NEW b \in Bots, SettlesOne(b)
      PROVE  Settled' /\ ConflictStays
  <2>1. PICK r, o : Settles(b, r, o)
    BY <1>1 DEF SettlesOne
  <2>2. /\ up /\ up'
        /\ rec'[b] = r /\ op'[b] = o
        /\ \A c \in Bots \ {b} : rec'[c] = rec[c] /\ op'[c] = op[c]
    BY <1>1, <2>1 DEF SettlesOne, Settles, TypeOK
  <2>3. /\ o.pc # "idle" => r.st # "UNKNOWN"
        /\ rec[b].st = "UNKNOWN" => r.inst = rec[b].inst
    BY <2>1 DEF Settles
  <2> QED BY <2>2, <2>3
<1>2. ASSUME NEW b \in Bots, NEW i \in Insts, ExitCallback(b, i)
      PROVE  Settled' /\ ConflictStays
  <2>1. up' = up /\ op' = op
    BY <1>2 DEF ExitCallback
  <2>2. rec' = rec \/ \E e : rec' = [rec EXCEPT ![b].st = ExitState(e)]
    BY <1>2 DEF ExitCallback
  <2>3. ASSUME NEW e, rec' = [rec EXCEPT ![b].st = ExitState(e)]
        PROVE  \A c \in Bots :
                 rec'[c].inst = rec[c].inst
                 /\ (rec[c].st # "UNKNOWN" => rec'[c].st # "UNKNOWN")
    <3>1. \A c \in Bots : rec[c] \in Record
      BY DEF TypeOK
    <3>2. rec'[b] = [rec[b] EXCEPT !.st = ExitState(e)]
          /\ \A c \in Bots \ {b} : rec'[c] = rec[c]
      BY <2>3 DEF TypeOK
    <3>3. ExitState(e) # "UNKNOWN"
      BY DEF ExitState
    <3> QED BY <3>1, <3>2, <3>3 DEF Record
  <2> QED BY <2>1, <2>2, <2>3
<1>3. ASSUME NEW b \in Bots, NEW i \in Insts, Kernel(b, i)
      PROVE  Settled' /\ ConflictStays
  BY <1>3 DEF Kernel, Exits, Reap, PidReused, ForeignExits, OsStep
<1>4. CASE Shutdown \/ Crash
  <2>1. ~up' /\ op' = [b \in Bots |-> Idle]
    BY <1>4 DEF Shutdown, Crash, GoesDown
  <2> QED BY <2>1 DEF Idle
<1>5. CASE Startup
  BY <1>5 DEF Startup
<1>6. CASE UNCHANGED vars
  BY <1>6 DEF vars
<1>7. ASSUME NEW b \in Bots, Lifecycle(b)
      PROVE  Settled' /\ ConflictStays
  BY <1>1, <1>7, RequestSettles, HeldSettles DEF Lifecycle
<1> QED BY <1>2, <1>3, <1>4, <1>5, <1>6, <1>7 DEF Next

(* The record of a conflict keeps naming its execution while the supervisor *)
(* runs, whatever fails: start and restart refuse it, and a stop either     *)
(* proves its identity or leaves it a conflict.                             *)
THEOREM ConflictsKept == Spec => ConflictIsKept
<1>1. Init => Settled
  BY DEF Init, Settled, Idle
<1>2. TypeOK /\ Settled /\ [Next]_vars => Settled'
  BY SettleStep
<1>3. TypeOK /\ Settled /\ [Next]_vars => [ConflictStays]_vars
  BY SettleStep
<1>4. Spec => [][ConflictStays]_vars
  BY <1>1, <1>2, <1>3, TypeCorrect, PTL DEF Spec
<1> QED BY <1>4 DEF ConflictIsKept, ConflictStays

---------------------------------------------------------------------------
(***************************************************************************)
(* A bot never runs twice, for every set of bots and number of executions, *)
(* provided that saves succeed and that the supervisor ends or dies only   *)
(* between operations.  Without either proviso TLC shows counterexamples.  *)
(***************************************************************************)

Clean == Faults \cap {"midop", "crash", "disk"} = {}

(* What another bot's step leaves alone.                                    *)
OnlyBot(b) ==
    /\ up' = up
    /\ \A c \in Bots \ {b} : /\ proc'[c] = proc[c] /\ rec'[c] = rec[c]
                             /\ op'[c] = op[c] /\ child'[c] = child[c]

LEMMA FrameSafe ==
    ASSUME SafetyInv, up, NEW b \in Bots, OnlyBot(b), Covers(b, rec[b], op[b].pc)'
    PROVE  SafetyInv'
BY DEF SafetyInv, OnlyBot, Covers

LEMMA CleanSave ==
    ASSUME Clean, NEW f, NEW rs, NEW ok \in BOOLEAN, Save(f, rs, ok)
    PROVE  ok /\ file' = EncodeAll(rs)
BY DEF Clean, Save

(* A covered record that is safely offline means that nothing is alive.     *)
LEMMA OfflineMeansDead ==
    ASSUME NEW b \in Bots, NEW r, NEW pc, Covers(b, r, pc), SafelyOffline(r)
    PROVE  \A i \in Insts : proc[b][i] \notin Live
BY DEF Covers

LEMMA StartFailedRec ==
    ASSUME TypeOK, NEW b \in Bots, NEW r, NEW f, StartFailed(b, r, f)
    PROVE  /\ rec' = [rec EXCEPT ![b] = [r EXCEPT !.st = "CRASHED"]]
           /\ op' = [op EXCEPT ![b] = Idle]
BY DEF StartFailed, Finish

LEMMA BeginStartSafe ==
    ASSUME TypeOK, SafetyInv, up, NEW b \in Bots, NEW a \in Acts, NEW r \in Record,
           NEW f, NEW h, Covers(b, r, "idle"), BeginStart(b, a, r, f, h),
           UNCHANGED <<child, up>>
    PROVE  SafetyInv'
<1>1. CASE rec' = [rec EXCEPT ![b] = r] /\ Finish(b, "FAILED") /\ UNCHANGED proc
  <2>1. rec'[b] = r /\ op'[b] = Idle /\ OnlyBot(b)
    BY <1>1 DEF TypeOK, Finish, OnlyBot
  <2>2. Covers(b, rec[b], op[b].pc)'
    BY <1>1, <2>1 DEF Covers, Idle
  <2>3. QED  BY <2>1, <2>2, FrameSafe
<1>2. ASSUME SafelyOffline(r), NEW i \in Insts,
             rec' = [rec EXCEPT ![b] = NewRec(i)],
             proc' = [proc EXCEPT ![b][i] = "alive"], Hold(b, a, "spawn")
      PROVE  SafetyInv'
  <2>1. \A j \in Insts : proc[b][j] \notin Live  BY <1>2, OfflineMeansDead
  <2>2. /\ rec'[b] = NewRec(i) /\ op'[b].pc = "spawn" /\ OnlyBot(b)
        /\ \A j \in Insts : proc'[b][j] \in Live => j = i
    BY <1>2, <2>1 DEF TypeOK, Hold, OnlyBot
  <2>3. NewRec(i).inst = i /\ ~SafelyOffline(NewRec(i))
    BY DEF NewRec, NoRec, SafelyOffline
  <2>4. Covers(b, rec[b], op[b].pc)'  BY <2>2, <2>3 DEF Covers, SafelyOffline
  <2>5. QED  BY <2>2, <2>4, FrameSafe
<1>3. ASSUME SafelyOffline(r), NEW i \in Insts,
             proc' = [proc EXCEPT ![b][i] = "gone"], StartFailed(b, NewRec(i), f)
      PROVE  SafetyInv'
  <2>1. \A j \in Insts : proc[b][j] \notin Live  BY <1>3, OfflineMeansDead
  <2>2. \A j \in Insts : proc'[b][j] \notin Live
    BY <1>3, <2>1 DEF TypeOK, Live
  <2>3. OnlyBot(b)  BY <1>3, StartFailedRec DEF OnlyBot, TypeOK
  <2>4. Covers(b, rec[b], op[b].pc)'  BY <2>2 DEF Covers
  <2>5. QED  BY <2>3, <2>4, FrameSafe
<1>4. CASE SafelyOffline(r) /\ \E i \in Insts :
              /\ health' = h
              /\ \/ /\ rec' = [rec EXCEPT ![b] = NewRec(i)]
                    /\ proc' = [proc EXCEPT ![b][i] = "alive"]
                    /\ file' = f
                    /\ Hold(b, a, "spawn")
                 \/ /\ proc' = [proc EXCEPT ![b][i] = "gone"]
                    /\ StartFailed(b, NewRec(i), f)
  BY <1>2, <1>3, <1>4
<1>5. QED  BY <1>1, <1>4 DEF BeginStart

(* A record that differs only in a state that refuses a start, and in its   *)
(* flags, still covers the bot.                                             *)
LEMMA RestateSafe ==
    ASSUME SafetyInv, up, NEW b \in Bots, NEW pc, Covers(b, rec[b], pc),
           pc \notin {"spawn", "grace"},
           rec'[b].inst = rec[b].inst, rec'[b].pid = rec[b].pid,
           rec'[b].ident = rec[b].ident, rec'[b].adopted = rec[b].adopted,
           \/ ~SafelyOffline(rec[b])'
           \/ rec'[b].st = rec[b].st,
           \A i \in Insts : proc'[b][i] \in Live => proc[b][i] \in Live,
           child'[b] = child[b], OnlyBot(b)
    PROVE  SafetyInv'
<1>1. Covers(b, rec[b], op[b].pc)'  BY DEF Covers, SafelyOffline
<1>2. QED  BY <1>1, FrameSafe

LEMMA RefusedSafe ==
    ASSUME TypeOK, SafetyInv, up, NEW b \in Bots, NEW pc, Covers(b, rec[b], pc),
           pc \notin {"spawn", "grace"}, NEW st,
           IdentityRefused(b, [rec[b] EXCEPT !.st = st]), UNCHANGED <<child, up>>
    PROVE  SafetyInv'
<1> DEFINE r == [rec[b] EXCEPT !.st = st]
<1>1. rec' = [rec EXCEPT ![b] = [r EXCEPT !.st = "UNKNOWN"]]
      /\ op' = [op EXCEPT ![b] = Idle] /\ UNCHANGED <<proc, child, up>>
  BY DEF IdentityRefused, Finish
<1>2. rec[b] \in Record  BY DEF TypeOK
<1>3. /\ rec'[b].inst = rec[b].inst /\ rec'[b].pid = rec[b].pid
      /\ rec'[b].ident = rec[b].ident /\ rec'[b].adopted = rec[b].adopted
      /\ rec'[b].st = "UNKNOWN"
  BY <1>1, <1>2 DEF Record, TypeOK
<1>4. ~SafelyOffline(rec[b])'  BY <1>3 DEF SafelyOffline
<1>5. OnlyBot(b)  BY <1>1 DEF OnlyBot, TypeOK
<1>6. QED  BY <1>1, <1>3, <1>4, <1>5, RestateSafe

LEMMA SignalSafe ==
    ASSUME TypeOK, NEW b \in Bots, NEW r, NEW s, Signal(b, r, s)
    PROVE  /\ \A c \in Bots \ {b} : proc'[c] = proc[c]
           /\ \A i \in Insts : proc'[b][i] \in Live => proc[b][i] \in Live
<1>1. CASE proc' = proc  BY <1>1
<1>2. CASE proc[b][r.inst] \in Live /\ proc' = [proc EXCEPT ![b][r.inst] = "dying"]
  BY <1>2 DEF TypeOK, Live
<1>3. QED  BY <1>1, <1>2 DEF Signal

LEMMA BeginStopSafe ==
    ASSUME TypeOK, SafetyInv, up, NEW b \in Bots, NEW a, NEW st,
           Covers(b, rec[b], "idle"),
           BeginStop(b, a, [rec[b] EXCEPT !.st = st])
    PROVE  SafetyInv'
<1> DEFINE r == [rec[b] EXCEPT !.st = st]
<1>1. UNCHANGED <<child, up>>  BY DEF BeginStop
<1>2. CASE IdentityRefused(b, r)
  <2>1. "idle" \notin {"spawn", "grace"}  OBVIOUS
  <2>2. QED  BY <1>1, <1>2, <2>1, RefusedSafe
<1>3. CASE /\ rec' = [rec EXCEPT ![b] = [r EXCEPT !.st = "STOPPING", !.expected = TRUE]]
           /\ Signal(b, r, "alive") /\ Hold(b, a, "term")
  <2>1. rec[b] \in Record  BY DEF TypeOK
  <2>2. /\ rec'[b].inst = rec[b].inst /\ rec'[b].pid = rec[b].pid
        /\ rec'[b].ident = rec[b].ident /\ rec'[b].adopted = rec[b].adopted
        /\ rec'[b].st = "STOPPING"
    BY <1>3, <2>1 DEF Record, TypeOK
  <2>3. ~SafelyOffline(rec[b])'  BY <2>2 DEF SafelyOffline
  <2>4. /\ \A c \in Bots \ {b} : proc'[c] = proc[c]
        /\ \A i \in Insts : proc'[b][i] \in Live => proc[b][i] \in Live
    BY <1>3, SignalSafe
  <2>5. OnlyBot(b)  BY <1>1, <1>3, <2>4 DEF OnlyBot, TypeOK, Hold
  <2>6. "idle" \notin {"spawn", "grace"} /\ child'[b] = child[b]
    BY <1>1
  <2>7. Covers(b, rec[b], "idle") /\ \A i \in Insts : proc'[b][i] \in Live => proc[b][i] \in Live
    BY <2>4
  <2> HIDE DEF r
  <2> QED  BY <2>2, <2>3, <2>5, <2>6, <2>7, RestateSafe
<1>4. QED  BY <1>2, <1>3 DEF BeginStop

(* An operation that holds no lock yet finds the bot covered as idle.       *)
LEMMA RequestSafe ==
    ASSUME TypeOK, SafetyInv, NEW b \in Bots,
           Start(b) \/ Stop(b) \/ StopRefused(b) \/ Restart(b)
    PROVE  SafetyInv'
<1>1. up /\ op[b] = Idle
  BY DEF Start, Stop, StopRefused, Restart, Accepts
<1>2. Covers(b, rec[b], "idle") /\ rec[b] \in Record
  BY <1>1 DEF SafetyInv, Idle, TypeOK
<1>3. ASSUME NEW a \in Acts, BeginStart(b, a, rec[b], file, health),
             UNCHANGED <<child, up, foreignHit>>
      PROVE  SafetyInv'
  BY <1>1, <1>2, <1>3, BeginStartSafe
<1>4. "start" \in Acts /\ "restart" \in Acts  BY DEF Acts
<1>5. CASE Start(b)  BY <1>3, <1>4, <1>5 DEF Start
<1>6. CASE Stop(b)
  <2>1. rec[b] = [rec[b] EXCEPT !.st = rec[b].st]  BY <1>2 DEF Record
  <2>2. BeginStop(b, "stop", [rec[b] EXCEPT !.st = rec[b].st])
    BY <1>6, <2>1 DEF Stop
  <2>3. QED  BY <1>1, <1>2, <2>2, BeginStopSafe
<1>7. CASE StopRefused(b)
  <2>1. UNCHANGED <<proc, child, up, rec>> /\ op' = [op EXCEPT ![b] = Idle]
    BY <1>7 DEF StopRefused, Finish
  <2>2. OnlyBot(b)  BY <2>1 DEF OnlyBot, TypeOK
  <2>3. QED  BY <1>1, <1>2, <2>1, <2>2, RestateSafe
<1>8. CASE Restart(b)
  <2>1. CASE BeginStart(b, "restart", rec[b], file, health)
               /\ UNCHANGED <<child, up, foreignHit>>
    BY <2>1, <1>3, <1>4
  <2>2. CASE BeginStop(b, "restart", [rec[b] EXCEPT !.st = "RESTARTING"])
    BY <2>2, <1>1, <1>2, BeginStopSafe
  <2>3. QED  BY <1>8, <2>1, <2>2 DEF Restart
<1>9. QED  BY <1>5, <1>6, <1>7, <1>8

(* A held lock means that the supervisor is up.                             *)
LEMMA HeldMeansUp ==
    ASSUME SafetyInv, NEW b \in Bots, op[b].pc # "idle" \/ child[b] # {}
    PROVE  up /\ Covers(b, rec[b], op[b].pc)
BY DEF SafetyInv, Idle

LEMMA SpawnReturnsSafe ==
    ASSUME TypeOK, SafetyInv, NEW b \in Bots, SpawnReturns(b)
    PROVE  SafetyInv'
<1>1. up /\ Covers(b, rec[b], op[b].pc)  BY HeldMeansUp DEF SpawnReturns
<1>2. rec[b] \in Record  BY DEF TypeOK
<1>3. /\ rec'[b].pid = TRUE /\ rec'[b].inst = rec[b].inst
      /\ rec'[b].st = rec[b].st
  BY <1>2 DEF SpawnReturns, TypeOK, Record
<1>4. /\ op'[b].pc = "grace" /\ proc' = proc
      /\ rec[b].inst \in child'[b]
  BY DEF SpawnReturns, Hold, TypeOK
<1>5. OnlyBot(b)  BY DEF SpawnReturns, Hold, OnlyBot, TypeOK
<1>6. Covers(b, rec[b], op[b].pc)'
  BY <1>1, <1>3, <1>4 DEF Covers, SafelyOffline
<1>7. QED  BY <1>1, <1>5, <1>6, FrameSafe

LEMMA GraceEndsSafe ==
    ASSUME Clean, TypeOK, SafetyInv, NEW b \in Bots, GraceEnds(b)
    PROVE  SafetyInv'
<1> DEFINE r == rec[b]
           failed == proc[b][r.inst] \in Reaped \/ Identity(b, r) = "none"
           ready == [r EXCEPT !.ident = Identity(b, r), !.st = "RUNNING"]
<1>1. up /\ Covers(b, r, "grace") /\ op[b].pc = "grace"
  BY HeldMeansUp DEF GraceEnds
<1>2. r \in Record /\ UNCHANGED <<proc, child, up>>  BY DEF GraceEnds, TypeOK
<1>3. ASSUME NEW i \in Insts, proc[b][i] \in Live
      PROVE  r.inst = i /\ ~failed /\ Identity(b, r) = "live" /\ r.pid
             /\ (r.adopted \/ i \in child[b])
  <2>1. r.inst = i /\ r.pid /\ (r.adopted \/ i \in child[b])
    BY <1>1, <1>3 DEF Covers
  <2>2. i # 0  BY <1>3, SupervisorAssumption DEF Insts
  <2>3. QED  BY <1>3, <2>1, <2>2 DEF Identity, Live, Reaped
<1>4. CASE failed /\ StartFailed(b, r, file)
  <2>1. \A i \in Insts : proc'[b][i] \notin Live  BY <1>2, <1>3, <1>4
  <2>2. OnlyBot(b)  BY <1>2, <1>4, StartFailedRec DEF OnlyBot, TypeOK
  <2>3. Covers(b, rec[b], op[b].pc)'  BY <2>1 DEF Covers
  <2>4. QED  BY <1>1, <2>2, <2>3, FrameSafe
<1>5. CASE rec' = [rec EXCEPT ![b] = ready] /\ Finish(b, "SUCCEEDED")
  <2>1. rec'[b] = ready /\ OnlyBot(b)
    BY <1>2, <1>5 DEF TypeOK, Finish, OnlyBot
  <2>2. /\ rec'[b].inst = r.inst /\ rec'[b].pid = r.pid /\ rec'[b].st = "RUNNING"
        /\ rec'[b].ident = Identity(b, r) /\ rec'[b].adopted = r.adopted
    BY <1>2, <2>1 DEF Record
  <2>3. Covers(b, rec[b], op[b].pc)'
    BY <1>2, <1>3, <2>2 DEF Covers, SafelyOffline
  <2>4. QED  BY <1>1, <2>1, <2>3, FrameSafe
<1>6. QED  BY <1>4, <1>5 DEF GraceEnds, Clean

(* A stop that finishes has seen the last live process of its bot end.      *)
LEMMA StopSeesNone ==
    ASSUME SafetyInv, NEW b \in Bots, StopFinishes(b)
    PROVE  \A i \in Insts : proc[b][i] \notin Live
<1>1. Covers(b, rec[b], op[b].pc) /\ op[b].pc \in {"term", "kill"}
  BY HeldMeansUp DEF StopFinishes
<1> SUFFICES ASSUME NEW i \in Insts, proc[b][i] \in Live PROVE FALSE  OBVIOUS
<1>2. /\ rec[b].inst = i /\ rec[b].pid
      /\ rec[b].adopted \/ i \in child[b]
  BY <1>1 DEF Covers
<1>3. i # 0  BY SupervisorAssumption DEF Insts
<1>4. Identity(b, rec[b]) = "live"  BY <1>2, <1>3 DEF Identity
<1>5. QED  BY <1>2, <1>4 DEF StopFinishes, ExitSeen

LEMMA StopFinishesSafe ==
    ASSUME Clean, TypeOK, SafetyInv, NEW b \in Bots, StopFinishes(b)
    PROVE  SafetyInv'
<1> DEFINE r == [rec[b] EXCEPT !.st = "OFFLINE"]
           rs == [rec EXCEPT ![b] = r]
<1>1. up /\ Covers(b, rec[b], op[b].pc) /\ op[b].pc \in {"term", "kill"}
  BY HeldMeansUp DEF StopFinishes
<1>2. rec[b] \in Record /\ r \in Record /\ UNCHANGED <<child, up>>
  BY RestateType DEF StopFinishes, TypeOK, States
<1>3. \A i \in Insts : proc[b][i] \notin Live  BY StopSeesNone
<1>4. CASE rec' = rs /\ op' = [op EXCEPT ![b] = Idle] /\ UNCHANGED proc
  <2>1. Covers(b, rec[b], op[b].pc)'  BY <1>3, <1>4 DEF Covers
  <2>2. OnlyBot(b)  BY <1>2, <1>4 DEF OnlyBot, TypeOK
  <2>3. QED  BY <1>1, <2>1, <2>2, FrameSafe
<1>5. ASSUME NEW f, NEW h, BeginStart(b, "restart", r, f, h)
      PROVE  SafetyInv'
  <2>1. Covers(b, r, "idle")  BY <1>3 DEF Covers
  <2>2. "restart" \in Acts  BY DEF Acts
  <2>3. QED  BY <1>1, <1>2, <1>5, <2>1, <2>2, BeginStartSafe
<1>6. QED  BY <1>4, <1>5 DEF StopFinishes, Finish

LEMMA StopTimesOutSafe ==
    ASSUME TypeOK, SafetyInv, NEW b \in Bots, StopTimesOut(b)
    PROVE  SafetyInv'
<1>1. up /\ Covers(b, rec[b], op[b].pc) /\ op[b].pc = "term"
  BY HeldMeansUp DEF StopTimesOut
<1>2. rec[b] \in Record /\ UNCHANGED <<child, up>>  BY DEF StopTimesOut, TypeOK
<1>3. op[b].pc \notin {"spawn", "grace"}  BY <1>1
<1>4. CASE IdentityRefused(b, rec[b])
  <2>1. IdentityRefused(b, [rec[b] EXCEPT !.st = rec[b].st])
    <3>1. rec[b] = [rec[b] EXCEPT !.st = rec[b].st]  BY <1>2 DEF Record
    <3>2. QED  BY <1>4, <3>1
  <2>2. QED  BY <1>1, <1>2, <1>3, <2>1, RefusedSafe
<1>5. CASE rec' = [rec EXCEPT ![b].forced = TRUE] /\ Signal(b, rec[b], "dying")
           /\ Hold(b, op[b].act, "kill")
  <2>1. /\ rec'[b].inst = rec[b].inst /\ rec'[b].pid = rec[b].pid
        /\ rec'[b].ident = rec[b].ident /\ rec'[b].adopted = rec[b].adopted
        /\ rec'[b].st = rec[b].st
    BY <1>2, <1>5 DEF Record, TypeOK
  <2>2. /\ \A c \in Bots \ {b} : proc'[c] = proc[c]
        /\ \A i \in Insts : proc'[b][i] \in Live => proc[b][i] \in Live
    BY <1>5, SignalSafe
  <2>3. OnlyBot(b)  BY <1>2, <1>5, <2>2 DEF OnlyBot, TypeOK, Hold
  <2>4. QED  BY <1>1, <1>2, <1>3, <2>1, <2>2, <2>3, RestateSafe
<1>6. QED  BY <1>4, <1>5 DEF StopTimesOut

LEMMA KillTimesOutSafe ==
    ASSUME TypeOK, SafetyInv, NEW b \in Bots, KillTimesOut(b)
    PROVE  SafetyInv'
<1>1. up /\ Covers(b, rec[b], op[b].pc) /\ op[b].pc = "kill"
  BY HeldMeansUp DEF KillTimesOut
<1>2. UNCHANGED <<proc, child, up, rec>> /\ op' = [op EXCEPT ![b] = Idle]
  BY DEF KillTimesOut, Finish
<1>3. OnlyBot(b)  BY <1>2 DEF OnlyBot, TypeOK
<1>4. op[b].pc \notin {"spawn", "grace"}  BY <1>1
<1>5. QED  BY <1>1, <1>2, <1>3, <1>4, RestateSafe

LEMMA ExitCallbackSafe ==
    ASSUME TypeOK, SafetyInv, NEW b \in Bots, NEW i \in Insts, ExitCallback(b, i)
    PROVE  SafetyInv'
<1>1. up /\ Covers(b, rec[b], op[b].pc)  BY HeldMeansUp DEF ExitCallback
<1>2. /\ child' = [child EXCEPT ![b] = @ \ {i}] /\ UNCHANGED <<proc, up, op>>
      /\ proc[b][i] \in Reaped
  BY DEF ExitCallback
<1>3. \A j \in Insts : proc[b][j] \in Live => j # i
  BY <1>2 DEF Live, Reaped
<1>4. rec[b].inst # i => rec' = rec  BY DEF ExitCallback
<1>5. rec[b].inst = i => \A j \in Insts : proc[b][j] \notin Live
  BY <1>1, <1>3 DEF Covers
<1>6. OnlyBot(b)
  <2>1. \A c \in Bots \ {b} : rec'[c] = rec[c]  BY DEF ExitCallback, TypeOK
  <2>2. QED  BY <1>2, <2>1 DEF OnlyBot, TypeOK
<1>7. Covers(b, rec[b], op[b].pc)'
  <2>1. CASE rec[b].inst = i  BY <1>2, <1>5, <2>1 DEF Covers
  <2>2. CASE rec[b].inst # i
    BY <1>1, <1>2, <1>3, <1>4, <2>2 DEF Covers, TypeOK
  <2>3. QED  BY <2>1, <2>2
<1>8. QED  BY <1>1, <1>6, <1>7, FrameSafe

LEMMA KernelSafe ==
    ASSUME TypeOK, SafetyInv, NEW b \in Bots, NEW i \in Insts, Kernel(b, i)
    PROVE  SafetyInv'
<1>1. PICK to \in {"zombie", "gone", "foreign"} : proc' = [proc EXCEPT ![b][i] = to]
  BY DEF Kernel, Exits, Reap, PidReused, ForeignExits, OsStep
<1>2. UNCHANGED <<child, up, rec, file, op>>
  BY DEF Kernel, Exits, Reap, PidReused, ForeignExits, OsStep
<1>3. \A c \in Bots, j \in Insts : proc'[c][j] \in Live => proc[c][j] \in Live
  BY <1>1 DEF TypeOK, Live
<1>4. QED  BY <1>2, <1>3 DEF SafetyInv, Covers, Saved, Idle

(* The record file, for the supervisor that dies without saving it.         *)
LEMMA SavedFile ==
    ASSUME file' = EncodeAll(rec')
    PROVE  FileIsCurrent'
BY DEF FileIsCurrent, EncodeAll, Encode

LEMMA KeptFile ==
    ASSUME FileIsCurrent, up, file' = file,
           \A c \in Bots : op'[c].pc \notin {"spawn", "grace"} =>
               /\ op[c].pc \notin {"spawn", "grace"}
               /\ rec'[c].inst = rec[c].inst /\ rec'[c].pid = rec[c].pid
               /\ rec'[c].ident = rec[c].ident
    PROVE  FileIsCurrent'
BY DEF FileIsCurrent, Encode

LEMMA StartFailedFile ==
    ASSUME Clean, NEW b \in Bots, NEW r, NEW f, StartFailed(b, r, f)
    PROVE  FileIsCurrent'
<1> DEFINE rs == [rec EXCEPT ![b] = [r EXCEPT !.st = "CRASHED"]]
<1>1. PICK ok \in BOOLEAN : rec' = rs /\ Save(f, rs, ok)  BY DEF StartFailed
<1>2. file' = EncodeAll(rs)  BY <1>1, CleanSave
<1>3. QED  BY <1>1, <1>2, SavedFile

(* f is up to date for the record r the start begins on and for the others. *)
LEMMA BeginStartFile ==
    ASSUME Clean, TypeOK, NEW b \in Bots, NEW a \in Acts, NEW r, NEW f, NEW h,
           BeginStart(b, a, r, f, h), f[b] = Encode(r),
           \A c \in Bots \ {b} :
               op[c].pc \notin {"spawn", "grace"} => f[c] = Encode(rec[c])
    PROVE  FileIsCurrent'
<1>1. CASE rec' = [rec EXCEPT ![b] = r] /\ file' = f /\ Finish(b, "FAILED")
  <2>1. /\ rec'[b] = r
        /\ \A c \in Bots \ {b} : rec'[c] = rec[c] /\ op'[c] = op[c]
    BY <1>1 DEF Finish, TypeOK
  <2>2. QED  BY <1>1, <2>1 DEF FileIsCurrent, Encode
<1>2. ASSUME NEW i \in Insts, rec' = [rec EXCEPT ![b] = NewRec(i)], file' = f,
             Hold(b, a, "spawn")
      PROVE  FileIsCurrent'
  <2>1. /\ op'[b].pc = "spawn"
        /\ \A c \in Bots \ {b} : rec'[c] = rec[c] /\ op'[c] = op[c]
    BY <1>2 DEF Hold, TypeOK
  <2>2. QED  BY <1>2, <2>1 DEF FileIsCurrent, Encode
<1>3. ASSUME NEW i \in Insts, StartFailed(b, NewRec(i), f)
      PROVE  FileIsCurrent'
  BY <1>3, StartFailedFile
<1>4. QED  BY <1>1, <1>2, <1>3 DEF BeginStart

LEMMA RefusedFile ==
    ASSUME Clean, NEW b \in Bots, NEW r, IdentityRefused(b, r)
    PROVE  FileIsCurrent'
<1> DEFINE rs == [rec EXCEPT ![b] = [r EXCEPT !.st = "UNKNOWN"]]
<1>1. PICK ok \in BOOLEAN : rec' = rs /\ Save(file, rs, ok)  BY DEF IdentityRefused
<1>2. file' = EncodeAll(rs)  BY <1>1, CleanSave
<1>3. QED  BY <1>1, <1>2, SavedFile

(* An operation takes or keeps the lock of b without a save.                *)
LEMMA HeldFile ==
    ASSUME TypeOK, FileIsCurrent, up, NEW b \in Bots, NEW r \in Record,
           NEW a, NEW pc, op[b].pc \notin {"spawn", "grace"}, Hold(b, a, pc),
           rec' = [rec EXCEPT ![b] = r], file' = file,
           r.inst = rec[b].inst, r.pid = rec[b].pid, r.ident = rec[b].ident
    PROVE  FileIsCurrent'
<1>1. /\ rec'[b] = r
      /\ \A c \in Bots \ {b} : rec'[c] = rec[c] /\ op'[c] = op[c]
  BY DEF Hold, TypeOK
<1>2. QED  BY <1>1, KeptFile

LEMMA BeginStopFile ==
    ASSUME Clean, TypeOK, FileIsCurrent, up, NEW b \in Bots, NEW a,
           NEW r \in Record, op[b] = Idle, BeginStop(b, a, r),
           r.inst = rec[b].inst, r.pid = rec[b].pid, r.ident = rec[b].ident
    PROVE  FileIsCurrent'
<1> DEFINE s == [r EXCEPT !.st = "STOPPING", !.expected = TRUE]
<1>1. CASE IdentityRefused(b, r)  BY <1>1, RefusedFile
<1>2. CASE rec' = [rec EXCEPT ![b] = s] /\ Hold(b, a, "term") /\ file' = file
  <2>1. s \in Record /\ s.inst = r.inst /\ s.pid = r.pid /\ s.ident = r.ident
    BY DEF Record, States
  <2>2. op[b].pc \notin {"spawn", "grace"}  BY DEF Idle
  <2>3. QED  BY <1>2, <2>1, <2>2, HeldFile
<1>3. QED  BY <1>1, <1>2 DEF BeginStop

LEMMA RequestFile ==
    ASSUME Clean, TypeOK, FileIsCurrent, NEW b \in Bots,
           Start(b) \/ Stop(b) \/ StopRefused(b) \/ Restart(b)
    PROVE  FileIsCurrent'
<1>1. up /\ op[b] = Idle /\ op[b].pc \notin {"spawn", "grace"}
  BY DEF Start, Stop, StopRefused, Restart, Accepts, Idle
<1>2. rec[b] \in Record  BY DEF TypeOK
<1>3. ASSUME NEW a \in Acts, BeginStart(b, a, rec[b], file, health)
      PROVE  FileIsCurrent'
  <2>1. \A c \in Bots :
            op[c].pc \notin {"spawn", "grace"} => file[c] = Encode(rec[c])
    BY <1>1 DEF FileIsCurrent
  <2>2. QED  BY <1>1, <1>3, <2>1, BeginStartFile
<1>4. "start" \in Acts /\ "restart" \in Acts  BY DEF Acts
<1>5. CASE Start(b)  BY <1>3, <1>4, <1>5 DEF Start
<1>6. CASE Stop(b)  BY <1>1, <1>2, <1>6, BeginStopFile DEF Stop
<1>7. CASE StopRefused(b)
  <2>1. UNCHANGED <<rec, file>> /\ op' = [op EXCEPT ![b] = Idle]
    BY <1>7 DEF StopRefused, Finish
  <2>2. \A c \in Bots \ {b} : op'[c] = op[c]  BY <2>1 DEF TypeOK
  <2>3. QED  BY <1>1, <2>1, <2>2, KeptFile
<1>8. CASE Restart(b)
  <2> DEFINE r == [rec[b] EXCEPT !.st = "RESTARTING"]
  <2>1. CASE BeginStart(b, "restart", rec[b], file, health)
    BY <2>1, <1>3, <1>4
  <2>2. CASE BeginStop(b, "restart", r)
    <3>1. /\ r \in Record /\ r.inst = rec[b].inst /\ r.pid = rec[b].pid
          /\ r.ident = rec[b].ident
      BY <1>2 DEF Record, States
    <3>2. QED  BY <1>1, <2>2, <3>1, BeginStopFile
  <2>3. QED  BY <1>8, <2>1, <2>2 DEF Restart
<1>9. QED  BY <1>5, <1>6, <1>7, <1>8

LEMMA SpawnReturnsFile ==
    ASSUME TypeOK, SafetyInv, FileIsCurrent, NEW b \in Bots, SpawnReturns(b)
    PROVE  FileIsCurrent'
<1>1. up  BY HeldMeansUp DEF SpawnReturns
<1>2. /\ op'[b].pc = "grace" /\ file' = file
      /\ \A c \in Bots \ {b} : rec'[c] = rec[c] /\ op'[c] = op[c]
  BY DEF SpawnReturns, Hold, TypeOK
<1>3. QED  BY <1>1, <1>2, KeptFile

LEMMA GraceEndsFile ==
    ASSUME Clean, NEW b \in Bots, GraceEnds(b)
    PROVE  FileIsCurrent'
<1> DEFINE ready == [rec[b] EXCEPT !.ident = Identity(b, rec[b]), !.st = "RUNNING"]
           rs == [rec EXCEPT ![b] = ready]
<1>1. CASE StartFailed(b, rec[b], file)  BY <1>1, StartFailedFile
<1>2. CASE rec' = rs /\ file' = EncodeAll(rs)  BY <1>2, SavedFile
<1>3. QED  BY <1>1, <1>2 DEF GraceEnds, Clean

LEMMA StopFinishesFile ==
    ASSUME Clean, TypeOK, NEW b \in Bots, StopFinishes(b)
    PROVE  FileIsCurrent'
<1> DEFINE r == [rec[b] EXCEPT !.st = "OFFLINE"]
           rs == [rec EXCEPT ![b] = r]
           h == [health EXCEPT ![b] = StoppedEvidence(r.inst)]
<1>1. CASE rec' = rs /\ file' = EncodeAll(rs)  BY <1>1, SavedFile
<1>2. CASE BeginStart(b, "restart", r, EncodeAll(rs), h)
  <2>1. "restart" \in Acts  BY DEF Acts
  <2>2. /\ EncodeAll(rs)[b] = Encode(r)
        /\ \A c \in Bots \ {b} : EncodeAll(rs)[c] = Encode(rec[c])
    BY DEF EncodeAll, TypeOK
  <2>3. QED  BY <1>2, <2>1, <2>2, BeginStartFile
<1>3. ~ Save(file, rs, FALSE)  BY DEF Save, Clean
<1>4. QED  BY <1>1, <1>2, <1>3 DEF StopFinishes

LEMMA StopTimesOutFile ==
    ASSUME Clean, TypeOK, SafetyInv, FileIsCurrent, NEW b \in Bots,
           StopTimesOut(b) \/ KillTimesOut(b)
    PROVE  FileIsCurrent'
<1>1. up /\ op[b].pc \notin {"spawn", "grace"}
  BY HeldMeansUp DEF StopTimesOut, KillTimesOut
<1>2. CASE IdentityRefused(b, rec[b])  BY <1>2, RefusedFile
<1>3. CASE rec' = [rec EXCEPT ![b].forced = TRUE] /\ file' = file
           /\ Hold(b, op[b].act, "kill")
  <2> DEFINE r == [rec[b] EXCEPT !.forced = TRUE]
  <2>1. rec[b] \in Record  BY DEF TypeOK
  <2>2. /\ r \in Record /\ r.inst = rec[b].inst /\ r.pid = rec[b].pid
        /\ r.ident = rec[b].ident
    BY <2>1 DEF Record
  <2>3. rec' = [rec EXCEPT ![b] = r]  BY <1>3
  <2>4. QED  BY <1>1, <1>3, <2>2, <2>3, HeldFile
<1>4. CASE KillTimesOut(b)
  <2>1. UNCHANGED <<rec, file>> /\ op' = [op EXCEPT ![b] = Idle]
    BY <1>4 DEF KillTimesOut, Finish
  <2>2. \A c \in Bots \ {b} : op'[c] = op[c]  BY <2>1 DEF TypeOK
  <2>3. QED  BY <1>1, <2>1, <2>2, KeptFile
<1>5. QED  BY <1>2, <1>3, <1>4 DEF StopTimesOut

LEMMA ExitCallbackFile ==
    ASSUME Clean, NEW b \in Bots, NEW i \in Insts, ExitCallback(b, i)
    PROVE  FileIsCurrent'
<1>1. \E ok \in BOOLEAN : Save(file, rec', ok)  BY DEF ExitCallback
<1>2. file' = EncodeAll(rec')  BY <1>1, CleanSave
<1>3. QED  BY <1>2, SavedFile

LEMMA EnvironmentFile ==
    ASSUME Clean, FileIsCurrent,
           \/ Shutdown \/ Crash \/ Startup \/ UNCHANGED vars
           \/ \E b \in Bots, i \in Insts : Kernel(b, i)
    PROVE  FileIsCurrent'
<1>1. CASE Shutdown \/ Crash
  BY <1>1 DEF Shutdown, Crash, GoesDown, FileIsCurrent
<1>2. CASE Startup
  <2> DEFINE rs == [b \in Bots |-> Recover(b)]
  <2>1. PICK ok \in BOOLEAN : /\ Save(file, rs, ok)
                               /\ rec' = IF ok THEN rs ELSE rec
    BY <1>2 DEF Startup
  <2>2. file' = EncodeAll(rs) /\ rec' = rs  BY <2>1, CleanSave
  <2>3. QED  BY <2>2, SavedFile
<1>3. CASE UNCHANGED vars  BY <1>3 DEF vars, FileIsCurrent
<1>4. CASE \E b \in Bots, i \in Insts : Kernel(b, i)
  <2>1. UNCHANGED <<up, rec, file, op>>
    BY <1>4 DEF Kernel, Exits, Reap, PidReused, ForeignExits, OsStep
  <2>2. QED  BY <2>1 DEF FileIsCurrent
<1>5. QED  BY <1>1, <1>2, <1>3, <1>4

(* An orderly end between operations leaves every live process in the file. *)
LEMMA ShutdownSafe ==
    ASSUME Clean, TypeOK, SafetyInv, Shutdown
    PROVE  SafetyInv'
<1>1. PICK ok \in BOOLEAN : Save(file, rec, ok)  BY DEF Shutdown
<1>2. file' = EncodeAll(rec)  BY <1>1, CleanSave
<1>3. /\ up /\ ~up' /\ proc' = proc
      /\ \A b \in Bots : op[b] = Idle /\ op'[b] = Idle /\ child'[b] = {}
  BY DEF Shutdown, GoesDown, Clean
<1>4. ASSUME NEW b \in Bots PROVE Saved(b)'
  <2>1. Covers(b, rec[b], "idle")  BY <1>3 DEF SafetyInv, Idle
  <2>2. rec[b] \in Record /\ file'[b] = Encode(rec[b])
    BY <1>2 DEF TypeOK, EncodeAll
  <2>3. QED  BY <1>3, <2>1, <2>2 DEF Saved, Covers, Encode, Record
<1>5. QED  BY <1>3, <1>4 DEF SafetyInv

(* So does a death between operations, as the file is up to date.           *)
LEMMA CrashSafe ==
    ASSUME Clean, TypeOK, SafetyInv, FileIsCurrent, Crash
    PROVE  SafetyInv'
<1>1. /\ up /\ ~up' /\ proc' = proc /\ file' = file
      /\ \A b \in Bots : op[b] = Idle /\ op'[b] = Idle /\ child'[b] = {}
  BY DEF Crash, GoesDown, Clean
<1>2. ASSUME NEW b \in Bots PROVE Saved(b)'
  <2>1. Covers(b, rec[b], "idle")  BY <1>1 DEF SafetyInv, Idle
  <2>2. rec[b] \in Record /\ file'[b] = Encode(rec[b])
    BY <1>1 DEF TypeOK, FileIsCurrent, Idle
  <2>3. QED  BY <1>1, <2>1, <2>2 DEF Saved, Covers, Encode, Record
<1>3. QED  BY <1>1, <1>2 DEF SafetyInv

(* startup adopts exactly what the file proves.                             *)
LEMMA StartupSafe ==
    ASSUME Clean, TypeOK, SafetyInv, Startup
    PROVE  SafetyInv'
<1> DEFINE rs == [b \in Bots |-> Recover(b)]
<1>1. PICK ok \in BOOLEAN : /\ Save(file, rs, ok) /\ up' = ok
                            /\ rec' = IF ok THEN rs ELSE rec
  BY DEF Startup
<1>2. up' /\ rec' = rs /\ ~up /\ UNCHANGED <<proc, child, op>>
  BY <1>1, CleanSave DEF Startup
<1>3. ASSUME NEW b \in Bots PROVE Covers(b, rec[b], op[b].pc)'
  <2> SUFFICES ASSUME NEW i \in Insts, proc[b][i] \in Live
      PROVE  /\ Recover(b).inst = i /\ ~SafelyOffline(Recover(b))
             /\ Recover(b).pid /\ Recover(b).adopted /\ Recover(b).ident = "live"
    BY <1>2 DEF Covers, SafelyOffline
  <2>1. file[b] = [inst |-> i, pid |-> TRUE, ident |-> "live"]
    BY <1>2 DEF SafetyInv, Saved
  <2>2. i # 0  BY SupervisorAssumption DEF Insts
  <2>3. Identity(b, file[b]) = "live"  BY <2>1, <2>2 DEF Identity
  <2>4. Recover(b) = [Decode(file[b]) EXCEPT !.st = "RUNNING"]
    BY <2>1, <2>3 DEF Recover, Decode
  <2>5. QED  BY <2>1, <2>4 DEF Decode, SafelyOffline
<1>4. QED  BY <1>2, <1>3 DEF SafetyInv

(* Whatever the supervisor does, the step keeps both invariants.            *)
LEMMA SafeStep ==
    ASSUME Clean, TypeOK, SafetyInv, FileIsCurrent, [Next]_vars
    PROVE  SafetyInv' /\ FileIsCurrent'
<1>1. ASSUME NEW b \in Bots, Lifecycle(b) PROVE SafetyInv' /\ FileIsCurrent'
  <2>1. SafetyInv'
    BY <1>1, RequestSafe, SpawnReturnsSafe, GraceEndsSafe, StopFinishesSafe,
       StopTimesOutSafe, KillTimesOutSafe DEF Lifecycle
  <2>2. FileIsCurrent'
    BY <1>1, RequestFile, SpawnReturnsFile, GraceEndsFile, StopFinishesFile,
       StopTimesOutFile DEF Lifecycle
  <2>3. QED  BY <2>1, <2>2
<1>2. ASSUME NEW b \in Bots, NEW i \in Insts, ExitCallback(b, i) \/ Kernel(b, i)
      PROVE  SafetyInv' /\ FileIsCurrent'
  BY <1>2, ExitCallbackSafe, KernelSafe, ExitCallbackFile, EnvironmentFile
<1>3. CASE Shutdown  BY <1>3, ShutdownSafe, EnvironmentFile
<1>4. CASE Crash  BY <1>4, CrashSafe, EnvironmentFile
<1>5. CASE Startup  BY <1>5, StartupSafe, EnvironmentFile
<1>6. CASE UNCHANGED vars
  <2>1. SafetyInv'  BY <1>6 DEF vars, SafetyInv, Covers, Saved
  <2>2. QED  BY <1>6, <2>1, EnvironmentFile
<1>7. QED  BY <1>1, <1>2, <1>3, <1>4, <1>5, <1>6 DEF Next

(* A record covers every live process of its bot, and the record file is up *)
(* to date, in every reachable state of a supervisor that saves and ends    *)
(* only between operations.                                                 *)
THEOREM SafetyInvariant ==
    ASSUME Clean
    PROVE  Spec => [](SafetyInv /\ FileIsCurrent)
<1>1. Init => SafetyInv /\ FileIsCurrent
  BY DEF Init, SafetyInv, FileIsCurrent, Saved, Live, Insts
<1>2. TypeOK /\ SafetyInv /\ FileIsCurrent /\ [Next]_vars
         => SafetyInv' /\ FileIsCurrent'
  BY SafeStep
<1>3. QED  BY <1>1, <1>2, TypeCorrect, PTL DEF Spec

(* A bot never has two live processes.                                      *)
THEOREM NeverTwice ==
    ASSUME Clean
    PROVE  Spec => []AtMostOneLive
<1>1. SafetyInv => AtMostOneLive
  <2> SUFFICES ASSUME SafetyInv, NEW b \in Bots, NEW i \in Insts, NEW j \in Insts,
                      proc[b][i] \in Live, proc[b][j] \in Live
               PROVE  i = j
    BY DEF AtMostOneLive
  <2>1. CASE up  BY <2>1 DEF SafetyInv, Covers
  <2>2. CASE ~up
    <3>1. Saved(b)  BY <2>2 DEF SafetyInv
    <3>2. /\ file[b] = [inst |-> i, pid |-> TRUE, ident |-> "live"]
          /\ file[b] = [inst |-> j, pid |-> TRUE, ident |-> "live"]
      BY <3>1 DEF Saved
    <3>3. QED  BY <3>2
  <2>3. QED  BY <2>1, <2>2
<1>2. QED  BY <1>1, SafetyInvariant, PTL

(* While the supervisor runs, its record names each live process.           *)
THEOREM NeverForgotten ==
    ASSUME Clean
    PROVE  Spec => []LiveIsRecorded
<1>1. SafetyInv => LiveIsRecorded
  BY DEF SafetyInv, Covers, LiveIsRecorded, SafelyOffline
<1>2. QED  BY <1>1, SafetyInvariant, PTL

---------------------------------------------------------------------------
(***************************************************************************)
(* The evidence that the HealthStore holds of a running record is evidence *)
(* of its execution, for every set of bots and number of executions, under *)
(* the same provisos and if no descendant of a bot keeps its output pipes  *)
(* open, which would delay the callback of its exit.                       *)
(***************************************************************************)

Prompt == "latepipe" \notin Faults

(* What another bot's step leaves alone.                                    *)
Apart(b) == OnlyBot(b) /\ \A c \in Bots \ {b} : health'[c] = health[c]

LEMMA FrameTrust ==
    ASSUME TrustInv, up, NEW b \in Bots, Apart(b),
           Trusts(b, rec[b], op[b].pc, health[b])'
    PROVE  TrustInv'
<1>1. \A c \in Bots \ {b} : Trusts(c, rec[c], op[c].pc, health[c])'
  BY DEF TrustInv, Apart, OnlyBot, Trusts
<1>2. QED  BY <1>1 DEF TrustInv

(* A record that keeps its execution and does not become safely offline or  *)
(* running still has the right waiters and evidence.                        *)
LEMMA RestateTrust ==
    ASSUME TrustInv, up, NEW b \in Bots, op'[b].pc \notin {"spawn", "grace"},
           rec'[b].inst = rec[b].inst, rec'[b].adopted = rec[b].adopted,
           SafelyOffline(rec'[b]) => SafelyOffline(rec[b]),
           \/ rec'[b].st # "RUNNING"
           \/ rec'[b].st = rec[b].st /\ health'[b] = health[b],
           child'[b] = child[b], Apart(b),
           \A i \in Insts : \/ proc'[b][i] = proc[b][i]
                            \/ proc[b][i] \in Live /\ proc'[b][i] = "dying"
    PROVE  TrustInv'
<1>1. Trusts(b, rec[b], op[b].pc, health[b])  BY DEF TrustInv
<1>2. \A i \in Insts : /\ proc[b][i] \in Reaped => proc'[b][i] \in Reaped
                       /\ proc[b][i] # "none" => proc'[b][i] # "none"
  BY DEF Live, Reaped
<1>3. Trusts(b, rec[b], op[b].pc, health[b])'
  BY <1>1, <1>2 DEF Trusts, SafelyOffline
<1>4. QED  BY <1>3, FrameTrust

LEMMA BeginStartTrust ==
    ASSUME TypeOK, TrustInv, up, NEW b \in Bots, NEW a \in Acts, NEW r \in Record,
           NEW f, NEW h, Trusts(b, r, "idle", h[b]),
           \A c \in Bots \ {b} : h[c] = health[c],
           BeginStart(b, a, r, f, h), UNCHANGED <<child, up>>
    PROVE  TrustInv'
<1>1. health' = h  BY DEF BeginStart
<1>2. CASE rec' = [rec EXCEPT ![b] = r] /\ Finish(b, "FAILED") /\ UNCHANGED proc
  <2>1. rec'[b] = r /\ op'[b].pc = "idle" /\ Apart(b)
    BY <1>1, <1>2 DEF TypeOK, Finish, Idle, Apart, OnlyBot
  <2>2. Trusts(b, rec[b], op[b].pc, health[b])'  BY <1>1, <1>2, <2>1 DEF Trusts
  <2>3. QED  BY <2>1, <2>2, FrameTrust
<1>3. ASSUME SafelyOffline(r), NEW i \in Insts, proc[b][i] = "none",
             rec' = [rec EXCEPT ![b] = NewRec(i)],
             proc' = [proc EXCEPT ![b][i] = "alive"], Hold(b, a, "spawn")
      PROVE  TrustInv'
  <2>1. rec'[b] = NewRec(i) /\ op'[b].pc = "spawn" /\ Apart(b)
    BY <1>1, <1>3 DEF TypeOK, Hold, Apart, OnlyBot
  <2>2. NewRec(i).inst = i /\ NewRec(i).st = "STARTING" /\ ~NewRec(i).adopted
    BY DEF NewRec, NoRec
  <2>3. i # 0  BY SupervisorAssumption DEF Insts
  <2>4. /\ proc'[b][i] # "none" /\ i \notin child[b]
        /\ \A j \in child[b] : proc'[b][j] = proc[b][j]
    BY <1>3 DEF Trusts, TypeOK
  <2>5. \A j \in child[b] : proc[b][j] \in Reaped /\ proc[b][j] # "none"
    BY <1>3 DEF Trusts
  <2>6. Trusts(b, rec[b], op[b].pc, health[b])'
    BY <2>1, <2>2, <2>3, <2>4, <2>5 DEF Trusts
  <2>7. QED  BY <2>1, <2>6, FrameTrust
<1>4. ASSUME SafelyOffline(r), NEW i \in Insts,
             proc' = [proc EXCEPT ![b][i] = "gone"], StartFailed(b, NewRec(i), f),
             proc[b][i] = "none"
      PROVE  TrustInv'
  <2> DEFINE s == [NewRec(i) EXCEPT !.st = "CRASHED"]
  <2>1. s.inst = i /\ s.st = "CRASHED" /\ ~s.adopted  BY DEF NewRec, NoRec
  <2>2. rec'[b] = s /\ op'[b].pc = "idle" /\ Apart(b)
    BY <1>1, <1>4, StartFailedRec DEF TypeOK, Idle, Apart, OnlyBot
  <2>3. \A j \in child[b] : proc'[b][j] \in Reaped /\ proc'[b][j] # "none"
    BY <1>4 DEF Trusts, TypeOK, Reaped
  <2>4. Trusts(b, rec[b], op[b].pc, health[b])'
    BY <2>1, <2>2, <2>3 DEF Trusts
  <2>5. QED  BY <2>2, <2>4, FrameTrust
<1>5. QED  BY <1>2, <1>3, <1>4 DEF BeginStart

LEMMA RefusedTrust ==
    ASSUME TypeOK, TrustInv, up, NEW b \in Bots, NEW r \in Record,
           r.inst = rec[b].inst, r.adopted = rec[b].adopted,
           IdentityRefused(b, r), UNCHANGED <<child, up, health>>
    PROVE  TrustInv'
<1>1. /\ rec' = [rec EXCEPT ![b] = [r EXCEPT !.st = "UNKNOWN"]]
      /\ op' = [op EXCEPT ![b] = Idle] /\ UNCHANGED proc
  BY DEF IdentityRefused, Finish
<1>2. /\ rec'[b].inst = r.inst /\ rec'[b].adopted = r.adopted
      /\ rec'[b].st = "UNKNOWN" /\ op'[b].pc = "idle"
  BY <1>1 DEF Record, TypeOK, Idle
<1>3. Apart(b)  BY <1>1 DEF Apart, OnlyBot, TypeOK
<1>4. ~SafelyOffline(rec'[b])  BY <1>2 DEF SafelyOffline
<1>5. QED  BY <1>1, <1>2, <1>3, <1>4, RestateTrust

(* A signal changes a live process only, and leaves it unreaped.            *)
LEMMA SignalTrust ==
    ASSUME TypeOK, NEW b \in Bots, NEW r, NEW s, Signal(b, r, s)
    PROVE  /\ \A c \in Bots \ {b} : proc'[c] = proc[c]
           /\ \A i \in Insts : \/ proc'[b][i] = proc[b][i]
                               \/ proc[b][i] \in Live /\ proc'[b][i] = "dying"
BY DEF Signal, TypeOK

LEMMA BeginStopTrust ==
    ASSUME TypeOK, TrustInv, up, NEW b \in Bots, NEW a, NEW r \in Record,
           r.inst = rec[b].inst, r.adopted = rec[b].adopted, BeginStop(b, a, r)
    PROVE  TrustInv'
<1>1. UNCHANGED <<child, up, health>>  BY DEF BeginStop
<1>2. CASE IdentityRefused(b, r)  BY <1>1, <1>2, RefusedTrust
<1>3. CASE /\ rec' = [rec EXCEPT ![b] = [r EXCEPT !.st = "STOPPING", !.expected = TRUE]]
           /\ Signal(b, r, "alive") /\ Hold(b, a, "term")
  <2>1. /\ rec'[b].inst = r.inst /\ rec'[b].adopted = r.adopted
        /\ rec'[b].st = "STOPPING" /\ op'[b].pc = "term"
    BY <1>3 DEF Record, TypeOK, Hold
  <2>2. /\ \A c \in Bots \ {b} : proc'[c] = proc[c]
        /\ \A i \in Insts : \/ proc'[b][i] = proc[b][i]
                            \/ proc[b][i] \in Live /\ proc'[b][i] = "dying"
    BY <1>3, SignalTrust
  <2>3. Apart(b)  BY <1>1, <1>3, <2>2 DEF Apart, OnlyBot, TypeOK, Hold
  <2>4. ~SafelyOffline(rec'[b])  BY <2>1 DEF SafelyOffline
  <2>5. QED  BY <1>1, <2>1, <2>2, <2>3, <2>4, RestateTrust
<1>4. QED  BY <1>2, <1>3 DEF BeginStop

LEMMA RequestTrust ==
    ASSUME TypeOK, TrustInv, NEW b \in Bots,
           Start(b) \/ Stop(b) \/ StopRefused(b) \/ Restart(b)
    PROVE  TrustInv'
<1>1. up /\ op[b] = Idle  BY DEF Start, Stop, StopRefused, Restart, Accepts
<1>2. Trusts(b, rec[b], "idle", health[b]) /\ rec[b] \in Record
  BY <1>1 DEF TrustInv, Idle, TypeOK
<1>3. ASSUME NEW a \in Acts, BeginStart(b, a, rec[b], file, health),
             UNCHANGED <<child, up, foreignHit>>
      PROVE  TrustInv'
  BY <1>1, <1>2, <1>3, BeginStartTrust
<1>4. "start" \in Acts /\ "restart" \in Acts  BY DEF Acts
<1>5. CASE Start(b)  BY <1>3, <1>4, <1>5 DEF Start
<1>6. CASE Stop(b)  BY <1>1, <1>2, <1>6, BeginStopTrust DEF Stop
<1>7. CASE StopRefused(b)
  <2>1. UNCHANGED <<proc, child, up, rec, health>> /\ op' = [op EXCEPT ![b] = Idle]
    BY <1>7 DEF StopRefused, Finish
  <2>2. Apart(b) /\ op'[b].pc = "idle"  BY <2>1 DEF Apart, OnlyBot, TypeOK, Idle
  <2>3. QED  BY <1>1, <2>1, <2>2, RestateTrust
<1>8. CASE Restart(b)
  <2> DEFINE r == [rec[b] EXCEPT !.st = "RESTARTING"]
  <2>1. CASE BeginStart(b, "restart", rec[b], file, health)
               /\ UNCHANGED <<child, up, foreignHit>>
    BY <2>1, <1>3, <1>4
  <2>2. CASE BeginStop(b, "restart", r)
    <3>1. r \in Record /\ r.inst = rec[b].inst /\ r.adopted = rec[b].adopted
      BY <1>2 DEF Record, States
    <3>2. QED  BY <1>1, <2>2, <3>1, BeginStopTrust
  <2>3. QED  BY <1>8, <2>1, <2>2 DEF Restart
<1>9. QED  BY <1>5, <1>6, <1>7, <1>8

LEMMA SpawnReturnsTrust ==
    ASSUME TypeOK, SafetyInv, TrustInv, NEW b \in Bots, SpawnReturns(b)
    PROVE  TrustInv'
<1>1. up /\ rec[b] \in Record /\ Trusts(b, rec[b], "spawn", health[b])
  BY HeldMeansUp DEF SpawnReturns, TrustInv, TypeOK
<1>2. /\ rec'[b].pid = TRUE /\ rec'[b].inst = rec[b].inst
      /\ rec'[b].st = rec[b].st /\ rec'[b].adopted = rec[b].adopted
  BY <1>1 DEF SpawnReturns, TypeOK, Record
<1>3. /\ op'[b].pc = "grace" /\ proc' = proc /\ health' = health
      /\ child'[b] = child[b] \cup {rec[b].inst}
  BY DEF SpawnReturns, Hold, TypeOK
<1>4. Apart(b)  BY DEF SpawnReturns, Hold, Apart, OnlyBot, TypeOK
<1>5. rec[b].inst \in Insts /\ ~SafelyOffline(rec[b])
  BY <1>1, SupervisorAssumption DEF Trusts, Record, Insts, SafelyOffline
<1>6. QED  BY <1>1, <1>2, <1>3, <1>4, <1>5, FrameTrust DEF Trusts, SafelyOffline

(* The grace period ends: no callback of an earlier execution is due.       *)
LEMMA GraceEndsTrust ==
    ASSUME Clean, Prompt, TypeOK, SafetyInv, TrustInv, NEW b \in Bots, GraceEnds(b)
    PROVE  TrustInv'
<1> DEFINE r == rec[b]
           failed == proc[b][r.inst] \in Reaped \/ Identity(b, r) = "none"
           ready == [r EXCEPT !.ident = Identity(b, r), !.st = "RUNNING"]
<1>1. up /\ Trusts(b, r, "grace", health[b]) /\ r \in Record
  BY HeldMeansUp DEF GraceEnds, TrustInv, TypeOK
<1>2. UNCHANGED <<proc, child, up>>  BY DEF GraceEnds
<1>3. \A i \in child[b] : i = r.inst \/ proc[b][i] \in Reaped
  BY <1>1 DEF Trusts
<1>4. r.inst \in Insts /\ r.inst # 0 /\ r.pid /\ ~r.adopted
  BY <1>1, SupervisorAssumption DEF Trusts, Record, Insts
<1>5. CASE failed /\ StartFailed(b, r, file) /\ UNCHANGED health
  <2>1. proc[b][r.inst] \in Reaped
    BY <1>1, <1>4, <1>5 DEF Identity, Trusts, Live, Reaped, TypeOK, ProcStatus
  <2>2. /\ rec' = [rec EXCEPT ![b] = [r EXCEPT !.st = "CRASHED"]]
        /\ op' = [op EXCEPT ![b] = Idle]
    BY <1>5, StartFailedRec
  <2>3. /\ rec'[b].st = "CRASHED" /\ ~rec'[b].adopted /\ op'[b].pc = "idle"
        /\ Apart(b)
    BY <1>1, <1>2, <1>4, <1>5, <2>2 DEF Record, TypeOK, Idle, Apart, OnlyBot
  <2>4. Trusts(b, rec[b], op[b].pc, health[b])'
    BY <1>1, <1>2, <1>3, <2>1, <2>3 DEF Trusts
  <2>5. QED  BY <1>1, <2>3, <2>4, FrameTrust
<1>6. CASE /\ rec' = [rec EXCEPT ![b] = ready] /\ Finish(b, "SUCCEEDED")
           /\ health' = [health EXCEPT ![b] = StartedEvidence(r.inst)]
  <2>1. /\ rec'[b].st = "RUNNING" /\ rec'[b].inst = r.inst /\ ~rec'[b].adopted
    BY <1>1, <1>4, <1>6 DEF Record, TypeOK
  <2>2. op'[b].pc = "idle" /\ Apart(b)
    BY <1>2, <1>6 DEF TypeOK, Finish, Idle, Apart, OnlyBot
  <2>3. health'[b] = StartedEvidence(r.inst)  BY <1>6 DEF TypeOK
  <2>4. \A i \in child[b] : i = r.inst
    BY <1>3 DEF GraceEnds, CallbacksDone, Prompt
  <2>5. ~SafelyOffline(rec'[b])  BY <2>1 DEF SafelyOffline
  <2>6. /\ rec'[b].inst = health'[b].inst /\ health'[b].running /\ health'[b].verified
    BY <2>1, <2>3 DEF StartedEvidence, NoEvidence
  <2>7. Trusts(b, rec[b], op[b].pc, health[b])'
    BY <1>1, <1>2, <2>1, <2>2, <2>4, <2>5, <2>6 DEF Trusts
  <2>8. QED  BY <1>1, <2>2, <2>7, FrameTrust
<1>7. QED  BY <1>5, <1>6 DEF GraceEnds, Clean

(* A stop that finishes has seen the callback of its execution.             *)
LEMMA StopReaps ==
    ASSUME TrustInv, up, NEW b \in Bots, StopFinishes(b)
    PROVE  \A i \in child[b] : proc[b][i] \in Reaped
BY DEF TrustInv, Trusts, StopFinishes, ExitSeen

LEMMA StopFinishesTrust ==
    ASSUME Clean, TypeOK, SafetyInv, TrustInv, NEW b \in Bots, StopFinishes(b)
    PROVE  TrustInv'
<1> DEFINE r == [rec[b] EXCEPT !.st = "OFFLINE"]
           rs == [rec EXCEPT ![b] = r]
           h == [health EXCEPT ![b] = StoppedEvidence(r.inst)]
<1>1. up /\ Trusts(b, rec[b], op[b].pc, health[b])
  BY HeldMeansUp DEF StopFinishes, TrustInv
<1>2. UNCHANGED <<child, up>>  BY DEF StopFinishes
<1>3. /\ r \in Record /\ r.st = "OFFLINE" /\ r.inst = rec[b].inst
      /\ r.adopted = rec[b].adopted
  <2>1. rec[b] \in Record  BY DEF TypeOK
  <2>2. QED  BY <2>1 DEF Record, States
<1>4. \A i \in child[b] : proc[b][i] \in Reaped  BY <1>1, StopReaps
<1>5. \A g : Trusts(b, r, "idle", g)  BY <1>1, <1>3, <1>4 DEF Trusts
<1>6. CASE rec' = rs /\ op' = [op EXCEPT ![b] = Idle] /\ UNCHANGED proc
           /\ (health' = h \/ health' = health)
  <2>1. rec'[b] = r /\ op'[b].pc = "idle" /\ Apart(b)
    BY <1>2, <1>6 DEF TypeOK, Idle, Apart, OnlyBot
  <2>2. Trusts(b, rec[b], op[b].pc, health[b])'
    BY <1>2, <1>3, <1>5, <1>6, <2>1 DEF Trusts
  <2>3. QED  BY <1>1, <2>1, <2>2, FrameTrust
<1>7. CASE BeginStart(b, "restart", r, EncodeAll(rs), h)
  <2>1. \A c \in Bots \ {b} : h[c] = health[c]  BY DEF TypeOK
  <2>2. "restart" \in Acts  BY DEF Acts
  <2>3. QED  BY <1>1, <1>2, <1>3, <1>5, <1>7, <2>1, <2>2, BeginStartTrust
<1>8. QED  BY <1>6, <1>7 DEF StopFinishes, Finish

LEMMA StopTimesOutTrust ==
    ASSUME TypeOK, SafetyInv, TrustInv, NEW b \in Bots,
           StopTimesOut(b) \/ KillTimesOut(b)
    PROVE  TrustInv'
<1>1. up /\ UNCHANGED <<child, up, health>> /\ rec[b] \in Record
  BY HeldMeansUp DEF StopTimesOut, KillTimesOut, TypeOK
<1>2. CASE IdentityRefused(b, rec[b])  BY <1>1, <1>2, RefusedTrust
<1>3. CASE /\ rec' = [rec EXCEPT ![b].forced = TRUE] /\ Signal(b, rec[b], "dying")
           /\ Hold(b, op[b].act, "kill")
  <2>1. /\ rec'[b].inst = rec[b].inst /\ rec'[b].adopted = rec[b].adopted
        /\ rec'[b].st = rec[b].st /\ op'[b].pc = "kill"
    BY <1>1, <1>3 DEF Record, TypeOK, Hold
  <2>2. /\ \A c \in Bots \ {b} : proc'[c] = proc[c]
        /\ \A i \in Insts : \/ proc'[b][i] = proc[b][i]
                            \/ proc[b][i] \in Live /\ proc'[b][i] = "dying"
    BY <1>3, SignalTrust
  <2>3. Apart(b)  BY <1>1, <1>3, <2>2 DEF Apart, OnlyBot, TypeOK, Hold
  <2>4. QED  BY <1>1, <2>1, <2>2, <2>3, RestateTrust DEF SafelyOffline
<1>4. CASE KillTimesOut(b)
  <2>1. UNCHANGED <<proc, child, up, rec, health>> /\ op' = [op EXCEPT ![b] = Idle]
    BY <1>4 DEF KillTimesOut, Finish
  <2>2. Apart(b) /\ op'[b].pc = "idle"  BY <2>1 DEF Apart, OnlyBot, TypeOK, Idle
  <2>3. QED  BY <1>1, <2>1, <2>2, RestateTrust
<1>5. QED  BY <1>2, <1>3, <1>4 DEF StopTimesOut

LEMMA ExitCallbackTrust ==
    ASSUME TypeOK, SafetyInv, TrustInv, NEW b \in Bots, NEW i \in Insts,
           ExitCallback(b, i)
    PROVE  TrustInv'
<1>1. up /\ Trusts(b, rec[b], op[b].pc, health[b]) /\ rec[b] \in Record
  BY HeldMeansUp DEF ExitCallback, TrustInv, TypeOK
<1>2. /\ i \in child[b] /\ child'[b] = child[b] \ {i}
      /\ UNCHANGED <<proc, up, op>>
  BY DEF ExitCallback, TypeOK
<1>3. Apart(b)
  <2>1. \A c \in Bots \ {b} : /\ rec'[c] = rec[c] /\ health'[c] = health[c]
                               /\ child'[c] = child[c]
    BY DEF ExitCallback, TypeOK
  <2>2. QED  BY <1>2, <2>1 DEF Apart, OnlyBot
<1>4. CASE rec[b].inst = i
  <2>1. PICK e \in {"OFFLINE", "CRASHED"} : rec' = [rec EXCEPT ![b].st = e]
    BY <1>4 DEF ExitCallback, ExitState
  <2>2. /\ rec'[b].inst = i /\ rec'[b].adopted = rec[b].adopted
        /\ rec'[b].pid = rec[b].pid /\ rec'[b].st # "RUNNING"
    BY <1>1, <1>4, <2>1 DEF Record, TypeOK
  <2>3. \A j \in child'[b] : proc[b][j] \in Reaped  BY <1>1, <1>2, <1>4 DEF Trusts
  <2>4. op[b].pc # "spawn"  BY <1>1, <1>2, <1>4 DEF Trusts
  <2>5. Trusts(b, rec[b], op[b].pc, health[b])'
    BY <1>1, <1>2, <1>4, <2>2, <2>3, <2>4 DEF Trusts
  <2>6. QED  BY <1>1, <1>3, <2>5, FrameTrust
<1>5. CASE rec[b].inst # i
  <2>1. rec' = rec  BY <1>5 DEF ExitCallback
  <2>2. rec[b].st # "RUNNING"  BY <1>1, <1>2, <1>5 DEF Trusts
  <2>3. Trusts(b, rec[b], op[b].pc, health[b])'
    BY <1>1, <1>2, <2>1, <2>2 DEF Trusts
  <2>4. QED  BY <1>1, <1>3, <2>3, FrameTrust
<1>6. QED  BY <1>4, <1>5

LEMMA KernelTrust ==
    ASSUME TypeOK, TrustInv, NEW b \in Bots, NEW i \in Insts, Kernel(b, i)
    PROVE  TrustInv'
<1>1. UNCHANGED <<child, up, rec, op, health>>
  BY DEF Kernel, Exits, Reap, PidReused, ForeignExits, OsStep
<1>2. PICK to \in {"zombie", "gone", "foreign"} :
          /\ proc' = [proc EXCEPT ![b][i] = to]
          /\ proc[b][i] \in Reaped => to \in Reaped
  BY DEF Kernel, Exits, Reap, PidReused, ForeignExits, OsStep, Reaped, Live
<1>3. \A c \in Bots, j \in Insts :
          /\ proc[c][j] \in Reaped => proc'[c][j] \in Reaped
          /\ proc[c][j] # "none" => proc'[c][j] # "none"
  BY <1>2 DEF TypeOK, Reaped
<1>4. ASSUME NEW c \in Bots, up PROVE Trusts(c, rec[c], op[c].pc, health[c])'
  <2>1. Trusts(c, rec[c], op[c].pc, health[c])  BY <1>4 DEF TrustInv
  <2>2. op[c].pc \in {"spawn", "grace"} => rec[c].inst \in Insts
    BY <2>1, SupervisorAssumption DEF Trusts, TypeOK, Record, Insts
  <2>3. QED  BY <1>1, <1>3, <2>1, <2>2 DEF Trusts
<1>5. QED  BY <1>1, <1>4 DEF TrustInv

(* startup gives the HealthStore what the records it recovered say.         *)
LEMMA StartupTrust ==
    ASSUME Clean, TypeOK, SafetyInv, Startup
    PROVE  TrustInv'
<1> DEFINE rs == [b \in Bots |-> Recover(b)]
<1>1. PICK ok \in BOOLEAN :
          /\ Save(file, rs, ok) /\ rec' = IF ok THEN rs ELSE rec
          /\ health' = IF ~ok THEN health ELSE
               [b \in Bots |->
                  [inst |-> rs[b].inst,
                   desired |-> IF rs[b].inst # 0 THEN "running" ELSE "stopped",
                   running |-> rs[b].st = "RUNNING", verified |-> rs[b].adopted,
                   unexpected |-> FALSE, conflict |-> rs[b].st = "UNKNOWN"]]
  BY DEF Startup
<1>2. ok  BY <1>1, CleanSave
<1>3. ASSUME NEW b \in Bots PROVE Trusts(b, rec[b], op[b].pc, health[b])'
  <2>1. child'[b] = {} /\ op'[b].pc = "idle"  BY DEF Startup, SafetyInv, Idle
  <2>2. rec'[b] = Recover(b)  BY <1>1, <1>2
  <2>3. Recover(b).st = "RUNNING" => Recover(b).adopted
    BY DEF Recover, Decode, NoRec
  <2>4. rec'[b].st = "RUNNING" =>
           health'[b].inst = rec'[b].inst /\ health'[b].running /\ health'[b].verified
    BY <1>1, <1>2, <2>2, <2>3
  <2>5. QED  BY <2>1, <2>4 DEF Trusts
<1>4. QED  BY <1>3 DEF TrustInv

(* The waiters and the evidence agree with the records.                     *)
THEOREM TrustInvariant ==
    ASSUME Clean, Prompt
    PROVE  Spec => []TrustInv
<1>1. Init => TrustInv  BY DEF Init, TrustInv
<1>2. TypeOK /\ SafetyInv /\ TrustInv /\ [Next]_vars => TrustInv'
  <2> SUFFICES ASSUME TypeOK, SafetyInv, TrustInv, [Next]_vars PROVE TrustInv'
    OBVIOUS
  <2>1. ASSUME NEW b \in Bots, Lifecycle(b) PROVE TrustInv'
    BY <2>1, RequestTrust, SpawnReturnsTrust, GraceEndsTrust, StopFinishesTrust,
       StopTimesOutTrust DEF Lifecycle
  <2>2. ASSUME NEW b \in Bots, NEW i \in Insts, ExitCallback(b, i) \/ Kernel(b, i)
        PROVE  TrustInv'
    BY <2>2, ExitCallbackTrust, KernelTrust
  <2>3. CASE Shutdown \/ Crash  BY <2>3 DEF Shutdown, Crash, GoesDown, TrustInv
  <2>4. CASE Startup  BY <2>4, StartupTrust
  <2>5. CASE UNCHANGED vars  BY <2>5 DEF vars, TrustInv, Trusts
  <2>6. QED  BY <2>1, <2>2, <2>3, <2>4, <2>5 DEF Next
<1>3. QED  BY <1>1, <1>2, TypeCorrect, SafetyInvariant, PTL DEF Spec

(* What the supervisor remembers and has saved of a bot is true of the      *)
(* bot's processes in every reachable state.                                *)
THEOREM RecordsTrue ==
    ASSUME Clean, Prompt
    PROVE  Spec => []RecordsAreTrue
<1>1. SafetyInv /\ FileIsCurrent => DurableKnowsLive
  <2> SUFFICES ASSUME SafetyInv, FileIsCurrent, NEW b \in Bots, NEW i \in Insts,
                      proc[b][i] \in Live, op[b] = Idle
               PROVE  file[b] = [inst |-> i, pid |-> TRUE, ident |-> "live"]
    BY DEF DurableKnowsLive
  <2>1. CASE up
    <3>1. Covers(b, rec[b], "idle")  BY <2>1 DEF SafetyInv, Idle
    <3>2. file[b] = Encode(rec[b])  BY <2>1 DEF FileIsCurrent, Idle
    <3>3. rec[b].inst = i /\ rec[b].pid /\ rec[b].ident = "live"
      BY <3>1 DEF Covers
    <3>4. QED  BY <3>2, <3>3 DEF Encode
  <2>2. CASE ~up  BY <2>2 DEF SafetyInv, Saved
  <2>3. QED  BY <2>1, <2>2
<1>2. TrustInv => RunningIsTrusted  BY DEF TrustInv, Trusts, RunningIsTrusted
<1>3. SafetyInv => LiveIsRecorded
  BY DEF SafetyInv, Covers, LiveIsRecorded, SafelyOffline
<1>4. QED
  BY <1>1, <1>2, <1>3, SafetyInvariant, TrustInvariant, PTL DEF RecordsAreTrue

---------------------------------------------------------------------------
(***************************************************************************)
(* The supervisor implements BotSlots, for every set of bots and number of *)
(* executions, under the same provisos.                                    *)
(*                                                                         *)
(* With SafetyInv before and after a step it is enough to look at what the *)
(* step does to the kernel: a record may change as it likes as long as it  *)
(* covers what lives.                                                      *)
(***************************************************************************)

LiveAt(b) == {i \in Insts : proc[b][i] \in Live}
UsedAt(b) == {i \in Insts : proc[b][i] # "none"}
SlotAt(b) == IF ~up THEN "down" ELSE IF SafelyOffline(rec[b]) THEN "free" ELSE "held"

(* A free slot has no live process.                                         *)
LEMMA FreeIsEmpty ==
    ASSUME SafetyInv, NEW b \in Bots, SlotAt(b) = "free"
    PROVE  LiveAt(b) = {}
BY DEF SafetyInv, Covers, SlotAt, LiveAt

(* Nothing in the kernel begins or ends: the slot of one bot may change.    *)
LEMMA SameKernel ==
    ASSUME SafetyInv', up, up', NEW b \in Bots,
           \A c \in Bots : UsedAt(c)' = UsedAt(c) /\ LiveAt(c)' = LiveAt(c),
           \A c \in Bots \ {b} : rec'[c] = rec[c]
    PROVE  [Slots!Next]_(Slots!vars)
<1>1. LiveMap' = LiveMap /\ UsedMap' = UsedMap
  BY DEF LiveMap, UsedMap, LiveAt, UsedAt
<1>2. \A c \in Bots : SlotMap[c] = SlotAt(c) /\ SlotMap'[c] = SlotAt(c)'
  BY DEF SlotMap, SlotAt
<1>3. SlotAt(b) \in {"free", "held"} /\ SlotAt(b)' \in {"free", "held"}
  BY DEF SlotAt
<1>4. SlotMap' = [SlotMap EXCEPT ![b] = SlotAt(b)']
  <2>1. \A c \in Bots \ {b} : SlotAt(c)' = SlotAt(c)  BY DEF SlotAt, SafelyOffline
  <2>2. /\ SlotMap = [c \in Bots |-> SlotMap[c]]
        /\ SlotMap' = [c \in Bots |-> SlotMap'[c]]
    BY DEF SlotMap
  <2>3. QED  BY <1>2, <2>1, <2>2
<1>5. SlotAt(b)' = "free" => LiveMap[b] = {}
  <2>1. SlotAt(b)' = "free" => LiveAt(b)' = {}
    BY DEF SafetyInv, Covers, SlotAt, LiveAt
  <2>2. QED  BY <2>1 DEF LiveMap, LiveAt
<1>6. CASE SlotAt(b)' = SlotAt(b)
  <2>1. SlotMap' = SlotMap  BY <1>2, <1>4, <1>6 DEF SlotMap
  <2>2. QED  BY <1>1, <2>1 DEF Slots!vars
<1>7. CASE SlotAt(b) = "free" /\ SlotAt(b)' = "held"
  <2>1. Slots!Holds(b)  BY <1>1, <1>2, <1>4, <1>7 DEF Slots!Holds
  <2>2. QED  BY <2>1 DEF Slots!Next
<1>8. CASE SlotAt(b) = "held" /\ SlotAt(b)' = "free"
  <2>1. Slots!Frees(b)  BY <1>1, <1>2, <1>4, <1>5, <1>8 DEF Slots!Frees
  <2>2. QED  BY <2>1 DEF Slots!Next
<1>9. QED  BY <1>3, <1>6, <1>7, <1>8

(* Steps that leave the processes alone, or only signal one.                *)
LEMMA UntouchedKernel ==
    ASSUME UNCHANGED proc
    PROVE  \A c \in Bots : UsedAt(c)' = UsedAt(c) /\ LiveAt(c)' = LiveAt(c)
BY DEF UsedAt, LiveAt

LEMMA SignalledKernel ==
    ASSUME TypeOK, NEW b \in Bots, NEW r, NEW s, Signal(b, r, s)
    PROVE  \A c \in Bots : UsedAt(c)' = UsedAt(c) /\ LiveAt(c)' = LiveAt(c)
<1>1. CASE proc' = proc  BY <1>1, UntouchedKernel
<1>2. CASE proc[b][r.inst] \in Live /\ proc' = [proc EXCEPT ![b][r.inst] = "dying"]
  <2>1. \A c \in Bots, i \in Insts : \/ proc'[c][i] = proc[c][i]
                                     \/ proc[c][i] \in Live /\ proc'[c][i] = "dying"
    BY <1>2 DEF TypeOK
  <2>2. \A c \in Bots, i \in Insts : /\ proc'[c][i] \in Live <=> proc[c][i] \in Live
                                     /\ proc'[c][i] = "none" <=> proc[c][i] = "none"
    BY <2>1 DEF Live
  <2>3. QED  BY <2>2 DEF UsedAt, LiveAt
<1>3. QED  BY <1>1, <1>2 DEF Signal

(* A start launches a new execution where none lives, or fails.             *)
LEMMA BeginStartSlots ==
    ASSUME TypeOK, SafetyInv', up, up', NEW b \in Bots, NEW a \in Acts, NEW r,
           NEW f, NEW h, Covers(b, r, "idle"), BeginStart(b, a, r, f, h)
    PROVE  [Slots!Next]_(Slots!vars)
<1>0. \A c \in Bots : SlotMap[c] = SlotAt(c) /\ SlotMap'[c] = SlotAt(c)'
  BY DEF SlotMap, SlotAt
<1>1. SlotMap[b] # "down"  BY <1>0 DEF SlotAt
<1>2. CASE rec' = [rec EXCEPT ![b] = r] /\ UNCHANGED proc
  <2>1. \A c \in Bots \ {b} : rec'[c] = rec[c]  BY <1>2 DEF TypeOK
  <2>2. QED  BY <1>2, <2>1, UntouchedKernel, SameKernel
<1>3. ASSUME NEW i \in Insts, NEW to \in {"alive", "gone"}, proc[b][i] = "none",
             SafelyOffline(r), proc' = [proc EXCEPT ![b][i] = to]
      PROVE  /\ LiveMap[b] = {} /\ i \in Insts \ UsedMap[b]
             /\ UsedMap' = [UsedMap EXCEPT ![b] = @ \cup {i}]
             /\ to = "alive" => LiveMap' = [LiveMap EXCEPT ![b] = {i}]
             /\ to = "gone" => UNCHANGED LiveMap
  <2>1. \A j \in Insts : proc[b][j] \notin Live  BY <1>3, OfflineMeansDead
  <2>2. LiveMap[b] = {} /\ i \in Insts \ UsedMap[b]
    BY <1>3, <2>1 DEF LiveMap, UsedMap
  <2>3. /\ proc'[b][i] = to /\ \A j \in Insts \ {i} : proc'[b][j] = proc[b][j]
        /\ \A c \in Bots \ {b} : proc'[c] = proc[c]
    BY <1>3 DEF TypeOK
  <2>4. /\ \A c \in Bots \ {b} : UsedAt(c)' = UsedAt(c) /\ LiveAt(c)' = LiveAt(c)
        /\ UsedAt(b)' = UsedAt(b) \cup {i}
        /\ to = "alive" => LiveAt(b)' = {i}
        /\ to = "gone" => LiveAt(b)' = {} /\ LiveAt(b) = {}
    BY <1>3, <2>1, <2>3 DEF UsedAt, LiveAt, Live
  <2>5. /\ LiveMap = [c \in Bots |-> LiveAt(c)] /\ LiveMap' = [c \in Bots |-> LiveAt(c)']
        /\ UsedMap = [c \in Bots |-> UsedAt(c)] /\ UsedMap' = [c \in Bots |-> UsedAt(c)']
    BY DEF LiveMap, UsedMap, LiveAt, UsedAt
  <2>6. QED  BY <2>2, <2>4, <2>5
<1>4. ASSUME NEW st, \A c \in Bots \ {b} : rec'[c] = rec[c], SlotAt(b)' = st
      PROVE  SlotMap' = [SlotMap EXCEPT ![b] = st]
  <2>1. \A c \in Bots \ {b} : SlotAt(c)' = SlotAt(c)  BY <1>4 DEF SlotAt, SafelyOffline
  <2>2. SlotMap = [c \in Bots |-> SlotAt(c)] /\ SlotMap' = [c \in Bots |-> SlotAt(c)']
    BY DEF SlotMap, SlotAt
  <2>3. QED  BY <1>4, <2>1, <2>2
<1>5. ASSUME SafelyOffline(r), NEW i \in Insts, proc[b][i] = "none",
             rec' = [rec EXCEPT ![b] = NewRec(i)],
             proc' = [proc EXCEPT ![b][i] = "alive"]
      PROVE  Slots!Launch(b)
  <2>1. /\ rec'[b] = NewRec(i) /\ \A c \in Bots \ {b} : rec'[c] = rec[c]
    BY <1>5 DEF TypeOK
  <2>2. SlotAt(b)' = "held"  BY <2>1 DEF SlotAt, NewRec, NoRec, SafelyOffline
  <2>3. SlotMap' = [SlotMap EXCEPT ![b] = "held"]  BY <1>4, <2>1, <2>2
  <2>4. QED  BY <1>1, <1>3, <1>5, <2>3 DEF Slots!Launch
<1>6. ASSUME SafelyOffline(r), NEW i \in Insts, proc[b][i] = "none",
             proc' = [proc EXCEPT ![b][i] = "gone"], StartFailed(b, NewRec(i), f)
      PROVE  Slots!LaunchFails(b)
  <2>1. rec' = [rec EXCEPT ![b] = [NewRec(i) EXCEPT !.st = "CRASHED"]]
    BY <1>6, StartFailedRec
  <2>2. /\ rec'[b].st = "CRASHED" /\ \A c \in Bots \ {b} : rec'[c] = rec[c]
    BY <2>1 DEF TypeOK, NewRec, NoRec
  <2>3. SlotAt(b)' = "free"  BY <2>2 DEF SlotAt, SafelyOffline
  <2>4. SlotMap' = [SlotMap EXCEPT ![b] = "free"]  BY <1>4, <2>2, <2>3
  <2>5. QED  BY <1>1, <1>3, <1>6, <2>4 DEF Slots!LaunchFails
<1>7. QED  BY <1>2, <1>5, <1>6 DEF BeginStart, Slots!Next

(* A stop signals at most and leaves every other bot alone.                 *)
LEMMA BeginStopSlots ==
    ASSUME TypeOK, SafetyInv', up, NEW b \in Bots, NEW a, NEW r, BeginStop(b, a, r)
    PROVE  [Slots!Next]_(Slots!vars)
<1>1. up' = up  BY DEF BeginStop
<1>2. \A c \in Bots : UsedAt(c)' = UsedAt(c) /\ LiveAt(c)' = LiveAt(c)
  BY UntouchedKernel, SignalledKernel DEF BeginStop, IdentityRefused
<1>3. \A c \in Bots \ {b} : rec'[c] = rec[c]
  BY DEF BeginStop, IdentityRefused, TypeOK
<1>4. QED  BY <1>1, <1>2, <1>3, SameKernel

(* Every step of an operation.                                              *)
LEMMA LifecycleSlots ==
    ASSUME Clean, TypeOK, SafetyInv, SafetyInv', NEW b \in Bots, Lifecycle(b)
    PROVE  [Slots!Next]_(Slots!vars)
<1>1. up /\ up'
  <2>1. up' = up
    BY DEF Lifecycle, Start, Stop, StopRefused, Restart, BeginStop, SpawnReturns,
           GraceEnds, StopFinishes, StopTimesOut, KillTimesOut
  <2>2. CASE Start(b) \/ Stop(b) \/ StopRefused(b) \/ Restart(b)
    BY <2>1, <2>2 DEF Start, Stop, StopRefused, Restart, Accepts
  <2>3. CASE ~(Start(b) \/ Stop(b) \/ StopRefused(b) \/ Restart(b))
    <3>1. op[b].pc # "idle"
      BY <2>3 DEF Lifecycle, SpawnReturns, GraceEnds, StopFinishes, StopTimesOut,
                  KillTimesOut
    <3>2. QED  BY <2>1, <3>1, HeldMeansUp
  <2>4. QED  BY <2>2, <2>3
<1>2. "start" \in Acts /\ "restart" \in Acts  BY DEF Acts
<1>3. CASE Start(b) \/ Stop(b) \/ StopRefused(b) \/ Restart(b)
  <2>1. Covers(b, rec[b], "idle")
    BY <1>1, <1>3 DEF Start, Stop, StopRefused, Restart, Accepts, SafetyInv, Idle
  <2>2. CASE \E a \in Acts : BeginStart(b, a, rec[b], file, health)
    BY <1>1, <2>1, <2>2, BeginStartSlots
  <2>3. CASE \E a, r : BeginStop(b, a, r)  BY <1>1, <2>3, BeginStopSlots
  <2>4. CASE StopRefused(b)
    BY <1>1, <2>4, UntouchedKernel, SameKernel DEF StopRefused
  <2>5. QED  BY <1>2, <1>3, <2>2, <2>3, <2>4 DEF Start, Stop, Restart
<1>4. CASE SpawnReturns(b) \/ GraceEnds(b) \/ KillTimesOut(b)
  <2>1. UNCHANGED proc  BY <1>4 DEF SpawnReturns, GraceEnds, KillTimesOut
  <2>2. \A c \in Bots \ {b} : rec'[c] = rec[c]
    BY <1>4, StartFailedRec DEF SpawnReturns, GraceEnds, KillTimesOut, TypeOK, Clean
  <2>3. QED  BY <1>1, <2>1, <2>2, UntouchedKernel, SameKernel
<1>5. CASE StopTimesOut(b)
  <2>1. \A c \in Bots : UsedAt(c)' = UsedAt(c) /\ LiveAt(c)' = LiveAt(c)
    BY <1>5, UntouchedKernel, SignalledKernel DEF StopTimesOut, IdentityRefused
  <2>2. \A c \in Bots \ {b} : rec'[c] = rec[c]
    BY <1>5 DEF StopTimesOut, IdentityRefused, TypeOK
  <2>3. QED  BY <1>1, <2>1, <2>2, SameKernel
<1>6. CASE StopFinishes(b)
  <2> DEFINE r == [rec[b] EXCEPT !.st = "OFFLINE"]
  <2>1. CASE rec' = [rec EXCEPT ![b] = r] /\ UNCHANGED proc
    <3>1. \A c \in Bots \ {b} : rec'[c] = rec[c]  BY <2>1 DEF TypeOK
    <3>2. QED  BY <1>1, <2>1, <3>1, UntouchedKernel, SameKernel
  <2>2. CASE \E f, h : BeginStart(b, "restart", r, f, h)
    <3>1. \A i \in Insts : proc[b][i] \notin Live  BY <1>6, StopSeesNone
    <3>2. Covers(b, r, "idle")  BY <3>1 DEF Covers
    <3>3. QED  BY <1>1, <1>2, <2>2, <3>2, BeginStartSlots
  <2>3. QED  BY <1>6, <2>1, <2>2 DEF StopFinishes
<1>7. QED  BY <1>3, <1>4, <1>5, <1>6 DEF Lifecycle

(* An exit callback only rewrites a record.                                 *)
LEMMA CallbackSlots ==
    ASSUME TypeOK, SafetyInv, SafetyInv', NEW b \in Bots, NEW i \in Insts, ExitCallback(b, i)
    PROVE  [Slots!Next]_(Slots!vars)
<1>1. up /\ up'  BY HeldMeansUp DEF ExitCallback
<1>2. UNCHANGED proc /\ \A c \in Bots \ {b} : rec'[c] = rec[c]
  BY DEF ExitCallback, TypeOK
<1>3. QED  BY <1>1, <1>2, UntouchedKernel, SameKernel

(* In the kernel only an exit shows.                                        *)
LEMMA KernelSlots ==
    ASSUME TypeOK, AtMostOneLive, NEW b \in Bots, NEW i \in Insts, Kernel(b, i)
    PROVE  [Slots!Next]_(Slots!vars)
<1>1. UNCHANGED SlotMap
  BY DEF Kernel, Exits, Reap, PidReused, ForeignExits, OsStep, SlotMap
<1>2. CASE Exits(b, i)
  <2>1. proc[b][i] \in Live /\ proc' = [proc EXCEPT ![b][i] = "zombie"]
    BY <1>2 DEF Exits, OsStep
  <2>2. \A j \in Insts : proc[b][j] \in Live => j = i  BY <2>1 DEF AtMostOneLive
  <2>3. /\ \A c \in Bots \ {b} : UsedAt(c)' = UsedAt(c) /\ LiveAt(c)' = LiveAt(c)
        /\ UsedAt(b)' = UsedAt(b) /\ LiveAt(b)' = {} /\ LiveAt(b) # {}
    BY <2>1, <2>2 DEF TypeOK, UsedAt, LiveAt, Live
  <2>4. /\ LiveMap = [c \in Bots |-> LiveAt(c)] /\ LiveMap' = [c \in Bots |-> LiveAt(c)']
        /\ UsedMap = [c \in Bots |-> UsedAt(c)] /\ UsedMap' = [c \in Bots |-> UsedAt(c)']
    BY DEF LiveMap, UsedMap, LiveAt, UsedAt
  <2>5. Slots!Ends(b)  BY <1>1, <2>3, <2>4 DEF Slots!Ends
  <2>6. QED  BY <2>5 DEF Slots!Next
<1>3. CASE Reap(b, i) \/ PidReused(b, i) \/ ForeignExits(b, i)
  <2>1. PICK to \in {"gone", "foreign"} :
           /\ proc[b][i] \in {"zombie", "gone", "foreign"}
           /\ proc' = [proc EXCEPT ![b][i] = to]
    BY <1>3 DEF Reap, PidReused, ForeignExits, OsStep
  <2>2. \A c \in Bots : UsedAt(c)' = UsedAt(c) /\ LiveAt(c)' = LiveAt(c)
    BY <2>1 DEF TypeOK, UsedAt, LiveAt, Live
  <2>3. UNCHANGED <<LiveMap, UsedMap>>
    BY <2>2 DEF LiveMap, UsedMap, LiveAt, UsedAt
  <2>4. QED  BY <1>1, <2>3 DEF Slots!vars
<1>4. QED  BY <1>2, <1>3 DEF Kernel

(* Provided that saves succeed and that the supervisor ends only between    *)
(* operations, every behaviour of the supervisor is one of BotSlots.        *)
THEOREM ImplementsBotSlots ==
    ASSUME Clean
    PROVE  Spec => ImplementsSlots
<1>1. Init => Slots!Init
  <2> SUFFICES ASSUME Init PROVE Slots!Init  OBVIOUS
  <2>1. LiveMap = [b \in Bots |-> {}]  BY DEF Init, LiveMap, Live
  <2>2. UsedMap = [b \in Bots |-> {}]  BY DEF Init, UsedMap
  <2>3. SlotMap = [b \in Bots |-> "down"]  BY DEF Init, SlotMap
  <2>4. QED  BY <2>1, <2>2, <2>3 DEF Slots!Init
<1>2. TypeOK /\ SafetyInv /\ SafetyInv' /\ AtMostOneLive /\ [Next]_vars
         => [Slots!Next]_(Slots!vars)
  <2> SUFFICES ASSUME TypeOK, SafetyInv, SafetyInv', AtMostOneLive, [Next]_vars
               PROVE  [Slots!Next]_(Slots!vars)
    OBVIOUS
  <2>1. ASSUME NEW b \in Bots, Lifecycle(b)  PROVE [Slots!Next]_(Slots!vars)
    BY <2>1, LifecycleSlots
  <2>2. ASSUME NEW b \in Bots, NEW i \in Insts, ExitCallback(b, i) \/ Kernel(b, i)
        PROVE  [Slots!Next]_(Slots!vars)
    BY <2>2, CallbackSlots, KernelSlots
  <2>3. CASE Shutdown \/ Crash
    <3>1. UNCHANGED proc /\ ~up'  BY <2>3 DEF Shutdown, Crash, GoesDown
    <3>2. Slots!GoesDown
      BY <3>1 DEF Slots!GoesDown, LiveMap, UsedMap, SlotMap
    <3>3. QED  BY <3>2 DEF Slots!Next
  <2>4. CASE Startup
    <3>1. PICK ok \in BOOLEAN : Save(file, [b \in Bots |-> Recover(b)], ok) /\ up' = ok
      BY <2>4 DEF Startup
    <3>2. ~up /\ up' /\ UNCHANGED proc  BY <2>4, <3>1, CleanSave DEF Startup
    <3>3. UNCHANGED <<LiveMap, UsedMap>>  BY <3>2 DEF LiveMap, UsedMap
    <3>4. \A b \in Bots : SlotMap[b] = "down"  BY <3>2 DEF SlotMap
    <3>5. SlotMap' \in [Bots -> {"free", "held"}]  BY <3>2 DEF SlotMap
    <3>6. \A b \in Bots : LiveMap[b] # {} => SlotMap'[b] = "held"
      <4> SUFFICES ASSUME NEW b \in Bots, LiveMap[b] # {} PROVE SlotMap'[b] = "held"
        OBVIOUS
      <4>1. PICK i \in Insts : proc'[b][i] \in Live  BY <3>2 DEF LiveMap
      <4>2. ~SafelyOffline(rec'[b])  BY <3>2, <4>1 DEF SafetyInv, Covers, SafelyOffline
      <4>3. QED  BY <3>2, <4>2 DEF SlotMap, SafelyOffline
    <3>7. Slots!ComesUp  BY <3>3, <3>4, <3>5, <3>6 DEF Slots!ComesUp
    <3>8. QED  BY <3>7 DEF Slots!Next
  <2>5. CASE UNCHANGED vars
    BY <2>5 DEF vars, Slots!vars, LiveMap, UsedMap, SlotMap
  <2>6. QED  BY <2>1, <2>2, <2>3, <2>4, <2>5 DEF Next
<1>3. QED
  BY <1>1, <1>2, TypeCorrect, SafetyInvariant, NeverTwice, PTL
     DEF Spec, ImplementsSlots, Slots!Spec
=================================================================================
