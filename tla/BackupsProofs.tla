---------------------------- MODULE BackupsProofs ----------------------------
(***************************************************************************)
(* The backups of a bot, for any number of threads, processes, channels    *)
(* and backups: what a restore may find and leave, whatever the faults,    *)
(* and, with one portal process, what the catalogue and the retention      *)
(* promise.                                                                *)
(***************************************************************************)
EXTENDS Backups, FiniteSetTheorems, WellFoundedInduction, TLAPS

---------------------------------------------------------------------------
Directories == [doc : Documents, at : 0 .. MaxBackups, safety : BOOLEAN]
Storing == {"publish", "list", "listed", "trim", "trimmed"}
Writing == {"apply", "applying"}
Undoing == {"unverified", "undo", "undoing"}
Committing == {"commit", "committing"}
Previews == [id : BackupIds, rev : Channels \X (0 .. MaxUsers), same : BOOLEAN]
Works == [at : {"idle"} \cup Storing \cup Writing \cup Undoing \cup Committing,
          job : {"none", "create", "restore", "commit"},
          id : 0 .. MaxBackups, from : 0 .. MaxBackups, seen : Documents \cup {NoDoc},
          cat : SUBSET BackupIds, wanted : Documents \cup {NoDoc},
          ended : {"none", "full", "succeeded", "rolled back", "manual", "stale", "failed"}]

BackTypes ==
    /\ doc \in Documents /\ botDoc \in Documents \cup {NoDoc}
    /\ botDoc \in Documents => botDoc.users < MaxUsers
    /\ dirs \in [BackupIds -> Directories \cup {NoDir}] /\ catalog \subseteq BackupIds
    /\ lock \subseteq Processes /\ fileLock \subseteq Processes
    /\ active \in [Processes -> SUBSET BackupIds]
    /\ previews \in [Processes -> SUBSET Previews]
    /\ work \in [Workers -> Works]
    /\ reported \subseteq BackupIds /\ retired \subseteq BackupIds

(* The jobs that make a backup, and what each of their steps has at hand.   *)
Making(w) == work[w].at # "idle" /\ work[w].job \in {"create", "restore"}
Restoring(w) == work[w].at # "idle" /\ work[w].job = "restore"
Shaped(r) ==
    /\ r.at \in Storing => r.job \in {"create", "restore"}
    /\ r.at \in Writing \cup Undoing => r.job = "restore"
    /\ r.at \in Committing => r.job = "commit" /\ r.wanted \in Documents /\ r.wanted.by = 0
    /\ r.at # "idle" => r.seen \in Documents
    /\ r.at # "idle" /\ r.job \in {"create", "restore"} => r.id \in BackupIds
    /\ r.at # "idle" /\ r.job = "create" => r.from = 0
    /\ r.at # "idle" /\ r.job = "restore" => r.from \in BackupIds /\ r.wanted \in Documents

(* One backup or restore at a time in each process; what it restores is     *)
(* protected, and nothing else is.                                          *)
OneAtATime ==
    /\ \A w \in Workers : Making(w) => Home[w] \in lock
    /\ \A v, w \in Workers : Making(v) /\ Making(w) /\ Home[v] = Home[w] => v = w
    /\ \A w \in Workers : Restoring(w) => work[w].from \in active[Home[w]]
    /\ \A p \in Processes : \A i \in active[p] :
         \E w \in Workers : Restoring(w) /\ Home[w] = p /\ work[w].from = i

(* Who wrote a document that is anywhere.                                   *)
By(i) ==
    \/ doc.by = i
    \/ botDoc \in Documents /\ botDoc.by = i
    \/ \E j \in BackupIds : dirs[j] # NoDir /\ dirs[j].doc.by = i
    \/ \E w \in Workers : \/ work[w].seen \in Documents /\ work[w].seen.by = i
                          \/ work[w].wanted \in Documents /\ work[w].wanted.by = i
Made(i) == i \in retired \/ dirs[i] # NoDir

(* A worker that makes the backup i.                                        *)
Traces(w, i) ==
    /\ work[w].at = "publish" => ~Made(i)
    /\ work[w].at # "publish" => Made(i)
    /\ work[w].at \in Storing \cup Writing => ~By(i)
    /\ work[w].at \in {"undo", "undoing"} => work[w].wanted.by # i

(* The id of a backup is new, and until the restore that the backup secures *)
(* has written, no document is by it.                                       *)
Traced ==
    /\ \A i \in BackupIds : By(i) => Made(i)
    /\ \A v, w \in Workers : Making(v) /\ Making(w) /\ work[v].id = work[w].id => v = w
    /\ \A w \in Workers, i \in BackupIds : Making(w) /\ work[w].id = i => Traces(w, i)
    /\ \A i \in BackupIds : dirs[i] # NoDir => dirs[i].doc.by # i

BackInv == BackTypes /\ (\A w \in Workers : Shaped(work[w])) /\ OneAtATime /\ Traced

---------------------------------------------------------------------------
SingleProcess == \A v, w \in Workers : Home[v] = Home[w]

(* The catalogue as the one worker under the lock knows it.                 *)
Knows(w) ==
    /\ work[w].at \in {"listed", "trimmed"} => work[w].cat = Readable(catalog)
    /\ work[w].at \in {"list", "listed"} => dirs[work[w].id] # NoDir
    /\ work[w].at = "trim" => work[w].id \in Readable(catalog)
    /\ work[w].at = "trimmed" => work[w].id \in Readable(catalog) \cup retired
CatalogKnown ==
    /\ reported \subseteq Readable(catalog) \cup retired
    /\ \A w \in Workers : Making(w) => Knows(w)

(* A trim keeps what the plan allows.                                       *)
TrimmedFew ==
    \A w \in Workers :
        work[w].at = "trimmed" /\ work[w].job = "create" => Cardinality(work[w].cat) <= Retention

(* When the clock is not set back, the backup that is made is the newest,   *)
(* and it is listed in the end.                                             *)
Secured(w) ==
    /\ work[w].at \in Storing => \A i \in BackupIds : dirs[i] # NoDir => i <= work[w].id
    /\ work[w].at \in {"list", "listed"} => dirs[work[w].id] # NoDir
    /\ work[w].at = "trimmed" => dirs[work[w].id] # NoDir /\ work[w].id \in work[w].cat
    /\ work[w].at \in {"trim"} \cup Writing \cup Undoing => work[w].id \in Readable(catalog)
SafetyKept ==
    /\ \A i \in BackupIds : dirs[i] # NoDir => dirs[i].at = i
    /\ \A w \in Workers : Making(w) => Secured(w)

---------------------------------------------------------------------------
(* Ids and records.                                                        *)

LEMMA NothingIsNone ==
    /\ NoDoc \notin Documents /\ NoDir \notin Directories
    /\ \A d \in Documents : d # NoDoc
    /\ \A d \in Directories : d # NoDir
<1>1. \A d \in Documents : DOMAIN d = {"ch", "users", "by"}
  BY DEF Documents
<1>2. \A d \in Directories : DOMAIN d = {"doc", "at", "safety"}
  BY DEF Directories
<1>3. DOMAIN NoDoc = {"none"} /\ DOMAIN NoDir = {"none"}
  BY DEF NoDoc, NoDir
<1>4. {"none"} # {"ch", "users", "by"} /\ {"none"} # {"doc", "at", "safety"}
  OBVIOUS
<1> QED BY <1>1, <1>2, <1>3, <1>4

(* A bounded set of numbers has a greatest.                                 *)
LEMMA MaxIs ==
    ASSUME NEW N \in Nat, NEW S \in SUBSET (0 .. N), S # {}
    PROVE  Max(S) \in S /\ \A x \in S : x <= Max(S)
<1> DEFINE T == {k \in 0 .. N : N - k \in S}
<1>1. T \subseteq Nat /\ T # {}
  <2>1. PICK x \in S : TRUE
    OBVIOUS
  <2>0. x \in 0 .. N
    BY <2>1
  <2>2. N - x \in 0 .. N /\ N - (N - x) = x
    BY <2>0
  <2>3. N - x \in T
    BY <2>1, <2>2
  <2>4. \A k \in T : k \in Nat
    OBVIOUS
  <2> QED BY <2>3, <2>4
<1>2. PICK i \in T : \A j \in T : ~(<<j, i>> \in OpToRel(<, Nat))
  BY <1>1, NatLessThanWellFounded, WFMin
<1>3. i \in 0 .. N /\ N - i \in S
  OBVIOUS
<1>4. \A x \in S : N - i >= x
  <2> SUFFICES ASSUME NEW x \in S, ~(N - i >= x) PROVE FALSE
    OBVIOUS
  <2>1. N - x \in 0 .. N /\ N - (N - x) = x /\ N - x < i
    BY <1>3
  <2>2. N - x \in T
    BY <2>1
  <2>3. <<N - x, i>> \in OpToRel(<, Nat)
    BY <1>1, <2>1, <2>2 DEF OpToRel
  <2> QED BY <1>2, <2>2, <2>3
<1>5. \E x \in S : \A y \in S : x >= y
  BY <1>3, <1>4
<1>6. Max(S) \in S /\ \A y \in S : Max(S) >= y
  BY <1>5 DEF Max
<1> QED BY <1>6

(* The next id is beyond every id that was given.                           *)
LEMMA NextIdIsNew ==
    ASSUME BackTypes
    PROVE  /\ NextId \in Nat
           /\ \A i \in BackupIds : Made(i) => i < NextId
           /\ \A w \in Workers : work[w].id < NextId
<1> DEFINE S == {0} \cup retired \cup {i \in BackupIds : dirs[i] # NoDir} \cup {work[w].id : w \in Workers}
<1>1. MaxBackups \in Nat /\ BackupIds = 1 .. MaxBackups
  BY BackupsAssumption DEF BackupIds
<1>2. S \in SUBSET (0 .. MaxBackups) /\ S # {}
  <2>1. \A w \in Workers : work[w].id \in 0 .. MaxBackups
    BY DEF BackTypes, Works
  <2>2. retired \subseteq 0 .. MaxBackups /\ 0 \in 0 .. MaxBackups
    BY <1>1 DEF BackTypes
  <2>3. {i \in BackupIds : dirs[i] # NoDir} \subseteq 0 .. MaxBackups
    BY <1>1
  <2>4. {work[w].id : w \in Workers} \subseteq 0 .. MaxBackups
    BY <2>1
  <2> QED BY <2>2, <2>3, <2>4
<1>3. Max(S) \in S /\ \A x \in S : x <= Max(S)
  BY <1>1, <1>2, MaxIs
<1>4. NextId = 1 + Max(S)
  BY DEF NextId
<1> HIDE DEF S
<1>5. Max(S) \in Nat /\ \A x \in S : x \in Nat
  <2>1. \A x \in 0 .. MaxBackups : x \in Nat
    BY <1>1
  <2>2. \A x \in S : x \in Nat
    BY <1>2, <2>1
  <2> QED BY <1>3, <2>2
<1>6. \A x \in S : x < NextId
  BY <1>3, <1>4, <1>5
<1>7. \A i \in BackupIds : Made(i) => i \in S
  BY DEF S, Made
<1>8. \A w \in Workers : work[w].id \in S
  BY DEF S
<1> QED BY <1>4, <1>5, <1>6, <1>7, <1>8

(* The work of one worker changes; of the others at most how it ended.      *)
SameJob(v) ==
    /\ work'[v].at = work[v].at /\ work'[v].job = work[v].job /\ work'[v].id = work[v].id
    /\ work'[v].from = work[v].from /\ work'[v].seen = work[v].seen
    /\ work'[v].cat = work[v].cat /\ work'[v].wanted = work[v].wanted
OthersStay(w) == \A v \in Workers : v # w => SameJob(v)

LEMMA NoWorkIs ==
    /\ NoWork \in Works /\ NoWork.at = "idle" /\ Shaped(NoWork)
    /\ NoWork.seen = NoDoc /\ NoWork.wanted = NoDoc
<1>1. 0 \in 0 .. MaxBackups
  BY BackupsAssumption
<1>2. NoWork \in Works
  BY <1>1 DEF NoWork, Works
<1> QED BY <1>2 DEF NoWork, Shaped, Storing, Writing, Undoing, Committing

LEMMA WorkIs ==
    ASSUME BackTypes, NEW w \in Workers, NEW r \in Works, work' = [work EXCEPT ![w] = r]
    PROVE  work' \in [Workers -> Works] /\ work'[w] = r /\ OthersStay(w)
<1>1. work \in [Workers -> Works]
  BY DEF BackTypes
<1> QED BY <1>1 DEF OthersStay, SameJob

LEMMA WorkEnds ==
    ASSUME BackTypes, NEW w \in Workers, NEW how, EndsWork(w, how),
           how \in {"full", "succeeded", "rolled back", "manual", "stale", "failed"}
    PROVE  /\ work' \in [Workers -> Works] /\ OthersStay(w)
           /\ work'[w] = [NoWork EXCEPT !.ended = how]
<1>1. work \in [Workers -> Works]
  BY DEF BackTypes
<1>2. [NoWork EXCEPT !.ended = how] \in Works
  BY NoWorkIs DEF Works
<1>3. \A v \in Workers : [work[v] EXCEPT !.ended = "none"] \in Works
  <2>1. \A r \in Works : [r EXCEPT !.ended = "none"] \in Works
    BY DEF Works
  <2> QED BY <1>1, <2>1
<1>4. /\ \A v \in Workers : v # w => work'[v] = [work[v] EXCEPT !.ended = "none"]
      /\ work'[w] = [NoWork EXCEPT !.ended = how]
  <2> DEFINE f(x) == [work[x] EXCEPT !.ended = "none"]
             e == [NoWork EXCEPT !.ended = how]
  <2>1. work' = [x \in Workers |-> IF x = w THEN e ELSE f(x)]
    BY DEF EndsWork
  <2> HIDE DEF f, e
  <2>2. (\A v \in Workers : v # w => work'[v] = f(v)) /\ work'[w] = e
    BY <2>1
  <2> QED BY <2>2 DEF f, e
<1>5. work' \in [Workers -> Works]
  BY <1>2, <1>3 DEF EndsWork
<1>6. \A v \in Workers : v # w => SameJob(v)
  <2> SUFFICES ASSUME NEW v \in Workers, v # w PROVE SameJob(v)
    OBVIOUS
  <2>1. work[v] \in Works /\ work'[v] = [work[v] EXCEPT !.ended = "none"]
    BY <1>1, <1>4
  <2> QED BY <2>1 DEF SameJob, Works
<1> QED BY <1>4, <1>5, <1>6 DEF OthersStay

Shapes == \A w \in Workers : Shaped(work[w])

LEMMA ShapesKept ==
    ASSUME Shapes, NEW w \in Workers, OthersStay(w), Shaped(work'[w])
    PROVE  Shapes'
BY DEF Shapes, Shaped, OthersStay, SameJob

LEMMA StagedIs ==
    ASSUME BackTypes, Shapes, NEW w \in Workers, NEW job, NEW from, Staged(w, job, from),
           \/ job = "create" /\ from = 0
           \/ job = "restore" /\ from \in BackupIds /\ dirs[from] # NoDir
    PROVE  /\ work' \in [Workers -> Works] /\ OthersStay(w) /\ Shapes'
           /\ work'[w].at = "publish" /\ work'[w].job = job /\ work'[w].id = NextId
           /\ work'[w].from = from /\ NextId \in BackupIds /\ work'[w].seen = doc
           /\ work'[w].wanted = IF from = 0 THEN NoDoc ELSE dirs[from].doc
<1> DEFINE r == [NoWork EXCEPT !.at = "publish", !.job = job, !.id = NextId, !.from = from,
                               !.seen = doc, !.wanted = IF from = 0 THEN NoDoc ELSE dirs[from].doc]
<1>1. NextId \in BackupIds /\ work' = [work EXCEPT ![w] = r]
  BY DEF Staged
<1>2. BackupIds \subseteq 0 .. MaxBackups /\ 0 \in 0 .. MaxBackups /\ 0 \notin BackupIds
  BY BackupsAssumption DEF BackupIds
<1>3. from # 0 => dirs[from] \in Directories /\ dirs[from].doc \in Documents
  <2>1. from # 0 => dirs[from] \in Directories
    BY DEF BackTypes
  <2> QED BY <2>1 DEF Directories
<1>4. doc \in Documents
  BY DEF BackTypes
<1> DEFINE wanted == IF from = 0 THEN NoDoc ELSE dirs[from].doc
<1>5. r \in Works
  <2>1. wanted \in Documents \cup {NoDoc}
    BY <1>3
  <2>2. r = [NoWork EXCEPT !.at = "publish", !.job = job, !.id = NextId, !.from = from,
                           !.seen = doc, !.wanted = wanted]
    OBVIOUS
  <2> HIDE DEF wanted, r
  <2>3. NoWork \in Works /\ NextId \in 0 .. MaxBackups /\ from \in 0 .. MaxBackups
    BY <1>1, <1>2, NoWorkIs
  <2> QED BY <1>4, <2>1, <2>2, <2>3 DEF Works, Storing
<1>6. /\ r.at = "publish" /\ r.job = job /\ r.id = NextId /\ r.from = from /\ r.seen = doc
      /\ r.wanted = IF from = 0 THEN NoDoc ELSE dirs[from].doc
  BY DEF NoWork
<1> HIDE DEF r
<1>7. work' \in [Workers -> Works] /\ work'[w] = r /\ OthersStay(w)
  BY <1>1, <1>5, WorkIs
<1>8. Shaped(r)
  BY <1>1, <1>2, <1>3, <1>4, <1>6 DEF Shaped, Storing, Writing, Undoing, Committing
<1>9. Shapes'
  BY <1>7, <1>8, ShapesKept
<1> QED BY <1>1, <1>6, <1>7, <1>9

(* The step of a job moves on, and of its record only the named fields.     *)
LEMMA GoIs ==
    ASSUME BackTypes, Shapes, NEW w \in Workers, NEW step, Go(w, step),
           step \in Storing \cup Writing \cup Undoing \cup Committing, work[w].at # "idle",
           step \in Storing => work[w].job \in {"create", "restore"},
           step \in Writing \cup Undoing => work[w].job = "restore",
           step \in Committing => work[w].at \in Committing
    PROVE  /\ work' \in [Workers -> Works] /\ OthersStay(w) /\ Shapes'
           /\ work'[w] = [work[w] EXCEPT !.at = step]
<1> DEFINE r == [work[w] EXCEPT !.at = step]
<1>1. work[w] \in Works /\ work' = [work EXCEPT ![w] = r]
  BY DEF BackTypes, Go
<1>2. r \in Works
  BY <1>1 DEF Works
<1>3. Shaped(r)
  BY <1>1 DEF Shapes, Shaped, Works, Storing, Writing, Undoing, Committing
<1>4. work' \in [Workers -> Works] /\ work'[w] = r /\ OthersStay(w)
  BY <1>1, <1>2, WorkIs
<1> QED BY <1>3, <1>4, ShapesKept

LEMMA EndsIs ==
    ASSUME BackTypes, Shapes, NEW w \in Workers, NEW how, EndsWork(w, how),
           how \in {"full", "succeeded", "rolled back", "manual", "stale", "failed"}
    PROVE  /\ work' \in [Workers -> Works] /\ OthersStay(w) /\ Shapes'
           /\ work'[w].at = "idle" /\ work'[w].ended = how
           /\ work'[w].seen = NoDoc /\ work'[w].wanted = NoDoc
<1>1. work' \in [Workers -> Works] /\ OthersStay(w) /\ work'[w] = [NoWork EXCEPT !.ended = how]
  BY WorkEnds
<1>2. /\ work'[w].at = "idle" /\ work'[w].ended = how /\ work'[w].seen = NoDoc
      /\ work'[w].wanted = NoDoc
  BY <1>1 DEF NoWork
<1>3. Shaped(work'[w])
  BY <1>2 DEF Shaped, Storing, Writing, Undoing, Committing
<1> QED BY <1>1, <1>2, <1>3, ShapesKept

---------------------------------------------------------------------------
(* Types, action by action.                                                *)

LEMMA CreateTypes ==
    ASSUME BackTypes, Shapes, NEW w \in Workers, CreateBackup(w)
    PROVE  BackTypes' /\ Shapes'
<1>1. Staged(w, "create", 0) /\ lock' = lock \cup {Home[w]}
      /\ UNCHANGED <<doc, botDoc, dirs, catalog, active, fileLock, previews, reported, retired>>
  BY DEF CreateBackup
<1>2. work' \in [Workers -> Works] /\ Shapes'
  BY <1>1, StagedIs
<1>3. Home[w] \in Processes
  BY DEF Processes
<1> QED BY <1>1, <1>2, <1>3 DEF BackTypes

LEMMA RestoreTypes ==
    ASSUME BackTypes, Shapes, NEW w \in Workers, NEW p \in previews[Home[w]], RestoreBackup(w, p)
    PROVE  BackTypes' /\ Shapes'
<1>0. Home[w] \in Processes
  BY DEF Processes
<1>1. p \in Previews /\ p.id \in BackupIds
  BY <1>0 DEF BackTypes, Previews
<1>2. previews' \in [Processes -> SUBSET Previews]
  BY <1>0 DEF RestoreBackup, BackTypes
<1>3. UNCHANGED <<doc, botDoc, dirs, catalog, fileLock, reported, retired>>
  BY DEF RestoreBackup
<1>4. CASE Listed(p.id) /\ p.same /\ p.rev = Revision(doc)
  <2>1. /\ Staged(w, "restore", p.id) /\ lock' = lock \cup {Home[w]}
        /\ active' = [active EXCEPT ![Home[w]] = @ \cup {p.id}]
    BY <1>4 DEF RestoreBackup
  <2>2. dirs[p.id] # NoDir
    BY <1>4 DEF Listed, Readable
  <2>3. work' \in [Workers -> Works] /\ Shapes'
    BY <1>1, <2>1, <2>2, StagedIs
  <2>4. active' \in [Processes -> SUBSET BackupIds]
    BY <1>0, <1>1, <2>1 DEF BackTypes
  <2> QED BY <1>0, <1>2, <1>3, <2>1, <2>3, <2>4 DEF BackTypes
<1>5. CASE ~(Listed(p.id) /\ p.same /\ p.rev = Revision(doc))
  <2>1. UNCHANGED <<lock, active, work>>
    BY <1>5 DEF RestoreBackup
  <2> QED BY <1>2, <1>3, <2>1 DEF BackTypes, Shapes
<1> QED BY <1>4, <1>5

(* What retention takes was readable.                                       *)
LEMMA RetiredIs ==
    ASSUME NEW cat \in CatalogReads, NEW reserve, NEW held
    PROVE  /\ cat \subseteq Readable(catalog)
           /\ Retired(cat, reserve, held) \subseteq cat /\ Retired(cat, reserve, held) \cap held = {}
BY DEF CatalogReads, Retired

LEMMA AnnouncedIs ==
    ASSUME BackTypes, Shapes, NEW w \in Workers, work[w].at \in {"trim", "trimmed"},
           Announced(w, {})
    PROVE  /\ work' \in [Workers -> Works] /\ OthersStay(w) /\ Shapes'
           /\ \/ /\ work[w].job = "restore"
                 /\ work'[w].at = "apply" /\ work'[w].job = "restore" /\ work'[w].id = work[w].id
                 /\ work'[w].from = work[w].from /\ work'[w].seen = work[w].seen
                 /\ work'[w].wanted = work[w].wanted
                 /\ lock' = lock /\ reported' = reported
              \/ /\ work[w].job = "create"
                 /\ work'[w].at = "idle" /\ work'[w].ended = "succeeded"
                 /\ work'[w].seen = NoDoc /\ work'[w].wanted = NoDoc
                 /\ lock' = lock \ {Home[w]} /\ reported' = reported \cup {work[w].id}
<1>0. work[w] \in Works /\ work[w].job \in {"create", "restore"} /\ Shaped(work[w])
  BY DEF BackTypes, Shapes, Shaped, Storing
<1>1. CASE work[w].job = "restore"
  <2> DEFINE r == [work[w] EXCEPT !.at = "apply", !.cat = {}]
  <2>1. work' = [work EXCEPT ![w] = r] /\ lock' = lock /\ reported' = reported
    <3>1. work' = [work EXCEPT ![w].at = "apply", ![w].cat = {}]
      BY <1>1 DEF Announced
    <3>2. UNCHANGED <<lock, reported>>
      BY <1>1 DEF Announced
    <3>3. work \in [Workers -> Works]
      BY DEF BackTypes
    <3> QED BY <1>0, <3>1, <3>2, <3>3 DEF Works
  <2>2. r \in Works
    BY <1>0 DEF Works, Writing
  <2>3. /\ r.at = "apply" /\ r.job = "restore" /\ r.id = work[w].id /\ r.from = work[w].from
        /\ r.seen = work[w].seen /\ r.wanted = work[w].wanted
    BY <1>0, <1>1 DEF Works
  <2> HIDE DEF r
  <2>4. Shaped(r)
    BY <1>0, <1>1, <2>3 DEF Shaped, Storing, Writing, Undoing, Committing
  <2>5. work' \in [Workers -> Works] /\ OthersStay(w) /\ work'[w] = r
    BY <2>1, <2>2, WorkIs
  <2>6. Shapes'
    BY <2>4, <2>5, ShapesKept
  <2> QED BY <1>1, <2>1, <2>3, <2>5, <2>6
<1>2. CASE work[w].job # "restore"
  <2>1. EndsWork(w, "succeeded") /\ lock' = lock \ {Home[w]} /\ reported' = reported \cup {work[w].id}
    BY <1>2 DEF Announced
  <2>2. /\ work' \in [Workers -> Works] /\ OthersStay(w) /\ Shapes'
        /\ work'[w].at = "idle" /\ work'[w].ended = "succeeded"
        /\ work'[w].seen = NoDoc /\ work'[w].wanted = NoDoc
    BY <2>1, EndsIs
  <2> QED BY <1>0, <1>2, <2>1, <2>2
<1> QED BY <1>1, <1>2

(* Publish: the directory appears, or the store is full and the job ends.   *)
PublishesTo(w, cat, at, gone, fails) ==
    /\ gone \subseteq Retired(cat, 1, active[Home[w]])
    /\ catalog' = (IF gone = {} THEN catalog ELSE cat \ gone)
    /\ retired' = retired \cup gone
    /\ dirs' = [i \in BackupIds |->
           IF i \in gone THEN NoDir
           ELSE IF i = work[w].id /\ ~fails
                THEN [doc |-> work[w].seen, at |-> at, safety |-> work[w].job = "restore"]
                ELSE dirs[i]]
    /\ work' \in [Workers -> Works] /\ OthersStay(w) /\ Shapes'
    /\ fails => /\ work'[w].at = "idle" /\ work'[w].ended = "full"
                /\ work'[w].seen = NoDoc /\ work'[w].wanted = NoDoc
                /\ lock' = lock \ {Home[w]}
                /\ active' = [active EXCEPT ![Home[w]] = @ \ {work[w].from}]
    /\ ~fails => /\ work'[w] = [work[w] EXCEPT !.at = "list"]
                 /\ lock' = lock /\ active' = active
    /\ UNCHANGED <<doc, botDoc, fileLock, previews, reported>>

LEMMA PublishIs ==
    ASSUME BackTypes, Shapes, NEW w \in Workers, Publish(w)
    PROVE  \E cat \in CatalogReads, at \in Stamps(work[w].id) :
             \E gone \in SUBSET BackupIds, fails \in BOOLEAN : PublishesTo(w, cat, at, gone, fails)
<1>1. PICK cat \in CatalogReads, at \in Stamps(work[w].id) :
         LET full == Cardinality(cat) + 1 > Capacity
             gone == IF full THEN Retired(cat, 1, active[Home[w]]) ELSE {}
             left == IF gone = {} THEN catalog ELSE cat \ gone
             fails == full /\ Cardinality(cat \ gone) + 1 > Capacity
         IN  /\ catalog' = left
             /\ retired' = retired \cup gone
             /\ dirs' = [i \in BackupIds |->
                    IF i \in gone THEN NoDir
                    ELSE IF i = work[w].id /\ ~fails
                         THEN [doc |-> work[w].seen, at |-> at, safety |-> work[w].job = "restore"]
                         ELSE dirs[i]]
             /\ IF fails THEN /\ EndsWork(w, "full")
                              /\ lock' = lock \ {Home[w]}
                              /\ active' = [active EXCEPT ![Home[w]] = @ \ {work[w].from}]
                         ELSE Go(w, "list") /\ UNCHANGED <<lock, active>>
  BY DEF Publish
<1> DEFINE full == Cardinality(cat) + 1 > Capacity
           gone == IF full THEN Retired(cat, 1, active[Home[w]]) ELSE {}
           fails == full /\ Cardinality(cat \ gone) + 1 > Capacity
<1>2. /\ catalog' = (IF gone = {} THEN catalog ELSE cat \ gone)
      /\ retired' = retired \cup gone
      /\ dirs' = [i \in BackupIds |->
                    IF i \in gone THEN NoDir
                    ELSE IF i = work[w].id /\ ~fails
                         THEN [doc |-> work[w].seen, at |-> at, safety |-> work[w].job = "restore"]
                         ELSE dirs[i]]
      /\ fails => /\ EndsWork(w, "full") /\ lock' = lock \ {Home[w]}
                  /\ active' = [active EXCEPT ![Home[w]] = @ \ {work[w].from}]
      /\ ~fails => Go(w, "list") /\ UNCHANGED <<lock, active>>
  BY <1>1
<1>3. gone \subseteq Retired(cat, 1, active[Home[w]]) /\ fails \in BOOLEAN
  OBVIOUS
<1>4. gone \subseteq BackupIds
  BY <1>3, RetiredIs DEF Readable, BackTypes
<1>5. work[w].at = "publish" /\ UNCHANGED <<doc, botDoc, fileLock, previews, reported>>
  BY DEF Publish
<1> HIDE DEF gone, fails
<1>6. work[w].job \in {"create", "restore"}
  BY <1>5 DEF Shapes, Shaped, Storing
<1>7. CASE fails
  <2>1. /\ work' \in [Workers -> Works] /\ OthersStay(w) /\ Shapes'
        /\ work'[w].at = "idle" /\ work'[w].ended = "full"
        /\ work'[w].seen = NoDoc /\ work'[w].wanted = NoDoc
    BY <1>2, <1>7, EndsIs
  <2>2. PublishesTo(w, cat, at, gone, fails)
    BY <1>2, <1>3, <1>5, <1>7, <2>1 DEF PublishesTo
  <2> QED BY <1>3, <1>4, <2>2
<1>8. CASE ~fails
  <2>1. "list" \in Storing /\ Go(w, "list")
    BY <1>2, <1>8 DEF Storing
  <2>2. /\ work' \in [Workers -> Works] /\ OthersStay(w) /\ Shapes'
        /\ work'[w] = [work[w] EXCEPT !.at = "list"]
    BY <1>5, <1>6, <2>1, GoIs DEF Storing, Writing, Undoing, Committing
  <2>3. PublishesTo(w, cat, at, gone, fails)
    BY <1>2, <1>3, <1>5, <1>8, <2>2 DEF PublishesTo
  <2> QED BY <1>3, <1>4, <2>3
<1> QED BY <1>7, <1>8

(* Trim: what is too old goes; the backup is announced, or saved first.     *)
TrimsTo(w, cat, gone) ==
    /\ gone = Retired(cat, 0, active[Home[w]])
    /\ dirs' = [i \in BackupIds |-> IF i \in gone THEN NoDir ELSE dirs[i]]
    /\ retired' = retired \cup gone
    /\ work' \in [Workers -> Works] /\ OthersStay(w) /\ Shapes'
    /\ gone = {} => Announced(w, {})
    /\ gone # {} => /\ work'[w].at = "trimmed" /\ work'[w].job = work[w].job
                    /\ work'[w].id = work[w].id /\ work'[w].from = work[w].from
                    /\ work'[w].seen = work[w].seen /\ work'[w].wanted = work[w].wanted
                    /\ work'[w].cat = cat \ gone
                    /\ lock' = lock /\ reported' = reported
    /\ UNCHANGED <<doc, botDoc, catalog, active, fileLock, previews>>

LEMMA TrimIs ==
    ASSUME BackTypes, Shapes, NEW w \in Workers, Trim(w)
    PROVE  \E cat \in CatalogReads : \E gone \in SUBSET BackupIds : TrimsTo(w, cat, gone)
<1>1. PICK cat \in CatalogReads :
         LET gone == Retired(cat, 0, active[Home[w]]) IN
         /\ dirs' = [i \in BackupIds |-> IF i \in gone THEN NoDir ELSE dirs[i]]
         /\ retired' = retired \cup gone
         /\ IF gone = {} THEN Announced(w, {})
            ELSE /\ work' = [work EXCEPT ![w].at = "trimmed", ![w].cat = cat \ gone]
                 /\ UNCHANGED <<lock, reported>>
  BY DEF Trim
<1> DEFINE gone == Retired(cat, 0, active[Home[w]])
<1>2. /\ dirs' = [i \in BackupIds |-> IF i \in gone THEN NoDir ELSE dirs[i]]
      /\ retired' = retired \cup gone
      /\ gone = {} => Announced(w, {})
      /\ gone # {} => /\ work' = [work EXCEPT ![w].at = "trimmed", ![w].cat = cat \ gone]
                      /\ UNCHANGED <<lock, reported>>
  BY <1>1
<1>3. cat \subseteq BackupIds /\ gone \subseteq BackupIds
  BY RetiredIs DEF Readable, BackTypes
<1>4. work[w].at = "trim" /\ UNCHANGED <<doc, botDoc, catalog, active, fileLock, previews>>
  BY DEF Trim
<1>40. gone = Retired(cat, 0, active[Home[w]])
  OBVIOUS
<1> HIDE DEF gone
<1>5. work[w] \in Works /\ work[w].job \in {"create", "restore"} /\ Shaped(work[w])
  BY <1>4 DEF BackTypes, Shapes, Shaped, Storing
<1>6. CASE gone = {}
  <2>1. work' \in [Workers -> Works] /\ OthersStay(w) /\ Shapes'
    BY <1>2, <1>4, <1>6, AnnouncedIs
  <2>2. TrimsTo(w, cat, gone)
    BY <1>2, <1>4, <1>40, <1>6, <2>1 DEF TrimsTo
  <2> QED BY <1>3, <2>2
<1>7. CASE gone # {}
  <2> DEFINE r == [work[w] EXCEPT !.at = "trimmed", !.cat = cat \ gone]
  <2>1. work' = [work EXCEPT ![w] = r]
    <3>1. work \in [Workers -> Works]
      BY DEF BackTypes
    <3>2. work' = [work EXCEPT ![w].at = "trimmed", ![w].cat = cat \ gone]
      BY <1>2, <1>7
    <3> QED BY <1>5, <3>1, <3>2 DEF Works
  <2>2. r \in Works
    BY <1>3, <1>5 DEF Works, Storing
  <2>3. /\ r.at = "trimmed" /\ r.job = work[w].job /\ r.id = work[w].id /\ r.from = work[w].from
        /\ r.seen = work[w].seen /\ r.wanted = work[w].wanted /\ r.cat = cat \ gone
    BY <1>5 DEF Works
  <2> HIDE DEF r
  <2>4. Shaped(r)
    BY <1>4, <1>5, <2>3 DEF Shaped, Storing, Writing, Undoing, Committing
  <2>5. work' \in [Workers -> Works] /\ OthersStay(w) /\ work'[w] = r
    BY <2>1, <2>2, WorkIs
  <2>6. Shapes'
    BY <2>4, <2>5, ShapesKept
  <2>7. TrimsTo(w, cat, gone)
    BY <1>2, <1>4, <1>40, <1>7, <2>3, <2>5, <2>6 DEF TrimsTo
  <2> QED BY <1>3, <2>7
<1> QED BY <1>6, <1>7

LEMMA PublishTypes ==
    ASSUME BackTypes, Shapes, NEW w \in Workers, Publish(w)
    PROVE  BackTypes' /\ Shapes'
<1>1. PICK cat \in CatalogReads, at \in Stamps(work[w].id) :
        \E gone \in SUBSET BackupIds, fails \in BOOLEAN : PublishesTo(w, cat, at, gone, fails)
  BY PublishIs
<1>2. PICK gone \in SUBSET BackupIds, fails \in BOOLEAN : PublishesTo(w, cat, at, gone, fails)
  BY <1>1
<1>3. work[w] \in Works /\ work[w].at = "publish" /\ Shaped(work[w])
  BY DEF BackTypes, Shapes, Publish
<1>4. work[w].seen \in Documents /\ work[w].id \in BackupIds
  BY <1>3 DEF Shaped, Storing
<1>5. at \in 0 .. MaxBackups
  <2>1. work[w].id \in 0 .. MaxBackups /\ MaxBackups \in Nat
    BY <1>3, BackupsAssumption DEF Works
  <2> QED BY <2>1 DEF Stamps
<1>6. [doc |-> work[w].seen, at |-> at, safety |-> work[w].job = "restore"] \in Directories
  BY <1>4, <1>5 DEF Directories
<1>7. dirs' \in [BackupIds -> Directories \cup {NoDir}]
  <2>1. \A i \in BackupIds : dirs[i] \in Directories \cup {NoDir}
    BY DEF BackTypes
  <2> QED BY <1>2, <1>6, <2>1 DEF PublishesTo
<1>8. catalog' \subseteq BackupIds /\ retired' \subseteq BackupIds
  <2>1. cat \subseteq BackupIds
    BY RetiredIs DEF Readable, BackTypes
  <2> QED BY <1>2, <2>1 DEF PublishesTo, BackTypes
<1>9. lock' \subseteq Processes /\ active' \in [Processes -> SUBSET BackupIds]
  <2>1. active \in [Processes -> SUBSET BackupIds] /\ lock \subseteq Processes
    BY DEF BackTypes
  <2>2. [active EXCEPT ![Home[w]] = @ \ {work[w].from}] \in [Processes -> SUBSET BackupIds]
    BY <2>1 DEF Processes
  <2> QED BY <1>2, <2>1, <2>2 DEF PublishesTo
<1>10. work' \in [Workers -> Works] /\ Shapes' /\ UNCHANGED <<doc, botDoc, fileLock, previews, reported>>
  BY <1>2 DEF PublishesTo
<1> QED BY <1>7, <1>8, <1>9, <1>10 DEF BackTypes

LEMMA TrimTypes ==
    ASSUME BackTypes, Shapes, NEW w \in Workers, Trim(w)
    PROVE  BackTypes' /\ Shapes'
<1>1. PICK cat \in CatalogReads : \E gone \in SUBSET BackupIds : TrimsTo(w, cat, gone)
  BY TrimIs
<1>2. PICK gone \in SUBSET BackupIds : TrimsTo(w, cat, gone)
  BY <1>1
<1>3. work[w].at = "trim" /\ work[w].id \in BackupIds
  BY DEF Trim, Shapes, Shaped, Storing
<1>4. dirs' \in [BackupIds -> Directories \cup {NoDir}]
  <2>1. \A i \in BackupIds : dirs[i] \in Directories \cup {NoDir}
    BY DEF BackTypes
  <2> QED BY <1>2, <2>1 DEF TrimsTo
<1>5. lock' \subseteq Processes /\ reported' \subseteq BackupIds
  <2>1. CASE gone = {}
    <3>1. Announced(w, {})
      BY <1>2, <2>1 DEF TrimsTo
    <3> QED BY <1>3, <3>1, AnnouncedIs DEF BackTypes
  <2>2. CASE gone # {}
    BY <1>2, <2>2 DEF TrimsTo, BackTypes
  <2> QED BY <2>1, <2>2
<1>6. /\ retired' \subseteq BackupIds /\ work' \in [Workers -> Works] /\ Shapes'
      /\ UNCHANGED <<doc, botDoc, catalog, active, fileLock, previews>>
  BY <1>2 DEF TrimsTo, BackTypes
<1> QED BY <1>4, <1>5, <1>6 DEF BackTypes

LEMMA ReadCatalogIs ==
    ASSUME BackTypes, Shapes, NEW w \in Workers, ReadCatalog(w)
    PROVE  \E cat \in CatalogReads :
             /\ cat \subseteq BackupIds /\ work' \in [Workers -> Works] /\ OthersStay(w) /\ Shapes'
             /\ work'[w].at = "listed" /\ work'[w].job = work[w].job /\ work'[w].id = work[w].id
             /\ work'[w].from = work[w].from /\ work'[w].seen = work[w].seen
             /\ work'[w].wanted = work[w].wanted /\ work'[w].cat = cat
<1>1. PICK cat \in CatalogReads : work' = [work EXCEPT ![w].at = "listed", ![w].cat = cat]
  BY DEF ReadCatalog
<1> DEFINE r == [work[w] EXCEPT !.at = "listed", !.cat = cat]
<1>2. work[w] \in Works /\ work[w].at = "list" /\ Shaped(work[w])
  BY DEF BackTypes, Shapes, ReadCatalog
<1>3. cat \subseteq BackupIds
  BY RetiredIs DEF Readable, BackTypes
<1>4. work' = [work EXCEPT ![w] = r]
  <2>1. work \in [Workers -> Works]
    BY DEF BackTypes
  <2> QED BY <1>1, <1>2, <2>1 DEF Works
<1>5. r \in Works
  BY <1>2, <1>3 DEF Works, Storing
<1>6. /\ r.at = "listed" /\ r.job = work[w].job /\ r.id = work[w].id /\ r.from = work[w].from
      /\ r.seen = work[w].seen /\ r.wanted = work[w].wanted /\ r.cat = cat
  BY <1>2 DEF Works
<1> HIDE DEF r
<1>7. Shaped(r)
  BY <1>2, <1>6 DEF Shaped, Storing, Writing, Undoing, Committing
<1>8. work' \in [Workers -> Works] /\ OthersStay(w) /\ work'[w] = r
  BY <1>4, <1>5, WorkIs
<1>9. Shapes'
  BY <1>7, <1>8, ShapesKept
<1> QED BY <1>3, <1>6, <1>8, <1>9

LEMMA SaveCatalogIs ==
    ASSUME BackTypes, Shapes, NEW w \in Workers, SaveCatalog(w)
    PROVE  /\ work' \in [Workers -> Works] /\ OthersStay(w) /\ Shapes'
           /\ work'[w] = [work[w] EXCEPT !.at = "trim"]
           /\ catalog' \subseteq BackupIds /\ work[w].id \in BackupIds
<1>1. work[w] \in Works /\ work[w].at = "listed" /\ Shaped(work[w])
  BY DEF BackTypes, Shapes, SaveCatalog
<1>2. work[w].cat \subseteq BackupIds
  BY <1>1 DEF Works
<1>3. work[w].id \in BackupIds /\ work[w].job \in {"create", "restore"}
  BY <1>1 DEF Shaped, Storing
<1>4. Go(w, "trim") /\ catalog' = work[w].cat \cup {work[w].id}
  BY DEF SaveCatalog
<1>5. /\ work' \in [Workers -> Works] /\ OthersStay(w) /\ Shapes'
      /\ work'[w] = [work[w] EXCEPT !.at = "trim"]
  BY <1>1, <1>3, <1>4, GoIs DEF Storing, Writing, Undoing, Committing
<1> QED BY <1>2, <1>3, <1>4, <1>5

LEMMA CatalogTypes ==
    ASSUME BackTypes, Shapes, NEW w \in Workers, ReadCatalog(w) \/ SaveCatalog(w) \/ SaveTrimmed(w)
    PROVE  BackTypes' /\ Shapes'
<1>1. CASE ReadCatalog(w)
  <2>1. work' \in [Workers -> Works] /\ Shapes'
    BY <1>1, ReadCatalogIs
  <2> QED BY <1>1, <2>1 DEF ReadCatalog, BackTypes
<1>2. CASE SaveCatalog(w)
  <2>1. work' \in [Workers -> Works] /\ Shapes' /\ catalog' \subseteq BackupIds
    BY <1>2, SaveCatalogIs
  <2> QED BY <1>2, <2>1 DEF SaveCatalog, BackTypes
<1>3. CASE SaveTrimmed(w)
  <2>1. work[w] \in Works /\ work[w].at = "trimmed" /\ Announced(w, {}) /\ catalog' = work[w].cat
        /\ work[w].id \in BackupIds
    BY <1>3 DEF SaveTrimmed, BackTypes, Shapes, Shaped, Storing
  <2>2. catalog' \subseteq BackupIds
    BY <2>1 DEF Works
  <2>3. work' \in [Workers -> Works] /\ Shapes' /\ lock' \subseteq Processes /\ reported' \subseteq BackupIds
    BY <2>1, AnnouncedIs DEF BackTypes
  <2> QED BY <1>3, <2>2, <2>3 DEF SaveTrimmed, BackTypes
<1> QED BY <1>1, <1>2, <1>3

---------------------------------------------------------------------------
(* A restore that has its safety snapshot writes, undoes, or ends.          *)

LEMMA ByFrom ==
    ASSUME NEW w \in Workers, OthersStay(w), botDoc' = botDoc,
           \A j \in BackupIds : dirs'[j] # NoDir => By(dirs'[j].doc.by),
           NEW i, By(i)'
    PROVE  \/ By(i) \/ doc'.by = i
           \/ work'[w].seen \in Documents /\ work'[w].seen.by = i
           \/ work'[w].wanted \in Documents /\ work'[w].wanted.by = i
BY DEF By, OthersStay, SameJob

Ended(w, how) ==
    /\ work'[w].at = "idle" /\ work'[w].ended = how
    /\ work'[w].seen = NoDoc /\ work'[w].wanted = NoDoc

Later(w) ==
    /\ Restoring(w) /\ OthersStay(w) /\ work[w].at \in Writing \cup Undoing
    /\ UNCHANGED <<dirs, catalog, retired, reported>>
    /\ \/ Released(w) /\ work'[w].at = "idle"
       \/ /\ UNCHANGED <<lock, active>> /\ work'[w].at \in Writing \cup Undoing
          /\ work'[w].job = work[w].job /\ work'[w].id = work[w].id /\ work'[w].from = work[w].from
          /\ work'[w].at \in Writing => work[w].at \in Writing
          /\ work'[w].at \in {"undo", "undoing"} => work'[w].wanted.by # work[w].id
    /\ \A i \in BackupIds : By(i)' => By(i) \/ (i = work[w].id /\ work'[w].at \notin Writing)

LEMMA ReleasedTypes ==
    ASSUME BackTypes, NEW w \in Workers, Released(w)
    PROVE  lock' \subseteq Processes /\ active' \in [Processes -> SUBSET BackupIds]
<1>1. lock \subseteq Processes /\ active \in [Processes -> SUBSET BackupIds]
  BY DEF BackTypes
<1> QED BY <1>1 DEF Released, Processes

(* The job of a worker ends and no document changes, or its step moves on.  *)
LEMMA SameBys ==
    ASSUME NEW w \in Workers, OthersStay(w), doc' = doc, botDoc' = botDoc, dirs' = dirs,
           \/ work'[w].seen = NoDoc /\ work'[w].wanted = NoDoc
           \/ work'[w].seen = work[w].seen /\ work'[w].wanted = work[w].wanted,
           NEW i \in BackupIds, By(i)'
    PROVE  By(i)
BY NothingIsNone DEF By, OthersStay, SameJob

NextStep(step) ==
    CASE step = "apply" -> "applying" [] step = "undo" -> "undoing" [] step = "commit" -> "committing"
GivesUp(step) ==
    CASE step = "apply" -> "rolled back" [] step = "undo" -> "manual" [] step = "commit" -> "stale"

LEMMA LoadIs ==
    ASSUME BackTypes, Shapes, NEW w \in Workers, LoadToWrite(w)
    PROVE  /\ work[w].at \in {"apply", "undo", "commit"} /\ work' \in [Workers -> Works]
           /\ OthersStay(w) /\ Shapes' /\ fileLock' \subseteq Processes
           /\ UNCHANGED <<doc, botDoc, dirs, catalog, previews, reported, retired>>
           /\ \/ work'[w] = [work[w] EXCEPT !.at = NextStep(work[w].at)] /\ UNCHANGED <<lock, active>>
              \/ /\ Ended(w, GivesUp(work[w].at))
                 /\ IF work[w].job = "restore" THEN Released(w) ELSE UNCHANGED <<lock, active>>
<1>1. /\ work[w].at \in {"apply", "undo", "commit"} /\ work[w] \in Works /\ Shaped(work[w])
      /\ work \in [Workers -> Works]
      /\ UNCHANGED <<doc, botDoc, dirs, catalog, previews, reported, retired>>
  BY DEF LoadToWrite, BackTypes, Shapes
<1> DEFINE good == Revision(doc) = Revision(work[w].seen) /\ (work[w].at = "apply" => dirs[work[w].from] # NoDir)
<1>2. CASE good
  <2>1. /\ fileLock' = fileLock \cup {Home[w]}
        /\ work' = [work EXCEPT ![w].at = CASE @ = "apply" -> "applying"
                                            [] @ = "undo" -> "undoing"
                                            [] @ = "commit" -> "committing"]
        /\ UNCHANGED <<lock, active>>
    BY <1>2 DEF LoadToWrite
  <2>2. Go(w, NextStep(work[w].at))
    BY <1>1, <2>1 DEF Go, NextStep
  <2>3. \/ work[w].at = "apply" /\ NextStep(work[w].at) = "applying"
        \/ work[w].at = "undo" /\ NextStep(work[w].at) = "undoing"
        \/ work[w].at = "commit" /\ NextStep(work[w].at) = "committing"
    BY <1>1 DEF NextStep
  <2>4. /\ work[w].at \in Writing \cup Undoing => work[w].job = "restore"
        /\ Home[w] \in Processes /\ fileLock \subseteq Processes
    BY <1>1 DEF Shaped, Processes, BackTypes
  <2>5. /\ work' \in [Workers -> Works] /\ OthersStay(w) /\ Shapes'
        /\ work'[w] = [work[w] EXCEPT !.at = NextStep(work[w].at)]
    BY <2>2, <2>3, <2>4, GoIs DEF Storing, Writing, Undoing, Committing
  <2> QED BY <1>1, <2>1, <2>4, <2>5
<1>3. CASE ~good
  <2>1. /\ EndsWork(w, CASE work[w].at = "apply" -> "rolled back"
                         [] work[w].at = "undo" -> "manual"
                         [] work[w].at = "commit" -> "stale")
        /\ IF work[w].job = "restore" THEN Released(w) ELSE UNCHANGED <<lock, active>>
        /\ UNCHANGED fileLock
    BY <1>3 DEF LoadToWrite
  <2>2. EndsWork(w, GivesUp(work[w].at)) /\ GivesUp(work[w].at) \in {"rolled back", "manual", "stale"}
    BY <1>1, <2>1 DEF GivesUp
  <2>3. work' \in [Workers -> Works] /\ OthersStay(w) /\ Shapes' /\ Ended(w, GivesUp(work[w].at))
    BY <2>2, EndsIs DEF Ended
  <2> QED BY <1>1, <2>1, <2>3 DEF BackTypes
<1> QED BY <1>2, <1>3

LEMMA LoadTypes ==
    ASSUME BackTypes, Shapes, NEW w \in Workers, LoadToWrite(w)
    PROVE  BackTypes' /\ Shapes'
<1>1. lock' \subseteq Processes /\ active' \in [Processes -> SUBSET BackupIds]
  <2>1. Released(w) \/ UNCHANGED <<lock, active>>
    BY LoadIs
  <2> QED BY <2>1, ReleasedTypes DEF BackTypes
<1> QED BY <1>1, LoadIs DEF BackTypes

LEMMA LoadLater ==
    ASSUME BackTypes, Shapes, Traced, NEW w \in Workers, LoadToWrite(w), work[w].job = "restore"
    PROVE  Later(w)
<1>1. /\ work[w].at \in {"apply", "undo", "commit"}
      /\ OthersStay(w)
      /\ UNCHANGED <<doc, botDoc, dirs, catalog, previews, reported, retired>>
      /\ \/ work'[w] = [work[w] EXCEPT !.at = NextStep(work[w].at)] /\ UNCHANGED <<lock, active>>
         \/ Ended(w, GivesUp(work[w].at)) /\ Released(w)
  BY LoadIs
<1>2. work[w] \in Works /\ work[w].at \in {"apply", "undo"} /\ Restoring(w)
  BY <1>1 DEF BackTypes, Shapes, Shaped, Committing, Restoring
<1>3. work[w].at = "undo" => work[w].wanted.by # work[w].id
  <2>1. work[w].id \in BackupIds /\ Making(w)
    BY <1>2 DEF Restoring, Making, Shapes, Shaped
  <2> QED BY <2>1 DEF Traced, Traces
<1>4. CASE work'[w] = [work[w] EXCEPT !.at = NextStep(work[w].at)] /\ UNCHANGED <<lock, active>>
  <2>1. /\ work'[w].at = NextStep(work[w].at)
        /\ work'[w].job = work[w].job /\ work'[w].id = work[w].id /\ work'[w].from = work[w].from
        /\ work'[w].seen = work[w].seen /\ work'[w].wanted = work[w].wanted
    BY <1>2, <1>4 DEF Works
  <2>2. ASSUME NEW i \in BackupIds, By(i)' PROVE By(i)
    <3>1. OthersStay(w) /\ UNCHANGED <<doc, botDoc, dirs>>
      BY <1>1
    <3>2. work'[w].seen = work[w].seen /\ work'[w].wanted = work[w].wanted
      BY <2>1
    <3> QED BY <2>2, <3>1, <3>2, SameBys
  <2>3. \/ work[w].at = "apply" /\ NextStep(work[w].at) = "applying"
        \/ work[w].at = "undo" /\ NextStep(work[w].at) = "undoing"
    BY <1>2 DEF NextStep
  <2> QED BY <1>1, <1>2, <1>3, <1>4, <2>1, <2>2, <2>3 DEF Later, Writing, Undoing
<1>5. CASE Ended(w, GivesUp(work[w].at)) /\ Released(w)
  <2>1. ASSUME NEW i \in BackupIds, By(i)' PROVE By(i)
    BY <2>1, <1>1, <1>5, SameBys DEF Ended
  <2> QED BY <1>1, <1>2, <1>5, <2>1 DEF Later, Ended, Writing, Undoing
<1> QED BY <1>1, <1>4, <1>5

LEMMA AppliesLater ==
    ASSUME BackTypes, Shapes, Traced, NEW w \in Workers, Applies(w)
    PROVE  /\ BackTypes' /\ Shapes' /\ Later(w)
           /\ work'[w].at = "idle" => work'[w].ended = "succeeded"
<1>1. /\ work[w].at = "applying" /\ work[w] \in Works /\ Shaped(work[w])
      /\ UNCHANGED <<botDoc, dirs, catalog, previews, reported, retired>>
      /\ doc' = [work[w].seen EXCEPT !.ch = work[w].wanted.ch, !.by = work[w].id]
      /\ fileLock' = fileLock \ {Home[w]}
      /\ \/ EndsWork(w, "succeeded") /\ Released(w)
         \/ Go(w, "unverified") /\ UNCHANGED <<lock, active>>
  BY DEF Applies, BackTypes, Shapes
<1>2. /\ work[w].job = "restore" /\ work[w].seen \in Documents /\ work[w].wanted \in Documents
      /\ work[w].id \in BackupIds /\ Restoring(w) /\ work[w].id \in 0 .. MaxBackups
  BY <1>1 DEF Shaped, Writing, Restoring, Works
<1>3. doc' \in Documents /\ doc'.by = work[w].id
  BY <1>1, <1>2 DEF Documents
<1>4. \A j \in BackupIds : dirs'[j] # NoDir => By(dirs'[j].doc.by)
  BY <1>1 DEF By
<1>5. CASE EndsWork(w, "succeeded") /\ Released(w)
  <2>1. work' \in [Workers -> Works] /\ OthersStay(w) /\ Shapes' /\ Ended(w, "succeeded")
    BY <1>5, EndsIs DEF Ended
  <2>2. BackTypes'
    BY <1>1, <1>3, <1>5, <2>1, ReleasedTypes DEF BackTypes
  <2>3. ASSUME NEW i \in BackupIds, By(i)' PROVE By(i) \/ i = work[w].id
    BY <1>1, <1>3, <1>4, <2>1, <2>3, ByFrom, NothingIsNone DEF Ended
  <2>4. Later(w)
    BY <1>1, <1>2, <1>5, <2>1, <2>3 DEF Later, Ended, Writing, Undoing
  <2> QED BY <2>1, <2>2, <2>4 DEF Ended
<1>6. CASE Go(w, "unverified") /\ UNCHANGED <<lock, active>>
  <2>1. /\ work' \in [Workers -> Works] /\ OthersStay(w) /\ Shapes'
        /\ work'[w] = [work[w] EXCEPT !.at = "unverified"]
    BY <1>1, <1>2, <1>6, GoIs DEF Storing, Writing, Undoing, Committing
  <2>2. /\ work'[w].at = "unverified"
        /\ work'[w].job = work[w].job /\ work'[w].id = work[w].id /\ work'[w].from = work[w].from
        /\ work'[w].seen = work[w].seen /\ work'[w].wanted = work[w].wanted
    BY <1>1, <2>1 DEF Works
  <2>3. BackTypes'
    BY <1>1, <1>3, <1>6, <2>1 DEF BackTypes
  <2>4. ASSUME NEW i \in BackupIds, By(i)' PROVE By(i) \/ i = work[w].id
    <3>1. \/ By(i) \/ doc'.by = i
          \/ work'[w].seen \in Documents /\ work'[w].seen.by = i
          \/ work'[w].wanted \in Documents /\ work'[w].wanted.by = i
      BY <1>1, <1>4, <2>1, <2>4, ByFrom
    <3> QED BY <1>3, <2>2, <3>1 DEF By
  <2>5. Later(w)
    BY <1>1, <1>2, <1>6, <2>1, <2>2, <2>4 DEF Later, Writing, Undoing
  <2> QED BY <2>1, <2>2, <2>3, <2>5
<1> QED BY <1>1, <1>5, <1>6

LEMMA UndoReadsLater ==
    ASSUME BackTypes, Shapes, Traced, NEW w \in Workers, UndoReads(w)
    PROVE  /\ BackTypes' /\ Shapes' /\ Later(w)
           /\ work'[w].at = "idle" => work'[w].ended = "manual" /\ dirs[work[w].id] = NoDir
<1>1. /\ work[w].at = "unverified" /\ work[w] \in Works /\ Shaped(work[w])
      /\ UNCHANGED <<doc, botDoc, dirs, catalog, fileLock, previews, reported, retired>>
  BY DEF UndoReads, BackTypes, Shapes
<1>2. /\ work[w].job = "restore" /\ work[w].seen \in Documents
      /\ work[w].id \in BackupIds /\ Restoring(w)
  BY <1>1 DEF Shaped, Undoing, Restoring
<1>3. CASE dirs[work[w].id] = NoDir
  <2>1. EndsWork(w, "manual") /\ Released(w)
    BY <1>3 DEF UndoReads
  <2>2. work' \in [Workers -> Works] /\ OthersStay(w) /\ Shapes' /\ Ended(w, "manual")
    BY <2>1, EndsIs DEF Ended
  <2>3. BackTypes'
    BY <1>1, <2>1, <2>2, ReleasedTypes DEF BackTypes
  <2>4. ASSUME NEW i \in BackupIds, By(i)' PROVE By(i)
    BY <2>4, <1>1, <2>2, SameBys DEF Ended
  <2>5. Later(w)
    BY <1>1, <1>2, <2>1, <2>2, <2>4 DEF Later, Ended, Writing, Undoing
  <2> QED BY <1>3, <2>2, <2>3, <2>5 DEF Ended
<1>4. CASE dirs[work[w].id] # NoDir
  <2> DEFINE r == [work[w] EXCEPT !.at = "undo", !.seen = doc, !.wanted = dirs[work[w].id].doc]
  <2>1. work' = [work EXCEPT ![w] = r] /\ UNCHANGED <<lock, active>>
    <3>1. work' = [work EXCEPT ![w].at = "undo", ![w].seen = doc, ![w].wanted = dirs[work[w].id].doc]
      BY <1>4 DEF UndoReads
    <3>2. UNCHANGED <<lock, active>>
      BY <1>4 DEF UndoReads
    <3>3. work \in [Workers -> Works]
      BY DEF BackTypes
    <3> QED BY <1>1, <3>1, <3>2, <3>3 DEF Works
  <2>2. dirs[work[w].id] \in Directories /\ dirs[work[w].id].doc \in Documents /\ doc \in Documents
    <3>1. dirs[work[w].id] \in Directories /\ doc \in Documents
      BY <1>2, <1>4 DEF BackTypes
    <3> QED BY <3>1 DEF Directories
  <2>3. r \in Works
    BY <1>1, <2>2 DEF Works, Undoing
  <2>4. /\ r.at = "undo" /\ r.job = work[w].job /\ r.id = work[w].id /\ r.from = work[w].from
        /\ r.seen = doc /\ r.wanted = dirs[work[w].id].doc
    BY <1>1 DEF Works
  <2> HIDE DEF r
  <2>5. Shaped(r)
    BY <1>1, <1>2, <2>2, <2>4 DEF Shaped, Storing, Writing, Undoing, Committing
  <2>6. work' \in [Workers -> Works] /\ OthersStay(w) /\ work'[w] = r
    BY <2>1, <2>3, WorkIs
  <2>7. Shapes'
    BY <2>5, <2>6, ShapesKept
  <2>8. BackTypes'
    BY <1>1, <2>1, <2>6 DEF BackTypes
  <2>9. ASSUME NEW i \in BackupIds, By(i)' PROVE By(i)
    <3>1. \A j \in BackupIds : dirs'[j] # NoDir => By(dirs'[j].doc.by)
      BY <1>1 DEF By
    <3>2. \/ By(i) \/ doc'.by = i
          \/ work'[w].seen \in Documents /\ work'[w].seen.by = i
          \/ work'[w].wanted \in Documents /\ work'[w].wanted.by = i
      BY <1>1, <2>6, <2>9, <3>1, ByFrom
    <3> QED BY <1>1, <1>2, <1>4, <2>4, <2>6, <3>2 DEF By
  <2>10. work'[w].wanted.by # work[w].id
    BY <1>2, <1>4, <2>4, <2>6 DEF Traced
  <2>11. Later(w)
    BY <1>1, <1>2, <2>1, <2>4, <2>6, <2>9, <2>10 DEF Later, Writing, Undoing
  <2> QED BY <2>4, <2>6, <2>7, <2>8, <2>11
<1> QED BY <1>3, <1>4

LEMMA UndoesLater ==
    ASSUME BackTypes, Shapes, Traced, NEW w \in Workers, Undoes(w)
    PROVE  /\ BackTypes' /\ Shapes' /\ Later(w) /\ doc'.by # work[w].id
           /\ work'[w].at = "idle" /\ work'[w].ended = "rolled back"
<1>1. /\ work[w].at = "undoing" /\ work[w] \in Works /\ Shaped(work[w])
      /\ UNCHANGED <<botDoc, dirs, catalog, previews, reported, retired>>
      /\ doc' = [work[w].seen EXCEPT !.ch = work[w].wanted.ch, !.by = work[w].wanted.by]
      /\ fileLock' = fileLock \ {Home[w]}
      /\ EndsWork(w, "rolled back") /\ Released(w)
  BY DEF Undoes, BackTypes, Shapes
<1>2. /\ work[w].job = "restore" /\ work[w].seen \in Documents /\ work[w].wanted \in Documents
      /\ work[w].id \in BackupIds /\ Restoring(w) /\ work[w].wanted.by # work[w].id
  BY <1>1 DEF Shaped, Undoing, Restoring, Traced, Traces, Making
<1>3. doc' \in Documents /\ doc'.by = work[w].wanted.by
  BY <1>1, <1>2 DEF Documents
<1>4. \A j \in BackupIds : dirs'[j] # NoDir => By(dirs'[j].doc.by)
  BY <1>1 DEF By
<1>5. work' \in [Workers -> Works] /\ OthersStay(w) /\ Shapes' /\ Ended(w, "rolled back")
  BY <1>1, EndsIs DEF Ended
<1>6. BackTypes'
  BY <1>1, <1>3, <1>5, ReleasedTypes DEF BackTypes
<1>7. ASSUME NEW i \in BackupIds, By(i)' PROVE By(i)
  <2>1. By(i) \/ doc'.by = i
    BY <1>1, <1>4, <1>5, <1>7, ByFrom, NothingIsNone DEF Ended
  <2> QED BY <1>2, <1>3, <2>1 DEF By
<1>8. Later(w)
  BY <1>1, <1>2, <1>5, <1>7 DEF Later, Ended, Writing, Undoing
<1> QED BY <1>2, <1>3, <1>5, <1>6, <1>8 DEF Ended

FailsAs(step) ==
    CASE step = "applying" -> "rolled back" [] step = "undoing" -> "manual" [] step = "committing" -> "failed"

LEMMA FailsIs ==
    ASSUME BackTypes, Shapes, NEW w \in Workers, WriteFails(w)
    PROVE  /\ work[w].at \in {"applying", "undoing", "committing"}
           /\ BackTypes' /\ Shapes' /\ OthersStay(w) /\ Ended(w, FailsAs(work[w].at))
           /\ UNCHANGED <<doc, botDoc, dirs, catalog, previews, reported, retired>>
           /\ IF work[w].job = "restore" THEN Released(w) ELSE UNCHANGED <<lock, active>>
<1>1. /\ work[w].at \in {"applying", "undoing", "committing"}
      /\ UNCHANGED <<doc, botDoc, dirs, catalog, previews, reported, retired>>
      /\ fileLock' = fileLock \ {Home[w]}
      /\ EndsWork(w, CASE work[w].at = "applying" -> "rolled back"
                       [] work[w].at = "undoing" -> "manual"
                       [] work[w].at = "committing" -> "failed")
      /\ IF work[w].job = "restore" THEN Released(w) ELSE UNCHANGED <<lock, active>>
  BY DEF WriteFails
<1>2. EndsWork(w, FailsAs(work[w].at)) /\ FailsAs(work[w].at) \in {"rolled back", "manual", "failed"}
  BY <1>1 DEF FailsAs
<1>3. work' \in [Workers -> Works] /\ OthersStay(w) /\ Shapes' /\ Ended(w, FailsAs(work[w].at))
  BY <1>2, EndsIs DEF Ended
<1>4. lock' \subseteq Processes /\ active' \in [Processes -> SUBSET BackupIds]
  <2>1. Released(w) \/ UNCHANGED <<lock, active>>
    BY <1>1
  <2> QED BY <2>1, ReleasedTypes DEF BackTypes
<1>5. BackTypes'
  BY <1>1, <1>3, <1>4 DEF BackTypes
<1> QED BY <1>1, <1>3, <1>5

LEMMA FailsLater ==
    ASSUME BackTypes, Shapes, NEW w \in Workers, WriteFails(w), work[w].job = "restore"
    PROVE  Later(w)
<1>1. /\ work[w].at \in {"applying", "undoing", "committing"} /\ OthersStay(w)
      /\ Ended(w, FailsAs(work[w].at)) /\ Released(w)
      /\ UNCHANGED <<doc, botDoc, dirs, catalog, previews, reported, retired>>
  BY FailsIs
<1>2. work[w].at \in {"applying", "undoing"} /\ Restoring(w)
  BY <1>1 DEF Shapes, Shaped, Committing, Restoring
<1>3. ASSUME NEW i \in BackupIds, By(i)' PROVE By(i)
  BY <1>3, <1>1, SameBys DEF Ended
<1> QED BY <1>1, <1>2, <1>3 DEF Later, Ended, Writing, Undoing

---------------------------------------------------------------------------
(* What else may happen: no backup is made by it.                           *)

Aside ==
    /\ UNCHANGED <<dirs, catalog, lock, active, retired, reported>>
    /\ \A v \in Workers : Making(v)' => Making(v)
    /\ \A v \in Workers : Making(v) => Making(v)' /\ SameJob(v)
    /\ \A i \in BackupIds : By(i)' => By(i)

(* A worker that makes no backup before or after.                           *)
LEMMA AsideOf ==
    ASSUME NEW w \in Workers, OthersStay(w), ~Making(w), ~Making(w)',
           UNCHANGED <<dirs, catalog, lock, active, retired, reported>>,
           \A i \in BackupIds : By(i)' => By(i)
    PROVE  Aside
BY DEF Aside, OthersStay, SameJob, Making

LEMMA PreviewAside ==
    ASSUME BackTypes, Shapes, NEW w \in Workers, NEW i \in BackupIds, PreviewRestore(w, i)
    PROVE  BackTypes' /\ Shapes' /\ Aside
<1>1. /\ previews' = [previews EXCEPT ![Home[w]] =
                        @ \cup {[id |-> i, rev |-> Revision(doc), same |-> TRUE]}]
      /\ UNCHANGED <<doc, botDoc, dirs, catalog, lock, active, fileLock, work, reported, retired>>
  BY DEF PreviewRestore
<1>2. [id |-> i, rev |-> Revision(doc), same |-> TRUE] \in Previews
  <2>1. doc.ch \in Channels /\ doc.users \in 0 .. MaxUsers
    BY DEF BackTypes, Documents
  <2> QED BY <2>1 DEF Previews, Revision
<1>3. previews' \in [Processes -> SUBSET Previews]
  BY <1>1, <1>2 DEF BackTypes, Processes
<1>4. Aside
  BY <1>1 DEF Aside, SameJob, Making, By
<1> QED BY <1>1, <1>3, <1>4 DEF BackTypes, Shapes

LEMMA RestoreAside ==
    ASSUME BackTypes, Shapes, NEW w \in Workers, NEW p \in previews[Home[w]], RestoreBackup(w, p),
           ~(Listed(p.id) /\ p.same /\ p.rev = Revision(doc))
    PROVE  Aside
<1>1. UNCHANGED <<doc, botDoc, dirs, catalog, lock, active, work, reported, retired>>
  BY DEF RestoreBackup
<1> QED BY <1>1 DEF Aside, SameJob, Making, By

LEMMA ViewsAside ==
    ASSUME BackTypes, Shapes, Traced, NEW w \in Workers, NEW c \in Channels, ViewsConfig(w, c)
    PROVE  BackTypes' /\ Shapes' /\ Aside
<1> DEFINE r == [NoWork EXCEPT !.at = "commit", !.job = "commit", !.seen = doc,
                               !.wanted = [doc EXCEPT !.ch = c, !.by = 0]]
<1>1. /\ work[w].at = "idle" /\ work' = [work EXCEPT ![w] = r]
      /\ UNCHANGED <<doc, botDoc, dirs, catalog, lock, active, fileLock, previews, reported, retired>>
  BY DEF ViewsConfig
<1>2. doc \in Documents /\ 0 \in 0 .. MaxBackups
  BY BackupsAssumption DEF BackTypes
<1>3. [doc EXCEPT !.ch = c, !.by = 0] \in Documents /\ [doc EXCEPT !.ch = c, !.by = 0].by = 0
  BY <1>2 DEF Documents
<1>4. r \in Works
  BY <1>2, <1>3, NoWorkIs DEF Works, Committing
<1>5. r.at = "commit" /\ r.job = "commit" /\ r.seen = doc /\ r.wanted = [doc EXCEPT !.ch = c, !.by = 0]
  BY DEF NoWork
<1> HIDE DEF r
<1>6. work' \in [Workers -> Works] /\ OthersStay(w) /\ work'[w] = r
  BY <1>1, <1>4, WorkIs
<1>7. Shapes'
  <2>1. Shaped(r)
    BY <1>2, <1>3, <1>5 DEF Shaped, Storing, Writing, Undoing, Committing
  <2> QED BY <1>6, <2>1, ShapesKept
<1>8. ASSUME NEW i \in BackupIds, By(i)' PROVE By(i)
  <2>1. \A j \in BackupIds : dirs'[j] # NoDir => By(dirs'[j].doc.by)
    BY <1>1 DEF By
  <2>2. \/ By(i) \/ doc'.by = i
        \/ work'[w].seen \in Documents /\ work'[w].seen.by = i
        \/ work'[w].wanted \in Documents /\ work'[w].wanted.by = i
    BY <1>1, <1>6, <1>8, <2>1, ByFrom
  <2>3. i # 0
    BY BackupsAssumption DEF BackupIds
  <2> QED BY <1>1, <1>3, <1>5, <1>6, <2>2, <2>3 DEF By
<1>9. ~Making(w) /\ ~Making(w)'
  BY <1>1, <1>5, <1>6 DEF Making
<1>10. Aside
  BY <1>1, <1>6, <1>8, <1>9, AsideOf
<1> QED BY <1>1, <1>6, <1>7, <1>10 DEF BackTypes

LEMMA CommitsAside ==
    ASSUME BackTypes, Shapes, NEW w \in Workers, Commits(w)
    PROVE  BackTypes' /\ Shapes' /\ Aside /\ work'[w].ended = "succeeded"
<1>1. /\ work[w].at = "committing" /\ Shaped(work[w]) /\ doc' = work[w].wanted
      /\ fileLock' = fileLock \ {Home[w]} /\ EndsWork(w, "succeeded")
      /\ UNCHANGED <<botDoc, dirs, catalog, lock, active, previews, reported, retired>>
  BY DEF Commits, Shapes
<1>2. doc' \in Documents /\ doc'.by = 0 /\ work[w].job = "commit"
  BY <1>1 DEF Shaped, Committing
<1>3. work' \in [Workers -> Works] /\ OthersStay(w) /\ Shapes' /\ Ended(w, "succeeded")
  BY <1>1, EndsIs DEF Ended
<1>4. ASSUME NEW i \in BackupIds, By(i)' PROVE By(i)
  <2>1. \A j \in BackupIds : dirs'[j] # NoDir => By(dirs'[j].doc.by)
    BY <1>1 DEF By
  <2>2. By(i) \/ doc'.by = i
    BY <1>1, <1>3, <1>4, <2>1, ByFrom, NothingIsNone DEF Ended
  <2>3. i # 0
    BY BackupsAssumption DEF BackupIds
  <2> QED BY <1>2, <2>2, <2>3
<1>5. ~Making(w) /\ ~Making(w)'
  BY <1>2, <1>3 DEF Making, Ended
<1>6. Aside
  BY <1>1, <1>3, <1>4, <1>5, AsideOf
<1> QED BY <1>1, <1>2, <1>3, <1>6 DEF BackTypes, Ended

LEMMA LoadAside ==
    ASSUME BackTypes, Shapes, NEW w \in Workers, LoadToWrite(w), work[w].job # "restore"
    PROVE  Aside
<1>1. /\ work[w].at \in {"apply", "undo", "commit"}
      /\ OthersStay(w)
      /\ UNCHANGED <<doc, botDoc, dirs, catalog, previews, reported, retired>>
      /\ UNCHANGED <<lock, active>>
      /\ \/ work'[w] = [work[w] EXCEPT !.at = NextStep(work[w].at)]
         \/ Ended(w, GivesUp(work[w].at))
  BY LoadIs
<1>2. work[w] \in Works /\ work[w].job = "commit"
  BY <1>1 DEF BackTypes, Shapes, Shaped, Committing, Writing, Undoing
<1>3. \/ work'[w].job = "commit" /\ work'[w].seen = work[w].seen /\ work'[w].wanted = work[w].wanted
      \/ work'[w].at = "idle" /\ work'[w].seen = NoDoc /\ work'[w].wanted = NoDoc
  BY <1>1, <1>2 DEF Works, Ended
<1>4. ASSUME NEW i \in BackupIds, By(i)' PROVE By(i)
  BY <1>1, <1>3, <1>4, SameBys
<1>5. ~Making(w) /\ ~Making(w)'
  BY <1>2, <1>3 DEF Making
<1> QED BY <1>1, <1>4, <1>5, AsideOf

LEMMA FailsAside ==
    ASSUME BackTypes, Shapes, NEW w \in Workers, WriteFails(w), work[w].job # "restore"
    PROVE  Aside
<1>1. /\ work[w].at \in {"applying", "undoing", "committing"} /\ OthersStay(w)
      /\ Ended(w, FailsAs(work[w].at)) /\ UNCHANGED <<lock, active>>
      /\ UNCHANGED <<doc, botDoc, dirs, catalog, previews, reported, retired>>
  BY FailsIs
<1>2. work[w].job = "commit"
  BY <1>1 DEF Shapes, Shaped, Committing, Writing, Undoing
<1>3. ASSUME NEW i \in BackupIds, By(i)' PROVE By(i)
  BY <1>1, <1>3, SameBys DEF Ended
<1>4. ~Making(w) /\ ~Making(w)'
  BY <1>1, <1>2 DEF Making, Ended
<1> QED BY <1>1, <1>3, <1>4, AsideOf

LEMMA BotAside ==
    ASSUME BackTypes, Shapes, BotLoads \/ BotSaves \/ BotRestarts
    PROVE  BackTypes' /\ Shapes' /\ Aside
<1>1. UNCHANGED <<dirs, catalog, lock, active, fileLock, work, reported, retired>>
  BY DEF BotLoads, BotSaves, BotRestarts
<1>2. /\ doc' \in Documents /\ botDoc' \in Documents \cup {NoDoc}
      /\ botDoc' \in Documents => botDoc'.users < MaxUsers
      /\ doc'.by = doc.by \/ (botDoc \in Documents /\ doc'.by = botDoc.by)
      /\ botDoc' \in Documents => botDoc'.by = doc.by
      /\ previews' \in [Processes -> SUBSET Previews]
  <2>0. doc \in Documents /\ previews \in [Processes -> SUBSET Previews]
    BY DEF BackTypes
  <2>1. CASE BotLoads
    BY <2>0, <2>1 DEF BotLoads
  <2>2. CASE BotSaves
    <3>1. botDoc \in Documents /\ botDoc.users < MaxUsers /\ MaxUsers \in Nat
      BY <2>2, BackupsAssumption DEF BotSaves, BackTypes
    <3>2. doc' = [botDoc EXCEPT !.users = botDoc.users + 1] /\ botDoc' = NoDoc /\ previews' = previews
      BY <2>2, <3>1 DEF BotSaves, Documents
    <3>3. botDoc.users + 1 \in 0 .. MaxUsers
      BY <3>1 DEF Documents
    <3>4. doc' \in Documents /\ doc'.by = botDoc.by
      BY <3>1, <3>2, <3>3 DEF Documents
    <3> QED BY <2>0, <3>1, <3>2, <3>4, NothingIsNone
  <2>3. CASE BotRestarts
    <3>1. /\ doc' = doc /\ botDoc' = NoDoc
          /\ previews' = [p \in Processes |-> {[v EXCEPT !.same = FALSE] : v \in previews[p]}]
      BY <2>3 DEF BotRestarts
    <3>2. \A v \in Previews : [v EXCEPT !.same = FALSE] \in Previews
      BY DEF Previews
    <3>3. \A p \in Processes : {[v EXCEPT !.same = FALSE] : v \in previews[p]} \subseteq Previews
      BY <2>0, <3>2
    <3>4. previews' \in [Processes -> SUBSET Previews]
      BY <3>1, <3>3
    <3> QED BY <2>0, <3>1, <3>4, NothingIsNone
  <2> QED BY <2>1, <2>2, <2>3
<1>3. ASSUME NEW i \in BackupIds, By(i)' PROVE By(i)
  BY <1>1, <1>2, <1>3 DEF By
<1>4. Aside
  BY <1>1, <1>3 DEF Aside, SameJob, Making
<1> QED BY <1>1, <1>2, <1>4 DEF BackTypes, Shapes

LEMMA StutterAside ==
    ASSUME BackTypes, Shapes, UNCHANGED backupVars
    PROVE  BackTypes' /\ Shapes' /\ Aside
<1>1. UNCHANGED <<doc, botDoc, dirs, catalog, lock, active, fileLock, previews, work, reported, retired>>
  BY DEF backupVars
<1> QED BY <1>1 DEF BackTypes, Shapes, Aside, SameJob, Making, By

(* A process is gone with its workers; the others are untouched.            *)
LEMMA CrashIs ==
    ASSUME BackTypes, Shapes, NEW p \in Processes, Crashes(p)
    PROVE  /\ BackTypes' /\ Shapes'
           /\ \A w \in Workers : IF Home[w] = p THEN work'[w] = NoWork ELSE work'[w] = work[w]
           /\ lock' = lock \ {p} /\ active' = [active EXCEPT ![p] = {}]
           /\ UNCHANGED <<doc, botDoc, dirs, catalog, reported, retired>>
<1>1. /\ \A w \in Workers : IF Home[w] = p THEN work'[w] = NoWork ELSE work'[w] = work[w]
      /\ work' = [w \in Workers |-> IF Home[w] = p THEN NoWork ELSE work[w]]
      /\ lock' = lock \ {p} /\ fileLock' = fileLock \ {p} /\ active' = [active EXCEPT ![p] = {}]
      /\ previews' = [previews EXCEPT ![p] = {}]
      /\ UNCHANGED <<doc, botDoc, dirs, catalog, reported, retired>>
  BY DEF Crashes
<1>2. work' \in [Workers -> Works]
  BY <1>1, NoWorkIs DEF BackTypes
<1>3. Shapes'
  BY <1>1, NoWorkIs DEF Shapes
<1>4. active' \in [Processes -> SUBSET BackupIds] /\ previews' \in [Processes -> SUBSET Previews]
  BY <1>1 DEF BackTypes
<1> QED BY <1>1, <1>2, <1>3, <1>4 DEF BackTypes

---------------------------------------------------------------------------
(* One backup or restore at a time.                                         *)

LEMMA OnceContinues ==
    ASSUME OneAtATime, NEW w \in Workers, OthersStay(w), lock' = lock, active' = active,
           Making(w), work'[w].at # "idle", work'[w].job = work[w].job, work'[w].from = work[w].from
    PROVE  OneAtATime'
BY DEF OneAtATime, Making, Restoring, OthersStay, SameJob

LEMMA OnceEnds ==
    ASSUME BackTypes, Shapes, OneAtATime, NEW w \in Workers, OthersStay(w), Making(w),
           work'[w].at = "idle", lock' = lock \ {Home[w]},
           \/ active' = [active EXCEPT ![Home[w]] = @ \ {work[w].from}]
           \/ work[w].job = "create" /\ active' = active
    PROVE  OneAtATime'
<1>0. Home[w] \in Processes /\ active \in [Processes -> SUBSET BackupIds]
  BY DEF Processes, BackTypes
<1>1. \A v \in Workers : Making(v)' => v # w /\ Making(v) /\ SameJob(v) /\ Home[v] # Home[w]
  BY DEF OneAtATime, Making, OthersStay, SameJob
<1>2. \A v \in Workers : Restoring(v)' => Restoring(v) /\ Making(v)' /\ SameJob(v)
  <2> SUFFICES ASSUME NEW v \in Workers, Restoring(v)'
               PROVE  Restoring(v) /\ Making(v)' /\ SameJob(v)
    OBVIOUS
  <2>1. Making(v)'
    BY DEF Restoring, Making
  <2>2. SameJob(v)
    BY <1>1, <2>1
  <2> QED BY <2>1, <2>2 DEF Restoring, SameJob
<1>3. \A p \in Processes : p # Home[w] => active'[p] = active[p]
  BY <1>0
<1>4. active'[Home[w]] \subseteq active[Home[w]] \ {work[w].from} \/ (work[w].job = "create" /\ active' = active)
  BY <1>0
<1>5. \A v \in Workers : Making(v)' => Home[v] \in lock'
  BY <1>1 DEF OneAtATime
<1>6. \A u, v \in Workers : Making(u)' /\ Making(v)' /\ Home[u] = Home[v] => u = v
  BY <1>1 DEF OneAtATime
<1>7. \A v \in Workers : Restoring(v)' => work'[v].from \in active'[Home[v]]
  <2> SUFFICES ASSUME NEW v \in Workers, Restoring(v)' PROVE work'[v].from \in active'[Home[v]]
    OBVIOUS
  <2>1. Home[v] # Home[w] /\ Home[v] \in Processes /\ Restoring(v) /\ work'[v].from = work[v].from
    BY <1>1, <1>2 DEF Processes, SameJob
  <2> QED BY <1>3, <2>1 DEF OneAtATime
<1>8. ASSUME NEW p \in Processes, NEW i \in active'[p]
      PROVE  \E v \in Workers : Restoring(v)' /\ Home[v] = p /\ work'[v].from = i
  <2>1. i \in active[p] /\ ~(p = Home[w] /\ i = work[w].from /\ work[w].job # "create")
    BY <1>3, <1>4, <1>8
  <2>2. PICK v \in Workers : Restoring(v) /\ Home[v] = p /\ work[v].from = i
    BY <2>1 DEF OneAtATime
  <2>3. v # w
    <3>1. v = w => work[w].job = "restore" /\ p = Home[w] /\ i = work[w].from
      BY <2>2 DEF Restoring
    <3> QED BY <2>1, <3>1
  <2>4. Restoring(v)' /\ work'[v].from = i
    BY <2>2, <2>3 DEF OthersStay, SameJob, Restoring
  <2> QED BY <2>2, <2>4
<1> QED BY <1>5, <1>6, <1>7, <1>8 DEF OneAtATime

LEMMA OnceBegins ==
    ASSUME BackTypes, Shapes, OneAtATime, NEW w \in Workers, OthersStay(w), work[w].at = "idle",
           Home[w] \notin lock, lock' = lock \cup {Home[w]}, work'[w].at = "publish",
           \/ work'[w].job = "create" /\ active' = active
           \/ /\ work'[w].job = "restore" /\ work'[w].from \in BackupIds
              /\ active' = [active EXCEPT ![Home[w]] = @ \cup {work'[w].from}]
    PROVE  OneAtATime'
<1>0. Home[w] \in Processes /\ active \in [Processes -> SUBSET BackupIds]
  BY DEF Processes, BackTypes
<1>1. \A v \in Workers : Making(v)' /\ v # w => Making(v) /\ SameJob(v) /\ Home[v] # Home[w]
  BY DEF OneAtATime, Making, OthersStay, SameJob
<1>2. \A v \in Workers : Restoring(v)' /\ v # w => Restoring(v) /\ Making(v)' /\ SameJob(v)
  BY DEF Restoring, Making, OthersStay, SameJob
<1>3. \A p \in Processes : active[p] \subseteq active'[p]
  BY <1>0
<1>4. \A v \in Workers : Making(v)' => Home[v] \in lock'
  BY <1>1 DEF OneAtATime
<1>5. \A u, v \in Workers : Making(u)' /\ Making(v)' /\ Home[u] = Home[v] => u = v
  BY <1>1 DEF OneAtATime
<1>6. \A v \in Workers : Restoring(v)' => work'[v].from \in active'[Home[v]]
  <2> SUFFICES ASSUME NEW v \in Workers, Restoring(v)' PROVE work'[v].from \in active'[Home[v]]
    OBVIOUS
  <2>1. CASE v = w
    BY <1>0, <2>1 DEF Restoring
  <2>2. CASE v # w
    <3>1. Restoring(v) /\ work'[v].from = work[v].from /\ Home[v] \in Processes
      BY <1>2, <2>2 DEF SameJob, Processes
    <3> QED BY <1>3, <3>1 DEF OneAtATime
  <2> QED BY <2>1, <2>2
<1>7. ASSUME NEW p \in Processes, NEW i \in active'[p]
      PROVE  \E v \in Workers : Restoring(v)' /\ Home[v] = p /\ work'[v].from = i
  <2>1. CASE i \in active[p]
    <3>1. PICK v \in Workers : Restoring(v) /\ Home[v] = p /\ work[v].from = i
      BY <2>1 DEF OneAtATime
    <3>2. v # w /\ SameJob(v)
      BY <3>1 DEF Restoring, OthersStay
    <3>3. Restoring(v)' /\ work'[v].from = i
      BY <3>1, <3>2 DEF SameJob, Restoring
    <3> QED BY <3>1, <3>3
  <2>2. CASE i \notin active[p]
    <3>1. p = Home[w] /\ work'[w].job = "restore" /\ i = work'[w].from
      BY <1>0, <1>7, <2>2
    <3>2. Restoring(w)'
      BY <3>1 DEF Restoring
    <3> QED BY <3>1, <3>2
  <2> QED BY <2>1, <2>2
<1> QED BY <1>4, <1>5, <1>6, <1>7 DEF OneAtATime

LEMMA OnceCrash ==
    ASSUME BackTypes, Shapes, OneAtATime, NEW p \in Processes, Crashes(p)
    PROVE  OneAtATime'
<1>1. /\ \A w \in Workers : IF Home[w] = p THEN work'[w] = NoWork ELSE work'[w] = work[w]
      /\ lock' = lock \ {p} /\ active' = [active EXCEPT ![p] = {}]
      /\ active \in [Processes -> SUBSET BackupIds]
  BY CrashIs DEF BackTypes
<1>2. \A v \in Workers : Making(v)' => Home[v] # p /\ work'[v] = work[v] /\ Making(v)
  BY <1>1 DEF Making, NoWork
<1>3. \A v \in Workers : Restoring(v)' => Home[v] # p /\ work'[v] = work[v] /\ Restoring(v)
  BY <1>1 DEF Restoring, NoWork
<1>4. \A q \in Processes : active'[q] = IF q = p THEN {} ELSE active[q]
  BY <1>1
<1>5. \A v \in Workers : Making(v)' => Home[v] \in lock'
  BY <1>1, <1>2 DEF OneAtATime
<1>6. \A u, v \in Workers : Making(u)' /\ Making(v)' /\ Home[u] = Home[v] => u = v
  BY <1>2 DEF OneAtATime
<1>7. \A v \in Workers : Restoring(v)' => work'[v].from \in active'[Home[v]]
  BY <1>3, <1>4 DEF OneAtATime, Processes
<1>8. ASSUME NEW q \in Processes, NEW i \in active'[q]
      PROVE  \E v \in Workers : Restoring(v)' /\ Home[v] = q /\ work'[v].from = i
  <2>1. q # p /\ i \in active[q]
    BY <1>4, <1>8
  <2>2. PICK v \in Workers : Restoring(v) /\ Home[v] = q /\ work[v].from = i
    BY <2>1 DEF OneAtATime
  <2>3. work'[v] = work[v]
    BY <1>1, <2>1, <2>2
  <2> QED BY <2>2, <2>3 DEF Restoring
<1> QED BY <1>5, <1>6, <1>7, <1>8 DEF OneAtATime

LEMMA OnceAside ==
    ASSUME OneAtATime, Aside
    PROVE  OneAtATime'
<1>1. lock' = lock /\ active' = active
  BY DEF Aside
<1>2. \A v \in Workers : Making(v)' <=> Making(v)
  BY DEF Aside
<1>3. \A v \in Workers : Making(v) => SameJob(v)
  BY DEF Aside
<1>4. \A v \in Workers : Restoring(v)' <=> Restoring(v)
  BY <1>2, <1>3 DEF Making, Restoring, SameJob
<1>5. \A v \in Workers : Restoring(v) => work'[v].from = work[v].from
  BY <1>3 DEF Making, Restoring, SameJob
<1> QED BY <1>1, <1>2, <1>4, <1>5 DEF OneAtATime

LEMMA OnceLater ==
    ASSUME BackTypes, Shapes, OneAtATime, NEW w \in Workers, Later(w)
    PROVE  OneAtATime'
<1>1. Making(w)
  BY DEF Later, Restoring, Making
<1>2. CASE Released(w) /\ work'[w].at = "idle"
  BY <1>1, <1>2, OnceEnds DEF Later, Released
<1>3. CASE ~(Released(w) /\ work'[w].at = "idle")
  <2>1. /\ UNCHANGED <<lock, active>> /\ work'[w].at # "idle"
        /\ work'[w].job = work[w].job /\ work'[w].from = work[w].from
    BY <1>3 DEF Later, Writing, Undoing
  <2> QED BY <1>1, <2>1, OnceContinues DEF Later
<1> QED BY <1>2, <1>3

---------------------------------------------------------------------------
(* Who wrote what.                                                          *)

LEMMA TracedAside ==
    ASSUME Traced, Aside
    PROVE  Traced'
<1>1. dirs' = dirs /\ \A i \in BackupIds : Made(i)' <=> Made(i)
  BY DEF Aside, Made
<1>2. \A i \in BackupIds : By(i)' => By(i)
  BY DEF Aside
<1>3. \A v \in Workers : Making(v)' => Making(v) /\ SameJob(v)
  BY DEF Aside
<1>4. \A i \in BackupIds : By(i)' => Made(i)'
  BY <1>1, <1>2 DEF Traced
<1>5. \A u, v \in Workers : Making(u)' /\ Making(v)' /\ work'[u].id = work'[v].id => u = v
  BY <1>3 DEF Traced, SameJob
<1>6. \A i \in BackupIds : dirs'[i] # NoDir => dirs'[i].doc.by # i
  BY <1>1 DEF Traced
<1>7. ASSUME NEW v \in Workers, NEW i \in BackupIds, Making(v)', work'[v].id = i
      PROVE  Traces(v, i)'
  <2>1. Making(v) /\ SameJob(v)
    BY <1>3, <1>7
  <2>2. work[v].id = i /\ work'[v].at = work[v].at /\ work'[v].wanted = work[v].wanted
    BY <1>7, <2>1 DEF SameJob
  <2>3. Traces(v, i)
    BY <2>1, <2>2 DEF Traced
  <2> QED BY <2>2, <2>3, <1>1, <1>2 DEF Traces
<1> QED BY <1>4, <1>5, <1>6, <1>7 DEF Traced

LEMMA TracedLater ==
    ASSUME BackTypes, Shapes, Traced, NEW w \in Workers, Later(w)
    PROVE  Traced'
<1>1. /\ Restoring(w) /\ Making(w) /\ OthersStay(w) /\ work[w].at \in Writing \cup Undoing
      /\ dirs' = dirs /\ retired' = retired /\ work[w].id \in BackupIds
      /\ \A i \in BackupIds : By(i)' => By(i) \/ (i = work[w].id /\ work'[w].at \notin Writing)
      /\ work'[w].at = "idle" \/ work'[w].at \in Writing \cup Undoing
      /\ work'[w].at # "idle" => work'[w].id = work[w].id
  BY DEF Later, Restoring, Making, Shapes, Shaped, Writing, Undoing
<1>2. \A i \in BackupIds : Made(i)' <=> Made(i)
  BY <1>1 DEF Made
<1>3. Traces(w, work[w].id) /\ Made(work[w].id)
  BY <1>1 DEF Traced, Traces, Writing, Undoing
<1>4. \A i \in BackupIds : By(i)' => Made(i)'
  BY <1>1, <1>2, <1>3 DEF Traced
<1>5. \A v \in Workers : Making(v)' => Making(v) /\ (v # w => SameJob(v)) /\ work'[v].id = work[v].id
  BY <1>1 DEF Making, OthersStay, SameJob
<1>6. \A u, v \in Workers : Making(u)' /\ Making(v)' /\ work'[u].id = work'[v].id => u = v
  BY <1>5 DEF Traced
<1>7. \A i \in BackupIds : dirs'[i] # NoDir => dirs'[i].doc.by # i
  BY <1>1 DEF Traced
<1>8. ASSUME NEW v \in Workers, NEW i \in BackupIds, Making(v)', work'[v].id = i
      PROVE  Traces(v, i)'
  <2>1. Making(v) /\ work[v].id = i /\ Traces(v, i)
    BY <1>5, <1>8 DEF Traced
  <2>2. CASE v = w
    <3>1. work'[w].at \in Writing \cup Undoing
      BY <1>1, <1>8, <2>2 DEF Making
    <3>2. /\ work'[w].at \in Writing => work[w].at \in Writing
          /\ work'[w].at \in {"undo", "undoing"} => work'[w].wanted.by # i
      BY <1>1, <2>1, <2>2, <3>1 DEF Later, Writing, Undoing
    <3>3. work'[w].at \in Storing \cup Writing => ~By(i)'
      BY <1>1, <2>1, <2>2, <3>1, <3>2 DEF Traces, Storing, Writing, Undoing
    <3>4. work'[w].at # "publish" /\ Made(i)'
      BY <1>1, <1>2, <1>3, <2>1, <2>2, <3>1 DEF Writing, Undoing
    <3> QED BY <2>2, <3>2, <3>3, <3>4 DEF Traces
  <2>3. CASE v # w
    <3>1. work'[v].at = work[v].at /\ work'[v].wanted = work[v].wanted
      BY <1>5, <1>8, <2>3 DEF SameJob
    <3>2. i # work[w].id
      BY <1>1, <2>1, <2>3 DEF Traced
    <3> QED BY <1>1, <1>2, <2>1, <3>1, <3>2 DEF Traces
  <2> QED BY <2>2, <2>3
<1> QED BY <1>4, <1>6, <1>7, <1>8 DEF Traced

(* A job begins with an id that none has had.                               *)
LEMMA TracedBegins ==
    ASSUME BackTypes, Shapes, Traced, NEW w \in Workers, OthersStay(w), work[w].at = "idle",
           doc' = doc, botDoc' = botDoc, dirs' = dirs, retired' = retired,
           work'[w].at = "publish", work'[w].id = NextId, NextId \in BackupIds, work'[w].seen = doc,
           \/ work'[w].wanted = NoDoc
           \/ \E j \in BackupIds : dirs[j] # NoDir /\ work'[w].wanted = dirs[j].doc
    PROVE  Traced'
<1>1. \A i \in BackupIds : Made(i)' <=> Made(i)
  BY DEF Made
<1>2. ASSUME NEW i \in BackupIds, By(i)' PROVE By(i)
  <2>1. \A j \in BackupIds : dirs'[j] # NoDir => By(dirs'[j].doc.by)
    BY DEF By
  <2>2. \/ By(i) \/ doc'.by = i
        \/ work'[w].seen \in Documents /\ work'[w].seen.by = i
        \/ work'[w].wanted \in Documents /\ work'[w].wanted.by = i
    BY <1>2, <2>1, ByFrom
  <2> QED BY <2>2, NothingIsNone DEF By
<1>3. ~Made(NextId) /\ NextId \in Nat /\ \A v \in Workers : work[v].id # NextId
  <2>1. \A v \in Workers : work[v].id < NextId
    BY NextIdIsNew
  <2>2. NextId \in Nat /\ (Made(NextId) => NextId < NextId)
    BY NextIdIsNew
  <2>3. \A v \in Workers : work[v].id # NextId
    BY <2>1, <2>2
  <2> QED BY <2>2, <2>3
<1>4. ~By(NextId)
  BY <1>3 DEF Traced
<1>5. \A i \in BackupIds : By(i)' => Made(i)'
  BY <1>1, <1>2 DEF Traced
<1>6. \A v \in Workers : v # w => work'[v].id = work[v].id /\ (Making(v)' => Making(v))
  BY DEF OthersStay, SameJob, Making
<1>7. \A u, v \in Workers : Making(u)' /\ Making(v)' /\ work'[u].id = work'[v].id => u = v
  BY <1>3, <1>6 DEF Traced
<1>8. \A i \in BackupIds : dirs'[i] # NoDir => dirs'[i].doc.by # i
  BY DEF Traced
<1>9. ASSUME NEW v \in Workers, NEW i \in BackupIds, Making(v)', work'[v].id = i
      PROVE  Traces(v, i)'
  <2>1. CASE v = w
    <3>1. i = NextId
      BY <1>9, <2>1
    <3>2. ~Made(i)' /\ ~By(i)'
      BY <1>1, <1>2, <1>3, <1>4, <3>1
    <3> QED BY <2>1, <3>2 DEF Traces
  <2>2. CASE v # w
    <3>1. Making(v) /\ work[v].id = i /\ Traces(v, i)
      BY <1>6, <1>9, <2>2 DEF Traced
    <3>2. work'[v].at = work[v].at /\ work'[v].wanted = work[v].wanted
      BY <2>2 DEF OthersStay, SameJob
    <3> QED BY <1>1, <1>2, <3>1, <3>2 DEF Traces
  <2> QED BY <2>1, <2>2
<1> QED BY <1>5, <1>7, <1>8, <1>9 DEF Traced

(* The steps between the publication and the end of the job; what retention *)
(* takes counts as made.                                                    *)
Stored(w) ==
    /\ Making(w) /\ OthersStay(w) /\ work[w].at \in Storing \ {"publish"}
    /\ UNCHANGED <<doc, botDoc>>
    /\ \A i \in BackupIds : dirs'[i] = dirs[i] \/ (dirs'[i] = NoDir /\ i \in retired')
    /\ retired \subseteq retired' /\ \A i \in retired' \ retired : dirs[i] # NoDir
    /\ \/ /\ work'[w].at \in {"listed", "trim", "trimmed", "apply"} /\ work'[w].id = work[w].id
          /\ work'[w].seen = work[w].seen /\ work'[w].wanted = work[w].wanted
       \/ work'[w].at = "idle" /\ work'[w].seen = NoDoc /\ work'[w].wanted = NoDoc

LEMMA TracedStored ==
    ASSUME BackTypes, Shapes, Traced, NEW w \in Workers, Stored(w)
    PROVE  Traced'
<1>1. /\ Making(w) /\ OthersStay(w) /\ work[w].at \in Storing /\ work[w].at # "publish"
      /\ doc' = doc /\ botDoc' = botDoc
      /\ work'[w].at \in {"idle", "listed", "trim", "trimmed", "apply"}
      /\ work'[w].at # "idle" => work'[w].id = work[w].id
  BY DEF Stored
<1>2. \A i \in BackupIds : Made(i)' <=> Made(i)
  BY DEF Stored, Made
<1>3. ASSUME NEW i \in BackupIds, By(i)' PROVE By(i)
  <2>1. \A j \in BackupIds : dirs'[j] # NoDir => By(dirs'[j].doc.by)
    BY DEF By, Stored
  <2>2. \/ By(i) \/ doc'.by = i
        \/ work'[w].seen \in Documents /\ work'[w].seen.by = i
        \/ work'[w].wanted \in Documents /\ work'[w].wanted.by = i
    BY <1>1, <1>3, <2>1, ByFrom
  <2>3. \/ work'[w].seen = work[w].seen /\ work'[w].wanted = work[w].wanted
        \/ work'[w].seen = NoDoc /\ work'[w].wanted = NoDoc
    BY DEF Stored
  <2> QED BY <1>1, <2>2, <2>3, NothingIsNone DEF By
<1>4. \A i \in BackupIds : By(i)' => Made(i)'
  BY <1>2, <1>3 DEF Traced
<1>5. \A v \in Workers : Making(v)' => Making(v) /\ (v # w => SameJob(v)) /\ work'[v].id = work[v].id
  BY <1>1 DEF Making, OthersStay, SameJob
<1>6. \A u, v \in Workers : Making(u)' /\ Making(v)' /\ work'[u].id = work'[v].id => u = v
  BY <1>5 DEF Traced
<1>7. \A i \in BackupIds : dirs'[i] # NoDir => dirs'[i].doc.by # i
  BY DEF Traced, Stored
<1>8. ASSUME NEW v \in Workers, NEW i \in BackupIds, Making(v)', work'[v].id = i
      PROVE  Traces(v, i)'
  <2>1. Making(v) /\ work[v].id = i /\ Traces(v, i)
    BY <1>5, <1>8 DEF Traced
  <2>2. CASE v = w
    <3>1. work'[w].at \in {"listed", "trim", "trimmed", "apply"}
      BY <1>1, <1>8, <2>2 DEF Making
    <3>2. Made(i)' /\ ~By(i)'
      BY <1>1, <1>2, <1>3, <2>1, <2>2 DEF Traces
    <3> QED BY <2>2, <3>1, <3>2 DEF Traces
  <2>3. CASE v # w
    <3>1. work'[v].at = work[v].at /\ work'[v].wanted = work[v].wanted
      BY <1>5, <1>8, <2>3 DEF SameJob
    <3> QED BY <1>2, <1>3, <2>1, <3>1 DEF Traces
  <2> QED BY <2>2, <2>3
<1> QED BY <1>4, <1>6, <1>7, <1>8 DEF Traced

LEMMA TracedPublish ==
    ASSUME BackTypes, Shapes, Traced, NEW w \in Workers, Publish(w)
    PROVE  Traced'
<1>1. PICK cat \in CatalogReads, at \in Stamps(work[w].id) :
        \E gone \in SUBSET BackupIds, fails \in BOOLEAN : PublishesTo(w, cat, at, gone, fails)
  BY PublishIs
<1>2. PICK gone \in SUBSET BackupIds, fails \in BOOLEAN : PublishesTo(w, cat, at, gone, fails)
  BY <1>1
<1>3. /\ work[w].at = "publish" /\ Making(w) /\ work[w].id \in BackupIds /\ work[w].seen \in Documents
      /\ work[w] \in Works
  BY DEF Publish, Shapes, Shaped, Making, Storing, BackTypes
<1> DEFINE own == work[w].id
           r == [doc |-> work[w].seen, at |-> at, safety |-> work[w].job = "restore"]
<1>4. Traces(w, own) /\ ~Made(own) /\ ~By(own)
  BY <1>3 DEF Traced, Traces, Storing
<1>5. gone \subseteq Readable(catalog)
  BY <1>2, RetiredIs DEF PublishesTo
<1>6. \A i \in gone : dirs[i] # NoDir
  BY <1>5 DEF Readable
<1>7. own \notin gone
  BY <1>4, <1>6 DEF Made
<1>8. r.doc = work[w].seen /\ r # NoDir
  <2>1. DOMAIN r = {"doc", "at", "safety"} /\ DOMAIN NoDir = {"none"}
    BY DEF NoDir
  <2>2. {"none"} # {"doc", "at", "safety"}
    OBVIOUS
  <2> QED BY <2>1, <2>2
<1>9. /\ \A i \in BackupIds : i \in gone => dirs'[i] = NoDir
      /\ \A i \in BackupIds : i \notin gone /\ i # own => dirs'[i] = dirs[i]
      /\ dirs'[own] = IF fails THEN dirs[own] ELSE r
      /\ retired' = retired \cup gone
  BY <1>2, <1>3, <1>7 DEF PublishesTo
<1>10. /\ doc' = doc /\ botDoc' = botDoc /\ OthersStay(w)
       /\ fails => work'[w].at = "idle" /\ work'[w].seen = NoDoc /\ work'[w].wanted = NoDoc
       /\ ~fails => /\ work'[w].at = "list" /\ work'[w].id = own /\ work'[w].seen = work[w].seen
                    /\ work'[w].wanted = work[w].wanted
  BY <1>2, <1>3 DEF PublishesTo, Works
<1> HIDE DEF own, r
<1>11. \A i \in BackupIds : Made(i)' <=> Made(i) \/ (i = own /\ ~fails)
  BY <1>4, <1>6, <1>7, <1>8, <1>9 DEF Made
<1>12. By(work[w].seen.by)
  BY <1>3 DEF By
<1>13. ASSUME NEW i \in BackupIds, By(i)' PROVE By(i)
  <2>1. \A j \in BackupIds : dirs'[j] # NoDir => By(dirs'[j].doc.by)
    <3> SUFFICES ASSUME NEW j \in BackupIds, dirs'[j] # NoDir PROVE By(dirs'[j].doc.by)
      OBVIOUS
    <3>1. dirs'[j] = dirs[j] \/ dirs'[j] = r
      BY <1>9
    <3>2. dirs[j] # NoDir => By(dirs[j].doc.by)
      BY DEF By
    <3>3. dirs'[j] = r => dirs'[j].doc.by = work[w].seen.by
      BY <1>8
    <3> QED BY <1>12, <3>1, <3>2, <3>3
  <2>2. \/ By(i) \/ doc'.by = i
        \/ work'[w].seen \in Documents /\ work'[w].seen.by = i
        \/ work'[w].wanted \in Documents /\ work'[w].wanted.by = i
    BY <1>10, <1>13, <2>1, ByFrom
  <2>3. \/ work'[w].seen = work[w].seen /\ work'[w].wanted = work[w].wanted
        \/ work'[w].seen = NoDoc /\ work'[w].wanted = NoDoc
    BY <1>10
  <2> QED BY <1>10, <2>2, <2>3, NothingIsNone DEF By
<1>14. \A i \in BackupIds : By(i)' => Made(i)'
  BY <1>11, <1>13 DEF Traced
<1>15. \A v \in Workers : Making(v)' => Making(v) /\ (v # w => SameJob(v)) /\ work'[v].id = work[v].id
  BY <1>3, <1>10 DEF Making, OthersStay, SameJob, own
<1>16. \A u, v \in Workers : Making(u)' /\ Making(v)' /\ work'[u].id = work'[v].id => u = v
  BY <1>15 DEF Traced
<1>17. \A i \in BackupIds : dirs'[i] # NoDir => dirs'[i].doc.by # i
  <2> SUFFICES ASSUME NEW i \in BackupIds, dirs'[i] # NoDir PROVE dirs'[i].doc.by # i
    OBVIOUS
  <2>1. CASE i = own /\ ~fails
    BY <1>4, <1>8, <1>9, <1>12, <2>1
  <2>2. CASE ~(i = own /\ ~fails)
    <3>1. dirs'[i] = dirs[i]
      BY <1>9, <2>2
    <3> QED BY <3>1 DEF Traced
  <2> QED BY <2>1, <2>2
<1>18. ASSUME NEW v \in Workers, NEW i \in BackupIds, Making(v)', work'[v].id = i
       PROVE  Traces(v, i)'
  <2>1. Making(v) /\ work[v].id = i /\ Traces(v, i)
    BY <1>15, <1>18 DEF Traced
  <2>2. CASE v = w
    <3>1. ~fails /\ i = own
      BY <1>10, <1>18, <2>1, <2>2 DEF Making, own
    <3>2. Made(i)' /\ ~By(i)' /\ work'[w].at = "list"
      BY <1>4, <1>10, <1>11, <1>13, <3>1
    <3> QED BY <2>2, <3>2 DEF Traces
  <2>3. CASE v # w
    <3>1. work'[v].at = work[v].at /\ work'[v].wanted = work[v].wanted
      BY <1>15, <1>18, <2>3 DEF SameJob
    <3>2. i # own
      BY <1>3, <2>1, <2>3 DEF Traced, own
    <3> QED BY <1>11, <1>13, <2>1, <3>1, <3>2 DEF Traces
  <2> QED BY <2>2, <2>3
<1> QED BY <1>14, <1>16, <1>17, <1>18 DEF Traced

LEMMA TracedCrash ==
    ASSUME BackTypes, Shapes, Traced, NEW p \in Processes, Crashes(p)
    PROVE  Traced'
<1>1. /\ \A w \in Workers : IF Home[w] = p THEN work'[w] = NoWork ELSE work'[w] = work[w]
      /\ doc' = doc /\ botDoc' = botDoc /\ dirs' = dirs /\ retired' = retired
  BY CrashIs
<1>2. \A i \in BackupIds : Made(i)' <=> Made(i)
  BY <1>1 DEF Made
<1>3. ASSUME NEW i \in BackupIds, By(i)' PROVE By(i)
  <2>1. \A w \in Workers : work'[w] = work[w] \/ (work'[w].seen = NoDoc /\ work'[w].wanted = NoDoc)
    BY <1>1, NoWorkIs
  <2> QED BY <1>1, <1>3, <2>1, NothingIsNone DEF By
<1>4. \A v \in Workers : Making(v)' => Making(v) /\ work'[v] = work[v]
  BY <1>1, NoWorkIs DEF Making
<1>5. \A i \in BackupIds : By(i)' => Made(i)'
  BY <1>2, <1>3 DEF Traced
<1>6. \A u, v \in Workers : Making(u)' /\ Making(v)' /\ work'[u].id = work'[v].id => u = v
  BY <1>4 DEF Traced
<1>7. \A i \in BackupIds : dirs'[i] # NoDir => dirs'[i].doc.by # i
  BY <1>1 DEF Traced
<1>8. ASSUME NEW v \in Workers, NEW i \in BackupIds, Making(v)', work'[v].id = i
      PROVE  Traces(v, i)'
  <2>1. Making(v) /\ work'[v] = work[v] /\ Traces(v, i)
    BY <1>4, <1>8 DEF Traced
  <2> QED BY <1>2, <1>3, <2>1 DEF Traces
<1> QED BY <1>5, <1>6, <1>7, <1>8 DEF Traced

---------------------------------------------------------------------------
(* Every step keeps the invariant.                                         *)

LEMMA MakingIs ==
    ASSUME BackTypes, Shapes, NEW w \in Workers, work[w].at \in Storing
    PROVE  /\ Making(w) /\ work[w].id \in BackupIds /\ work[w] \in Works
           /\ work[w].job \in {"create", "restore"} /\ work[w].seen \in Documents
BY DEF Making, Shapes, Shaped, Storing, BackTypes

LEMMA AnnouncedOnce ==
    ASSUME BackTypes, Shapes, OneAtATime, NEW w \in Workers, work[w].at \in {"trim", "trimmed"},
           Announced(w, {}), active' = active
    PROVE  OneAtATime'
<1>1. Making(w)
  BY MakingIs DEF Storing
<1>2. OthersStay(w)
  BY AnnouncedIs
<1>3. CASE work[w].job = "restore"
  <2>1. /\ work'[w].at = "apply" /\ work'[w].job = work[w].job /\ work'[w].from = work[w].from
        /\ lock' = lock
    BY <1>3, AnnouncedIs
  <2> QED BY <1>1, <1>2, <2>1, OnceContinues
<1>4. CASE work[w].job # "restore"
  <2>1. work[w].job = "create" /\ work'[w].at = "idle" /\ lock' = lock \ {Home[w]}
    BY <1>4, AnnouncedIs
  <2> QED BY <1>1, <1>2, <2>1, OnceEnds
<1> QED BY <1>3, <1>4

LEMMA ReadsStored ==
    ASSUME BackTypes, Shapes, OneAtATime, NEW w \in Workers, ReadCatalog(w)
    PROVE  Stored(w) /\ OneAtATime'
<1>1. work[w].at = "list" /\ UNCHANGED <<doc, botDoc, dirs, lock, active, retired>>
  BY DEF ReadCatalog
<1>2. Making(w)
  BY <1>1, MakingIs DEF Storing
<1>3. /\ OthersStay(w) /\ work'[w].at = "listed" /\ work'[w].job = work[w].job
      /\ work'[w].id = work[w].id /\ work'[w].from = work[w].from
      /\ work'[w].seen = work[w].seen /\ work'[w].wanted = work[w].wanted
  BY ReadCatalogIs
<1>4. OneAtATime'
  BY <1>1, <1>2, <1>3, OnceContinues
<1> QED BY <1>1, <1>2, <1>3, <1>4 DEF Stored, Storing

LEMMA SavesStored ==
    ASSUME BackTypes, Shapes, OneAtATime, NEW w \in Workers, SaveCatalog(w)
    PROVE  Stored(w) /\ OneAtATime'
<1>1. work[w].at = "listed" /\ UNCHANGED <<doc, botDoc, dirs, lock, active, retired>>
  BY DEF SaveCatalog
<1>2. Making(w) /\ work[w] \in Works
  BY <1>1, MakingIs DEF Storing
<1>3. OthersStay(w) /\ work'[w] = [work[w] EXCEPT !.at = "trim"]
  BY SaveCatalogIs
<1>4. /\ work'[w].at = "trim" /\ work'[w].job = work[w].job
      /\ work'[w].id = work[w].id /\ work'[w].from = work[w].from
      /\ work'[w].seen = work[w].seen /\ work'[w].wanted = work[w].wanted
  BY <1>2, <1>3 DEF Works
<1>5. OneAtATime'
  BY <1>1, <1>2, <1>3, <1>4, OnceContinues
<1> QED BY <1>1, <1>2, <1>3, <1>4, <1>5 DEF Stored, Storing

LEMMA TrimsStored ==
    ASSUME BackTypes, Shapes, OneAtATime, NEW w \in Workers, Trim(w)
    PROVE  Stored(w) /\ OneAtATime'
<1>1. work[w].at = "trim"
  BY DEF Trim
<1>2. Making(w)
  BY <1>1, MakingIs DEF Storing
<1>3. PICK cat \in CatalogReads : \E gone \in SUBSET BackupIds : TrimsTo(w, cat, gone)
  BY TrimIs
<1>4. PICK gone \in SUBSET BackupIds : TrimsTo(w, cat, gone)
  BY <1>3
<1>5. gone \subseteq Readable(catalog)
  BY <1>4, RetiredIs DEF TrimsTo
<1>6. \A i \in gone : dirs[i] # NoDir
  BY <1>5 DEF Readable
<1>7. /\ dirs' = [i \in BackupIds |-> IF i \in gone THEN NoDir ELSE dirs[i]]
      /\ retired' = retired \cup gone /\ OthersStay(w)
      /\ UNCHANGED <<doc, botDoc>> /\ active' = active
  BY <1>4 DEF TrimsTo
<1>8. /\ \A i \in BackupIds : dirs'[i] = dirs[i] \/ (dirs'[i] = NoDir /\ i \in retired')
      /\ retired \subseteq retired' /\ \A i \in retired' \ retired : dirs[i] # NoDir
  BY <1>6, <1>7
<1>9. CASE gone = {}
  <2>1. Announced(w, {})
    BY <1>4, <1>9 DEF TrimsTo
  <2>2. OneAtATime'
    BY <1>1, <1>7, <2>1, AnnouncedOnce
  <2>3. \/ /\ work'[w].at = "apply" /\ work'[w].id = work[w].id
           /\ work'[w].seen = work[w].seen /\ work'[w].wanted = work[w].wanted
        \/ work'[w].at = "idle" /\ work'[w].seen = NoDoc /\ work'[w].wanted = NoDoc
    BY <1>1, <2>1, AnnouncedIs
  <2> QED BY <1>1, <1>2, <1>7, <1>8, <2>2, <2>3 DEF Stored, Storing
<1>10. CASE gone # {}
  <2>1. /\ work'[w].at = "trimmed" /\ work'[w].job = work[w].job
        /\ work'[w].id = work[w].id /\ work'[w].from = work[w].from
        /\ work'[w].seen = work[w].seen /\ work'[w].wanted = work[w].wanted /\ lock' = lock
    BY <1>4, <1>10 DEF TrimsTo
  <2>2. OneAtATime'
    BY <1>2, <1>7, <2>1, OnceContinues
  <2> QED BY <1>1, <1>2, <1>7, <1>8, <2>1, <2>2 DEF Stored, Storing
<1> QED BY <1>9, <1>10

LEMMA SavesTrimmedStored ==
    ASSUME BackTypes, Shapes, OneAtATime, NEW w \in Workers, SaveTrimmed(w)
    PROVE  Stored(w) /\ OneAtATime'
<1>1. /\ work[w].at = "trimmed" /\ Announced(w, {}) /\ active' = active
      /\ UNCHANGED <<doc, botDoc, dirs, retired>>
  BY DEF SaveTrimmed
<1>2. Making(w)
  BY <1>1, MakingIs DEF Storing
<1>3. OneAtATime'
  BY <1>1, AnnouncedOnce
<1>4. /\ OthersStay(w)
      /\ \/ /\ work'[w].at = "apply" /\ work'[w].id = work[w].id
            /\ work'[w].seen = work[w].seen /\ work'[w].wanted = work[w].wanted
         \/ work'[w].at = "idle" /\ work'[w].seen = NoDoc /\ work'[w].wanted = NoDoc
  BY <1>1, AnnouncedIs
<1> QED BY <1>1, <1>2, <1>3, <1>4 DEF Stored, Storing

LEMMA PublishOnce ==
    ASSUME BackTypes, Shapes, OneAtATime, NEW w \in Workers, Publish(w)
    PROVE  OneAtATime'
<1>1. PICK cat \in CatalogReads, at \in Stamps(work[w].id) :
        \E gone \in SUBSET BackupIds, fails \in BOOLEAN : PublishesTo(w, cat, at, gone, fails)
  BY PublishIs
<1>2. PICK gone \in SUBSET BackupIds, fails \in BOOLEAN : PublishesTo(w, cat, at, gone, fails)
  BY <1>1
<1>3. Making(w) /\ work[w] \in Works /\ OthersStay(w)
  BY <1>2, MakingIs DEF Publish, Storing, PublishesTo
<1>4. CASE fails
  <2>1. /\ work'[w].at = "idle" /\ lock' = lock \ {Home[w]}
        /\ active' = [active EXCEPT ![Home[w]] = @ \ {work[w].from}]
    BY <1>2, <1>4 DEF PublishesTo
  <2> QED BY <1>3, <2>1, OnceEnds
<1>5. CASE ~fails
  <2>1. work'[w] = [work[w] EXCEPT !.at = "list"] /\ lock' = lock /\ active' = active
    BY <1>2, <1>5 DEF PublishesTo
  <2>2. work'[w].at # "idle" /\ work'[w].job = work[w].job /\ work'[w].from = work[w].from
    BY <1>3, <2>1 DEF Works
  <2> QED BY <1>3, <2>1, <2>2, OnceContinues
<1> QED BY <1>4, <1>5

LEMMA CreateKeeps ==
    ASSUME BackTypes, Shapes, OneAtATime, Traced, NEW w \in Workers, CreateBackup(w)
    PROVE  OneAtATime' /\ Traced'
<1>1. /\ work[w].at = "idle" /\ Home[w] \notin lock /\ lock' = lock \cup {Home[w]}
      /\ Staged(w, "create", 0) /\ UNCHANGED <<doc, botDoc, dirs, active, retired>>
  BY DEF CreateBackup
<1>2. /\ OthersStay(w) /\ work'[w].at = "publish" /\ work'[w].job = "create"
      /\ work'[w].id = NextId /\ NextId \in BackupIds /\ work'[w].seen = doc /\ work'[w].wanted = NoDoc
  BY <1>1, StagedIs
<1>3. OneAtATime'
  BY <1>1, <1>2, OnceBegins
<1>4. Traced'
  BY <1>1, <1>2, TracedBegins
<1> QED BY <1>3, <1>4

LEMMA RestoreKeeps ==
    ASSUME BackTypes, Shapes, OneAtATime, Traced, NEW w \in Workers, NEW p \in previews[Home[w]],
           RestoreBackup(w, p)
    PROVE  OneAtATime' /\ Traced'
<1>1. CASE ~(Listed(p.id) /\ p.same /\ p.rev = Revision(doc))
  BY <1>1, RestoreAside, OnceAside, TracedAside
<1>2. CASE Listed(p.id) /\ p.same /\ p.rev = Revision(doc)
  <2>1. /\ work[w].at = "idle" /\ Home[w] \notin lock /\ lock' = lock \cup {Home[w]}
        /\ Staged(w, "restore", p.id) /\ active' = [active EXCEPT ![Home[w]] = @ \cup {p.id}]
        /\ UNCHANGED <<doc, botDoc, dirs, retired>>
    BY <1>2 DEF RestoreBackup
  <2>2. p.id \in BackupIds /\ dirs[p.id] # NoDir
    BY <1>2 DEF Listed, Readable, BackTypes
  <2>3. /\ OthersStay(w) /\ work'[w].at = "publish" /\ work'[w].job = "restore"
        /\ work'[w].from = p.id /\ work'[w].id = NextId /\ NextId \in BackupIds
        /\ work'[w].seen = doc
        /\ work'[w].wanted = IF p.id = 0 THEN NoDoc ELSE dirs[p.id].doc
    BY <2>1, <2>2, StagedIs
  <2>4. OneAtATime'
    BY <2>1, <2>2, <2>3, OnceBegins
  <2>5. \/ work'[w].wanted = NoDoc
        \/ \E j \in BackupIds : dirs[j] # NoDir /\ work'[w].wanted = dirs[j].doc
    BY <2>2, <2>3
  <2>6. Traced'
    BY <2>1, <2>3, <2>5, TracedBegins
  <2> QED BY <2>4, <2>6
<1> QED BY <1>1, <1>2

LEMMA InitBack ==
    ASSUME BackupsInit
    PROVE  BackInv
<1>1. /\ doc \in [ch : Channels, users : {0}, by : {0}] /\ botDoc = NoDoc
      /\ dirs = [i \in BackupIds |-> NoDir] /\ catalog = {} /\ lock = {} /\ fileLock = {}
      /\ active = [p \in Processes |-> {}] /\ previews = [p \in Processes |-> {}]
      /\ work = [w \in Workers |-> NoWork] /\ reported = {} /\ retired = {}
  BY DEF BackupsInit
<1>2. 0 \in 0 .. MaxUsers /\ 0 \in 0 .. MaxBackups
  BY BackupsAssumption
<1>3. doc \in Documents /\ doc.by = 0
  BY <1>1, <1>2 DEF Documents
<1>4. BackTypes
  BY <1>1, <1>3, NoWorkIs, NothingIsNone DEF BackTypes
<1>5. \A w \in Workers : work[w] = NoWork /\ Shaped(work[w]) /\ work[w].at = "idle"
  BY <1>1, NoWorkIs
<1>6. \A w \in Workers : ~Making(w) /\ ~Restoring(w)
  BY <1>5 DEF Making, Restoring
<1>7. OneAtATime
  BY <1>1, <1>6 DEF OneAtATime
<1>8. \A i \in BackupIds : ~By(i)
  <2>1. 0 \notin BackupIds
    BY DEF BackupIds
  <2> QED BY <1>1, <1>3, <1>5, <2>1, NothingIsNone, NoWorkIs DEF By
<1>9. Traced
  BY <1>1, <1>6, <1>8 DEF Traced
<1> QED BY <1>4, <1>5, <1>7, <1>9 DEF BackInv

LEMMA StepBack ==
    ASSUME BackInv, [BackupsNext]_backupVars
    PROVE  BackInv'
<1>1. BackTypes /\ Shapes /\ OneAtATime /\ Traced
  BY DEF BackInv, Shapes
<1> SUFFICES BackTypes' /\ Shapes' /\ OneAtATime' /\ Traced'
  BY DEF BackInv, Shapes
<1>2. ASSUME NEW w \in Workers, CreateBackup(w) PROVE BackTypes' /\ Shapes' /\ OneAtATime' /\ Traced'
  BY <1>1, <1>2, CreateTypes, CreateKeeps
<1>3. ASSUME NEW w \in Workers, Publish(w) PROVE BackTypes' /\ Shapes' /\ OneAtATime' /\ Traced'
  BY <1>1, <1>3, PublishTypes, PublishOnce, TracedPublish
<1>4. ASSUME NEW w \in Workers, ReadCatalog(w) PROVE BackTypes' /\ Shapes' /\ OneAtATime' /\ Traced'
  BY <1>1, <1>4, CatalogTypes, ReadsStored, TracedStored
<1>5. ASSUME NEW w \in Workers, SaveCatalog(w) PROVE BackTypes' /\ Shapes' /\ OneAtATime' /\ Traced'
  BY <1>1, <1>5, CatalogTypes, SavesStored, TracedStored
<1>6. ASSUME NEW w \in Workers, Trim(w) PROVE BackTypes' /\ Shapes' /\ OneAtATime' /\ Traced'
  BY <1>1, <1>6, TrimTypes, TrimsStored, TracedStored
<1>7. ASSUME NEW w \in Workers, SaveTrimmed(w) PROVE BackTypes' /\ Shapes' /\ OneAtATime' /\ Traced'
  BY <1>1, <1>7, CatalogTypes, SavesTrimmedStored, TracedStored
<1>8. ASSUME NEW w \in Workers, NEW i \in BackupIds, PreviewRestore(w, i)
      PROVE  BackTypes' /\ Shapes' /\ OneAtATime' /\ Traced'
  BY <1>1, <1>8, PreviewAside, OnceAside, TracedAside
<1>9. ASSUME NEW w \in Workers, NEW p \in previews[Home[w]], RestoreBackup(w, p)
      PROVE  BackTypes' /\ Shapes' /\ OneAtATime' /\ Traced'
  BY <1>1, <1>9, RestoreTypes, RestoreKeeps
<1>10. ASSUME NEW w \in Workers, LoadToWrite(w) PROVE BackTypes' /\ Shapes' /\ OneAtATime' /\ Traced'
  <2>1. BackTypes' /\ Shapes'
    BY <1>1, <1>10, LoadTypes
  <2>2. CASE work[w].job = "restore"
    BY <1>1, <1>10, <2>1, <2>2, LoadLater, OnceLater, TracedLater
  <2>3. CASE work[w].job # "restore"
    BY <1>1, <1>10, <2>1, <2>3, LoadAside, OnceAside, TracedAside
  <2> QED BY <2>2, <2>3
<1>11. ASSUME NEW w \in Workers, Applies(w) PROVE BackTypes' /\ Shapes' /\ OneAtATime' /\ Traced'
  BY <1>1, <1>11, AppliesLater, OnceLater, TracedLater
<1>12. ASSUME NEW w \in Workers, UndoReads(w) PROVE BackTypes' /\ Shapes' /\ OneAtATime' /\ Traced'
  BY <1>1, <1>12, UndoReadsLater, OnceLater, TracedLater
<1>13. ASSUME NEW w \in Workers, Undoes(w) PROVE BackTypes' /\ Shapes' /\ OneAtATime' /\ Traced'
  BY <1>1, <1>13, UndoesLater, OnceLater, TracedLater
<1>14. ASSUME NEW w \in Workers, WriteFails(w) PROVE BackTypes' /\ Shapes' /\ OneAtATime' /\ Traced'
  <2>1. BackTypes' /\ Shapes'
    BY <1>1, <1>14, FailsIs
  <2>2. CASE work[w].job = "restore"
    BY <1>1, <1>14, <2>1, <2>2, FailsLater, OnceLater, TracedLater
  <2>3. CASE work[w].job # "restore"
    BY <1>1, <1>14, <2>1, <2>3, FailsAside, OnceAside, TracedAside
  <2> QED BY <2>2, <2>3
<1>15. ASSUME NEW w \in Workers, NEW c \in Channels, ViewsConfig(w, c)
       PROVE  BackTypes' /\ Shapes' /\ OneAtATime' /\ Traced'
  BY <1>1, <1>15, ViewsAside, OnceAside, TracedAside
<1>16. ASSUME NEW w \in Workers, Commits(w) PROVE BackTypes' /\ Shapes' /\ OneAtATime' /\ Traced'
  BY <1>1, <1>16, CommitsAside, OnceAside, TracedAside
<1>17. ASSUME BotLoads \/ BotSaves \/ BotRestarts PROVE BackTypes' /\ Shapes' /\ OneAtATime' /\ Traced'
  BY <1>1, <1>17, BotAside, OnceAside, TracedAside
<1>18. ASSUME NEW p \in Processes, Crashes(p) PROVE BackTypes' /\ Shapes' /\ OneAtATime' /\ Traced'
  BY <1>1, <1>18, CrashIs, OnceCrash, TracedCrash
<1>19. ASSUME UNCHANGED backupVars PROVE BackTypes' /\ Shapes' /\ OneAtATime' /\ Traced'
  BY <1>1, <1>19, StutterAside, OnceAside, TracedAside
<1> QED
  BY <1>2, <1>3, <1>4, <1>5, <1>6, <1>7, <1>8, <1>9, <1>10, <1>11, <1>12, <1>13, <1>14, <1>15,
     <1>16, <1>17, <1>18, <1>19 DEF BackupsNext

(* In every behaviour of the backups the invariant holds.                   *)
LEMMA BackAlways == BackupsSpec => []BackInv
<1>1. BackupsInit => BackInv
  BY InitBack
<1>2. BackInv /\ [BackupsNext]_backupVars => BackInv'
  BY StepBack
<1> QED BY <1>1, <1>2, PTL DEF BackupsSpec

(* The variables of portal/backups.py and portal/resources.py have their    *)
(* types, however many threads and processes work on a bot.                 *)
THEOREM BackupsTypes == BackupsSpec => []BackupsTypeOK
<1>1. BackInv => BackupsTypeOK
  BY DEF BackInv, BackTypes, BackupsTypeOK, Works
<1> QED BY <1>1, BackAlways, PTL

---------------------------------------------------------------------------
(* How a job may end.                                                       *)

LEMMA OwnEnd ==
    ASSUME NEW v \in Workers, OthersStay(v), NEW w \in Workers, work[w].at # "idle",
           work'[w].at = "idle"
    PROVE  w = v
BY DEF OthersStay, SameJob

LEMMA WhoEnds ==
    ASSUME BackInv, [BackupsNext]_backupVars, NEW w \in Workers, work[w].at # "idle",
           work'[w].at = "idle"
    PROVE  \/ work'[w].ended = "none"
           \/ Publish(w) /\ work'[w].ended = "full"
           \/ Trim(w) /\ work'[w].ended = "succeeded"
           \/ SaveTrimmed(w) /\ work'[w].ended = "succeeded"
           \/ Applies(w) /\ work'[w].ended = "succeeded"
           \/ Commits(w) /\ work'[w].ended = "succeeded"
           \/ LoadToWrite(w) \/ UndoReads(w) \/ Undoes(w) \/ WriteFails(w)
<1>0. BackTypes /\ Shapes /\ OneAtATime /\ Traced /\ work \in [Workers -> Works]
  BY DEF BackInv, Shapes, BackTypes
<1>1. ASSUME NEW v \in Workers, CreateBackup(v) PROVE FALSE
  <2>1. work[v].at = "idle" /\ Staged(v, "create", 0)
    BY <1>1 DEF CreateBackup
  <2>2. OthersStay(v) /\ work'[v].at = "publish"
    BY <1>0, <2>1, StagedIs
  <2> QED BY <1>0, <2>1, <2>2, OwnEnd
<1>2. ASSUME NEW v \in Workers, Publish(v) PROVE Publish(w) /\ work'[w].ended = "full"
  <2>1. PICK cat \in CatalogReads, at \in Stamps(work[v].id) :
          \E gone \in SUBSET BackupIds, fails \in BOOLEAN : PublishesTo(v, cat, at, gone, fails)
    BY <1>0, <1>2, PublishIs
  <2>2. PICK gone \in SUBSET BackupIds, fails \in BOOLEAN : PublishesTo(v, cat, at, gone, fails)
    BY <2>1
  <2>3. OthersStay(v) /\ work[v] \in Works
    BY <1>0, <2>2 DEF PublishesTo, BackTypes
  <2>4. w = v
    BY <1>0, <2>3, OwnEnd
  <2>5. ~fails => work'[v].at = "list"
    BY <2>2, <2>3 DEF PublishesTo, Works
  <2>6. fails
    BY <2>4, <2>5
  <2>7. work'[v].ended = "full"
    BY <2>2, <2>6 DEF PublishesTo
  <2> QED BY <1>2, <2>4, <2>7
<1>3. ASSUME NEW v \in Workers, ReadCatalog(v) PROVE FALSE
  <2>1. OthersStay(v) /\ work'[v].at = "listed"
    BY <1>0, <1>3, ReadCatalogIs
  <2> QED BY <1>0, <2>1, OwnEnd
<1>4. ASSUME NEW v \in Workers, SaveCatalog(v) PROVE FALSE
  <2>1. OthersStay(v) /\ work'[v] = [work[v] EXCEPT !.at = "trim"] /\ work[v] \in Works
    BY <1>0, <1>4, SaveCatalogIs DEF BackTypes
  <2>2. work'[v].at = "trim"
    BY <2>1 DEF Works
  <2> QED BY <1>0, <2>1, <2>2, OwnEnd
<1>5. ASSUME NEW v \in Workers, Trim(v) PROVE Trim(w) /\ work'[w].ended = "succeeded"
  <2>1. PICK cat \in CatalogReads : \E gone \in SUBSET BackupIds : TrimsTo(v, cat, gone)
    BY <1>0, <1>5, TrimIs
  <2>2. PICK gone \in SUBSET BackupIds : TrimsTo(v, cat, gone)
    BY <2>1
  <2>3. w = v
    BY <1>0, <2>2, OwnEnd DEF TrimsTo
  <2>4. Announced(v, {}) /\ work[v].at = "trim"
    BY <1>5, <2>2, <2>3 DEF TrimsTo, Trim
  <2>5. work'[v].at = "apply" \/ work'[v].ended = "succeeded"
    BY <1>0, <2>4, AnnouncedIs
  <2> QED BY <1>5, <2>3, <2>5
<1>6. ASSUME NEW v \in Workers, SaveTrimmed(v) PROVE SaveTrimmed(w) /\ work'[w].ended = "succeeded"
  <2>1. Announced(v, {}) /\ work[v].at = "trimmed"
    BY <1>6 DEF SaveTrimmed
  <2>2. OthersStay(v) /\ (work'[v].at = "apply" \/ work'[v].ended = "succeeded")
    BY <1>0, <2>1, AnnouncedIs
  <2>3. w = v
    BY <1>0, <2>2, OwnEnd
  <2> QED BY <1>6, <2>2, <2>3
<1>7. ASSUME NEW v \in Workers, NEW i \in BackupIds, PreviewRestore(v, i) PROVE FALSE
  BY <1>7 DEF PreviewRestore
<1>8. ASSUME NEW v \in Workers, NEW p \in previews[Home[v]], RestoreBackup(v, p) PROVE FALSE
  <2>1. CASE ~(Listed(p.id) /\ p.same /\ p.rev = Revision(doc))
    BY <1>8, <2>1 DEF RestoreBackup
  <2>2. CASE Listed(p.id) /\ p.same /\ p.rev = Revision(doc)
    <3>1. work[v].at = "idle" /\ Staged(v, "restore", p.id)
      BY <1>8, <2>2 DEF RestoreBackup
    <3>2. p.id \in BackupIds /\ dirs[p.id] # NoDir
      BY <1>0, <2>2 DEF Listed, Readable, BackTypes
    <3>3. OthersStay(v) /\ work'[v].at = "publish"
      BY <1>0, <3>1, <3>2, StagedIs
    <3> QED BY <1>0, <3>1, <3>3, OwnEnd
  <2> QED BY <2>1, <2>2
<1>9. ASSUME NEW v \in Workers, LoadToWrite(v) PROVE LoadToWrite(w)
  BY <1>0, <1>9, LoadIs, OwnEnd
<1>10. ASSUME NEW v \in Workers, Applies(v) PROVE Applies(w) /\ work'[w].ended = "succeeded"
  <2>1. OthersStay(v) /\ (work'[v].at = "idle" => work'[v].ended = "succeeded")
    BY <1>0, <1>10, AppliesLater DEF Later
  <2>2. w = v
    BY <1>0, <2>1, OwnEnd
  <2> QED BY <1>10, <2>1, <2>2
<1>11. ASSUME NEW v \in Workers, UndoReads(v) PROVE UndoReads(w)
  BY <1>0, <1>11, UndoReadsLater, OwnEnd DEF Later
<1>12. ASSUME NEW v \in Workers, Undoes(v) PROVE Undoes(w)
  BY <1>0, <1>12, UndoesLater, OwnEnd DEF Later
<1>13. ASSUME NEW v \in Workers, WriteFails(v) PROVE WriteFails(w)
  BY <1>0, <1>13, FailsIs, OwnEnd
<1>14. ASSUME NEW v \in Workers, NEW c \in Channels, ViewsConfig(v, c) PROVE FALSE
  <2> DEFINE r == [NoWork EXCEPT !.at = "commit", !.job = "commit", !.seen = doc,
                                 !.wanted = [doc EXCEPT !.ch = c, !.by = 0]]
  <2>1. work' = [work EXCEPT ![v] = r]
    BY <1>14 DEF ViewsConfig
  <2>2. r.at = "commit"
    BY DEF NoWork
  <2> HIDE DEF r
  <2> QED BY <1>0, <2>1, <2>2
<1>15. ASSUME NEW v \in Workers, Commits(v) PROVE Commits(w) /\ work'[w].ended = "succeeded"
  <2>1. EndsWork(v, "succeeded")
    BY <1>15 DEF Commits
  <2>2. OthersStay(v) /\ work'[v].ended = "succeeded"
    BY <1>0, <2>1, EndsIs
  <2>3. w = v
    BY <2>2, OwnEnd
  <2> QED BY <1>15, <2>2, <2>3
<1>16. ASSUME BotLoads \/ BotSaves \/ BotRestarts PROVE FALSE
  BY <1>16 DEF BotLoads, BotSaves, BotRestarts
<1>17. ASSUME NEW p \in Processes, Crashes(p) PROVE work'[w].ended = "none"
  <2>1. work'[w] = NoWork \/ work'[w] = work[w]
    BY <1>0, <1>17, CrashIs
  <2>2. NoWork.ended = "none"
    BY DEF NoWork
  <2> QED BY <1>0, <2>1, <2>2
<1>18. ASSUME UNCHANGED backupVars PROVE FALSE
  BY <1>18 DEF backupVars
<1> QED
  BY <1>1, <1>2, <1>3, <1>4, <1>5, <1>6, <1>7, <1>8, <1>9, <1>10, <1>11, <1>12, <1>13, <1>14, <1>15,
     <1>16, <1>17, <1>18 DEF BackupsNext

(* A job that makes a backup and fails early, was not restoring yet.        *)
LEMMA RollsBackClean ==
    ASSUME BackInv, [BackupsNext]_backupVars, NEW w \in Workers, Restoring(w),
           work'[w].at = "idle", work'[w].ended = "rolled back"
    PROVE  doc'.by # work[w].id
<1>0. BackTypes /\ Shapes /\ Traced /\ Making(w) /\ work[w].id \in BackupIds /\ work[w].at # "idle"
  BY DEF BackInv, Shapes, Shaped, Making, Restoring
<1>1. work[w].at \in Writing => ~By(work[w].id)
  BY <1>0 DEF Traced, Traces
<1>2. work[w].at \in Writing => doc.by # work[w].id
  BY <1>1 DEF By
<1>3. CASE LoadToWrite(w)
  <2>1. /\ work[w].at \in {"apply", "undo", "commit"} /\ doc' = doc
        /\ \/ work'[w] = [work[w] EXCEPT !.at = NextStep(work[w].at)]
           \/ Ended(w, GivesUp(work[w].at))
    BY <1>0, <1>3, LoadIs
  <2>2. work'[w] # [work[w] EXCEPT !.at = NextStep(work[w].at)]
    BY <1>0, <2>1 DEF NextStep, BackTypes, Works
  <2>3. work[w].at = "apply"
    BY <2>1, <2>2 DEF Ended, GivesUp
  <2> QED BY <1>2, <2>1, <2>3 DEF Writing
<1>4. CASE UndoReads(w)
  <2>1. work'[w].ended = "manual"
    BY <1>0, <1>4, UndoReadsLater
  <2> QED BY <2>1
<1>5. CASE Undoes(w)
  BY <1>0, <1>5, UndoesLater
<1>6. CASE WriteFails(w)
  <2>1. /\ work[w].at \in {"applying", "undoing", "committing"} /\ doc' = doc
        /\ Ended(w, FailsAs(work[w].at))
    BY <1>0, <1>6, FailsIs
  <2>2. work[w].at = "applying"
    BY <2>1 DEF Ended, FailsAs
  <2> QED BY <1>2, <2>1, <2>2 DEF Writing
<1> QED BY <1>0, <1>3, <1>4, <1>5, <1>6, WhoEnds

(* A restore that ends as rolled back has left nothing of what it wrote in  *)
(* the document: its id is new, and until it has written no copy of the     *)
(* document, in memory, in a backup or in the bot, is by it.  This holds    *)
(* with any number of processes and whatever fails.                         *)
THEOREM RollsBackLeavingNothing == BackupsSpec => RolledBackLeavesNothing
<1>1. BackInv /\ [BackupsNext]_backupVars =>
        [\A w \in Workers :
           /\ work[w].job = "restore" /\ work[w].at # "idle"
           /\ work'[w].at = "idle" /\ work'[w].ended = "rolled back"
           => doc'.by # work[w].id]_backupVars
  BY RollsBackClean DEF Restoring
<1> QED BY <1>1, BackAlways, PTL DEF RolledBackLeavesNothing, BackupsSpec

---------------------------------------------------------------------------
(* With one portal process.                                                 *)

Begins(w) ==
    /\ OthersStay(w) /\ work[w].at = "idle"
    /\ work'[w].at = "publish" /\ work'[w].job \in {"create", "restore"} /\ work'[w].id = NextId
    /\ work'[w].job = "restore" => work'[w].from \in BackupIds /\ dirs[work'[w].from] # NoDir
    /\ UNCHANGED <<dirs, catalog, retired, reported>>

LEMMA StepKinds ==
    ASSUME BackInv, [BackupsNext]_backupVars
    PROVE  \/ Aside
           \/ \E w \in Workers :
                \/ Begins(w) \/ Later(w)
                \/ Publish(w) \/ ReadCatalog(w) \/ SaveCatalog(w) \/ Trim(w) \/ SaveTrimmed(w)
           \/ \E p \in Processes : Crashes(p)
<1>0. BackTypes /\ Shapes /\ OneAtATime /\ Traced
  BY DEF BackInv, Shapes
<1>1. ASSUME NEW w \in Workers, CreateBackup(w) PROVE Begins(w)
  <2>1. work[w].at = "idle" /\ Staged(w, "create", 0) /\ UNCHANGED <<dirs, catalog, retired, reported>>
    BY <1>1 DEF CreateBackup
  <2>2. OthersStay(w) /\ work'[w].at = "publish" /\ work'[w].job = "create" /\ work'[w].id = NextId
    BY <1>0, <2>1, StagedIs
  <2> QED BY <2>1, <2>2 DEF Begins
<1>2. ASSUME NEW w \in Workers, NEW i \in BackupIds, PreviewRestore(w, i) PROVE Aside
  BY <1>0, <1>2, PreviewAside
<1>3. ASSUME NEW w \in Workers, NEW p \in previews[Home[w]], RestoreBackup(w, p)
      PROVE  Aside \/ Begins(w)
  <2>1. CASE ~(Listed(p.id) /\ p.same /\ p.rev = Revision(doc))
    BY <1>0, <1>3, <2>1, RestoreAside
  <2>2. CASE Listed(p.id) /\ p.same /\ p.rev = Revision(doc)
    <3>1. /\ work[w].at = "idle" /\ Staged(w, "restore", p.id)
          /\ UNCHANGED <<dirs, catalog, retired, reported>>
      BY <1>3, <2>2 DEF RestoreBackup
    <3>2. p.id \in BackupIds /\ dirs[p.id] # NoDir
      BY <1>0, <2>2 DEF Listed, Readable, BackTypes
    <3>3. /\ OthersStay(w) /\ work'[w].at = "publish" /\ work'[w].job = "restore"
          /\ work'[w].id = NextId /\ work'[w].from = p.id
      BY <1>0, <3>1, <3>2, StagedIs
    <3> QED BY <3>1, <3>2, <3>3 DEF Begins
  <2> QED BY <2>1, <2>2
<1>4. ASSUME NEW w \in Workers, LoadToWrite(w) PROVE Aside \/ Later(w)
  BY <1>0, <1>4, LoadAside, LoadLater
<1>5. ASSUME NEW w \in Workers, Applies(w) \/ UndoReads(w) \/ Undoes(w) PROVE Later(w)
  BY <1>0, <1>5, AppliesLater, UndoReadsLater, UndoesLater
<1>6. ASSUME NEW w \in Workers, WriteFails(w) PROVE Aside \/ Later(w)
  BY <1>0, <1>6, FailsAside, FailsLater
<1>7. ASSUME NEW w \in Workers, NEW c \in Channels, ViewsConfig(w, c) PROVE Aside
  BY <1>0, <1>7, ViewsAside
<1>8. ASSUME NEW w \in Workers, Commits(w) PROVE Aside
  BY <1>0, <1>8, CommitsAside
<1>9. ASSUME BotLoads \/ BotSaves \/ BotRestarts PROVE Aside
  BY <1>0, <1>9, BotAside
<1>10. ASSUME UNCHANGED backupVars PROVE Aside
  BY <1>0, <1>10, StutterAside
<1> QED BY <1>1, <1>2, <1>3, <1>4, <1>5, <1>6, <1>7, <1>8, <1>9, <1>10 DEF BackupsNext

(* One job that makes a backup at a time.                                   *)
LEMMA OneMaker ==
    ASSUME OneAtATime, SingleProcess, NEW v \in Workers, NEW w \in Workers, Making(v), Making(w)
    PROVE  v = w
BY DEF OneAtATime, SingleProcess

LEMMA OneMakerNext ==
    ASSUME OneAtATime', SingleProcess, NEW v \in Workers, NEW w \in Workers, Making(v)', Making(w)'
    PROVE  v = w
BY DEF OneAtATime, SingleProcess

(* A worker that another's step leaves alone.                               *)
LEMMA MakesOn ==
    ASSUME NEW w \in Workers, OthersStay(w), NEW v \in Workers, v # w, Making(v)'
    PROVE  Making(v) /\ SameJob(v)
BY DEF OthersStay, SameJob, Making

(* While a worker makes a backup, no other does.                            *)
LEMMA MakesAlone ==
    ASSUME OneAtATime, SingleProcess, NEW w \in Workers, OthersStay(w), Making(w),
           NEW v \in Workers, Making(v)'
    PROVE  v = w
BY MakesOn, OneMaker

PublishedAs(w, at, gone, fails) ==
    /\ gone \subseteq Readable(catalog) /\ gone \cap active[Home[w]] = {}
    /\ \A i \in gone : dirs'[i] = NoDir
    /\ \A i \in BackupIds : i \notin gone /\ i # work[w].id => dirs'[i] = dirs[i]
    /\ work[w].id \notin gone =>
         dirs'[work[w].id] = IF fails THEN dirs[work[w].id]
                             ELSE [doc |-> work[w].seen, at |-> at, safety |-> work[w].job = "restore"]

LEMMA PublishPick ==
    ASSUME BackTypes, Shapes, NEW w \in Workers, Publish(w)
    PROVE  /\ Making(w) /\ work[w].id \in BackupIds
           /\ \E cat \in CatalogReads, at \in Stamps(work[w].id) :
                \E gone \in SUBSET BackupIds, fails \in BOOLEAN :
                  PublishesTo(w, cat, at, gone, fails) /\ PublishedAs(w, at, gone, fails)
<1>1. PICK cat \in CatalogReads, at \in Stamps(work[w].id) :
        \E gone \in SUBSET BackupIds, fails \in BOOLEAN : PublishesTo(w, cat, at, gone, fails)
  BY PublishIs
<1>2. PICK gone \in SUBSET BackupIds, fails \in BOOLEAN : PublishesTo(w, cat, at, gone, fails)
  BY <1>1
<1>3. Making(w) /\ work[w].id \in BackupIds
  BY MakingIs DEF Publish, Storing
<1>4. gone \subseteq Readable(catalog) /\ gone \cap active[Home[w]] = {}
  <2>1. gone \subseteq Retired(cat, 1, active[Home[w]])
    BY <1>2 DEF PublishesTo
  <2> QED BY <2>1, RetiredIs
<1>5. dirs' = [i \in BackupIds |->
                 IF i \in gone THEN NoDir
                 ELSE IF i = work[w].id /\ ~fails
                      THEN [doc |-> work[w].seen, at |-> at, safety |-> work[w].job = "restore"]
                      ELSE dirs[i]]
  BY <1>2 DEF PublishesTo
<1>6. /\ \A i \in gone : dirs'[i] = NoDir
      /\ \A i \in BackupIds : i \notin gone /\ i # work[w].id => dirs'[i] = dirs[i]
      /\ work[w].id \notin gone =>
           dirs'[work[w].id] = IF fails THEN dirs[work[w].id]
                               ELSE [doc |-> work[w].seen, at |-> at,
                                     safety |-> work[w].job = "restore"]
  BY <1>3, <1>5
<1>7. PublishedAs(w, at, gone, fails)
  BY <1>4, <1>6 DEF PublishedAs
<1> QED BY <1>2, <1>3, <1>7

LEMMA RecordIsDir == \A d, a, s : [doc |-> d, at |-> a, safety |-> s] # NoDir
<1>1. \A d, a, s : DOMAIN [doc |-> d, at |-> a, safety |-> s] = {"doc", "at", "safety"}
  OBVIOUS
<1>2. DOMAIN NoDir = {"none"} /\ {"none"} # {"doc", "at", "safety"}
  BY DEF NoDir
<1> QED BY <1>1, <1>2

LEMMA KeptStep ==
    ASSUME SingleProcess, BackInv, RestoringIsKept, [BackupsNext]_backupVars
    PROVE  RestoringIsKept'
<1>0. BackTypes /\ Shapes /\ OneAtATime /\ Traced
  BY DEF BackInv, Shapes
<1> SUFFICES ASSUME NEW v \in Workers, Restoring(v)' PROVE dirs'[work'[v].from] # NoDir
  BY DEF RestoringIsKept, Restoring
<1>1. ASSUME Restoring(v), SameJob(v)
      PROVE  /\ work'[v].from = work[v].from /\ dirs[work[v].from] # NoDir
             /\ work[v].from \in BackupIds /\ \A w \in Workers : work[v].from \in active[Home[w]]
  <2>1. work[v].from \in active[Home[v]] /\ \A w \in Workers : Home[w] = Home[v]
    BY <1>0, <1>1 DEF OneAtATime, SingleProcess
  <2>2. work[v].from \in BackupIds
    BY <1>0, <1>1 DEF Shapes, Shaped, Restoring
  <2> QED BY <1>1, <2>1, <2>2 DEF SameJob, RestoringIsKept, Restoring
<1>2. CASE Aside
  <2>1. dirs' = dirs /\ Restoring(v) /\ SameJob(v)
    BY <1>2 DEF Aside, Restoring, Making, SameJob
  <2> QED BY <1>1, <2>1
<1>3. ASSUME NEW w \in Workers, OthersStay(w), v # w PROVE Restoring(v) /\ SameJob(v)
  BY <1>3 DEF OthersStay, SameJob, Restoring
<1>4. ASSUME NEW w \in Workers, Begins(w) PROVE dirs'[work'[v].from] # NoDir
  <2>1. OthersStay(w) /\ dirs' = dirs
    BY <1>4 DEF Begins
  <2>2. CASE v = w
    BY <1>4, <2>1, <2>2 DEF Begins, Restoring
  <2>3. CASE v # w
    BY <1>1, <1>3, <2>1, <2>3
  <2> QED BY <2>2, <2>3
<1>5. ASSUME NEW w \in Workers, Later(w) PROVE dirs'[work'[v].from] # NoDir
  <2>1. OthersStay(w) /\ dirs' = dirs /\ Restoring(w)
    BY <1>5 DEF Later
  <2>2. CASE v = w
    <3>1. work'[v].from = work[v].from
      BY <1>5, <2>2 DEF Later, Restoring
    <3> QED BY <2>1, <2>2, <3>1 DEF RestoringIsKept, Restoring
  <2>3. CASE v # w
    BY <1>1, <1>3, <2>1, <2>3
  <2> QED BY <2>2, <2>3
<1>6. ASSUME NEW w \in Workers, OthersStay(w), v # w \/ (Restoring(v) /\ work'[v].from = work[v].from)
      PROVE  /\ work'[v].from = work[v].from /\ dirs[work[v].from] # NoDir
             /\ work[v].from \in BackupIds /\ work[v].from \in active[Home[w]]
  <2>1. Restoring(v) /\ work'[v].from = work[v].from
    BY <1>3, <1>6 DEF SameJob
  <2>2. work[v].from \in active[Home[v]] /\ Home[w] = Home[v]
    BY <1>0, <2>1 DEF OneAtATime, SingleProcess
  <2>3. work[v].from \in BackupIds
    BY <1>0, <2>1 DEF Shapes, Shaped, Restoring
  <2> QED BY <2>1, <2>2, <2>3 DEF RestoringIsKept, Restoring
<1>7. ASSUME NEW w \in Workers, Publish(w) PROVE dirs'[work'[v].from] # NoDir
  <2>0. PICK cat \in CatalogReads, at \in Stamps(work[w].id) :
          \E gone \in SUBSET BackupIds, fails \in BOOLEAN :
            PublishesTo(w, cat, at, gone, fails) /\ PublishedAs(w, at, gone, fails)
    BY <1>0, <1>7, PublishPick
  <2>1. PICK gone \in SUBSET BackupIds, fails \in BOOLEAN :
          PublishesTo(w, cat, at, gone, fails) /\ PublishedAs(w, at, gone, fails)
    BY <2>0
  <2>2. OthersStay(w) /\ work[w] \in Works
    BY <1>0, <2>1 DEF PublishesTo, BackTypes
  <2>3. v = w => Restoring(v) /\ work'[v].from = work[v].from
    <3>1. ASSUME v = w PROVE ~fails
      BY <2>1, <3>1 DEF PublishesTo, Restoring
    <3>2. ASSUME v = w PROVE work'[v] = [work[v] EXCEPT !.at = "list"]
      BY <2>1, <3>1, <3>2 DEF PublishesTo
    <3>3. ASSUME v = w PROVE work[v].at = "publish"
      BY <1>7, <3>3 DEF Publish
    <3> QED BY <2>2, <3>2, <3>3 DEF Works, Restoring
  <2>4. /\ work'[v].from = work[v].from /\ dirs[work[v].from] # NoDir
        /\ work[v].from \in BackupIds /\ work[v].from \in active[Home[w]]
    BY <1>6, <2>2, <2>3
  <2>5. work[v].from \notin gone
    BY <2>1, <2>4 DEF PublishedAs
  <2> QED BY <2>1, <2>4, <2>5, RecordIsDir DEF PublishedAs
<1>8. ASSUME NEW w \in Workers, ReadCatalog(w) \/ SaveCatalog(w) \/ SaveTrimmed(w)
      PROVE  dirs'[work'[v].from] # NoDir
  <2>1. Stored(w) /\ dirs' = dirs /\ work[w].at # "idle"
    BY <1>0, <1>8, ReadsStored, SavesStored, SavesTrimmedStored DEF ReadCatalog, SaveCatalog, SaveTrimmed
  <2>2. OthersStay(w)
    BY <2>1 DEF Stored
  <2>3. v = w => Restoring(v) /\ work'[v].from = work[v].from
    <3>1. ASSUME ReadCatalog(w) PROVE work'[w].job = work[w].job /\ work'[w].from = work[w].from
      BY <1>0, <3>1, ReadCatalogIs
    <3>2. ASSUME SaveCatalog(w) PROVE work'[w].job = work[w].job /\ work'[w].from = work[w].from
      <4>1. work'[w] = [work[w] EXCEPT !.at = "trim"] /\ work[w] \in Works
        BY <1>0, <3>2, SaveCatalogIs DEF BackTypes
      <4> QED BY <4>1 DEF Works
    <3>3. ASSUME SaveTrimmed(w), work'[w].at # "idle"
          PROVE  work'[w].job = work[w].job /\ work'[w].from = work[w].from
      <4>1. work[w].at = "trimmed" /\ Announced(w, {})
        BY <3>3 DEF SaveTrimmed
      <4> QED BY <1>0, <3>3, <4>1, AnnouncedIs
    <3> QED BY <1>8, <2>1, <3>1, <3>2, <3>3 DEF Restoring
  <2> QED BY <1>6, <2>1, <2>2, <2>3
<1>9. ASSUME NEW w \in Workers, Trim(w) PROVE dirs'[work'[v].from] # NoDir
  <2>1. PICK cat \in CatalogReads : \E gone \in SUBSET BackupIds : TrimsTo(w, cat, gone)
    BY <1>0, <1>9, TrimIs
  <2>2. PICK gone \in SUBSET BackupIds : TrimsTo(w, cat, gone)
    BY <2>1
  <2>3. gone \cap active[Home[w]] = {} /\ OthersStay(w) /\ work[w].at = "trim"
    BY <1>9, <2>2, RetiredIs DEF TrimsTo, Trim
  <2>4. v = w => Restoring(v) /\ work'[v].from = work[v].from
    <3>1. ASSUME gone = {}, v = w PROVE work[v].job = "restore" /\ work'[v].from = work[v].from
      <4>1. Announced(w, {})
        BY <2>2, <3>1 DEF TrimsTo
      <4> QED BY <1>0, <2>3, <3>1, <4>1, AnnouncedIs DEF Restoring
    <3>2. ASSUME gone # {}, v = w PROVE work[v].job = "restore" /\ work'[v].from = work[v].from
      BY <2>2, <3>2 DEF TrimsTo, Restoring
    <3> QED BY <2>3, <3>1, <3>2 DEF Restoring
  <2>5. /\ work'[v].from = work[v].from /\ dirs[work[v].from] # NoDir
        /\ work[v].from \in BackupIds /\ work[v].from \in active[Home[w]]
    BY <1>6, <2>3, <2>4
  <2>6. dirs' = [i \in BackupIds |-> IF i \in gone THEN NoDir ELSE dirs[i]]
    BY <2>2 DEF TrimsTo
  <2> QED BY <2>3, <2>5, <2>6
<1>10. ASSUME NEW p \in Processes, Crashes(p) PROVE dirs'[work'[v].from] # NoDir
  <2>1. dirs' = dirs /\ (work'[v] = NoWork \/ work'[v] = work[v])
    BY <1>0, <1>10, CrashIs
  <2>2. work'[v] = work[v]
    BY <2>1, NoWorkIs DEF Restoring
  <2> QED BY <2>1, <2>2 DEF RestoringIsKept, Restoring
<1> QED BY <1>2, <1>4, <1>5, <1>7, <1>8, <1>9, <1>10, StepKinds

(* "protected": what a restore is about to write is not removed under it by *)
(* the retention of any worker of its process, whatever fails.              *)
THEOREM RestoringKept ==
    ASSUME SingleProcess
    PROVE  BackupsSpec => []RestoringIsKept
<1>1. BackupsInit => RestoringIsKept
  BY NoWorkIs DEF BackupsInit, RestoringIsKept
<1>2. BackInv /\ RestoringIsKept /\ [BackupsNext]_backupVars => RestoringIsKept'
  BY KeptStep
<1> QED BY <1>1, <1>2, BackAlways, PTL DEF BackupsSpec

(* Of the backups of a catalogue at most Retention are not retired: each is *)
(* told from the others by how many are newer.                              *)
LEMMA RetentionCounts ==
    ASSUME BackTypes, NEW cat \in SUBSET BackupIds, \A i \in cat : dirs[i] # NoDir
    PROVE  /\ IsFiniteSet(cat)
           /\ Cardinality(cat \ Retired(cat, 0, {})) <= Retention
<1> DEFINE newer(i) == {j \in cat : \/ dirs[j].at > dirs[i].at
                                    \/ dirs[j].at = dirs[i].at /\ j > i}
           K == cat \ Retired(cat, 0, {})
           rank == [i \in K |-> Cardinality(newer(i))]
<1>1. Retention \in Nat /\ Retention > 0 /\ MaxBackups \in Nat /\ BackupIds = 1 .. MaxBackups
  BY BackupsAssumption DEF BackupIds
<1>2. IsFiniteSet(BackupIds)
  BY <1>1, FS_Interval
<1>3. IsFiniteSet(cat)
  BY <1>2, FS_Subset
<1>4. \A i \in cat : i \in Nat /\ dirs[i].at \in Nat
  <2> SUFFICES ASSUME NEW i \in cat PROVE i \in Nat /\ dirs[i].at \in Nat
    OBVIOUS
  <2>1. dirs[i] \in Directories /\ i \in 1 .. MaxBackups
    BY <1>1 DEF BackTypes
  <2>2. dirs[i].at \in 0 .. MaxBackups
    BY <2>1 DEF Directories
  <2> QED BY <1>1, <2>1, <2>2
<1>5. \A i \in cat : IsFiniteSet(newer(i)) /\ Cardinality(newer(i)) \in Nat
  <2> TAKE i \in cat
  <2>1. newer(i) \in SUBSET cat
    OBVIOUS
  <2>2. IsFiniteSet(newer(i))
    BY <1>3, <2>1, FS_Subset
  <2> QED BY <2>2, FS_CardinalityType
<1>6. \A i \in cat : i \in K <=> ~(Cardinality(newer(i)) + 0 >= Retention)
  BY DEF Retired
<1>7. \A i \in K : i \in cat /\ Cardinality(newer(i)) \in 0 .. (Retention - 1)
  <2> SUFFICES ASSUME NEW i \in K PROVE i \in cat /\ Cardinality(newer(i)) \in 0 .. (Retention - 1)
    OBVIOUS
  <2>1. i \in cat
    OBVIOUS
  <2>2. Cardinality(newer(i)) \in Nat /\ ~(Cardinality(newer(i)) + 0 >= Retention)
    BY <1>5, <1>6, <2>1
  <2> QED BY <1>1, <2>1, <2>2
<1>8. ASSUME NEW i \in cat, NEW j \in cat, j \in newer(i)
      PROVE  Cardinality(newer(j)) < Cardinality(newer(i))
  <2>1. \A k \in cat : k \in newer(j) => k \in newer(i)
    BY <1>4, <1>8
  <2>2. j \notin newer(j)
    BY <1>4
  <2>3. newer(j) \cup {j} \in SUBSET newer(i)
    BY <1>8, <2>1
  <2>4. Cardinality(newer(j) \cup {j}) = Cardinality(newer(j)) + 1
    BY <1>5, <2>2, FS_AddElement
  <2>5. Cardinality(newer(j) \cup {j}) <= Cardinality(newer(i))
    BY <1>5, <2>3, FS_Subset
  <2>6. Cardinality(newer(i)) \in Nat /\ Cardinality(newer(j)) \in Nat
    BY <1>5
  <2> HIDE DEF newer
  <2> QED BY <2>4, <2>5, <2>6
<1>9. \A i, j \in cat : i = j \/ j \in newer(i) \/ i \in newer(j)
  BY <1>4
<1>10. \A i, j \in K : Cardinality(newer(i)) = Cardinality(newer(j)) => i = j
  <2> SUFFICES ASSUME NEW i \in K, NEW j \in K, Cardinality(newer(i)) = Cardinality(newer(j)), i # j
               PROVE  FALSE
    OBVIOUS
  <2>1. i \in cat /\ j \in cat /\ Cardinality(newer(i)) \in Nat /\ Cardinality(newer(j)) \in Nat
    BY <1>5
  <2>2. j \in newer(i) \/ i \in newer(j)
    BY <1>9, <2>1
  <2> QED BY <1>8, <2>1, <2>2
<1>11. IsFiniteSet(0 .. (Retention - 1)) /\ Cardinality(0 .. (Retention - 1)) = Retention
  BY <1>1, FS_Interval
<1> HIDE DEF newer, K
<1>12. rank \in Injection(K, 0 .. (Retention - 1))
  <2>1. rank \in [K -> 0 .. (Retention - 1)]
    BY <1>7
  <2>2. \A i, j \in K : rank[i] = rank[j] => i = j
    BY <1>10
  <2> QED BY <2>1, <2>2 DEF Injection, IsInjective
<1> HIDE DEF rank
<1>13. Cardinality(K) <= Retention
  BY <1>11, <1>12, FS_Injection
<1> QED BY <1>3, <1>13 DEF K

(* The catalogue as one worker under the lock reads and writes it.          *)
LEMMA CatalogIs ==
    ASSUME "catalog" \notin BackupFaults, NEW cat \in CatalogReads
    PROVE  cat = Readable(catalog)
BY DEF CatalogReads

(* A create has nothing to protect from retention.                          *)
LEMMA CreateHoldsNone ==
    ASSUME BackTypes, OneAtATime, NEW w \in Workers, Making(w), work[w].job = "create"
    PROVE  active[Home[w]] = {}
<1>1. Home[w] \in Processes /\ active[Home[w]] \subseteq BackupIds
  BY DEF Processes, BackTypes
<1>2. \A v \in Workers : Restoring(v) /\ Home[v] = Home[w] => v = w
  BY DEF OneAtATime, Making, Restoring
<1>3. ~Restoring(w)
  BY DEF Restoring
<1> QED BY <1>1, <1>2, <1>3 DEF OneAtATime

LEMMA ReadableSame ==
    ASSUME dirs' = dirs, catalog' = catalog
    PROVE  Readable(catalog)' = Readable(catalog)
BY DEF Readable

(* What a trim leaves.                                                      *)
LEMMA TrimLeaves ==
    ASSUME BackInv, "catalog" \notin BackupFaults, NEW w \in Workers, Trim(w)
    PROVE  \E gone \in SUBSET BackupIds :
             /\ TrimsTo(w, Readable(catalog), gone)
             /\ Readable(catalog)' = Readable(catalog) \ gone
             /\ work[w].job = "create" => Cardinality(Readable(catalog) \ gone) <= Retention
<1>0. BackTypes /\ Shapes /\ OneAtATime
  BY DEF BackInv, Shapes
<1>1. PICK cat \in CatalogReads : \E gone \in SUBSET BackupIds : TrimsTo(w, cat, gone)
  BY <1>0, TrimIs
<1>2. PICK gone \in SUBSET BackupIds : TrimsTo(w, cat, gone)
  BY <1>1
<1>3. cat = Readable(catalog)
  BY CatalogIs
<1>4. /\ dirs' = [i \in BackupIds |-> IF i \in gone THEN NoDir ELSE dirs[i]] /\ catalog' = catalog
      /\ gone = Retired(cat, 0, active[Home[w]]) /\ work[w].at = "trim" /\ catalog \subseteq BackupIds
  BY <1>0, <1>2 DEF TrimsTo, Trim, BackTypes
<1>5. Readable(catalog)' = Readable(catalog) \ gone
  BY <1>4 DEF Readable
<1>6. ASSUME work[w].job = "create" PROVE Cardinality(Readable(catalog) \ gone) <= Retention
  <2>1. active[Home[w]] = {}
    BY <1>0, <1>4, <1>6, MakingIs, CreateHoldsNone DEF Storing
  <2>2. cat \in SUBSET BackupIds /\ \A i \in cat : dirs[i] # NoDir
    BY <1>3, <1>4 DEF Readable
  <2>3. Cardinality(cat \ Retired(cat, 0, {})) <= Retention
    BY <1>0, <2>2, RetentionCounts
  <2> QED BY <1>3, <1>4, <2>1, <2>3
<1>7. TrimsTo(w, Readable(catalog), gone)
  BY <1>2, <1>3
<1> QED BY <1>5, <1>6, <1>7

LEMMA KnownPublish ==
    ASSUME SingleProcess, "catalog" \notin BackupFaults, BackInv, CatalogKnown,
           NEW w \in Workers, Publish(w)
    PROVE  CatalogKnown'
<1>0. BackTypes /\ Shapes /\ OneAtATime /\ Making(w)
  BY MakingIs DEF BackInv, Shapes, Publish, Storing
<1>1. PICK cat \in CatalogReads, at \in Stamps(work[w].id) :
        \E gone \in SUBSET BackupIds, fails \in BOOLEAN :
          PublishesTo(w, cat, at, gone, fails) /\ PublishedAs(w, at, gone, fails)
  BY <1>0, PublishPick
<1>2. PICK gone \in SUBSET BackupIds, fails \in BOOLEAN :
        PublishesTo(w, cat, at, gone, fails) /\ PublishedAs(w, at, gone, fails)
  BY <1>1
<1>3. cat = Readable(catalog)
  BY CatalogIs
<1>4. /\ OthersStay(w) /\ retired' = retired \cup gone /\ reported' = reported
      /\ catalog' = (IF gone = {} THEN catalog ELSE cat \ gone)
      /\ fails => work'[w].at = "idle"
      /\ ~fails => work'[w] = [work[w] EXCEPT !.at = "list"]
  BY <1>2 DEF PublishesTo
<1>5. work[w] \in Works /\ work[w].id \in BackupIds
  BY <1>0, MakingIs DEF Publish, Storing, BackTypes
<1>6. \A i \in BackupIds : i \notin gone /\ dirs[i] # NoDir => dirs'[i] # NoDir
  BY <1>2, RecordIsDir DEF PublishedAs
<1>7. \A i \in Readable(catalog) : i \in gone \/ i \in catalog'
  BY <1>3, <1>4 DEF Readable
<1>8. Readable(catalog) \subseteq Readable(catalog)' \cup retired'
  BY <1>0, <1>4, <1>6, <1>7 DEF Readable, BackTypes
<1>9. reported' \subseteq Readable(catalog)' \cup retired'
  BY <1>4, <1>8 DEF CatalogKnown
<1>10. Making(w)' => Knows(w)'
  <2> SUFFICES ASSUME Making(w)' PROVE Knows(w)'
    OBVIOUS
  <2>1. ~fails
    BY <1>4 DEF Making
  <2>2. work'[w].at = "list" /\ work'[w].id = work[w].id
    BY <1>4, <1>5, <2>1 DEF Works
  <2>3. work[w].id \notin gone
    <3>1. ~Made(work[w].id)
      BY <1>0, <1>5 DEF BackInv, Traced, Traces, Publish
    <3> QED BY <1>2, <3>1 DEF PublishedAs, Readable, Made
  <2>4. dirs'[work[w].id] # NoDir
    BY <1>2, <2>1, <2>3, RecordIsDir DEF PublishedAs
  <2> QED BY <2>2, <2>4 DEF Knows
<1>11. \A v \in Workers : Making(v)' => Knows(v)'
  BY <1>0, <1>4, <1>10, MakesAlone
<1> QED BY <1>9, <1>11 DEF CatalogKnown

LEMMA KnownTrim ==
    ASSUME SingleProcess, "catalog" \notin BackupFaults, BackInv, CatalogKnown,
           NEW w \in Workers, Trim(w)
    PROVE  CatalogKnown'
<1>0. BackTypes /\ Shapes /\ OneAtATime /\ Making(w) /\ work[w].at = "trim"
  BY MakingIs DEF BackInv, Shapes, Trim, Storing
<1>1. PICK gone \in SUBSET BackupIds :
        /\ TrimsTo(w, Readable(catalog), gone)
        /\ Readable(catalog)' = Readable(catalog) \ gone
        /\ work[w].job = "create" => Cardinality(Readable(catalog) \ gone) <= Retention
  BY TrimLeaves
<1>2. /\ OthersStay(w) /\ retired' = retired \cup gone
      /\ gone = {} => Announced(w, {})
      /\ gone # {} => /\ work'[w].at = "trimmed" /\ work'[w].job = work[w].job
                      /\ work'[w].id = work[w].id /\ work'[w].cat = Readable(catalog) \ gone
                      /\ reported' = reported
  BY <1>1 DEF TrimsTo
<1>3. Knows(w) /\ work[w].id \in Readable(catalog)
  BY <1>0 DEF CatalogKnown, Knows
<1>4. Readable(catalog) \subseteq Readable(catalog)' \cup retired'
  BY <1>1, <1>2
<1>5. CASE gone = {}
  <2>1. \/ work'[w].at = "apply" /\ reported' = reported
        \/ work'[w].at = "idle" /\ reported' = reported \cup {work[w].id}
    BY <1>0, <1>2, <1>5, AnnouncedIs
  <2>2. reported' \subseteq Readable(catalog)' \cup retired'
    <3>1. reported' \subseteq reported \cup {work[w].id}
      BY <2>1
    <3>2. reported \subseteq Readable(catalog) \cup retired
      BY DEF CatalogKnown
    <3> QED BY <1>2, <1>3, <1>4, <3>1, <3>2
  <2>3. Making(w)' => Knows(w)'
    BY <2>1 DEF Making, Knows
  <2>4. \A v \in Workers : Making(v)' => Knows(v)'
    BY <1>0, <1>2, <2>3, MakesAlone
  <2> QED BY <2>2, <2>4 DEF CatalogKnown
<1>6. CASE gone # {}
  <2>1. reported' \subseteq Readable(catalog)' \cup retired'
    BY <1>2, <1>4, <1>6 DEF CatalogKnown
  <2>2. work[w].id \in Readable(catalog)' \cup retired'
    BY <1>3, <1>4
  <2>3. Knows(w)'
    BY <1>1, <1>2, <1>6, <2>2 DEF Knows
  <2>4. \A v \in Workers : Making(v)' => Knows(v)'
    BY <1>0, <1>2, <2>3, MakesAlone
  <2> QED BY <2>1, <2>4 DEF CatalogKnown
<1> QED BY <1>5, <1>6

LEMMA KnownSaves ==
    ASSUME SingleProcess, "catalog" \notin BackupFaults, BackInv, CatalogKnown,
           NEW w \in Workers, ReadCatalog(w) \/ SaveCatalog(w) \/ SaveTrimmed(w)
    PROVE  CatalogKnown'
<1>0. BackTypes /\ Shapes /\ OneAtATime /\ Making(w) /\ Knows(w) /\ work[w].id \in BackupIds
  BY MakingIs DEF BackInv, Shapes, ReadCatalog, SaveCatalog, SaveTrimmed, Storing, CatalogKnown
<1>1. CASE ReadCatalog(w)
  <2>1. PICK cat \in CatalogReads :
          /\ OthersStay(w) /\ work'[w].at = "listed" /\ work'[w].id = work[w].id /\ work'[w].cat = cat
    BY <1>0, <1>1, ReadCatalogIs
  <2>2. UNCHANGED <<dirs, catalog, reported, retired>> /\ cat = Readable(catalog) /\ work[w].at = "list"
    BY <1>1, CatalogIs DEF ReadCatalog
  <2>3. Readable(catalog)' = Readable(catalog)
    BY <2>2, ReadableSame
  <2>4. Knows(w)'
    BY <1>0, <2>1, <2>2, <2>3 DEF Knows
  <2>5. \A v \in Workers : Making(v)' => Knows(v)'
    BY <1>0, <2>1, <2>4, MakesAlone
  <2> QED BY <2>2, <2>3, <2>5 DEF CatalogKnown
<1>2. CASE SaveCatalog(w)
  <2>1. OthersStay(w) /\ work'[w] = [work[w] EXCEPT !.at = "trim"] /\ work[w] \in Works
    BY <1>0, <1>2, SaveCatalogIs DEF BackTypes
  <2>2. work'[w].at = "trim" /\ work'[w].id = work[w].id
    BY <2>1 DEF Works
  <2>3. /\ UNCHANGED <<dirs, reported, retired>> /\ work[w].at = "listed"
        /\ catalog' = work[w].cat \cup {work[w].id}
    BY <1>2 DEF SaveCatalog
  <2>4. catalog' = Readable(catalog) \cup {work[w].id} /\ dirs[work[w].id] # NoDir
    BY <1>0, <2>3 DEF Knows
  <2>5. Readable(catalog)' = Readable(catalog) \cup {work[w].id}
    BY <2>3, <2>4 DEF Readable
  <2>6. Knows(w)'
    BY <2>2, <2>5 DEF Knows
  <2>7. \A v \in Workers : Making(v)' => Knows(v)'
    BY <1>0, <2>1, <2>6, MakesAlone
  <2> QED BY <2>3, <2>5, <2>7 DEF CatalogKnown
<1>3. CASE SaveTrimmed(w)
  <2>1. /\ work[w].at = "trimmed" /\ catalog' = work[w].cat /\ Announced(w, {})
        /\ UNCHANGED <<dirs, retired>>
    BY <1>3 DEF SaveTrimmed
  <2>2. catalog' = Readable(catalog) /\ work[w].id \in Readable(catalog) \cup retired
    BY <1>0, <2>1 DEF Knows
  <2>3. Readable(catalog)' = Readable(catalog)
    BY <2>1, <2>2 DEF Readable
  <2>4. /\ OthersStay(w)
        /\ \/ work'[w].at = "apply" /\ reported' = reported
           \/ work'[w].at = "idle" /\ reported' = reported \cup {work[w].id}
    BY <1>0, <2>1, AnnouncedIs
  <2>5. Making(w)' => Knows(w)'
    BY <2>4 DEF Making, Knows
  <2>6. \A v \in Workers : Making(v)' => Knows(v)'
    BY <1>0, <2>4, <2>5, MakesAlone
  <2>7. reported' \subseteq Readable(catalog)' \cup retired'
    <3>1. reported' \subseteq reported \cup {work[w].id} /\ retired' = retired
      BY <2>1, <2>4
    <3>2. reported \subseteq Readable(catalog) \cup retired
      BY DEF CatalogKnown
    <3>3. reported' \subseteq Readable(catalog) \cup retired
      BY <2>2, <3>1, <3>2
    <3> QED BY <2>3, <3>1, <3>3
  <2> QED BY <2>6, <2>7 DEF CatalogKnown
<1> QED BY <1>1, <1>2, <1>3

LEMMA KnowsOn ==
    ASSUME UNCHANGED <<dirs, catalog, retired>>, NEW v \in Workers, SameJob(v), Knows(v)
    PROVE  Knows(v)'
<1>1. Readable(catalog)' = Readable(catalog)
  BY ReadableSame
<1> QED BY <1>1 DEF Knows, SameJob

LEMMA KnownStep ==
    ASSUME SingleProcess, "catalog" \notin BackupFaults, BackInv, CatalogKnown,
           [BackupsNext]_backupVars
    PROVE  CatalogKnown'
<1>1. CASE Aside
  <2>1. UNCHANGED <<dirs, catalog, retired, reported>>
    BY <1>1 DEF Aside
  <2>2. \A v \in Workers : Making(v)' => Making(v) /\ SameJob(v)
    BY <1>1 DEF Aside
  <2>3. \A v \in Workers : Making(v)' => Knows(v)'
    BY <2>1, <2>2, KnowsOn DEF CatalogKnown
  <2>4. Readable(catalog)' = Readable(catalog)
    BY <2>1, ReadableSame
  <2> QED BY <2>1, <2>3, <2>4 DEF CatalogKnown
<1>2. ASSUME NEW w \in Workers, Begins(w) \/ Later(w) PROVE CatalogKnown'
  <2>1. UNCHANGED <<dirs, catalog, retired, reported>> /\ OthersStay(w)
    BY <1>2 DEF Begins, Later
  <2>2. Making(w)' => work'[w].at \in {"publish"} \cup Writing \cup Undoing
    BY <1>2 DEF Begins, Later, Making
  <2>3. Making(w)' => Knows(w)'
    BY <2>2 DEF Knows, Writing, Undoing
  <2>4. \A v \in Workers : v # w /\ Making(v)' => Knows(v)'
    BY <2>1, MakesOn, KnowsOn DEF CatalogKnown
  <2>5. Readable(catalog)' = Readable(catalog)
    BY <2>1, ReadableSame
  <2> QED BY <2>1, <2>3, <2>4, <2>5 DEF CatalogKnown
<1>3. ASSUME NEW p \in Processes, Crashes(p) PROVE CatalogKnown'
  <2>1. /\ UNCHANGED <<dirs, catalog, retired, reported>>
        /\ \A v \in Workers : work'[v] = NoWork \/ work'[v] = work[v]
    BY <1>3, CrashIs DEF BackInv, Shapes
  <2>2. \A v \in Workers : Making(v)' => Making(v) /\ SameJob(v)
    BY <2>1, NoWorkIs DEF Making, SameJob
  <2>3. \A v \in Workers : Making(v)' => Knows(v)'
    BY <2>1, <2>2, KnowsOn DEF CatalogKnown
  <2>4. Readable(catalog)' = Readable(catalog)
    BY <2>1, ReadableSame
  <2> QED BY <2>1, <2>3, <2>4 DEF CatalogKnown
<1> QED BY <1>1, <1>2, <1>3, StepKinds, KnownPublish, KnownTrim, KnownSaves

LEMMA KnownAlways ==
    ASSUME SingleProcess, "catalog" \notin BackupFaults
    PROVE  BackupsSpec => []CatalogKnown
<1>1. BackupsInit => CatalogKnown
  BY NoWorkIs DEF BackupsInit, CatalogKnown, Making
<1>2. BackInv /\ CatalogKnown /\ [BackupsNext]_backupVars => CatalogKnown'
  BY KnownStep
<1> QED BY <1>1, <1>2, BackAlways, PTL DEF BackupsSpec

(* A backup that create_backup has returned stays listed until retention    *)
(* takes it, when one process works on the catalogue and can read it.       *)
THEOREM ReportedListed ==
    ASSUME SingleProcess, "catalog" \notin BackupFaults
    PROVE  BackupsSpec => []ReportedIsListed
<1>1. CatalogKnown => ReportedIsListed
  BY DEF CatalogKnown, ReportedIsListed, Readable
<1> QED BY <1>1, KnownAlways, PTL

(* A job that is not idle has not ended: the step that ends another's clears *)
(* how, and a new job begins with none.                                      *)
EndedOnce == \A w \in Workers : work[w].at # "idle" => work[w].ended = "none"

LEMMA EndedSet ==
    ASSUME BackTypes, EndedOnce, NEW w \in Workers, NEW r, work' = [work EXCEPT ![w] = r],
           r.at # "idle" => r.ended = "none"
    PROVE  EndedOnce'
<1>1. work \in [Workers -> Works]
  BY DEF BackTypes
<1> QED BY <1>1 DEF EndedOnce

LEMMA EndedBy ==
    ASSUME BackTypes, EndedOnce, NEW w \in Workers, NEW how, EndsWork(w, how)
    PROVE  EndedOnce'
<1>1. work \in [Workers -> Works]
  BY DEF BackTypes
<1>2. /\ \A v \in Workers : v # w => work'[v] = [work[v] EXCEPT !.ended = "none"]
      /\ work'[w] = [NoWork EXCEPT !.ended = how]
  BY DEF EndsWork
<1>3. work'[w].at = "idle"
  BY <1>2 DEF NoWork
<1>4. ASSUME NEW v \in Workers, v # w PROVE work'[v].ended = "none"
  <2>1. work[v] \in Works /\ work'[v] = [work[v] EXCEPT !.ended = "none"]
    BY <1>1, <1>2, <1>4
  <2> QED BY <2>1 DEF Works
<1> QED BY <1>3, <1>4 DEF EndedOnce

LEMMA EndedGo ==
    ASSUME BackTypes, EndedOnce, NEW w \in Workers, NEW step, Go(w, step), work[w].at # "idle"
    PROVE  EndedOnce'
<1>1. work' = [work EXCEPT ![w] = [work[w] EXCEPT !.at = step]] /\ work[w] \in Works
  BY DEF Go, BackTypes
<1>2. [work[w] EXCEPT !.at = step].ended = "none"
  BY <1>1 DEF EndedOnce, Works
<1> QED BY <1>1, <1>2, EndedSet

LEMMA EndedStaged ==
    ASSUME BackTypes, EndedOnce, NEW w \in Workers, NEW job, NEW from, Staged(w, job, from)
    PROVE  EndedOnce'
<1> DEFINE r == [NoWork EXCEPT !.at = "publish", !.job = job, !.id = NextId, !.from = from,
                               !.seen = doc, !.wanted = IF from = 0 THEN NoDoc ELSE dirs[from].doc]
<1>1. work' = [work EXCEPT ![w] = r]
  BY DEF Staged
<1>2. r.ended = "none"
  BY DEF NoWork
<1> HIDE DEF r
<1> QED BY <1>1, <1>2, EndedSet

LEMMA EndedAnnounced ==
    ASSUME BackTypes, EndedOnce, NEW w \in Workers, Announced(w, {}), work[w].at # "idle"
    PROVE  EndedOnce'
<1>1. CASE work[w].job = "restore"
  <2>1. work' = [work EXCEPT ![w].at = "apply", ![w].cat = {}] /\ work \in [Workers -> Works]
    BY <1>1 DEF Announced, BackTypes
  <2>2. work' = [work EXCEPT ![w] = [work[w] EXCEPT !.at = "apply", !.cat = {}]]
    BY <2>1 DEF Works
  <2>3. [work[w] EXCEPT !.at = "apply", !.cat = {}].ended = "none"
    BY <2>1 DEF EndedOnce, Works
  <2> QED BY <2>2, <2>3, EndedSet
<1>2. CASE work[w].job # "restore"
  BY <1>2, EndedBy DEF Announced
<1> QED BY <1>1, <1>2

LEMMA EndedStep ==
    ASSUME BackInv, EndedOnce, [BackupsNext]_backupVars
    PROVE  EndedOnce'
<1>0. BackTypes /\ Shapes
  BY DEF BackInv, Shapes
<1>1. ASSUME NEW w \in Workers, CreateBackup(w) PROVE EndedOnce'
  <2>1. Staged(w, "create", 0)
    BY <1>1 DEF CreateBackup
  <2> QED BY <1>0, <2>1, EndedStaged
<1>2. ASSUME NEW w \in Workers, Publish(w) PROVE EndedOnce'
  <2>1. work[w].at # "idle" /\ (EndsWork(w, "full") \/ Go(w, "list"))
    BY <1>2 DEF Publish
  <2> QED BY <1>0, <2>1, EndedBy, EndedGo
<1>3. ASSUME NEW w \in Workers, ReadCatalog(w) PROVE EndedOnce'
  <2>1. PICK cat \in CatalogReads : work' = [work EXCEPT ![w].at = "listed", ![w].cat = cat]
    BY <1>3 DEF ReadCatalog
  <2>2. work \in [Workers -> Works] /\ work[w] \in Works /\ work[w].at # "idle"
    BY <1>0, <1>3 DEF ReadCatalog, BackTypes
  <2>3. work' = [work EXCEPT ![w] = [work[w] EXCEPT !.at = "listed", !.cat = cat]]
    BY <2>1, <2>2 DEF Works
  <2>4. [work[w] EXCEPT !.at = "listed", !.cat = cat].ended = "none"
    BY <2>2 DEF EndedOnce, Works
  <2> QED BY <1>0, <2>3, <2>4, EndedSet
<1>4. ASSUME NEW w \in Workers, SaveCatalog(w) PROVE EndedOnce'
  BY <1>0, <1>4, EndedGo DEF SaveCatalog
<1>5. ASSUME NEW w \in Workers, Trim(w) PROVE EndedOnce'
  <2>1. PICK cat \in CatalogReads :
          \/ Announced(w, {})
          \/ \E left : work' = [work EXCEPT ![w].at = "trimmed", ![w].cat = left]
    BY <1>5 DEF Trim
  <2>2. work \in [Workers -> Works] /\ work[w] \in Works /\ work[w].at # "idle"
    BY <1>0, <1>5 DEF Trim, BackTypes
  <2>3. ASSUME NEW left, work' = [work EXCEPT ![w].at = "trimmed", ![w].cat = left] PROVE EndedOnce'
    <3>1. work' = [work EXCEPT ![w] = [work[w] EXCEPT !.at = "trimmed", !.cat = left]]
      BY <2>2, <2>3 DEF Works
    <3>2. [work[w] EXCEPT !.at = "trimmed", !.cat = left].ended = "none"
      BY <2>2 DEF EndedOnce, Works
    <3> QED BY <1>0, <3>1, <3>2, EndedSet
  <2> QED BY <1>0, <2>1, <2>2, <2>3, EndedAnnounced
<1>6. ASSUME NEW w \in Workers, SaveTrimmed(w) PROVE EndedOnce'
  BY <1>0, <1>6, EndedAnnounced DEF SaveTrimmed
<1>7. ASSUME NEW w \in Workers, NEW p \in previews[Home[w]], RestoreBackup(w, p) PROVE EndedOnce'
  <2>1. work' = work \/ Staged(w, "restore", p.id)
    BY <1>7 DEF RestoreBackup
  <2> QED BY <1>0, <2>1, EndedStaged DEF EndedOnce
<1>8. ASSUME NEW w \in Workers, LoadToWrite(w) PROVE EndedOnce'
  <2>1. work[w].at # "idle"
    BY <1>8 DEF LoadToWrite
  <2>2. (\E step : Go(w, step)) \/ (\E how : EndsWork(w, how))
    <3> DEFINE step == CASE work[w].at = "apply" -> "applying" [] work[w].at = "undo" -> "undoing"
                         [] work[w].at = "commit" -> "committing"
    <3>1. \/ work' = [work EXCEPT ![w].at = CASE @ = "apply" -> "applying"
                                            [] @ = "undo" -> "undoing"
                                            [] @ = "commit" -> "committing"]
          \/ \E how : EndsWork(w, how)
      BY <1>8 DEF LoadToWrite
    <3>2. work \in [Workers -> Works] /\ work[w] \in Works
      BY <1>0 DEF BackTypes
    <3>3. Go(w, step) \/ \E how : EndsWork(w, how)
      BY <3>1, <3>2 DEF Go, Works
    <3> HIDE DEF step
    <3> QED BY <3>3
  <2> QED BY <1>0, <2>1, <2>2, EndedGo, EndedBy
<1>9. ASSUME NEW w \in Workers, Applies(w) PROVE EndedOnce'
  <2>1. work[w].at # "idle" /\ (EndsWork(w, "succeeded") \/ Go(w, "unverified"))
    BY <1>9 DEF Applies
  <2> QED BY <1>0, <2>1, EndedBy, EndedGo
<1>10. ASSUME NEW w \in Workers, UndoReads(w) PROVE EndedOnce'
  <2>1. \/ EndsWork(w, "manual")
        \/ \E seen, wanted :
             work' = [work EXCEPT ![w].at = "undo", ![w].seen = seen, ![w].wanted = wanted]
    BY <1>10 DEF UndoReads
  <2>2. work \in [Workers -> Works] /\ work[w] \in Works /\ work[w].at # "idle"
    BY <1>0, <1>10 DEF UndoReads, BackTypes
  <2>3. ASSUME NEW seen, NEW wanted,
               work' = [work EXCEPT ![w].at = "undo", ![w].seen = seen, ![w].wanted = wanted]
        PROVE  EndedOnce'
    <3>1. work' = [work EXCEPT ![w] = [work[w] EXCEPT !.at = "undo", !.seen = seen, !.wanted = wanted]]
      BY <2>2, <2>3 DEF Works
    <3>2. [work[w] EXCEPT !.at = "undo", !.seen = seen, !.wanted = wanted].ended = "none"
      BY <2>2 DEF EndedOnce, Works
    <3> QED BY <1>0, <3>1, <3>2, EndedSet
  <2> QED BY <1>0, <2>1, <2>3, EndedBy
<1>11. ASSUME NEW w \in Workers, Undoes(w) \/ Commits(w) PROVE EndedOnce'
  BY <1>0, <1>11, EndedBy DEF Undoes, Commits
<1>12. ASSUME NEW w \in Workers, WriteFails(w) PROVE EndedOnce'
  <2>1. \E how : EndsWork(w, how)
    BY <1>12 DEF WriteFails
  <2> QED BY <1>0, <2>1, EndedBy
<1>13. ASSUME NEW w \in Workers, NEW c \in Channels, ViewsConfig(w, c) PROVE EndedOnce'
  <2> DEFINE r == [NoWork EXCEPT !.at = "commit", !.job = "commit", !.seen = doc,
                                 !.wanted = [doc EXCEPT !.ch = c, !.by = 0]]
  <2>1. work' = [work EXCEPT ![w] = r]
    BY <1>13 DEF ViewsConfig
  <2>2. r.ended = "none"
    BY DEF NoWork
  <2> HIDE DEF r
  <2> QED BY <1>0, <2>1, <2>2, EndedSet
<1>14. ASSUME NEW p \in Processes, Crashes(p) PROVE EndedOnce'
  <2>1. \A w \in Workers : work'[w] = NoWork \/ work'[w] = work[w]
    BY <1>0, <1>14, CrashIs
  <2> QED BY <2>1, NoWorkIs DEF EndedOnce
<1>15. CASE work' = work
  BY <1>15 DEF EndedOnce
<1>16. ASSUME NEW w \in Workers, NEW i \in BackupIds, PreviewRestore(w, i) PROVE work' = work
  BY <1>16 DEF PreviewRestore
<1>17. ASSUME BotLoads \/ BotSaves \/ BotRestarts \/ UNCHANGED backupVars PROVE work' = work
  BY <1>17 DEF BotLoads, BotSaves, BotRestarts, backupVars
<1> QED
  BY <1>1, <1>2, <1>3, <1>4, <1>5, <1>6, <1>7, <1>8, <1>9, <1>10, <1>11, <1>12, <1>13, <1>14, <1>15,
     <1>16, <1>17 DEF BackupsNext

LEMMA FewOf ==
    ASSUME TrimmedFew, NEW w \in Workers, OthersStay(w),
           work'[w].at = "trimmed" /\ work'[w].job = "create" => Cardinality(work'[w].cat) <= Retention
    PROVE  TrimmedFew'
BY DEF TrimmedFew, OthersStay, SameJob

LEMMA FewStep ==
    ASSUME "catalog" \notin BackupFaults, BackInv, TrimmedFew, [BackupsNext]_backupVars
    PROVE  TrimmedFew'
<1>0. BackTypes /\ Shapes /\ OneAtATime
  BY DEF BackInv, Shapes
<1>1. CASE Aside
  <2>1. \A v \in Workers : Making(v)' => SameJob(v)
    BY <1>1 DEF Aside
  <2>2. \A v \in Workers : work'[v].at = "trimmed" /\ work'[v].job = "create" => Making(v)'
    BY DEF Making
  <2> QED BY <2>1, <2>2 DEF TrimmedFew, SameJob
<1>2. ASSUME NEW w \in Workers, Begins(w) \/ Later(w) PROVE TrimmedFew'
  <2>1. OthersStay(w) /\ work'[w].at # "trimmed"
    BY <1>2 DEF Begins, Later, Writing, Undoing
  <2> QED BY <2>1, FewOf
<1>3. ASSUME NEW w \in Workers, Publish(w) PROVE TrimmedFew'
  <2>1. PICK cat \in CatalogReads, at \in Stamps(work[w].id) :
          \E gone \in SUBSET BackupIds, fails \in BOOLEAN :
            PublishesTo(w, cat, at, gone, fails) /\ PublishedAs(w, at, gone, fails)
    BY <1>0, <1>3, PublishPick
  <2>2. PICK gone \in SUBSET BackupIds, fails \in BOOLEAN :
          PublishesTo(w, cat, at, gone, fails) /\ PublishedAs(w, at, gone, fails)
    BY <2>1
  <2>3. /\ OthersStay(w) /\ work[w] \in Works /\ (fails => work'[w].at = "idle")
        /\ ~fails => work'[w] = [work[w] EXCEPT !.at = "list"]
    BY <1>0, <2>2 DEF PublishesTo, BackTypes
  <2>4. work'[w].at # "trimmed"
    BY <2>3 DEF Works
  <2> QED BY <2>3, <2>4, FewOf
<1>4. ASSUME NEW w \in Workers, ReadCatalog(w) \/ SaveCatalog(w) \/ SaveTrimmed(w) PROVE TrimmedFew'
  <2>1. ASSUME ReadCatalog(w) PROVE OthersStay(w) /\ work'[w].at # "trimmed"
    BY <1>0, <2>1, ReadCatalogIs
  <2>2. ASSUME SaveCatalog(w) PROVE OthersStay(w) /\ work'[w].at # "trimmed"
    <3>1. OthersStay(w) /\ work'[w] = [work[w] EXCEPT !.at = "trim"] /\ work[w] \in Works
      BY <1>0, <2>2, SaveCatalogIs DEF BackTypes
    <3> QED BY <3>1 DEF Works
  <2>3. ASSUME SaveTrimmed(w) PROVE OthersStay(w) /\ work'[w].at # "trimmed"
    <3>1. work[w].at = "trimmed" /\ Announced(w, {})
      BY <2>3 DEF SaveTrimmed
    <3> QED BY <1>0, <3>1, AnnouncedIs
  <2> QED BY <1>4, <2>1, <2>2, <2>3, FewOf
<1>5. ASSUME NEW w \in Workers, Trim(w) PROVE TrimmedFew'
  <2>1. PICK gone \in SUBSET BackupIds :
          /\ TrimsTo(w, Readable(catalog), gone)
          /\ Readable(catalog)' = Readable(catalog) \ gone
          /\ work[w].job = "create" => Cardinality(Readable(catalog) \ gone) <= Retention
    BY <1>5, TrimLeaves
  <2>2. /\ OthersStay(w) /\ work[w].at = "trim"
        /\ gone = {} => Announced(w, {})
        /\ gone # {} => work'[w].job = work[w].job /\ work'[w].cat = Readable(catalog) \ gone
    BY <1>5, <2>1 DEF TrimsTo, Trim
  <2>3. gone = {} => work'[w].at # "trimmed"
    BY <1>0, <2>2, AnnouncedIs
  <2>4. work'[w].at = "trimmed" /\ work'[w].job = "create" => Cardinality(work'[w].cat) <= Retention
    BY <2>1, <2>2, <2>3
  <2> QED BY <2>2, <2>4, FewOf
<1>6. ASSUME NEW p \in Processes, Crashes(p) PROVE TrimmedFew'
  <2>1. \A v \in Workers : work'[v] = NoWork \/ work'[v] = work[v]
    BY <1>0, <1>6, CrashIs
  <2> QED BY <2>1, NoWorkIs DEF TrimmedFew
<1> QED BY <1>1, <1>2, <1>3, <1>4, <1>5, <1>6, StepKinds

LEMMA TrimsSuccess ==
    ASSUME "catalog" \notin BackupFaults, BackInv, TrimmedFew, EndedOnce,
           [BackupsNext]_backupVars, NEW w \in Workers,
           work[w].job = "create", work[w].at # "idle", work'[w].ended = "succeeded"
    PROVE  Cardinality(Readable(catalog)') <= Retention
<1>0. BackTypes /\ Shapes /\ OneAtATime
  BY DEF BackInv, Shapes
<1>1. work'[w].at = "idle"
  BY EndedStep DEF EndedOnce
<1>2. work[w].at \in Storing
  BY <1>0 DEF Shapes, Shaped, BackTypes, Works
<1>3. CASE Trim(w)
  <2>1. PICK gone \in SUBSET BackupIds :
          /\ TrimsTo(w, Readable(catalog), gone)
          /\ Readable(catalog)' = Readable(catalog) \ gone
          /\ work[w].job = "create" => Cardinality(Readable(catalog) \ gone) <= Retention
    BY <1>3, TrimLeaves
  <2> QED BY <2>1
<1>4. CASE SaveTrimmed(w)
  <2>1. work[w].at = "trimmed" /\ catalog' = work[w].cat /\ work[w] \in Works
    BY <1>0, <1>4 DEF SaveTrimmed, BackTypes
  <2>2. Cardinality(work[w].cat) <= Retention /\ work[w].cat \in SUBSET BackupIds
    BY <2>1 DEF TrimmedFew, Works
  <2>3. IsFiniteSet(BackupIds)
    BY BackupsAssumption, FS_Interval DEF BackupIds
  <2>4. IsFiniteSet(work[w].cat) /\ Cardinality(work[w].cat) \in Nat
    BY <2>2, <2>3, FS_Subset, FS_CardinalityType
  <2>5. Readable(catalog)' \in SUBSET work[w].cat
    BY <2>1 DEF Readable
  <2>6. Cardinality(Readable(catalog)') <= Cardinality(work[w].cat) /\ Cardinality(Readable(catalog)') \in Nat
    BY <2>4, <2>5, FS_Subset, FS_CardinalityType
  <2> QED BY <2>2, <2>4, <2>6, BackupsAssumption
<1>5. /\ ~Applies(w) /\ ~LoadToWrite(w) /\ ~UndoReads(w) /\ ~Undoes(w) /\ ~WriteFails(w)
      /\ ~Commits(w)
  BY <1>2 DEF Applies, LoadToWrite, UndoReads, Undoes, WriteFails, Commits, Storing
<1> QED BY <1>1, <1>3, <1>4, <1>5, WhoEnds

(* Whatever was interrupted before, and however many processes work on the  *)
(* bot, a create that succeeds leaves at most the plan's number of backups  *)
(* in the catalogue, if the catalogue can be read.                          *)
THEOREM SuccessesTrim ==
    ASSUME "catalog" \notin BackupFaults
    PROVE  BackupsSpec => SuccessTrims
<1>1. BackupsInit => EndedOnce /\ TrimmedFew
  BY NoWorkIs DEF BackupsInit, EndedOnce, TrimmedFew
<1>2. BackInv /\ EndedOnce /\ TrimmedFew /\ [BackupsNext]_backupVars => (EndedOnce /\ TrimmedFew)'
  BY EndedStep, FewStep
<1>3. BackInv /\ EndedOnce /\ TrimmedFew /\ [BackupsNext]_backupVars =>
        [\A w \in Workers :
           /\ work[w].job = "create" /\ work[w].at # "idle" /\ work'[w].ended = "succeeded"
           => Cardinality(Readable(catalog)') <= Retention]_backupVars
  BY TrimsSuccess
<1> QED BY <1>1, <1>2, <1>3, BackAlways, PTL DEF SuccessTrims, BackupsSpec

(* The catalogue's newest backup is not retired, for a plan keeps at least  *)
(* one.                                                                     *)
LEMMA NewestStays ==
    ASSUME NEW cat, NEW held, NEW i \in cat, cat \subseteq BackupIds,
           \A j \in cat : dirs[j].at = j /\ j <= i
    PROVE  i \notin Retired(cat, 0, held)
<1> DEFINE newer == {j \in cat : \/ dirs[j].at > dirs[i].at
                                 \/ dirs[j].at = dirs[i].at /\ j > i}
<1>1. \A j \in cat : j \in Nat
  BY BackupsAssumption DEF BackupIds
<1>2. newer = {}
  BY <1>1
<1>3. Retention \in Nat /\ Retention > 0
  BY BackupsAssumption
<1> HIDE DEF newer
<1>4. Cardinality(newer) = 0
  BY <1>2, FS_EmptySet
<1>5. ~(Cardinality(newer) + 0 >= Retention)
  BY <1>3, <1>4
<1> QED BY <1>5 DEF newer, Retired

LEMMA SecuredOn ==
    ASSUME \A i \in BackupIds : dirs'[i] # NoDir => dirs[i] # NoDir,
           Readable(catalog)' = Readable(catalog),
           \A i \in BackupIds : dirs[i] # NoDir => dirs'[i] # NoDir,
           NEW v \in Workers, work'[v].at = work[v].at, work'[v].id = work[v].id,
           work'[v].cat = work[v].cat, work[v].id \in BackupIds, Secured(v)
    PROVE  Secured(v)'
BY DEF Secured

LEMMA KeptPublish ==
    ASSUME SingleProcess, "clock" \notin BackupFaults, BackInv, SafetyKept,
           NEW w \in Workers, Publish(w)
    PROVE  SafetyKept'
<1>0. BackTypes /\ Shapes /\ OneAtATime /\ Making(w) /\ work[w].at = "publish"
  BY MakingIs DEF BackInv, Shapes, Publish, Storing
<1>1. PICK cat \in CatalogReads, at \in Stamps(work[w].id) :
        \E gone \in SUBSET BackupIds, fails \in BOOLEAN :
          PublishesTo(w, cat, at, gone, fails) /\ PublishedAs(w, at, gone, fails)
  BY <1>0, PublishPick
<1>2. PICK gone \in SUBSET BackupIds, fails \in BOOLEAN :
        PublishesTo(w, cat, at, gone, fails) /\ PublishedAs(w, at, gone, fails)
  BY <1>1
<1>3. /\ OthersStay(w) /\ work[w] \in Works /\ work[w].id \in BackupIds /\ at = work[w].id
      /\ fails => work'[w].at = "idle"
      /\ ~fails => work'[w] = [work[w] EXCEPT !.at = "list"]
  BY <1>0, <1>1, <1>2, MakingIs DEF PublishesTo, Stamps, Storing
<1>4. /\ \A i \in BackupIds : dirs[i] # NoDir => dirs[i].at = i
      /\ \A i \in BackupIds : dirs[i] # NoDir => i <= work[w].id
  BY <1>0 DEF SafetyKept, Secured, Storing
<1>5. \A i \in BackupIds : dirs'[i] # NoDir => dirs[i] # NoDir \/ i = work[w].id
  BY <1>2 DEF PublishedAs
<1>6. ASSUME NEW i \in BackupIds, dirs'[i] # NoDir PROVE dirs'[i].at = i
  <2>1. i \notin gone
    BY <1>2, <1>6 DEF PublishedAs
  <2>2. CASE i = work[w].id
    BY <1>2, <1>3, <1>4, <1>6, <2>1, <2>2 DEF PublishedAs
  <2>3. CASE i # work[w].id
    BY <1>2, <1>4, <1>6, <2>1, <2>3 DEF PublishedAs
  <2> QED BY <2>2, <2>3
<1>7. \A i \in BackupIds : dirs'[i] # NoDir => i <= work[w].id
  <2>1. work[w].id <= work[w].id
    BY <1>3, BackupsAssumption DEF BackupIds
  <2> QED BY <1>4, <1>5, <2>1
<1>8. Making(w)' => Secured(w)'
  <2> SUFFICES ASSUME Making(w)' PROVE Secured(w)'
    OBVIOUS
  <2>1. work'[w] = [work[w] EXCEPT !.at = "list"]
    BY <1>3 DEF Making
  <2>2. work'[w].at = "list" /\ work'[w].id = work[w].id
    BY <1>3, <2>1 DEF Works
  <2>3. ~fails /\ work[w].id \notin gone
    <3>1. ~Made(work[w].id)
      BY <1>0, <1>3 DEF BackInv, Traced, Traces
    <3> QED BY <1>2, <1>3, <3>1 DEF PublishedAs, Readable, Made, Making
  <2>4. dirs'[work[w].id] # NoDir
    BY <1>2, <2>3, RecordIsDir DEF PublishedAs
  <2> QED BY <1>7, <2>2, <2>4 DEF Secured, Writing, Undoing
<1>9. \A v \in Workers : Making(v)' => Secured(v)'
  BY <1>0, <1>3, <1>8, MakesAlone
<1> QED BY <1>6, <1>9 DEF SafetyKept

LEMMA KeptTrim ==
    ASSUME SingleProcess, BackInv, SafetyKept, NEW w \in Workers, Trim(w)
    PROVE  SafetyKept'
<1>0. /\ BackTypes /\ Shapes /\ OneAtATime /\ Making(w) /\ work[w].at = "trim"
      /\ work[w].id \in Readable(catalog) /\ catalog \subseteq BackupIds
  BY MakingIs DEF BackInv, Shapes, Trim, Storing, SafetyKept, Secured, BackTypes
<1>1. PICK cat \in CatalogReads : \E gone \in SUBSET BackupIds : TrimsTo(w, cat, gone)
  BY <1>0, TrimIs
<1>2. PICK gone \in SUBSET BackupIds : TrimsTo(w, cat, gone)
  BY <1>1
<1>3. /\ OthersStay(w) /\ gone = Retired(cat, 0, active[Home[w]]) /\ catalog' = catalog
      /\ dirs' = [i \in BackupIds |-> IF i \in gone THEN NoDir ELSE dirs[i]]
      /\ gone = {} => Announced(w, {})
      /\ gone # {} => work'[w].at = "trimmed" /\ work'[w].id = work[w].id /\ work'[w].cat = cat \ gone
  BY <1>2 DEF TrimsTo
<1>4. cat = Readable(catalog) \/ gone = {}
  BY <1>3, RetiredIs DEF CatalogReads
<1>5. \A j \in Readable(catalog) : j \in BackupIds /\ dirs[j].at = j /\ j <= work[w].id
  BY <1>0 DEF SafetyKept, Secured, Readable, Storing
<1>6. work[w].id \notin gone
  <2>1. ASSUME cat = Readable(catalog) PROVE work[w].id \notin Retired(cat, 0, active[Home[w]])
    BY <1>0, <1>5, <2>1, NewestStays
  <2> QED BY <1>3, <1>4, <2>1
<1>7. work[w].id \in BackupIds /\ dirs'[work[w].id] # NoDir /\ work[w].id \in Readable(catalog)'
  BY <1>0, <1>3, <1>6 DEF Readable
<1>8. \A i \in BackupIds : dirs'[i] # NoDir => dirs'[i] = dirs[i]
  BY <1>3
<1>9. \A i \in BackupIds : dirs'[i] # NoDir => dirs'[i].at = i /\ i <= work[w].id
  BY <1>0, <1>8 DEF SafetyKept, Secured, Storing
<1>10. Making(w)' => Secured(w)'
  <2>1. CASE gone # {}
    <3>1. work'[w].at = "trimmed" /\ work'[w].id = work[w].id /\ work[w].id \in work'[w].cat
      BY <1>0, <1>3, <1>4, <1>6, <2>1
    <3> QED BY <1>7, <1>9, <3>1 DEF Secured, Writing, Undoing
  <2>2. CASE gone = {}
    <3>1. work'[w].at = "idle" \/ (work'[w].at = "apply" /\ work'[w].id = work[w].id)
      BY <1>0, <1>3, <2>2, AnnouncedIs
    <3> QED BY <1>7, <3>1 DEF Secured, Making, Storing
  <2> QED BY <2>1, <2>2
<1>11. \A v \in Workers : Making(v)' => Secured(v)'
  BY <1>0, <1>3, <1>10, MakesAlone
<1> QED BY <1>9, <1>11 DEF SafetyKept

LEMMA KeptSaves ==
    ASSUME SingleProcess, BackInv, SafetyKept,
           NEW w \in Workers, ReadCatalog(w) \/ SaveCatalog(w) \/ SaveTrimmed(w)
    PROVE  SafetyKept'
<1>0. BackTypes /\ Shapes /\ OneAtATime /\ Making(w) /\ Secured(w) /\ work[w].id \in BackupIds
  BY MakingIs DEF BackInv, Shapes, ReadCatalog, SaveCatalog, SaveTrimmed, Storing, SafetyKept
<1>1. dirs' = dirs
  BY DEF ReadCatalog, SaveCatalog, SaveTrimmed
<1>2. CASE ReadCatalog(w)
  <2>1. OthersStay(w) /\ work'[w].at = "listed" /\ work'[w].id = work[w].id /\ work[w].at = "list"
    BY <1>0, <1>2, ReadCatalogIs DEF ReadCatalog
  <2>2. Secured(w)'
    BY <1>0, <1>1, <2>1 DEF Secured, Storing, Writing, Undoing
  <2>3. \A v \in Workers : Making(v)' => Secured(v)'
    BY <1>0, <2>1, <2>2, MakesAlone
  <2> QED BY <1>1, <2>3 DEF SafetyKept
<1>3. CASE SaveCatalog(w)
  <2>1. OthersStay(w) /\ work'[w] = [work[w] EXCEPT !.at = "trim"] /\ work[w] \in Works
    BY <1>0, <1>3, SaveCatalogIs DEF BackTypes
  <2>2. /\ work'[w].at = "trim" /\ work'[w].id = work[w].id /\ work[w].at = "listed"
        /\ work[w].id \in catalog' /\ dirs[work[w].id] # NoDir
    BY <1>0, <1>3, <2>1 DEF Works, SaveCatalog, Secured
  <2>3. work[w].id \in Readable(catalog)'
    BY <1>1, <2>2 DEF Readable
  <2>4. Secured(w)'
    BY <1>0, <1>1, <2>2, <2>3 DEF Secured, Storing, Writing, Undoing
  <2>5. \A v \in Workers : Making(v)' => Secured(v)'
    BY <1>0, <2>1, <2>4, MakesAlone
  <2> QED BY <1>1, <2>5 DEF SafetyKept
<1>4. CASE SaveTrimmed(w)
  <2>1. work[w].at = "trimmed" /\ catalog' = work[w].cat /\ Announced(w, {})
    BY <1>4 DEF SaveTrimmed
  <2>2. work[w].id \in catalog' /\ dirs[work[w].id] # NoDir
    BY <1>0, <2>1 DEF Secured
  <2>3. work[w].id \in Readable(catalog)'
    BY <1>1, <2>2 DEF Readable
  <2>4. /\ OthersStay(w)
        /\ \/ work'[w].at = "apply" /\ work'[w].id = work[w].id
           \/ work'[w].at = "idle"
    BY <1>0, <2>1, AnnouncedIs
  <2>5. Making(w)' => Secured(w)'
    BY <2>3, <2>4 DEF Making, Secured, Storing
  <2>6. \A v \in Workers : Making(v)' => Secured(v)'
    BY <1>0, <2>4, <2>5, MakesAlone
  <2> QED BY <1>1, <2>6 DEF SafetyKept
<1> QED BY <1>2, <1>3, <1>4

LEMMA SafetyStep ==
    ASSUME SingleProcess, "clock" \notin BackupFaults, BackInv, SafetyKept, [BackupsNext]_backupVars
    PROVE  SafetyKept'
<1>0. BackTypes /\ Shapes
  BY DEF BackInv, Shapes
<1>1. ASSUME UNCHANGED <<dirs, catalog>>, NEW v \in Workers, Making(v), SameJob(v)
      PROVE  Secured(v)'
  <2>1. Secured(v) /\ Readable(catalog)' = Readable(catalog) /\ work[v].id \in BackupIds
    BY <1>0, <1>1, ReadableSame DEF SafetyKept, Shapes, Shaped, Making
  <2> QED BY <1>1, <2>1, SecuredOn DEF SameJob
<1>2. CASE Aside
  <2>1. UNCHANGED <<dirs, catalog>> /\ \A v \in Workers : Making(v)' => Making(v) /\ SameJob(v)
    BY <1>2 DEF Aside
  <2>2. \A v \in Workers : Making(v)' => Secured(v)'
    BY <1>1, <2>1
  <2> QED BY <2>1, <2>2 DEF SafetyKept
<1>3. ASSUME NEW w \in Workers, Begins(w) PROVE SafetyKept'
  <2>1. UNCHANGED <<dirs, catalog>> /\ OthersStay(w) /\ work'[w].at = "publish" /\ work'[w].id = NextId
    BY <1>3 DEF Begins
  <2>2. NextId \in Nat /\ \A i \in BackupIds : i \in Nat /\ (dirs[i] # NoDir => i < NextId)
    BY <1>0, NextIdIsNew, BackupsAssumption DEF Made, BackupIds
  <2>3. \A i \in BackupIds : dirs'[i] # NoDir => i <= work'[w].id
    BY <2>1, <2>2
  <2>4. Secured(w)'
    BY <2>1, <2>3 DEF Secured, Writing, Undoing
  <2>5. \A v \in Workers : v # w /\ Making(v)' => Secured(v)'
    BY <1>1, <2>1, MakesOn
  <2> QED BY <2>1, <2>4, <2>5 DEF SafetyKept
<1>4. ASSUME NEW w \in Workers, Later(w) PROVE SafetyKept'
  <2>1. UNCHANGED <<dirs, catalog>> /\ OthersStay(w) /\ Making(w) /\ work[w].at \in Writing \cup Undoing
    BY <1>4 DEF Later, Restoring, Making
  <2>2. Making(w)' => work'[w].at \in Writing \cup Undoing /\ work'[w].id = work[w].id
    BY <1>4 DEF Later, Making
  <2>3. work[w].id \in Readable(catalog)'
    BY <2>1, ReadableSame DEF SafetyKept, Secured
  <2>4. Making(w)' => Secured(w)'
    BY <2>2, <2>3 DEF Secured, Storing, Writing, Undoing
  <2>5. \A v \in Workers : v # w /\ Making(v)' => Secured(v)'
    BY <1>1, <2>1, MakesOn
  <2> QED BY <2>1, <2>4, <2>5 DEF SafetyKept
<1>5. ASSUME NEW p \in Processes, Crashes(p) PROVE SafetyKept'
  <2>1. UNCHANGED <<dirs, catalog>> /\ \A v \in Workers : work'[v] = NoWork \/ work'[v] = work[v]
    BY <1>0, <1>5, CrashIs
  <2>2. \A v \in Workers : Making(v)' => Making(v) /\ SameJob(v)
    BY <2>1, NoWorkIs DEF Making, SameJob
  <2>3. \A v \in Workers : Making(v)' => Secured(v)'
    BY <1>1, <2>1, <2>2
  <2> QED BY <2>1, <2>3 DEF SafetyKept
<1> QED BY <1>2, <1>3, <1>4, <1>5, StepKinds, KeptPublish, KeptTrim, KeptSaves

LEMMA ManualKeeps ==
    ASSUME BackInv, SafetyKept, [BackupsNext]_backupVars, NEW w \in Workers,
           work[w].at # "idle", work'[w].at = "idle", work'[w].ended = "manual"
    PROVE  dirs'[work[w].id] # NoDir /\ work[w].id \in catalog'
<1>0. BackTypes /\ Shapes /\ OneAtATime /\ Traced
  BY DEF BackInv, Shapes
<1>1. ASSUME work[w].at \in Undoing, UNCHANGED <<dirs, catalog>>
      PROVE  dirs'[work[w].id] # NoDir /\ work[w].id \in catalog'
  <2>1. Making(w)
    BY <1>0, <1>1 DEF Shapes, Shaped, Making, Undoing
  <2>2. work[w].id \in Readable(catalog)
    BY <1>1, <2>1 DEF SafetyKept, Secured
  <2> QED BY <1>1, <2>2 DEF Readable
<1>2. CASE LoadToWrite(w)
  <2>1. /\ work[w].at \in {"apply", "undo", "commit"} /\ UNCHANGED <<dirs, catalog>>
        /\ \/ work'[w] = [work[w] EXCEPT !.at = NextStep(work[w].at)]
           \/ Ended(w, GivesUp(work[w].at))
    BY <1>0, <1>2, LoadIs
  <2>2. work'[w] # [work[w] EXCEPT !.at = NextStep(work[w].at)]
    BY <1>0, <2>1 DEF NextStep, BackTypes, Works
  <2>3. work[w].at = "undo"
    BY <2>1, <2>2 DEF Ended, GivesUp
  <2> QED BY <1>1, <2>1, <2>3 DEF Undoing
<1>3. CASE UndoReads(w)
  <2>1. work[w].at = "unverified" /\ UNCHANGED <<dirs, catalog>>
    BY <1>3 DEF UndoReads
  <2> QED BY <1>1, <2>1 DEF Undoing
<1>4. CASE Undoes(w)
  <2>1. work'[w].ended = "rolled back"
    BY <1>0, <1>4, UndoesLater
  <2> QED BY <2>1
<1>5. CASE WriteFails(w)
  <2>1. /\ work[w].at \in {"applying", "undoing", "committing"} /\ UNCHANGED <<dirs, catalog>>
        /\ Ended(w, FailsAs(work[w].at))
    BY <1>0, <1>5, FailsIs
  <2>2. work[w].at = "undoing"
    BY <2>1 DEF Ended, FailsAs
  <2> QED BY <1>1, <2>1, <2>2 DEF Undoing
<1> QED BY <1>2, <1>3, <1>4, <1>5, WhoEnds

(* When a restore gives up its rollback, the safety snapshot that the       *)
(* operator needs is still there and listed, with one process whose clock   *)
(* does not go back: it is the newest backup, which retention never takes.  *)
THEOREM ManualRestoreKeepsSafety ==
    ASSUME SingleProcess, "clock" \notin BackupFaults
    PROVE  BackupsSpec => ManualKeepsSafety
<1>1. BackupsInit => SafetyKept
  BY NoWorkIs DEF BackupsInit, SafetyKept, Making
<1>2. BackInv /\ SafetyKept /\ [BackupsNext]_backupVars => SafetyKept'
  BY SafetyStep
<1>3. BackInv /\ SafetyKept /\ [BackupsNext]_backupVars =>
        [\A w \in Workers :
           /\ work[w].at # "idle" /\ work'[w].at = "idle" /\ work'[w].ended = "manual"
           => dirs'[work[w].id] # NoDir /\ work[w].id \in catalog']_backupVars
  BY ManualKeeps
<1> QED BY <1>1, <1>2, <1>3, BackAlways, PTL DEF ManualKeepsSafety, BackupsSpec
==============================================================================
