------------------------------- MODULE Backups -------------------------------
(***************************************************************************)
(* The portal's backups of a bot's channel routing (portal/backups.py) and *)
(* the configuration edits beside them (portal/resources.py).  Both work   *)
(* on the bot's server.json, which the bot's own process reads and writes  *)
(* without any lock.                                                       *)
(*                                                                         *)
(* A worker is a thread of a portal process: a web process or the          *)
(* dedicated scheduler process.  The service's lock, its set of active     *)
(* restores, its previews and the adapter's file lock belong to one        *)
(* process; the document, the backup directories and the catalogue are     *)
(* shared by all.  A worker reads or writes one file per step.             *)
(*                                                                         *)
(* The document is its channels and all the rest (the verified users); a   *)
(* revision is the hash of the whole document, so it is abstracted to the  *)
(* pair.  `by' remembers which restore wrote the channels.  Backups are    *)
(* numbered in the order of their ids.                                     *)
(***************************************************************************)
EXTENDS Naturals, FiniteSets, FiniteSetsExt

CONSTANTS
    Workers, Home,   \* threads, and the process of each
    Channels,        \* values of the channel routing
    MaxBackups,      \* bound on the backups made
    MaxPreviews,     \* bound on the previews of a process
    MaxUsers,        \* bound on the changes of the rest of the document
    Retention,       \* plan.retention
    Capacity,        \* max_total_bytes_per_bot, in backups
    BackupFaults           \* subset of {"write", "catalog", "crash", "clock"}

ASSUME BackupsAssumption ==
    /\ MaxBackups \in Nat /\ MaxPreviews \in Nat /\ MaxUsers \in Nat /\ Retention \in Nat \ {0} /\ Capacity \in Nat
    /\ BackupFaults \subseteq {"write", "catalog", "crash", "clock"}

VARIABLES
    doc,       \* server.json
    botDoc,    \* what the bot has loaded and not yet saved, or NoDoc
    dirs,      \* the published directories
    catalog,   \* ids in catalog.json
    lock,      \* processes whose per-bot lock is held
    active,    \* _active_restore of each process
    fileLock,  \* processes whose adapter lock is held
    previews,  \* restore previews of each process: id, revision, still the same instance
    work,      \* what each worker does
    reported,  \* history: ids of the backups that create_backup returned
    retired    \* history: ids that retention removed

backupVars == <<doc, botDoc, dirs, catalog, lock, active, fileLock, previews, work,
                reported, retired>>

BackupIds == 1 .. MaxBackups
Processes == {Home[w] : w \in Workers}
Documents == [ch : Channels, users : 0 .. MaxUsers, by : 0 .. MaxBackups]
NoDoc == [none |-> TRUE]
NoDir == [none |-> TRUE]
Revision(d) == <<d.ch, d.users>>

\* A worker: its step, the job it does, the backup it makes, the one it restores,
\* the document and the catalogue it has read, and how its last job ended.
NoWork == [at |-> "idle", job |-> "none", id |-> 0, from |-> 0, seen |-> NoDoc, cat |-> {},
         wanted |-> NoDoc, ended |-> "none"]
Go(w, step) == work' = [work EXCEPT ![w].at = step]
\* The last job that ended tells how.
EndsWork(w, how) ==
    work' = [x \in Workers |-> IF x = w THEN [NoWork EXCEPT !.ended = how] ELSE [work[x] EXCEPT !.ended = "none"]]

---------------------------------------------------------------------------
(* The catalogue.                                                          *)

Readable(ids) == {i \in ids : dirs[i] # NoDir}

\* _catalog: what is listed and verifies; nothing when the file cannot be read.
CatalogReads == {Readable(catalog)} \cup (IF "catalog" \in BackupFaults THEN {{}} ELSE {})

RetiredBlindly(cat, reserve, held) ==   \* mutant
    {i \in cat : Cardinality({j \in cat : dirs[j].at > dirs[i].at}) + reserve >= Retention}
\* _retention: the oldest beyond the plan's number, the ones being restored excepted.
Retired(cat, reserve, held) ==
    {i \in cat : Cardinality({j \in cat : \/ dirs[j].at > dirs[i].at
                                          \/ dirs[j].at = dirs[i].at /\ j > i})
                 + reserve >= Retention} \ held

---------------------------------------------------------------------------
(* _create_locked.                                                         *)

NextId == 1 + Max({0} \cup retired \cup {i \in BackupIds : dirs[i] # NoDir}
                  \cup {work[w].id : w \in Workers})

\* datetime.now may go back when the clock is set.
Stamps(id) == IF "clock" \in BackupFaults THEN 0 .. id ELSE {id}

\* Snapshot, staging and verification leave nothing behind when they fail.
Staged(w, job, from) ==
    /\ NextId \in BackupIds
    /\ work' = [work EXCEPT ![w] = [NoWork EXCEPT !.at = "publish", !.job = job, !.id = NextId,
                                                !.from = from, !.seen = doc,
                                                !.wanted = IF from = 0 THEN NoDoc ELSE dirs[from].doc]]

\* create_backup: one at a time per process.
CreateBackup(w) ==
    /\ work[w].at = "idle"
    /\ Home[w] \notin lock
    /\ lock' = lock \cup {Home[w]}
    /\ Staged(w, "create", 0)
    /\ UNCHANGED <<doc, botDoc, dirs, catalog, active, fileLock, previews, reported, retired>>

\* The limit of the store: make room first, then give up when it is not enough.
Publish(w) ==
    /\ work[w].at = "publish"
    /\ \E cat \in CatalogReads, at \in Stamps(work[w].id) :
         LET full == Cardinality(cat) + 1 > Capacity
             gone == IF full THEN Retired(cat, 1, active[Home[w]]) ELSE {}
             left == IF gone = {} THEN catalog ELSE cat \ gone
             fails == full /\ Cardinality(cat \ gone) + 1 > Capacity
         IN  /\ catalog' = left
             /\ retired' = retired \cup gone
             /\ dirs' = [i \in BackupIds |->
                    IF i \in gone THEN NoDir
                    ELSE IF i = work[w].id /\ ~fails
                         THEN [doc |-> work[w].seen, at |-> at, safety |-> work[w].job = "restore"]
                         ELSE dirs[i]]
             /\ IF fails THEN /\ EndsWork(w, "full")
                              /\ lock' = lock \ {Home[w]}
                              /\ active' = [active EXCEPT ![Home[w]] = @ \ {work[w].from}]
                         ELSE Go(w, "list") /\ UNCHANGED <<lock, active>>
    /\ UNCHANGED <<doc, botDoc, fileLock, previews, reported>>

ReadCatalog(w) ==
    /\ work[w].at = "list"
    /\ \E cat \in CatalogReads :
         work' = [work EXCEPT ![w].at = "listed", ![w].cat = cat]
    /\ UNCHANGED <<doc, botDoc, dirs, catalog, lock, active, fileLock, previews, reported, retired>>

SaveCatalog(w) ==
    /\ work[w].at = "listed"
    /\ catalog' = work[w].cat \cup {work[w].id}
    /\ Go(w, "trim")
    /\ UNCHANGED <<doc, botDoc, dirs, lock, active, fileLock, previews, reported, retired>>

\* The backup is made: report it, or go on with the restore it secures.
Announced(w, cat) ==
    IF work[w].job = "restore"
    THEN /\ work' = [work EXCEPT ![w].at = "apply", ![w].cat = cat]
         /\ UNCHANGED <<lock, reported>>
    ELSE /\ EndsWork(w, "succeeded")
         /\ lock' = lock \ {Home[w]}
         /\ reported' = reported \cup {work[w].id}

Trim(w) ==
    /\ work[w].at = "trim"
    /\ \E cat \in CatalogReads :
         LET gone == Retired(cat, 0, active[Home[w]]) IN
         /\ dirs' = [i \in BackupIds |-> IF i \in gone THEN NoDir ELSE dirs[i]]
         /\ retired' = retired \cup gone
         /\ IF gone = {} THEN Announced(w, {})
            ELSE /\ work' = [work EXCEPT ![w].at = "trimmed", ![w].cat = cat \ gone]
                 /\ UNCHANGED <<lock, reported>>
    /\ UNCHANGED <<doc, botDoc, catalog, active, fileLock, previews>>

SaveTrimmed(w) ==
    /\ work[w].at = "trimmed"
    /\ catalog' = work[w].cat
    /\ Announced(w, {})
    /\ UNCHANGED <<doc, botDoc, dirs, active, fileLock, previews, retired>>

---------------------------------------------------------------------------
(* Restores.                                                               *)

Listed(i) == i \in Readable(catalog) /\ ~dirs[i].safety

\* preview_restore
PreviewRestore(w, i) ==
    /\ work[w].at = "idle" /\ Listed(i)
    /\ Cardinality(previews[Home[w]]) < MaxPreviews
    /\ previews' = [previews EXCEPT ![Home[w]] =
                      @ \cup {[id |-> i, rev |-> Revision(doc), same |-> TRUE]}]
    /\ UNCHANGED <<doc, botDoc, dirs, catalog, lock, active, fileLock, work, reported, retired>>

\* restore_backup, up to the safety snapshot: a preview is used once, and only
\* while the document and the bot's process are the ones it was made for.
RestoreBackup(w, p) ==
    /\ work[w].at = "idle" /\ Home[w] \notin lock /\ p \in previews[Home[w]]
    /\ previews' = [previews EXCEPT ![Home[w]] = @ \ {p}]
    /\ IF Listed(p.id) /\ p.same /\ p.rev = Revision(doc)
       THEN /\ Staged(w, "restore", p.id)
            /\ lock' = lock \cup {Home[w]}
            /\ active' = [active EXCEPT ![Home[w]] = @ \cup {p.id}]
       ELSE UNCHANGED <<lock, active, work>>
    /\ UNCHANGED <<doc, botDoc, dirs, catalog, fileLock, reported, retired>>

Released(w) ==
    /\ lock' = lock \ {Home[w]}
    /\ active' = [active EXCEPT ![Home[w]] = @ \ {work[w].from}]

\* write_config loads the document under the adapter's lock and compares it with
\* what its caller has seen.
LoadToWrite(w) ==
    /\ work[w].at \in {"apply", "undo", "commit"}
    /\ Home[w] \notin fileLock
    /\ IF Revision(doc) = Revision(work[w].seen) /\ (work[w].at = "apply" => dirs[work[w].from] # NoDir)
       THEN /\ fileLock' = fileLock \cup {Home[w]}
            /\ work' = [work EXCEPT ![w].at = CASE @ = "apply" -> "applying"
                                                [] @ = "undo" -> "undoing"
                                                [] @ = "commit" -> "committing"]
            /\ UNCHANGED <<lock, active>>
       ELSE /\ EndsWork(w, CASE work[w].at = "apply" -> "rolled back"
                         [] work[w].at = "undo" -> "manual"
                         [] work[w].at = "commit" -> "stale")
            /\ IF work[w].job = "restore" THEN Released(w) ELSE UNCHANGED <<lock, active>>
            /\ UNCHANGED fileLock
    /\ UNCHANGED <<doc, botDoc, dirs, catalog, previews, reported, retired>>

\* The new file replaces the old one, and the restore verifies its revision.
Applies(w) ==
    /\ work[w].at = "applying"
    /\ doc' = [work[w].seen EXCEPT !.ch = work[w].wanted.ch, !.by = work[w].id]
    /\ fileLock' = fileLock \ {Home[w]}
    /\ IF Revision(doc') = Revision(work[w].wanted)
       THEN EndsWork(w, "succeeded") /\ Released(w)
       ELSE Go(w, "unverified") /\ UNCHANGED <<lock, active>>
    /\ UNCHANGED <<botDoc, dirs, catalog, previews, reported, retired>>

\* _restore_snapshot reads the current document and the safety snapshot.
UndoReads(w) ==
    /\ work[w].at = "unverified"
    /\ IF dirs[work[w].id] = NoDir
       THEN EndsWork(w, "manual") /\ Released(w)
       ELSE /\ work' = [work EXCEPT ![w].at = "undo", ![w].seen = doc,
                                    ![w].wanted = dirs[work[w].id].doc]
            /\ UNCHANGED <<lock, active>>
    /\ UNCHANGED <<doc, botDoc, dirs, catalog, fileLock, previews, reported, retired>>

Undoes(w) ==
    /\ work[w].at = "undoing"
    /\ doc' = [work[w].seen EXCEPT !.ch = work[w].wanted.ch, !.by = work[w].wanted.by]
    /\ fileLock' = fileLock \ {Home[w]}
    /\ EndsWork(w, "rolled back") /\ Released(w)
    /\ UNCHANGED <<botDoc, dirs, catalog, previews, reported, retired>>

\* A write that fails before the file is replaced.
WriteFails(w) ==
    /\ "write" \in BackupFaults
    /\ work[w].at \in {"applying", "undoing", "committing"}
    /\ fileLock' = fileLock \ {Home[w]}
    /\ EndsWork(w, CASE work[w].at = "applying" -> "rolled back"
                 [] work[w].at = "undoing" -> "manual"
                 [] work[w].at = "committing" -> "failed")
    /\ IF work[w].job = "restore" THEN Released(w) ELSE UNCHANGED <<lock, active>>
    /\ UNCHANGED <<doc, botDoc, dirs, catalog, previews, reported, retired>>

---------------------------------------------------------------------------
(* Configuration edits and the bot.                                        *)

\* The form shows a revision, which commit compares in preview and again in
\* write_config.
ViewsConfig(w, c) ==
    /\ work[w].at = "idle" /\ c # doc.ch
    /\ work' = [work EXCEPT ![w] = [NoWork EXCEPT !.at = "commit", !.job = "commit", !.seen = doc,
                                                !.wanted = [doc EXCEPT !.ch = c, !.by = 0]]]
    /\ UNCHANGED <<doc, botDoc, dirs, catalog, lock, active, fileLock, previews, reported, retired>>

Commits(w) ==
    /\ work[w].at = "committing"
    /\ doc' = work[w].wanted
    /\ fileLock' = fileLock \ {Home[w]}
    /\ EndsWork(w, "succeeded")
    /\ UNCHANGED <<botDoc, dirs, catalog, lock, active, previews, reported, retired>>

BotLoads ==
    /\ botDoc = NoDoc /\ doc.users < MaxUsers
    /\ botDoc' = doc
    /\ UNCHANGED <<doc, dirs, catalog, lock, active, fileLock, previews, work, reported, retired>>

BotSaves ==
    /\ botDoc # NoDoc
    /\ doc' = [botDoc EXCEPT !.users = @ + 1]
    /\ botDoc' = NoDoc
    /\ UNCHANGED <<dirs, catalog, lock, active, fileLock, previews, work, reported, retired>>

\* Another execution of the bot: every preview is for the one before.
BotRestarts ==
    /\ \E p \in Processes : \E v \in previews[p] : v.same
    /\ botDoc' = NoDoc
    /\ previews' = [p \in Processes |-> {[v EXCEPT !.same = FALSE] : v \in previews[p]}]
    /\ UNCHANGED <<doc, dirs, catalog, lock, active, fileLock, work, reported, retired>>

\* A portal process ends and is started again: its memory is gone.
Crashes(p) ==
    /\ "crash" \in BackupFaults
    /\ \E w \in Workers : Home[w] = p /\ work[w].at # "idle"
    /\ lock' = lock \ {p} /\ fileLock' = fileLock \ {p}
    /\ active' = [active EXCEPT ![p] = {}]
    /\ previews' = [previews EXCEPT ![p] = {}]
    /\ work' = [w \in Workers |-> IF Home[w] = p THEN NoWork ELSE work[w]]
    /\ UNCHANGED <<doc, botDoc, dirs, catalog, reported, retired>>

---------------------------------------------------------------------------

BackupsInit ==
    /\ doc \in [ch : Channels, users : {0}, by : {0}]
    /\ botDoc = NoDoc
    /\ dirs = [i \in BackupIds |-> NoDir]
    /\ catalog = {} /\ lock = {} /\ fileLock = {}
    /\ active = [p \in Processes |-> {}]
    /\ previews = [p \in Processes |-> {}]
    /\ work = [w \in Workers |-> NoWork]
    /\ reported = {} /\ retired = {}

BackupsNext ==
    \/ \E w \in Workers :
         \/ CreateBackup(w) \/ Publish(w) \/ ReadCatalog(w) \/ SaveCatalog(w)
         \/ Trim(w) \/ SaveTrimmed(w)
         \/ \E i \in BackupIds : PreviewRestore(w, i)
         \/ \E p \in previews[Home[w]] : RestoreBackup(w, p)
         \/ LoadToWrite(w) \/ Applies(w) \/ UndoReads(w) \/ Undoes(w) \/ WriteFails(w)
         \/ \E c \in Channels : ViewsConfig(w, c)
         \/ Commits(w)
    \/ BotLoads \/ BotSaves \/ BotRestarts
    \/ \E p \in Processes : Crashes(p)

BackupsSpec == BackupsInit /\ [][BackupsNext]_backupVars

---------------------------------------------------------------------------
(* Properties.                                                             *)

BackupsTypeOK ==
    /\ doc \in Documents /\ catalog \subseteq BackupIds
    /\ lock \subseteq Processes /\ fileLock \subseteq Processes
    /\ reported \subseteq BackupIds /\ retired \subseteq BackupIds
    /\ \A w \in Workers : work[w].id \in 0 .. MaxBackups /\ work[w].from \in 0 .. MaxBackups

\* A backup that create_backup has returned stays in the catalogue until the
\* plan's retention removes it: no other writer of the catalogue drops it.
ReportedIsListed == reported \subseteq catalog \cup retired

\* What is being restored is not removed under the restore: "protected".
RestoringIsKept ==
    \A w \in Workers :
        work[w].job = "restore" /\ work[w].at # "idle" => dirs[work[w].from] # NoDir

\* restore.md, "Failed restore, rollback succeeded: live data was returned": what
\* a restore that ends as rolled back has written is not left in the document.
RolledBackLeavesNothing ==
    [][\A w \in Workers :
         /\ work[w].job = "restore" /\ work[w].at # "idle"
         /\ work'[w].at = "idle" /\ work'[w].ended = "rolled back"
         => doc'.by # work[w].id]_backupVars

\* When a restore gives up its rollback, the safety snapshot that the operator
\* needs is still there and listed.
ManualKeepsSafety ==
    [][\A w \in Workers :
         /\ work[w].at # "idle" /\ work'[w].at = "idle" /\ work'[w].ended = "manual"
         => dirs'[work[w].id] # NoDir /\ work[w].id \in catalog']_backupVars

\* No more than the plan's number of backups that can be read is left
\* when a backup has been made, whatever was interrupted before.
SuccessTrims ==
    [][\A w \in Workers :
         /\ work[w].job = "create" /\ work[w].at # "idle" /\ work'[w].ended = "succeeded"
         => Cardinality(Readable(catalog)') <= Retention]_backupVars
=============================================================================
