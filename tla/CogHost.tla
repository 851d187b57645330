------------------------------- MODULE CogHost -------------------------------
(***************************************************************************)
(* The process of a Discord bot (rpa-admin's bot.py; unbot's and           *)
(* cda-admin's are its twins): loading the extensions at on_ready, which   *)
(* Discord may send again while the first is at work, the owner's commands *)
(* load, unload, rc and reload, and the pages of help.  The code of an     *)
(* extension has a version, and may not import.                            *)
(***************************************************************************)
EXTENDS Naturals, FiniteSets

CONSTANTS
    Extensions,   \* the files of the cogs directory
    Readies,      \* on_ready events
    Pages,        \* pages of the owner's help
    EditMax       \* bound on the versions of an extension

ASSUME HostAssumption == EditMax \in Nat \ {0} /\ Pages \in Nat \ {0}

VARIABLES
    code,       \* of each extension: its version on disk, and does it import?
    running,    \* the version that is loaded, or 0
    ready,      \* of each on_ready: step and extensions to load
    cogsLoaded, \* bot._rpa_cogs_loaded
    status,     \* is the status loop running?
    reload,     \* reload_all: step and extensions to do
    wanted,     \* history: the versions on disk when reload_all began
    page        \* the help page shown, or Pages when there is none

hostVars == <<code, running, ready, cogsLoaded, status, reload, wanted, page>>

Asleep == [at |-> "idle", todo |-> {}]

\* on_ready
GetsReady(r) ==
    /\ ready[r].at = "idle"
    /\ ready' = [ready EXCEPT ![r] = [at |-> "loading", todo |-> IF cogsLoaded THEN {} ELSE Extensions]]
    /\ UNCHANGED <<code, running, cogsLoaded, status, reload, wanted, page>>

\* load_extension, which refuses what is loaded or does not import.
LoadsExtension(e) == running[e] = 0 /\ code[e].ok

\* load_cogs: a failure is logged and the next extension is tried.
LoadsNext(r, e) ==
    /\ ready[r].at = "loading" /\ e \in ready[r].todo
    /\ ready' = [ready EXCEPT ![r].todo = @ \ {e}]
    /\ running' = IF LoadsExtension(e) THEN [running EXCEPT ![e] = code[e].v] ELSE running
    /\ UNCHANGED <<code, cogsLoaded, status, reload, wanted, page>>

EndsReady(r) ==
    /\ ready[r].at = "loading" /\ ready[r].todo = {}
    /\ ready' = [ready EXCEPT ![r].at = "done"]
    /\ cogsLoaded' = TRUE /\ status' = TRUE
    /\ UNCHANGED <<code, running, reload, wanted, page>>

---------------------------------------------------------------------------

Load(e) ==
    /\ LoadsExtension(e)
    /\ running' = [running EXCEPT ![e] = code[e].v]
    /\ UNCHANGED <<code, ready, cogsLoaded, status, reload, wanted, page>>

\* The owner no longer wants what he unloads.
Unload(e) ==
    /\ running[e] # 0
    /\ running' = [running EXCEPT ![e] = 0]
    /\ wanted' = [wanted EXCEPT ![e] = 0]
    /\ UNCHANGED <<code, ready, cogsLoaded, status, reload, page>>

\* reload_extension: an extension that does not import is put back as it was.
Reload(e) ==
    /\ running[e] # 0 /\ code[e].ok
    /\ running' = [running EXCEPT ![e] = code[e].v]
    /\ UNCHANGED <<code, ready, cogsLoaded, status, reload, wanted, page>>

BeginsReloadAll ==
    /\ reload.at # "reloading"
    /\ reload' = [at |-> "reloading", todo |-> Extensions]
    /\ wanted' = [e \in Extensions |-> code[e].v]
    /\ UNCHANGED <<code, running, ready, cogsLoaded, status, page>>

StopsAtFailure(e) == [at |-> "failed", todo |-> {}]
\* reload_all: one extension a second; the first failure ends it.
ReloadsNext(e) ==
    /\ reload.at = "reloading" /\ e \in reload.todo
    /\ IF running[e] # 0 /\ code[e].ok
       THEN /\ running' = [running EXCEPT ![e] = code[e].v]
            /\ reload' = [reload EXCEPT !.todo = @ \ {e}]
       ELSE /\ reload' = StopsAtFailure(e)
            /\ UNCHANGED running
    /\ UNCHANGED <<code, ready, cogsLoaded, status, wanted, page>>

EndsReloadAll ==
    /\ reload.at = "reloading" /\ reload.todo = {}
    /\ reload' = [reload EXCEPT !.at = "reloaded"]
    /\ UNCHANGED <<code, running, ready, cogsLoaded, status, wanted, page>>

---------------------------------------------------------------------------

\* custom_help: the first page, then one page on or back, round the ends.
OpensHelp ==
    /\ page = Pages
    /\ page' = 0
    /\ UNCHANGED <<code, running, ready, cogsLoaded, status, reload, wanted>>

TurnsUnbounded(by) == page' = page + by   \* mutant
TurnsTo(by) == page' = (page + by) % Pages
TurnsPage ==
    /\ page < Pages
    /\ \E by \in {1, Pages - 1} : TurnsTo(by)
    /\ UNCHANGED <<code, running, ready, cogsLoaded, status, reload, wanted>>

HelpExpires ==
    /\ page < Pages
    /\ page' = Pages
    /\ UNCHANGED <<code, running, ready, cogsLoaded, status, reload, wanted>>

EditsCode(e) ==
    /\ code[e].v < EditMax
    /\ \E ok \in BOOLEAN : code' = [code EXCEPT ![e] = [v |-> @.v + 1, ok |-> ok]]
    /\ UNCHANGED <<running, ready, cogsLoaded, status, reload, wanted, page>>

\* restart, stop: the process starts again from the files.
HostRestarts ==
    /\ running' = [e \in Extensions |-> 0]
    /\ ready' = [r \in Readies |-> Asleep]
    /\ cogsLoaded' = FALSE /\ status' = FALSE
    /\ reload' = Asleep /\ page' = Pages
    /\ wanted' = [e \in Extensions |-> 0]
    /\ UNCHANGED code

HostInit ==
    /\ code \in [Extensions -> [v : {1}, ok : BOOLEAN]]
    /\ running = [e \in Extensions |-> 0]
    /\ ready = [r \in Readies |-> Asleep]
    /\ cogsLoaded = FALSE /\ status = FALSE
    /\ reload = Asleep /\ page = Pages
    /\ wanted = [e \in Extensions |-> 0]

HostNext ==
    \/ \E r \in Readies : GetsReady(r) \/ EndsReady(r) \/ \E e \in Extensions : LoadsNext(r, e)
    \/ \E e \in Extensions : Load(e) \/ Unload(e) \/ Reload(e) \/ ReloadsNext(e) \/ EditsCode(e)
    \/ BeginsReloadAll \/ EndsReloadAll \/ OpensHelp \/ TurnsPage \/ HelpExpires \/ HostRestarts

HostSpec == HostInit /\ [][HostNext]_hostVars

---------------------------------------------------------------------------

HostTypeOK ==
    /\ running \in [Extensions -> 0 .. EditMax] /\ wanted \in [Extensions -> 0 .. EditMax]
    /\ page \in 0 .. Pages /\ cogsLoaded \in BOOLEAN /\ status \in BOOLEAN

\* "All cogs reloaded successfully." is sent only when every extension runs the
\* code that was there when the command began, or the owner has unloaded it since.
ReloadedMeansAll ==
    [][reload.at = "reloading" /\ reload'.at = "reloaded"
       => \A e \in Extensions : running[e] >= wanted[e]]_hostVars
=============================================================================
