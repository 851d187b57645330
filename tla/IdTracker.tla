------------------------------ MODULE IdTracker ------------------------------
(***************************************************************************)
(* UNBOT's HabboIdTracker: a scan of all tracked profiles every five       *)
(* minutes, the same scan on command, and the commands that add and remove *)
(* profiles while a scan waits for Habbo.  A scan holds the scan lock and  *)
(* saves the files at its end; a scan that raises saves nothing, and when  *)
(* it is the periodic one its task ends for good (tasks.loop retries only  *)
(* connection errors).  "none" is a snapshot that does not exist.          *)
(***************************************************************************)
EXTENDS Naturals, FiniteSets

CONSTANTS
    Profiles,     \* Habbo unique ids
    Scanners,     \* "loop", and the commands that scan
    HideMax       \* bound on how often a profile is hidden

ASSUME TrackAssumption ==
    /\ HideMax \in Nat /\ "loop" \in Scanners /\ "no scan" \notin Scanners

VARIABLES
    visible,     \* profileVisible at Habbo
    hides,       \* how often each profile has been hidden
    tracked, snaps,          \* tracked_ids and snapshots
    idsFile, snapsFile,      \* their files
    scanLock,    \* the scanner in the scan, or NoScan
    scanning,    \* of each scanner: step, profiles to do, the one it fetched, what it saw and
                 \* the number of the hiding it saw (history)
    looping,     \* is the periodic task alive?
    adding,      \* habboidadd: the profile it fetches and what it saw
    announced,   \* history: <<profile, number of its hiding>> posted while tracked
    again        \* history: was one of them posted twice?

trackVars == <<visible, hides, tracked, snaps, idsFile, snapsFile, scanLock, scanning,
               looping, adding, announced, again>>

NoScan == "no scan"
Looks == {"none", "visible", "hidden"}
Look(p) == IF visible[p] THEN "visible" ELSE "hidden"
Rest == [at |-> "idle", todo |-> {}, id |-> "none", saw |-> "none", nth |-> 0]

\* scan_profiles under the lock; after a failure the periodic task is gone.
BeginsScan(s) ==
    /\ scanning[s].at = "idle" /\ scanLock = NoScan
    /\ s = "loop" => looping
    /\ scanLock' = s
    /\ scanning' = [scanning EXCEPT ![s] = [Rest EXCEPT !.at = "next", !.todo = tracked]]
    /\ UNCHANGED <<visible, hides, tracked, snaps, idsFile, snapsFile, looping, adding, announced, again>>

\* fetch_profile; None for every failure.
FetchesProfile(s, p) ==
    /\ scanning[s].at = "next" /\ p \in scanning[s].todo
    /\ \E found \in BOOLEAN :
         scanning' = [scanning EXCEPT ![s] =
            [at |-> IF found THEN "fetched" ELSE "next", todo |-> @.todo \ {p},
             id |-> p, saw |-> Look(p), nth |-> hides[p]]]
    /\ UNCHANGED <<visible, hides, tracked, snaps, idsFile, snapsFile, scanLock, looping, adding, announced, again>>

\* An exception leaves the scan: the lock is released and nothing is saved.
Raises(s) ==
    /\ scanning' = [scanning EXCEPT ![s] = Rest]
    /\ scanLock' = NoScan
    /\ looping' = (looping /\ s # "loop")

AdvancesVisible(p, old, new) == new # "hidden" \/ old = "none"   \* mutant
Advances(p, old, new) == TRUE
\* hidden_profile_change
NewlyHidden(old, new) == old = "visible" /\ new = "hidden"

\* Every snapshot is kept; tracked_ids[id] raises KeyError for a profile that was
\* removed while it was fetched.
Compares(s) ==
    /\ scanning[s].at = "fetched"
    /\ LET p == scanning[s].id
           new == scanning[s].saw
       IN  /\ snaps' = IF Advances(p, snaps[p], new) THEN [snaps EXCEPT ![p] = new] ELSE snaps
           /\ IF p \notin tracked THEN Raises(s)
              ELSE /\ scanning' = [scanning EXCEPT ![s].at =
                                     IF NewlyHidden(snaps[p], new) THEN "sending" ELSE "next"]
                   /\ UNCHANGED <<scanLock, looping>>
    /\ UNCHANGED <<visible, hides, tracked, idsFile, snapsFile, adding, announced, again>>

\* channel.send, when the channel can be resolved.
Announces(s) ==
    /\ scanning[s].at = "sending"
    /\ LET it == <<scanning[s].id, scanning[s].nth>> IN
       /\ again' = (again \/ it \in announced)
       /\ announced' = announced \cup {it}
    /\ scanning' = [scanning EXCEPT ![s].at = "next"]
    /\ UNCHANGED <<visible, hides, tracked, snaps, idsFile, snapsFile, scanLock, looping, adding>>

\* The channel is gone: the scan goes on without a notification.
HasNoChannel(s) ==
    /\ scanning[s].at = "sending"
    /\ scanning' = [scanning EXCEPT ![s].at = "next"]
    /\ UNCHANGED <<visible, hides, tracked, snaps, idsFile, snapsFile, scanLock, looping, adding, announced, again>>

SendRaises(s) ==
    /\ scanning[s].at = "sending"
    /\ Raises(s)
    /\ UNCHANGED <<visible, hides, tracked, snaps, idsFile, snapsFile, adding, announced, again>>

EndsScan(s) ==
    /\ scanning[s].at = "next" /\ scanning[s].todo = {}
    /\ idsFile' = tracked /\ snapsFile' = snaps
    /\ scanning' = [scanning EXCEPT ![s] = Rest]
    /\ scanLock' = NoScan
    /\ UNCHANGED <<visible, hides, tracked, snaps, looping, adding, announced, again>>

---------------------------------------------------------------------------
(* The commands: neither takes the scan lock.                              *)

AddFetches(p) ==
    /\ adding.at = "idle" /\ p \notin tracked
    /\ adding' = [Rest EXCEPT !.at = "fetched", !.id = p, !.saw = Look(p)]
    /\ UNCHANGED <<visible, hides, tracked, snaps, idsFile, snapsFile, scanLock, scanning, looping, announced, again>>

AddEnds ==
    /\ adding.at = "fetched"
    /\ adding' = Rest
    /\ \/ /\ tracked' = tracked \cup {adding.id}
          /\ snaps' = [snaps EXCEPT ![adding.id] = adding.saw]
          /\ idsFile' = tracked' /\ snapsFile' = snaps'
       \/ UNCHANGED <<tracked, snaps, idsFile, snapsFile>>   \* not found
    /\ UNCHANGED <<visible, hides, scanLock, scanning, looping, announced, again>>

Removes(p) ==
    /\ p \in tracked
    /\ tracked' = tracked \ {p}
    /\ snaps' = [snaps EXCEPT ![p] = "none"]
    /\ idsFile' = tracked' /\ snapsFile' = snaps'
    /\ announced' = {it \in announced : it[1] # p}
    /\ UNCHANGED <<visible, hides, scanLock, scanning, looping, adding, again>>

---------------------------------------------------------------------------

UserHides(p) ==
    /\ visible[p] /\ hides[p] < HideMax
    /\ visible' = [visible EXCEPT ![p] = FALSE]
    /\ hides' = [hides EXCEPT ![p] = @ + 1]
    /\ UNCHANGED <<tracked, snaps, idsFile, snapsFile, scanLock, scanning, looping, adding, announced, again>>

UserShows(p) ==
    /\ ~visible[p]
    /\ visible' = [visible EXCEPT ![p] = TRUE]
    /\ UNCHANGED <<hides, tracked, snaps, idsFile, snapsFile, scanLock, scanning, looping, adding, announced, again>>

\* The cog is loaded again, from its files.
TrackerRestarts ==
    /\ tracked' = idsFile /\ snaps' = snapsFile
    /\ scanLock' = NoScan /\ looping' = TRUE /\ adding' = Rest
    /\ scanning' = [s \in Scanners |-> Rest]
    /\ announced' = {}
    /\ UNCHANGED <<visible, hides, idsFile, snapsFile, again>>

TrackInit ==
    /\ visible = [p \in Profiles |-> TRUE] /\ hides = [p \in Profiles |-> 0]
    /\ tracked = {} /\ snaps = [p \in Profiles |-> "none"]
    /\ idsFile = tracked /\ snapsFile = snaps
    /\ scanLock = NoScan /\ looping = TRUE /\ adding = Rest
    /\ scanning = [s \in Scanners |-> Rest]
    /\ announced = {} /\ again = FALSE

TrackNext ==
    \/ \E s \in Scanners :
         \/ BeginsScan(s) \/ Compares(s) \/ Announces(s) \/ HasNoChannel(s)
         \/ SendRaises(s) \/ EndsScan(s)
         \/ \E p \in Profiles : FetchesProfile(s, p)
    \/ \E p \in Profiles : AddFetches(p) \/ Removes(p) \/ UserHides(p) \/ UserShows(p)
    \/ AddEnds \/ TrackerRestarts

TrackSpec == TrackInit /\ [][TrackNext]_trackVars

---------------------------------------------------------------------------

TrackTypeOK ==
    /\ tracked \subseteq Profiles /\ idsFile \subseteq Profiles
    /\ snaps \in [Profiles -> Looks] /\ snapsFile \in [Profiles -> Looks]
    /\ scanLock \in Scanners \cup {NoScan} /\ looping \in BOOLEAN

\* "announce newly hidden profiles": one hiding of a profile is announced once,
\* by whichever scan sees it first, as long as the bot runs and the profile is
\* tracked.
HidingAnnouncedOnce == ~again
=============================================================================
