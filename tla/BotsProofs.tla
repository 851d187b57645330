------------------------------ MODULE BotsProofs -------------------------------
(***************************************************************************)
(* The cogs of rpa-admin, unbot and cda-pay that MCBots runs side by side  *)
(* keep their invariants for every set of users, messages, profiles and    *)
(* records, however their tasks, restarts and failures overlap.            *)
(***************************************************************************)
EXTENDS MCBots, FiniteSetTheorems, WellFoundedInduction, TLAPS

(* A set of numbers has a least one.                                        *)
LEMMA MinIs ==
    ASSUME NEW S, S \subseteq Nat, S # {}
    PROVE  Min(S) \in S /\ \A x \in S : Min(S) <= x
<1>1. PICK x \in S : \A y \in S : ~(<<y, x>> \in OpToRel(<, Nat))
  BY NatLessThanWellFounded, WFMin
<1>2. \A y \in S : ~(y < x)
  BY <1>1 DEF OpToRel
<1>3. \A y \in S : y \in Nat
  OBVIOUS
<1>4. \A y \in S : x <= y
  BY <1>2, <1>3
<1> QED BY <1>4 DEF Min

(* The ranks of the indices that stay are 1, 2, ...: each is taken once.    *)
LEMMA RanksAre ==
    ASSUME NEW indices, IsFiniteSet(indices), indices \subseteq Nat
    PROVE  /\ Cardinality(indices) \in Nat
           /\ \A i \in indices : Rank(indices, i) \in 1 .. Cardinality(indices)
           /\ \A k \in 1 .. Cardinality(indices) : \E i \in indices : Rank(indices, i) = k
           /\ \A i, j \in indices : Rank(indices, i) = Rank(indices, j) => i = j
<1> DEFINE upTo(i) == {j \in indices : j <= i}
           size == Cardinality(indices)
<1>1. \A i \in indices :
        IsFiniteSet(upTo(i)) /\ Cardinality(upTo(i)) \in Nat /\ Cardinality(upTo(i)) <= size
  <2> TAKE i \in indices
  <2>1. upTo(i) \in SUBSET indices
    OBVIOUS
  <2>2. IsFiniteSet(upTo(i)) /\ Cardinality(upTo(i)) <= size
    BY <2>1, FS_Subset
  <2> QED BY <2>2, FS_CardinalityType
<1>2. size \in Nat
  BY FS_CardinalityType
<1>3. \A i \in indices : Cardinality(upTo(i)) # 0
  <2> TAKE i \in indices
  <2>1. i \in upTo(i)
    OBVIOUS
  <2> QED BY <1>1, <2>1, FS_EmptySet
<1>4. \A i \in indices : Rank(indices, i) \in 1 .. size
  BY <1>1, <1>2, <1>3 DEF Rank
<1>5. ASSUME NEW i \in indices, NEW j \in indices, i < j
      PROVE  Rank(indices, i) < Rank(indices, j)
  <2>1. j \notin upTo(i) /\ upTo(i) \cup {j} \in SUBSET upTo(j)
    <3>1. i \in Nat /\ j \in Nat /\ \A k \in indices : k \in Nat
      OBVIOUS
    <3>2. \A k \in indices : k <= i => k <= j
      BY <1>5, <3>1
    <3>3. j \notin upTo(i) /\ j \in upTo(j)
      BY <1>5, <3>1
    <3> QED BY <3>2, <3>3
  <2>2. Cardinality(upTo(i) \cup {j}) = Cardinality(upTo(i)) + 1
    BY <1>1, <2>1, FS_AddElement
  <2>3. Cardinality(upTo(i) \cup {j}) <= Cardinality(upTo(j))
    BY <1>1, <2>1, FS_Subset
  <2> QED BY <1>1, <2>2, <2>3 DEF Rank
<1>6. \A i, j \in indices : Rank(indices, i) = Rank(indices, j) => i = j
  <2> SUFFICES ASSUME NEW i \in indices, NEW j \in indices, Rank(indices, i) = Rank(indices, j), i # j
               PROVE  FALSE
    OBVIOUS
  <2>1. Rank(indices, i) \in Nat
    BY <1>2, <1>4
  <2>2. i < j \/ j < i
    OBVIOUS
  <2> QED BY <1>5, <2>1, <2>2
<1>7. \A k \in 1 .. size : \E i \in indices : Rank(indices, i) = k
  <2> DEFINE rank == [i \in indices |-> Rank(indices, i)]
  <2>1. rank \in Injection(indices, 1 .. size)
    BY <1>4, <1>6 DEF Injection, IsInjective
  <2>2. IsFiniteSet(1 .. size) /\ Cardinality(1 .. size) = size
    BY <1>2, FS_Interval
  <2>3. rank \in Surjection(indices, 1 .. size)
    BY <2>1, <2>2, FS_Injection
  <2> QED BY <2>3 DEF Surjection
<1> QED BY <1>2, <1>4, <1>6, <1>7

(* The maximum of two numbers.                                              *)
LEMMA MaxOfTwo ==
    ASSUME NEW a \in Nat, NEW b \in Nat
    PROVE  Max({a, b}) \in {a, b} /\ a <= Max({a, b}) /\ b <= Max({a, b})
<1>1. \E x \in {a, b} : \A y \in {a, b} : x >= y
  <2>1. CASE a >= b  BY <2>1
  <2>2. CASE b >= a  BY <2>2
  <2>3. QED  BY <2>1, <2>2
<1>2. QED  BY <1>1 DEF Max

---------------------------------------------------------------------------
(* Loading and reloading extensions.                                       *)

Works == [at : {"idle", "loading", "done", "reloading", "failed", "reloaded"}, todo : SUBSET Extensions]

HostTyped ==
    /\ code \in [Extensions -> [v : 1 .. EditMax, ok : BOOLEAN]]
    /\ running \in [Extensions -> 0 .. EditMax] /\ wanted \in [Extensions -> 0 .. EditMax]
    /\ ready \in [Readies -> Works] /\ reload \in Works
    /\ cogsLoaded \in BOOLEAN /\ status \in BOOLEAN /\ page \in 0 .. Pages

(* Versions only grow, so whatever is loaded from now on is wanted, and what *)
(* reload_all has been through is.                                          *)
NoneIsBehind ==
    /\ \A e \in Extensions : wanted[e] <= code[e].v
    /\ reload.at = "reloading" => \A e \in Extensions \ reload.todo : running[e] >= wanted[e]

HostInv == HostTyped /\ NoneIsBehind

LEMMA HostInitInv == HostInit => HostInv
<1> SUFFICES ASSUME HostInit PROVE HostInv
  OBVIOUS
<1>1. EditMax \in Nat /\ 1 <= EditMax /\ Pages \in Nat
  BY HostAssumption
<1>2. Asleep \in Works
  BY DEF Asleep, Works
<1>b. cogsLoaded \in BOOLEAN /\ status \in BOOLEAN
  BY Zenon DEF HostInit
<1>r. ready \in [Readies -> Works] /\ reload \in Works
  BY <1>2 DEF HostInit
<1>c. \A e \in Extensions : code[e].v = 1
  BY DEF HostInit
<1>d. code \in [Extensions -> [v : 1 .. EditMax, ok : BOOLEAN]]
  BY <1>1 DEF HostInit
<1>e. running \in [Extensions -> 0 .. EditMax] /\ wanted \in [Extensions -> 0 .. EditMax] /\ page \in 0 .. Pages
  BY <1>1 DEF HostInit
<1>3. HostTyped
  BY <1>b, <1>r, <1>d, <1>e DEF HostTyped
<1>4. NoneIsBehind
  BY <1>c DEF HostInit, NoneIsBehind, Asleep
<1> QED BY <1>3, <1>4 DEF HostInv

(* on_ready and its loads, which take what is not running.                  *)
LEMMA ReadyInv ==
    ASSUME HostInv, NEW r \in Readies,
           GetsReady(r) \/ EndsReady(r) \/ \E e \in Extensions : LoadsNext(r, e)
    PROVE  HostInv'
<1> USE DEF HostInv
<1>1. CASE GetsReady(r) \/ EndsReady(r)
  <2>1. /\ UNCHANGED <<code, running, wanted, reload, page>>
        /\ cogsLoaded' \in BOOLEAN /\ status' \in BOOLEAN
    BY <1>1 DEF GetsReady, EndsReady, HostTyped
  <2>2. ready' \in [Readies -> Works]
    BY <1>1 DEF GetsReady, EndsReady, HostTyped, Works
  <2> QED BY <2>1, <2>2 DEF HostTyped, NoneIsBehind
<1>2. ASSUME NEW e \in Extensions, LoadsNext(r, e)
      PROVE  HostInv'
  <2>1. /\ UNCHANGED <<code, wanted, reload, page, cogsLoaded, status>>
        /\ ready' = [ready EXCEPT ![r].todo = @ \ {e}]
        /\ \/ running' = running
           \/ running[e] = 0 /\ running' = [running EXCEPT ![e] = code[e].v]
    BY <1>2 DEF LoadsNext, LoadsExtension
  <2>2. ready' \in [Readies -> Works]
    BY <2>1 DEF HostTyped, Works
  <2>3. \A x \in Extensions : running'[x] \in 0 .. EditMax /\ (running'[x] = running[x] \/ running'[x] = code[x].v)
    BY <2>1, HostAssumption DEF HostTyped
  <2>4. running' \in [Extensions -> 0 .. EditMax]
    BY <2>1, <2>3 DEF HostTyped
  <2>5. NoneIsBehind'
    BY <2>1, <2>3 DEF HostTyped, NoneIsBehind
  <2> QED BY <2>1, <2>2, <2>4, <2>5 DEF HostTyped
<1> QED BY <1>1, <1>2

(* The owner's commands on one extension, and a new version of its file.    *)
LEMMA ExtensionInv ==
    ASSUME HostInv, NEW e \in Extensions,
           Load(e) \/ Unload(e) \/ Reload(e) \/ EditsCode(e)
    PROVE  HostInv'
<1> USE DEF HostInv
<1>1. CASE Load(e) \/ Reload(e)
  <2>1. /\ UNCHANGED <<code, ready, cogsLoaded, status, reload, wanted, page>>
        /\ running' = [running EXCEPT ![e] = code[e].v]
    BY <1>1 DEF Load, Reload
  <2>2. \A x \in Extensions : running'[x] \in 0 .. EditMax /\ (running'[x] = running[x] \/ running'[x] = code[x].v)
    BY <2>1, HostAssumption DEF HostTyped
  <2>3. running' \in [Extensions -> 0 .. EditMax]
    BY <2>1, <2>2 DEF HostTyped
  <2>4. NoneIsBehind'
    BY <2>1, <2>2 DEF HostTyped, NoneIsBehind
  <2> QED BY <2>1, <2>3, <2>4 DEF HostTyped
<1>2. CASE Unload(e)
  <2>1. /\ UNCHANGED <<code, ready, cogsLoaded, status, reload, page>>
        /\ running' = [running EXCEPT ![e] = 0] /\ wanted' = [wanted EXCEPT ![e] = 0]
    BY <1>2 DEF Unload
  <2>2. HostTyped'
    BY <2>1, HostAssumption DEF HostTyped
  <2>3. NoneIsBehind'
    BY <2>1, HostAssumption DEF HostTyped, NoneIsBehind
  <2> QED BY <2>2, <2>3
<1>3. CASE EditsCode(e)
  <2>1. PICK ok \in BOOLEAN : code' = [code EXCEPT ![e] = [v |-> @.v + 1, ok |-> ok]]
    BY <1>3 DEF EditsCode
  <2>2. code[e].v < EditMax /\ UNCHANGED <<running, ready, cogsLoaded, status, reload, wanted, page>>
    BY <1>3 DEF EditsCode
  <2>3. \A x \in Extensions : code'[x] \in [v : 1 .. EditMax, ok : BOOLEAN] /\ code'[x].v >= code[x].v
    BY <2>1, <2>2, HostAssumption DEF HostTyped
  <2>4. HostTyped'
    BY <2>1, <2>2, <2>3 DEF HostTyped
  <2>5. NoneIsBehind'
    BY <2>2, <2>3, HostAssumption DEF HostTyped, NoneIsBehind
  <2> QED BY <2>4, <2>5
<1> QED BY <1>1, <1>2, <1>3

(* reload_all.                                                              *)
LEMMA ReloadAllInv ==
    ASSUME HostInv, BeginsReloadAll \/ EndsReloadAll \/ \E e \in Extensions : ReloadsNext(e)
    PROVE  HostInv'
<1> USE DEF HostInv
<1>1. CASE BeginsReloadAll
  <2>1. /\ UNCHANGED <<code, running, ready, cogsLoaded, status, page>>
        /\ reload' = [at |-> "reloading", todo |-> Extensions]
        /\ wanted' = [e \in Extensions |-> code[e].v]
    BY <1>1 DEF BeginsReloadAll
  <2>2. HostTyped'
    BY <2>1, HostAssumption DEF HostTyped, Works
  <2>3. NoneIsBehind'
    BY <2>1, <2>2, HostAssumption DEF HostTyped, NoneIsBehind
  <2> QED BY <2>2, <2>3
<1>2. CASE EndsReloadAll
  <2>1. /\ UNCHANGED <<code, running, ready, cogsLoaded, status, wanted, page>>
        /\ reload' = [reload EXCEPT !.at = "reloaded"]
    BY <1>2 DEF EndsReloadAll
  <2> QED BY <2>1 DEF HostTyped, NoneIsBehind, Works
<1>3. ASSUME NEW e \in Extensions, ReloadsNext(e)
      PROVE  HostInv'
  <2>1. /\ UNCHANGED <<code, ready, cogsLoaded, status, wanted, page>>
        /\ \/ /\ running' = [running EXCEPT ![e] = code[e].v]
              /\ reload' = [reload EXCEPT !.todo = @ \ {e}]
           \/ reload' = [at |-> "failed", todo |-> {}] /\ running' = running
    BY <1>3 DEF ReloadsNext, StopsAtFailure
  <2>2. \A x \in Extensions : running'[x] \in 0 .. EditMax /\ (running'[x] = running[x] \/ running'[x] = code[x].v)
    BY <2>1, HostAssumption DEF HostTyped
  <2>3. running' \in [Extensions -> 0 .. EditMax]
    BY <2>1, <2>2 DEF HostTyped
  <2>4. reload' \in Works
    BY <2>1 DEF HostTyped, Works
  <2>5. NoneIsBehind'
    <3>1. CASE running' = [running EXCEPT ![e] = code[e].v] /\ reload' = [reload EXCEPT !.todo = @ \ {e}]
      <4>1. running'[e] >= wanted[e]
        BY <2>1, <3>1, HostAssumption DEF HostTyped, NoneIsBehind
      <4>2. reload'.at = reload.at /\ reload'.todo = reload.todo \ {e}
        BY <3>1 DEF HostTyped, Works
      <4> QED BY <2>1, <2>2, <4>1, <4>2 DEF HostTyped, NoneIsBehind
    <3>2. CASE reload' = [at |-> "failed", todo |-> {}]
      BY <2>1, <3>2 DEF NoneIsBehind
    <3> QED BY <2>1, <3>1, <3>2
  <2> QED BY <2>1, <2>3, <2>4, <2>5 DEF HostTyped
<1> QED BY <1>1, <1>2, <1>3

LEMMA HelpInv ==
    ASSUME HostInv, OpensHelp \/ TurnsPage \/ HelpExpires
    PROVE  HostInv'
<1>1. UNCHANGED <<code, running, ready, cogsLoaded, status, reload, wanted>>
  BY DEF OpensHelp, TurnsPage, HelpExpires
<1>2. page' \in 0 .. Pages
  <2>1. CASE TurnsPage
    <3>1. PICK by \in {1, Pages - 1} : page' = (page + by) % Pages
      BY <2>1 DEF TurnsPage, TurnsTo
    <3>2. page + by \in Int /\ Pages \in Nat \ {0}
      BY HostAssumption DEF HostInv, HostTyped
    <3> QED BY <3>1, <3>2
  <2>2. CASE OpensHelp \/ HelpExpires
    BY <2>2, HostAssumption DEF OpensHelp, HelpExpires
  <2> QED BY <2>1, <2>2
<1> QED BY <1>1, <1>2 DEF HostInv, HostTyped, NoneIsBehind

LEMMA HostRestartsInv ==
    ASSUME HostInv, HostRestarts
    PROVE  HostInv'
<1>1. Asleep \in Works /\ Asleep.at = "idle"
  BY DEF Asleep, Works
<1>b. cogsLoaded' \in BOOLEAN /\ status' \in BOOLEAN
  BY Zenon DEF HostRestarts
<1>r. ready' \in [Readies -> Works] /\ reload' \in Works
  BY <1>1 DEF HostRestarts
<1>e. /\ running' \in [Extensions -> 0 .. EditMax] /\ wanted' \in [Extensions -> 0 .. EditMax]
      /\ page' \in 0 .. Pages /\ code' = code
  BY HostAssumption DEF HostRestarts
<1>2. HostTyped'
  BY <1>b, <1>r, <1>e DEF HostInv, HostTyped
<1>3. NoneIsBehind'
  BY <1>1, HostAssumption DEF HostInv, HostTyped, HostRestarts, NoneIsBehind
<1> QED BY <1>2, <1>3 DEF HostInv

LEMMA HostStepInv == HostInv /\ [HostNext]_hostVars => HostInv'
<1> SUFFICES ASSUME HostInv, [HostNext]_hostVars PROVE HostInv'
  OBVIOUS
<1>1. CASE UNCHANGED hostVars
  BY <1>1 DEF hostVars, HostInv, HostTyped, NoneIsBehind
<1>2. CASE HostNext
  BY <1>2, ReadyInv, ExtensionInv, ReloadAllInv, HelpInv, HostRestartsInv DEF HostNext
<1> QED BY <1>1, <1>2

(* Only the end of reload_all reports success, when nothing is left to do.  *)
LEMMA ReloadedAll ==
    ASSUME HostInv, [HostNext]_hostVars, reload.at = "reloading", reload'.at = "reloaded"
    PROVE  \A e \in Extensions : running[e] >= wanted[e]
<1>1. EndsReloadAll => reload.todo = {}
  BY DEF EndsReloadAll
<1>2. CASE EndsReloadAll
  BY <1>1, <1>2 DEF HostInv, NoneIsBehind
<1>3. UNCHANGED reload \/ EndsReloadAll \/ BeginsReloadAll \/ HostRestarts \/ \E e \in Extensions : ReloadsNext(e)
  BY DEF HostNext, hostVars, GetsReady, EndsReady, LoadsNext, Load, Unload, Reload, EditsCode, OpensHelp, TurnsPage, HelpExpires
<1>4. ~BeginsReloadAll /\ ~HostRestarts
  BY DEF BeginsReloadAll, HostRestarts, Asleep
<1>5. \A e \in Extensions : ~ReloadsNext(e)
  BY DEF ReloadsNext, StopsAtFailure, HostInv, HostTyped, Works
<1> QED BY <1>2, <1>3, <1>4, <1>5

LEMMA HostPromises == HostInv => HostTypeOK
BY DEF HostInv, HostTyped, HostTypeOK

---------------------------------------------------------------------------
(* Raffles.                                                                *)

Raffles == [made : BOOLEAN, active : BOOLEAN, multiple : BOOLEAN,
            entries : [Entrants -> 0 .. EntriesMax], winners : SUBSET Entrants]
RaffleCommands == [at : {"idle", "creating", "waiting", "replying"}, who : Entrants \cup {"none"},
                   by : Int, before : 0 .. EntriesMax]

RaffleTyped ==
    /\ raffle \in Raffles /\ raffleFile \in Raffles
    /\ credit \in [Entrants -> 0 .. EntriesMax]
    /\ command \in [Staff -> RaffleCommands]
    /\ \A s \in Staff : command[s].at \in {"waiting", "replying"} => command[s].who \in Entrants
    /\ mutex \in Staff \cup {Unheld}

(* The entries are in the file as they are in memory; a raffle nobody has   *)
(* made has none, and no command for them.                                  *)
EntriesSaved ==
    /\ raffleFile.entries = raffle.entries
    /\ ~raffle.made => raffle.entries = NoEntries
    /\ ~raffleFile.made => raffleFile.entries = NoEntries
    /\ \A s \in Staff : command[s].at \in {"waiting", "replying"} => raffle.made

(* The command that waits for its reply holds the lock, and its change is   *)
(* all that the entries are ahead of what was confirmed.                    *)
AheadByOne ==
    /\ \A s \in Staff : command[s].at = "replying" =>
         /\ mutex = s /\ command[s].before = credit[command[s].who]
         /\ raffle.entries = [credit EXCEPT ![command[s].who] = @ + command[s].by]
    /\ (\A s \in Staff : command[s].at # "replying") => raffle.entries = credit

RaffleInv == RaffleTyped /\ EntriesSaved /\ AheadByOne

LEMMA NoRaffleTyped == NoRaffle \in Raffles /\ NoRaffle.entries = NoEntries /\ NoEntries \in [Entrants -> 0 .. EntriesMax]
BY RaffleAssumption DEF NoRaffle, Raffles, NoEntries

LEMMA NoCommandTyped == NoCommand \in RaffleCommands /\ NoCommand.at = "idle"
BY RaffleAssumption DEF NoCommand, RaffleCommands

LEMMA RaffleInitInv == RaffleInit => RaffleInv
<1> SUFFICES ASSUME RaffleInit PROVE RaffleInv
  OBVIOUS
<1>1. RaffleTyped
  BY NoRaffleTyped, NoCommandTyped DEF RaffleInit, RaffleTyped
<1>2. EntriesSaved /\ AheadByOne
  BY NoRaffleTyped, NoCommandTyped DEF RaffleInit, EntriesSaved, AheadByOne
<1> QED BY <1>1, <1>2 DEF RaffleInv

(* Steps that change no entries: creating, asking, drawing and ending.      *)
LEMMA EntriesStay ==
    ASSUME RaffleInv, RaffleTyped', UNCHANGED <<mutex, credit>>,
           raffle'.entries = raffle.entries, raffle.made => raffle'.made,
           raffleFile' \in {raffleFile, raffle, raffle'},
           \A s \in Staff : command'[s].at \in {"waiting", "replying"} => raffle'.made,
           \A s \in Staff : command'[s].at = "replying" <=> command[s].at = "replying",
           \A s \in Staff : command[s].at = "replying" => command'[s] = command[s]
    PROVE  RaffleInv'
<1>1. EntriesSaved'
  BY DEF RaffleInv, EntriesSaved
<1>2. AheadByOne'
  BY DEF RaffleInv, AheadByOne
<1> QED BY <1>1, <1>2 DEF RaffleInv

LEMMA CreateRaffleInv ==
    ASSUME RaffleInv, NEW s \in Staff, CreateSaves(s) \/ \E multiple \in BOOLEAN : CreateRaffle(s, multiple)
    PROVE  RaffleInv'
<1> USE DEF RaffleInv
<1>1. ASSUME NEW multiple \in BOOLEAN, CreateRaffle(s, multiple)
      PROVE  RaffleInv'
  <2>1. /\ ~raffle.made /\ command[s].at = "idle"
        /\ raffle' = [NoRaffle EXCEPT !.made = TRUE, !.active = TRUE, !.multiple = multiple]
        /\ command' = [command EXCEPT ![s].at = "creating"]
        /\ UNCHANGED <<raffleFile, mutex, credit>>
    BY <1>1 DEF CreateRaffle
  <2>2. raffle' \in Raffles /\ raffle'.entries = NoEntries
    BY <2>1, NoRaffleTyped DEF Raffles
  <2>3. raffle'.entries = raffle.entries
    BY <2>1, <2>2 DEF EntriesSaved
  <2>4. RaffleTyped'
    BY <2>1, <2>2 DEF RaffleTyped, RaffleCommands
  <2>5. raffle'.made
    BY <2>1, NoRaffleTyped DEF Raffles
  <2> QED BY <2>1, <2>3, <2>4, <2>5, EntriesStay DEF RaffleTyped, RaffleCommands
<1>2. CASE CreateSaves(s)
  <2>1. /\ command[s].at = "creating" /\ raffleFile' = raffle
        /\ command' = [command EXCEPT ![s] = NoCommand]
        /\ UNCHANGED <<raffle, mutex, credit>>
    BY <1>2 DEF CreateSaves
  <2>2. RaffleTyped'
    BY <2>1, NoCommandTyped DEF RaffleTyped
  <2> QED BY <2>1, <2>2, EntriesStay, NoCommandTyped DEF RaffleTyped, EntriesSaved
<1> QED BY <1>1, <1>2

LEMMA ChangeEntriesInv ==
    ASSUME RaffleInv, NEW s \in Staff, NEW u \in Entrants, NEW by \in {-2, -1, 1, 2}, ChangeEntries(s, u, by)
    PROVE  RaffleInv'
<1> DEFINE c == [at |-> "waiting", who |-> u, by |-> by, before |-> 0]
<1>1. /\ command[s].at = "idle" /\ command' = [command EXCEPT ![s] = c]
      /\ UNCHANGED <<raffle, raffleFile, mutex, credit>>
  BY DEF ChangeEntries
<1>2. c \in RaffleCommands /\ c.at = "waiting" /\ c.who = u
  BY RaffleAssumption DEF RaffleCommands
<1> HIDE DEF c
<1>3. RaffleTyped'
  BY <1>1, <1>2 DEF RaffleInv, RaffleTyped
<1>4. raffle.made
  BY DEF ChangeEntries
<1> QED BY <1>1, <1>2, <1>3, <1>4, EntriesStay DEF RaffleInv, RaffleTyped

LEMMA DrawInv ==
    ASSUME RaffleInv, EndRaffle \/ \E chosen \in SUBSET Entrants : DrawWinners(chosen)
    PROVE  RaffleInv'
<1> USE DEF RaffleInv
<1>1. /\ raffle'.entries = raffle.entries /\ raffle'.made = raffle.made /\ raffle' \in Raffles
  BY DEF EndRaffle, DrawWinners, RaffleTyped, Raffles
<1>2. raffleFile' = raffle' /\ UNCHANGED <<mutex, command, credit>>
  BY DEF EndRaffle, DrawWinners, SavesRaffles
<1>3. RaffleTyped'
  BY <1>1, <1>2 DEF RaffleTyped
<1> QED BY <1>1, <1>2, <1>3, EntriesStay DEF EntriesSaved

(* A change of at most EntriesMax is a number of entries.                   *)
LEMMA ChangedTyped ==
    ASSUME NEW count \in Nat, NEW by \in Int, Changed(count, by) <= EntriesMax
    PROVE  Changed(count, by) \in 0 .. EntriesMax
BY RaffleAssumption DEF Changed, AddedTo, RemovedFrom

(* Under the lock no other reply is awaited.                                *)
LEMMA MutatesInv ==
    ASSUME RaffleInv, NEW s \in Staff, MutatesEntries(s)
    PROVE  RaffleInv'
<1> USE DEF RaffleInv
<1> DEFINE u == command[s].who
           count == raffle.entries[u]
           by == command[s].by
           changed == Changed(count, by)
<1>1. command[s].at = "waiting" /\ mutex = Unheld /\ changed <= EntriesMax /\ credit' = credit
  BY DEF MutatesEntries, LockIsFree
<1>2. u \in Entrants /\ count \in Nat /\ by \in Int /\ count \in 0 .. EntriesMax
  BY <1>1, RaffleAssumption DEF RaffleTyped, Raffles, RaffleCommands
<1>3. \A q \in Staff : command[q].at # "replying"
  BY <1>1, RaffleAssumption DEF AheadByOne, Unheld
<1>4. raffle.entries = credit
  BY <1>3 DEF AheadByOne
<1>5. changed \in 0 .. EntriesMax
  BY <1>1, <1>2, ChangedTyped
<1>6. CASE command' = [command EXCEPT ![s] = NoCommand] /\ UNCHANGED <<raffle, raffleFile, mutex>>
  <2>1. RaffleTyped'
    BY <1>1, <1>6, NoCommandTyped DEF RaffleTyped
  <2> QED BY <1>1, <1>3, <1>6, <2>1, EntriesStay, NoCommandTyped DEF RaffleTyped, EntriesSaved
<1>7. CASE ~ Refused(count, by)
  <2> DEFINE c == [command[s] EXCEPT !.at = "replying", !.before = count, !.by = changed - count]
  <2>1. /\ mutex' = s /\ raffle' = [raffle EXCEPT !.entries[u] = changed] /\ raffleFile' = raffle'
        /\ command' = [command EXCEPT ![s] = c]
    BY <1>1, <1>7 DEF MutatesEntries, SavesRaffles
  <2>2. changed - count \in Int /\ command[s] \in RaffleCommands /\ command[s].who = u
    BY <1>2, <1>5 DEF RaffleTyped
  <2> HIDE DEF changed, count, by, u
  <2>3. /\ c \in RaffleCommands /\ c.at = "replying" /\ c.who = u
        /\ c.before = count /\ c.by = changed - count
    BY <1>2, <2>2 DEF RaffleCommands
  <2> HIDE DEF c
  <2>4. /\ raffle' \in Raffles /\ raffle'.entries = [raffle.entries EXCEPT ![u] = changed]
        /\ raffle'.made = raffle.made
    BY <1>2, <1>5, <2>1 DEF RaffleTyped, Raffles
  <2>5. RaffleTyped'
    BY <1>1, <1>2, <2>1, <2>3, <2>4 DEF RaffleTyped
  <2>6. EntriesSaved'
    <3>1. raffle.made
      BY <1>1 DEF EntriesSaved
    <3> QED BY <2>1, <2>4, <3>1 DEF EntriesSaved
  <2>7. credit[u] + (changed - count) = changed /\ count = credit[u]
    BY <1>2, <1>4, <1>5 DEF count
  <2>8. \A q \in Staff : command'[q].at = "replying" => q = s
    BY <1>3, <2>1 DEF RaffleTyped
  <2>9. command'[s] = c
    BY <2>1 DEF RaffleTyped
  <2>10. raffle'.entries = [credit EXCEPT ![u] = @ + (changed - count)]
    BY <1>4, <2>4, <2>7
  <2>11. AheadByOne'
    BY <1>1, <2>1, <2>3, <2>7, <2>8, <2>9, <2>10 DEF AheadByOne
  <2> QED BY <2>5, <2>6, <2>11
<1>8. CASE Refused(count, by)
  BY <1>1, <1>6, <1>8 DEF MutatesEntries
<1> QED BY <1>7, <1>8

(* Accepted, the change is confirmed; rejected, the entry is what it was.   *)
LEMMA ReplyInv ==
    ASSUME RaffleInv, NEW s \in Staff, ReplyAccepted(s) \/ ReplyRejected(s)
    PROVE  RaffleInv'
<1> USE DEF RaffleInv
<1> DEFINE u == command[s].who
           by == command[s].by
<1>1. /\ command[s].at = "replying" /\ mutex' = Unheld
      /\ command' = [command EXCEPT ![s] = NoCommand]
  BY DEF ReplyAccepted, ReplyRejected
<1>2. /\ u \in Entrants /\ mutex = s /\ command[s].before = credit[u] /\ credit[u] \in 0 .. EntriesMax
      /\ raffle.entries = [credit EXCEPT ![u] = @ + by] /\ raffle.made
  BY <1>1 DEF RaffleTyped, AheadByOne, EntriesSaved
<1>3. \A q \in Staff : command'[q].at \notin {"replying"} /\ command'[q] \in {command[q], NoCommand}
  BY <1>1, <1>2, NoCommandTyped DEF RaffleTyped, AheadByOne
<1>4. command' \in [Staff -> RaffleCommands]
  BY <1>1, NoCommandTyped DEF RaffleTyped
<1>5. /\ raffle' \in Raffles /\ raffle'.made /\ raffle'.entries = credit'
      /\ raffleFile' \in Raffles /\ raffleFile'.entries = raffle'.entries
      /\ (~raffleFile'.made => raffleFile'.entries = NoEntries)
  <2>1. CASE ReplyAccepted(s)
    <3>1. credit' = [credit EXCEPT ![u] = @ + by] /\ UNCHANGED <<raffle, raffleFile>>
      BY <2>1 DEF ReplyAccepted
    <3> QED BY <1>2, <3>1 DEF RaffleTyped, EntriesSaved
  <2>2. CASE ReplyRejected(s)
    <3>1. /\ raffle' = [raffle EXCEPT !.entries[u] = command[s].before] /\ raffleFile' = raffle'
          /\ credit' = credit
      BY <2>2 DEF ReplyRejected, RollsBack, SavesRaffles
    <3>2. /\ raffle' \in Raffles /\ raffle'.made = raffle.made
          /\ raffle'.entries = [raffle.entries EXCEPT ![u] = credit[u]]
      BY <1>2, <3>1 DEF RaffleTyped, Raffles
    <3>3. raffle'.entries = credit
      BY <1>2, <3>2 DEF RaffleTyped
    <3> QED BY <1>2, <3>1, <3>2, <3>3
  <2> QED BY <2>1, <2>2
<1>6. credit' \in [Entrants -> 0 .. EntriesMax]
  BY <1>5 DEF Raffles
<1>7. RaffleTyped'
  BY <1>1, <1>3, <1>4, <1>5, <1>6, NoCommandTyped DEF RaffleTyped
<1>8. EntriesSaved' /\ AheadByOne'
  BY <1>3, <1>5 DEF EntriesSaved, AheadByOne
<1> QED BY <1>7, <1>8

LEMMA RaffleRestartsInv ==
    ASSUME RaffleInv, RaffleRestarts
    PROVE  RaffleInv'
<1>1. /\ raffle' = raffleFile /\ mutex' = Unheld /\ command' = [s \in Staff |-> NoCommand]
      /\ credit' = raffleFile.entries /\ raffleFile' = raffleFile
  BY DEF RaffleRestarts
<1>2. RaffleTyped'
  BY <1>1, NoCommandTyped DEF RaffleInv, RaffleTyped, Raffles
<1>3. EntriesSaved' /\ AheadByOne'
  BY <1>1, NoCommandTyped DEF RaffleInv, EntriesSaved, AheadByOne
<1> QED BY <1>2, <1>3 DEF RaffleInv

LEMMA RaffleStepInv == RaffleInv /\ [RaffleNext]_raffleVars => RaffleInv'
<1> SUFFICES ASSUME RaffleInv, [RaffleNext]_raffleVars PROVE RaffleInv'
  OBVIOUS
<1>1. CASE UNCHANGED raffleVars
  BY <1>1 DEF raffleVars, RaffleInv, RaffleTyped, EntriesSaved, AheadByOne
<1>2. CASE RaffleNext
  BY <1>2, CreateRaffleInv, ChangeEntriesInv, DrawInv, MutatesInv, ReplyInv, RaffleRestartsInv DEF RaffleNext
<1> QED BY <1>1, <1>2

LEMMA RafflePromises == RaffleInv => RaffleTypeOK /\ ConfirmedIsCounted
BY DEF RaffleInv, RaffleTyped, EntriesSaved, AheadByOne, Raffles, RaffleTypeOK, ConfirmedIsCounted

---------------------------------------------------------------------------
(* Reaction roles.                                                         *)

RoleEntries == Emojis \X ReactRoles
AdminSteps == [next : {"idle", "fetching", "syncing", "unreacting"}, entry : RoleEntries \cup {NoEntry},
               todo : Seq(Emojis)]

ReactTyped ==
    /\ entries \in Seq(RoleEntries) /\ shown \subseteq Emojis /\ given \subseteq ReactRoles
    /\ restore \in {"due", "fetching", "ran"}
    /\ admin \in [Admins -> AdminSteps]
    /\ \A a \in Admins : admin[a].next = "syncing" => admin[a].todo # << >>
    /\ \A call \in calls : call.role \in ReactRoles

(* The file has the entries, and from the restore on each emoji once.       *)
EntriesKept == entriesFile = entries /\ (restore # "due" => IsInjective(EmojisOf(entries)))

ReactInv == ReactTyped /\ EntriesKept

(* The greatest of a bounded set.                                           *)
LEMMA MaxIs ==
    ASSUME NEW S, NEW n \in Nat, S \subseteq 0 .. n, S # {}
    PROVE  Max(S) \in S /\ \A x \in S : x <= Max(S)
<1> DEFINE left == {n - x : x \in S}
<1>1. \A x \in S : x \in Nat /\ n - x \in Nat
  OBVIOUS
<1>2. left \subseteq Nat /\ left # {}
  BY <1>1
<1>3. PICK x \in S : n - x = Min(left)
  BY <1>2, MinIs
<1>4. \A y \in S : n - y \in left
  OBVIOUS
<1> HIDE DEF left
<1>5. \A y \in S : Min(left) <= n - y
  BY <1>2, <1>4, MinIs
<1>6. \A y \in S : y <= x
  BY <1>1, <1>3, <1>5
<1> QED BY <1>6 DEF Max

LEMMA NoAdminTyped == NoAdmin \in AdminSteps /\ NoAdmin.next = "idle"
BY DEF NoAdmin, AdminSteps

LEMMA EntriesAre ==
    ASSUME NEW list \in Seq(RoleEntries)
    PROVE  /\ Len(list) \in Nat /\ DOMAIN list = 1 .. Len(list)
           /\ \A i \in 1 .. Len(list) : list[i] \in RoleEntries /\ list[i][1] \in Emojis /\ list[i][2] \in ReactRoles
           /\ EmojisOf(list) \in Seq(Emojis) /\ Len(EmojisOf(list)) = Len(list)
           /\ IsInjective(EmojisOf(list)) <=>
                \A i, j \in 1 .. Len(list) : list[i][1] = list[j][1] => i = j
<1> DEFINE emojis == EmojisOf(list)
<1>1. Len(list) \in Nat /\ DOMAIN list = 1 .. Len(list)
  OBVIOUS
<1>2. \A i \in 1 .. Len(list) : list[i] \in RoleEntries
  OBVIOUS
<1>3. \A i \in 1 .. Len(list) : list[i][1] \in Emojis /\ list[i][2] \in ReactRoles
  BY <1>2 DEF RoleEntries
<1>4. emojis = [i \in 1 .. Len(list) |-> list[i][1]]
  BY DEF EmojisOf
<1>5. emojis \in Seq(Emojis) /\ Len(emojis) = Len(list)
  BY <1>1, <1>3, <1>4
<1>6. DOMAIN emojis = 1 .. Len(list) /\ \A i \in 1 .. Len(list) : emojis[i] = list[i][1]
  BY <1>4
<1> HIDE DEF emojis
<1>7. IsInjective(emojis) <=> \A i, j \in 1 .. Len(list) : emojis[i] = emojis[j] => i = j
  BY <1>6 DEF IsInjective
<1>8. IsInjective(emojis) <=> \A i, j \in 1 .. Len(list) : list[i][1] = list[j][1] => i = j
  BY <1>6, <1>7
<1> QED BY <1>1, <1>2, <1>3, <1>5, <1>8 DEF emojis

(* Without an entry there is no other for an emoji than before.             *)
LEMMA WithoutIs ==
    ASSUME NEW list \in Seq(RoleEntries), NEW entry
    PROVE  /\ Without(list, entry) \in Seq(RoleEntries)
           /\ IsInjective(EmojisOf(list)) => IsInjective(EmojisOf(Without(list, entry)))
<1> DEFINE at == CHOOSE i \in 1 .. Len(list) : list[i] = entry /\ \A j \in 1 .. i - 1 : list[j] # entry
           of(i) == IF i < at THEN i ELSE i + 1
           rest == [i \in 1 .. Len(list) - 1 |-> list[of(i)]]
<1>1. CASE entry \notin Range(list)
  BY <1>1 DEF Without
<1>2. CASE entry \in Range(list)
  <2>1. Without(list, entry) = rest
    BY <1>2 DEF Without
  <2>2. Len(list) \in Nat /\ \E k \in 1 .. Len(list) : list[k] = entry
    BY <1>2, EntriesAre DEF Range
  <2>3. \E i \in 1 .. Len(list) : list[i] = entry /\ \A j \in 1 .. i - 1 : list[j] # entry
    <3> DEFINE places == {i \in 1 .. Len(list) : list[i] = entry}
    <3>1. places \subseteq Nat /\ places # {}
      BY <2>2
    <3>2. Min(places) \in places /\ \A x \in places : Min(places) <= x
      BY <3>1, MinIs
    <3> QED BY <2>2, <3>2
  <2>4. at \in 1 .. Len(list)
    BY <2>3
  <2> HIDE DEF at
  <2>5. \A i \in 1 .. Len(list) - 1 : of(i) \in 1 .. Len(list)
    BY <2>2, <2>4
  <2>6. \A i, j \in 1 .. Len(list) - 1 : of(i) = of(j) => i = j
    BY <2>2, <2>4
  <2> HIDE DEF of
  <2>7. Len(list) - 1 \in Nat
    BY <2>2
  <2>8. \A i \in 1 .. Len(list) - 1 : list[of(i)] \in RoleEntries
    BY <2>5, EntriesAre
  <2>9. rest \in Seq(RoleEntries) /\ Len(rest) = Len(list) - 1
    BY <2>7, <2>8
  <2>10. \A i \in 1 .. Len(rest) : rest[i] = list[of(i)]
    BY <2>9
  <2> HIDE DEF rest
  <2>11. ASSUME IsInjective(EmojisOf(list)) PROVE IsInjective(EmojisOf(rest))
    <3>1. \A i, j \in 1 .. Len(list) : list[i][1] = list[j][1] => i = j
      BY <2>11, EntriesAre
    <3>2. \A i, j \in 1 .. Len(rest) : rest[i][1] = rest[j][1] => i = j
      BY <2>5, <2>6, <2>9, <2>10, <3>1
    <3> QED BY <2>9, <3>2, EntriesAre
  <2> QED BY <2>1, <2>9, <2>11
<1> QED BY <1>1, <1>2

(* Without duplicates there is one entry for each emoji.                    *)
LEMMA DedupedIs ==
    ASSUME NEW list \in Seq(RoleEntries)
    PROVE  Deduped(list) \in Seq(RoleEntries) /\ IsInjective(EmojisOf(Deduped(list)))
<1> DEFINE firsts == {i \in 1 .. Len(list) : \A j \in 1 .. i - 1 : list[j][1] # list[i][1]}
           places(e) == {i \in 1 .. Len(list) : list[i][1] = e}
           lastOf(e) == list[Max(places(e))]
           at(k) == CHOOSE i \in firsts : Rank(firsts, i) = k
           size == Cardinality(firsts)
           merged == [k \in 1 .. size |-> lastOf(list[at(k)][1])]
<1>1. Deduped(list) = merged
  BY DEF Deduped
<1>2. Len(list) \in Nat
  BY EntriesAre
<1>3. IsFiniteSet(firsts) /\ firsts \subseteq Nat
  <2>1. IsFiniteSet(1 .. Len(list))
    BY <1>2, FS_Interval
  <2>2. firsts \in SUBSET (1 .. Len(list))
    OBVIOUS
  <2>3. IsFiniteSet(firsts)
    BY <2>1, <2>2, FS_Subset
  <2> QED BY <1>2, <2>2, <2>3
<1>4. \A i, j \in firsts : list[i][1] = list[j][1] => i = j
  <2> SUFFICES ASSUME NEW i \in firsts, NEW j \in firsts, list[i][1] = list[j][1], i # j PROVE FALSE
    OBVIOUS
  <2>1. i \in 1 .. Len(list) /\ j \in 1 .. Len(list) /\ (i \in 1 .. j - 1 \/ j \in 1 .. i - 1)
    BY <1>2
  <2> QED BY <2>1
<1>5. \A e : places(e) # {} => lastOf(e) \in RoleEntries /\ lastOf(e)[1] = e
  <2> SUFFICES ASSUME NEW e, places(e) # {} PROVE lastOf(e) \in RoleEntries /\ lastOf(e)[1] = e
    OBVIOUS
  <2>1. places(e) \subseteq 0 .. Len(list)
    BY <1>2
  <2>2. Max(places(e)) \in places(e)
    BY <1>2, <2>1, MaxIs
  <2> QED BY <2>2, EntriesAre
<1>6. \A i \in firsts : i \in 1 .. Len(list) /\ i \in places(list[i][1])
  OBVIOUS
<1> HIDE DEF firsts, lastOf, places
<1>7. /\ size \in Nat
      /\ \A k \in 1 .. size : \E i \in firsts : Rank(firsts, i) = k
  BY <1>3, RanksAre
<1>8. \A k \in 1 .. size : at(k) \in firsts /\ Rank(firsts, at(k)) = k
  BY <1>7
<1> HIDE DEF size, at
<1>9. \A k \in 1 .. size : merged[k] \in RoleEntries /\ merged[k][1] = list[at(k)][1]
  BY <1>5, <1>6, <1>8
<1>10. merged \in Seq(RoleEntries) /\ Len(merged) = size
  BY <1>7, <1>9
<1> HIDE DEF merged
<1>11. \A k, l \in 1 .. Len(merged) : merged[k][1] = merged[l][1] => k = l
  BY <1>4, <1>8, <1>9, <1>10
<1> QED BY <1>1, <1>10, <1>11, EntriesAre

(* An emoji that is configured has a first entry.                           *)
LEMMA FindEntryTyped ==
    ASSUME entries \in Seq(RoleEntries), NEW e, Configured(e)
    PROVE  FindEntry(e) \in RoleEntries
<1> DEFINE places == {i \in 1 .. Len(entries) : entries[i][1] = e}
<1>1. places \subseteq Nat /\ places # {}
  BY DEF Configured
<1>2. Min(places) \in places /\ \A x \in places : Min(places) <= x
  BY <1>1, MinIs
<1>3. Len(entries) \in Nat
  OBVIOUS
<1>4. \E i \in 1 .. Len(entries) : entries[i][1] = e /\ \A j \in 1 .. i - 1 : entries[j][1] # e
  <2> HIDE DEF places
  <2>1. Min(places) \in 1 .. Len(entries) /\ entries[Min(places)][1] = e
    BY <1>2 DEF places
  <2>2. \A j \in 1 .. Min(places) - 1 : j \notin places
    BY <1>1, <1>2, <2>1
  <2>3. \A j \in 1 .. Min(places) - 1 : entries[j][1] # e
    BY <1>3, <2>1, <2>2 DEF places
  <2> QED BY <2>1, <2>3
<1>5. \E i \in 1 .. Len(entries) : FindEntry(e) = entries[i]
  BY <1>4 DEF FindEntry
<1> QED BY <1>5

(* Another entry for an emoji that has none.                                *)
LEMMA AppendedKeeps ==
    ASSUME NEW list \in Seq(RoleEntries), NEW e \in Emojis, NEW role \in ReactRoles,
           \A i \in 1 .. Len(list) : list[i][1] # e
    PROVE  /\ Append(list, <<e, role>>) \in Seq(RoleEntries)
           /\ IsInjective(EmojisOf(list)) => IsInjective(EmojisOf(Append(list, <<e, role>>)))
<1> DEFINE longer == Append(list, <<e, role>>)
<1>1. <<e, role>> \in RoleEntries /\ <<e, role>>[1] = e
  BY DEF RoleEntries
<1>2. Len(list) \in Nat
  OBVIOUS
<1>3. longer \in Seq(RoleEntries) /\ Len(longer) = Len(list) + 1
  BY <1>1
<1>4. \A i \in 1 .. Len(longer) : longer[i] = IF i <= Len(list) THEN list[i] ELSE <<e, role>>
  BY <1>1, <1>2
<1> HIDE DEF longer
<1>5. ASSUME IsInjective(EmojisOf(list)) PROVE IsInjective(EmojisOf(longer))
  <2>1. \A i, j \in 1 .. Len(list) : list[i][1] = list[j][1] => i = j
    BY <1>5, EntriesAre
  <2>2. \A i, j \in 1 .. Len(longer) : longer[i][1] = longer[j][1] => i = j
    BY <1>1, <1>2, <1>3, <1>4, <2>1
  <2> QED BY <1>3, <2>2, EntriesAre
<1> QED BY <1>3, <1>5 DEF longer

LEMMA ReactInitInv == ReactInit => ReactInv
<1> SUFFICES ASSUME ReactInit PROVE ReactInv
  OBVIOUS
<1> USE DEF ReactInit
<1>1. entries \in Seq(RoleEntries)
  <2>1. << >> \in Seq(RoleEntries)
    OBVIOUS
  <2>2. \A e \in Emojis : << <<e, "roleA">>, <<e, "roleB">> >> \in Seq(RoleEntries)
    BY DEF RoleEntries, ReactRoles
  <2> QED BY <2>1, <2>2
<1>2. \A a \in Admins : admin[a] = NoAdmin
  OBVIOUS
<1>3. admin \in [Admins -> AdminSteps] /\ \A a \in Admins : admin[a].next # "syncing"
  BY <1>2, NoAdminTyped
<1> QED BY <1>1, <1>3 DEF ReactInv, ReactTyped, EntriesKept

(* The entries of a step: saved as they are, and unique once restored.      *)
LEMMA ReactGoesOn ==
    ASSUME ReactInv,
           entries' \in Seq(RoleEntries), entriesFile' = entries',
           restore' \in {"due", "fetching", "ran"},
           restore' # "due" => IsInjective(EmojisOf(entries')),
           shown' \subseteq Emojis,
           admin' \in [Admins -> AdminSteps],
           \A a \in Admins : admin'[a].next = "syncing" => admin'[a].todo # << >>,
           UNCHANGED memberSide
    PROVE  ReactInv'
BY DEF ReactInv, ReactTyped, EntriesKept, memberSide

(* One command moves on.                                                    *)
LEMMA AdminMoves ==
    ASSUME admin \in [Admins -> AdminSteps],
           \A a \in Admins : admin[a].next = "syncing" => admin[a].todo # << >>,
           NEW b, NEW does \in AdminSteps, does.next = "syncing" => does.todo # << >>,
           admin' = [admin EXCEPT ![b] = does]
    PROVE  /\ admin' \in [Admins -> AdminSteps]
           /\ \A a \in Admins : admin'[a].next = "syncing" => admin'[a].todo # << >>
OBVIOUS

LEMMA AddEntryKeeps ==
    ASSUME ReactInv, NEW a \in Admins, NEW e \in Emojis, NEW role \in ReactRoles, AddEntry(a, e, role)
    PROVE  ReactInv'
<1> DEFINE does == [next |-> "fetching", entry |-> <<e, role>>, todo |-> << >>]
<1> USE DEF AddEntry
<1>1. \A i \in 1 .. Len(entries) : entries[i][1] # e
  BY DEF Duplicate, Configured
<1>2. entries \in Seq(RoleEntries) /\ (restore # "due" => IsInjective(EmojisOf(entries)))
  BY DEF ReactInv, ReactTyped, EntriesKept
<1>3. entries' \in Seq(RoleEntries) /\ (restore # "due" => IsInjective(EmojisOf(entries')))
  BY <1>1, <1>2, AppendedKeeps
<1>4. << >> \in Seq(Emojis) /\ <<e, role>> \in RoleEntries
  BY DEF RoleEntries
<1>5. does \in AdminSteps /\ does.next # "syncing"
  BY <1>4 DEF AdminSteps
<1> HIDE DEF does
<1>6. admin' = [admin EXCEPT ![a] = does]
  BY DEF does
<1>7. /\ admin' \in [Admins -> AdminSteps]
      /\ \A b \in Admins : admin'[b].next = "syncing" => admin'[b].todo # << >>
  <2>1. /\ admin \in [Admins -> AdminSteps]
        /\ \A b \in Admins : admin[b].next = "syncing" => admin[b].todo # << >>
    BY DEF ReactInv, ReactTyped
  <2> QED BY <1>5, <1>6, <2>1, AdminMoves
<1>8. /\ entriesFile' = entries' /\ restore' = restore /\ shown' = shown /\ UNCHANGED memberSide
      /\ restore \in {"due", "fetching", "ran"} /\ shown \subseteq Emojis
  BY DEF SavesEntries, ReactInv, ReactTyped
<1> QED BY <1>3, <1>7, <1>8, ReactGoesOn

LEMMA SyncReadsKeeps ==
    ASSUME ReactInv, NEW a \in Admins, SyncReads(a) PROVE ReactInv'
<1> DEFINE emojis == EmojisOf(entries)
           next == IF entries = << >> THEN "idle" ELSE "syncing"
           does == [next |-> next, entry |-> admin[a].entry, todo |-> emojis]
<1>1. /\ entries \in Seq(RoleEntries) /\ admin[a] \in AdminSteps
      /\ admin \in [Admins -> AdminSteps]
      /\ \A b \in Admins : admin[b].next = "syncing" => admin[b].todo # << >>
  BY DEF ReactInv, ReactTyped
<1>2. emojis \in Seq(Emojis) /\ Len(emojis) = Len(entries)
  BY <1>1, EntriesAre
<1>3. entries # << >> => emojis # << >>
  <2> HIDE DEF emojis
  <2>1. entries # << >> => Len(entries) # 0
    BY <1>1
  <2> QED BY <1>2, <2>1
<1>4. admin' = [admin EXCEPT ![a] = [next |-> next, entry |-> admin[a].entry, todo |-> emojis]]
  BY <1>1 DEF SyncReads
<1>5. admin' = [admin EXCEPT ![a] = does]
  <2> HIDE DEF emojis, next
  <2> QED BY <1>4
<1>6. does \in AdminSteps /\ does.next = next /\ does.todo = emojis
  <2> HIDE DEF emojis
  <2> QED BY <1>1, <1>2 DEF AdminSteps
<1> HIDE DEF does, emojis
<1>7. /\ admin' \in [Admins -> AdminSteps]
      /\ \A b \in Admins : admin'[b].next = "syncing" => admin'[b].todo # << >>
  BY <1>1, <1>3, <1>5, <1>6, AdminMoves
<1>8. /\ entries' = entries /\ entriesFile' = entriesFile /\ restore' = restore /\ shown' = shown
      /\ UNCHANGED memberSide
  BY DEF SyncReads
<1>9. /\ entriesFile = entries /\ restore \in {"due", "fetching", "ran"} /\ shown \subseteq Emojis
      /\ restore # "due" => IsInjective(EmojisOf(entries))
  BY DEF ReactInv, ReactTyped, EntriesKept
<1> QED BY <1>1, <1>7, <1>8, <1>9, ReactGoesOn

LEMMA SyncAddsKeeps ==
    ASSUME ReactInv, NEW a \in Admins, SyncAdds(a) PROVE ReactInv'
<1> DEFINE todo == admin[a].todo
           rest == [next |-> "syncing", entry |-> admin[a].entry, todo |-> Tail(todo)]
           does == IF Len(todo) = 1 THEN NoAdmin ELSE rest
<1>1. /\ entries \in Seq(RoleEntries) /\ admin[a] \in AdminSteps
      /\ admin \in [Admins -> AdminSteps]
      /\ \A b \in Admins : admin[b].next = "syncing" => admin[b].todo # << >>
  BY DEF ReactInv, ReactTyped
<1>2. admin[a].next = "syncing" /\ todo \in Seq(Emojis) /\ todo # << >> /\ admin[a].entry \in RoleEntries \cup {NoEntry}
  BY <1>1 DEF SyncAdds, AdminSteps
<1>3. Head(todo) \in Emojis /\ Tail(todo) \in Seq(Emojis) /\ Len(todo) \in Nat
  <2> HIDE DEF todo
  <2> QED BY <1>2
<1>4. Len(todo) # 1 => Tail(todo) # << >>
  <2> HIDE DEF todo
  <2>1. Len(Tail(todo)) = Len(todo) - 1
    BY <1>2
  <2>2. Len(todo) # 0
    BY <1>2
  <2>3. Tail(todo) = << >> => Len(Tail(todo)) = 0
    <3>1. Len(<< >>) = 0
      OBVIOUS
    <3> QED BY <3>1, Zenon
  <2> QED BY <1>3, <2>1, <2>2, <2>3
<1>5. admin' = [admin EXCEPT ![a] = does]
  BY <1>1 DEF SyncAdds
<1>6. does \in AdminSteps /\ (does.next = "syncing" => does.todo # << >>)
  <2>1. rest \in AdminSteps /\ rest.todo = Tail(todo)
    <3> HIDE DEF todo
    <3> QED BY <1>2, <1>3 DEF AdminSteps
  <2> HIDE DEF rest, todo
  <2> QED BY <1>4, <2>1, NoAdminTyped
<1>7. shown' \subseteq Emojis
  BY <1>3 DEF SyncAdds, ReactInv, ReactTyped
<1> HIDE DEF does
<1>8. /\ admin' \in [Admins -> AdminSteps]
      /\ \A b \in Admins : admin'[b].next = "syncing" => admin'[b].todo # << >>
  BY <1>1, <1>5, <1>6, AdminMoves
<1>9. /\ entries' = entries /\ entriesFile' = entriesFile /\ restore' = restore /\ UNCHANGED memberSide
      /\ entriesFile = entries /\ restore \in {"due", "fetching", "ran"}
      /\ restore # "due" => IsInjective(EmojisOf(entries))
  BY DEF SyncAdds, ReactInv, ReactTyped, EntriesKept
<1> QED BY <1>1, <1>7, <1>8, <1>9, ReactGoesOn

(* A command ends, or goes on to take a reaction back, and an entry goes.   *)
LEMMA EntryGoes ==
    ASSUME ReactInv, NEW a, NEW entry, NEW does \in AdminSteps, does.next # "syncing",
           entries' = Without(entries, entry), SavesEntries,
           admin' = [admin EXCEPT ![a] = does],
           UNCHANGED <<shown, restore, memberSide>>
    PROVE  ReactInv'
<1>1. /\ entries \in Seq(RoleEntries) /\ shown \subseteq Emojis /\ restore \in {"due", "fetching", "ran"}
      /\ admin \in [Admins -> AdminSteps]
      /\ \A b \in Admins : admin[b].next = "syncing" => admin[b].todo # << >>
      /\ restore # "due" => IsInjective(EmojisOf(entries))
  BY DEF ReactInv, ReactTyped, EntriesKept
<1>2. /\ Without(entries, entry) \in Seq(RoleEntries)
      /\ IsInjective(EmojisOf(entries)) => IsInjective(EmojisOf(Without(entries, entry)))
  BY <1>1, WithoutIs
<1>3. /\ admin' \in [Admins -> AdminSteps]
      /\ \A b \in Admins : admin'[b].next = "syncing" => admin'[b].todo # << >>
  BY <1>1, AdminMoves
<1>4. entriesFile' = entries' /\ shown' = shown /\ restore' = restore /\ UNCHANGED memberSide
  BY DEF SavesEntries
<1> QED BY <1>1, <1>2, <1>3, <1>4, ReactGoesOn

LEMMA StaffStepKeeps ==
    ASSUME ReactInv, NEW a \in Admins,
           SyncFails(a) \/ Unreacts(a) \/ \E e \in Emojis : RemoveEntry(a, e)
    PROVE  ReactInv'
<1>1. CASE SyncFails(a)
  BY <1>1, NoAdminTyped, EntryGoes DEF SyncFails
<1>2. CASE Unreacts(a)
  <2>1. /\ entries \in Seq(RoleEntries) /\ entriesFile = entries /\ shown \subseteq Emojis
        /\ restore \in {"due", "fetching", "ran"} /\ (restore # "due" => IsInjective(EmojisOf(entries)))
        /\ admin \in [Admins -> AdminSteps]
        /\ \A b \in Admins : admin[b].next = "syncing" => admin[b].todo # << >>
    BY DEF ReactInv, ReactTyped, EntriesKept
  <2>2. /\ admin' = [admin EXCEPT ![a] = NoAdmin] /\ shown' \subseteq shown
        /\ entries' = entries /\ entriesFile' = entriesFile /\ restore' = restore /\ UNCHANGED memberSide
    BY <1>2 DEF Unreacts
  <2>3. /\ admin' \in [Admins -> AdminSteps]
        /\ \A b \in Admins : admin'[b].next = "syncing" => admin'[b].todo # << >>
    BY <2>1, <2>2, NoAdminTyped, AdminMoves
  <2> QED BY <2>1, <2>2, <2>3, ReactGoesOn
<1>3. ASSUME NEW e \in Emojis, RemoveEntry(a, e) PROVE ReactInv'
  <2> DEFINE does == [next |-> "unreacting", entry |-> FindEntry(e), todo |-> << >>]
  <2>1. FindEntry(e) \in RoleEntries
    BY <1>3, FindEntryTyped DEF RemoveEntry, ReactInv, ReactTyped
  <2>2. << >> \in Seq(Emojis)
    OBVIOUS
  <2>3. does \in AdminSteps /\ does.next # "syncing"
    BY <2>1, <2>2 DEF AdminSteps
  <2> HIDE DEF does
  <2>4. /\ entries' = Without(entries, FindEntry(e)) /\ SavesEntries /\ admin' = [admin EXCEPT ![a] = does]
        /\ UNCHANGED <<shown, restore, memberSide>>
    BY <1>3 DEF RemoveEntry, does
  <2> QED BY <2>3, <2>4, EntryGoes
<1> QED BY <1>1, <1>2, <1>3

LEMMA RestoreKeeps ==
    ASSUME ReactInv, RestoreStarts \/ RestoreAdds PROVE ReactInv'
<1>1. /\ entries \in Seq(RoleEntries) /\ entriesFile = entries /\ shown \subseteq Emojis
      /\ (restore # "due" => IsInjective(EmojisOf(entries)))
      /\ admin \in [Admins -> AdminSteps]
      /\ \A b \in Admins : admin[b].next = "syncing" => admin[b].todo # << >>
  BY DEF ReactInv, ReactTyped, EntriesKept
<1>2. CASE RestoreStarts
  <2>1. entries' \in Seq(RoleEntries) /\ IsInjective(EmojisOf(entries'))
    BY <1>1, <1>2, DedupedIs DEF RestoreStarts, Restored
  <2>2. /\ entriesFile' = entries' /\ restore' = "fetching" /\ shown' = shown /\ admin' = admin
        /\ UNCHANGED memberSide
    BY <1>1, <1>2 DEF RestoreStarts
  <2> QED BY <1>1, <2>1, <2>2, ReactGoesOn
<1>3. CASE RestoreAdds
  <2>1. \A i \in 1 .. Len(entries) : entries[i][1] \in Emojis
    BY <1>1, EntriesAre
  <2>2. Len(entries) \in Nat
    BY <1>1
  <2>3. PICK n \in 0 .. Len(entries) : shown' = shown \cup {entries[i][1] : i \in 1 .. n}
    BY <1>3 DEF RestoreAdds
  <2>4. shown' \subseteq Emojis
    BY <1>1, <2>1, <2>2, <2>3
  <2>5. /\ entries' = entries /\ entriesFile' = entriesFile /\ restore = "fetching" /\ restore' = "ran" /\ admin' = admin
        /\ UNCHANGED memberSide
    BY <1>3 DEF RestoreAdds
  <2> QED BY <1>1, <2>4, <2>5, ReactGoesOn
<1> QED BY <1>2, <1>3

LEMMA ReactRestartsKeeps == ReactInv /\ ReactRestarts => ReactInv'
<1> SUFFICES ASSUME ReactInv, ReactRestarts PROVE ReactInv'
  OBVIOUS
<1> USE DEF ReactInv, ReactRestarts
<1>1. entries' = entries /\ entriesFile' = entriesFile /\ restore' = "due"
  BY DEF EntriesKept
<1>2. \A a \in Admins : admin'[a] = NoAdmin
  OBVIOUS
<1>3. admin' \in [Admins -> AdminSteps] /\ \A a \in Admins : admin'[a].next # "syncing"
  BY <1>2, NoAdminTyped
<1> QED BY <1>1, <1>3 DEF ReactTyped, EntriesKept

(* What only the member and Discord do.                                     *)
LEMMA MemberStepKeeps ==
    ASSUME ReactInv, given' \subseteq ReactRoles, \A call \in calls' : call.role \in ReactRoles,
           UNCHANGED staffSide
    PROVE  ReactInv'
BY DEF ReactInv, ReactTyped, EntriesKept, staffSide

LEMMA ReactStepInv == ReactInv /\ [ReactNext]_reactVars => ReactInv'
<1> SUFFICES ASSUME ReactInv, [ReactNext]_reactVars PROVE ReactInv'
  OBVIOUS
<1>0. given \subseteq ReactRoles /\ \A call \in calls : call.role \in ReactRoles
  BY DEF ReactInv, ReactTyped
<1>1. ASSUME NEW a \in Admins, NEW e \in Emojis, NEW role \in ReactRoles, AddEntry(a, e, role) PROVE ReactInv'
  BY <1>1, AddEntryKeeps
<1>2. ASSUME NEW a \in Admins, NEW e \in Emojis, RemoveEntry(a, e) PROVE ReactInv'
  BY <1>2, StaffStepKeeps
<1>3. ASSUME NEW a \in Admins, SyncReads(a) PROVE ReactInv'
  BY <1>3, SyncReadsKeeps
<1>4. ASSUME NEW a \in Admins, SyncAdds(a) PROVE ReactInv'
  BY <1>4, SyncAddsKeeps
<1>5. ASSUME NEW a \in Admins, SyncFails(a) \/ Unreacts(a) PROVE ReactInv'
  BY <1>5, StaffStepKeeps
<1>6. CASE RestoreStarts \/ RestoreAdds
  BY <1>6, RestoreKeeps
<1>7. CASE CacheFollows
  BY <1>0, <1>7, MemberStepKeeps DEF CacheFollows
<1>8. CASE ReactRestarts
  BY <1>8, ReactRestartsKeeps
<1>9. ASSUME NEW e \in Emojis, Toggles(e) PROVE ReactInv'
  BY <1>0, <1>9, MemberStepKeeps DEF Toggles
<1>10. ASSUME NEW event \in events, HandlesReaction(event) PROVE ReactInv'
  <2> DEFINE role == FindEntry(event.emoji)[2]
             call == [adds |-> event.adds, role |-> role, at |-> event.at]
  <2>1. given' = given /\ UNCHANGED staffSide
        /\ calls' = IF Configured(event.emoji) /\ ~(event.adds /\ role \in seen) THEN calls \cup {call} ELSE calls
    BY <1>10 DEF HandlesReaction
  <2>2. Configured(event.emoji) => role \in ReactRoles
    <3>1. Configured(event.emoji) => FindEntry(event.emoji) \in RoleEntries
      BY FindEntryTyped DEF ReactInv, ReactTyped
    <3> QED BY <3>1 DEF RoleEntries
  <2>3. call.role = role
    <3> HIDE DEF role
    <3> QED OBVIOUS
  <2> HIDE DEF role, call
  <2>4. \A c \in calls' : c.role \in ReactRoles
    BY <1>0, <2>1, <2>2, <2>3
  <2> QED BY <1>0, <2>1, <2>4, MemberStepKeeps
<1>11. ASSUME NEW call \in calls, RoleCallEnds(call) PROVE ReactInv'
  <2>1. call.role \in ReactRoles
    BY <1>0
  <2>2. /\ given' \in {given, given \cup {call.role}, given \ {call.role}}
        /\ calls' \subseteq calls /\ UNCHANGED staffSide
    BY <1>11 DEF RoleCallEnds
  <2>3. given' \subseteq ReactRoles /\ \A c \in calls' : c.role \in ReactRoles
    BY <1>0, <2>1, <2>2
  <2> QED BY <2>2, <2>3, MemberStepKeeps
<1>12. CASE UNCHANGED reactVars
  BY <1>12 DEF reactVars, ReactInv, ReactTyped, EntriesKept
<1> QED
  BY <1>1, <1>2, <1>3, <1>4, <1>5, <1>6, <1>7, <1>8, <1>9, <1>10, <1>11, <1>12 DEF ReactNext

LEMMA ReactPromises == ReactInv => ReactTypeOK /\ OneRolePerEmoji
<1> SUFFICES ASSUME ReactInv PROVE ReactTypeOK /\ OneRolePerEmoji
  OBVIOUS
<1>1. entries \in Seq(RoleEntries)
  BY DEF ReactInv, ReactTyped
<1>2. Range(entries) \subseteq RoleEntries
  BY <1>1, EntriesAre DEF Range
<1> QED BY <1>2 DEF ReactInv, ReactTyped, EntriesKept, ReactTypeOK, OneRolePerEmoji, RoleEntries

---------------------------------------------------------------------------
(* The audit log.                                                          *)

LogActions == Happenings \cup {"remove", "ban", "kick", "member_role_update", "member_update",
                               "overwrite_update", "overwrite_create", "overwrite_delete", "channel_update"}
Overwrites == [Permissions -> Settings]
FoundEntries == [action : LogActions \cup {"none"}, target : Targets \cup {"none"}, by : {"staff", "none"},
                 before : Overwrites, after : Overwrites]
LogEntries == {e \in FoundEntries : e.action # "none"}
Handlers == [listener : LogActions, kind : Happenings, target : Targets, todo : Seq(LogActions),
             found : FoundEntries, at : Nat]
Sent(h) == [title |-> Title(h), target |-> h.target, kind |-> h.kind, at |-> h.at,
            found |-> h.found, lines |-> PermissionLines(h.found)]

AuditTyped ==
    /\ auditFails \in BOOLEAN
    /\ auditLog \in Seq(LogEntries)
    /\ happened \in 0 .. AuditMax /\ logChannels \subseteq {"audit", "messages"}
    /\ \A h \in handlers : h \in Handlers /\ Len(h.todo) <= 4

(* A ban is in the log before it is listened to; the listener that does not *)
(* know of it looks for a kick, then for the ban, and is done then.         *)
BanIsSought ==
    \A h \in handlers : h.kind = "ban" =>
        /\ EntriesOf("ban") # {}
        /\ h.listener \in {"ban", "remove"}
        /\ h.listener = "remove" /\ h.found = Nothing /\ ~auditFails => h.todo \in {<<"kick", "ban">>, <<"ban">>}

TrailTrue ==
    \A t \in trail :
        /\ t.found \in FoundEntries /\ t.lines = PermissionLines(t.found)
        /\ t.kind = "ban" /\ ~auditFails => t.title # "left"

AuditInv == AuditTyped /\ BanIsSought /\ TrailTrue

(* The listener finds an entry where the log has one of that action, and    *)
(* what it finds is in the log, or nothing.                                 *)
LEMMA FindRecentIs ==
    ASSUME auditLog \in Seq(LogEntries), NEW action, NEW target
    PROVE  /\ FindRecent(action, target) \in LogEntries \cup {Nothing}
           /\ EntriesOf(action) # {} => FindRecent(action, target) \in LogEntries
<1> DEFINE all == EntriesOf(action)
           recent == {i \in all : Rank(all, i) <= Scan}
           own == {i \in recent : auditLog[i].target = target}
<1>1. DOMAIN auditLog = 1 .. Len(auditLog) /\ Len(auditLog) \in Nat
  OBVIOUS
<1>2. all \subseteq Nat /\ \A i \in all : auditLog[i] \in LogEntries
  BY <1>1 DEF EntriesOf
<1> HIDE DEF all
<1>3. all # {} => recent # {}
  <2> SUFFICES ASSUME all # {} PROVE recent # {}
    OBVIOUS
  <2>1. Min(all) \in all /\ \A x \in all : Min(all) <= x
    BY <1>2, MinIs
  <2>2. {j \in all : j <= Min(all)} = {Min(all)}
    <3>1. \A j \in all : j \in Nat
      BY <1>2
    <3>2. \A j \in all : j <= Min(all) => j = Min(all)
      BY <2>1, <3>1
    <3> QED BY <2>1, <3>1, <3>2
  <2>3. Rank(all, Min(all)) = 1
    BY <2>2, FS_Singleton DEF Rank
  <2>4. Rank(all, Min(all)) <= Scan
    BY <2>3, AuditAssumption
  <2> QED BY <2>1, <2>4
<1>4. recent # {} => Min(recent) \in all
  BY <1>2, MinIs
<1>5. own # {} => Min(own) \in all
  BY <1>2, MinIs
<1>6. FindRecent(action, target) =
        IF own # {} THEN auditLog[Min(own)] ELSE IF recent # {} THEN auditLog[Min(recent)] ELSE Nothing
  BY DEF FindRecent, all
<1> HIDE DEF recent
<1>7. own # {} => recent # {}
  OBVIOUS
<1> HIDE DEF own
<1> QED BY <1>2, <1>3, <1>4, <1>5, <1>6, <1>7 DEF all

LEMMA NothingTyped == Nothing \in FoundEntries /\ Nothing \notin LogEntries
BY DEF Nothing, NoChange, FoundEntries, LogEntries, Overwrites, Settings

LEMMA AuditInitInv == AuditInit => AuditInv
<1> SUFFICES ASSUME AuditInit PROVE AuditInv
  OBVIOUS
<1>1. auditFails \in BOOLEAN
  BY Zenon DEF AuditInit
<1>2. AuditTyped
  BY <1>1, AuditAssumption DEF AuditInit, AuditTyped
<1> QED BY <1>2 DEF AuditInit, AuditInv, BanIsSought, TrailTrue

(* What a listener starts with.                                             *)
LEMMA LookupsTyped ==
    ASSUME NEW l \in LogActions
    PROVE  Lookups(l) \in Seq(LogActions) /\ Len(Lookups(l)) <= 4
<1>1. \/ Lookups(l) = << >> \/ Lookups(l) = <<"kick", "ban">> \/ Lookups(l) = <<"member_role_update">>
      \/ Lookups(l) = <<"member_update">> \/ Lookups(l) = OverwriteActions \/ Lookups(l) = <<l>>
  <2>1. CASE l \in {"message", "join"}
    BY <2>1 DEF Lookups
  <2>2. CASE l \in {"remove", "roles", "voice", "overwrites"}
    BY <2>2 DEF Lookups
  <2>3. CASE l \notin {"message", "join", "remove", "roles", "voice", "overwrites"}
    BY <2>3 DEF Lookups
  <2> QED BY <2>1, <2>2, <2>3
<1>2. OverwriteActions \in Seq(LogActions) /\ Len(OverwriteActions) = 4
  BY DEF OverwriteActions, LogActions
<1>3. <<"kick", "ban">> \in Seq(LogActions) /\ <<"member_role_update">> \in Seq(LogActions)
      /\ <<"member_update">> \in Seq(LogActions) /\ <<l>> \in Seq(LogActions) /\ << >> \in Seq(LogActions)
  BY DEF LogActions
<1>4. /\ Len(<<"kick", "ban">>) = 2 /\ Len(<<"member_role_update">>) = 1 /\ Len(<<"member_update">>) = 1
      /\ Len(<<l>>) = 1 /\ Len(<< >>) = 0
  OBVIOUS
<1>5. Lookups(l) \in Seq(LogActions)
  BY <1>1, <1>2, <1>3
<1>6. Len(Lookups(l)) = 0 \/ Len(Lookups(l)) = 1 \/ Len(Lookups(l)) = 2 \/ Len(Lookups(l)) = 4
  BY <1>1, <1>2, <1>4, Zenon
<1>7. \A n : n = 0 \/ n = 1 \/ n = 2 \/ n = 4 => n <= 4
  OBVIOUS
<1> QED BY <1>5, <1>6, <1>7, Zenon

LEMMA HappensInv ==
    ASSUME AuditInv, NEW kind \in Happenings, NEW target \in Targets, NEW by \in {"staff"},
           NEW before \in Overwrites, NEW after \in Overwrites,
           Happens(kind, target, by, before, after)
    PROVE  AuditInv'
<1> USE DEF AuditInv
<1> DEFINE entry == [action |-> LoggedAs(kind), target |-> target, by |-> by, before |-> before, after |-> after]
           woken(l) == [listener |-> l, kind |-> kind, target |-> target, todo |-> Lookups(l), found |-> Nothing,
                        at |-> happened]
<1>1. /\ happened < AuditMax /\ happened' = happened + 1
      /\ auditLog' = IF LoggedAs(kind) = "none" THEN auditLog ELSE <<entry>> \o auditLog
      /\ handlers' = handlers \cup {woken(l) : l \in Listeners(kind)}
      /\ UNCHANGED <<auditFails, logChannels, trail>>
  BY DEF Happens
<1>2. LoggedAs(kind) \in LogActions \cup {"none"} /\ Listeners(kind) \subseteq LogActions
  BY DEF LoggedAs, Listeners, LogActions
<1>3. LoggedAs(kind) # "none" => entry \in LogEntries
  BY <1>2 DEF LogEntries, FoundEntries
<1> HIDE DEF entry
<1>4. auditLog' \in Seq(LogEntries)
  <2>1. CASE LoggedAs(kind) = "none"
    BY <1>1, <2>1 DEF AuditTyped
  <2>2. CASE LoggedAs(kind) # "none"
    <3>1. <<entry>> \in Seq(LogEntries)
      BY <1>3, <2>2
    <3> QED BY <1>1, <2>2, <3>1 DEF AuditTyped
  <2> QED BY <2>1, <2>2
<1>5. \A l \in Listeners(kind) : woken(l) \in Handlers /\ Len(woken(l).todo) <= 4
  <2> TAKE l \in Listeners(kind)
  <2>1. happened \in Nat
    BY AuditAssumption DEF AuditTyped
  <2> QED BY <1>2, <2>1, LookupsTyped, NothingTyped DEF Handlers
<1>6. happened' \in 0 .. AuditMax
  BY <1>1, AuditAssumption DEF AuditTyped
<1>7. AuditTyped'
  <2>1. auditFails' \in BOOLEAN
    BY <1>1, Zenon DEF AuditTyped
  <2>2. \A h \in handlers' : h \in Handlers /\ Len(h.todo) <= 4
    BY <1>1, <1>5 DEF AuditTyped
  <2> QED BY <1>1, <1>4, <1>6, <2>1, <2>2 DEF AuditTyped
<1>8. EntriesOf("ban") # {} => EntriesOf("ban")' # {}
  <2> SUFFICES ASSUME NEW i \in DOMAIN auditLog, auditLog[i].action = "ban" PROVE EntriesOf("ban")' # {}
    BY DEF EntriesOf
  <2>1. CASE LoggedAs(kind) = "none"
    BY <1>1, <2>1 DEF EntriesOf
  <2>2. CASE LoggedAs(kind) # "none"
    <3>1. i + 1 \in DOMAIN auditLog' /\ auditLog'[i + 1] = auditLog[i]
      BY <1>1, <2>2 DEF AuditTyped
    <3> QED BY <3>1 DEF EntriesOf
  <2> QED BY <2>1, <2>2
<1>9. kind = "ban" => EntriesOf("ban")' # {}
  <2> SUFFICES ASSUME kind = "ban" PROVE EntriesOf("ban")' # {}
    OBVIOUS
  <2>1. LoggedAs(kind) = "ban" /\ entry.action = "ban"
    BY DEF LoggedAs, entry
  <2>2. 1 \in DOMAIN auditLog' /\ auditLog'[1] = entry
    BY <1>1, <2>1 DEF AuditTyped
  <2> QED BY <2>1, <2>2 DEF EntriesOf
<1>10. ASSUME NEW l \in Listeners(kind), kind = "ban"
       PROVE  l \in {"ban", "remove"} /\ (l = "remove" => woken(l).todo = <<"kick", "ban">>)
  BY <1>10 DEF Listeners, Lookups
<1>11. BanIsSought'
  <2> SUFFICES ASSUME NEW h \in handlers', h.kind = "ban"
               PROVE  /\ EntriesOf("ban")' # {} /\ h.listener \in {"ban", "remove"}
                      /\ h.listener = "remove" /\ h.found = Nothing /\ ~auditFails'
                            => h.todo \in {<<"kick", "ban">>, <<"ban">>}
    BY DEF BanIsSought
  <2>1. CASE h \in handlers
    BY <1>1, <1>8, <2>1, Zenon DEF BanIsSought
  <2>2. CASE h \notin handlers
    <3>1. PICK l \in Listeners(kind) : h = woken(l)
      BY <1>1, <2>2
    <3>2. h.kind = kind /\ h.listener = l
      BY <3>1
    <3> QED BY <1>9, <1>10, <3>1, <3>2
  <2> QED BY <2>1, <2>2
<1>12. TrailTrue'
  BY <1>1, Zenon DEF TrailTrue
<1> QED BY <1>7, <1>11, <1>12

LEMMA LooksUpInv ==
    ASSUME AuditInv, NEW h \in handlers, LooksUp(h)
    PROVE  AuditInv'
<1> USE DEF AuditInv
<1>1. /\ h.todo # << >> /\ h.found = Nothing
      /\ UNCHANGED <<auditFails, auditLog, happened, logChannels, trail>>
  BY DEF LooksUp
<1>2. PICK entry \in {FindRecent(Head(h.todo), h.target)} \cup (IF auditFails THEN {Nothing} ELSE {}) :
        handlers' = (handlers \ {h}) \cup
           (IF h.listener = "remove" /\ Head(h.todo) = "ban" /\ entry # Nothing
            THEN {} ELSE {[h EXCEPT !.todo = Tail(@), !.found = entry]})
  BY DEF LooksUp
<1> DEFINE next == [h EXCEPT !.todo = Tail(@), !.found = entry]
<1>3. entry \in FoundEntries
  <2>1. FindRecent(Head(h.todo), h.target) \in LogEntries \cup {Nothing}
    BY FindRecentIs DEF AuditTyped
  <2> QED BY <1>2, <2>1, NothingTyped DEF LogEntries
<1>4. h \in Handlers /\ Len(h.todo) <= 4
  BY DEF AuditTyped
<1>5. /\ next \in Handlers /\ next.found = entry /\ next.kind = h.kind /\ next.listener = h.listener
      /\ next.todo = Tail(h.todo) /\ Len(next.todo) <= 4
  <2>1. Tail(h.todo) \in Seq(LogActions) /\ Len(Tail(h.todo)) = Len(h.todo) - 1 /\ Len(h.todo) \in Nat
    BY <1>1, <1>4 DEF Handlers
  <2>2. Len(Tail(h.todo)) <= 4
    BY <1>4, <2>1
  <2>3. next \in Handlers /\ next.todo = Tail(h.todo)
    BY <1>3, <1>4, <2>1 DEF Handlers
  <2> QED BY <1>4, <2>2, <2>3 DEF Handlers
<1>6. \A g \in handlers' : g \in handlers \/ g = next
  BY <1>2
<1> HIDE DEF next
<1>7. AuditTyped'
  <2>1. auditFails' \in BOOLEAN
    BY <1>1, Zenon DEF AuditTyped
  <2> QED BY <1>1, <1>5, <1>6, <2>1 DEF AuditTyped
<1>8. EntriesOf("ban")' = EntriesOf("ban")
  BY <1>1 DEF EntriesOf
<1>9. ASSUME h.kind = "ban", next \in handlers', h.listener = "remove", entry = Nothing, ~auditFails
      PROVE  next.todo \in {<<"kick", "ban">>, <<"ban">>}
  <2>1. EntriesOf("ban") # {} /\ h.todo \in {<<"kick", "ban">>, <<"ban">>}
    BY <1>1, <1>9 DEF BanIsSought
  <2>2. CASE h.todo = <<"kick", "ban">>
    BY <1>5, <2>2
  <2>3. CASE h.todo = <<"ban">>
    <3>1. Head(h.todo) = "ban"
      BY <2>3
    <3>2. FindRecent("ban", h.target) \in LogEntries
      BY <2>1, FindRecentIs DEF AuditTyped
    <3>3. entry = FindRecent("ban", h.target)
      BY <1>2, <1>9, <3>1
    <3> QED BY <1>9, <3>2, <3>3, NothingTyped
  <2> QED BY <2>1, <2>2, <2>3
<1>10. BanIsSought'
  <2> SUFFICES ASSUME NEW g \in handlers', g.kind = "ban"
               PROVE  /\ EntriesOf("ban")' # {} /\ g.listener \in {"ban", "remove"}
                      /\ g.listener = "remove" /\ g.found = Nothing /\ ~auditFails'
                            => g.todo \in {<<"kick", "ban">>, <<"ban">>}
    BY DEF BanIsSought
  <2>1. CASE g \in handlers
    BY <1>1, <1>8, <2>1, Zenon DEF BanIsSought
  <2>2. CASE g = next
    <3>1. h.kind = "ban"
      BY <1>5, <2>2
    <3>2. EntriesOf("ban") # {} /\ h.listener \in {"ban", "remove"}
      BY <3>1, Zenon DEF BanIsSought
    <3> QED BY <1>1, <1>5, <1>8, <1>9, <2>2, <3>1, <3>2
  <2> QED BY <1>6, <2>1, <2>2
<1>11. TrailTrue'
  BY <1>1, Zenon DEF TrailTrue
<1> QED BY <1>7, <1>10, <1>11

LEMMA SendsEmbedInv ==
    ASSUME AuditInv, NEW h \in handlers, SendsEmbed(h)
    PROVE  AuditInv'
<1> USE DEF AuditInv
<1>1. /\ handlers' = handlers \ {h}
      /\ (h.todo = << >> \/ h.found # Nothing)
      /\ UNCHANGED <<auditFails, auditLog, happened, logChannels>>
      /\ trail' = trail \cup {Sent(h)} \/ trail' = trail
  BY DEF SendsEmbed, Sent
<1>2. AuditTyped'
  <2>1. auditFails' \in BOOLEAN
    BY <1>1, Zenon DEF AuditTyped
  <2> QED BY <1>1, <2>1 DEF AuditTyped
<1>3. EntriesOf("ban")' = EntriesOf("ban")
  BY <1>1 DEF EntriesOf
<1>4. BanIsSought'
  BY <1>1, <1>3, Zenon DEF BanIsSought
<1>5. Sent(h).found = h.found /\ Sent(h).kind = h.kind /\ Sent(h).lines = PermissionLines(h.found) /\ Sent(h).title = Title(h)
  BY DEF Sent
<1>6. ASSUME h.kind = "ban", ~auditFails PROVE Title(h) # "left"
  <2>1. CASE h.listener # "remove"
    BY <1>6, <2>1 DEF Title, BanIsSought
  <2>2. CASE h.listener = "remove" /\ h.found # Nothing
    BY <2>2 DEF Title
  <2>3. CASE h.listener = "remove" /\ h.found = Nothing
    BY <1>1, <1>6, <2>3 DEF BanIsSought
  <2> QED BY <2>1, <2>2, <2>3
<1>7. h.found \in FoundEntries
  BY DEF AuditTyped, Handlers
<1>8. TrailTrue'
  <2> SUFFICES ASSUME NEW t \in trail'
               PROVE  /\ t.found \in FoundEntries /\ t.lines = PermissionLines(t.found)
                      /\ t.kind = "ban" /\ ~auditFails' => t.title # "left"
    BY DEF TrailTrue
  <2>1. CASE t \in trail
    BY <1>1, <2>1, Zenon DEF TrailTrue
  <2>2. CASE t = Sent(h)
    BY <1>1, <1>5, <1>6, <1>7, <2>2
  <2> QED BY <1>1, <2>1, <2>2
<1> QED BY <1>2, <1>4, <1>8

LEMMA AuditStepInv == AuditInv /\ [AuditNext]_auditVars => AuditInv'
<1> SUFFICES ASSUME AuditInv, [AuditNext]_auditVars PROVE AuditInv'
  OBVIOUS
<1>1. CASE UNCHANGED auditVars
  <2>1. EntriesOf("ban")' = EntriesOf("ban")
    BY <1>1 DEF auditVars, EntriesOf
  <2> QED BY <1>1, <2>1, Zenon DEF auditVars, AuditInv, AuditTyped, BanIsSought, TrailTrue
<1>2. CASE ChannelsChange
  <2>1. UNCHANGED <<auditFails, auditLog, handlers, trail>>
    BY <1>2 DEF ChannelsChange
  <2>2. EntriesOf("ban")' = EntriesOf("ban")
    BY <2>1 DEF EntriesOf
  <2>3. happened' \in 0 .. AuditMax
    BY <1>2, AuditAssumption DEF ChannelsChange, AuditInv, AuditTyped
  <2>4. logChannels' \subseteq {"audit", "messages"}
    BY <1>2 DEF ChannelsChange, AuditInv, AuditTyped
  <2> QED BY <2>1, <2>2, <2>3, <2>4, Zenon DEF AuditInv, AuditTyped, BanIsSought, TrailTrue
<1>3. CASE \E h \in handlers : LooksUp(h) \/ SendsEmbed(h)
  BY <1>3, LooksUpInv, SendsEmbedInv
<1>4. ASSUME NEW kind \in Happenings, NEW target \in Targets, NEW by \in {"staff"},
             NEW before \in Overwrites, NEW after \in Overwrites, Happens(kind, target, by, before, after)
      PROVE  AuditInv'
  BY <1>4, HappensInv
<1> QED BY <1>1, <1>2, <1>3, <1>4 DEF AuditNext, Overwrites

LEMMA AuditPromises == AuditInv => AuditTypeOK /\ BannedIsNotLeft /\ LinesTellTheOutcome
<1> SUFFICES ASSUME AuditInv PROVE AuditTypeOK /\ BannedIsNotLeft /\ LinesTellTheOutcome
  OBVIOUS
<1>1. AuditTypeOK
  <2>1. ASSUME NEW h \in handlers PROVE h.target \in Targets /\ Len(h.todo) \in 0 .. 4
    <3>1. h.target \in Targets /\ h.todo \in Seq(LogActions) /\ Len(h.todo) <= 4
      BY DEF AuditInv, AuditTyped, Handlers
    <3>2. \A s \in Seq(LogActions) : Len(s) \in Nat
      OBVIOUS
    <3>3. \A n \in Nat : n <= 4 => n \in 0 .. 4
      OBVIOUS
    <3> QED BY <3>1, <3>2, <3>3, Zenon
  <2> QED BY <2>1 DEF AuditInv, AuditTyped, AuditTypeOK
<1>2. BannedIsNotLeft
  BY DEF AuditInv, TrailTrue, BannedIsNotLeft
<1>3. LinesTellTheOutcome
  <2> SUFFICES ASSUME NEW t \in trail, NEW p \in Permissions
               PROVE  IF t.found.before[p] = t.found.after[p] THEN \A s \in Settings : <<p, s>> \notin t.lines
                      ELSE <<p, t.found.after[p]>> \in t.lines
    BY DEF LinesTellTheOutcome
  <2>1. t.lines = PermissionLines(t.found) /\ t.found.before[p] \in Settings /\ t.found.after[p] \in Settings
    BY DEF AuditInv, TrailTrue, FoundEntries, Overwrites
  <2>2. CASE t.found.before[p] = t.found.after[p]
    BY <2>1, <2>2 DEF PermissionLines
  <2>3. CASE t.found.before[p] # t.found.after[p]
    <3>1. CASE t.found.after[p] = "allow"
      BY <2>1, <2>3, <3>1 DEF PermissionLines
    <3>2. CASE t.found.after[p] = "deny"
      BY <2>1, <2>3, <3>2 DEF PermissionLines
    <3>3. CASE t.found.after[p] = "neutral"
      BY <2>1, <2>3, <3>3 DEF PermissionLines
    <3> QED BY <2>1, <2>3, <3>1, <3>2, <3>3 DEF Settings
  <2> QED BY <2>2, <2>3
<1> QED BY <1>1, <1>2, <1>3

---------------------------------------------------------------------------
(* Moderation.                                                             *)

ChatMessages == [author : {"none", "member", "bot"}, foul : BOOLEAN, there : BOOLEAN]
FlagStates == [of : Messages \cup {"none"}, taken : BOOLEAN, alive : BOOLEAN,
               next : {"none", "ignore", "proceed", "tellProceed"}]

ModTyped ==
    /\ chat \in [Messages -> ChatMessages]
    /\ flag \in [Flags -> FlagStates]
    /\ ruling \in [Flags -> {<< >>, <<"Ignore">>, <<"Proceed">>}]
    /\ punish \in [Punished -> {"none", "telling", "removing"}]
    /\ inGuild \subseteq Punished /\ purge \subseteq Messages

(* Nothing is checked or flagged before it was posted.                      *)
PostedFirst ==
    /\ \A l \in {"profanity", "sterile"}, x \in Messages, foul \in BOOLEAN :
         <<l, x, foul>> \in checks => chat[x].author # "none"
    /\ \A f \in Flags : flag[f].of \in Messages => chat[flag[f].of].author # "none"

(* A flag is taken before an action of its is posted, and whoever has taken *)
(* it is the only one who posts; what is to be told as deleted is gone.     *)
TakenFirst(f) ==
    /\ flag[f].taken \/ flag[f].alive => flag[f].of \in Messages
    /\ ~flag[f].taken => flag[f].next = "none" /\ ruling[f] = << >>
    /\ flag[f].next # "none" => ruling[f] = << >>
    /\ flag[f].next = "tellProceed" \/ ruling[f] = <<"Proceed">> => ~There(flag[f].of)

ModInv == ModTyped /\ PostedFirst /\ \A f \in Flags : TakenFirst(f)

(* What was posted stays posted, and what is gone does not come back.       *)
ChatGoesOn ==
    \A x \in Messages : chat[x].author # "none" => chat'[x].author # "none" /\ (There(x)' => There(x))

LEMMA NoFlagTyped == NoFlag \in FlagStates /\ NoFlag.of = "none" /\ NoFlag.taken = FALSE /\ NoFlag.alive = FALSE /\ NoFlag.next = "none"
BY DEF NoFlag, FlagStates

LEMMA ModInitInv == ModInit => ModInv
<1> SUFFICES ASSUME ModInit PROVE ModInv
  OBVIOUS
<1>1. ModTyped
  <2>1. chat \in [Messages -> ChatMessages] /\ flag \in [Flags -> FlagStates]
    BY NoFlagTyped DEF ModInit, ChatMessages
  <2>2. ruling \in [Flags -> {<< >>, <<"Ignore">>, <<"Proceed">>}]
    BY DEF ModInit
  <2> QED BY <2>1, <2>2 DEF ModInit, ModTyped
<1>2. PostedFirst
  BY NoFlagTyped, ModAssumption DEF ModInit, PostedFirst
<1>3. \A f \in Flags : TakenFirst(f)
  BY NoFlagTyped DEF ModInit, TakenFirst
<1> QED BY <1>1, <1>2, <1>3 DEF ModInv

(* Steps that leave the flags alone.                                        *)
LEMMA FlagsStay ==
    ASSUME ModInv, ModTyped', ChatGoesOn, UNCHANGED flagBits,
           \A l \in {"profanity", "sterile"}, x \in Messages, foul \in BOOLEAN :
               <<l, x, foul>> \in checks' => <<l, x, foul>> \in checks \/ chat'[x].author # "none"
    PROVE  ModInv'
<1>1. PostedFirst'
  BY DEF ModInv, PostedFirst, ChatGoesOn, flagBits
<1>2. ASSUME NEW f \in Flags PROVE TakenFirst(f)'
  <2>1. TakenFirst(f) /\ flag'[f] = flag[f] /\ ruling'[f] = ruling[f]
    BY DEF ModInv, flagBits
  <2>2. flag[f].of \in Messages => (chat'[flag[f].of].there => chat[flag[f].of].there)
    BY DEF ModInv, PostedFirst, ChatGoesOn, There
  <2>3. flag[f].next = "tellProceed" \/ ruling[f] = <<"Proceed">> => flag[f].taken
    BY <2>1 DEF TakenFirst
  <2> QED BY <2>1, <2>2, <2>3 DEF TakenFirst, There
<1> QED BY <1>1, <1>2 DEF ModInv

(* Steps that leave the chat alone, and of the flags change one.            *)
LEMMA OneFlagMoves ==
    ASSUME ModInv, NEW f \in Flags, ModTyped', TakenFirst(f)',
           \A x \in Messages : There(x)' => There(x),
           \A x \in Messages : chat'[x].author = chat[x].author,
           checks' \subseteq checks,
           flag'[f].of \in Messages => chat[flag'[f].of].author # "none",
           \A g \in Flags \ {f} : flag'[g] = flag[g] /\ ruling'[g] = ruling[g]
    PROVE  ModInv'
<1>1. PostedFirst'
  BY DEF ModInv, PostedFirst
<1>2. ASSUME NEW g \in Flags \ {f} PROVE TakenFirst(g)'
  <2>1. TakenFirst(g) /\ flag'[g] = flag[g] /\ ruling'[g] = ruling[g]
    BY DEF ModInv
  <2>2. flag[g].of \in Messages => (chat'[flag[g].of].there => chat[flag[g].of].there)
    BY DEF There
  <2>3. flag[g].next = "tellProceed" \/ ruling[g] = <<"Proceed">> => flag[g].taken
    BY <2>1 DEF TakenFirst
  <2> QED BY <2>1, <2>2, <2>3 DEF TakenFirst, There
<1> QED BY <1>1, <1>2 DEF ModInv

LEMMA DeleteIs ==
    ASSUME chat \in [Messages -> ChatMessages], NEW x \in Messages, Delete(x)
    PROVE  /\ chat' \in [Messages -> ChatMessages] /\ ~There(x)'
           /\ \A y \in Messages : chat'[y].author = chat[y].author /\ (There(y)' => There(y))
BY DEF Delete, There, ChatMessages

LEMMA ChatInv ==
    ASSUME ModInv, NEW x \in Messages, NEW foul \in BOOLEAN,
           Edits(x) \/ ChecksSterile(x, foul) \/ \E author \in {"member", "bot"} : PostsMessage(x, author, foul)
    PROVE  ModInv'
<1> USE DEF ModInv
<1>1. UNCHANGED flagBits /\ UNCHANGED punish /\ UNCHANGED inGuild /\ UNCHANGED purge
  BY DEF Edits, ChecksSterile, PostsMessage, memberBits
<1>2. CASE ChecksSterile(x, foul)
  <2>1. checks' \subseteq checks /\ (Delete(x) \/ chat' = chat)
    BY <1>2 DEF ChecksSterile
  <2>2. chat' \in [Messages -> ChatMessages] /\ ChatGoesOn
    BY <2>1, DeleteIs DEF ModTyped, ChatGoesOn, There
  <2>3. ModTyped'
    BY <1>1, <2>2 DEF ModTyped, flagBits
  <2> QED BY <1>1, <2>1, <2>2, <2>3, FlagsStay
<1>3. ASSUME NEW author \in {"member", "bot"}, PostsMessage(x, author, foul) PROVE ModInv'
  <2>1. /\ chat[x].author = "none" /\ chat' = [chat EXCEPT ![x] = [author |-> author, foul |-> foul, there |-> TRUE]]
        /\ checks' \subseteq checks \cup {<<"profanity", x, foul>>, <<"sterile", x, foul>>}
    BY <1>3 DEF PostsMessage
  <2>2. chat' \in [Messages -> ChatMessages] /\ chat'[x].author # "none"
    BY <2>1 DEF ModTyped, ChatMessages
  <2>3. \A y \in Messages \ {x} : chat'[y] = chat[y]
    BY <2>1 DEF ModTyped
  <2>4. ChatGoesOn
    BY <2>1, <2>2, <2>3 DEF ChatGoesOn, There
  <2>5. ModTyped'
    BY <1>1, <2>2 DEF ModTyped, flagBits
  <2>6. \A l \in {"profanity", "sterile"}, y \in Messages, g \in BOOLEAN :
          <<l, y, g>> \in checks' => <<l, y, g>> \in checks \/ chat'[y].author # "none"
    BY <2>1, <2>2
  <2> QED BY <1>1, <2>4, <2>5, <2>6, FlagsStay
<1>4. CASE Edits(x)
  <2>1. PICK g \in BOOLEAN : chat' = [chat EXCEPT ![x].foul = g] /\ checks' = checks \cup {<<"profanity", x, g>>}
    BY <1>4 DEF Edits
  <2>2. /\ chat' \in [Messages -> ChatMessages]
        /\ \A y \in Messages : chat'[y].author = chat[y].author /\ chat'[y].there = chat[y].there
    BY <2>1 DEF ModTyped, ChatMessages
  <2>3. ChatGoesOn
    BY <2>2 DEF ChatGoesOn, There
  <2>4. ModTyped'
    BY <1>1, <2>2 DEF ModTyped, flagBits
  <2>5. chat[x].author = "member"
    BY <1>4 DEF Edits
  <2>6. \A l \in {"profanity", "sterile"}, y \in Messages, h \in BOOLEAN :
          <<l, y, h>> \in checks' => <<l, y, h>> \in checks \/ chat'[y].author # "none"
    BY <2>1, <2>2, <2>5
  <2> QED BY <1>1, <2>3, <2>4, <2>6, FlagsStay
<1> QED BY <1>2, <1>3, <1>4

LEMMA ChecksProfanityInv ==
    ASSUME ModInv, NEW x \in Messages, NEW foul \in BOOLEAN, ChecksProfanity(x, foul)
    PROVE  ModInv'
<1> USE DEF ModInv
<1>1. /\ <<"profanity", x, foul>> \in checks /\ checks' \subseteq checks
      /\ UNCHANGED <<chat, ruling, punish, inGuild, purge>>
  BY DEF ChecksProfanity, memberBits
<1>2. ChatGoesOn
  BY <1>1 DEF ChatGoesOn, There
<1>3. CASE flag' = flag
  <2>1. ModTyped'
    BY <1>1, <1>3 DEF ModTyped
  <2> QED BY <1>1, <1>2, <1>3, <2>1, FlagsStay DEF flagBits
<1>4. ASSUME NEW f \in Flags, flag[f] = NoFlag, flag' = [flag EXCEPT ![f] = [NoFlag EXCEPT !.of = x, !.alive = TRUE]]
      PROVE  ModInv'
  <2> DEFINE new == [NoFlag EXCEPT !.of = x, !.alive = TRUE]
  <2>1. new \in FlagStates /\ new.of = x /\ new.taken = FALSE /\ new.alive = TRUE /\ new.next = "none"
    BY DEF NoFlag, FlagStates
  <2> HIDE DEF new
  <2>2. flag'[f] = new /\ \A g \in Flags \ {f} : flag'[g] = flag[g]
    BY <1>4 DEF ModTyped, new
  <2>3. ModTyped'
    BY <1>1, <1>4, <2>1 DEF ModTyped, new
  <2>4. ruling[f] = << >>
    BY <1>4, NoFlagTyped DEF TakenFirst
  <2>5. TakenFirst(f)'
    BY <1>1, <2>1, <2>2, <2>4 DEF TakenFirst
  <2>6. chat[x].author # "none"
    BY <1>1 DEF PostedFirst
  <2> QED BY <1>1, <2>1, <2>2, <2>3, <2>5, <2>6, OneFlagMoves DEF There
<1> QED BY <1>3, <1>4 DEF ChecksProfanity

LEMMA ButtonInv ==
    ASSUME ModInv, NEW f \in Flags,
           ViewEnds(f) \/ ProceedDeletes(f) \/ TellFails(f) \/ \E button \in {"ignore", "proceed"} : Presses(f, button)
    PROVE  ModInv'
<1> USE DEF ModInv
<1>1. UNCHANGED <<checks, ruling, punish, inGuild, purge>>
  BY DEF ViewEnds, ProceedDeletes, TellFails, Presses, memberBits
<1>f. flag[f] \in FlagStates /\ TakenFirst(f)
  BY DEF ModTyped
<1>2. ASSUME UNCHANGED chat,
             NEW new \in FlagStates, flag' = [flag EXCEPT ![f] = new], new.of = flag[f].of,
             new.taken \/ new.alive => flag[f].of \in Messages,
             ~new.taken => new.next = "none" /\ ~flag[f].taken,
             new.next # "none" => ruling[f] = << >>,
             new.next = "tellProceed" => ~There(flag[f].of)
      PROVE  ModInv'
  <2>1. flag'[f] = new /\ \A g \in Flags \ {f} : flag'[g] = flag[g]
    BY <1>2 DEF ModTyped
  <2>2. ModTyped'
    BY <1>1, <1>2 DEF ModTyped
  <2>3. TakenFirst(f)'
    BY <1>1, <1>2, <1>f, <2>1 DEF TakenFirst, There
  <2>4. flag'[f].of \in Messages => chat[flag'[f].of].author # "none"
    BY <1>2, <2>1 DEF PostedFirst
  <2> QED BY <1>1, <1>2, <2>1, <2>2, <2>3, <2>4, OneFlagMoves DEF There
<1>3. ASSUME NEW button \in {"ignore", "proceed"}, Presses(f, button) PROVE ModInv'
  <2> DEFINE new == [flag[f] EXCEPT !.taken = TRUE, !.next = button]
  <2>1. flag[f].alive /\ ~flag[f].taken /\ flag' = [flag EXCEPT ![f] = new] /\ UNCHANGED chat
    BY <1>3 DEF Presses
  <2>2. new \in FlagStates /\ new.of = flag[f].of /\ new.taken = TRUE /\ new.next = button
    BY <1>f DEF FlagStates
  <2> HIDE DEF new
  <2>3. flag[f].of \in Messages /\ ruling[f] = << >>
    BY <1>f, <2>1 DEF TakenFirst
  <2> QED BY <1>2, <2>1, <2>2, <2>3
<1>4. CASE ViewEnds(f)
  <2> DEFINE new == [flag[f] EXCEPT !.alive = FALSE]
  <2>1. flag' = [flag EXCEPT ![f] = new] /\ UNCHANGED chat
    BY <1>4 DEF ViewEnds
  <2>2. new \in FlagStates /\ new.of = flag[f].of /\ new.taken = flag[f].taken /\ new.alive = FALSE /\ new.next = flag[f].next
    BY <1>f DEF FlagStates
  <2> HIDE DEF new
  <2> QED BY <1>2, <1>f, <2>1, <2>2 DEF TakenFirst
<1>5. ASSUME UNCHANGED chat, flag' = [flag EXCEPT ![f].next = "none"] PROVE ModInv'
  <2> DEFINE new == [flag[f] EXCEPT !.next = "none"]
  <2>1. flag' = [flag EXCEPT ![f] = new]
    BY <1>5
  <2>2. new \in FlagStates /\ new.of = flag[f].of /\ new.taken = flag[f].taken /\ new.alive = flag[f].alive /\ new.next = "none"
    BY <1>f DEF FlagStates
  <2> HIDE DEF new
  <2> QED BY <1>2, <1>5, <1>f, <2>1, <2>2 DEF TakenFirst
<1>6. CASE TellFails(f)
  BY <1>5, <1>6 DEF TellFails
<1>7. CASE ProceedDeletes(f)
  <2>1. CASE GivesUp(f) /\ chat' = chat
    BY <1>5, <2>1 DEF GivesUp
  <2>2. CASE There(flag[f].of) /\ Delete(flag[f].of) /\ flag' = [flag EXCEPT ![f].next = "tellProceed"]
    <3> DEFINE new == [flag[f] EXCEPT !.next = "tellProceed"]
    <3>1. flag' = [flag EXCEPT ![f] = new]
      BY <2>2
    <3>2. /\ new \in FlagStates /\ new.of = flag[f].of /\ new.taken = flag[f].taken /\ new.alive = flag[f].alive
          /\ new.next = "tellProceed"
      BY <1>f DEF FlagStates
    <3> HIDE DEF new
    <3>3. flag[f].next = "proceed"
      BY <1>7 DEF ProceedDeletes
    <3>4. flag[f].taken /\ flag[f].of \in Messages /\ ruling[f] = << >>
      BY <1>f, <3>3 DEF TakenFirst
    <3>5. /\ chat' \in [Messages -> ChatMessages] /\ ~chat'[flag[f].of].there
          /\ \A y \in Messages : chat'[y].author = chat[y].author /\ (There(y)' => There(y))
      <4>1. PICK x \in Messages : x = flag[f].of
        BY <3>4
      <4>2. chat' = [chat EXCEPT ![x].there = FALSE] /\ chat \in [Messages -> ChatMessages]
        BY <2>2, <4>1 DEF Delete, ModTyped
      <4>3. chat' \in [Messages -> ChatMessages] /\ \A y \in Messages : chat'[y].author = chat[y].author
        BY <4>2 DEF ChatMessages
      <4>4. ~chat'[x].there /\ \A y \in Messages : chat'[y].there => chat[y].there
        BY <4>2 DEF ChatMessages
      <4> QED BY <4>1, <4>3, <4>4 DEF There
    <3>6. flag'[f] = new /\ \A g \in Flags \ {f} : flag'[g] = flag[g]
      BY <3>1 DEF ModTyped
    <3>7. ModTyped'
      BY <1>1, <3>1, <3>2, <3>5 DEF ModTyped
    <3>8. TakenFirst(f)'
      BY <1>1, <1>f, <3>2, <3>4, <3>5, <3>6 DEF TakenFirst, There
    <3>9. flag'[f].of \in Messages => chat[flag'[f].of].author # "none"
      BY <3>2, <3>6 DEF PostedFirst
    <3> QED BY <1>1, <3>5, <3>6, <3>7, <3>8, <3>9, OneFlagMoves
  <2> QED BY <1>7, <2>1, <2>2 DEF ProceedDeletes
<1> QED BY <1>3, <1>4, <1>6, <1>7

LEMMA TellsActionInv ==
    ASSUME ModInv, NEW f \in Flags, TellsAction(f)
    PROVE  ModInv'
<1> USE DEF ModInv
<1> DEFINE new == [flag[f] EXCEPT !.next = "none", !.taken = TRUE, !.alive = FALSE]
           told == IF flag[f].next = "ignore" THEN "Ignore" ELSE "Proceed"
<1>1. /\ flag[f].next \in {"ignore", "tellProceed"} /\ flag' = [flag EXCEPT ![f] = new]
      /\ ruling' = [ruling EXCEPT ![f] = Append(@, told)]
      /\ UNCHANGED <<chat, checks, punish, inGuild, purge>>
  BY DEF TellsAction, memberBits
<1>2. flag[f] \in FlagStates /\ TakenFirst(f)
  BY DEF ModTyped
<1>3. new \in FlagStates /\ new.of = flag[f].of /\ new.taken = TRUE /\ new.next = "none"
  BY <1>2 DEF FlagStates
<1> HIDE DEF new
<1>4. ruling[f] = << >> /\ flag[f].taken /\ flag[f].of \in Messages
  BY <1>1, <1>2 DEF TakenFirst
<1>5. ruling'[f] = <<told>> /\ ruling' \in [Flags -> {<< >>, <<"Ignore">>, <<"Proceed">>}]
      /\ \A g \in Flags \ {f} : ruling'[g] = ruling[g]
  <2>1. ruling' = [ruling EXCEPT ![f] = <<told>>]
    BY <1>1, <1>4
  <2>2. <<told>> \in {<<"Ignore">>, <<"Proceed">>}
    OBVIOUS
  <2> QED BY <2>1, <2>2 DEF ModTyped
<1>6. flag'[f] = new /\ \A g \in Flags \ {f} : flag'[g] = flag[g]
  BY <1>1 DEF ModTyped
<1>7. ModTyped'
  BY <1>1, <1>3, <1>5 DEF ModTyped
<1>8. ruling'[f] = <<"Proceed">> => ~There(flag[f].of)
  <2>1. <<told>> = <<"Proceed">> => flag[f].next = "tellProceed"
    BY <1>1
  <2> QED BY <1>2, <1>5, <2>1 DEF TakenFirst
<1>9. TakenFirst(f)'
  BY <1>1, <1>3, <1>4, <1>6, <1>8 DEF TakenFirst, There
<1>10. flag'[f].of \in Messages => chat[flag'[f].of].author # "none"
  BY <1>3, <1>6 DEF PostedFirst
<1> QED BY <1>1, <1>5, <1>6, <1>7, <1>9, <1>10, OneFlagMoves DEF There

LEMMA ModOtherInv ==
    ASSUME ModInv,
           \/ SetsSterile \/ PurgeDeletes \/ \E mode \in {"all", "bots", "users"} : BeginsPurge(mode)
           \/ \E m \in Punished : BeginsPunish(m) \/ TellsMember(m) \/ RemovesMember(m) \/ RanksChange(m)
    PROVE  ModInv'
<1> USE DEF ModInv
<1>1. UNCHANGED flagBits /\ UNCHANGED checks
  BY DEF SetsSterile, PurgeDeletes, BeginsPurge, BeginsPunish, TellsMember, RemovesMember, RanksChange
<1>2. CASE PurgeDeletes
  <2>1. purge' = {} /\ UNCHANGED <<punish, inGuild>>
    BY <1>2 DEF PurgeDeletes, memberBits
  <2>2. PICK done \in SUBSET purge : chat' = [x \in Messages |-> [chat[x] EXCEPT !.there = @ /\ x \notin done]]
    BY <1>2 DEF PurgeDeletes
  <2>3. \A x \in Messages : chat'[x].author = chat[x].author /\ (chat'[x].there => chat[x].there) /\ chat'[x] \in ChatMessages
    <3> TAKE x \in Messages
    <3>1. chat[x] \in ChatMessages
      BY DEF ModTyped
    <3> DEFINE still == chat[x].there /\ x \notin done
    <3>2. still \in BOOLEAN /\ (still => chat[x].there)
      OBVIOUS
    <3>3. chat'[x] = [chat[x] EXCEPT !.there = still]
      BY <2>2
    <3> HIDE DEF still
    <3>4. chat'[x].author = chat[x].author /\ chat'[x].there = still /\ chat'[x] \in ChatMessages
      BY <3>1, <3>2, <3>3 DEF ChatMessages
    <3> QED BY <3>2, <3>4
  <2>4. chat' \in [Messages -> ChatMessages]
    BY <2>2, <2>3
  <2>5. ChatGoesOn
    BY <2>3 DEF ChatGoesOn, There
  <2>6. ModTyped'
    BY <1>1, <2>1, <2>4 DEF ModTyped, flagBits
  <2> QED BY <1>1, <2>5, <2>6, FlagsStay
<1>3. CASE UNCHANGED chat /\ ~PurgeDeletes
  <2>1. purge' \subseteq Messages
    BY <1>3 DEF SetsSterile, BeginsPurge, BeginsPunish, TellsMember, RemovesMember, RanksChange, ModTyped
  <2>2. inGuild' \subseteq Punished
    BY <1>3 DEF SetsSterile, BeginsPurge, BeginsPunish, TellsMember, RemovesMember, RanksChange, ModTyped, memberBits
  <2>3. punish' \in [Punished -> {"none", "telling", "removing"}]
    <3>1. \/ punish' = punish
          \/ \E m \in Punished, then \in {"none", "telling", "removing"} : punish' = [punish EXCEPT ![m] = then]
      BY <1>3 DEF SetsSterile, BeginsPurge, BeginsPunish, TellsMember, RemovesMember, RanksChange, memberBits
    <3> QED BY <3>1 DEF ModTyped
  <2>4. ModTyped'
    BY <1>1, <1>3, <2>1, <2>2, <2>3 DEF ModTyped, flagBits
  <2>5. ChatGoesOn
    BY <1>3 DEF ChatGoesOn, There
  <2> QED BY <1>1, <2>4, <2>5, FlagsStay
<1>4. ~PurgeDeletes => UNCHANGED chat
  BY DEF SetsSterile, BeginsPurge, BeginsPunish, TellsMember, RemovesMember, RanksChange
<1> QED BY <1>2, <1>3, <1>4

LEMMA ModStepInv == ModInv /\ [ModNext]_modVars => ModInv'
<1> SUFFICES ASSUME ModInv, [ModNext]_modVars PROVE ModInv'
  OBVIOUS
<1>1. CASE UNCHANGED modVars
  <2>1. ModTyped' /\ ChatGoesOn /\ UNCHANGED flagBits /\ UNCHANGED checks
    BY <1>1 DEF modVars, flagBits, memberBits, ModInv, ModTyped, ChatGoesOn, There
  <2> QED BY <2>1, FlagsStay
<1>2. CASE ModNext
  BY <1>2, ChatInv, ChecksProfanityInv, ButtonInv, TellsActionInv, ModOtherInv DEF ModNext
<1> QED BY <1>1, <1>2

LEMMA ModPromises == ModInv => ModTypeOK /\ OneActionPerFlag
<1> SUFFICES ASSUME ModInv PROVE ModTypeOK /\ OneActionPerFlag
  OBVIOUS
<1>1. ModTypeOK
  BY DEF ModInv, ModTyped, FlagStates, ModTypeOK
<1>2. ASSUME NEW f \in Flags PROVE Len(ruling[f]) <= 1 /\ (ruling[f] = <<"Proceed">> => ~There(flag[f].of))
  <2>1. ruling[f] \in {<< >>, <<"Ignore">>, <<"Proceed">>} /\ TakenFirst(f)
    BY DEF ModInv, ModTyped
  <2>2. Len(<< >>) = 0 /\ Len(<<"Ignore">>) = 1 /\ Len(<<"Proceed">>) = 1
    OBVIOUS
  <2>3. Len(ruling[f]) = 0 \/ Len(ruling[f]) = 1
    BY <2>1, <2>2
  <2>4. \A n : n = 0 \/ n = 1 => n <= 1
    OBVIOUS
  <2>5. Len(ruling[f]) <= 1
    BY <2>3, <2>4, Zenon
  <2> QED BY <2>1, <2>5 DEF TakenFirst
<1> QED BY <1>1, <1>2 DEF OneActionPerFlag

---------------------------------------------------------------------------
(* Application channels and invites.                                       *)

AppTyped ==
    /\ asked \in [Applicants -> {"not yet", "there", "gone"}]
    /\ making \in [Applicants -> {"idle", "creating", "forwarding", "notifying", "undoing", "tidying"}]
    /\ sentTo \in [Applicants -> SUBSET {"archived", "notice"}]
    /\ appChannel \subseteq Applicants /\ claimable \subseteq Applicants /\ excused \subseteq Applicants
    /\ inUnit \in {"out", "joined", "in"} /\ mainRole \in BOOLEAN /\ unitRole \in BOOLEAN

(* What the handler of a message has done by the step it is at.             *)
HandledSoFar(r) ==
    /\ asked[r] = "not yet" => making[r] = "idle"
    /\ asked[r] = "not yet" \/ making[r] = "creating" => sentTo[r] = {} /\ r \notin appChannel
    /\ making[r] = "forwarding" => sentTo[r] = {}
    /\ making[r] = "notifying" => sentTo[r] = {"archived"}
    /\ making[r] = "tidying" => sentTo[r] = {"archived", "notice"}
    /\ making[r] = "idle" /\ r \in appChannel /\ r \notin excused => sentTo[r] = {"archived", "notice"}

AppInv == AppTyped /\ \A r \in Applicants : HandledSoFar(r)

LEMMA AppInitInv == AppInit => AppInv
<1> SUFFICES ASSUME AppInit PROVE AppInv
  OBVIOUS
<1>1. mainRole \in BOOLEAN /\ unitRole \in BOOLEAN
  BY Zenon DEF AppInit
<1>2. AppTyped
  BY <1>1 DEF AppInit, AppTyped
<1>3. \A r \in Applicants : HandledSoFar(r)
  BY DEF AppInit, HandledSoFar
<1> QED BY <1>2, <1>3 DEF AppInv

(* A step of one handler leaves the others where they are.                  *)
LEMMA HandlerInv ==
    ASSUME AppInv, NEW r \in Applicants, NEW next,
           Goes(r, next), AppTyped', HandledSoFar(r)',
           UNCHANGED excused,
           \A q \in Applicants \ {r} :
               asked'[q] = asked[q] /\ sentTo'[q] = sentTo[q] /\ (q \in appChannel' <=> q \in appChannel)
    PROVE  AppInv'
<1>1. \A q \in Applicants \ {r} : making'[q] = making[q]
  BY DEF AppInv, AppTyped, Goes
<1>2. \A q \in Applicants \ {r} : HandledSoFar(q)'
  BY <1>1 DEF AppInv, HandledSoFar
<1> QED BY <1>2 DEF AppInv

LEMMA SentToTyped ==
    ASSUME NEW f \in [Applicants -> SUBSET {"archived", "notice"}], NEW r \in Applicants,
           NEW x \in {"archived", "notice"}
    PROVE  [f EXCEPT ![r] = @ \cup {x}] \in [Applicants -> SUBSET {"archived", "notice"}]
OBVIOUS

LEMMA MakesChannelInv ==
    ASSUME AppInv, NEW r \in Applicants,
           WebhookAsks(r) \/ CreatesChannel(r) \/ ForwardsArchived(r) \/ NotifiesStaff(r) \/ DeletesCommand(r)
    PROVE  AppInv'
<1> USE DEF AppInv
<1>u. UNCHANGED <<excused, unitBits>>
  BY DEF WebhookAsks, CreatesChannel, ForwardsArchived, NotifiesStaff, DeletesCommand
<1>m. mainRole' \in BOOLEAN /\ unitRole' \in BOOLEAN /\ inUnit' \in {"out", "joined", "in"}
  BY <1>u DEF unitBits, AppTyped
<1>h. HandledSoFar(r)
  OBVIOUS
<1>1. CASE WebhookAsks(r)
  <2>1. /\ asked[r] = "not yet" /\ asked' = [asked EXCEPT ![r] = "there"] /\ Goes(r, "creating")
        /\ UNCHANGED <<appChannel, sentTo, claimable, excused>>
    BY <1>1 DEF WebhookAsks
  <2>2. AppTyped' /\ HandledSoFar(r)'
    BY <2>1, <1>m, <1>h DEF AppTyped, HandledSoFar, Goes
  <2> QED BY <2>1, <2>2, HandlerInv DEF AppTyped
<1>2. CASE CreatesChannel(r)
  <2>1. /\ making[r] = "creating" /\ UNCHANGED <<asked, sentTo, claimable, excused>>
        /\ \/ appChannel' = appChannel \cup {r} /\ Goes(r, "forwarding")
           \/ appChannel' = appChannel /\ Goes(r, "idle")
    BY <1>2 DEF CreatesChannel
  <2>2. AppTyped' /\ HandledSoFar(r)'
    BY <2>1, <1>m, <1>h DEF AppTyped, HandledSoFar, Goes
  <2> QED BY <2>1, <2>2, HandlerInv
<1>3. CASE ForwardsArchived(r)
  <2>1. making[r] = "forwarding" /\ UNCHANGED <<asked, appChannel, claimable, excused>>
    BY <1>3 DEF ForwardsArchived
  <2>2. CASE sentTo' = [sentTo EXCEPT ![r] = @ \cup {"archived"}] /\ Goes(r, "notifying")
    <3>1. sentTo' \in [Applicants -> SUBSET {"archived", "notice"}]
      BY <2>2, SentToTyped DEF AppTyped
    <3>2. AppTyped'
      BY <2>1, <2>2, <3>1, <1>m DEF AppTyped, Goes
    <3>3. HandledSoFar(r)'
      BY <2>1, <2>2, <1>h DEF AppTyped, HandledSoFar, Goes
    <3> QED BY <2>1, <2>2, <3>2, <3>3, HandlerInv DEF AppTyped
  <2>3. CASE sentTo' = sentTo /\ Goes(r, "undoing")
    <3>1. AppTyped'
      BY <2>1, <2>3, <1>m DEF AppTyped, Goes
    <3>2. HandledSoFar(r)'
      BY <2>1, <2>3, <1>h DEF AppTyped, HandledSoFar, Goes
    <3> QED BY <2>1, <2>3, <3>1, <3>2, HandlerInv
  <2> QED BY <1>3, <2>2, <2>3 DEF ForwardsArchived
<1>4. CASE NotifiesStaff(r)
  <2>1. making[r] = "notifying" /\ UNCHANGED <<asked, appChannel, excused>>
    BY <1>4 DEF NotifiesStaff
  <2>2. CASE /\ sentTo' = [sentTo EXCEPT ![r] = @ \cup {"notice"}] /\ claimable' = claimable \cup {r}
             /\ Goes(r, "tidying")
    <3>1. sentTo' \in [Applicants -> SUBSET {"archived", "notice"}]
      BY <2>2, SentToTyped DEF AppTyped
    <3>2. AppTyped'
      BY <2>1, <2>2, <3>1, <1>m DEF AppTyped, Goes
    <3>3. HandledSoFar(r)'
      BY <2>1, <2>2, <1>h DEF AppTyped, HandledSoFar, Goes
    <3> QED BY <2>1, <2>2, <3>2, <3>3, HandlerInv DEF AppTyped
  <2>3. CASE sentTo' = sentTo /\ claimable' = claimable /\ Goes(r, "undoing")
    <3>1. AppTyped'
      BY <2>1, <2>3, <1>m DEF AppTyped, Goes
    <3>2. HandledSoFar(r)'
      BY <2>1, <2>3, <1>h DEF AppTyped, HandledSoFar, Goes
    <3> QED BY <2>1, <2>3, <3>1, <3>2, HandlerInv
  <2> QED BY <1>4, <2>2, <2>3 DEF NotifiesStaff, UndoesChannel
<1>5. CASE DeletesCommand(r)
  <2>1. /\ making[r] = "tidying" /\ Goes(r, "idle") /\ UNCHANGED <<appChannel, sentTo, claimable, excused>>
        /\ asked' \in {asked, [asked EXCEPT ![r] = "gone"]}
    BY <1>5 DEF DeletesCommand
  <2>2. AppTyped' /\ HandledSoFar(r)'
    BY <2>1, <1>m, <1>h DEF AppTyped, HandledSoFar, Goes
  <2> QED BY <2>1, <2>2, HandlerInv DEF AppTyped
<1> QED BY <1>1, <1>2, <1>3, <1>4, <1>5

(* The channel goes, or stays and is excused.                               *)
LEMMA RemovesChannelInv ==
    ASSUME AppInv, NEW r \in Applicants, RemovesChannel(r)
    PROVE  AppInv'
<1>1. /\ making[r] = "undoing" /\ Goes(r, "idle")
      /\ UNCHANGED <<asked, sentTo, claimable, mainRole, inUnit, unitRole>>
      /\ \/ appChannel' = appChannel \ {r} /\ excused' = excused
         \/ appChannel' = appChannel /\ excused' = excused \cup {r}
  BY DEF RemovesChannel, unitBits
<1>2. AppTyped'
  BY <1>1 DEF AppInv, AppTyped, Goes
<1>3. \A q \in Applicants : HandledSoFar(q)'
  BY <1>1 DEF AppInv, AppTyped, HandledSoFar, Goes
<1> QED BY <1>2, <1>3 DEF AppInv

LEMMA AppRestartsInv ==
    ASSUME AppInv, AppRestarts
    PROVE  AppInv'
<1>1. /\ excused' = excused \cup {r \in Applicants : making[r] # "idle"}
      /\ making' = [r \in Applicants |-> "idle"] /\ claimable' = {}
      /\ inUnit' = IF inUnit = "joined" THEN "in" ELSE inUnit
      /\ UNCHANGED <<asked, appChannel, sentTo, mainRole, unitRole>>
  BY DEF AppRestarts
<1>2. AppTyped'
  BY <1>1 DEF AppInv, AppTyped
<1>3. \A q \in Applicants : HandledSoFar(q)'
  BY <1>1 DEF AppInv, HandledSoFar
<1> QED BY <1>2, <1>3 DEF AppInv

(* Claims, and what the invites do, are no business of the handler's.       *)
LEMMA AppOtherInv ==
    ASSUME AppInv, NEW r \in Applicants, Claims(r) \/ ChannelCloses(r)
    PROVE  AppInv'
<1>1. /\ UNCHANGED <<asked, making, sentTo, claimable, excused, mainRole, inUnit, unitRole>>
      /\ appChannel' \subseteq appChannel
  BY DEF Claims, ChannelCloses, unitBits
<1>2. AppTyped'
  BY <1>1 DEF AppInv, AppTyped
<1>3. \A q \in Applicants : HandledSoFar(q)'
  BY <1>1 DEF AppInv, HandledSoFar
<1> QED BY <1>2, <1>3 DEF AppInv

LEMMA InvitesInv ==
    ASSUME AppInv,
           \/ MainRoleChanges \/ MakesInvite \/ TellsInvite \/ HandlesUnitJoin \/ LeavesUnit
           \/ \E i \in invites : JoinsUnit(i)
    PROVE  AppInv'
<1>1. UNCHANGED channelBits
  BY DEF MainRoleChanges, MakesInvite, TellsInvite, HandlesUnitJoin, LeavesUnit, JoinsUnit
<1>2. inUnit' \in {"out", "joined", "in"}
  BY DEF AppInv, AppTyped, MainRoleChanges, MakesInvite, TellsInvite, HandlesUnitJoin, LeavesUnit, JoinsUnit
<1>3. mainRole' \in BOOLEAN /\ unitRole' \in BOOLEAN
  <2>1. mainRole \in BOOLEAN /\ unitRole \in BOOLEAN
    BY DEF AppInv, AppTyped
  <2>2. CASE MainRoleChanges
    BY <2>1, <2>2, Zenon DEF MainRoleChanges
  <2>3. CASE HandlesUnitJoin
    <3>1. unitRole' = FALSE \/ unitRole' = mainRole
      BY <2>3 DEF HandlesUnitJoin
    <3>2. mainRole' = mainRole
      BY <2>3 DEF HandlesUnitJoin
    <3> QED BY <2>1, <3>1, <3>2, Zenon
  <2>4. CASE LeavesUnit
    BY <2>1, <2>4, Zenon DEF LeavesUnit
  <2>5. CASE MakesInvite \/ TellsInvite \/ \E i \in invites : JoinsUnit(i)
    <3>1. mainRole' = mainRole /\ unitRole' = unitRole
      BY <2>5 DEF MakesInvite, TellsInvite, JoinsUnit
    <3> QED BY <2>1, <3>1, Zenon
  <2> QED BY <2>2, <2>3, <2>4, <2>5
<1> QED BY <1>1, <1>2, <1>3 DEF channelBits, AppInv, AppTyped, HandledSoFar

LEMMA AppStepInv == AppInv /\ [AppNext]_appVars => AppInv'
<1> SUFFICES ASSUME AppInv, [AppNext]_appVars PROVE AppInv'
  OBVIOUS
<1>1. CASE UNCHANGED appVars
  BY <1>1 DEF appVars, AppInv, AppTyped, HandledSoFar
<1>2. CASE AppNext
  BY <1>2, MakesChannelInv, RemovesChannelInv, AppRestartsInv, AppOtherInv, InvitesInv DEF AppNext
<1> QED BY <1>1, <1>2

LEMMA AppPromises == AppInv => AppTypeOK /\ NoUnseenChannels
<1> SUFFICES ASSUME AppInv PROVE AppTypeOK /\ NoUnseenChannels
  OBVIOUS
<1>1. AppTypeOK
  BY DEF AppInv, AppTyped, AppTypeOK
<1>2. NoUnseenChannels
  BY DEF AppInv, AppTyped, HandledSoFar, NoUnseenChannels
<1> QED BY <1>1, <1>2

---------------------------------------------------------------------------
(* The watcher of profiles.                                                *)

OwnStates == [was : {"unknown", "online", "offline"}, since : Nat, sent : SUBSET Milestones]
FileStates == [last : Nat, logoff : Nat, seen : Nat, since : Nat, sent : SUBSET Milestones, ended : Nat]
HabboProfiles == [online : BOOLEAN, access : Nat \ {0}]
Steps == {"idle", "fetched", "posting"}
ScanStates == [at : Steps, profile : HabboProfiles \cup {NoState}, own : OwnStates \cup {NoState},
               shared : BOOLEAN, key : Milestones \cup {0}, back : BOOLEAN]
TaskStates == [at : Steps, profile : HabboProfiles \cup {NoState}]
Lookup(task) == task.profile \in HabboProfiles /\ task.profile.access <= wNow

WatchTyped ==
    /\ wNow \in 1 .. WatchMaxTime /\ streak \in 0 .. FailureAlert
    /\ habbo \in HabboProfiles /\ habbo.access <= wNow
    /\ mem \in FileStates /\ disk \in FileStates /\ mem.last <= wNow
    /\ st = NoState \/ st \in OwnStates
    /\ scan \in ScanStates /\ force \in TaskStates /\ sync \in TaskStates
    /\ scan.at # "idle" => Lookup(scan)
    /\ scan.at = "posting" => scan.own \in OwnStates /\ (scan.shared => st # NoState)
    /\ force.at # "idle" => "force" \in ops /\ Lookup(force)
    /\ sync.at # "idle" => sync.at = "fetched" /\ Lookup(sync)

(* The files are behind memory only while a message is being sent.          *)
SavedBetween == scan.at # "posting" /\ force.at # "posting" => disk = mem

(* Nobody forces or corrects anything by hand.                              *)
Untouched == ops \cap {"force", "manual"} = {}
(* The user left in this instant, and is not back in it.                    *)
LeftNow == ~habbo.online /\ habbo.access = wNow
(* The state in effect: the one a scan holds until it has posted, or the shared one. *)
Eff == IF scan.at = "posting" /\ ~scan.shared THEN scan.own ELSE st
Back == scan.at = "posting" /\ scan.profile.online
(* Who fetched a user that left in this instant is not overtaken.           *)
SawLeave(task) == task.at = "fetched" /\ ~task.profile.online /\ task.profile.access = wNow => LeftNow
Before(at) == \A w \in posted : w[1] < at

(* Windows follow each other: a posted one is not after the last that was   *)
(* seen, and when none is open every posted one is before it.               *)
Ordered(m) ==
    /\ m.since <= m.last /\ (m.since = 0 => m.logoff = 0)
    /\ \A w \in posted : w[1] \in Nat \ {0} /\ w[1] <= m.last /\ (w[1] = wNow => LeftNow)
    /\ m.since = 0 => Before(m.last)

(* What was posted of the window the files have is in the files.            *)
SentIn(m, sent) == \A w \in posted : w[1] = m.since => w[2] \in sent

(* How the state of a scan agrees with the files.                           *)
AgreesWith(own, m) ==
    /\ SentIn(m, own.sent)
    /\ own.since # 0 => m.since # 0
    /\ m.since = wNow => LeftNow \/ own.since \in {0, wNow}
    /\ own.was = "online" => m.last # 0 /\ Before(m.last)
NothingPosted(own) == own.was = "offline" /\ own.since = 0 => posted = {}

EffInv == Eff # NoState => AgreesWith(Eff, mem) /\ (~Back => NothingPosted(Eff))

ScanInv ==
    /\ scan.at = "fetched" /\ scan.profile.online => Before(wNow)
    /\ SawLeave(scan) /\ SawLeave(sync)
    /\ scan.at = "posting" =>
         /\ scan.shared <=> st # NoState
         /\ Back => mem.last # 0 /\ Before(mem.last) /\ scan.key = 0
         /\ ~Back => scan.key # 0 /\ scan.key \notin Eff.sent /\ Eff.since # 0 /\ (mem.since = wNow => LeftNow)

Alerts == ~twice /\ Ordered(mem) /\ SentIn(mem, mem.sent) /\ EffInv /\ ScanInv
AlertInv == Untouched => Alerts

WatchInv == WatchTyped /\ SavedBetween /\ AlertInv

(* The highest milestone reached is one of them.                            *)
LEMMA MilestoneTyped ==
    ASSUME NEW since \in Nat, wNow \in Nat
    PROVE  /\ Milestone(since) \in Milestones \cup {0}
           /\ Milestone(since) # 0 => since # 0 /\ since < wNow
<1> DEFINE reached == {k \in Milestones : wNow - since >= k}
           left == {wNow - k : k \in reached}
<1>1. CASE since = 0 \/ reached = {}
  BY <1>1 DEF Milestone
<1>2. CASE since # 0 /\ reached # {}
  <2>1. \A k \in reached : k \in Nat \ {0} /\ k \in Milestones /\ wNow - k >= since
    BY WatchAssumption
  <2>2. left \subseteq Nat /\ left # {}
    BY <1>2, <2>1
  <2>3. PICK k \in reached : wNow - k = Min(left)
    BY <2>2, MinIs
  <2>4. \A j \in reached : wNow - j \in left
    OBVIOUS
  <2>5. \A j \in reached : k >= j
    BY <2>1, <2>2, <2>3, <2>4, MinIs
  <2>6. Max(reached) \in reached
    BY <2>5 DEF Max
  <2>7. Milestone(since) = Max(reached)
    BY <1>2 DEF Milestone
  <2>8. since < wNow
    BY <2>1, <2>3
  <2> QED BY <1>2, <2>1, <2>6, <2>7, <2>8
<1> QED BY <1>1, <1>2

(* The provers take these as they are.                                      *)
Times == Nat

(* What the audit record does to the files.                                 *)
LEMMA StartsOfflineIs ==
    ASSUME NEW m \in FileStates, NEW since \in Times
    PROVE  /\ StartsOffline(m, since) \in FileStates
           /\ StartsOffline(m, since).since = since
           /\ StartsOffline(m, since).sent = (IF m.since = since THEN m.sent ELSE {})
           /\ StartsOffline(m, since).last = m.last /\ StartsOffline(m, since).logoff = m.logoff
<1> DEFINE sent == IF m.since = since THEN m.sent ELSE {}
<1>1. sent \in SUBSET Milestones
  BY DEF FileStates
<1>2. StartsOffline(m, since) = [m EXCEPT !.since = since, !.sent = sent]
  BY DEF StartsOffline, FileStates
<1> HIDE DEF sent
<1> QED BY <1>1, <1>2 DEF FileStates, sent, Times

LEMMA EndsOfflineIs ==
    ASSUME NEW m \in FileStates, NEW at \in Times
    PROVE  /\ EndsOffline(m, at) \in FileStates
           /\ EndsOffline(m, at).since = 0 /\ EndsOffline(m, at).sent = {}
           /\ EndsOffline(m, at).last = m.last /\ EndsOffline(m, at).logoff = m.logoff
BY DEF EndsOffline, FileStates, Times

(* The files with another last or logoff time.                              *)
LEMMA LastSet ==
    ASSUME NEW m \in FileStates, NEW at \in Times
    PROVE  /\ [m EXCEPT !.last = at] \in FileStates /\ [m EXCEPT !.last = at].last = at
           /\ [m EXCEPT !.last = at].since = m.since /\ [m EXCEPT !.last = at].sent = m.sent
           /\ [m EXCEPT !.last = at].logoff = m.logoff
BY DEF FileStates, Times

LEMMA LogoffSet ==
    ASSUME NEW m \in FileStates, NEW off \in Times
    PROVE  /\ [m EXCEPT !.logoff = off] \in FileStates /\ [m EXCEPT !.logoff = off].last = m.last
           /\ [m EXCEPT !.logoff = off].since = m.since /\ [m EXCEPT !.logoff = off].sent = m.sent
           /\ [m EXCEPT !.logoff = off].logoff = off
BY DEF FileStates, Times

LEMMA SeenSet ==
    ASSUME NEW m \in FileStates, NEW at \in Times
    PROVE  /\ SeenOnline(m, at) \in FileStates /\ SeenOnline(m, at).last = m.last
           /\ SeenOnline(m, at).since = m.since /\ SeenOnline(m, at).sent = m.sent
           /\ SeenOnline(m, at).logoff = m.logoff
BY DEF FileStates, Times, SeenOnline

LEMMA ReconciledIs ==
    ASSUME NEW m \in FileStates, NEW p \in HabboProfiles
    PROVE  LET n == Reconciled(m, p) IN
           /\ n \in FileStates
           /\ ~Corrects(m, p) => n = m /\ (p.access <= m.last \/ m.last = 0)
           /\ Corrects(m, p) => n.last = p.access /\ m.last < p.access
           /\ Corrects(m, p) /\ p.online => n.logoff = 0 /\ n.since = m.since /\ n.sent = m.sent
           /\ Corrects(m, p) /\ ~p.online =>
                n.logoff = p.access /\ n.since = p.access
                /\ n.sent = (IF m.since = p.access THEN m.sent ELSE {})
<1> DEFINE back == [m EXCEPT !.last = p.access, !.logoff = 0]
           gone == [m EXCEPT !.last = p.access, !.logoff = p.access]
<1>1. p.access \in Nat \ {0} /\ m.last \in Nat /\ p.online \in BOOLEAN
  BY DEF HabboProfiles, FileStates
<1>a. p.access \in Times /\ 0 \in Times
  BY <1>1 DEF Times
<1>2. /\ back \in FileStates /\ back.last = p.access /\ back.since = m.since /\ back.sent = m.sent /\ back.logoff = 0
  BY <1>1 DEF FileStates
<1>b. /\ gone \in FileStates /\ gone.last = p.access /\ gone.since = m.since /\ gone.sent = m.sent
      /\ gone.logoff = p.access
  BY <1>1 DEF FileStates
<1>3. Reconciled(m, p) = IF ~Corrects(m, p) THEN m
                         ELSE IF p.online THEN SeenOnline(back, p.access) ELSE StartsOffline(gone, p.access)
  BY DEF Reconciled
<1> HIDE DEF back, gone
<1>4. CASE ~Corrects(m, p)
  BY <1>1, <1>3, <1>4 DEF Corrects
<1>5. CASE Corrects(m, p)
  <2>1. m.last < p.access
    BY <1>1, <1>5 DEF Corrects
  <2>2. CASE p.online
    BY <1>a, <1>2, <1>3, <1>5, <2>1, <2>2, SeenSet
  <2>3. CASE ~p.online
    BY <1>a, <1>b, <1>3, <1>5, <2>1, <2>3, StartsOfflineIs
  <2> QED BY <2>2, <2>3
<1> QED BY <1>4, <1>5

LEMMA AfterRestoreIs ==
    ASSUME NEW own \in OwnStates, NEW m \in FileStates, NEW p
    PROVE  LET since == RestoredSince(m)
               r == AfterRestore(own, m, p) IN
           /\ since \in Nat /\ r.own \in OwnStates /\ r.mem \in FileStates
           /\ r.own.was = own.was /\ r.mem.last = m.last
           /\ ~(Restores(own, m, p) /\ since # 0) => r.own = own /\ r.mem = m
           /\ Restores(own, m, p) /\ since # 0 =>
                /\ r.own.since = since /\ r.own.sent = r.mem.sent /\ r.mem.since = since
                /\ r.mem.sent = (IF m.since = since THEN m.sent ELSE {})
                /\ r.mem.logoff = Later(m.logoff, since)
<1> DEFINE since == RestoredSince(m)
           m1 == [m EXCEPT !.logoff = Later(m.logoff, since)]
           m2 == StartsOffline(m1, since)
           o2 == [own EXCEPT !.since = since, !.sent = m2.sent]
<1>1. since \in Nat /\ Later(m.logoff, since) \in Nat /\ m.last \in Nat
      /\ since \in Times /\ Later(m.logoff, since) \in Times
  BY DEF FileStates, RestoredSince, Later, Times
<1>2. m1 \in FileStates /\ m1.since = m.since /\ m1.sent = m.sent /\ m1.last = m.last /\ m1.logoff = Later(m.logoff, since)
  BY <1>1, LogoffSet
<1>a. [m EXCEPT !.logoff = Later(@, since)] = m1
  BY DEF FileStates
<1>3. AfterRestore(own, m, p) = IF Restores(own, m, p) /\ since # 0
                                THEN [own |-> o2, mem |-> m2] ELSE [own |-> own, mem |-> m]
  BY <1>a DEF AfterRestore
<1> HIDE DEF since, m1
<1>4. m2 \in FileStates /\ m2.since = since /\ m2.sent = (IF m.since = since THEN m.sent ELSE {})
      /\ m2.last = m.last /\ m2.logoff = Later(m.logoff, since)
  BY <1>1, <1>2, StartsOfflineIs
<1> HIDE DEF m2
<1>5. m2.sent \in SUBSET Milestones
  BY <1>4 DEF FileStates
<1>6. o2 \in OwnStates /\ o2.was = own.was /\ o2.since = since /\ o2.sent = m2.sent
  BY <1>1, <1>5 DEF OwnStates
<1> HIDE DEF o2
<1> QED BY <1>1, <1>3, <1>4, <1>6 DEF since

(* One line for each of the transitions.                                    *)
Leaves(own, p) == own.was = "online" /\ ~p.online
Returns(own, p) == own.was = "offline" /\ p.online

LEMMA AfterTransitionIs ==
    ASSUME NEW own \in OwnStates, NEW m \in FileStates, NEW p \in HabboProfiles, wNow \in Nat
    PROVE  LET t == AfterTransition(own, m, p) IN
           /\ t.own \in OwnStates /\ t.mem \in FileStates /\ t.own.was = own.was
           /\ t.mem.last = (IF p.online THEN wNow ELSE m.last)
           /\ ~Leaves(own, p) /\ ~Returns(own, p) =>
                t.own = own /\ t.mem.since = m.since /\ t.mem.sent = m.sent /\ t.mem.logoff = m.logoff
           /\ Leaves(own, p) =>
                /\ t.own.since = Later(m.last, wNow) /\ t.own.sent = {}
                /\ t.mem.since = Later(m.last, wNow) /\ t.mem.logoff = wNow
                /\ t.mem.sent = (IF m.since = Later(m.last, wNow) THEN m.sent ELSE {})
           /\ Returns(own, p) =>
                /\ t.own.since = 0 /\ t.own.sent = {} /\ t.mem.logoff = 0
                /\ own.since # 0 => t.mem.since = 0 /\ t.mem.sent = {}
                /\ own.since = 0 => t.mem.since = m.since /\ t.mem.sent = m.sent
<1> DEFINE now == [m EXCEPT !.last = wNow]
           online == IF p.online THEN SeenOnline(now, wNow) ELSE m
           since == Later(m.last, wNow)
           gone == [m EXCEPT !.logoff = wNow]
           ended == IF own.since # 0 THEN EndsOffline(online, wNow) ELSE online
           o1 == [own EXCEPT !.since = since, !.sent = {}]
           o2 == [own EXCEPT !.since = 0, !.sent = {}]
           t == AfterTransition(own, m, p)
<1>1. since \in Nat /\ m.last \in Nat /\ since \in Times /\ wNow \in Times /\ 0 \in Times
  BY DEF FileStates, Later, Times
<1>a. since \in Times
  BY <1>1
<1>2. now \in FileStates /\ now.last = wNow /\ now.since = m.since /\ now.sent = m.sent /\ now.logoff = m.logoff
  BY <1>1, LastSet
<1>3. gone \in FileStates /\ gone.last = m.last /\ gone.since = m.since /\ gone.sent = m.sent /\ gone.logoff = wNow
  BY <1>1, LogoffSet
<1>4. o1 \in OwnStates /\ o1.was = own.was /\ o1.since = since /\ o1.sent = {}
  BY <1>1 DEF OwnStates
<1>5. o2 \in OwnStates /\ o2.was = own.was /\ o2.since = 0 /\ o2.sent = {}
  BY DEF OwnStates
<1>6. t = IF Leaves(own, p) THEN [own |-> o1, mem |-> StartsOffline(gone, since)]
          ELSE IF Returns(own, p) THEN [own |-> o2, mem |-> [ended EXCEPT !.logoff = 0]]
          ELSE [own |-> own, mem |-> online]
  BY DEF AfterTransition, Leaves, Returns
<1> HIDE DEF now, gone, o1, o2, t
<1>7. online \in FileStates /\ online.last = (IF p.online THEN wNow ELSE m.last) /\ online.since = m.since
      /\ online.sent = m.sent /\ online.logoff = m.logoff
  BY <1>1, <1>2, SeenSet
<1> HIDE DEF online, since
<1>8. CASE Leaves(own, p)
  <2>1. ~Returns(own, p) /\ ~p.online
    BY <1>8 DEF Leaves, Returns
  <2> DEFINE g == StartsOffline(gone, since)
  <2>2. t.own = o1 /\ t.mem = g
    BY <1>6, <1>8
  <2>3. /\ g \in FileStates /\ g.since = since /\ g.sent = (IF m.since = since THEN m.sent ELSE {})
        /\ g.last = m.last /\ g.logoff = wNow
    <3>1. /\ StartsOffline(gone, since) \in FileStates /\ StartsOffline(gone, since).since = since
          /\ StartsOffline(gone, since).sent = (IF gone.since = since THEN gone.sent ELSE {})
          /\ StartsOffline(gone, since).last = gone.last /\ StartsOffline(gone, since).logoff = gone.logoff
      <4>1. gone \in FileStates
        BY <1>3
      <4> QED BY <1>a, <4>1, StartsOfflineIs
    <3> QED BY <1>3, <3>1
  <2> HIDE DEF g
  <2>4. /\ t.own \in OwnStates /\ t.mem \in FileStates /\ t.own.was = own.was /\ t.mem.last = m.last
        /\ t.own.since = since /\ t.own.sent = {} /\ t.mem.since = since /\ t.mem.logoff = wNow
        /\ t.mem.sent = (IF m.since = since THEN m.sent ELSE {})
    BY <1>4, <2>2, <2>3
  <2> QED BY <1>8, <2>1, <2>4 DEF t, since
<1>9. CASE Returns(own, p) /\ ~Leaves(own, p)
  <2>1. ended \in FileStates /\ ended.last = wNow
        /\ (own.since # 0 => ended.since = 0 /\ ended.sent = {})
        /\ (own.since = 0 => ended.since = m.since /\ ended.sent = m.sent)
    BY <1>1, <1>7, <1>9, EndsOfflineIs DEF Returns
  <2> HIDE DEF ended
  <2> DEFINE m2 == [ended EXCEPT !.logoff = 0]
  <2>2. /\ m2 \in FileStates /\ m2.last = ended.last
        /\ m2.since = ended.since /\ m2.sent = ended.sent /\ m2.logoff = 0
    BY <1>1, <2>1, LogoffSet
  <2>3. t.own = o2 /\ t.mem = m2
    BY <1>6, <1>9
  <2> HIDE DEF m2
  <2>4. p.online
    BY <1>9 DEF Returns
  <2> QED BY <1>5, <1>9, <2>1, <2>2, <2>3, <2>4 DEF t
<1>10. CASE ~Returns(own, p) /\ ~Leaves(own, p)
  BY <1>6, <1>7, <1>10 DEF t
<1> QED BY <1>8, <1>9, <1>10

LEMMA NotNone == \A own \in OwnStates : own # NoState
<1> SUFFICES ASSUME NEW own \in OwnStates PROVE own # NoState
  OBVIOUS
<1>1. DOMAIN own = {"was", "since", "sent"}
  BY DEF OwnStates
<1>2. DOMAIN NoState = {"none"}
  BY DEF NoState
<1>3. "was" \in DOMAIN own /\ "was" \notin DOMAIN NoState
  BY <1>1, <1>2
<1> QED BY <1>3

(* What a scan makes of the fetched profile.                                *)
OwnBefore == IF st = NoState THEN StartSeeded ELSE st
Resumed == AfterRestore(OwnBefore, Reconciled(mem, scan.profile), scan.profile)
Moved == AfterTransition(Resumed.own, Resumed.mem, scan.profile)
Due == DueKey(Moved.own, scan.profile, Corrects(mem, scan.profile))
ComesBack == OwnBefore.was = "offline" /\ scan.profile.online

LEMMA ScanProcessesIs ==
    ASSUME ScanProcesses
    PROVE  /\ scan.at = "fetched" /\ streak' = 0 /\ mem' = Moved.mem
           /\ IF Due # 0 \/ ComesBack
              THEN /\ scan' = [scan EXCEPT !.at = "posting", !.own = Moved.own, !.key = Due,
                                           !.back = ComesBack, !.shared = st # NoState]
                   /\ st' = IF st = NoState THEN st ELSE Moved.own
                   /\ disk' = disk
              ELSE /\ scan' = IdleScan
                   /\ st' = [Moved.own EXCEPT !.was = Was(scan.profile.online)]
                   /\ disk' = IF Moved.mem # mem THEN Moved.mem ELSE disk
           /\ UNCHANGED <<ops, wNow, habbo, force, sync, posted, twice>>
BY DEF ScanProcesses, OwnBefore, Resumed, Moved, Due, ComesBack

LEMMA OwnBeforeTyped == WatchTyped => OwnBefore \in OwnStates
<1> SUFFICES ASSUME WatchTyped PROVE OwnBefore \in OwnStates
  OBVIOUS
<1>1. StartSeeded \in OwnStates
  BY DEF WatchTyped, FileStates, OwnStates, StartSeeded, NewState
<1> QED BY <1>1 DEF WatchTyped, OwnBefore

LEMMA ScanOutcome ==
    ASSUME WatchTyped, scan.at = "fetched"
    PROVE  /\ Moved.own \in OwnStates /\ Moved.mem \in FileStates /\ Due \in Milestones \cup {0}
           /\ mem.last <= Moved.mem.last /\ Moved.mem.last <= wNow
<1> DEFINE p == scan.profile
           m1 == Reconciled(mem, p)
<1>1. /\ p \in HabboProfiles /\ p.access <= wNow /\ p.access \in Nat /\ wNow \in Nat
      /\ mem \in FileStates /\ mem.last <= wNow /\ mem.last \in Nat
  BY DEF WatchTyped, Lookup, HabboProfiles, FileStates
<1>2. m1 \in FileStates /\ mem.last <= m1.last /\ m1.last <= wNow
  BY <1>1, ReconciledIs
<1> HIDE DEF m1
<1>3. Resumed.own \in OwnStates /\ Resumed.mem \in FileStates /\ Resumed.mem.last = m1.last
  BY <1>2, OwnBeforeTyped, AfterRestoreIs DEF Resumed, m1
<1>4. /\ Moved.own \in OwnStates /\ Moved.mem \in FileStates
      /\ Moved.mem.last = (IF p.online THEN wNow ELSE Resumed.mem.last)
  BY <1>1, <1>3, AfterTransitionIs DEF Moved
<1>5. Moved.own.since \in Nat
  BY <1>4 DEF OwnStates
<1>6. Due \in Milestones \cup {0}
  BY <1>1, <1>5, MilestoneTyped DEF Due, DueKey
<1> QED BY <1>1, <1>2, <1>3, <1>4, <1>6

(* Every step keeps the types, the files and the order of the records.      *)
WatchKeeps == WatchTyped' /\ SavedBetween' /\ ("manual" \notin ops => mem'.last >= mem.last)

LEMMA IdleTyped ==
    IdleScan \in ScanStates /\ IdleTask \in TaskStates /\ IdleScan.at = "idle" /\ IdleTask.at = "idle"
BY DEF IdleScan, IdleTask, ScanStates, TaskStates, Steps

LEMMA FetchKeeps ==
    ASSUME WatchTyped, SavedBetween, ScanFetches \/ ForceFetches \/ SyncFetches \/ ScanFails
    PROVE  WatchKeeps
<1> USE DEF WatchKeeps, SavedBetween
<1>0. habbo \in HabboProfiles /\ habbo.access <= wNow /\ mem.last \in Nat
  BY DEF WatchTyped, FileStates
<1>1. CASE ScanFetches
  <2>1. scan'.at = "fetched" /\ scan'.profile = habbo /\ scan' \in ScanStates
    BY <1>0, <1>1 DEF ScanFetches, WatchTyped, ScanStates, Steps
  <2> QED BY <1>0, <1>1, <2>1 DEF ScanFetches, WatchTyped, Lookup
<1>2. CASE ForceFetches
  <2>1. force'.at = "fetched" /\ force'.profile = habbo /\ force' \in TaskStates
    BY <1>0, <1>2 DEF ForceFetches, TaskStates, Steps
  <2> QED BY <1>0, <1>2, <2>1 DEF ForceFetches, WatchTyped, Lookup
<1>3. CASE SyncFetches
  <2>1. sync'.at = "fetched" /\ sync'.profile = habbo /\ sync' \in TaskStates
    BY <1>0, <1>3 DEF SyncFetches, TaskStates, Steps
  <2> QED BY <1>0, <1>3, <2>1 DEF SyncFetches, WatchTyped, Lookup
<1>4. CASE ScanFails
  <2>1. streak' \in 0 .. FailureAlert
    BY <1>4, WatchAssumption DEF ScanFails, KeepsState, WatchTyped
  <2>2. scan'.at = "idle" /\ st' = st /\ scan' \in ScanStates
    BY <1>4, IdleTyped DEF ScanFails, KeepsState
  <2> QED BY <1>0, <1>4, <2>1, <2>2 DEF ScanFails, WatchTyped, Lookup
<1> QED BY <1>1, <1>2, <1>3, <1>4

LEMMA ScanProcessesKeeps ==
    ASSUME WatchTyped, SavedBetween, ScanProcesses
    PROVE  WatchKeeps
<1>1. /\ scan.at = "fetched" /\ streak' = 0 /\ mem' = Moved.mem
      /\ UNCHANGED <<ops, wNow, habbo, force, sync>>
  BY ScanProcessesIs
<1>2. /\ Moved.own \in OwnStates /\ Moved.mem \in FileStates /\ Due \in Milestones \cup {0}
      /\ mem.last <= Moved.mem.last /\ Moved.mem.last <= wNow
  BY <1>1, ScanOutcome
<1>3. mem.last \in Nat /\ Moved.mem.last \in Nat /\ streak' \in 0 .. FailureAlert
  BY <1>1, <1>2, WatchAssumption DEF WatchTyped, FileStates
<1>4. scan.profile \in HabboProfiles /\ scan.profile.access <= wNow
  BY <1>1 DEF WatchTyped, Lookup
<1>5. CASE Due # 0 \/ ComesBack
  <2>1. /\ scan' = [scan EXCEPT !.at = "posting", !.own = Moved.own, !.key = Due,
                                !.back = ComesBack, !.shared = st # NoState]
        /\ st' = IF st = NoState THEN st ELSE Moved.own
        /\ disk' = disk
    BY <1>5, ScanProcessesIs
  <2>2. /\ scan'.at = "posting" /\ scan'.own = Moved.own /\ scan'.key = Due /\ scan'.profile = scan.profile
        /\ scan'.shared = (st # NoState)
    BY <2>1 DEF WatchTyped, ScanStates
  <2>3. st' = NoState \/ st' \in OwnStates
    BY <1>2, <2>1
  <2>a. scan' \in ScanStates
    BY <1>2, <2>1 DEF WatchTyped, ScanStates, Steps, ComesBack
  <2>b. scan'.shared => st' # NoState
    BY <1>2, <2>1, <2>2, NotNone
  <2>4. WatchTyped'
    BY <1>1, <1>2, <1>3, <1>4, <2>1, <2>2, <2>3, <2>a, <2>b DEF WatchTyped, Lookup
  <2> QED BY <1>1, <1>2, <1>3, <2>2, <2>4 DEF WatchKeeps, SavedBetween
<1>6. CASE ~(Due # 0 \/ ComesBack)
  <2>1. /\ scan' = IdleScan /\ st' = [Moved.own EXCEPT !.was = Was(scan.profile.online)]
        /\ disk' = IF Moved.mem # mem THEN Moved.mem ELSE disk
    BY <1>6, ScanProcessesIs
  <2>2. scan'.at = "idle" /\ scan' \in ScanStates
    BY <2>1, IdleTyped DEF ScanStates
  <2>3. st' \in OwnStates
    BY <1>2, <2>1 DEF OwnStates, Was
  <2>4. disk' \in FileStates
    BY <1>2, <2>1 DEF WatchTyped
  <2>5. WatchTyped'
    BY <1>1, <1>2, <1>3, <2>2, <2>3, <2>4 DEF WatchTyped, Lookup
  <2>6. SavedBetween'
    BY <1>1, <2>1, <2>2 DEF SavedBetween
  <2> QED BY <1>1, <1>2, <1>3, <2>5, <2>6 DEF WatchKeeps
<1> QED BY <1>5, <1>6

(* What a scan has after its message is out.                                *)
Own == IF scan.shared /\ st # NoState THEN st ELSE scan.own
OwnAfter == [(IF scan.key = 0 THEN Own ELSE [Own EXCEPT !.sent = @ \cup {scan.key}])
                EXCEPT !.was = Was(scan.profile.online)]

LEMMA OwnAfterIs ==
    ASSUME WatchTyped, scan.at = "posting"
    PROVE  /\ Own \in OwnStates /\ OwnAfter \in OwnStates /\ OwnAfter.since = Own.since
           /\ OwnAfter.was = Was(scan.profile.online)
           /\ OwnAfter.sent = (IF scan.key = 0 THEN Own.sent ELSE Own.sent \cup {scan.key})
<1>1. Own \in OwnStates /\ scan.key \in Milestones \cup {0}
  BY DEF WatchTyped, Own, ScanStates
<1>2. Was(scan.profile.online) \in {"online", "offline"}
  BY DEF Was
<1> DEFINE o == [Own EXCEPT !.sent = Own.sent \cup {scan.key}]
<1>3. CASE scan.key = 0
  <2>1. OwnAfter = [Own EXCEPT !.was = Was(scan.profile.online)]
    BY <1>3 DEF OwnAfter
  <2> QED BY <1>1, <1>2, <1>3, <2>1 DEF OwnStates
<1>4. CASE scan.key # 0
  <2>1. o \in OwnStates /\ o.sent = Own.sent \cup {scan.key} /\ o.since = Own.since
    BY <1>1, <1>4 DEF OwnStates
  <2>2. [Own EXCEPT !.sent = @ \cup {scan.key}] = o
    BY <1>1 DEF OwnStates
  <2> HIDE DEF o
  <2>3. OwnAfter = [o EXCEPT !.was = Was(scan.profile.online)]
    BY <1>4, <2>2 DEF OwnAfter
  <2> QED BY <1>1, <1>2, <1>4, <2>1, <2>3 DEF OwnStates
<1> QED BY <1>3, <1>4

LEMMA ScanPostsIs ==
    ASSUME WatchTyped, ScanPosts
    PROVE  /\ scan.at = "posting" /\ st' = OwnAfter /\ scan' = IdleScan /\ scan'.at = "idle"
           /\ disk' = mem' /\ mem' \in FileStates
           /\ mem'.last = mem.last /\ mem'.since = mem.since /\ mem'.logoff = mem.logoff
           /\ mem'.sent = (IF scan.key = 0 THEN mem.sent ELSE mem.sent \cup {scan.key})
           /\ scan.key = 0 => UNCHANGED <<posted, twice>>
           /\ scan.key # 0 => Posts(scan.key)
           /\ UNCHANGED <<ops, wNow, habbo, force, sync, streak>>
<1>1. /\ scan.at = "posting" /\ st' = OwnAfter /\ scan' = IdleScan /\ disk' = mem'
      /\ mem' = IF scan.key = 0 THEN mem ELSE Marked(mem, scan.key)
      /\ scan.key = 0 => UNCHANGED <<posted, twice>>
      /\ scan.key # 0 => Posts(scan.key)
      /\ UNCHANGED <<ops, wNow, habbo, force, sync, streak>>
  BY DEF ScanPosts, OwnAfter, Own
<1>2. mem \in FileStates /\ scan.key \in Milestones \cup {0}
  BY <1>1 DEF WatchTyped, ScanStates
<1>3. CASE scan.key # 0
  <2>1. /\ Marked(mem, scan.key) \in FileStates /\ Marked(mem, scan.key).last = mem.last
        /\ Marked(mem, scan.key).since = mem.since /\ Marked(mem, scan.key).logoff = mem.logoff
        /\ Marked(mem, scan.key).sent = mem.sent \cup {scan.key}
    BY <1>2, <1>3 DEF Marked, FileStates
  <2> QED BY <1>1, <1>3, <2>1 DEF IdleScan
<1> QED BY <1>1, <1>2, <1>3 DEF IdleScan

LEMMA ScanPostsKeeps ==
    ASSUME WatchTyped, SavedBetween, ScanPosts
    PROVE  WatchKeeps
<1>1. mem.last \in Nat
  BY DEF WatchTyped, FileStates
<1>2. OwnAfter \in OwnStates
  BY ScanPostsIs, OwnAfterIs
<1>3. WatchTyped'
  BY <1>2, ScanPostsIs, IdleTyped DEF WatchTyped, Lookup
<1> QED BY <1>1, <1>3, ScanPostsIs DEF WatchKeeps, SavedBetween

LEMMA LaterTyped == \A a, b \in Nat : Later(a, b) \in Times
BY DEF Later, Times

(* The files after the user was seen online, or a window was ended.         *)
LEMMA OnlineIs ==
    ASSUME NEW m \in FileStates, NEW since \in Nat, NEW at \in Nat
    PROVE  LET n == [(IF since # 0 THEN EndsOffline([m EXCEPT !.last = at], at)
                      ELSE SeenOnline([m EXCEPT !.last = at], at)) EXCEPT !.logoff = 0] IN
           n \in FileStates /\ n.last = at
<1> DEFINE m1 == [m EXCEPT !.last = at]
           m2 == IF since # 0 THEN EndsOffline(m1, at) ELSE SeenOnline(m1, at)
<1>0. at \in Times /\ 0 \in Times
  BY DEF Times
<1>1. m1 \in FileStates /\ m1.last = at
  BY DEF FileStates
<1> HIDE DEF m1
<1>2. m2 \in FileStates /\ m2.last = at
  BY <1>0, <1>1, SeenSet, EndsOfflineIs
<1> HIDE DEF m2
<1>3. [m2 EXCEPT !.logoff = 0] \in FileStates /\ [m2 EXCEPT !.logoff = 0].last = at
  BY <1>2 DEF FileStates
<1> QED BY <1>3 DEF m1, m2

LEMMA ForceKeeps ==
    ASSUME WatchTyped, SavedBetween, ForceProcesses \/ ForceSaves
    PROVE  WatchKeeps
<1>0. /\ mem \in FileStates /\ disk \in FileStates /\ mem.last \in Nat /\ wNow \in Nat /\ mem.last <= wNow
      /\ mem.since \in Nat /\ mem.logoff \in Nat
  BY DEF WatchTyped, FileStates
<1>1. CASE ForceProcesses
  <2> DEFINE own == IF st = NoState THEN NewState({}) ELSE st
             since == Later(mem.logoff, mem.since)
  <2>1. own \in OwnStates
    BY DEF WatchTyped, OwnStates, NewState
  <2>2. since \in Nat /\ since \in Times
    BY <1>0 DEF Later, Times
  <2>3. [own EXCEPT !.since = 0, !.was = "online"] \in OwnStates /\ [own EXCEPT !.since = since, !.was = "offline"] \in OwnStates
    BY <2>1, <2>2 DEF OwnStates
  <2>4. st' \in OwnStates
    BY <1>1, <2>3 DEF ForceProcesses
  <2>5. mem' \in FileStates /\ mem'.last \in {mem.last, wNow}
    <3>1. CASE force.profile.online
      <4> HIDE DEF since
      <4>1. mem' = [(IF since # 0 THEN EndsOffline([mem EXCEPT !.last = wNow], wNow)
                     ELSE SeenOnline([mem EXCEPT !.last = wNow], wNow)) EXCEPT !.logoff = 0]
        BY <1>1, <3>1 DEF ForceProcesses, since
      <4> QED BY <1>0, <2>2, <4>1, OnlineIs
    <3>2. CASE ~force.profile.online
      <4> HIDE DEF since
      <4>1. mem' = IF since # 0 THEN StartsOffline(mem, since) ELSE mem
        BY <1>1, <3>2 DEF ForceProcesses, since
      <4> QED BY <1>0, <2>2, <4>1, StartsOfflineIs
    <3> QED BY <3>1, <3>2
  <2>6. /\ force.at = "fetched" /\ force' = [force EXCEPT !.at = "posting"]
        /\ UNCHANGED <<ops, wNow, habbo, disk, scan, sync, streak>>
    BY <1>1 DEF ForceProcesses
  <2>7. /\ force'.at = "posting" /\ "force" \in ops /\ force' \in TaskStates
        /\ force'.profile = force.profile /\ Lookup(force)
    BY <2>6 DEF WatchTyped, TaskStates, Steps
  <2>9. st' # NoState
    BY <2>4, NotNone
  <2>8. WatchTyped'
    BY <1>0, <2>4, <2>5, <2>6, <2>7, <2>9 DEF WatchTyped, Lookup
  <2> QED BY <1>0, <2>5, <2>7, <2>8 DEF WatchKeeps, SavedBetween
<1>2. CASE ForceSaves
  BY <1>0, <1>2, IdleTyped DEF ForceSaves, WatchKeeps, SavedBetween, WatchTyped, Lookup
<1> QED BY <1>1, <1>2

LEMMA SyncKeeps ==
    ASSUME WatchTyped, SavedBetween, SyncReconciles
    PROVE  WatchKeeps
<1>0. mem \in FileStates /\ disk \in FileStates /\ mem.last \in Nat /\ wNow \in Nat
  BY DEF WatchTyped, FileStates
<1>1. /\ sync.at = "fetched" /\ mem' = Reconciled(mem, sync.profile) /\ disk' = SyncSaved
      /\ sync' = IdleTask /\ UNCHANGED <<ops, wNow, habbo, st, scan, force, streak>>
  BY DEF SyncReconciles
<1>2. sync.profile \in HabboProfiles /\ sync.profile.access <= wNow /\ sync.profile.access \in Nat
  BY <1>1 DEF WatchTyped, Lookup, HabboProfiles
<1>p. mem.last <= wNow
  BY DEF WatchTyped
<1>3. mem' \in FileStates /\ mem.last <= mem'.last /\ mem'.last <= wNow
  BY <1>0, <1>1, <1>2, <1>p, ReconciledIs
<1>4. disk' \in FileStates /\ (disk = mem => disk' = mem')
  BY <1>0, <1>1, <1>2, <1>3, ReconciledIs DEF SyncSaved
<1>5. sync'.at = "idle" /\ sync' \in TaskStates
  BY <1>1, IdleTyped
<1>6. WatchTyped'
  BY <1>1, <1>3, <1>4, <1>5 DEF WatchTyped, Lookup
<1>7. mem'.last \in Nat
  BY <1>3 DEF FileStates
<1> QED BY <1>0, <1>1, <1>3, <1>4, <1>6, <1>7 DEF WatchKeeps, SavedBetween

LEMMA ManualKeeps ==
    ASSUME WatchTyped, SavedBetween, NEW online \in BOOLEAN, NEW at \in {habbo.access, wNow}, ManualUpdate(online, at)
    PROVE  WatchKeeps
<1> DEFINE since == Later(mem.since, mem.logoff)
<1>0. /\ mem \in FileStates /\ mem.last \in Nat /\ wNow \in Nat /\ at \in Nat /\ at \in Times /\ at <= wNow
      /\ mem.last <= wNow /\ since \in Nat
  BY DEF WatchTyped, FileStates, HabboProfiles, Times, Later
<1>1. mem' \in FileStates /\ mem'.last \in {mem.last, at}
  <2>1. CASE online
    <3> HIDE DEF since
    <3>1. mem' = [(IF since # 0 THEN EndsOffline([mem EXCEPT !.last = at], at)
                   ELSE SeenOnline([mem EXCEPT !.last = at], at)) EXCEPT !.logoff = 0]
      BY <2>1 DEF ManualUpdate, since
    <3> QED BY <1>0, <3>1, OnlineIs
  <2>2. CASE ~online
    <3>1. mem' = StartsOffline([mem EXCEPT !.logoff = at], at)
      BY <2>2 DEF ManualUpdate
    <3>2. [mem EXCEPT !.logoff = at] \in FileStates /\ [mem EXCEPT !.logoff = at].last = mem.last
      BY <1>0, LogoffSet
    <3> QED BY <1>0, <3>1, <3>2, StartsOfflineIs
  <2> QED BY <2>1, <2>2
<1>2. /\ "manual" \in ops /\ disk' = mem' /\ st' = NoState
      /\ scan' = [scan EXCEPT !.shared = FALSE, !.own = IF scan.shared THEN st ELSE scan.own]
      /\ UNCHANGED <<ops, wNow, habbo, force, sync, streak>>
  BY DEF ManualUpdate
<1> DEFINE held == IF scan.shared THEN st ELSE scan.own
<1>3. held \in OwnStates \cup {NoState} /\ (scan.at = "posting" => held \in OwnStates)
  BY DEF WatchTyped, ScanStates
<1> HIDE DEF held
<1>4. /\ scan' \in ScanStates /\ scan'.at = scan.at /\ scan'.profile = scan.profile
      /\ scan'.own = held /\ scan'.shared = FALSE
  BY <1>2, <1>3 DEF WatchTyped, ScanStates, held
<1>5. WatchTyped'
  BY <1>0, <1>1, <1>2, <1>3, <1>4 DEF WatchTyped, Lookup
<1> QED BY <1>2, <1>5 DEF WatchKeeps, SavedBetween

LEMMA WorldKeeps ==
    ASSUME WatchTyped, SavedBetween, Restarts \/ LogsIn \/ LogsOut \/ WatchTick
    PROVE  WatchKeeps
<1> USE DEF WatchKeeps, SavedBetween
<1>0. /\ mem.last \in Nat /\ disk.last \in Nat /\ wNow \in Nat /\ mem.last <= wNow /\ wNow \in Nat \ {0}
      /\ habbo.access \in Nat \ {0} /\ habbo.access <= wNow
  BY DEF WatchTyped, FileStates, HabboProfiles
<1>1. CASE Restarts
  BY <1>0, <1>1, WatchAssumption DEF Restarts, WatchTyped, Lookup
<1>2. CASE LogsIn
  <2>1. habbo' \in HabboProfiles /\ habbo'.access <= wNow
    BY <1>0, <1>2 DEF LogsIn, HabboProfiles
  <2> QED BY <1>0, <1>2, <2>1 DEF LogsIn, WatchTyped, Lookup
<1>3. CASE LogsOut
  <2>1. habbo' \in HabboProfiles /\ habbo'.access <= wNow
    BY <1>0, <1>3 DEF LogsOut, HabboProfiles
  <2> QED BY <1>0, <1>3, <2>1 DEF LogsOut, WatchTyped, Lookup
<1>4. CASE WatchTick
  <2>1. wNow' \in 1 .. WatchMaxTime /\ wNow <= wNow' /\ wNow' \in Nat
    BY <1>0, <1>4, WatchAssumption DEF WatchTick
  <2>2. \A task \in {scan, force, sync} : Lookup(task) => task.profile \in HabboProfiles /\ task.profile.access <= wNow'
    BY <1>0, <2>1 DEF Lookup, HabboProfiles
  <2>3. mem.last <= wNow' /\ habbo.access <= wNow'
    BY <1>0, <2>1
  <2> QED BY <1>0, <1>4, <2>1, <2>2, <2>3 DEF WatchTick, WatchTyped, Lookup
<1> QED BY <1>1, <1>2, <1>3, <1>4

(* A correction opens a window after all that were posted, and so does a    *)
(* restored one that is not the one the files have.                         *)
LEMMA CorrectionAlerts ==
    ASSUME NEW m \in FileStates, NEW p \in HabboProfiles, NEW own \in OwnStates, wNow \in Nat,
           Ordered(m), SentIn(m, m.sent), AgreesWith(own, m), ~p.online /\ p.access = wNow => LeftNow
    PROVE  LET n == Reconciled(m, p) IN Ordered(n) /\ SentIn(n, n.sent) /\ AgreesWith(own, n)
<1> DEFINE n == Reconciled(m, p)
<1>0. /\ m.since \in Nat /\ m.last \in Nat /\ p.access \in Nat \ {0} /\ own.since \in Nat
      /\ n \in FileStates /\ n.last \in Nat
  BY ReconciledIs DEF FileStates, OwnStates, HabboProfiles
<1>1. CASE ~Corrects(m, p)
  BY <1>1, ReconciledIs
<1>2. CASE Corrects(m, p)
  <2>1. n.last = p.access /\ m.last < p.access
    BY <1>2, ReconciledIs
  <2>2. \A w \in posted : w[1] \in Nat \ {0} /\ w[1] < n.last /\ (w[1] = wNow => LeftNow)
    BY <1>0, <2>1 DEF Ordered
  <2>3. Before(n.last)
    BY <2>2 DEF Before
  <2>4. CASE p.online
    <3>1. n.logoff = 0 /\ n.since = m.since /\ n.sent = m.sent
      BY <1>2, <2>4, ReconciledIs
    <3>2. n.since <= n.last
      BY <1>0, <2>1, <3>1 DEF Ordered
    <3>3. Ordered(n)
      BY <1>0, <2>2, <2>3, <3>1, <3>2 DEF Ordered
    <3>4. SentIn(n, n.sent) /\ SentIn(n, own.sent)
      BY <3>1 DEF SentIn, AgreesWith
    <3>5. n.last # 0
      BY <1>0, <2>1
    <3> HIDE DEF n
    <3> QED BY <2>3, <3>1, <3>3, <3>4, <3>5 DEF AgreesWith, n
  <2>5. CASE ~p.online
    <3>1. n.logoff = p.access /\ n.since = p.access
      BY <1>2, <2>5, ReconciledIs
    <3>2. Ordered(n)
      BY <1>0, <2>1, <2>2, <2>3, <3>1 DEF Ordered
    <3>3. SentIn(n, n.sent) /\ SentIn(n, own.sent)
      BY <1>0, <2>1, <2>2, <3>1 DEF SentIn
    <3>5. n.last # 0 /\ n.since # 0 /\ (n.since = wNow => LeftNow)
      BY <1>0, <2>1, <2>5, <3>1
    <3> HIDE DEF n
    <3> QED BY <2>3, <3>2, <3>3, <3>5 DEF AgreesWith, n
  <2> QED BY <2>4, <2>5
<1> QED BY <1>1, <1>2

LEMMA RestoreAlerts ==
    ASSUME NEW m \in FileStates, NEW p \in HabboProfiles, NEW own \in OwnStates, wNow \in Nat,
           Ordered(m), SentIn(m, m.sent), AgreesWith(own, m), NothingPosted(own)
    PROVE  LET r == AfterRestore(own, m, p) IN
           /\ Ordered(r.mem) /\ SentIn(r.mem, r.mem.sent) /\ AgreesWith(r.own, r.mem)
           /\ r.own.was = own.was /\ NothingPosted(r.own)
           /\ ~p.online /\ own.was # "online" /\ r.own.since = 0 => posted = {}
<1> DEFINE since == RestoredSince(m)
           r == AfterRestore(own, m, p)
<1>0. /\ m.since \in Nat /\ m.last \in Nat /\ m.logoff \in Nat /\ own.since \in Nat /\ since \in Nat
      /\ own.was \in {"unknown", "online", "offline"} /\ p.online \in BOOLEAN
  BY AfterRestoreIs DEF FileStates, OwnStates, HabboProfiles
<1>1. since = IF m.since # 0 THEN m.since ELSE m.last
  BY <1>0 DEF RestoredSince, Later, Ordered
<1> HIDE DEF since
<1>2. CASE ~(Restores(own, m, p) /\ since # 0)
  <2>1. r.own = own /\ r.mem = m
    BY <1>2, AfterRestoreIs DEF since
  <2>2. ASSUME ~p.online, own.was # "online", own.since = 0 PROVE posted = {}
    <3>1. CASE own.was = "offline"
      BY <2>2, <3>1 DEF NothingPosted
    <3>2. CASE own.was = "unknown"
      <4>1. m.last = 0
        BY <1>0, <1>1, <1>2, <2>2, <3>2 DEF Restores, Ordered
      <4>2. \A w \in posted : FALSE
        BY <4>1 DEF Ordered
      <4> QED BY <4>2
    <3> QED BY <1>0, <2>2, <3>1, <3>2
  <2> HIDE DEF r
  <2> QED BY <2>1, <2>2 DEF r
<1>3. CASE Restores(own, m, p) /\ since # 0
  <2>1. /\ r.own.since = since /\ r.own.sent = r.mem.sent /\ r.mem.since = since
        /\ r.mem.sent = (IF m.since = since THEN m.sent ELSE {})
        /\ r.mem.logoff = Later(m.logoff, since)
        /\ r.own.was = own.was /\ r.mem.last = m.last
    BY <1>3, AfterRestoreIs DEF since
  <2>2. own.was = "unknown"
    BY <1>3 DEF Restores
  <2> HIDE DEF r
  <2>3. SentIn(r.mem, r.mem.sent)
    <3>1. CASE m.since # 0
      BY <1>1, <2>1, <3>1 DEF SentIn
    <3>2. CASE m.since = 0
      BY <1>0, <1>1, <2>1, <3>2 DEF SentIn, Ordered, Before
    <3> QED BY <3>1, <3>2
  <2>4. Ordered(r.mem)
    BY <1>0, <1>1, <1>3, <2>1 DEF Ordered, Later
  <2>5. AgreesWith(r.own, r.mem)
    BY <1>3, <2>1, <2>2, <2>3 DEF AgreesWith, SentIn
  <2> QED BY <1>3, <2>1, <2>2, <2>3, <2>4, <2>5 DEF NothingPosted, r
<1> QED BY <1>2, <1>3

LEMMA TransitionAlerts ==
    ASSUME NEW m \in FileStates, NEW p \in HabboProfiles, NEW own \in OwnStates, wNow \in Nat \ {0},
           m.last <= wNow,
           Ordered(m), SentIn(m, m.sent), AgreesWith(own, m), NothingPosted(own), p.online => Before(wNow),
           ~p.online /\ own.was # "online" /\ own.since = 0 => posted = {}
    PROVE  LET t == AfterTransition(own, m, p) IN
           /\ Ordered(t.mem) /\ SentIn(t.mem, t.mem.sent) /\ AgreesWith(t.own, t.mem)
           /\ t.own.was = own.was
           /\ ~(own.was = "offline" /\ p.online) => NothingPosted(t.own)
           /\ p.online => t.mem.last # 0 /\ Before(t.mem.last)
           /\ ~p.online /\ t.own.since = 0 => posted = {}
<1> DEFINE t == AfterTransition(own, m, p)
           since == Later(m.last, wNow)
<1>0. /\ m.since \in Nat /\ m.last \in Nat /\ m.logoff \in Nat /\ own.since \in Nat
      /\ own.was \in {"unknown", "online", "offline"} /\ p.online \in BOOLEAN
  BY DEF FileStates, OwnStates, HabboProfiles
<1>1. t.own.was = own.was /\ t.mem.last = (IF p.online THEN wNow ELSE m.last)
  BY AfterTransitionIs
<1>2. CASE Leaves(own, p)
  <2>1. /\ t.own.since = since /\ t.own.sent = {} /\ t.mem.since = since
    BY <1>2, AfterTransitionIs
  <2>2. since = m.last /\ since # 0 /\ Before(m.last) /\ ~p.online /\ own.was = "online"
    BY <1>2 DEF Leaves, AgreesWith, Later
  <2> HIDE DEF t, since
  <2>3. SentIn(t.mem, t.mem.sent) /\ SentIn(t.mem, t.own.sent)
    BY <1>0, <2>1, <2>2 DEF SentIn, Before, Ordered
  <2>4. Ordered(t.mem)
    BY <1>0, <1>1, <2>1, <2>2 DEF Ordered
  <2>5. AgreesWith(t.own, t.mem)
    BY <1>1, <2>1, <2>2, <2>3 DEF AgreesWith
  <2> QED BY <1>1, <2>1, <2>2, <2>3, <2>4, <2>5 DEF NothingPosted, t
<1>3. CASE Returns(own, p)
  <2>1. /\ t.own.since = 0 /\ t.own.sent = {} /\ t.mem.logoff = 0
        /\ own.since # 0 => t.mem.since = 0 /\ t.mem.sent = {}
        /\ own.since = 0 => t.mem.since = m.since /\ t.mem.sent = m.sent
    BY <1>3, AfterTransitionIs
  <2>2. own.was = "offline" /\ p.online /\ Before(wNow) /\ t.mem.last = wNow
    BY <1>1, <1>3 DEF Returns
  <2> HIDE DEF t
  <2>3. own.since = 0 => posted = {}
    BY <2>2 DEF NothingPosted
  <2>4. SentIn(t.mem, t.mem.sent) /\ SentIn(t.mem, t.own.sent)
    BY <1>0, <2>1, <2>3 DEF SentIn, Ordered
  <2>5. t.mem.since <= wNow
    BY <1>0, <2>1 DEF Ordered
  <2>6. \A w \in posted : w[1] \in Nat \ {0} /\ w[1] <= wNow /\ (w[1] = wNow => LeftNow)
    BY <1>0 DEF Ordered
  <2>7. Ordered(t.mem)
    BY <2>1, <2>2, <2>5, <2>6 DEF Ordered
  <2>8. AgreesWith(t.own, t.mem)
    BY <1>1, <2>1, <2>2, <2>4 DEF AgreesWith
  <2> QED BY <1>1, <2>2, <2>4, <2>7, <2>8 DEF t
<1>4. CASE ~Leaves(own, p) /\ ~Returns(own, p)
  <2>1. t.own = own /\ t.mem.since = m.since /\ t.mem.sent = m.sent /\ t.mem.logoff = m.logoff
    BY <1>4, AfterTransitionIs
  <2> HIDE DEF t
  <2>2. SentIn(t.mem, t.mem.sent) /\ SentIn(t.mem, t.own.sent)
    BY <2>1 DEF SentIn, AgreesWith
  <2>3. CASE p.online
    <3>1. Before(wNow) /\ t.mem.last = wNow
      BY <1>1, <2>3
    <3>2. \A w \in posted : w[1] \in Nat \ {0} /\ w[1] <= wNow /\ (w[1] = wNow => LeftNow)
      BY <1>0 DEF Ordered
    <3>3. m.since <= wNow /\ (m.since = 0 => m.logoff = 0)
      BY <1>0 DEF Ordered
    <3>4. Ordered(t.mem)
      BY <2>1, <3>1, <3>2, <3>3 DEF Ordered
    <3>5. AgreesWith(t.own, t.mem)
      BY <2>1, <2>2, <3>1 DEF AgreesWith
    <3> QED BY <1>1, <2>1, <2>2, <2>3, <3>1, <3>4, <3>5 DEF t
  <2>4. CASE ~p.online
    <3>1. Ordered(t.mem) /\ AgreesWith(t.own, t.mem)
      BY <1>1, <2>1, <2>2, <2>4 DEF Ordered, AgreesWith
    <3>2. own.was # "online"
      BY <1>4, <2>4 DEF Leaves
    <3> QED BY <1>1, <2>1, <2>2, <2>4, <3>1, <3>2 DEF t
  <2> QED BY <2>3, <2>4
<1> QED BY <1>2, <1>3, <1>4

LEMMA ScanProcessesAlerts ==
    ASSUME WatchTyped, Alerts, ScanProcesses
    PROVE  Alerts'
<1> DEFINE p == scan.profile
           m1 == Reconciled(mem, p)
<1>1. /\ scan.at = "fetched" /\ mem' = Moved.mem
      /\ UNCHANGED <<ops, wNow, habbo, force, sync, posted, twice>>
  BY ScanProcessesIs
<1>2. /\ p \in HabboProfiles /\ wNow \in Nat \ {0} /\ mem \in FileStates /\ p.access <= wNow /\ p.access \in Nat
      /\ OwnBefore \in OwnStates /\ mem.last <= wNow /\ p.online \in BOOLEAN /\ scan \in ScanStates
  BY <1>1, OwnBeforeTyped DEF WatchTyped, Lookup, HabboProfiles
<1>3. /\ Ordered(mem) /\ SentIn(mem, mem.sent)
      /\ ~p.online /\ p.access = wNow => LeftNow
      /\ p.online => Before(wNow)
  BY <1>1 DEF Alerts, ScanInv, SawLeave
<1>4. AgreesWith(OwnBefore, mem) /\ NothingPosted(OwnBefore)
  <2>1. CASE st = NoState
    <3>1. OwnBefore.was = "unknown" /\ OwnBefore.since = 0 /\ OwnBefore.sent = mem.sent
      BY <2>1 DEF OwnBefore, StartSeeded, NewState
    <3> QED BY <1>3, <3>1 DEF AgreesWith, NothingPosted
  <2>2. CASE st # NoState
    <3>1. Eff = OwnBefore /\ Eff # NoState /\ ~Back
      BY <1>1, <2>2 DEF OwnBefore, Eff, Back
    <3> QED BY <3>1 DEF Alerts, EffInv
  <2> QED BY <2>1, <2>2
<1>5. m1 \in FileStates /\ m1.last <= wNow
  BY <1>2, ReconciledIs
<1>6. Ordered(m1) /\ SentIn(m1, m1.sent) /\ AgreesWith(OwnBefore, m1)
  BY <1>2, <1>3, <1>4, CorrectionAlerts
<1> HIDE DEF m1
<1>7. Resumed.own \in OwnStates /\ Resumed.mem \in FileStates /\ Resumed.mem.last = m1.last
  BY <1>2, <1>5, AfterRestoreIs DEF Resumed, m1
<1>8. /\ Ordered(Resumed.mem) /\ SentIn(Resumed.mem, Resumed.mem.sent) /\ AgreesWith(Resumed.own, Resumed.mem)
      /\ Resumed.own.was = OwnBefore.was /\ NothingPosted(Resumed.own)
      /\ ~p.online /\ Resumed.own.was # "online" /\ Resumed.own.since = 0 => posted = {}
  BY <1>2, <1>4, <1>5, <1>6, RestoreAlerts DEF Resumed, m1
<1>9. /\ Ordered(Moved.mem) /\ SentIn(Moved.mem, Moved.mem.sent) /\ AgreesWith(Moved.own, Moved.mem)
      /\ Moved.own.was = OwnBefore.was
      /\ ~(OwnBefore.was = "offline" /\ p.online) => NothingPosted(Moved.own)
      /\ p.online => Moved.mem.last # 0 /\ Before(Moved.mem.last)
      /\ ~p.online /\ Moved.own.since = 0 => posted = {}
  BY <1>2, <1>3, <1>5, <1>7, <1>8, TransitionAlerts DEF Moved
<1>10. Moved.own \in OwnStates /\ Moved.own # NoState /\ Moved.own.since \in Nat
  BY <1>1, ScanOutcome, NotNone DEF OwnStates
<1>11. Ordered(mem)' /\ SentIn(mem, mem.sent)' /\ SawLeave(sync)'
  BY <1>1, <1>9 DEF Alerts, ScanInv, Ordered, SentIn, Before, LeftNow, SawLeave
<1>12. ~twice'
  BY <1>1, Zenon DEF Alerts
<1>13. CASE Due # 0 \/ ComesBack
  <2>1. /\ scan' = [scan EXCEPT !.at = "posting", !.own = Moved.own, !.key = Due,
                                !.back = ComesBack, !.shared = st # NoState]
        /\ st' = IF st = NoState THEN st ELSE Moved.own
    BY <1>13, ScanProcessesIs
  <2>2. /\ scan'.at = "posting" /\ scan'.own = Moved.own /\ scan'.key = Due /\ scan'.profile = p
        /\ scan'.shared = (st # NoState)
    BY <1>2, <2>1 DEF ScanStates
  <2>3. Eff' = Moved.own
    BY <2>1, <2>2 DEF Eff
  <2>4. scan'.shared <=> st' # NoState
    BY <1>10, <2>1, <2>2
  <2>5. Back' <=> p.online
    BY <2>2 DEF Back
  <2>6. p.online => Due = 0 /\ ComesBack
    BY <1>13 DEF Due, DueKey
  <2>7. ~p.online => /\ Due # 0 /\ Due \notin Moved.own.sent /\ Moved.own.since # 0 /\ Moved.own.since # wNow
    <3> SUFFICES ASSUME ~p.online PROVE Due # 0 /\ Due \notin Moved.own.sent /\ Moved.own.since # 0 /\ Moved.own.since # wNow
      OBVIOUS
    <3>1. Due # 0
      BY <1>13 DEF ComesBack
    <3>2. Due = Milestone(Moved.own.since) /\ Due \notin Moved.own.sent
      BY <3>1 DEF Due, DueKey
    <3> QED BY <1>2, <1>10, <3>1, <3>2, MilestoneTyped
  <2>8. EffInv'
    <3>2. AgreesWith(Eff, mem)'
      BY <1>1, <1>9, <2>3 DEF AgreesWith, SentIn, Before, LeftNow
    <3>3. ~Back' => NothingPosted(Eff)'
      BY <1>1, <1>9, <2>3, <2>5 DEF NothingPosted
    <3> QED BY <3>2, <3>3 DEF EffInv
  <2>9. ScanInv'
    <3>1. Back' => mem'.last # 0 /\ Before(mem.last)' /\ scan'.key = 0
      BY <1>1, <1>9, <2>2, <2>5, <2>6 DEF Before
    <3>2. ~Back' => scan'.key # 0 /\ scan'.key \notin Eff'.sent /\ Eff'.since # 0 /\ (mem'.since = wNow' => LeftNow')
      BY <1>1, <1>9, <2>2, <2>3, <2>5, <2>7 DEF AgreesWith, LeftNow
    <3>3. SawLeave(scan)'
      BY <2>2 DEF SawLeave
    <3> QED BY <1>11, <2>2, <2>4, <3>1, <3>2, <3>3 DEF ScanInv
  <2> QED BY <1>11, <1>12, <2>8, <2>9 DEF Alerts
<1>14. CASE ~(Due # 0 \/ ComesBack)
  <2> DEFINE done == [Moved.own EXCEPT !.was = Was(p.online)]
  <2>1. /\ scan' = IdleScan /\ st' = done
    BY <1>14, ScanProcessesIs
  <2>2. done.was = Was(p.online) /\ done.since = Moved.own.since /\ done.sent = Moved.own.sent
    BY <1>10 DEF OwnStates
  <2> HIDE DEF done
  <2>3. scan'.at = "idle" /\ ~Back' /\ Eff' = done
    BY <2>1, IdleTyped DEF Back, Eff
  <2>4. AgreesWith(Eff, mem)'
    <3>1. done.was = "online" => mem'.last # 0 /\ Before(mem.last)'
      BY <1>1, <1>9, <2>2 DEF Was, Before
    <3> QED BY <1>1, <1>9, <2>2, <2>3, <3>1 DEF AgreesWith, SentIn, LeftNow
  <2>5. NothingPosted(Eff)'
    BY <1>1, <1>9, <2>2, <2>3 DEF NothingPosted, Was
  <2>6. ScanInv'
    BY <1>11, <2>3 DEF ScanInv, SawLeave, Back
  <2> QED BY <1>11, <1>12, <2>4, <2>5, <2>6 DEF Alerts, EffInv
<1> QED BY <1>13, <1>14

(* The alert is of a key that has not been posted of this window.           *)
LEMMA ScanPostsAlerts ==
    ASSUME WatchTyped, Alerts, ScanPosts
    PROVE  Alerts'
<1>1. /\ scan.at = "posting" /\ st' = OwnAfter /\ scan'.at = "idle"
      /\ mem' \in FileStates
      /\ mem'.last = mem.last /\ mem'.since = mem.since /\ mem'.logoff = mem.logoff
      /\ mem'.sent = (IF scan.key = 0 THEN mem.sent ELSE mem.sent \cup {scan.key})
      /\ scan.key = 0 => UNCHANGED <<posted, twice>>
      /\ scan.key # 0 => Posts(scan.key)
      /\ UNCHANGED <<ops, wNow, habbo, force, sync, streak>>
  BY ScanPostsIs
<1>2. /\ Own \in OwnStates /\ OwnAfter.since = Own.since
      /\ OwnAfter.was = Was(scan.profile.online)
      /\ OwnAfter.sent = (IF scan.key = 0 THEN Own.sent ELSE Own.sent \cup {scan.key})
  BY <1>1, OwnAfterIs
<1>3. Own = Eff /\ Eff # NoState /\ Eff' = OwnAfter /\ ~Back'
  BY <1>1, <1>2, NotNone DEF Own, Eff, Alerts, ScanInv, Back
<1>4. /\ mem.since \in Nat /\ mem.last \in Nat /\ wNow \in Nat /\ mem.last <= wNow /\ mem \in FileStates
  BY DEF WatchTyped, FileStates
<1>5. Ordered(mem) /\ SentIn(mem, mem.sent) /\ AgreesWith(Own, mem) /\ (~Back => NothingPosted(Own)) /\ ScanInv
  BY <1>3 DEF Alerts, EffInv
<1>6. SawLeave(sync)' /\ ScanInv'
  BY <1>1, <1>5 DEF ScanInv, SawLeave, LeftNow, Back
<1>7. CASE Back
  <2>1. scan.key = 0 /\ mem.last # 0 /\ Before(mem.last) /\ scan.profile.online
    BY <1>1, <1>5, <1>7 DEF ScanInv, Back
  <2>2. posted' = posted /\ mem'.sent = mem.sent /\ OwnAfter.sent = Own.sent /\ OwnAfter.was = "online"
    BY <1>1, <1>2, <2>1 DEF Was
  <2>3. ~twice'
    BY <1>1, <2>1, Zenon DEF Alerts
  <2>4. Ordered(mem)' /\ SentIn(mem, mem.sent)'
    BY <1>1, <1>5, <2>2 DEF Ordered, SentIn, Before, LeftNow
  <2>5. AgreesWith(Eff, mem)'
    BY <1>1, <1>2, <1>3, <1>5, <2>1, <2>2 DEF AgreesWith, SentIn, Before, LeftNow
  <2>6. NothingPosted(Eff)'
    BY <1>3, <2>2 DEF NothingPosted
  <2> QED BY <1>6, <2>3, <2>4, <2>5, <2>6 DEF Alerts, EffInv
<1>8. CASE ~Back
  <2>1. /\ scan.key # 0 /\ scan.key \notin Own.sent /\ Own.since # 0 /\ (mem.since = wNow => LeftNow)
        /\ ~scan.profile.online
    BY <1>1, <1>3, <1>5, <1>8 DEF ScanInv, Back
  <2>2. /\ posted' = posted \cup {<<mem.since, scan.key>>} /\ mem'.sent = mem.sent \cup {scan.key}
        /\ OwnAfter.sent = Own.sent \cup {scan.key} /\ OwnAfter.was = "offline"
    BY <1>1, <1>2, <2>1 DEF Was, Posts
  <2>3. <<mem.since, scan.key>> \notin posted
    BY <1>5, <2>1 DEF AgreesWith, SentIn
  <2>4. ~twice'
    <3>1. twice' = (twice \/ <<mem.since, scan.key>> \in posted)
      BY <1>1, <2>1 DEF Posts
    <3> QED BY <2>3, <3>1, Zenon DEF Alerts
  <2>5. mem.since # 0 /\ mem.since \in Nat \ {0}
    BY <1>4, <1>5, <2>1 DEF AgreesWith
  <2>6. Ordered(mem)'
    <3>1. \A w \in posted' : w[1] \in Nat \ {0} /\ w[1] <= mem.last /\ (w[1] = wNow => LeftNow)
      BY <1>5, <2>1, <2>2, <2>5 DEF Ordered
    <3> QED BY <1>1, <1>5, <2>5, <3>1 DEF Ordered, LeftNow
  <2>7. SentIn(mem, mem.sent)' /\ SentIn(mem, Eff.sent)'
    <3>1. \A w \in posted' : w[1] = mem.since => w[2] \in mem'.sent
      BY <1>5, <2>2 DEF SentIn
    <3>2. \A w \in posted' : w[1] = mem.since => w[2] \in OwnAfter.sent
      BY <1>5, <2>2 DEF SentIn, AgreesWith
    <3>3. \A w \in posted' : w[1] = mem.since => w[2] \in Eff'.sent
      BY <1>3, <3>2
    <3> QED BY <1>1, <1>3, <3>1, <3>3 DEF SentIn
  <2>8. AgreesWith(Eff, mem)' /\ NothingPosted(Eff)'
    BY <1>1, <1>2, <1>3, <1>5, <2>1, <2>2, <2>5, <2>7 DEF AgreesWith, LeftNow, NothingPosted
  <2> QED BY <1>6, <2>4, <2>6, <2>7, <2>8 DEF Alerts, EffInv
<1> QED BY <1>7, <1>8

LEMMA SyncAlerts ==
    ASSUME WatchTyped, Alerts, SyncReconciles
    PROVE  Alerts'
<1> DEFINE p == sync.profile
           n == Reconciled(mem, p)
<1>1. /\ sync.at = "fetched" /\ mem' = n /\ sync' = IdleTask
      /\ UNCHANGED <<ops, wNow, habbo, st, scan, posted, twice>>
  BY DEF SyncReconciles
<1>2. /\ p \in HabboProfiles /\ wNow \in Nat /\ mem \in FileStates /\ mem.last \in Nat /\ p.access \in Nat
      /\ mem.since \in Nat
      /\ (~p.online /\ p.access = wNow => LeftNow)
  BY <1>1 DEF WatchTyped, Lookup, Alerts, ScanInv, SawLeave, FileStates, HabboProfiles
<1>3. Eff # NoState => Eff \in OwnStates
  BY DEF WatchTyped, Eff
<1>4. Ordered(mem) /\ SentIn(mem, mem.sent) /\ EffInv /\ ScanInv
  BY DEF Alerts
<1> DEFINE none == NewState(mem.sent)
<1>6. none \in OwnStates /\ AgreesWith(none, mem)
  <2>1. none \in OwnStates /\ none.was = "unknown" /\ none.since = 0 /\ none.sent = mem.sent
    BY <1>2 DEF NewState, OwnStates, FileStates
  <2> QED BY <1>4, <2>1 DEF AgreesWith
<1>7. Ordered(n) /\ SentIn(n, n.sent)
  BY <1>2, <1>4, <1>6, CorrectionAlerts
<1>8. Eff # NoState => AgreesWith(Eff, n)
  BY <1>2, <1>3, <1>4, CorrectionAlerts DEF EffInv
<1>9. n.last \in Nat /\ mem.last <= n.last /\ (n.since = wNow => mem.since = wNow \/ LeftNow)
  BY <1>2, ReconciledIs DEF FileStates
<1> HIDE DEF n
<1>10. Ordered(mem)' /\ SentIn(mem, mem.sent)'
  BY <1>1, <1>7 DEF Ordered, SentIn, Before, LeftNow
<1>11. ~twice'
  BY <1>1, Zenon DEF Alerts
<1>12. Eff' = Eff /\ (Back' <=> Back)
  BY <1>1 DEF Eff, Back
<1>13. EffInv'
  BY <1>1, <1>4, <1>8, <1>12 DEF EffInv, AgreesWith, SentIn, Before, LeftNow, NothingPosted
<1>14. Back => Before(n.last) /\ n.last # 0
  <2>1. ASSUME Back PROVE Before(n.last) /\ n.last # 0
    <3>1. Before(mem.last) /\ mem.last # 0
      BY <1>4, <2>1 DEF ScanInv, Back
    <3>2. \A w \in posted : w[1] \in Nat
      BY <1>4 DEF Ordered
    <3> QED BY <1>2, <1>9, <3>1, <3>2 DEF Before
  <2> QED BY <2>1
<1>15. SawLeave(scan)' /\ SawLeave(sync)'
  BY <1>1, <1>4, IdleTyped DEF ScanInv, SawLeave, LeftNow
<1>16. ScanInv'
  BY <1>1, <1>4, <1>9, <1>12, <1>14, <1>15 DEF ScanInv, Back, Before, LeftNow
<1> QED BY <1>10, <1>11, <1>13, <1>16 DEF Alerts

LEMMA FetchAlerts ==
    ASSUME WatchTyped, Alerts, ScanFetches \/ SyncFetches \/ ScanFails
    PROVE  Alerts'
<1>1. \/ UNCHANGED <<wNow, habbo, st, mem, posted, twice>> /\ scan.at # "posting" /\ scan'.at # "posting"
      \/ UNCHANGED <<wNow, habbo, st, mem, posted, twice, scan>>
  BY IdleTyped DEF ScanFetches, SyncFetches, ScanFails, KeepsState, WatchTyped, ScanStates
<1>2. Eff' = Eff /\ (Back' <=> Back) /\ UNCHANGED <<wNow, habbo, mem, posted, twice>>
  BY <1>1 DEF Eff, Back
<1>3. Ordered(mem)' /\ SentIn(mem, mem.sent)' /\ EffInv'
  BY <1>2 DEF Alerts, Ordered, SentIn, Before, LeftNow, EffInv, AgreesWith, NothingPosted
<1>4. ~twice'
  BY <1>2, Zenon DEF Alerts
<1>5. /\ wNow \in Nat /\ mem.last \in Nat /\ mem.last <= wNow
      /\ habbo.online => \A w \in posted : w[1] \in Nat /\ w[1] < wNow
  BY DEF WatchTyped, FileStates, Alerts, Ordered, LeftNow
<1>6. ScanInv'
  <2>1. CASE ScanFetches
    <3>1. scan'.at = "fetched" /\ scan'.profile = habbo /\ sync' = sync /\ UNCHANGED <<wNow, habbo, posted>>
      BY <2>1 DEF ScanFetches, WatchTyped, ScanStates
    <3> QED BY <1>5, <3>1 DEF Alerts, ScanInv, SawLeave, LeftNow, Before, Back
  <2>2. CASE SyncFetches
    <3>1. sync'.at = "fetched" /\ sync'.profile = habbo /\ scan' = scan /\ UNCHANGED <<wNow, habbo, posted, st, mem>>
      BY <2>2 DEF SyncFetches
    <3> QED BY <1>2, <3>1 DEF Alerts, ScanInv, SawLeave, LeftNow, Before, Back
  <2>3. CASE ScanFails
    <3>1. scan'.at = "idle" /\ sync' = sync /\ UNCHANGED <<wNow, habbo, posted>>
      BY <2>3, IdleTyped DEF ScanFails
    <3> QED BY <3>1 DEF Alerts, ScanInv, SawLeave, LeftNow, Back
  <2> QED BY <2>1, <2>2, <2>3
<1> QED BY <1>3, <1>4, <1>6 DEF Alerts

(* Time and the user go on: a user who has left in this instant stays away. *)
LEMMA UserAlerts ==
    ASSUME WatchTyped, Alerts, LogsIn \/ LogsOut \/ WatchTick
    PROVE  Alerts'
<1>1. /\ UNCHANGED <<ops, st, mem, scan, sync, posted, twice>> /\ wNow \in Nat /\ wNow' \in Nat /\ mem.last \in Nat
      /\ mem.since \in Nat /\ mem.last <= wNow /\ wNow <= wNow'
      /\ \A task \in {scan, sync} : task.at = "fetched" =>
            task.profile.access \in Nat /\ task.profile.access <= wNow
  BY DEF LogsIn, LogsOut, WatchTick, WatchTyped, FileStates, Lookup, HabboProfiles
<1>2. \/ wNow' = wNow /\ ~LeftNow
      \/ wNow < wNow'
  BY <1>1 DEF LogsIn, LogsOut, WatchTick, LeftNow, WatchTyped, HabboProfiles
<1>3. Eff' = Eff /\ (Back' <=> Back)
  BY <1>1 DEF Eff, Back
<1>4. ~twice'
  BY <1>1, Zenon DEF Alerts
<1>5. \A w \in posted : w[1] \in Nat \ {0} /\ w[1] <= mem.last /\ w[1] # wNow'
  BY <1>1, <1>2 DEF Alerts, Ordered
<1>6. mem.since = wNow' => mem.since = wNow /\ ~LeftNow /\ wNow' = wNow
  BY <1>1, <1>2 DEF Alerts, Ordered
<1>7. Ordered(mem)' /\ SentIn(mem, mem.sent)'
  BY <1>1, <1>5 DEF Alerts, Ordered, SentIn, Before
<1>8. EffInv'
  BY <1>1, <1>3, <1>6 DEF Alerts, EffInv, AgreesWith, SentIn, Before, NothingPosted
<1>10. SawLeave(scan)' /\ SawLeave(sync)'
  <2>1. ASSUME NEW task, SawLeave(task), task.at = "fetched", ~task.profile.online, task.profile.access = wNow',
               task.profile.access \in Nat, task.profile.access <= wNow
        PROVE  FALSE
    BY <1>1, <1>2, <2>1 DEF SawLeave
  <2> QED BY <1>1, <2>1 DEF SawLeave, Alerts, ScanInv
<1>11. scan.at = "fetched" /\ scan.profile.online => Before(wNow)'
  BY <1>1, <1>5 DEF Before
<1>12. ScanInv'
  BY <1>1, <1>3, <1>6, <1>10, <1>11 DEF Alerts, ScanInv, Before, Back
<1> QED BY <1>4, <1>7, <1>8, <1>12 DEF Alerts

LEMMA RestartsAlerts ==
    ASSUME WatchTyped, SavedBetween, Alerts, Restarts
    PROVE  Alerts'
<1>1. /\ scan.at = "idle" /\ st' = NoState /\ mem' = mem
      /\ UNCHANGED <<wNow, habbo, scan, sync, posted, twice>>
  BY DEF Restarts, SavedBetween
<1>2. Eff' = NoState
  BY <1>1 DEF Eff
<1>3. ~twice'
  BY <1>1, Zenon DEF Alerts
<1> QED BY <1>1, <1>2, <1>3 DEF Alerts, Ordered, SentIn, Before, LeftNow, EffInv, ScanInv, SawLeave, Back

LEMMA WatchInitInv == WatchInit => WatchInv
<1> SUFFICES ASSUME WatchInit PROVE WatchInv
  OBVIOUS
<1>1. Files \in FileStates /\ Files.last = 0 /\ Files.since = 0 /\ Files.logoff = 0
  BY DEF Files, FileStates
<1>2. habbo \in HabboProfiles /\ habbo.access <= wNow /\ wNow = 1
  BY DEF WatchInit, HabboProfiles
<1>3. WatchTyped
  BY <1>1, <1>2, IdleTyped, WatchAssumption DEF WatchInit, WatchTyped
<1>4. ~twice
  BY Zenon DEF WatchInit
<1>5. scan.at = "idle" /\ sync.at = "idle" /\ Eff = NoState /\ posted = {}
  BY IdleTyped DEF WatchInit, Eff
<1>6. Alerts
  BY <1>1, <1>4, <1>5 DEF WatchInit, Alerts, Ordered, SentIn, Before, EffInv, ScanInv, SawLeave
<1> QED BY <1>3, <1>6 DEF WatchInit, WatchInv, SavedBetween, AlertInv

LEMMA WatchKept ==
    ASSUME WatchTyped, SavedBetween, [WatchNext]_watchVars
    PROVE  WatchKeeps
<1>1. CASE UNCHANGED watchVars
  <2>1. mem.last \in Nat
    BY DEF WatchTyped, FileStates
  <2> QED BY <1>1, <2>1 DEF watchVars, WatchKeeps, WatchTyped, SavedBetween, Lookup
<1>2. CASE WatchNext
  BY <1>2, FetchKeeps, ScanProcessesKeeps, ScanPostsKeeps, ForceKeeps, SyncKeeps, ManualKeeps, WorldKeeps
     DEF WatchNext
<1> QED BY <1>1, <1>2

LEMMA WatchStepInv == WatchInv /\ [WatchNext]_watchVars => WatchInv'
<1> SUFFICES ASSUME WatchInv, [WatchNext]_watchVars PROVE WatchInv'
  OBVIOUS
<1>1. WatchTyped' /\ SavedBetween'
  BY WatchKept DEF WatchInv, WatchKeeps
<1>2. ASSUME Untouched' PROVE Alerts'
  <2>1. ops' = ops
    BY DEF WatchNext, watchVars, ScanFetches, ScanFails, ScanProcesses, ScanPosts, ForceFetches, ForceProcesses,
           ForceSaves, SyncFetches, SyncReconciles, ManualUpdate, Restarts, LogsIn, LogsOut, WatchTick
  <2>2. Untouched /\ "force" \notin ops /\ "manual" \notin ops
    BY <1>2, <2>1 DEF Untouched
  <2>3. WatchTyped /\ SavedBetween /\ Alerts /\ force.at = "idle"
    BY <2>2 DEF WatchInv, AlertInv, WatchTyped
  <2>4. CASE UNCHANGED watchVars
    <3>1. ~twice'
      BY <2>3, <2>4, Zenon DEF Alerts, watchVars
    <3> QED BY <2>3, <2>4, <3>1 DEF watchVars, Alerts, Ordered, SentIn, Before, LeftNow, EffInv, Eff, AgreesWith,
                NothingPosted, ScanInv, SawLeave, Back
  <2>5. ~(ForceFetches \/ ForceProcesses \/ ForceSaves)
    BY <2>2, <2>3 DEF ForceFetches, ForceProcesses, ForceSaves
  <2>6. \A online \in BOOLEAN, at \in {habbo.access, wNow} : ~ManualUpdate(online, at)
    BY <2>2 DEF ManualUpdate
  <2> QED BY <2>3, <2>4, <2>5, <2>6, FetchAlerts, ScanProcessesAlerts, ScanPostsAlerts, SyncAlerts, RestartsAlerts, UserAlerts
          DEF WatchNext
<1> QED BY <1>1, <1>2 DEF WatchInv, AlertInv

LEMMA WatchPromises == WatchInv => WatchTypeOK /\ IdleIsSaved /\ AlertedOnce
<1> SUFFICES ASSUME WatchInv PROVE WatchTypeOK /\ IdleIsSaved /\ AlertedOnce
  OBVIOUS
<1>1. WatchTypeOK
  BY DEF WatchInv, WatchTyped, WatchTypeOK, FileStates, OwnStates
<1>2. IdleIsSaved
  BY DEF WatchInv, SavedBetween, IdleIsSaved
<1>3. AlertedOnce
  BY Zenon DEF WatchInv, AlertInv, Alerts, AlertedOnce, Untouched
<1> QED BY <1>1, <1>2, <1>3

LEMMA RecordsForward ==
    WatchInv /\ [WatchNext]_watchVars => ("manual" \notin ops => mem'.last >= mem.last)
BY WatchKept DEF WatchInv, WatchKeeps

---------------------------------------------------------------------------
(* The time file of a watched user.                                        *)

TimeFiles == [status : {"none", "online", "offline"}, since : Nat, seen : Nat, on : Nat, off : Nat]

TimeTyped ==
    /\ tNow \in Nat \ {0} /\ (tNow <= TimeMax \/ tNow = 1)
    /\ tVisits \subseteq 0 .. tNow
    /\ tFile \in TimeFiles /\ tFirst \in Nat

(* A file, and only a file, has a status, and what it counts lies between   *)
(* the first instant it accounts for and its last poll.                     *)
TimeCounted ==
    /\ (tFile.status = "none") <=> (tFile = NoFile)
    /\ tFile # NoFile => /\ tFirst # 0 /\ tFirst <= tFile.seen /\ tFile.seen <= tNow
                         /\ tFile.on + tFile.off <= tFile.seen - tFirst

TimeInv == TimeTyped /\ TimeCounted

LEMMA TimeFields ==
    ASSUME NEW f \in TimeFiles
    PROVE  /\ f.status \in {"none", "online", "offline"}
           /\ f.since \in Nat /\ f.seen \in Nat /\ f.on \in Nat /\ f.off \in Nat
BY DEF TimeFiles

LEMMA NoFileTyped == NoFile \in TimeFiles /\ NoFile.status = "none" /\ NoFile.off = 0 /\ NoFile.on = 0
BY DEF NoFile, TimeFiles

LEMMA PositiveIs ==
    ASSUME NEW n \in Int PROVE Positive(n) \in Nat /\ n <= Positive(n) /\ (n >= 0 => Positive(n) = n)
BY DEF Positive

(* The totals of a poll: the interval since the last one is counted at most *)
(* once, however it is divided.                                             *)
LEMMA AccruedIs ==
    ASSUME NEW f \in TimeFiles, f.status # "none", NEW saw \in {"online", "offline"},
           NEW known \in Nat, NEW now \in Nat, known <= now, f.seen <= now
    PROVE  LET a == Accrued(f, saw, known, now)
           IN  /\ a \in TimeFiles
               /\ a.status = f.status /\ a.since = f.since
               /\ a.on + a.off <= f.on + f.off + (now - f.seen)
<1> DEFINE dated == f.status # saw /\ known # 0
           until == IF dated THEN Max({f.seen, known}) ELSE now
           old == Positive(until - f.seen)
           new == Positive(now - until)
           on == f.on + (IF f.status = "online" THEN old ELSE 0) + (IF saw = "online" THEN new ELSE 0)
           off == f.off + (IF f.status = "offline" THEN old ELSE 0) + (IF saw = "offline" THEN new ELSE 0)
           counted == [f EXCEPT !.on = on, !.off = off]
<1>1. f.status \in {"online", "offline"} /\ f.seen \in Nat /\ f.on \in Nat /\ f.off \in Nat /\ f.since \in Nat
  BY DEF TimeFiles
<1>2. until \in Nat /\ f.seen <= until /\ until <= now
  <2>1. Max({f.seen, known}) \in {f.seen, known} /\ f.seen <= Max({f.seen, known})
    BY <1>1, MaxOfTwo
  <2> QED BY <1>1, <2>1
<1>3. Accrued(f, saw, known, now) = IF now <= f.seen THEN f ELSE counted
  BY DEF Accrued
<1> HIDE DEF until
<1>4. old \in Nat /\ new \in Nat /\ old + new = now - f.seen
  BY <1>1, <1>2 DEF Positive
<1> HIDE DEF old, new
<1>5. on \in Nat /\ off \in Nat /\ on + off = f.on + f.off + (now - f.seen)
  BY <1>1, <1>4
<1> HIDE DEF on, off
<1>6. /\ counted \in TimeFiles /\ counted.status = f.status /\ counted.since = f.since
      /\ counted.on = on /\ counted.off = off
  BY <1>5 DEF TimeFiles
<1> HIDE DEF counted
<1>7. CASE now <= f.seen
  BY <1>1, <1>3, <1>7
<1>8. CASE ~(now <= f.seen)
  BY <1>3, <1>5, <1>6, <1>8
<1> QED BY <1>7, <1>8

(* A correction only takes away.                                            *)
LEMMA CorrectedIs ==
    ASSUME NEW f \in TimeFiles, NEW known \in Nat
    PROVE  LET c == CorrectedWindow(f, known)
           IN  c \in TimeFiles /\ c.on = f.on /\ c.off <= f.off
<1> DEFINE off == Positive(f.off - (known - f.since))
           shorter == [f EXCEPT !.off = off, !.since = known]
<1>1. f.since \in Nat /\ f.off \in Nat
  BY DEF TimeFiles
<1>2. f.since < known => off \in Nat /\ off <= f.off
  BY <1>1 DEF Positive
<1>3. off \in Nat
  BY <1>1, PositiveIs
<1> HIDE DEF off
<1>4. shorter \in TimeFiles /\ shorter.on = f.on /\ shorter.off = off
  BY <1>3 DEF TimeFiles
<1>5. CorrectedWindow(f, known) = IF f.status = "offline" /\ known # 0 /\ f.since < known THEN shorter ELSE f
  BY DEF CorrectedWindow, off
<1> HIDE DEF shorter
<1> QED BY <1>1, <1>2, <1>4, <1>5

(* A new session leaves the totals of a file that is there.                 *)
LEMMA NewSessionIs ==
    ASSUME NEW f \in TimeFiles, f # NoFile, NEW saw, NEW known \in Nat, NEW now \in Nat
    PROVE  LET c == NewSession(f, saw, known, now)
           IN  c \in TimeFiles /\ c.on = f.on /\ c.off = f.off
<1>1. /\ [f EXCEPT !.since = known, !.off = f.off] \in TimeFiles
      /\ [f EXCEPT !.since = known, !.off = f.off].on = f.on
      /\ [f EXCEPT !.since = known, !.off = f.off].off = f.off
  BY DEF TimeFiles
<1>2. [f EXCEPT !.since = now] \in TimeFiles /\ [f EXCEPT !.since = now].on = f.on /\ [f EXCEPT !.since = now].off = f.off
  BY DEF TimeFiles
<1>3. NewSession(f, saw, known, now) =
        IF saw = "offline" /\ known # 0 THEN [f EXCEPT !.since = known, !.off = f.off] ELSE [f EXCEPT !.since = now]
  BY DEF NewSession, Seeded
<1> QED BY <1>1, <1>2, <1>3

(* A poll of a file that is there.                                          *)
LEMMA UpdatedIs ==
    ASSUME NEW f \in TimeFiles, f.status # "none", NEW saw \in {"online", "offline"},
           NEW known \in Nat, NEW now \in Nat, known <= now, f.seen <= now
    PROVE  LET u == Updated(f, saw, known, now)
           IN  /\ u \in TimeFiles /\ u.status = saw /\ u.seen = now
               /\ u.on + u.off <= f.on + f.off + (now - f.seen)
<1> DEFINE a == Accrued(f, saw, known, now)
           w == IF f.status = saw
                THEN IF saw = "offline" THEN CorrectedWindow(a, known) ELSE a
                ELSE NewSession(a, saw, known, now)
           u == [w EXCEPT !.status = saw, !.seen = now]
<1>1. a \in TimeFiles /\ a.status = f.status /\ a.on + a.off <= f.on + f.off + (now - f.seen)
  BY AccruedIs
<1>2. a # NoFile
  BY <1>1, NoFileTyped
<1> HIDE DEF a
<1>3. CorrectedWindow(a, known) \in TimeFiles /\ CorrectedWindow(a, known).on = a.on /\ CorrectedWindow(a, known).off <= a.off
  BY <1>1, CorrectedIs
<1>4. /\ NewSession(a, saw, known, now) \in TimeFiles
      /\ NewSession(a, saw, known, now).on = a.on /\ NewSession(a, saw, known, now).off = a.off
  BY <1>1, <1>2, NewSessionIs
<1>5. a.on \in Nat /\ a.off \in Nat
  BY <1>1, TimeFields
<1>6. w \in TimeFiles /\ w.on = a.on /\ w.off <= a.off
  BY <1>1, <1>3, <1>4, <1>5
<1> HIDE DEF w
<1>7. w.on \in Nat /\ w.off \in Nat
  BY <1>6, TimeFields
<1>8. u \in TimeFiles /\ u.status = saw /\ u.seen = now /\ u.on = w.on /\ u.off = w.off
  BY <1>6 DEF TimeFiles
<1>9. Updated(f, saw, known, now) = u
  BY DEF Updated, a, w
<1> HIDE DEF u
<1>10. f.on \in Nat /\ f.off \in Nat /\ f.seen \in Nat
  BY TimeFields
<1>11. u.on + u.off <= f.on + f.off + (now - f.seen)
  BY <1>1, <1>5, <1>6, <1>7, <1>8, <1>10
<1> QED BY <1>8, <1>9, <1>11

(* The first poll: what Habbo dates before it is offline time.              *)
LEMMA FirstIs ==
    ASSUME NEW saw \in {"online", "offline"}, NEW known \in Nat, NEW now \in Nat, known <= now,
           saw = "online" => known = 0
    PROVE  LET u == Updated(NoFile, saw, known, now)
           IN  /\ u \in TimeFiles /\ u.status = saw /\ u.seen = now /\ u.on = 0
               /\ u.off = IF known # 0 THEN now - known ELSE 0
<1>1. Accrued(NoFile, saw, known, now) = NoFile
  BY DEF Accrued, NoFile
<1>2. NoFile.status # saw
  BY NoFileTyped
<1> DEFINE w == NewSession(NoFile, saw, known, now)
           u == [w EXCEPT !.status = saw, !.seen = now]
<1>3. Updated(NoFile, saw, known, now) = u
  BY <1>1, <1>2 DEF Updated
<1>4. now - known \in Nat
  OBVIOUS
<1>5. w \in TimeFiles /\ w.on = 0 /\ w.off = IF known # 0 THEN now - known ELSE 0
  <2>1. CASE known # 0
    <3>1. w = [NoFile EXCEPT !.since = known, !.off = now - known]
      BY <2>1 DEF NewSession, Seeded
    <3> HIDE DEF w
    <3> QED BY <1>4, <2>1, <3>1 DEF NoFile, TimeFiles
  <2>2. CASE known = 0
    <3>1. w = [NoFile EXCEPT !.since = now]
      BY <2>2 DEF NewSession
    <3> HIDE DEF w
    <3> QED BY <2>2, <3>1 DEF NoFile, TimeFiles
  <2> QED BY <2>1, <2>2
<1> HIDE DEF w
<1>6. u \in TimeFiles /\ u.status = saw /\ u.seen = now /\ u.on = w.on /\ u.off = w.off
  BY <1>5 DEF TimeFiles
<1> QED BY <1>3, <1>5, <1>6

LEMMA TimeInitInv == TimeInit => TimeInv
BY NoFileTyped DEF TimeInit, TimeInv, TimeTyped, TimeCounted

LEMMA PollsKeeps == TimeInv /\ Polls => TimeInv'
<1> SUFFICES ASSUME TimeInv, Polls PROVE TimeInv'
  OBVIOUS
<1> USE DEF TimeInv
<1>1. /\ tNow \in Nat /\ tNow # 0 /\ tVisits \subseteq 0 .. tNow /\ tFile \in TimeFiles /\ tFirst \in Nat
      /\ tNow' = tNow /\ tVisits' = tVisits
  BY DEF TimeTyped, Polls
<1>2. PICK known \in Known :
        LET saw == IF tNow \in tVisits THEN "online" ELSE "offline"
            since == IF saw = "online" THEN 0 ELSE known
        IN  /\ tFile' = Updated(tFile, saw, since, tNow)
            /\ tFirst' = IF tFile # NoFile THEN tFirst ELSE IF since # 0 THEN since ELSE tNow
  BY DEF Polls
<1>3. known \in Nat /\ known <= tNow
  BY <1>1 DEF Known
<1> DEFINE saw == IF tNow \in tVisits THEN "online" ELSE "offline"
           since == IF saw = "online" THEN 0 ELSE known
<1>4. saw \in {"online", "offline"}
  OBVIOUS
<1>5. since \in Nat /\ since <= tNow /\ (saw = "online" => since = 0)
  BY <1>1, <1>3
<1>6. /\ tFile' = Updated(tFile, saw, since, tNow)
      /\ tFirst' = IF tFile # NoFile THEN tFirst ELSE IF since # 0 THEN since ELSE tNow
  BY <1>2
<1> HIDE DEF saw, since
<1>7. CASE tFile = NoFile
  <2>1. /\ tFile' \in TimeFiles /\ tFile'.status = saw /\ tFile'.seen = tNow /\ tFile'.on = 0
        /\ tFile'.off = IF since # 0 THEN tNow - since ELSE 0
    BY <1>1, <1>4, <1>5, <1>6, <1>7, FirstIs
  <2>2. tFirst' = IF since # 0 THEN since ELSE tNow
    BY <1>6, <1>7
  <2>3. tFile' # NoFile /\ tFile'.status # "none"
    BY <1>4, <2>1, NoFileTyped
  <2>4. tFirst' \in Nat /\ tFirst' # 0 /\ tFirst' <= tNow /\ tFile'.on + tFile'.off <= tNow - tFirst'
    BY <1>1, <1>5, <2>1, <2>2
  <2> QED BY <1>1, <2>1, <2>3, <2>4 DEF TimeTyped, TimeCounted
<1>8. CASE tFile # NoFile
  <2>1. /\ tFile.status # "none" /\ tFirst # 0 /\ tFirst <= tFile.seen /\ tFile.seen <= tNow
        /\ tFile.on + tFile.off <= tFile.seen - tFirst
    BY <1>8 DEF TimeCounted
  <2>2. /\ tFile' \in TimeFiles /\ tFile'.status = saw /\ tFile'.seen = tNow
        /\ tFile'.on + tFile'.off <= tFile.on + tFile.off + (tNow - tFile.seen)
    BY <1>1, <1>4, <1>5, <1>6, <2>1, UpdatedIs
  <2>3. tFirst' = tFirst
    BY <1>6, <1>8
  <2>4. tFile' # NoFile /\ tFile'.status # "none"
    BY <1>4, <2>2, NoFileTyped
  <2>5. /\ tFile.seen \in Nat /\ tFile.on \in Nat /\ tFile.off \in Nat
        /\ tFile'.on \in Nat /\ tFile'.off \in Nat
    BY <1>1, <2>2, TimeFields
  <2>6. tFirst' <= tNow /\ tFile'.on + tFile'.off <= tNow - tFirst'
    BY <1>1, <2>1, <2>2, <2>3, <2>5
  <2> QED BY <1>1, <2>1, <2>2, <2>3, <2>4, <2>6 DEF TimeTyped, TimeCounted
<1> QED BY <1>7, <1>8

LEMMA TimeStepInv == TimeInv /\ [TimeNext]_timeVars => TimeInv'
<1> SUFFICES ASSUME TimeInv, [TimeNext]_timeVars PROVE TimeInv'
  OBVIOUS
<1>1. CASE Polls
  BY <1>1, PollsKeeps
<1>2. CASE FileLost
  BY <1>2, NoFileTyped DEF FileLost, TimeInv, TimeTyped, TimeCounted
<1>3. CASE TimeTick
  <2>1. /\ tNow < TimeMax /\ tNow' = tNow + 1 /\ tVisits' \subseteq tVisits \cup {tNow'}
        /\ tFile' = tFile /\ tFirst' = tFirst
    BY <1>3 DEF TimeTick
  <2>2. tNow \in Nat /\ tVisits \subseteq 0 .. tNow
    BY DEF TimeInv, TimeTyped
  <2>3. tNow' \in Nat \ {0} /\ tNow' <= TimeMax /\ tVisits' \subseteq 0 .. tNow' /\ tNow <= tNow'
    BY <2>1, <2>2, TimeAssumption
  <2>4. tFile \in TimeFiles /\ tFile.seen \in Nat
    BY TimeFields DEF TimeInv, TimeTyped
  <2>5. TimeTyped'
    BY <2>1, <2>3, <2>4 DEF TimeInv, TimeTyped
  <2>6. TimeCounted'
    BY <2>1, <2>2, <2>3, <2>4 DEF TimeInv, TimeTyped, TimeCounted
  <2> QED BY <2>5, <2>6 DEF TimeInv
<1>4. CASE UNCHANGED timeVars
  BY <1>4 DEF timeVars, TimeInv, TimeTyped, TimeCounted
<1> QED BY <1>1, <1>2, <1>3, <1>4 DEF TimeNext

LEMMA TimePromises == TimeInv => TimeTypeOK /\ CountedOnce
<1> SUFFICES ASSUME TimeInv PROVE TimeTypeOK /\ CountedOnce
  OBVIOUS
<1>1. /\ tFile \in TimeFiles /\ tFirst \in Nat /\ tNow \in Nat /\ (tNow <= TimeMax \/ tNow = 1)
      /\ TimeCounted
  BY DEF TimeInv, TimeTyped
<1>2. tFile.status \in {"none", "online", "offline"} /\ tFile.on \in Nat /\ tFile.off \in Nat /\ tFile.seen \in Nat
  BY <1>1, TimeFields
<1>3. CountedOnce
  BY <1>1 DEF CountedOnce, TimeCounted
<1>4. tFile.on <= TimeMax /\ tFile.off <= TimeMax
  <2>1. CASE tFile = NoFile
    BY <2>1, NoFileTyped, TimeAssumption
  <2>2. CASE tFile # NoFile
    <3>1. /\ tFirst # 0 /\ tFirst <= tFile.seen /\ tFile.seen <= tNow
          /\ tFile.on + tFile.off <= tFile.seen - tFirst
      BY <1>1, <2>2 DEF TimeCounted
    <3> QED BY <1>1, <1>2, <3>1, TimeAssumption
  <2> QED BY <2>1, <2>2
<1>5. TimeTypeOK
  BY <1>2, <1>4, TimeAssumption DEF TimeTypeOK
<1> QED BY <1>3, <1>5

---------------------------------------------------------------------------
(* The pacing of requests.                                                 *)

(* Every variable has its type.                                             *)
PaceTypes ==
    /\ pNow \in Nat \ {0} /\ pNow <= PaceMax
    /\ nextAt \in Nat /\ lastSent \in Nat /\ gap \in Nat
    /\ gate \in Requesters \cup {NoOne}
    /\ step \in [Requesters -> {"idle", "sleeping", "sent"}]
    /\ wake \in [Requesters -> Nat]

(* Every slot that can still be taken lies an interval after the last       *)
(* request: the published one, and the one a sleeper has already computed,  *)
(* which a later slot does not move since the sleeper holds the lock.       *)
Spaced ==
    /\ lastSent <= pNow
    /\ lastSent # 0 => lastSent + Interval <= nextAt
    /\ \A r \in Requesters : step[r] = "sleeping" =>
           /\ gate = r
           /\ lastSent # 0 => lastSent + Interval <= wake[r]

PaceInv == PaceTypes /\ Spaced /\ RequestsAreSpaced

(* The minimum and the maximum of two numbers.                              *)
LEMMA LeastOfTwo ==
    ASSUME NEW a \in Nat, NEW b \in Nat
    PROVE  LeastOf({a, b}) \in {a, b}
<1>1. \E x \in {a, b} : \A y \in {a, b} : x <= y
  <2>1. CASE a <= b  BY <2>1
  <2>2. CASE b <= a  BY <2>2
  <2>3. QED  BY <2>1, <2>2
<1>2. QED  BY <1>1 DEF LeastOf, Min

(* A requester sends when the slot has come and nobody sleeps but itself.   *)
LEMMA TakesSlotInv ==
    ASSUME PaceInv, NEW r \in Requesters, TakesSlot(r), pNow' = pNow,
           lastSent # 0 => lastSent + Interval <= pNow,
           \A q \in Requesters : step[q] = "sleeping" => q = r,
           wake' \in [Requesters -> Nat]
    PROVE  PaceInv'
<1>1. /\ nextAt' = pNow + Interval /\ gate' = NoOne /\ lastSent' = pNow
      /\ step' = [step EXCEPT ![r] = "sent"]
  BY DEF TakesSlot
<1>2. \A q \in Requesters : step'[q] # "sleeping"
  BY <1>1 DEF PaceInv, PaceTypes
<1>3. gap' \in Nat /\ gap' >= Interval
  <2>1. CASE lastSent = 0
    BY <2>1 DEF TakesSlot, PaceInv, PaceTypes, RequestsAreSpaced
  <2>2. CASE lastSent # 0
    <3>1. pNow - lastSent \in Nat /\ pNow - lastSent >= Interval
      BY <2>2, PaceAssumption DEF PaceInv, PaceTypes, Spaced
    <3>2. gap \in Nat /\ gap >= Interval
      BY DEF PaceInv, PaceTypes, RequestsAreSpaced
    <3>3. gap' = LeastOf({gap, pNow - lastSent})  BY <2>2 DEF TakesSlot
    <3>4. gap' \in {gap, pNow - lastSent}  BY <3>1, <3>2, <3>3, LeastOfTwo
    <3>5. QED  BY <3>1, <3>2, <3>4
  <2>3. QED  BY <2>1, <2>2
<1>4. PaceTypes'
  BY <1>1, <1>3, PaceAssumption DEF PaceInv, PaceTypes
<1>5. Spaced'
  BY <1>1, <1>2, PaceAssumption DEF PaceInv, PaceTypes, Spaced
<1>6. QED  BY <1>3, <1>4, <1>5 DEF PaceInv, RequestsAreSpaced

LEMMA EntersGateInv ==
    ASSUME PaceInv, NEW r \in Requesters, EntersGate(r)
    PROVE  PaceInv'
<1>1. \A q \in Requesters : step[q] # "sleeping"
  BY PaceAssumption DEF EntersGate, GateFree, PaceInv, Spaced
<1>2. CASE nextAt > pNow
  <2>1. /\ gate' = r /\ step' = [step EXCEPT ![r] = "sleeping"]
        /\ wake' = [wake EXCEPT ![r] = nextAt]
        /\ UNCHANGED <<pNow, nextAt, lastSent, gap>>
    BY <1>2 DEF EntersGate
  <2>2. \A q \in Requesters :
            step'[q] = "sleeping" => q = r /\ wake'[q] = nextAt
    BY <1>1, <2>1 DEF PaceInv, PaceTypes
  <2>3. PaceTypes'  BY <2>1 DEF PaceInv, PaceTypes
  <2>4. Spaced'  BY <2>1, <2>2 DEF PaceInv, Spaced
  <2>5. QED  BY <2>1, <2>3, <2>4 DEF PaceInv, RequestsAreSpaced
<1>3. CASE ~(nextAt > pNow)
  <2>1. TakesSlot(r) /\ UNCHANGED <<pNow, wake>>  BY <1>3 DEF EntersGate
  <2>2. lastSent # 0 => lastSent + Interval <= pNow
    BY <1>3, PaceAssumption DEF PaceInv, PaceTypes, Spaced
  <2>3. wake' \in [Requesters -> Nat]  BY <2>1 DEF PaceInv, PaceTypes
  <2>4. QED  BY <1>1, <2>1, <2>2, <2>3, TakesSlotInv
<1>4. QED  BY <1>2, <1>3

LEMMA WakesInv ==
    ASSUME PaceInv, NEW r \in Requesters, Wakes(r)
    PROVE  PaceInv'
<1>1. /\ step[r] = "sleeping" /\ pNow >= wake[r] /\ TakesSlot(r)
      /\ wake' = [wake EXCEPT ![r] = 0] /\ pNow' = pNow
  BY DEF Wakes
<1>2. lastSent # 0 => lastSent + Interval <= pNow
  BY <1>1, PaceAssumption DEF PaceInv, PaceTypes, Spaced
<1>3. \A q \in Requesters : step[q] = "sleeping" => q = r
  BY <1>1 DEF PaceInv, Spaced
<1>4. wake' \in [Requesters -> Nat]  BY <1>1 DEF PaceInv, PaceTypes
<1>5. QED  BY <1>1, <1>2, <1>3, <1>4, TakesSlotInv

(* An answer; a 429 moves the published slot on, never back.                *)
LEMMA AnswerInv ==
    ASSUME PaceInv, NEW r \in Requesters,
           Answered(r) \/ \E after \in RetryAfter : RateLimited(r, after)
    PROVE  PaceInv'
<1>1. /\ step' = [step EXCEPT ![r] = "idle"]
      /\ UNCHANGED <<pNow, gate, wake, lastSent, gap>>
  BY DEF Answered, RateLimited
<1>2. nextAt' \in Nat /\ nextAt <= nextAt'
  <2>1. CASE Answered(r)  BY <2>1 DEF Answered, PaceInv, PaceTypes
  <2>2. ASSUME NEW after \in RetryAfter, RateLimited(r, after)
        PROVE  nextAt' \in Nat /\ nextAt <= nextAt'
    <3>1. nextAt \in Nat /\ pNow + after \in Nat
      BY PaceAssumption DEF PaceInv, PaceTypes
    <3>2. nextAt' = Max({nextAt, pNow + after})  BY <2>2 DEF RateLimited
    <3>3. QED  BY <3>1, <3>2, MaxOfTwo
  <2>3. QED  BY <2>1, <2>2
<1>3. PaceTypes'  BY <1>1, <1>2 DEF PaceInv, PaceTypes
<1>4. \A q \in Requesters : step'[q] = "sleeping" => step[q] = "sleeping"
  BY <1>1 DEF PaceInv, PaceTypes
<1>5. Spaced'
  BY <1>1, <1>2, <1>4, PaceAssumption DEF PaceInv, PaceTypes, Spaced
<1>6. QED  BY <1>1, <1>3, <1>5 DEF PaceInv, RequestsAreSpaced

LEMMA PaceInitInv == PaceInit => PaceInv
BY PaceAssumption DEF PaceInit, PaceInv, PaceTypes, Spaced, RequestsAreSpaced

LEMMA PaceStepInv == PaceInv /\ [PaceNext]_paceVars => PaceInv'
<1> SUFFICES ASSUME PaceInv, [PaceNext]_paceVars PROVE PaceInv'
  OBVIOUS
<1>1. ASSUME NEW r \in Requesters, EntersGate(r) PROVE PaceInv'
  BY <1>1, EntersGateInv
<1>2. ASSUME NEW r \in Requesters, Wakes(r) PROVE PaceInv'
  BY <1>2, WakesInv
<1>3. ASSUME NEW r \in Requesters,
             Answered(r) \/ \E after \in RetryAfter : RateLimited(r, after)
      PROVE  PaceInv'
  BY <1>3, AnswerInv
<1>4. CASE PaceTick
  BY <1>4, PaceAssumption DEF PaceTick, PaceInv, PaceTypes, Spaced, RequestsAreSpaced
<1>5. CASE UNCHANGED paceVars
  BY <1>5 DEF paceVars, PaceInv, PaceTypes, Spaced, RequestsAreSpaced
<1> QED BY <1>1, <1>2, <1>3, <1>4, <1>5 DEF PaceNext

LEMMA PacePromises == PaceInv => PaceTypeOK /\ RequestsAreSpaced
BY PaceAssumption DEF PaceInv, PaceTypes, PaceTypeOK

---------------------------------------------------------------------------
(* The tracker of profiles.                                                *)

ScansOfProfiles == [at : {"idle", "next", "fetched", "sending"}, todo : SUBSET Profiles,
                    id : Profiles \cup {"none"}, saw : Looks, nth : Nat]

TrackTyped ==
    /\ visible \in [Profiles -> BOOLEAN] /\ hides \in [Profiles -> Nat]
    /\ tracked \subseteq Profiles /\ idsFile \subseteq Profiles
    /\ snaps \in [Profiles -> Looks] /\ snapsFile \in [Profiles -> Looks]
    /\ scanLock \in Scanners \cup {NoScan} /\ looping \in BOOLEAN
    /\ scanning \in [Scanners -> ScansOfProfiles] /\ adding \in ScansOfProfiles
    /\ announced \subseteq Profiles \X Nat

(* A scan has the lock; what it does next is none of what it has done.      *)
ScansLocked ==
    \A s \in Scanners :
        /\ IF scanning[s].at = "idle" THEN scanning[s].todo = {} ELSE scanLock = s
        /\ scanning[s].at \in {"fetched", "sending"} =>
             /\ scanning[s].id \in Profiles /\ scanning[s].id \notin scanning[s].todo
             /\ scanning[s].nth <= hides[scanning[s].id]

(* The number the next hiding to be seen of a profile has at least, and the *)
(* hidings that were announced or are being sent.                           *)
NextHiding(p) == IF visible[p] THEN hides[p] + 1 ELSE hides[p]
ToldBefore(p) ==
    /\ \A it \in announced : it[1] = p => it[2] < NextHiding(p)
    /\ \A s \in Scanners : scanning[s].at = "sending" /\ scanning[s].id = p => scanning[s].nth < NextHiding(p)

(* Who was seen visible has not been announced since.                       *)
VisibleSince ==
    /\ \A it \in announced : it[2] <= hides[it[1]]
    /\ \A p \in Profiles : snaps[p] = "visible" => ToldBefore(p)
    /\ \A s \in Scanners : scanning[s].at = "fetched" /\ scanning[s].saw = "visible" => ToldBefore(scanning[s].id)
    /\ adding.at = "fetched" => adding.id \in Profiles \ tracked /\ (adding.saw = "visible" => ToldBefore(adding.id))

Mentions(p) == \E it \in announced : it[1] = p
(* What a scan has still to announce, or may find, is not announced.        *)
NotYetTold ==
    \A s \in Scanners :
        /\ scanning[s].at = "sending" => <<scanning[s].id, scanning[s].nth>> \notin announced
        /\ scanning[s].at = "fetched" /\ scanning[s].saw = "hidden" /\ snaps[scanning[s].id] = "visible" =>
              <<scanning[s].id, scanning[s].nth>> \notin announced
        /\ scanning[s].at = "fetched" /\ scanning[s].id \notin tracked => ~Mentions(scanning[s].id)
        /\ \A p \in scanning[s].todo \ tracked : ~Mentions(p)

TrackInv == TrackTyped /\ ScansLocked /\ VisibleSince /\ NotYetTold /\ ~again

LEMMA RestTyped == Rest \in ScansOfProfiles /\ Rest.at = "idle" /\ Rest.todo = {}
BY DEF Rest, ScansOfProfiles, Looks

LEMMA LookTyped ==
    ASSUME TrackTyped, NEW p \in Profiles
    PROVE  /\ Look(p) \in {"visible", "hidden"} /\ (Look(p) = "visible" <=> visible[p])
           /\ NextHiding(p) = (IF Look(p) = "visible" THEN hides[p] + 1 ELSE hides[p])
           /\ hides[p] \in Nat /\ NextHiding(p) \in Nat
BY DEF TrackTyped, Look, NextHiding

(* Who has the lock is alone.                                               *)
LEMMA OneScans ==
    ASSUME TrackInv, NEW s \in Scanners, scanLock \in {s, NoScan}
    PROVE  \A r \in Scanners : r # s => scanning[r].at = "idle" /\ scanning[r].todo = {}
BY TrackAssumption DEF TrackInv, ScansLocked, NoScan

LEMMA TrackInitInv == TrackInit => TrackInv
<1> SUFFICES ASSUME TrackInit PROVE TrackInv
  OBVIOUS
<1>1. TrackTyped
  BY RestTyped DEF TrackInit, TrackTyped, Looks
<1>2. ScansLocked /\ VisibleSince /\ NotYetTold
  BY RestTyped DEF TrackInit, ScansLocked, VisibleSince, NotYetTold, ToldBefore, Mentions
<1>3. ~again
  BY Zenon DEF TrackInit
<1> QED BY <1>1, <1>2, <1>3 DEF TrackInv

(* A scan begins, goes on to the next profile, ends or is left.             *)
LEMMA ScanGoesOn ==
    ASSUME TrackInv, NEW s \in Scanners, NEW c \in ScansOfProfiles,
           scanLock \in {s, NoScan}, scanning' = [scanning EXCEPT ![s] = c],
           c.at \in {"idle", "next"}, c.todo \subseteq scanning[s].todo \cup tracked,
           IF c.at = "idle" THEN c.todo = {} ELSE scanLock' = s,
           UNCHANGED <<visible, hides, tracked, snaps, announced, adding, again>>,
           scanLock' \in Scanners \cup {NoScan}, looping' \in BOOLEAN,
           idsFile' \subseteq Profiles, snapsFile' \in [Profiles -> Looks]
    PROVE  TrackInv'
<1>1. \A r \in Scanners : scanning'[r] = IF r = s THEN c ELSE scanning[r]
  BY DEF TrackInv, TrackTyped
<1>2. \A r \in Scanners : r # s => scanning[r].at = "idle" /\ scanning[r].todo = {}
  BY OneScans
<1>3. TrackTyped'
  BY DEF TrackInv, TrackTyped
<1>4. ScansLocked'
  BY <1>1, <1>2 DEF ScansLocked
<1>5. VisibleSince'
  <2>1. \A p \in Profiles : ToldBefore(p) => ToldBefore(p)'
    BY <1>1, <1>2 DEF ToldBefore, NextHiding
  <2>2. \A r \in Scanners : scanning'[r].at \notin {"fetched", "sending"}
    BY <1>1, <1>2
  <2> QED BY <2>1, <2>2 DEF TrackInv, VisibleSince
<1>6. NotYetTold'
  <2>1. \A r \in Scanners : scanning'[r].at \notin {"fetched", "sending"}
    BY <1>1, <1>2
  <2>2. \A p \in Profiles : Mentions(p)' <=> Mentions(p)
    BY DEF Mentions
  <2>3. \A r \in Scanners : scanning'[r].todo \ tracked \subseteq scanning[r].todo \ tracked
    BY <1>1
  <2>4. \A r \in Scanners : scanning'[r].todo \subseteq Profiles
    BY <1>3 DEF TrackTyped, ScansOfProfiles
  <2> QED BY <2>1, <2>2, <2>3, <2>4 DEF TrackInv, NotYetTold
<1>7. ~again'
  <2>1. ~again
    BY Zenon DEF TrackInv
  <2> QED BY <2>1, Zenon
<1> QED BY <1>3, <1>4, <1>5, <1>6, <1>7 DEF TrackInv

LEMMA ScanStepsInv ==
    ASSUME TrackInv, NEW s \in Scanners,
           BeginsScan(s) \/ HasNoChannel(s) \/ SendRaises(s) \/ EndsScan(s)
    PROVE  TrackInv'
<1>0. /\ scanning \in [Scanners -> ScansOfProfiles] /\ looping \in BOOLEAN /\ tracked \subseteq Profiles
      /\ idsFile \subseteq Profiles /\ snapsFile \in [Profiles -> Looks] /\ snaps \in [Profiles -> Looks]
      /\ scanLock \in Scanners \cup {NoScan}
  BY DEF TrackInv, TrackTyped
<1>1. CASE BeginsScan(s)
  <2> DEFINE c == [Rest EXCEPT !.at = "next", !.todo = tracked]
  <2>1. /\ scanLock = NoScan /\ scanLock' = s /\ scanning' = [scanning EXCEPT ![s] = c]
        /\ UNCHANGED <<visible, hides, tracked, snaps, idsFile, snapsFile, looping, adding, announced, again>>
    BY <1>1 DEF BeginsScan
  <2>2. c \in ScansOfProfiles /\ c.at = "next" /\ c.todo = tracked
    BY <1>0 DEF Rest, ScansOfProfiles, Looks
  <2> HIDE DEF c
  <2> QED BY <1>0, <2>1, <2>2, ScanGoesOn
<1>2. CASE HasNoChannel(s)
  <2> DEFINE c == [scanning[s] EXCEPT !.at = "next"]
  <2>1. /\ scanning[s].at = "sending" /\ scanning' = [scanning EXCEPT ![s] = c]
        /\ UNCHANGED <<visible, hides, tracked, snaps, idsFile, snapsFile, scanLock, looping, adding, announced, again>>
    BY <1>2 DEF HasNoChannel
  <2>2. c \in ScansOfProfiles /\ c.at = "next" /\ c.todo = scanning[s].todo
    BY <1>0 DEF ScansOfProfiles
  <2> HIDE DEF c
  <2>3. scanLock = s
    BY <2>1 DEF TrackInv, ScansLocked
  <2> QED BY <1>0, <2>1, <2>2, <2>3, ScanGoesOn
<1>3. CASE SendRaises(s)
  <2>1. /\ scanning[s].at = "sending" /\ scanning' = [scanning EXCEPT ![s] = Rest] /\ scanLock' = NoScan
        /\ looping' = (looping /\ s # "loop")
        /\ UNCHANGED <<visible, hides, tracked, snaps, idsFile, snapsFile, adding, announced, again>>
    BY <1>3 DEF SendRaises, Raises
  <2>2. scanLock = s
    BY <2>1 DEF TrackInv, ScansLocked
  <2>3. looping' \in BOOLEAN
    BY <2>1
  <2> QED BY <1>0, <2>1, <2>2, <2>3, RestTyped, ScanGoesOn
<1>4. CASE EndsScan(s)
  <2>1. /\ scanning[s].at = "next" /\ scanning' = [scanning EXCEPT ![s] = Rest] /\ scanLock' = NoScan
        /\ idsFile' = tracked /\ snapsFile' = snaps
        /\ UNCHANGED <<visible, hides, tracked, snaps, looping, adding, announced, again>>
    BY <1>4 DEF EndsScan
  <2>2. scanLock = s
    BY <2>1 DEF TrackInv, ScansLocked
  <2> QED BY <1>0, <2>1, <2>2, RestTyped, ScanGoesOn
<1> QED BY <1>1, <1>2, <1>3, <1>4

(* A look at a profile that is visible is after all its hidings, one at a   *)
(* hidden profile is the last of them.                                      *)
LEMMA FetchesProfileInv ==
    ASSUME TrackInv, NEW s \in Scanners, NEW p \in Profiles, FetchesProfile(s, p)
    PROVE  TrackInv'
<1> DEFINE C(found) == [at |-> IF found THEN "fetched" ELSE "next", todo |-> scanning[s].todo \ {p},
                        id |-> p, saw |-> Look(p), nth |-> hides[p]]
<1>0. /\ scanning \in [Scanners -> ScansOfProfiles] /\ hides[p] \in Nat /\ Look(p) \in {"visible", "hidden"}
      /\ scanLock \in Scanners \cup {NoScan} /\ looping \in BOOLEAN
      /\ idsFile \subseteq Profiles /\ snapsFile \in [Profiles -> Looks]
  BY LookTyped DEF TrackInv, TrackTyped
<1>1. PICK found \in BOOLEAN : scanning' = [scanning EXCEPT ![s] = C(found)]
  BY DEF FetchesProfile
<1>2. /\ scanning[s].at = "next" /\ p \in scanning[s].todo
      /\ UNCHANGED <<visible, hides, tracked, snaps, idsFile, snapsFile, scanLock, looping, adding, announced, again>>
  BY DEF FetchesProfile
<1>3. scanLock = s
  BY <1>2 DEF TrackInv, ScansLocked
<1> DEFINE c == C(found)
<1>4. /\ c \in ScansOfProfiles /\ c.todo = scanning[s].todo \ {p} /\ c.id = p /\ c.saw = Look(p)
      /\ c.nth = hides[p] /\ c.at = (IF found THEN "fetched" ELSE "next")
  BY <1>0 DEF ScansOfProfiles, Looks
<1>5. scanning' = [scanning EXCEPT ![s] = c]
  BY <1>1
<1> HIDE DEF c
<1>6. CASE ~found
  BY <1>0, <1>2, <1>3, <1>4, <1>5, <1>6, ScanGoesOn
<1>7. CASE found
  <2>1. c.at = "fetched"
    BY <1>4, <1>7
  <2>2. \A r \in Scanners : scanning'[r] = IF r = s THEN c ELSE scanning[r]
    BY <1>0, <1>5
  <2>3. \A r \in Scanners : r # s => scanning[r].at = "idle" /\ scanning[r].todo = {}
    BY <1>3, OneScans
  <2>4. TrackTyped'
    BY <1>2, <1>4, <1>5 DEF TrackInv, TrackTyped
  <2>5. ScansLocked'
    BY <1>0, <1>2, <1>3, <1>4, <2>1, <2>2, <2>3 DEF ScansLocked
  <2>6. \A it \in announced : it \in Profiles \X Nat /\ it[2] <= hides[it[1]]
    BY DEF TrackInv, TrackTyped, VisibleSince
  <2>7. \A r \in Scanners : scanning'[r].at # "sending"
    BY <2>1, <2>2, <2>3
  <2>8. Look(p) = "visible" => ToldBefore(p)'
    <3>1. NextHiding(p)' = NextHiding(p)
      BY <1>2 DEF NextHiding
    <3>2. ASSUME Look(p) = "visible", NEW it \in announced, it[1] = p PROVE it[2] < NextHiding(p)
      <4>1. NextHiding(p) = hides[p] + 1
        BY <3>2, LookTyped DEF TrackInv
      <4>2. it[2] <= hides[p] /\ it[2] \in Nat
        BY <2>6, <3>2
      <4> QED BY <1>0, <4>1, <4>2
    <3> QED BY <1>2, <2>7, <3>1, <3>2 DEF ToldBefore
  <2>9. \A q \in Profiles : ToldBefore(q) => ToldBefore(q)'
    BY <1>2, <2>7 DEF ToldBefore, NextHiding
  <2>10. VisibleSince'
    BY <1>2, <1>4, <2>2, <2>3, <2>6, <2>8, <2>9 DEF TrackInv, VisibleSince
  <2>11. Look(p) = "hidden" /\ snaps[p] = "visible" => <<p, hides[p]>> \notin announced
    <3> SUFFICES ASSUME Look(p) = "hidden", snaps[p] = "visible", <<p, hides[p]>> \in announced PROVE FALSE
      OBVIOUS
    <3>1. ToldBefore(p)
      BY DEF TrackInv, VisibleSince
    <3>2. hides[p] < NextHiding(p)
      BY <3>1 DEF ToldBefore
    <3> QED BY <1>0, <3>2, LookTyped DEF TrackInv
  <2>12. \A q : Mentions(q)' <=> Mentions(q)
    BY <1>2 DEF Mentions
  <2>13. p \notin tracked => ~Mentions(p)
    BY <1>2 DEF TrackInv, NotYetTold
  <2>14. NotYetTold'
    BY <1>2, <1>4, <2>1, <2>2, <2>3, <2>11, <2>12, <2>13 DEF TrackInv, NotYetTold
  <2>15. ~again'
    <3>1. ~again
      BY Zenon DEF TrackInv
    <3> QED BY <1>2, <3>1, Zenon
  <2> QED BY <2>4, <2>5, <2>10, <2>14, <2>15 DEF TrackInv
<1> QED BY <1>6, <1>7

LEMMA AgainStays == ASSUME TrackInv, again' = again PROVE ~again'
<1>1. ~again
  BY Zenon DEF TrackInv
<1> QED BY <1>1, Zenon

(* The scan notes what it saw; a newly hidden profile is to be announced.   *)
LEMMA ComparesInv ==
    ASSUME TrackInv, NEW s \in Scanners, Compares(s)
    PROVE  TrackInv'
<1> DEFINE p == scanning[s].id
           new == scanning[s].saw
           n == scanning[s].nth
<1>1. /\ scanning[s].at = "fetched" /\ snaps' = [snaps EXCEPT ![p] = new]
      /\ UNCHANGED <<visible, hides, tracked, idsFile, snapsFile, adding, announced, again>>
  BY DEF Compares, Advances
<1>2. /\ scanning \in [Scanners -> ScansOfProfiles] /\ p \in Profiles /\ p \notin scanning[s].todo /\ n <= hides[p]
      /\ scanLock = s /\ new \in Looks /\ n \in Nat /\ snaps \in [Profiles -> Looks]
  BY <1>1 DEF TrackInv, TrackTyped, ScansLocked, ScansOfProfiles
<1>3. \A r \in Scanners : r # s => scanning[r].at = "idle" /\ scanning[r].todo = {}
  BY <1>2, OneScans
<1>4. PICK c \in ScansOfProfiles :
        /\ scanning' = [scanning EXCEPT ![s] = c] /\ c.todo \subseteq scanning[s].todo
        /\ IF c.at = "idle" THEN c.todo = {} ELSE scanLock' = s
        /\ c.at \in {"idle", "next", "sending"} /\ scanLock' \in Scanners \cup {NoScan} /\ looping' \in BOOLEAN
        /\ c.at = "sending" => c.id = p /\ c.nth = n /\ p \in tracked /\ snaps[p] = "visible" /\ new = "hidden"
  <2>1. CASE p \notin tracked
    <3>1. scanning' = [scanning EXCEPT ![s] = Rest] /\ scanLock' = NoScan /\ looping' = (looping /\ s # "loop")
      BY <2>1 DEF Compares, Raises
    <3>2. looping' \in BOOLEAN
      BY <3>1
    <3> QED BY <3>1, <3>2, RestTyped
  <2>2. CASE p \in tracked
    <3> DEFINE at == IF NewlyHidden(snaps[p], new) THEN "sending" ELSE "next"
               d == [scanning[s] EXCEPT !.at = at]
    <3>1. scanning' = [scanning EXCEPT ![s] = d]
      BY <1>2, <2>2 DEF Compares
    <3>2. UNCHANGED <<scanLock, looping>>
      BY <2>2 DEF Compares
    <3>3. scanLock' \in Scanners \cup {NoScan} /\ looping' \in BOOLEAN
      BY <3>2 DEF TrackInv, TrackTyped
    <3>4. at \in {"next", "sending"} /\ (at = "sending" => snaps[p] = "visible" /\ new = "hidden")
      BY DEF NewlyHidden
    <3> HIDE DEF at
    <3>5. d \in ScansOfProfiles /\ d.at = at /\ d.todo = scanning[s].todo /\ d.id = p /\ d.nth = n
      BY <1>2, <3>4 DEF ScansOfProfiles
    <3> HIDE DEF d
    <3> QED BY <1>2, <2>2, <3>1, <3>2, <3>3, <3>4, <3>5
  <2> QED BY <2>1, <2>2
<1> HIDE DEF p, new, n
<1>5. \A r \in Scanners : scanning'[r] = IF r = s THEN c ELSE scanning[r]
  BY <1>2, <1>4
<1>6. TrackTyped'
  BY <1>1, <1>2, <1>4 DEF TrackInv, TrackTyped
<1>7. ScansLocked'
  BY <1>1, <1>2, <1>3, <1>4, <1>5 DEF ScansLocked
<1>8. \A q \in Profiles : (c.at # "sending" \/ q # p) /\ ToldBefore(q) => ToldBefore(q)'
  BY <1>1, <1>3, <1>4, <1>5 DEF ToldBefore, NextHiding
<1>9. VisibleSince'
  <2>1. \A q \in Profiles : snaps'[q] = "visible" => ToldBefore(q)'
    <3> SUFFICES ASSUME NEW q \in Profiles, snaps'[q] = "visible" PROVE ToldBefore(q)'
      OBVIOUS
    <3>1. CASE q = p
      <4>1. new = "visible"
        BY <1>1, <1>2, <3>1
      <4>2. ToldBefore(p)
        BY <1>1, <4>1 DEF TrackInv, VisibleSince, p, new
      <4> QED BY <1>4, <1>8, <3>1, <4>1, <4>2
    <3>2. CASE q # p
      <4>1. ToldBefore(q)
        BY <1>1, <1>2, <3>2 DEF TrackInv, VisibleSince
      <4> QED BY <1>8, <3>2, <4>1
    <3> QED BY <3>1, <3>2
  <2>2. adding.at = "fetched" => adding.id \in Profiles \ tracked /\ (adding.saw = "visible" => ToldBefore(adding.id)')
    BY <1>1, <1>4, <1>8 DEF TrackInv, VisibleSince
  <2>3. \A r \in Scanners : scanning'[r].at # "fetched"
    BY <1>3, <1>4, <1>5
  <2> QED BY <1>1, <2>1, <2>2, <2>3 DEF TrackInv, VisibleSince
<1>10. NotYetTold'
  <2>1. c.at = "sending" => <<c.id, c.nth>> \notin announced
    BY <1>1, <1>4 DEF TrackInv, NotYetTold, p, n, new
  <2>2. \A q : Mentions(q)' <=> Mentions(q)
    BY <1>1 DEF Mentions
  <2>3. \A r \in Scanners : scanning'[r].todo \subseteq scanning[r].todo
    BY <1>4, <1>5
  <2>4. \A r \in Scanners : scanning'[r].at # "fetched"
                              /\ (scanning'[r].at = "sending" => scanning'[r] = c)
    BY <1>3, <1>4, <1>5
  <2>5. \A r \in Scanners : \A q \in scanning'[r].todo \ tracked' : ~Mentions(q)'
    BY <1>1, <2>2, <2>3 DEF TrackInv, NotYetTold
  <2> QED BY <1>1, <2>1, <2>4, <2>5 DEF NotYetTold
<1> QED BY <1>1, <1>6, <1>7, <1>9, <1>10, AgainStays DEF TrackInv

LEMMA AnnouncesInv ==
    ASSUME TrackInv, NEW s \in Scanners, Announces(s)
    PROVE  TrackInv'
<1> DEFINE p == scanning[s].id
           n == scanning[s].nth
           it == <<p, n>>
           c == [scanning[s] EXCEPT !.at = "next"]
<1>1. /\ scanning[s].at = "sending" /\ again' = (again \/ it \in announced) /\ announced' = announced \cup {it}
      /\ scanning' = [scanning EXCEPT ![s] = c]
      /\ UNCHANGED <<visible, hides, tracked, snaps, idsFile, snapsFile, scanLock, looping, adding>>
  BY DEF Announces
<1>2. /\ scanning \in [Scanners -> ScansOfProfiles] /\ p \in Profiles /\ p \notin scanning[s].todo /\ n <= hides[p]
      /\ scanLock = s /\ n \in Nat
  BY <1>1 DEF TrackInv, TrackTyped, ScansLocked, ScansOfProfiles
<1>3. \A r \in Scanners : r # s => scanning[r].at = "idle" /\ scanning[r].todo = {}
  BY <1>2, OneScans
<1>4. c \in ScansOfProfiles /\ c.at = "next" /\ c.todo = scanning[s].todo
  BY <1>2 DEF ScansOfProfiles
<1>5. it \notin announced
  BY <1>1 DEF TrackInv, NotYetTold
<1>6. ~again'
  <2>1. ~again
    BY Zenon DEF TrackInv
  <2> QED BY <1>1, <1>5, <2>1, Zenon
<1>7. it \in Profiles \X Nat /\ it[1] = p /\ it[2] = n
  BY <1>2
<1> HIDE DEF c, it
<1>8. \A r \in Scanners : scanning'[r] = IF r = s THEN c ELSE scanning[r]
  BY <1>1, <1>2
<1>9. TrackTyped'
  BY <1>1, <1>4, <1>7 DEF TrackInv, TrackTyped
<1>10. ScansLocked'
  BY <1>1, <1>2, <1>3, <1>4, <1>8 DEF ScansLocked
<1>11. \A q \in Profiles : ToldBefore(q) => ToldBefore(q)'
  <2>1. \A q \in Profiles : ToldBefore(q) /\ q = p => n < NextHiding(q)
    BY <1>1 DEF ToldBefore
  <2>2. \A q \in Profiles : NextHiding(q)' = NextHiding(q)
    BY <1>1 DEF NextHiding
  <2>3. \A r \in Scanners : scanning'[r].at # "sending"
    BY <1>3, <1>4, <1>8
  <2> QED BY <1>1, <1>7, <2>1, <2>2, <2>3 DEF ToldBefore
<1>12. VisibleSince'
  <2>1. \A r \in Scanners : scanning'[r].at # "fetched"
    BY <1>3, <1>4, <1>8
  <2> QED BY <1>1, <1>2, <1>7, <1>11, <2>1 DEF TrackInv, VisibleSince
<1>13. NotYetTold'
  <2>1. \A r \in Scanners : scanning'[r].at \in {"idle", "next"}
    BY <1>3, <1>4, <1>8
  <2>2. \A q : q # p /\ ~Mentions(q) => ~Mentions(q)'
    BY <1>1, <1>7 DEF Mentions
  <2>3. \A r \in Scanners : scanning'[r].todo \subseteq scanning[r].todo /\ p \notin scanning'[r].todo
    BY <1>2, <1>3, <1>4, <1>8
  <2> QED BY <1>1, <2>1, <2>2, <2>3 DEF TrackInv, NotYetTold
<1> QED BY <1>6, <1>9, <1>10, <1>12, <1>13 DEF TrackInv

(* The commands.  A profile is added from a look taken while it was not     *)
(* tracked: what a scan still holds of it has not been announced.           *)
LEMMA AddFetchesInv ==
    ASSUME TrackInv, NEW p \in Profiles, AddFetches(p)
    PROVE  TrackInv'
<1>1. /\ p \notin tracked /\ adding' = [Rest EXCEPT !.at = "fetched", !.id = p, !.saw = Look(p)]
      /\ UNCHANGED <<visible, hides, tracked, snaps, idsFile, snapsFile, scanLock, scanning, looping, announced, again>>
  BY DEF AddFetches
<1>2. Look(p) \in Looks
  BY DEF Look, Looks
<1>3. adding'.at = "fetched" /\ adding'.id = p /\ adding'.saw = Look(p) /\ adding' \in ScansOfProfiles
  BY <1>1, <1>2 DEF Rest, ScansOfProfiles
<1>4. TrackTyped' /\ ScansLocked'
  BY <1>1, <1>3 DEF TrackInv, TrackTyped, ScansLocked
<1>5. \A q \in Profiles : ToldBefore(q)' <=> ToldBefore(q)
  BY <1>1 DEF ToldBefore, NextHiding
<1>6. Look(p) = "visible" => ToldBefore(p)
  <2> SUFFICES ASSUME Look(p) = "visible" PROVE ToldBefore(p)
    OBVIOUS
  <2>1. NextHiding(p) = hides[p] + 1 /\ hides[p] \in Nat
    BY LookTyped DEF TrackInv
  <2>2. \A it \in announced : it[2] \in Nat /\ it[2] <= hides[it[1]]
    BY DEF TrackInv, TrackTyped, VisibleSince
  <2>3. \A r \in Scanners : scanning[r].at = "sending" => scanning[r].nth \in Nat /\ scanning[r].nth <= hides[scanning[r].id]
    BY DEF TrackInv, TrackTyped, ScansLocked, ScansOfProfiles
  <2> QED BY <2>1, <2>2, <2>3 DEF ToldBefore
<1>7. VisibleSince'
  <2>1. \A r \in Scanners : scanning[r].at = "fetched" => scanning[r].id \in Profiles
    BY DEF TrackInv, ScansLocked
  <2> QED BY <1>1, <1>3, <1>5, <1>6, <2>1 DEF TrackInv, VisibleSince
<1>8. NotYetTold'
  BY <1>1 DEF TrackInv, NotYetTold, Mentions
<1> QED BY <1>1, <1>4, <1>7, <1>8, AgainStays DEF TrackInv

LEMMA AddEndsInv ==
    ASSUME TrackInv, AddEnds
    PROVE  TrackInv'
<1> DEFINE p == adding.id
<1>1. /\ adding.at = "fetched" /\ adding' = Rest
      /\ UNCHANGED <<visible, hides, scanLock, scanning, looping, announced, again>>
  BY DEF AddEnds
<1>2. /\ p \in Profiles /\ p \notin tracked /\ adding.saw \in Looks /\ snaps \in [Profiles -> Looks]
      /\ tracked \subseteq Profiles
      /\ \A r \in Scanners : scanning[r].at = "fetched" => scanning[r].id \in Profiles
  BY <1>1 DEF TrackInv, TrackTyped, VisibleSince, ScansOfProfiles, ScansLocked
<1>3. \/ /\ tracked' = tracked \cup {p} /\ snaps' = [snaps EXCEPT ![p] = adding.saw]
         /\ idsFile' = tracked' /\ snapsFile' = snaps'
      \/ UNCHANGED <<tracked, snaps, idsFile, snapsFile>>
  BY DEF AddEnds
<1>4. TrackTyped' /\ ScansLocked'
  BY <1>1, <1>2, <1>3, RestTyped DEF TrackInv, TrackTyped, ScansLocked
<1>5. \A q \in Profiles : ToldBefore(q)' <=> ToldBefore(q)
  BY <1>1 DEF ToldBefore, NextHiding
<1>6. \A q \in Profiles : snaps'[q] = snaps[q] \/ (q = p /\ snaps'[q] = adding.saw)
  BY <1>2, <1>3
<1>7. VisibleSince'
  BY <1>1, <1>2, <1>5, <1>6, RestTyped DEF TrackInv, VisibleSince
<1>8. NotYetTold'
  <2>1. \A q : Mentions(q)' <=> Mentions(q)
    BY <1>1 DEF Mentions
  <2>2. tracked \subseteq tracked'
    BY <1>3
  <2>3. \A r \in Scanners : scanning[r].at = "fetched" /\ scanning[r].id = p => <<p, scanning[r].nth>> \notin announced
    <3> SUFFICES ASSUME NEW r \in Scanners, scanning[r].at = "fetched", scanning[r].id = p,
                        <<p, scanning[r].nth>> \in announced PROVE FALSE
      OBVIOUS
    <3>1. ~Mentions(p)
      BY <1>2 DEF TrackInv, NotYetTold
    <3> QED BY <3>1 DEF Mentions
  <2> QED BY <1>1, <1>2, <1>6, <2>1, <2>2, <2>3 DEF TrackInv, NotYetTold
<1> QED BY <1>1, <1>4, <1>7, <1>8, AgainStays DEF TrackInv

LEMMA RemovesInv ==
    ASSUME TrackInv, NEW p \in Profiles, Removes(p)
    PROVE  TrackInv'
<1>1. /\ tracked' = tracked \ {p} /\ snaps' = [snaps EXCEPT ![p] = "none"]
      /\ idsFile' = tracked' /\ snapsFile' = snaps'
      /\ announced' = {it \in announced : it[1] # p}
      /\ UNCHANGED <<visible, hides, scanLock, scanning, looping, adding, again>>
  BY DEF Removes
<1>2. TrackTyped' /\ ScansLocked'
  BY <1>1 DEF TrackInv, TrackTyped, ScansLocked, Looks
<1>3. \A q \in Profiles : ToldBefore(q) => ToldBefore(q)'
  BY <1>1 DEF ToldBefore, NextHiding
<1>4. \A q \in Profiles : snaps'[q] = "visible" => snaps[q] = "visible"
  BY <1>1 DEF TrackInv, TrackTyped
<1>5. \A r \in Scanners : scanning[r].at = "fetched" => scanning[r].id \in Profiles
  BY DEF TrackInv, ScansLocked
<1>6. VisibleSince'
  BY <1>1, <1>3, <1>4, <1>5 DEF TrackInv, VisibleSince
<1>7. \A q : (q = p \/ ~Mentions(q)) => ~Mentions(q)'
  BY <1>1 DEF Mentions
<1>8. NotYetTold'
  BY <1>1, <1>4, <1>5, <1>7 DEF TrackInv, NotYetTold
<1> QED BY <1>1, <1>2, <1>6, <1>8, AgainStays DEF TrackInv

LEMMA UserTurnsInv ==
    ASSUME TrackInv, NEW p \in Profiles, UserHides(p) \/ UserShows(p)
    PROVE  TrackInv'
<1>1. UNCHANGED <<tracked, snaps, idsFile, snapsFile, scanLock, scanning, looping, adding, announced, again>>
  BY DEF UserHides, UserShows
<1>2. visible \in [Profiles -> BOOLEAN] /\ hides \in [Profiles -> Nat]
  BY DEF TrackInv, TrackTyped
<1>3. \A q \in Profiles : hides[q] \in Nat /\ hides'[q] \in Nat /\ hides[q] <= hides'[q]
                          /\ NextHiding(q) <= NextHiding(q)'
  <2>1. CASE UserHides(p)
    <3>1. visible[p] /\ visible' = [visible EXCEPT ![p] = FALSE] /\ hides' = [hides EXCEPT ![p] = @ + 1]
      BY <2>1 DEF UserHides
    <3> QED BY <1>2, <3>1 DEF NextHiding
  <2>2. CASE UserShows(p)
    <3>1. visible' = [visible EXCEPT ![p] = TRUE] /\ hides' = hides
      BY <2>2 DEF UserShows
    <3> QED BY <1>2, <3>1 DEF NextHiding
  <2> QED BY <2>1, <2>2
<1>4. visible' \in [Profiles -> BOOLEAN] /\ hides' \in [Profiles -> Nat]
  <2>1. CASE UserHides(p)
    BY <1>2, <2>1 DEF UserHides
  <2>2. CASE UserShows(p)
    BY <1>2, <2>2 DEF UserShows
  <2> QED BY <2>1, <2>2
<1>5. TrackTyped'
  BY <1>1, <1>4 DEF TrackInv, TrackTyped
<1>6. \A r \in Scanners : scanning[r].nth \in Nat
                          /\ (scanning[r].at \in {"fetched", "sending"} => scanning[r].id \in Profiles)
  BY DEF TrackInv, TrackTyped, ScansLocked, ScansOfProfiles
<1>7. ScansLocked'
  BY <1>1, <1>3, <1>6 DEF TrackInv, ScansLocked
<1>8. \A it \in announced : it[1] \in Profiles /\ it[2] \in Nat
  BY DEF TrackInv, TrackTyped
<1>9. \A q \in Profiles : NextHiding(q) \in Nat /\ NextHiding(q)' \in Nat
  BY <1>2, <1>4 DEF NextHiding
<1>10. \A q \in Profiles : ToldBefore(q) => ToldBefore(q)'
  <2> SUFFICES ASSUME NEW q \in Profiles, ToldBefore(q) PROVE ToldBefore(q)'
    OBVIOUS
  <2>1. \A it \in announced : it[1] = q => it[2] < NextHiding(q)'
    BY <1>3, <1>8, <1>9 DEF ToldBefore
  <2>2. \A r \in Scanners : scanning[r].at = "sending" /\ scanning[r].id = q => scanning[r].nth < NextHiding(q)'
    BY <1>3, <1>6, <1>9 DEF ToldBefore
  <2> QED BY <1>1, <2>1, <2>2 DEF ToldBefore
<1>11. VisibleSince'
  BY <1>1, <1>3, <1>6, <1>8, <1>10 DEF TrackInv, VisibleSince
<1>12. NotYetTold'
  BY <1>1 DEF TrackInv, NotYetTold, Mentions
<1> QED BY <1>1, <1>5, <1>7, <1>11, <1>12, AgainStays DEF TrackInv

LEMMA TrackerRestartsInv ==
    ASSUME TrackInv, TrackerRestarts
    PROVE  TrackInv'
<1>1. /\ tracked' = idsFile /\ snaps' = snapsFile /\ scanLock' = NoScan /\ looping' = TRUE /\ adding' = Rest
      /\ scanning' = [s \in Scanners |-> Rest] /\ announced' = {}
      /\ UNCHANGED <<visible, hides, idsFile, snapsFile, again>>
  BY DEF TrackerRestarts
<1>2. TrackTyped'
  BY <1>1, RestTyped DEF TrackInv, TrackTyped
<1>3. ScansLocked' /\ VisibleSince' /\ NotYetTold'
  BY <1>1, RestTyped DEF ScansLocked, VisibleSince, NotYetTold, ToldBefore, Mentions
<1> QED BY <1>1, <1>2, <1>3, AgainStays DEF TrackInv

LEMMA TrackStepInv == TrackInv /\ [TrackNext]_trackVars => TrackInv'
<1> SUFFICES ASSUME TrackInv, [TrackNext]_trackVars PROVE TrackInv'
  OBVIOUS
<1>1. CASE UNCHANGED trackVars
  BY <1>1, AgainStays DEF trackVars, TrackInv, TrackTyped, ScansLocked, VisibleSince, ToldBefore, NextHiding, NotYetTold, Mentions
<1>2. CASE TrackNext
  BY <1>2, ScanStepsInv, FetchesProfileInv, ComparesInv, AnnouncesInv, AddFetchesInv, AddEndsInv, RemovesInv,
     UserTurnsInv, TrackerRestartsInv DEF TrackNext
<1> QED BY <1>1, <1>2

LEMMA TrackPromises == TrackInv => TrackTypeOK /\ HidingAnnouncedOnce
<1>1. TrackInv => TrackTypeOK
  BY DEF TrackInv, TrackTyped, TrackTypeOK
<1>2. TrackInv => HidingAnnouncedOnce
  BY Zenon DEF TrackInv, HidingAnnouncedOnce
<1> QED BY <1>1, <1>2

---------------------------------------------------------------------------
(* Records of pay.                                                         *)

PayTotals == [paid : Int, denied : Int, amount : Int]
PayEntries == [id : Ids, day : 1 .. PayDays, time : PayTimes, claiming : Nat, paid : Nat, amount : Nat]
PayBooks == [records : Seq(PayEntries), daily : [1 .. PayDays -> PayTotals], weekly : PayTotals]
Summed == {"paid", "amount"}

RecTyped ==
    /\ startMonth \in 1 .. 2 /\ today \in 1 .. PayDays
    /\ void.count \in 0 .. 2
    /\ payData \in PayBooks /\ payFiles \in [1 .. 2 -> PayBooks]
    /\ clerk \in [Clerks -> PayEntries \cup {NoRecord}]

(* The totals of a book are those of its records.                           *)
Agrees(book) ==
    \A field \in Summed :
        /\ \A d \in 1 .. PayDays : book.daily[d][field] = SumOf(book.records, OfDay(book.records, d), field)
        /\ book.weekly[field] = SumOf(book.records, DOMAIN book.records, field)

(* No record is in memory only: a refused edit changes none but the claims. *)
RecInv ==
    /\ RecTyped
    /\ Agrees(payData) /\ Agrees(payFiles[1]) /\ Agrees(payFiles[2])
    /\ Len(payData.records) = Len(payFiles[startMonth].records)

(* What one index adds to a sum.                                            *)
LEMMA SumWithout ==
    ASSUME NEW records, NEW I, IsFiniteSet(I), NEW field,
           \A i \in I : records[i][field] \in Nat, NEW n \in I
    PROVE  /\ SumOf(records, I, field) = SumOf(records, I \ {n}, field) + records[n][field]
           /\ SumOf(records, I \ {n}, field) \in Nat
<1> DEFINE units(i) == {i} \X (1 .. records[i][field])
           all(J) == UNION {units(i) : i \in J}
<1>1. ASSUME NEW i \in I PROVE IsFiniteSet(units(i)) /\ Cardinality(units(i)) = records[i][field]
  <2>1. IsFiniteSet({i}) /\ Cardinality({i}) = 1
    BY FS_Singleton
  <2>2. IsFiniteSet(1 .. records[i][field]) /\ Cardinality(1 .. records[i][field]) = records[i][field]
    <3>1. ASSUME NEW k \in Nat PROVE IsFiniteSet(1 .. k) /\ Cardinality(1 .. k) = k
      BY FS_Interval
    <3> QED BY <3>1
  <2>3. IsFiniteSet(units(i)) /\ Cardinality(units(i)) = Cardinality({i}) * Cardinality(1 .. records[i][field])
    BY <2>1, <2>2, FS_Product
  <2>4. \A k \in Nat : 1 * k = k
    OBVIOUS
  <2>5. records[i][field] \in Nat
    OBVIOUS
  <2> HIDE DEF units
  <2>6. Cardinality(units(i)) = 1 * records[i][field]
    BY <2>1, <2>2, <2>3, Zenon
  <2> QED BY <2>3, <2>4, <2>5, <2>6, Zenon
<1>2. IsFiniteSet(I \ {n}) /\ I \ {n} \subseteq I
  BY FS_Difference
<1>3. IsFiniteSet(all(I \ {n}))
  <2> DEFINE J == I \ {n}
             f == [i \in J |-> units(i)]
             T == {units(i) : i \in J}
  <2>1. f \in Surjection(J, T)
    <3> HIDE DEF units
    <3> QED BY DEF Surjection
  <2>2. IsFiniteSet(T)
    BY <1>2, <2>1, FS_Surjection
  <2> QED BY <1>1, <2>2, FS_UNION
<1>4. all(I) = all(I \ {n}) \cup units(n)
  <2> HIDE DEF units
  <2> QED OBVIOUS
<1>5. all(I \ {n}) \cap units(n) = {}
  OBVIOUS
<1>6. Cardinality(all(I \ {n}) \cap units(n)) = 0
  BY <1>5, FS_EmptySet
<1>7. Cardinality(all(I \ {n})) \in Nat
  BY <1>3, FS_CardinalityType
<1>8. SumOf(records, I, field) = Cardinality(all(I)) /\ SumOf(records, I \ {n}, field) = Cardinality(all(I \ {n}))
  BY DEF SumOf
<1>9. Cardinality(all(I)) = Cardinality(all(I \ {n})) + Cardinality(units(n)) - Cardinality(all(I \ {n}) \cap units(n))
  BY <1>1, <1>3, <1>4, FS_Union
<1>10. Cardinality(units(n)) = records[n][field] /\ records[n][field] \in Nat
  BY <1>1
<1> HIDE DEF all, units
<1> QED BY <1>6, <1>7, <1>8, <1>9, <1>10

(* A sum is of the values only.                                             *)
LEMMA SumSame ==
    ASSUME NEW r, NEW s, NEW I, NEW field, \A i \in I : r[i][field] = s[i][field]
    PROVE  SumOf(r, I, field) = SumOf(s, I, field)
<1>1. {{i} \X (1 .. r[i][field]) : i \in I} = {{i} \X (1 .. s[i][field]) : i \in I}
  OBVIOUS
<1> QED BY <1>1 DEF SumOf

LEMMA SummedIsNat ==
    ASSUME NEW e \in PayEntries, NEW field \in Summed
    PROVE  e[field] \in Nat
<1>1. e.paid \in Nat /\ e.amount \in Nat
  BY DEF PayEntries
<1> QED BY <1>1 DEF Summed

(* A record is appended: its index is a new one.                            *)
LEMMA SumAppended ==
    ASSUME NEW r \in Seq(PayEntries), NEW new \in PayEntries, NEW I \in SUBSET DOMAIN r, NEW field \in Summed
    PROVE  /\ SumOf(Append(r, new), I \cup {Len(r) + 1}, field) = SumOf(r, I, field) + new[field]
           /\ SumOf(Append(r, new), I, field) = SumOf(r, I, field)
<1> DEFINE s == Append(r, new)
           n == Len(r) + 1
<1>1. Len(r) \in Nat /\ DOMAIN r = 1 .. Len(r) /\ DOMAIN s = 1 .. n /\ s \in Seq(PayEntries)
      /\ s[n] = new /\ \A i \in 1 .. Len(r) : s[i] = r[i]
  OBVIOUS
<1> HIDE DEF s
<1>2. IsFiniteSet(I \cup {n}) /\ (I \cup {n}) \ {n} = I
  <2>1. IsFiniteSet(1 .. Len(r))
    BY <1>1, FS_Interval
  <2>2. IsFiniteSet(I)
    BY <1>1, <2>1, FS_Subset
  <2> QED BY <1>1, <2>2, FS_AddElement
<1>3. \A i \in I \cup {n} : s[i][field] \in Nat
  BY <1>1, SummedIsNat
<1>4. SumOf(s, I \cup {n}, field) = SumOf(s, I, field) + s[n][field]
  BY <1>2, <1>3, SumWithout
<1>5. SumOf(s, I, field) = SumOf(r, I, field)
  BY <1>1, SumSame
<1> QED BY <1>1, <1>4, <1>5 DEF s

(* A record is replaced: the sums it counts in change by the difference.    *)
LEMMA SumReplaced ==
    ASSUME NEW r \in Seq(PayEntries), NEW s \in Seq(PayEntries), NEW n \in DOMAIN r, DOMAIN s = DOMAIN r,
           \A i \in DOMAIN r \ {n} : s[i] = r[i],
           NEW I \in SUBSET DOMAIN r, NEW field \in Summed
    PROVE  /\ n \notin I => SumOf(s, I, field) = SumOf(r, I, field)
           /\ n \in I => SumOf(s, I, field) = SumOf(r, I, field) + s[n][field] - r[n][field]
<1>1. CASE n \notin I
  <2>1. SumOf(s, I, field) = SumOf(r, I, field)
    BY <1>1, SumSame
  <2> QED BY <1>1, <2>1
<1>2. CASE n \in I
  <2>1. DOMAIN r = 1 .. Len(r) /\ Len(r) \in Nat /\ \A i \in DOMAIN r : r[i] \in PayEntries /\ s[i] \in PayEntries
    OBVIOUS
  <2>2. IsFiniteSet(I)
    <3>1. IsFiniteSet(1 .. Len(r))
      BY <2>1, FS_Interval
    <3> QED BY <2>1, <3>1, FS_Subset
  <2>3. \A i \in I : r[i][field] \in Nat /\ s[i][field] \in Nat
    BY <2>1, SummedIsNat
  <2>4. SumOf(s, I \ {n}, field) = SumOf(r, I \ {n}, field)
    <3>1. \A i \in I \ {n} : s[i][field] = r[i][field]
      OBVIOUS
    <3> QED BY <3>1, SumSame
  <2>5. /\ SumOf(s, I, field) = SumOf(s, I \ {n}, field) + s[n][field]
        /\ SumOf(r, I, field) = SumOf(r, I \ {n}, field) + r[n][field]
        /\ SumOf(r, I \ {n}, field) \in Nat
    <3>1. /\ SumOf(r, I, field) = SumOf(r, I \ {n}, field) + r[n][field]
          /\ SumOf(r, I \ {n}, field) \in Nat
      <4>1. \A i \in I : r[i][field] \in Nat
        BY <2>3
      <4> QED BY <1>2, <2>2, <4>1, SumWithout
    <3>2. SumOf(s, I, field) = SumOf(s, I \ {n}, field) + s[n][field]
      <4>1. \A i \in I : s[i][field] \in Nat
        BY <2>3
      <4> QED BY <1>2, <2>2, <4>1, SumWithout
    <3> QED BY <3>1, <3>2
  <2>6. r[n][field] \in Nat /\ s[n][field] \in Nat
    BY <1>2, <2>3
  <2>7. \A a, x, y \in Nat : a + x = (a + y) + x - y
    OBVIOUS
  <2>8. SumOf(r, I \ {n}, field) + s[n][field] = (SumOf(r, I \ {n}, field) + r[n][field]) + s[n][field] - r[n][field]
    BY <2>5, <2>6, <2>7, Zenon
  <2>9. SumOf(s, I, field) = SumOf(r, I, field) + s[n][field] - r[n][field]
    BY <2>4, <2>5, <2>8, Zenon
  <2> QED BY <1>2, <2>9
<1> QED BY <1>1, <1>2

LEMMA NoPayAgrees == NoPay \in PayBooks /\ Agrees(NoPay)
<1>1. NoTotals \in PayTotals /\ NoTotals.paid = 0 /\ NoTotals.amount = 0
  BY DEF NoTotals, PayTotals
<1>2. NoPay \in PayBooks /\ NoPay.records = << >> /\ NoPay.weekly = NoTotals /\ \A d \in 1 .. PayDays : NoPay.daily[d] = NoTotals
  BY <1>1 DEF NoPay, PayBooks
<1>3. \A field \in Summed : NoTotals[field] = 0
  BY <1>1 DEF Summed
<1>4. DOMAIN NoPay.records = {}
  BY <1>2
<1>5. \A field, r : SumOf(r, {}, field) = 0
  <2> TAKE field, r
  <2>1. UNION {{i} \X (1 .. r[i][field]) : i \in {}} = {}
    OBVIOUS
  <2> QED BY <2>1, FS_EmptySet DEF SumOf
<1>6. \A d \in 1 .. PayDays : OfDay(NoPay.records, d) = {}
  BY <1>4 DEF OfDay
<1> QED BY <1>2, <1>3, <1>4, <1>5, <1>6 DEF Agrees

(* The totals of a book whose record n has become new, on the same day.     *)
LEMMA EditAgrees ==
    ASSUME NEW book \in PayBooks, Agrees(book), NEW n \in DOMAIN book.records, NEW new \in PayEntries,
           new.day = book.records[n].day,
           NEW then \in PayBooks, then.records = [book.records EXCEPT ![n] = new],
           \A field \in Summed :
             /\ \A d \in 1 .. PayDays :
                  then.daily[d][field] = IF d = new.day
                                         THEN book.daily[d][field] + new[field] - book.records[n][field]
                                         ELSE book.daily[d][field]
             /\ then.weekly[field] = book.weekly[field] + new[field] - book.records[n][field]
    PROVE  Agrees(then)
<1> DEFINE r == book.records
           s == then.records
<1>1. r \in Seq(PayEntries) /\ s \in Seq(PayEntries)
  BY DEF PayBooks
<1>2. DOMAIN s = DOMAIN r /\ s[n] = new /\ \A i \in DOMAIN r \ {n} : s[i] = r[i]
  BY <1>1
<1> SUFFICES ASSUME NEW field \in Summed
             PROVE  /\ \A d \in 1 .. PayDays : then.daily[d][field] = SumOf(s, OfDay(s, d), field)
                    /\ then.weekly[field] = SumOf(s, DOMAIN s, field)
  BY DEF Agrees
<1> HIDE DEF r, s
<1>3. ASSUME NEW d \in 1 .. PayDays PROVE then.daily[d][field] = SumOf(s, OfDay(s, d), field)
  <2>1. OfDay(s, d) = OfDay(r, d) /\ OfDay(r, d) \in SUBSET DOMAIN r /\ (n \in OfDay(r, d) <=> d = new.day)
    BY <1>2 DEF OfDay, r
  <2>2. book.daily[d][field] = SumOf(r, OfDay(r, d), field)
    BY DEF Agrees, r
  <2>3. CASE d = new.day
    <3>1. SumOf(s, OfDay(r, d), field) = SumOf(r, OfDay(r, d), field) + s[n][field] - r[n][field]
      BY <1>1, <1>2, <2>1, <2>3, SumReplaced DEF r
    <3> QED BY <1>2, <2>1, <2>2, <2>3, <3>1 DEF r
  <2>4. CASE d # new.day
    <3>1. SumOf(s, OfDay(r, d), field) = SumOf(r, OfDay(r, d), field)
      BY <1>1, <1>2, <2>1, <2>4, SumReplaced DEF r
    <3> QED BY <2>1, <2>2, <2>4, <3>1
  <2> QED BY <2>3, <2>4
<1>4. then.weekly[field] = SumOf(s, DOMAIN s, field)
  <2>1. book.weekly[field] = SumOf(r, DOMAIN r, field)
    BY DEF Agrees, r
  <2>2. SumOf(s, DOMAIN r, field) = SumOf(r, DOMAIN r, field) + s[n][field] - r[n][field]
    BY <1>1, <1>2, SumReplaced DEF r
  <2> QED BY <1>2, <2>1, <2>2 DEF r
<1> QED BY <1>3, <1>4

(* The totals of a book with a record more.                                 *)
LEMMA AppendAgrees ==
    ASSUME NEW book \in PayBooks, Agrees(book), NEW new \in PayEntries,
           NEW then \in PayBooks, then.records = Append(book.records, new),
           \A field \in Summed :
             /\ \A d \in 1 .. PayDays :
                  then.daily[d][field] = IF d = new.day THEN book.daily[d][field] + new[field]
                                         ELSE book.daily[d][field]
             /\ then.weekly[field] = book.weekly[field] + new[field]
    PROVE  Agrees(then)
<1> DEFINE r == book.records
           n == Len(r) + 1
<1>1. r \in Seq(PayEntries) /\ then.records = Append(r, new)
  BY DEF PayBooks
<1> DEFINE s == Append(r, new)
<1>2. Len(r) \in Nat /\ DOMAIN r = 1 .. Len(r) /\ DOMAIN s = DOMAIN r \cup {n} /\ s[n] = new /\ n \notin DOMAIN r
      /\ \A i \in DOMAIN r : s[i] = r[i]
  BY <1>1
<1>3. ASSUME NEW I \in SUBSET DOMAIN r, NEW field \in Summed
      PROVE  SumOf(s, I \cup {n}, field) = SumOf(r, I, field) + new[field] /\ SumOf(s, I, field) = SumOf(r, I, field)
  BY <1>1, SumAppended
<1> SUFFICES ASSUME NEW field \in Summed
             PROVE  /\ \A d \in 1 .. PayDays : then.daily[d][field] = SumOf(s, OfDay(s, d), field)
                    /\ then.weekly[field] = SumOf(s, DOMAIN s, field)
  BY <1>1 DEF Agrees
<1> HIDE DEF s, n
<1>4. ASSUME NEW d \in 1 .. PayDays PROVE then.daily[d][field] = SumOf(s, OfDay(s, d), field)
  <2>1. OfDay(r, d) \in SUBSET DOMAIN r
    BY DEF OfDay
  <2>2. book.daily[d][field] = SumOf(r, OfDay(r, d), field)
    BY DEF Agrees
  <2>3. CASE d = new.day
    <3>1. OfDay(s, d) = OfDay(r, d) \cup {n}
      <4> HIDE DEF r
      <4>1. \A i : i \in OfDay(s, d) <=> i \in OfDay(r, d) \/ i = n
        BY <1>2, <2>3 DEF OfDay
      <4> HIDE DEF OfDay
      <4> QED BY <4>1, Zenon
    <3>2. SumOf(s, OfDay(s, d), field) = SumOf(r, OfDay(r, d), field) + new[field]
      <4> HIDE DEF r
      <4>1. SumOf(s, OfDay(r, d) \cup {n}, field) = SumOf(r, OfDay(r, d), field) + new[field]
        BY <1>3, <2>1
      <4> QED BY <3>1, <4>1, Zenon
    <3> QED BY <2>2, <2>3, <3>2
  <2>4. CASE d # new.day
    <3>1. OfDay(s, d) = OfDay(r, d)
      <4> HIDE DEF r
      <4>1. \A i : i \in OfDay(s, d) <=> i \in OfDay(r, d)
        BY <1>2, <2>4 DEF OfDay
      <4> HIDE DEF OfDay
      <4> QED BY <4>1, Zenon
    <3>2. SumOf(s, OfDay(s, d), field) = SumOf(r, OfDay(r, d), field)
      <4> HIDE DEF r
      <4>1. SumOf(s, OfDay(r, d), field) = SumOf(r, OfDay(r, d), field)
        BY <1>3, <2>1
      <4> QED BY <3>1, <4>1, Zenon
    <3> QED BY <2>2, <2>4, <3>2
  <2> QED BY <2>3, <2>4
<1>5. then.weekly[field] = SumOf(s, DOMAIN s, field)
  <2>1. book.weekly[field] = SumOf(r, DOMAIN r, field)
    BY DEF Agrees
  <2>2. SumOf(s, DOMAIN r \cup {n}, field) = SumOf(r, DOMAIN r, field) + new[field]
    BY <1>3
  <2>3. then.weekly[field] = book.weekly[field] + new[field]
    OBVIOUS
  <2> QED BY <1>2, <2>1, <2>2, <2>3
<1> QED BY <1>4, <1>5

LEMMA NoRecordIs == NoRecord \notin PayEntries
BY DEF NoRecord, PayEntries

LEMMA RecInitInv == RecInit => RecInv
<1> SUFFICES ASSUME RecInit PROVE RecInv
  OBVIOUS
<1>1. /\ payData = NoPay /\ payFiles = [m \in 1 .. 2 |-> NoPay] /\ startMonth = 1 /\ today = 1
      /\ clerk = [c \in Clerks |-> NoRecord] /\ void \in [count : {0, 2}, banned : {FALSE}]
  BY DEF RecInit
<1>2. void.count \in 0 .. 2
  BY <1>1
<1>3. 1 \in 1 .. PayDays
  BY RecAssumption
<1>4. RecTyped
  BY <1>1, <1>2, <1>3, NoPayAgrees DEF RecTyped
<1>5. payFiles[1] = NoPay /\ payFiles[2] = NoPay
  BY <1>1
<1> QED BY <1>1, <1>4, <1>5, NoPayAgrees DEF RecInv

(* Steps that leave the books alone.                                        *)
LEMMA BooksStay ==
    ASSUME RecInv, RecTyped', UNCHANGED <<payData, payFiles, startMonth>>
    PROVE  RecInv'
BY DEF RecInv, Agrees

(* What is in memory is saved.                                              *)
LEMMA SavesInv ==
    ASSUME RecInv, Saves, UNCHANGED <<startMonth, today, void>>,
           payData' \in PayBooks, Agrees(payData'), clerk' \in [Clerks -> PayEntries \cup {NoRecord}]
    PROVE  RecInv'
<1>1. payFiles' = [payFiles EXCEPT ![startMonth] = payData'] /\ startMonth \in 1 .. 2 /\ payFiles \in [1 .. 2 -> PayBooks]
  BY DEF RecInv, RecTyped, Saves
<1>2. payFiles' \in [1 .. 2 -> PayBooks] /\ payFiles'[startMonth] = payData'
  BY <1>1
<1>3. payFiles'[1] \in {payFiles[1], payData'} /\ payFiles'[2] \in {payFiles[2], payData'}
  BY <1>1
<1>4. Agrees(payFiles'[1]) /\ Agrees(payFiles'[2])
  BY <1>3 DEF RecInv
<1>5. RecTyped'
  BY <1>2 DEF RecInv, RecTyped
<1> QED BY <1>2, <1>4, <1>5 DEF RecInv

LEMMA PaystatInv ==
    ASSUME RecInv, NEW c \in Clerks,
           \/ PaystatCancelled(c)
           \/ \E id \in Ids, time \in PayTimes, claiming \in {2}, paid \in {1}, amount \in {1} :
                Paystat(c, id, time, claiming, paid, amount)
    PROVE  RecInv'
<1>1. UNCHANGED <<payData, payFiles, startMonth, today, void>>
  BY DEF Paystat, PaystatCancelled
<1>2. clerk' \in [Clerks -> PayEntries \cup {NoRecord}]
  <2>1. CASE PaystatCancelled(c)
    BY <2>1 DEF PaystatCancelled, RecInv, RecTyped
  <2>2. ASSUME NEW id \in Ids, NEW time \in PayTimes, Paystat(c, id, time, 2, 1, 1)
        PROVE  clerk' \in [Clerks -> PayEntries \cup {NoRecord}]
    <3> DEFINE new == [id |-> id, day |-> today, time |-> time, claiming |-> 2, paid |-> 1, amount |-> 1]
    <3>1. new \in PayEntries
      BY DEF PayEntries, RecInv, RecTyped
    <3>2. clerk' = [clerk EXCEPT ![c] = new]
      BY <2>2 DEF Paystat
    <3> QED BY <3>1, <3>2 DEF RecInv, RecTyped
  <2> QED BY <2>1, <2>2
<1>3. RecTyped'
  BY <1>1, <1>2 DEF RecInv, RecTyped
<1> QED BY <1>1, <1>3, BooksStay

(* A paystat records a pay time that is not recorded, and adds it up.       *)
LEMMA PaystatRecordsInv ==
    ASSUME RecInv, NEW c \in Clerks, PaystatRecords(c)
    PROVE  RecInv'
<1> DEFINE new == clerk[c]
           more == Plus(payData.weekly, new.paid, new.claiming - new.paid, new.amount)
           daily == [payData.daily EXCEPT ![new.day] = Plus(@, new.paid, new.claiming - new.paid, new.amount)]
<1>1. /\ new # NoRecord /\ clerk' = [clerk EXCEPT ![c] = NoRecord] /\ UNCHANGED <<startMonth, today, void>>
  BY DEF PaystatRecords
<1>2. new \in PayEntries /\ payData \in PayBooks /\ Agrees(payData)
  BY <1>1 DEF RecInv, RecTyped
<1>3. clerk' \in [Clerks -> PayEntries \cup {NoRecord}]
  BY <1>1 DEF RecInv, RecTyped
<1>4. CASE Recorded(new)
  <2>1. UNCHANGED <<payData, payFiles>>
    BY <1>4 DEF PaystatRecords
  <2>2. RecTyped'
    BY <1>1, <1>3, <2>1 DEF RecInv, RecTyped
  <2> QED BY <1>1, <2>1, <2>2, BooksStay
<1>5. CASE ~Recorded(new)
  <2>1. payData' = [records |-> Append(payData.records, new), daily |-> daily, weekly |-> more] /\ Saves
    BY <1>5 DEF PaystatRecords
  <2> HIDE DEF new
  <2>2. new.day \in 1 .. PayDays /\ new.paid \in Nat /\ new.amount \in Nat /\ new.claiming \in Nat
    BY <1>2 DEF PayEntries
  <2>3. ASSUME NEW t \in PayTotals
        PROVE  /\ Plus(t, new.paid, new.claiming - new.paid, new.amount) \in PayTotals
               /\ \A field \in Summed :
                    Plus(t, new.paid, new.claiming - new.paid, new.amount)[field] = t[field] + new[field]
    <3> DEFINE u == Plus(t, new.paid, new.claiming - new.paid, new.amount)
    <3>1. u \in PayTotals /\ u.paid = t.paid + new.paid /\ u.amount = t.amount + new.amount
      BY <2>2 DEF Plus, PayTotals
    <3> HIDE DEF u
    <3>2. \A field \in Summed : u[field] = t[field] + new[field]
      BY <3>1 DEF Summed
    <3> QED BY <3>1, <3>2 DEF u
  <2>4. /\ payData.records \in Seq(PayEntries) /\ payData.daily \in [1 .. PayDays -> PayTotals]
        /\ payData.weekly \in PayTotals
    BY <1>2 DEF PayBooks
  <2>5. daily \in [1 .. PayDays -> PayTotals] /\ more \in PayTotals
    BY <2>2, <2>3, <2>4
  <2>6. Append(payData.records, new) \in Seq(PayEntries)
    BY <1>2, <2>4
  <2>7. \A field \in Summed :
          /\ \A d \in 1 .. PayDays : daily[d][field] = IF d = new.day THEN payData.daily[d][field] + new[field]
                                                       ELSE payData.daily[d][field]
          /\ more[field] = payData.weekly[field] + new[field]
    BY <2>2, <2>3, <2>4
  <2> HIDE DEF more, daily
  <2>8. payData' \in PayBooks /\ payData'.records = Append(payData.records, new)
        /\ payData'.daily = daily /\ payData'.weekly = more
    BY <2>1, <2>5, <2>6 DEF PayBooks
  <2>9. Agrees(payData')
    BY <1>2, <2>7, <2>8, AppendAgrees
  <2> QED BY <1>1, <1>3, <2>1, <2>8, <2>9, SavesInv
<1> QED BY <1>4, <1>5

(* An edit replaces a record and the difference it makes.                   *)
LEMMA EditPayInv ==
    ASSUME RecInv, NEW i \in DOMAIN payData.records, NEW claiming \in 1 .. 2, NEW paid \in 1 .. 2, NEW time \in PayTimes,
           EditPay(i, claiming, paid, 2, time)
    PROVE  RecInv'
<1> DEFINE old == payData.records[i]
           new == [old EXCEPT !.claiming = claiming, !.paid = paid, !.amount = 2, !.time = time]
<1>1. /\ payData' = Edited(i, new) /\ Saves /\ UNCHANGED <<startMonth, today, clerk, void>>
  BY DEF EditPay
<1>2. payData \in PayBooks /\ Agrees(payData) /\ clerk \in [Clerks -> PayEntries \cup {NoRecord}]
  BY DEF RecInv, RecTyped
<1>3. /\ payData.records \in Seq(PayEntries) /\ payData.daily \in [1 .. PayDays -> PayTotals]
      /\ payData.weekly \in PayTotals
  BY <1>2 DEF PayBooks
<1>4. old \in PayEntries
  BY <1>3
<1>5. new \in PayEntries /\ new.day = old.day
  <2>1. claiming \in Nat /\ paid \in Nat /\ 2 \in Nat
    OBVIOUS
  <2> HIDE DEF old
  <2> QED BY <1>4, <2>1 DEF PayEntries
<1> DEFINE daily == [payData.daily EXCEPT ![new.day] = Adjusted(@, old, new)]
           less == Adjusted(payData.weekly, old, new)
           records == [payData.records EXCEPT ![i] = new]
<1> HIDE DEF new
<1>6. payData' = [payData EXCEPT !.records[i] = new, !.daily[new.day] = Adjusted(@, old, new), !.weekly = Adjusted(@, old, new)]
  BY <1>1 DEF Edited
<1> HIDE DEF old
<1>7. ASSUME NEW t \in PayTotals
      PROVE  /\ Adjusted(t, old, new) \in PayTotals
             /\ \A field \in Summed : Adjusted(t, old, new)[field] = t[field] + new[field] - old[field]
  <2> DEFINE u == Adjusted(t, old, new)
  <2>1. /\ new.paid \in Nat /\ new.amount \in Nat /\ new.claiming \in Nat
        /\ old.paid \in Nat /\ old.amount \in Nat /\ old.claiming \in Nat
    BY <1>4, <1>5 DEF PayEntries
  <2>2. u \in PayTotals /\ u.paid = t.paid + new.paid - old.paid /\ u.amount = t.amount + new.amount - old.amount
    BY <2>1 DEF Adjusted, PayTotals
  <2> HIDE DEF u
  <2>3. \A field \in Summed : u[field] = t[field] + new[field] - old[field]
    BY <2>2 DEF Summed
  <2> QED BY <2>2, <2>3 DEF u
<1>8. new.day \in 1 .. PayDays
  BY <1>5 DEF PayEntries
<1>9. daily \in [1 .. PayDays -> PayTotals] /\ less \in PayTotals
  BY <1>3, <1>7, <1>8
<1>10. records \in Seq(PayEntries)
  BY <1>3, <1>5
<1>11. \A field \in Summed :
        /\ \A d \in 1 .. PayDays : daily[d][field] = IF d = new.day
                                                     THEN payData.daily[d][field] + new[field] - old[field]
                                                     ELSE payData.daily[d][field]
        /\ less[field] = payData.weekly[field] + new[field] - old[field]
  BY <1>3, <1>7, <1>8
<1>12. payData' = [payData EXCEPT !.records = records, !.daily = daily, !.weekly = less]
  BY <1>2, <1>6 DEF PayBooks
<1> HIDE DEF daily, less, records
<1>13. payData' \in PayBooks /\ payData'.records = records /\ payData'.daily = daily /\ payData'.weekly = less
  BY <1>2, <1>9, <1>10, <1>12 DEF PayBooks
<1>14. Agrees(payData')
  BY <1>2, <1>5, <1>11, <1>13, EditAgrees DEF records, old
<1> QED BY <1>1, <1>2, <1>13, <1>14, SavesInv

(* The claims of a refused edit stay in memory, and no total counts them.   *)
LEMMA EditRefusedInv ==
    ASSUME RecInv, NEW i \in DOMAIN payData.records, EditRefused(i, 1, 2)
    PROVE  RecInv'
<1> DEFINE old == payData.records[i]
           new == [old EXCEPT !.claiming = 1]
           records == [payData.records EXCEPT ![i] = new]
<1>1. payData' = [payData EXCEPT !.records[i].claiming = 1] /\ UNCHANGED <<payFiles, startMonth, today, clerk, void>>
  BY DEF EditRefused
<1>2. payData \in PayBooks /\ Agrees(payData) /\ payData.records \in Seq(PayEntries)
  BY DEF RecInv, RecTyped, PayBooks
<1>3. old \in PayEntries
  BY <1>2
<1>4. new \in PayEntries /\ new.day = old.day /\ new.paid = old.paid /\ new.amount = old.amount
  BY <1>3 DEF PayEntries
<1>5. payData' = [payData EXCEPT !.records = records]
  BY <1>1, <1>2 DEF PayBooks
<1> HIDE DEF new
<1>6. records \in Seq(PayEntries) /\ Len(records) = Len(payData.records)
  BY <1>2, <1>4
<1>7. payData' \in PayBooks /\ payData'.records = records /\ payData'.daily = payData.daily /\ payData'.weekly = payData.weekly
  BY <1>2, <1>5, <1>6 DEF PayBooks
<1>8. \A field \in Summed :
        /\ \A d \in 1 .. PayDays : payData.daily[d][field] \in Int
        /\ payData.weekly[field] \in Int /\ new[field] = old[field] /\ old[field] \in Nat
  <2>1. payData.daily \in [1 .. PayDays -> PayTotals] /\ payData.weekly \in PayTotals
    BY <1>2 DEF PayBooks
  <2>2. \A t \in PayTotals, field \in Summed : t[field] \in Int
    BY DEF PayTotals, Summed
  <2>3. \A field \in Summed : new[field] = old[field]
    BY <1>4 DEF Summed
  <2> QED BY <1>3, <2>1, <2>2, <2>3, SummedIsNat
<1>9. \A x \in Int, k \in Nat : x = x + k - k
  OBVIOUS
<1>10. Agrees(payData')
  <2>1. \A field \in Summed :
          /\ \A d \in 1 .. PayDays :
                payData'.daily[d][field] = IF d = new.day THEN payData.daily[d][field] + new[field] - old[field]
                                           ELSE payData.daily[d][field]
          /\ payData'.weekly[field] = payData.weekly[field] + new[field] - old[field]
    BY <1>7, <1>8, <1>9
  <2> QED BY <1>2, <1>4, <1>7, <2>1, EditAgrees
<1>11. RecTyped'
  BY <1>1, <1>7 DEF RecInv, RecTyped
<1> QED BY <1>1, <1>6, <1>7, <1>10, <1>11 DEF RecInv

LEMMA RecOtherInv ==
    ASSUME RecInv, VoidPay \/ BanEnds \/ ResetVoids \/ BackupRuns \/ DayPasses
    PROVE  RecInv'
<1>1. UNCHANGED <<payData, payFiles, startMonth, clerk>>
  BY DEF VoidPay, BanEnds, ResetVoids, BackupRuns, DayPasses
<1>2. today' \in 1 .. PayDays
  BY RecAssumption DEF VoidPay, BanEnds, ResetVoids, BackupRuns, DayPasses, RecInv, RecTyped
<1>3. void'.count \in 0 .. 2
  BY DEF VoidPay, BanEnds, ResetVoids, BackupRuns, DayPasses, RecInv, RecTyped
<1>4. RecTyped'
  BY <1>1, <1>2, <1>3 DEF RecInv, RecTyped
<1> QED BY <1>1, <1>4, BooksStay

LEMMA PayRestartsInv ==
    ASSUME RecInv, PayRestarts
    PROVE  RecInv'
<1>1. /\ startMonth' = MonthOf(today) /\ payData' = payFiles[MonthOf(today)] /\ UNCHANGED <<payFiles, today, void>>
      /\ clerk' = [c \in Clerks |-> NoRecord]
  BY DEF PayRestarts
<1>2. MonthOf(today) = 1 \/ MonthOf(today) = 2
  BY DEF MonthOf
<1>3. payData' = payFiles[1] \/ payData' = payFiles[2]
  BY <1>1, <1>2
<1>4. RecTyped'
  BY <1>1, <1>2 DEF RecInv, RecTyped
<1>5. Agrees(payData') /\ Agrees(payFiles'[1]) /\ Agrees(payFiles'[2])
  BY <1>1, <1>3 DEF RecInv
<1> QED BY <1>1, <1>4, <1>5 DEF RecInv

LEMMA RecStepInv == RecInv /\ [RecNext]_recVars => RecInv'
<1> SUFFICES ASSUME RecInv, [RecNext]_recVars PROVE RecInv'
  OBVIOUS
<1>1. CASE UNCHANGED recVars
  <2>1. RecTyped' /\ UNCHANGED <<payData, payFiles, startMonth>>
    BY <1>1 DEF recVars, RecInv, RecTyped
  <2> QED BY <2>1, BooksStay
<1>2. CASE RecNext
  BY <1>2, PaystatInv, PaystatRecordsInv, EditPayInv, EditRefusedInv, RecOtherInv, PayRestartsInv DEF RecNext
<1> QED BY <1>1, <1>2

LEMMA RecPromises == RecInv => RecTypeOK /\ PaidTotalsAgree
<1> SUFFICES ASSUME RecInv PROVE RecTypeOK /\ PaidTotalsAgree
  OBVIOUS
<1>1. RecTypeOK
  <2>1. \A r \in Range(payData.records) : r \in PayEntries
    BY DEF RecInv, RecTyped, PayBooks, Range
  <2> QED BY <2>1 DEF RecInv, RecTyped, PayEntries, RecTypeOK
<1>2. PaidTotalsAgree
  BY DEF RecInv, Agrees, Summed, PaidTotalsAgree
<1> QED BY <1>1, <1>2

LEMMA RecordsOnce ==
    ASSUME RecInv, [RecNext]_recVars, Len(payData'.records) > Len(payData.records), startMonth' = startMonth,
           NEW r \in Range(payData.records)
    PROVE  <<r.day, r.time>> # <<Last(payData'.records).day, Last(payData'.records).time>>
<1>1. payData.records \in Seq(PayEntries) /\ Len(payData.records) \in Nat
  BY DEF RecInv, RecTyped, PayBooks
<1>2. CASE Len(payData'.records) = Len(payData.records)
  BY <1>1, <1>2
<1>3. ASSUME NEW c \in Clerks, PaystatRecords(c)
      PROVE  <<r.day, r.time>> # <<Last(payData'.records).day, Last(payData'.records).time>>
  <2>1. CASE Recorded(clerk[c])
    <3>1. payData' = payData
      BY <1>3, <2>1 DEF PaystatRecords
    <3> QED BY <1>2, <3>1
  <2>2. CASE ~Recorded(clerk[c])
    <3>1. payData'.records = Append(payData.records, clerk[c]) /\ clerk[c] \in PayEntries
      BY <1>3, <2>2 DEF PaystatRecords, RecInv, RecTyped
    <3>2. Last(payData'.records) = clerk[c]
      BY <1>1, <3>1 DEF Last
    <3> QED BY <2>2, <3>2 DEF Recorded
  <2> QED BY <2>1, <2>2
<1>4. ASSUME NEW i \in DOMAIN payData.records, NEW claiming \in 1 .. 2, NEW paid \in 1 .. 2, NEW time \in PayTimes,
             EditPay(i, claiming, paid, 2, time)
      PROVE  Len(payData'.records) = Len(payData.records)
  BY <1>1, <1>4 DEF EditPay, Edited, RecInv, RecTyped, PayBooks
<1>5. ASSUME NEW i \in DOMAIN payData.records, EditRefused(i, 1, 2)
      PROVE  Len(payData'.records) = Len(payData.records)
  BY <1>1, <1>5 DEF EditRefused, RecInv, RecTyped, PayBooks
<1>6. CASE PayRestarts
  <2>1. payData' = payFiles[startMonth]
    BY <1>6 DEF PayRestarts
  <2> QED BY <1>2, <2>1 DEF RecInv
<1>7. CASE payData' = payData
  BY <1>2, <1>7
<1>8. \/ payData' = payData \/ PayRestarts \/ \E c \in Clerks : PaystatRecords(c)
      \/ \E i \in DOMAIN payData.records :
           \/ \E claiming, paid \in 1 .. 2, time \in PayTimes : EditPay(i, claiming, paid, 2, time)
           \/ EditRefused(i, 1, 2)
  BY DEF RecNext, recVars, Paystat, PaystatCancelled, VoidPay, BanEnds, ResetVoids, BackupRuns, DayPasses
<1> QED BY <1>2, <1>3, <1>4, <1>5, <1>6, <1>7, <1>8

---------------------------------------------------------------------------
(* The cogs side by side: a step of one leaves the others as they are, so  *)
(* the invariants of all of them hold together.                            *)

BotsInv ==
    /\ part \in Parts
    /\ HostInv
    /\ RaffleInv
    /\ ReactInv
    /\ AuditInv
    /\ ModInv
    /\ AppInv
    /\ WatchInv
    /\ TimeInv
    /\ PaceInv
    /\ TrackInv
    /\ RecInv

(* Each step is a step of every cog, or leaves it alone.                    *)
LEMMA BotsStep ==
    ASSUME part \in Parts, [BotsNext]_BotsVars
    PROVE  /\ part' \in Parts
           /\ [HostNext]_hostVars
           /\ [RaffleNext]_raffleVars
           /\ [ReactNext]_reactVars
           /\ [AuditNext]_auditVars
           /\ [ModNext]_modVars
           /\ [AppNext]_appVars
           /\ [WatchNext]_watchVars
           /\ [TimeNext]_timeVars
           /\ [PaceNext]_paceVars
           /\ [TrackNext]_trackVars
           /\ [RecNext]_recVars
<1>1. CASE Only("host") /\ HostNext
  BY <1>1 DEF Only
<1>2. CASE Only("raffle") /\ RaffleNext
  BY <1>2 DEF Only
<1>3. CASE Only("react") /\ ReactNext
  BY <1>3 DEF Only
<1>4. CASE Only("audit") /\ AuditNext
  BY <1>4 DEF Only
<1>5. CASE Only("mod") /\ ModNext
  BY <1>5 DEF Only
<1>6. CASE Only("apply") /\ AppNext
  BY <1>6 DEF Only
<1>7. CASE Only("watch") /\ WatchNext
  BY <1>7 DEF Only
<1>8. CASE Only("time") /\ TimeNext
  BY <1>8 DEF Only
<1>9. CASE Only("pace") /\ PaceNext
  BY <1>9 DEF Only
<1>10. CASE Only("track") /\ TrackNext
  BY <1>10 DEF Only
<1>11. CASE Only("records") /\ RecNext
  BY <1>11 DEF Only
<1>12. CASE UNCHANGED BotsVars
  BY <1>12 DEF BotsVars
<1> QED
  BY <1>1, <1>2, <1>3, <1>4, <1>5, <1>6, <1>7, <1>8, <1>9, <1>10, <1>11, <1>12 DEF BotsNext

(* The invariant of all cogs.                                               *)
THEOREM BotsInvariant == BotsSpec => []BotsInv
<1>1. BotsInit => BotsInv
  <2> SUFFICES ASSUME BotsInit PROVE BotsInv
    OBVIOUS
  <2>1. part \in Parts /\ HostInit /\ RaffleInit /\ ReactInit /\ AuditInit /\ ModInit
    BY DEF BotsInit
  <2>2. AppInit /\ WatchInit /\ TimeInit /\ PaceInit /\ TrackInit /\ RecInit
    BY DEF BotsInit
  <2> QED
    BY <2>1, <2>2, HostInitInv, RaffleInitInv, ReactInitInv, AuditInitInv, ModInitInv, AppInitInv, WatchInitInv, TimeInitInv, PaceInitInv, TrackInitInv, RecInitInv DEF BotsInv
<1>2. BotsInv /\ [BotsNext]_BotsVars => BotsInv'
  <2> SUFFICES ASSUME BotsInv, [BotsNext]_BotsVars PROVE BotsInv'
    OBVIOUS
  <2>0. part \in Parts
    BY DEF BotsInv
  <2>1. HostInv'
    BY <2>0, BotsStep, HostStepInv DEF BotsInv
  <2>2. RaffleInv'
    BY <2>0, BotsStep, RaffleStepInv DEF BotsInv
  <2>3. ReactInv'
    BY <2>0, BotsStep, ReactStepInv DEF BotsInv
  <2>4. AuditInv'
    BY <2>0, BotsStep, AuditStepInv DEF BotsInv
  <2>5. ModInv'
    BY <2>0, BotsStep, ModStepInv DEF BotsInv
  <2>6. AppInv'
    BY <2>0, BotsStep, AppStepInv DEF BotsInv
  <2>7. WatchInv'
    BY <2>0, BotsStep, WatchStepInv DEF BotsInv
  <2>8. TimeInv'
    BY <2>0, BotsStep, TimeStepInv DEF BotsInv
  <2>9. PaceInv'
    BY <2>0, BotsStep, PaceStepInv DEF BotsInv
  <2>10. TrackInv'
    BY <2>0, BotsStep, TrackStepInv DEF BotsInv
  <2>11. RecInv'
    BY <2>0, BotsStep, RecStepInv DEF BotsInv
  <2>12. (part \in Parts)'
    BY <2>0, BotsStep
  <2> QED BY <2>1, <2>2, <2>3, <2>4, <2>5, <2>6, <2>7, <2>8, <2>9, <2>10, <2>11, <2>12 DEF BotsInv
<1> QED BY <1>1, <1>2, PTL DEF BotsSpec

(* Every variable of every cog keeps its type.                              *)
THEOREM BotsTypes == BotsSpec => []BotsTypeOK
<1>1. BotsInv => BotsTypeOK
  BY HostPromises, RafflePromises, ReactPromises, AuditPromises, ModPromises, AppPromises, WatchPromises, TimePromises, PacePromises, TrackPromises, RecPromises DEF BotsInv, BotsTypeOK
<1> QED BY <1>1, BotsInvariant, PTL

(* With nothing under way, files and memory hold what was confirmed: no     *)
(* entry of a raffle is lost when a save fails, an emoji gives one role, a  *)
(* profile's file has what was observed, daily and weekly totals of pay     *)
(* agree with the records and no second of a user's time is counted twice.  *)
THEOREM FilesTrue == BotsSpec => []FilesAreTrue
<1>1. BotsInv => FilesAreTrue
  BY RafflePromises, ReactPromises, WatchPromises, RecPromises, TimePromises DEF BotsInv, FilesAreTrue
<1> QED BY <1>1, BotsInvariant, PTL

(* An alert of the watcher, an announcement of the tracker and a ruling on  *)
(* a flagged message are posted once, whichever tasks overlap.              *)
THEOREM PostsOnce == BotsSpec => []PostedOnce
<1>1. BotsInv => PostedOnce
  BY WatchPromises, TrackPromises, ModPromises DEF BotsInv, PostedOnce
<1> QED BY <1>1, BotsInvariant, PTL

(* What staff are told of members, permissions and applications is what     *)
(* happened.                                                                *)
THEOREM StaffTold == BotsSpec => []StaffAreTold
<1>1. BotsInv => StaffAreTold
  BY AuditPromises, AppPromises DEF BotsInv, StaffAreTold
<1> QED BY <1>1, BotsInvariant, PTL

(* Every variable of the gate to Habbo keeps its type.                      *)
THEOREM PaceTypeCorrect == PaceSpec => []PaceTypeOK
<1>1. PaceSpec => []PaceInv
  BY PaceInitInv, PaceStepInv, PTL DEF PaceSpec
<1> QED BY <1>1, PacePromises, PTL

(* "Pace all Habbo requests": whichever tasks send them, however often      *)
(* Habbo answers 429 and however late a sleeper wakes, two requests are an  *)
(* interval apart.                                                          *)
THEOREM RequestsSpaced == BotsSpec => []RequestsAreSpaced
<1>1. BotsInv => RequestsAreSpaced
  BY PacePromises DEF BotsInv
<1> QED BY <1>1, BotsInvariant, PTL

(* A reload that reports success has reloaded every extension that was      *)
(* edited before it, a payment is not recorded a second time for the same   *)
(* moment, and a poll never takes the last online time of a user back.      *)
THEOREM StepsSound == BotsSpec => StepsAreSound
<1>1. BotsInv /\ [BotsNext]_BotsVars =>
        [reload.at = "reloading" /\ reload'.at = "reloaded"
           => \A e \in Extensions : running[e] >= wanted[e]]_hostVars
  BY BotsStep, ReloadedAll DEF BotsInv
<1>2. BotsInv /\ [BotsNext]_BotsVars =>
        [Len(payData'.records) > Len(payData.records) /\ startMonth' = startMonth
           => \A r \in Range(payData.records) :
                <<r.day, r.time>> # <<Last(payData'.records).day, Last(payData'.records).time>>]_recVars
  BY BotsStep, RecordsOnce DEF BotsInv
<1>3. BotsInv /\ [BotsNext]_BotsVars => ["manual" \notin ops => mem'.last >= mem.last]_watchVars
  BY BotsStep, RecordsForward DEF BotsInv
<1>4. BotsSpec => ReloadedMeansAll
  BY <1>1, BotsInvariant, PTL DEF BotsSpec, ReloadedMeansAll
<1>5. BotsSpec => RecordedOnce
  BY <1>2, BotsInvariant, PTL DEF BotsSpec, RecordedOnce
<1>6. BotsSpec => OnlyForward
  BY <1>3, BotsInvariant, PTL DEF BotsSpec, OnlyForward
<1> QED BY <1>4, <1>5, <1>6 DEF StepsAreSound
=============================================================================
