----------------------------- MODULE LoopsProofs -----------------------------
(***************************************************************************)
(* What MCLoops checks of six cogs on small instances, for every value of  *)
(* the constants: an inductive invariant of each module, then of all.  The *)
(* liveness properties stay with TLC.                                      *)
(***************************************************************************)
EXTENDS MCLoops, FiniteSetTheorems, WellFoundedInduction, TLAPS

---------------------------------------------------------------------------
(* Lists.                                                                  *)

(* An entry of server.json.                                                 *)
Entries == [user : CdaMembers, name : CdaNames]

(* The ranks of the indices that stay are 1, 2, ...: each is taken once.    *)
LEMMA RanksAre ==
    ASSUME NEW indices, IsFiniteSet(indices), indices \subseteq Nat
    PROVE  /\ Cardinality(indices) \in Nat
           /\ \A i \in indices : Rank(indices, i) \in 1 .. Cardinality(indices)
           /\ \A k \in 1 .. Cardinality(indices) : \E i \in indices : Rank(indices, i) = k
           /\ \A i, j \in indices : Rank(indices, i) = Rank(indices, j) => i = j
<1> DEFINE upTo(i) == {j \in indices : j <= i}
           size == Cardinality(indices)
<1>1. \A i \in indices :
        IsFiniteSet(upTo(i)) /\ Cardinality(upTo(i)) \in Nat /\ Cardinality(upTo(i)) <= size
  <2> TAKE i \in indices
  <2>1. upTo(i) \in SUBSET indices
    OBVIOUS
  <2>2. IsFiniteSet(upTo(i)) /\ Cardinality(upTo(i)) <= size
    BY <2>1, FS_Subset
  <2> QED BY <2>2, FS_CardinalityType
<1>2. size \in Nat
  BY FS_CardinalityType
<1>3. \A i \in indices : Cardinality(upTo(i)) # 0
  <2> TAKE i \in indices
  <2>1. i \in upTo(i)
    OBVIOUS
  <2> QED BY <1>1, <2>1, FS_EmptySet
<1>4. \A i \in indices : Rank(indices, i) \in 1 .. size
  BY <1>1, <1>2, <1>3 DEF Rank
<1>5. ASSUME NEW i \in indices, NEW j \in indices, i < j
      PROVE  Rank(indices, i) < Rank(indices, j)
  <2>1. j \notin upTo(i) /\ upTo(i) \cup {j} \in SUBSET upTo(j)
    <3>1. i \in Nat /\ j \in Nat /\ \A k \in indices : k \in Nat
      OBVIOUS
    <3>2. \A k \in indices : k <= i => k <= j
      BY <1>5, <3>1
    <3>3. j \notin upTo(i) /\ j \in upTo(j)
      BY <1>5, <3>1
    <3> QED BY <3>2, <3>3
  <2>2. Cardinality(upTo(i) \cup {j}) = Cardinality(upTo(i)) + 1
    BY <1>1, <2>1, FS_AddElement
  <2>3. Cardinality(upTo(i) \cup {j}) <= Cardinality(upTo(j))
    BY <1>1, <2>1, FS_Subset
  <2> QED BY <1>1, <2>2, <2>3 DEF Rank
<1>6. \A i, j \in indices : Rank(indices, i) = Rank(indices, j) => i = j
  <2> SUFFICES ASSUME NEW i \in indices, NEW j \in indices, Rank(indices, i) = Rank(indices, j), i # j
               PROVE  FALSE
    OBVIOUS
  <2>1. Rank(indices, i) \in Nat
    BY <1>2, <1>4
  <2>2. i < j \/ j < i
    OBVIOUS
  <2> QED BY <1>5, <2>1, <2>2
<1>7. \A k \in 1 .. size : \E i \in indices : Rank(indices, i) = k
  <2> DEFINE rank == [i \in indices |-> Rank(indices, i)]
  <2>1. rank \in Injection(indices, 1 .. size)
    BY <1>4, <1>6 DEF Injection, IsInjective
  <2>2. IsFiniteSet(1 .. size) /\ Cardinality(1 .. size) = size
    BY <1>2, FS_Interval
  <2>3. rank \in Surjection(indices, 1 .. size)
    BY <2>1, <2>2, FS_Injection
  <2> QED BY <2>3 DEF Surjection
<1> QED BY <1>2, <1>4, <1>6, <1>7

(* What is kept of a list is what the condition holds for.                  *)
LEMMA KeptIs ==
    ASSUME NEW T, NEW s \in Seq(T), NEW S
    PROVE  Kept(s, S) \in Seq(T) /\ Range(Kept(s, S)) = Range(s) \cap S
<1> DEFINE indices == {i \in DOMAIN s : s[i] \in S}
           size == Cardinality(indices)
           at(k) == CHOOSE i \in indices : Rank(indices, i) = k
           kept == [k \in 1 .. size |-> s[at(k)]]
<1>1. DOMAIN s = 1 .. Len(s) /\ Len(s) \in Nat /\ \A i \in 1 .. Len(s) : s[i] \in T
  OBVIOUS
<1>2. indices \in SUBSET (1 .. Len(s))
  BY <1>1
<1>3. IsFiniteSet(indices) /\ indices \subseteq Nat
  <2>1. IsFiniteSet(1 .. Len(s))
    BY <1>1, FS_Interval
  <2>2. IsFiniteSet(indices)
    BY <1>2, <2>1, FS_Subset
  <2>3. \A i \in 1 .. Len(s) : i \in Nat
    BY <1>1
  <2> QED BY <1>2, <2>2, <2>3
<1>4. Kept(s, S) = kept
  BY DEF Kept
<1> HIDE DEF indices
<1>5. /\ size \in Nat
      /\ \A i \in indices : Rank(indices, i) \in 1 .. size
      /\ \A k \in 1 .. size : \E i \in indices : Rank(indices, i) = k
      /\ \A i, j \in indices : Rank(indices, i) = Rank(indices, j) => i = j
  BY <1>3, RanksAre
<1>6. \A k \in 1 .. size : at(k) \in indices /\ Rank(indices, at(k)) = k
  BY <1>5
<1>7. \A i \in indices : at(Rank(indices, i)) = i
  BY <1>5, <1>6
<1> HIDE DEF size, at
<1>8. \A i \in indices : i \in 1 .. Len(s) /\ s[i] \in T /\ s[i] \in S
  BY <1>1 DEF indices
<1>9. \A k \in 1 .. size : kept[k] \in T
  BY <1>6, <1>8
<1>10. kept \in Seq(T)
  BY <1>5, <1>9
<1>11. \A x \in Range(kept) : x \in Range(s) \cap S
  BY <1>1, <1>6, <1>8 DEF Range
<1>12. \A i \in 1 .. Len(s) : s[i] \in S => s[i] \in Range(kept)
  <2> SUFFICES ASSUME NEW i \in 1 .. Len(s), s[i] \in S PROVE s[i] \in Range(kept)
    OBVIOUS
  <2>1. i \in indices
    BY <1>1 DEF indices
  <2>2. Rank(indices, i) \in 1 .. size /\ kept[Rank(indices, i)] = s[i]
    BY <1>5, <1>7, <2>1
  <2> QED BY <2>2 DEF Range
<1>13. Range(kept) = Range(s) \cap S
  BY <1>1, <1>11, <1>12 DEF Range
<1> QED BY <1>4, <1>10, <1>13

(* Someone who is listed has a first entry.                                 *)
LEMMA FirstOfIs ==
    ASSUME NEW list \in Seq(Entries), NEW u, Lists(list, u)
    PROVE  FirstOf(list, u) \in DOMAIN list /\ list[FirstOf(list, u)].user = u
<1> DEFINE T == {i \in DOMAIN list : list[i].user = u}
<1>1. DOMAIN list = 1 .. Len(list) /\ Len(list) \in Nat
  OBVIOUS
<1>2. T \subseteq Nat /\ T # {}
  BY <1>1 DEF Lists, Range
<1>3. PICK i \in T : \A j \in T : ~(<<j, i>> \in OpToRel(<, Nat))
  BY <1>2, NatLessThanWellFounded, WFMin
<1>4. \A j \in 1 .. i - 1 : list[j].user # u
  <2> SUFFICES ASSUME NEW j \in 1 .. i - 1, j \in T PROVE FALSE
    BY <1>1
  <2>1. j < i /\ j \in Nat /\ i \in Nat
    BY <1>1
  <2>2. <<j, i>> \in OpToRel(<, Nat)
    BY <2>1 DEF OpToRel
  <2> QED BY <1>3, <2>2
<1>5. \E k \in DOMAIN list : list[k].user = u /\ \A j \in 1 .. k - 1 : list[j].user # u
  BY <1>4
<1> QED BY <1>5 DEF FirstOf

(* What is appended, and when the list stays without duplicates.            *)
LEMMA AppendDiffers ==
    ASSUME NEW S, NEW s \in Seq(S), NEW e \in S
    PROVE  /\ Range(Append(s, e)) = Range(s) \cup {e}
           /\ IsInjective(s) /\ e \notin Range(s) => IsInjective(Append(s, e))
<1> DEFINE longer == Append(s, e)
<1>1. /\ longer \in Seq(S) /\ Len(longer) = Len(s) + 1 /\ longer[Len(s) + 1] = e
      /\ \A i \in 1 .. Len(s) : longer[i] = s[i]
  OBVIOUS
<1>2. DOMAIN s = 1 .. Len(s) /\ DOMAIN longer = 1 .. Len(s) + 1 /\ Len(s) \in Nat
  BY <1>1
<1>3. Range(longer) = Range(s) \cup {e}
  <2>1. \A x \in Range(longer) : x \in Range(s) \cup {e}
    BY <1>1, <1>2 DEF Range
  <2>2. \A i \in 1 .. Len(s) : s[i] \in Range(longer)
    BY <1>1, <1>2 DEF Range
  <2>3. e \in Range(longer)
    BY <1>1, <1>2 DEF Range
  <2> QED BY <1>2, <2>1, <2>2, <2>3 DEF Range
<1>4. ASSUME IsInjective(s), e \notin Range(s), NEW i \in 1 .. Len(s) + 1, NEW j \in 1 .. Len(s) + 1,
             longer[i] = longer[j]
      PROVE  i = j
  <2>1. \A k \in 1 .. Len(s) : s[k] # e
    BY <1>2, <1>4 DEF Range
  <2>2. \A k, l \in 1 .. Len(s) : s[k] = s[l] => k = l
    BY <1>2, <1>4 DEF IsInjective
  <2> HIDE DEF longer
  <2>3. CASE i \in 1 .. Len(s) /\ j \in 1 .. Len(s)
    BY <1>1, <1>4, <2>2, <2>3
  <2>4. CASE i = Len(s) + 1 /\ j \in 1 .. Len(s)
    BY <1>1, <1>4, <2>1, <2>4
  <2>5. CASE j = Len(s) + 1 /\ i \in 1 .. Len(s)
    BY <1>1, <1>4, <2>1, <2>5
  <2> QED BY <1>2, <2>3, <2>4, <2>5
<1> HIDE DEF longer
<1>5. IsInjective(s) /\ e \notin Range(s) => IsInjective(longer)
  BY <1>2, <1>4 DEF IsInjective
<1> QED BY <1>3, <1>5 DEF longer

---------------------------------------------------------------------------
(* Giveaways.                                                              *)

Giveaways == [there : BOOLEAN, entrants : SUBSET Members, ended : BOOLEAN, winners : SUBSET Members]

(* While the cog is up its file has what it knows; while it is down it      *)
(* knows of nothing and does nothing.                                       *)
GiveTyped ==
    /\ giveaway \in Giveaways
    /\ giveawayFile \in Giveaways \cup {Torn}
    /\ endTask \in {"none", "asleep"} /\ announced \in Nat /\ rerolls \in 0 .. RerollMax
    /\ restored \in BOOLEAN
    /\ IF restored THEN giveawayFile = giveaway ELSE giveaway = NoGiveaway /\ steps = {}

FileIsOpen == giveawayFile # Torn /\ giveawayFile.there /\ ~giveawayFile.ended
FileIsThere == giveawayFile # Torn /\ giveawayFile.there

(* The end was announced, or is about to be.                                *)
Ending == announced >= 1 \/ Runs("editEnded") \/ Runs("announceEnd")

(* A giveaway is started once, since its message stays; once it is ending   *)
(* nothing opens it again, in memory or in the file.                        *)
StartedOnce ==
    /\ giveaway.there \/ FileIsThere \/ Runs("sent") \/ Ending => message # NoMessage
    /\ Runs("sent") => ~giveaway.there
    /\ Ending => ~Runs("sent") /\ ~IsOpen /\ ~FileIsOpen

(* One of the two ways to end it goes on to announce it.                    *)
EndsOnce ==
    /\ announced <= 1
    /\ announced = 1 => ~Runs("editEnded") /\ ~Runs("announceEnd")
    /\ ~(Runs("editEnded") /\ Runs("announceEnd"))

GiveInv == GiveTyped /\ StartedOnce /\ EndsOnce

LEMMA TornIsNoGiveaway == Torn \notin Giveaways
<1>1. DOMAIN Torn = {"torn"}
  BY DEF Torn
<1>2. \A g \in Giveaways : DOMAIN g = {"there", "entrants", "ended", "winners"}
  BY DEF Giveaways
<1> QED BY <1>1, <1>2

LEMMA NoGiveawayTyped == NoGiveaway \in Giveaways /\ ~NoGiveaway.there
BY DEF NoGiveaway, Giveaways

LEMMA TurnsRuns ==
    ASSUME NEW from, NEW to, Turns(from, to)
    PROVE  \A does : <<does, "staff">> \in steps' <=> (Runs(does) /\ does # from) \/ does \in to
BY DEF Turns, Runs

(* A new run of the staff's adds what it does next, and no more.            *)
LEMMA TurnsTo ==
    ASSUME NEW to, \E from : Turns(from, {to})
    PROVE  \A does : <<does, "staff">> \in steps' => Runs(does) \/ does = to
BY DEF Turns, Runs

LEMMA ButtonIsMessage ==
    \A button, count : button # "none" => [button |-> button, count |-> count] # NoMessage
<1> SUFFICES ASSUME NEW b, NEW c, b # "none", [button |-> b, count |-> c] = NoMessage
             PROVE  FALSE
  OBVIOUS
<1>1. [button |-> b, count |-> c].button = b
  OBVIOUS
<1>2. NoMessage.button = "none"
  BY DEF NoMessage
<1> QED BY <1>1, <1>2

(* What the invariant has to know of the steps and of the records.          *)
LEMMA GiveStep ==
    ASSUME GiveInv, GiveTyped',
           giveaway'.there => giveaway.there \/ FileIsThere \/ Runs("sent"),
           FileIsThere' => giveaway.there \/ FileIsThere \/ Runs("sent"),
           message # NoMessage => message' # NoMessage,
           Runs("sent")' => Runs("sent") /\ ~giveaway'.there,
           announced' = announced,
           Runs("editEnded")' => Runs("editEnded"),
           Runs("announceEnd")' => Runs("announceEnd"),
           IsOpen' => IsOpen \/ FileIsOpen \/ Runs("sent"),
           FileIsOpen' => IsOpen \/ FileIsOpen \/ Runs("sent")
    PROVE  GiveInv'
<1> USE DEF GiveInv
<1>1. Ending' => Ending
  BY DEF Ending
<1>2. StartedOnce'
  BY <1>1 DEF StartedOnce
<1>3. EndsOnce'
  BY DEF EndsOnce
<1> QED BY <1>2, <1>3

(* A step that leaves both records alone, and no run but the ones there are. *)
LEMMA QuietStep ==
    ASSUME GiveInv, giveaway' = giveaway, giveawayFile' = giveawayFile, restored' = restored,
           announced' = announced, rerolls' = rerolls, endTask' \in {"none", "asleep"},
           message # NoMessage => message' # NoMessage,
           ~restored => steps' = steps,
           \A does \in {"sent", "editEnded", "announceEnd"} : Runs(does)' => Runs(does)
    PROVE  GiveInv'
<1> USE DEF GiveInv
<1>1. GiveTyped'
  BY DEF GiveTyped
<1>2. (FileIsThere' <=> FileIsThere) /\ (FileIsOpen' <=> FileIsOpen) /\ (IsOpen' <=> IsOpen)
  BY DEF FileIsThere, FileIsOpen, IsOpen
<1>3. /\ Runs("sent")' => Runs("sent") /\ ~giveaway'.there
      /\ Runs("editEnded")' => Runs("editEnded")
      /\ Runs("announceEnd")' => Runs("announceEnd")
  BY DEF StartedOnce
<1> QED BY <1>1, <1>2, <1>3, GiveStep

LEMMA GiveInitInv == GiveawayInit => GiveInv
<1> SUFFICES ASSUME GiveawayInit PROVE GiveInv
  OBVIOUS
<1>1. GiveTyped
  <2>1. 0 \in 0 .. RerollMax /\ 0 \in Nat
    BY GiveawayAssumption
  <2>2. restored = FALSE /\ giveaway = NoGiveaway /\ giveawayFile = NoGiveaway /\ steps = {}
        /\ endTask = "none" /\ announced = 0 /\ rerolls = 0
    BY DEF GiveawayInit
  <2> QED BY <2>1, <2>2, NoGiveawayTyped DEF GiveTyped
<1>2. ~giveaway.there /\ ~giveawayFile.there /\ announced = 0 /\ \A does : ~Runs(does)
  BY NoGiveawayTyped DEF GiveawayInit, Runs
<1>3. StartedOnce /\ EndsOnce
  BY <1>2 DEF StartedOnce, EndsOnce, Ending, FileIsThere, FileIsOpen, IsOpen
<1> QED BY <1>1, <1>3 DEF GiveInv

LEMMA StartInv ==
    ASSUME GiveInv, StartGiveaway \/ StartSaves \/ StartSchedules \/ StartFails
    PROVE  GiveInv'
<1> USE DEF GiveInv
<1>1. CASE StartGiveaway
  <2>1. /\ restored /\ ~giveaway.there /\ message = NoMessage
        /\ message' = [button |-> "blank", count |-> 0] /\ \E from : Turns(from, {"sent"})
        /\ UNCHANGED <<giveaway, giveawayFile, endTask, restored, announced, rerolls>>
    BY <1>1 DEF StartGiveaway
  <2>2. GiveTyped'
    BY <2>1 DEF GiveTyped
  <2>3. message' # NoMessage
    BY <2>1, ButtonIsMessage
  <2>4. /\ Runs("editEnded")' => Runs("editEnded")
        /\ Runs("announceEnd")' => Runs("announceEnd")
    <3>1. \A does : <<does, "staff">> \in steps' => Runs(does) \/ does = "sent"
      BY <2>1, TurnsTo
    <3> QED BY <3>1 DEF Runs
  <2>5. ~Ending
    BY <2>1 DEF StartedOnce
  <2>6. ~Ending'
    BY <2>1, <2>4, <2>5 DEF Ending
  <2>7. StartedOnce'
    BY <2>1, <2>3, <2>6 DEF StartedOnce
  <2>8. EndsOnce'
    BY <2>1, <2>4 DEF EndsOnce
  <2> QED BY <2>2, <2>7, <2>8
<1>2. CASE StartSaves
  <2>1. /\ Runs("sent") /\ Turns("sent", {"saved"})
        /\ giveaway' = [NoGiveaway EXCEPT !.there = TRUE] /\ giveawayFile' = giveaway'
        /\ UNCHANGED <<endTask, message, restored, announced, rerolls>>
    BY <1>2 DEF StartSaves, SavesGiveaway
  <2>2. giveaway' \in Giveaways
    BY <2>1 DEF NoGiveaway, Giveaways
  <2>3. restored
    BY <2>1 DEF GiveTyped, Runs
  <2>4. GiveTyped'
    BY <2>1, <2>2, <2>3 DEF GiveTyped
  <2>5. /\ ~Runs("sent")' /\ (Runs("editEnded")' => Runs("editEnded"))
        /\ (Runs("announceEnd")' => Runs("announceEnd"))
    BY <2>1, TurnsRuns DEF Runs
  <2> QED BY <2>1, <2>4, <2>5, GiveStep
<1>3. CASE StartSchedules
  <2>1. /\ Runs("saved") /\ Turns("saved", {})
        /\ message' \in {message, [button |-> "open", count |-> Cardinality(giveaway.entrants)]}
        /\ endTask' = "asleep"
        /\ UNCHANGED <<giveaway, giveawayFile, restored, announced, rerolls>>
    BY <1>3 DEF StartSchedules, Schedules
  <2>2. message # NoMessage => message' # NoMessage
    BY <2>1, ButtonIsMessage
  <2>3. \A does \in {"sent", "editEnded", "announceEnd"} : Runs(does)' => Runs(does)
    BY <2>1, TurnsRuns DEF Runs
  <2>4. restored
    BY <2>1 DEF GiveTyped, Runs
  <2> QED BY <2>1, <2>2, <2>3, <2>4, QuietStep
<1>4. CASE StartFails
  <2>1. /\ Runs("saved") /\ Turns("saved", {"failed"})
        /\ UNCHANGED <<giveaway, giveawayFile, endTask, message, restored, announced, rerolls>>
    BY <1>4 DEF StartFails
  <2>2. \A does \in {"sent", "editEnded", "announceEnd"} : Runs(does)' => Runs(does)
    BY <2>1, TurnsRuns DEF Runs
  <2>3. restored /\ endTask' \in {"none", "asleep"}
    BY <2>1 DEF GiveTyped, Runs
  <2> QED BY <2>1, <2>2, <2>3, QuietStep
<1> QED BY <1>1, <1>2, <1>3, <1>4

LEMMA EntryInv ==
    ASSUME GiveInv, NEW m \in Members, EnterGiveaway(m) \/ EntryShown(m)
    PROVE  GiveInv'
<1> USE DEF GiveInv
<1>1. CASE EnterGiveaway(m)
  <2>1. /\ restored /\ giveaway.there /\ ~giveaway.ended
        /\ giveaway' = [giveaway EXCEPT !.entrants = giveaway.entrants \cup {m}]
        /\ giveawayFile' = giveaway' /\ steps' = steps \cup {<<"entered", m>>}
        /\ UNCHANGED <<endTask, message, restored, announced, rerolls>>
    BY <1>1 DEF EnterGiveaway, SavesGiveaway
  <2>2. giveaway \in Giveaways
    BY DEF GiveTyped
  <2>3. giveaway' \in Giveaways /\ giveaway'.there
    BY <2>1, <2>2 DEF Giveaways
  <2>4. GiveTyped'
    BY <2>1, <2>3 DEF GiveTyped
  <2>5. \A does \in {"sent", "editEnded", "announceEnd"} : Runs(does)' => Runs(does)
    BY <2>1 DEF Runs
  <2>6. ~Runs("sent")' /\ IsOpen
    BY <2>1, <2>5 DEF StartedOnce, IsOpen
  <2> QED BY <2>1, <2>4, <2>5, <2>6, GiveStep
<1>2. CASE EntryShown(m)
  <2>1. /\ <<"entered", m>> \in steps /\ steps' = steps \ {<<"entered", m>>}
        /\ message' \in {message, [button |-> "open", count |-> Cardinality(giveaway.entrants)]}
        /\ UNCHANGED <<giveaway, giveawayFile, endTask, restored, announced, rerolls>>
    BY <1>2 DEF EntryShown
  <2>2. message # NoMessage => message' # NoMessage
    BY <2>1, ButtonIsMessage
  <2>3. \A does \in {"sent", "editEnded", "announceEnd"} : Runs(does)' => Runs(does)
    BY <2>1 DEF Runs
  <2>4. restored /\ endTask' \in {"none", "asleep"}
    BY <2>1 DEF GiveTyped
  <2> QED BY <2>1, <2>2, <2>3, <2>4, QuietStep
<1> QED BY <1>1, <1>2

(* Only what is open is ended, and then it has not been announced.          *)
LEMMA FinalizesInv ==
    ASSUME GiveInv, restored, NEW winners \in SUBSET Members, Finalizes(winners),
           endTask' \in {"none", "asleep"},
           UNCHANGED <<message, restored, announced, rerolls>>
    PROVE  GiveInv'
<1> USE DEF GiveInv
<1>1. /\ giveaway' = [giveaway EXCEPT !.ended = TRUE, !.winners = winners]
      /\ giveawayFile' = giveaway' /\ IsOpen /\ \E from : Turns(from, {"editEnded"})
  BY DEF Finalizes, SavesGiveaway
<1>2. giveaway \in Giveaways
  BY DEF GiveTyped
<1>3. giveaway' \in Giveaways /\ giveaway'.there /\ giveaway'.ended
  BY <1>1, <1>2 DEF Giveaways, IsOpen
<1>4. GiveTyped'
  BY <1>1, <1>3 DEF GiveTyped
<1>5. ~Ending /\ ~Runs("sent") /\ message # NoMessage
  BY <1>1 DEF StartedOnce, IsOpen
<1>6. /\ ~Runs("sent")' /\ ~Runs("announceEnd")'
  <2>1. \A does : <<does, "staff">> \in steps' => Runs(does) \/ does = "editEnded"
    BY <1>1, TurnsTo
  <2> QED BY <1>5, <2>1 DEF Runs, Ending
<1>7. announced = 0
  BY <1>5 DEF Ending, GiveTyped
<1>8. StartedOnce'
  BY <1>1, <1>3, <1>5, <1>6 DEF StartedOnce, IsOpen, FileIsOpen
<1>9. EndsOnce'
  BY <1>6, <1>7 DEF EndsOnce
<1> QED BY <1>4, <1>8, <1>9

LEMMA GiveEndInv ==
    ASSUME GiveInv, TaskWakes \/ EndGiveaway \/ EndShown \/ EndAnnounced
    PROVE  GiveInv'
<1> USE DEF GiveInv
<1>1. CASE TaskWakes
  <2>1. endTask' = "none" /\ UNCHANGED <<message, restored, announced, rerolls>>
    BY <1>1 DEF TaskWakes
  <2>2. CASE \E winners \in SUBSET Members : Finalizes(winners)
    <3>1. PICK winners \in SUBSET Members : Finalizes(winners)
      BY <2>2
    <3>2. giveaway.there
      BY <3>1 DEF Finalizes, IsOpen
    <3>3. restored
      BY <3>2, NoGiveawayTyped DEF GiveTyped
    <3> QED BY <2>1, <3>1, <3>3, FinalizesInv
  <2>3. CASE UNCHANGED <<giveaway, giveawayFile, steps>>
    BY <2>1, <2>3, QuietStep DEF Runs
  <2> QED BY <1>1, <2>2, <2>3 DEF TaskWakes
<1>2. CASE EndGiveaway
  <2>1. restored /\ UNCHANGED <<endTask, message, restored, announced, rerolls>>
    BY <1>2 DEF EndGiveaway
  <2>2. PICK winners \in SUBSET Members : Finalizes(winners)
    BY <1>2 DEF EndGiveaway
  <2>3. endTask' \in {"none", "asleep"}
    BY <2>1 DEF GiveTyped
  <2> QED BY <2>1, <2>2, <2>3, FinalizesInv
<1>3. CASE EndShown
  <2>1. /\ Runs("editEnded")
        /\ UNCHANGED <<giveaway, giveawayFile, endTask, restored, announced, rerolls>>
        /\ message' \in {message, [button |-> "closed", count |-> Cardinality(giveaway.entrants)]}
        /\ \/ Turns("editEnded", {"announceEnd"})
           \/ Turns("editEnded", {})
    BY <1>3 DEF EndShown
  <2>2. message # NoMessage => message' # NoMessage
    BY <2>1, ButtonIsMessage
  <2>3. restored /\ endTask' \in {"none", "asleep"}
    BY <2>1 DEF GiveTyped, Runs
  <2>4. ~Runs("editEnded")' /\ (Runs("sent")' => Runs("sent"))
    BY <2>1, TurnsRuns DEF Runs
  <2>5. ~Runs("announceEnd") /\ announced = 0 /\ Ending
    BY <2>1 DEF EndsOnce, GiveTyped, Ending
  <2>6. GiveTyped'
    BY <2>1, <2>3 DEF GiveTyped
  <2>7. StartedOnce'
    BY <2>1, <2>2, <2>4, <2>5 DEF StartedOnce, FileIsThere, FileIsOpen, IsOpen
  <2>8. EndsOnce'
    BY <2>1, <2>4, <2>5 DEF EndsOnce
  <2> QED BY <2>6, <2>7, <2>8
<1>4. CASE EndAnnounced
  <2>1. /\ Runs("announceEnd") /\ Turns("announceEnd", {})
        /\ announced' \in {announced, announced + 1}
        /\ UNCHANGED <<giveaway, giveawayFile, endTask, message, restored, rerolls>>
    BY <1>4 DEF EndAnnounced
  <2>2. /\ ~Runs("announceEnd")' /\ (Runs("sent")' => Runs("sent"))
        /\ (Runs("editEnded")' => Runs("editEnded"))
    BY <2>1, TurnsRuns DEF Runs
  <2>3. restored
    BY <2>1 DEF GiveTyped, Runs
  <2>4. ~Runs("editEnded") /\ announced = 0 /\ Ending
    BY <2>1 DEF EndsOnce, GiveTyped, Ending
  <2>5. GiveTyped'
    BY <2>1, <2>3 DEF GiveTyped
  <2>6. StartedOnce'
    BY <2>1, <2>2, <2>4 DEF StartedOnce, FileIsThere, FileIsOpen, IsOpen
  <2>7. EndsOnce'
    BY <2>1, <2>2, <2>4 DEF EndsOnce
  <2> QED BY <2>5, <2>6, <2>7
<1> QED BY <1>1, <1>2, <1>3, <1>4

LEMMA RerollInv ==
    ASSUME GiveInv, RerollShown \/ \E winners \in SUBSET Members : RerollGiveaway(winners)
    PROVE  GiveInv'
<1> USE DEF GiveInv
<1>1. CASE RerollShown
  <2>1. /\ Runs("announceReroll") /\ Turns("announceReroll", {})
        /\ message' \in {message, [button |-> "closed", count |-> Cardinality(giveaway.entrants)]}
        /\ UNCHANGED <<giveaway, giveawayFile, endTask, restored, announced, rerolls>>
    BY <1>1 DEF RerollShown
  <2>2. message # NoMessage => message' # NoMessage
    BY <2>1, ButtonIsMessage
  <2>3. \A does \in {"sent", "editEnded", "announceEnd"} : Runs(does)' => Runs(does)
    BY <2>1, TurnsRuns DEF Runs
  <2>4. restored /\ endTask' \in {"none", "asleep"}
    BY <2>1 DEF GiveTyped, Runs
  <2> QED BY <2>1, <2>2, <2>3, <2>4, QuietStep
<1>2. ASSUME NEW winners \in SUBSET Members, RerollGiveaway(winners)
      PROVE  GiveInv'
  <2>1. /\ restored /\ giveaway.there /\ giveaway.ended
        /\ rerolls < RerollMax /\ rerolls' = rerolls + 1
        /\ giveaway' = [giveaway EXCEPT !.winners = winners] /\ giveawayFile' = giveaway'
        /\ \E from : Turns(from, {"announceReroll"})
        /\ UNCHANGED <<endTask, message, restored, announced>>
    BY <1>2 DEF RerollGiveaway, SavesGiveaway
  <2>2. giveaway \in Giveaways
    BY DEF GiveTyped
  <2>3. giveaway' \in Giveaways /\ giveaway'.there /\ giveaway'.ended
    BY <2>1, <2>2 DEF Giveaways
  <2>4. rerolls' \in 0 .. RerollMax
    <3>1. rerolls \in 0 .. RerollMax  BY DEF GiveTyped
    <3> QED BY <2>1, <3>1, GiveawayAssumption
  <2>5. GiveTyped'
    BY <2>1, <2>3, <2>4 DEF GiveTyped
  <2>6. \A does \in {"sent", "editEnded", "announceEnd"} : Runs(does)' => Runs(does)
    <3>1. \A does : <<does, "staff">> \in steps' => Runs(does) \/ does = "announceReroll"
      BY <2>1, TurnsTo
    <3> QED BY <3>1 DEF Runs
  <2>7. ~Runs("sent")' /\ ~IsOpen' /\ ~FileIsOpen'
    BY <2>1, <2>3, <2>6 DEF StartedOnce, IsOpen, FileIsOpen
  <2> QED BY <2>1, <2>5, <2>6, <2>7, GiveStep
<1> QED BY <1>1, <1>2

LEMMA GiveRestartInv ==
    ASSUME GiveInv, GiveawayDue \/ GiveawayStops \/ StopsInWrite \/ RestoreGiveaways
    PROVE  GiveInv'
<1> USE DEF GiveInv
<1>1. CASE GiveawayDue
  <2>1. UNCHANGED <<giveaway, giveawayFile, endTask, steps, message, restored, announced, rerolls>>
    BY <1>1 DEF GiveawayDue
  <2>2. endTask' \in {"none", "asleep"}
    BY <2>1 DEF GiveTyped
  <2> QED BY <2>1, <2>2, QuietStep DEF Runs
<1>2. CASE GiveawayStops \/ StopsInWrite
  <2>1. /\ endTask' = "none" /\ steps' = {} /\ restored' = FALSE /\ giveaway' = NoGiveaway
        /\ giveawayFile' \in {giveawayFile, Torn}
        /\ UNCHANGED <<message, announced, rerolls>>
    BY <1>2 DEF GiveawayStops, StopsInWrite, Stops
  <2>2. GiveTyped'
    BY <2>1, NoGiveawayTyped DEF GiveTyped
  <2>3. \A does : ~<<does, "staff">> \in steps'
    BY <2>1
  <2>4. (FileIsThere' => FileIsThere) /\ (FileIsOpen' => FileIsOpen) /\ ~giveaway'.there /\ ~IsOpen'
    BY <2>1, NoGiveawayTyped DEF FileIsThere, FileIsOpen, IsOpen
  <2> QED BY <2>1, <2>2, <2>3, <2>4, GiveStep DEF Runs
<1>3. CASE RestoreGiveaways
  <2>1. /\ ~restored /\ restored' = TRUE /\ giveaway' = Loaded
        /\ giveawayFile' = Loaded
        /\ endTask' \in {"none", "asleep"}
        /\ UNCHANGED <<steps, message, announced, rerolls>>
    BY <1>3 DEF RestoreGiveaways, Loaded
  <2>2. Loaded \in Giveaways /\ (Loaded.there => FileIsThere) /\ (Loaded.there /\ ~Loaded.ended => FileIsOpen)
    BY NoGiveawayTyped DEF Loaded, GiveTyped, FileIsThere, FileIsOpen
  <2>3. GiveTyped'
    BY <2>1, <2>2 DEF GiveTyped
  <2>4. \A does : ~Runs(does)
    BY <2>1 DEF GiveTyped, Runs
  <2>5. \A does \in {"sent", "editEnded", "announceEnd"} : ~Runs(does)'
    BY <2>1, <2>4 DEF Runs
  <2>6. (FileIsThere' => FileIsThere) /\ (FileIsOpen' => FileIsOpen) /\ (IsOpen' => FileIsOpen)
    BY <2>1, <2>2 DEF FileIsThere, FileIsOpen, IsOpen
  <2> QED BY <2>1, <2>2, <2>3, <2>5, <2>6, GiveStep
<1> QED BY <1>1, <1>2, <1>3

LEMMA GiveStepInv == GiveInv /\ [GiveawayNext]_giveawayVars => GiveInv'
<1> SUFFICES ASSUME GiveInv, [GiveawayNext]_giveawayVars PROVE GiveInv'
  OBVIOUS
<1>1. CASE UNCHANGED giveawayVars
  BY <1>1 DEF giveawayVars, GiveInv, GiveTyped, StartedOnce, EndsOnce, Ending, Runs, FileIsThere,
              FileIsOpen, IsOpen
<1>2. CASE StartGiveaway \/ StartSaves \/ StartSchedules \/ StartFails
  BY <1>2, StartInv
<1>3. CASE \E m \in Members : EnterGiveaway(m) \/ EntryShown(m)
  BY <1>3, EntryInv
<1>4. CASE TaskWakes \/ EndGiveaway \/ EndShown \/ EndAnnounced
  BY <1>4, GiveEndInv
<1>5. CASE RerollShown \/ \E winners \in SUBSET Members : RerollGiveaway(winners)
  BY <1>5, RerollInv
<1>6. CASE GiveawayDue \/ GiveawayStops \/ StopsInWrite \/ RestoreGiveaways
  BY <1>6, GiveRestartInv
<1> QED BY <1>1, <1>2, <1>3, <1>4, <1>5, <1>6 DEF GiveawayNext

LEMMA GivePromises == GiveInv => GiveawayTypeOK /\ DrawnOnce
BY DEF GiveInv, GiveTyped, Giveaways, EndsOnce, GiveawayTypeOK, DrawnOnce

---------------------------------------------------------------------------
(* Pay.                                                                    *)

Banlists == [of : [Payees -> 0 .. BansMax], until : [Payees -> Int], lastReset : 0 .. PayWeeks]

(* Memory and disk agree, since a command writes in one turn.              *)
PayTyped ==
    /\ voids.mem \in [Payees -> 0 .. VoidsMax] /\ voids.mem = voids.disk
    /\ bans.mem \in Banlists /\ bans.mem = bans.disk
    /\ announcing \in {"loop", "command", "nobody"}
    /\ payWeek \in 1 .. PayWeeks /\ payMinute \in 0 .. PayMinutes
    /\ resets \in [1 .. PayWeeks -> Nat] /\ posted \in [PayWindows -> Nat]
    /\ announceKey \in Int

(* A reset that was announced is on record, and one that is about to be     *)
(* announced is recorded already and was announced by nobody.               *)
ResetsAreKnown ==
    /\ bans.mem.lastReset <= payWeek
    /\ \A w \in 1 .. PayWeeks : resets[w] <= 1 /\ (resets[w] = 1 => w <= bans.mem.lastReset)
    /\ announcing # "nobody" => bans.mem.lastReset = payWeek /\ resets[payWeek] = 0

(* What this process announced is not later than the minute it remembers.   *)
WindowsAreKnown ==
    /\ announceKey <= payMinute
    /\ \A m \in PayWindows :
         /\ posted[m] <= 1
         /\ m \in Int /\ posted[m] = 1 => m <= announceKey

PayInv == PayTyped /\ ResetsAreKnown /\ WindowsAreKnown

LEMMA BanDaysInt ==
    ASSUME NEW offences \in Int
    PROVE  BanDays(offences) \in Int
<1>1. PICK x \in {offences, 3} : \A y \in {offences, 3} : x <= y
  <2>1. CASE offences <= 3
    BY <2>1
  <2>2. CASE 3 <= offences
    BY <2>2
  <2> QED BY <2>1, <2>2
<1>2. \E x0 \in {offences, 3} : \A y \in {offences, 3} : x0 <= y
  BY <1>1
<1>3. BanDays(offences) \in {offences, 3}
  BY <1>2 DEF BanDays, Min
<1> QED BY <1>3

(* Offences stay within their bound, whatever is recorded.                  *)
LEMMA BannedTyped ==
    ASSUME PayTyped, NEW u \in Payees, voids.mem[u] < VoidsMax, bans.mem.of[u] < BansMax
    PROVE  /\ Voided(u) \in [Payees -> 0 .. VoidsMax]
           /\ Banned(u) \in Banlists /\ Banned(u).lastReset = bans.mem.lastReset
<1>0. /\ voids.mem \in [Payees -> 0 .. VoidsMax] /\ bans.mem \in Banlists
      /\ bans.mem.of \in [Payees -> 0 .. BansMax] /\ VoidsMax \in Nat /\ BansMax \in Nat
  BY PayAssumption DEF PayTyped, Banlists
<1>1. voids.mem[u] + 1 \in 0 .. VoidsMax /\ bans.mem.of[u] + 1 \in 0 .. BansMax
  <2>1. voids.mem[u] \in 0 .. VoidsMax /\ bans.mem.of[u] \in 0 .. BansMax
    BY <1>0
  <2> QED BY <1>0, <2>1
<1>2. Voided(u) \in [Payees -> 0 .. VoidsMax]
  BY <1>1 DEF Voided, PayTyped
<1>3. BanDays(bans.mem.of[u] + 1) \in Int
  BY <1>1, BanDaysInt
<1>4. CASE ~Issues(voids.mem[u] + 1)
  <2>1. Banned(u) = bans.mem  BY <1>4 DEF Banned
  <2> QED BY <1>2, <2>1 DEF PayTyped
<1>5. CASE Issues(voids.mem[u] + 1)
  <2> DEFINE days == BanDays(bans.mem.of[u] + 1)
             offs == [bans.mem.of EXCEPT ![u] = bans.mem.of[u] + 1]
  <2>1. Banned(u) = [bans.mem EXCEPT !.of = offs, !.until = [bans.mem.until EXCEPT ![u] = days]]
    BY <1>5 DEF Banned
  <2>2. days \in Int  BY <1>3
  <2>3. offs \in [Payees -> 0 .. BansMax]  BY <1>0, <1>1
  <2> HIDE DEF days, offs
  <2>4. [bans.mem.until EXCEPT ![u] = days] \in [Payees -> Int]
    BY <1>0, <2>2 DEF Banlists
  <2>5. Banned(u) \in Banlists /\ Banned(u).lastReset = bans.mem.lastReset
    BY <1>0, <2>1, <2>3, <2>4 DEF Banlists
  <2> QED BY <1>2, <2>5
<1> QED BY <1>4, <1>5

LEMMA NoBansTyped == NoBans \in Banlists /\ NoVoids \in [Payees -> 0 .. VoidsMax]
BY PayAssumption DEF NoBans, NoVoids, Banlists

LEMMA SavedIs == \A doc : Saved(doc).mem = doc /\ Saved(doc).disk = doc
BY DEF Saved

LEMMA PayInitInv == PayInit => PayInv
<1> SUFFICES ASSUME PayInit PROVE PayInv
  OBVIOUS
<1> USE PayAssumption DEF PayInit
<1>1. PayTyped
  BY NoBansTyped, SavedIs DEF PayTyped, NoResets, NoKey
<1>2. bans.mem.lastReset = 0
  BY SavedIs DEF NoBans
<1>3. ResetsAreKnown
  BY <1>2 DEF ResetsAreKnown, NoResets
<1>4. WindowsAreKnown
  BY DEF WindowsAreKnown, NoKey
<1> QED BY <1>1, <1>3, <1>4 DEF PayInv

(* A step that records no reset and announces none.                         *)
LEMMA RecordsOnly ==
    ASSUME PayInv,
           voids'.mem \in [Payees -> 0 .. VoidsMax], voids'.mem = voids'.disk,
           bans'.mem \in Banlists, bans'.mem = bans'.disk,
           bans'.mem.lastReset = bans.mem.lastReset,
           announcing' \in {announcing, "nobody"},
           UNCHANGED <<payWeek, payMinute, announceKey, resets, posted>>
    PROVE  PayInv'
<1>1. PayTyped'
  BY DEF PayInv, PayTyped
<1>2. ResetsAreKnown'
  BY DEF PayInv, ResetsAreKnown
<1>3. WindowsAreKnown'
  BY DEF PayInv, WindowsAreKnown
<1> QED BY <1>1, <1>2, <1>3 DEF PayInv

LEMMA RecordVoidInv ==
    ASSUME PayInv, NEW u \in Payees, RecordVoid(u) \/ VoidInterrupted(u) \/ ResetCounter(u)
    PROVE  PayInv'
<1> USE DEF PayInv
<1>1. CASE RecordVoid(u)
  <2>1. /\ voids' = Saved(Voided(u)) /\ bans' = Saved(Banned(u))
        /\ voids.mem[u] < VoidsMax /\ bans.mem.of[u] < BansMax
        /\ UNCHANGED <<announcing, payWeek, payMinute, announceKey, resets, posted>>
    BY <1>1 DEF RecordVoid
  <2>2. /\ Voided(u) \in [Payees -> 0 .. VoidsMax] /\ Banned(u) \in Banlists
        /\ Banned(u).lastReset = bans.mem.lastReset
    BY <2>1, BannedTyped
  <2> QED BY <2>1, <2>2, SavedIs, RecordsOnly
<1>2. CASE VoidInterrupted(u)
  <2>1. /\ voids' = Saved(Voided(u)) /\ voids.mem[u] < VoidsMax /\ bans.mem.of[u] < BansMax
        /\ announcing' = "nobody"
        /\ UNCHANGED <<payWeek, payMinute, announceKey, posted>>
    BY <1>2 DEF VoidInterrupted, Down
  <2>2. Voided(u) \in [Payees -> 0 .. VoidsMax]
    BY <2>1, BannedTyped
  <2>3. CASE bans' = bans /\ resets' = resets
    <3>1. bans'.mem \in Banlists /\ bans'.mem = bans'.disk /\ bans'.mem.lastReset = bans.mem.lastReset
      BY <2>3 DEF PayTyped
    <3> QED BY <2>1, <2>2, <2>3, <3>1, SavedIs, RecordsOnly
  <2>4. CASE bans' = Saved(NoBans) /\ resets' = NoResets
    <3>1. bans'.mem = NoBans /\ bans'.disk = NoBans /\ NoBans.lastReset = 0
      BY <2>4, SavedIs DEF NoBans
    <3>2. PayTyped'
      BY <2>1, <2>2, <2>4, <3>1, NoBansTyped, SavedIs DEF PayTyped, NoResets
    <3>3. ResetsAreKnown'
      BY <2>1, <2>4, <3>1 DEF ResetsAreKnown, NoResets, PayTyped
    <3>4. WindowsAreKnown'
      BY <2>1 DEF WindowsAreKnown
    <3> QED BY <3>2, <3>3, <3>4
  <2> QED BY <1>2, <2>3, <2>4 DEF VoidInterrupted
<1>3. CASE ResetCounter(u)
  <2>1. /\ bans' = Saved([bans.mem EXCEPT !.of[u] = 0, !.until[u] = 0])
        /\ UNCHANGED <<voids, announcing, payWeek, payMinute, announceKey, resets, posted>>
    BY <1>3 DEF ResetCounter
  <2>2. 0 \in 0 .. BansMax /\ bans.mem \in Banlists
    BY PayAssumption DEF PayTyped
  <2>3. /\ [bans.mem EXCEPT !.of[u] = 0, !.until[u] = 0] \in Banlists
        /\ [bans.mem EXCEPT !.of[u] = 0, !.until[u] = 0].lastReset = bans.mem.lastReset
    <3> DEFINE offs == [bans.mem.of EXCEPT ![u] = 0]
               ends == [bans.mem.until EXCEPT ![u] = 0]
    <3>1. [bans.mem EXCEPT !.of[u] = 0, !.until[u] = 0] = [bans.mem EXCEPT !.of = offs, !.until = ends]
      OBVIOUS
    <3>2. offs \in [Payees -> 0 .. BansMax] /\ ends \in [Payees -> Int]
      BY <2>2 DEF Banlists
    <3> HIDE DEF offs, ends
    <3> QED BY <2>2, <3>1, <3>2 DEF Banlists
  <2>4. voids'.mem \in [Payees -> 0 .. VoidsMax] /\ voids'.mem = voids'.disk
    BY <2>1 DEF PayTyped
  <2> QED BY <2>1, <2>3, <2>4, SavedIs, RecordsOnly
<1> QED BY <1>1, <1>2, <1>3

LEMMA ResetInv ==
    ASSUME PayInv, ResetByLoop \/ ResetByCommand \/ ResetInterrupted
    PROVE  PayInv'
<1> USE DEF PayInv
<1>1. CASE ResetByLoop \/ ResetByCommand
  <2>1. /\ voids' = Saved(NoVoids) /\ bans' = Saved([bans.mem EXCEPT !.lastReset = payWeek])
        /\ announcing' \in {"loop", "command"}
        /\ bans.mem.lastReset # payWeek
        /\ UNCHANGED <<payWeek, payMinute, announceKey, resets, posted>>
    BY <1>1 DEF ResetByLoop, ResetByCommand, ResetWeek, HasReset
  <2>2. payWeek \in 0 .. PayWeeks /\ bans.mem \in Banlists
    BY PayAssumption DEF PayTyped
  <2>3. /\ bans'.mem \in Banlists /\ bans'.mem = bans'.disk /\ bans'.mem.lastReset = payWeek
    BY <2>1, <2>2, SavedIs DEF Banlists
  <2>4. PayTyped'
    BY <2>1, <2>3, NoBansTyped, SavedIs DEF PayTyped
  <2>5. bans.mem.lastReset \in 0 .. PayWeeks /\ bans.mem.lastReset < payWeek
    BY <2>1, <2>2 DEF ResetsAreKnown, PayTyped, Banlists
  <2>6. resets[payWeek] = 0
    BY <2>5 DEF ResetsAreKnown, PayTyped
  <2>7. \A w \in 1 .. PayWeeks : resets[w] = 1 => w <= payWeek
    BY <2>5 DEF ResetsAreKnown, PayTyped
  <2>8. ResetsAreKnown'
    <3>1. bans'.mem.lastReset <= payWeek'  BY <2>1, <2>2, <2>3
    <3>2. \A w \in 1 .. PayWeeks : resets'[w] <= 1 /\ (resets'[w] = 1 => w <= bans'.mem.lastReset)
      BY <2>1, <2>3, <2>7 DEF ResetsAreKnown
    <3> QED BY <2>1, <2>3, <2>6, <3>1, <3>2 DEF ResetsAreKnown
  <2>9. WindowsAreKnown'
    BY <2>1 DEF WindowsAreKnown
  <2> QED BY <2>4, <2>8, <2>9
<1>2. CASE ResetInterrupted
  <2>1. /\ voids' = Saved(NoVoids) /\ bans' = bans /\ announcing' = "nobody"
        /\ UNCHANGED <<payWeek, payMinute, announceKey, resets, posted>>
    BY <1>2 DEF ResetInterrupted, Down
  <2>2. bans'.mem \in Banlists /\ bans'.mem = bans'.disk /\ bans'.mem.lastReset = bans.mem.lastReset
    BY <2>1 DEF PayTyped
  <2> QED BY <2>1, <2>2, NoBansTyped, SavedIs, RecordsOnly
<1> QED BY <1>1, <1>2

LEMMA AnnouncesInv ==
    ASSUME PayInv, AnnouncesReset \/ AnnounceFails \/ AnnouncesWindow
    PROVE  PayInv'
<1> USE DEF PayInv
<1>1. CASE AnnouncesReset
  <2>1. /\ announcing # "nobody" /\ announcing' = "nobody"
        /\ resets' = [resets EXCEPT ![payWeek] = resets[payWeek] + 1]
        /\ UNCHANGED <<voids, bans, payWeek, payMinute, announceKey, posted>>
    BY <1>1 DEF AnnouncesReset
  <2>2. resets[payWeek] = 0 /\ bans.mem.lastReset = payWeek
    BY <2>1 DEF ResetsAreKnown
  <2>3. /\ resets' \in [1 .. PayWeeks -> Nat]
        /\ \A w \in 1 .. PayWeeks : resets'[w] = (IF w = payWeek THEN 1 ELSE resets[w])
    BY <2>1, <2>2 DEF PayTyped
  <2>4. PayTyped'
    BY <2>1, <2>3 DEF PayTyped
  <2>5. ResetsAreKnown'
    BY <2>1, <2>2, <2>3 DEF ResetsAreKnown, PayTyped
  <2>6. WindowsAreKnown'
    BY <2>1 DEF WindowsAreKnown
  <2> QED BY <2>4, <2>5, <2>6
<1>2. CASE AnnounceFails
  <2>1. announcing' = "nobody"
        /\ UNCHANGED <<voids, bans, payWeek, payMinute, announceKey, resets, posted>>
    BY <1>2 DEF AnnounceFails
  <2>2. /\ voids'.mem \in [Payees -> 0 .. VoidsMax] /\ voids'.mem = voids'.disk
        /\ bans'.mem \in Banlists /\ bans'.mem = bans'.disk
    BY <2>1 DEF PayTyped
  <2> QED BY <2>1, <2>2, RecordsOnly
<1>3. CASE AnnouncesWindow
  <2>1. /\ payMinute \in PayWindows /\ announceKey # payMinute /\ announceKey' = payMinute
        /\ posted' = [posted EXCEPT ![payMinute] = posted[payMinute] + 1]
        /\ UNCHANGED <<voids, bans, announcing, payWeek, payMinute, resets>>
    BY <1>3 DEF AnnouncesWindow, Remembers
  <2>2. payMinute \in Int /\ announceKey \in Int /\ announceKey < payMinute
    BY <2>1 DEF PayTyped, WindowsAreKnown
  <2>3. posted[payMinute] = 0
    BY <2>1, <2>2 DEF PayTyped, WindowsAreKnown
  <2>4. /\ posted' \in [PayWindows -> Nat]
        /\ \A m \in PayWindows : posted'[m] = (IF m = payMinute THEN 1 ELSE posted[m])
    BY <2>1, <2>3 DEF PayTyped
  <2>5. PayTyped'
    BY <2>1, <2>2, <2>4 DEF PayTyped
  <2>6. ResetsAreKnown'
    BY <2>1 DEF ResetsAreKnown
  <2>7. ASSUME NEW m \in PayWindows
        PROVE  posted'[m] <= 1 /\ (m \in Int /\ posted'[m] = 1 => m <= announceKey')
    BY <2>1, <2>2, <2>4 DEF WindowsAreKnown
  <2>8. announceKey' <= payMinute'
    BY <2>1, <2>2
  <2>9. WindowsAreKnown'
    BY <2>7, <2>8 DEF WindowsAreKnown
  <2> QED BY <2>5, <2>6, <2>9
<1> QED BY <1>1, <1>2, <1>3

LEMMA PayTimeInv ==
    ASSUME PayInv, WeekPasses \/ MinutePasses \/ PayStops \/ PayStarts
    PROVE  PayInv'
<1> USE DEF PayInv
<1>1. CASE WeekPasses
  <2>1. /\ payWeek < PayWeeks /\ announcing = "nobody" /\ payWeek' = payWeek + 1
        /\ UNCHANGED <<voids, bans, announcing, payMinute, announceKey, resets, posted>>
    BY <1>1 DEF WeekPasses
  <2>2. PayTyped'
    BY <2>1, PayAssumption DEF PayTyped
  <2>3. bans.mem.lastReset \in Int
    BY DEF PayTyped, Banlists
  <2>4. ResetsAreKnown'
    BY <2>1, <2>3 DEF ResetsAreKnown, PayTyped
  <2>5. WindowsAreKnown'
    BY <2>1 DEF WindowsAreKnown
  <2> QED BY <2>2, <2>4, <2>5
<1>2. CASE MinutePasses
  <2>1. /\ payMinute < PayMinutes /\ payMinute' = payMinute + 1
        /\ UNCHANGED <<voids, bans, announcing, payWeek, announceKey, resets, posted>>
    BY <1>2 DEF MinutePasses
  <2>2. PayTyped'
    BY <2>1, PayAssumption DEF PayTyped
  <2>3. ResetsAreKnown'
    BY <2>1 DEF ResetsAreKnown
  <2>4. WindowsAreKnown'
    BY <2>1 DEF WindowsAreKnown, PayTyped
  <2> QED BY <2>2, <2>3, <2>4
<1>3. CASE PayStops
  <2>1. announcing' = "nobody"
        /\ UNCHANGED <<voids, bans, payWeek, payMinute, announceKey, resets, posted>>
    BY <1>3 DEF PayStops, Down
  <2>2. /\ voids'.mem \in [Payees -> 0 .. VoidsMax] /\ voids'.mem = voids'.disk
        /\ bans'.mem \in Banlists /\ bans'.mem = bans'.disk
    BY <2>1 DEF PayTyped
  <2> QED BY <2>1, <2>2, RecordsOnly
<1>4. CASE PayStarts
  <2>1. /\ voids' = Saved(voids.disk) /\ bans' = Saved(bans.disk)
        /\ announceKey' = -1 /\ posted' = [m \in PayWindows |-> 0]
        /\ UNCHANGED <<announcing, payWeek, payMinute, resets>>
    BY <1>4 DEF PayStarts, NoKey
  <2>2. /\ voids'.mem = voids.mem /\ voids'.disk = voids.mem
        /\ bans'.mem = bans.mem /\ bans'.disk = bans.mem
    BY <2>1, SavedIs DEF PayTyped
  <2>3. PayTyped'
    BY <2>1, <2>2 DEF PayTyped
  <2>4. ResetsAreKnown'
    BY <2>1, <2>2 DEF ResetsAreKnown
  <2>5. WindowsAreKnown'
    BY <2>1 DEF WindowsAreKnown, PayTyped
  <2> QED BY <2>3, <2>4, <2>5
<1> QED BY <1>1, <1>2, <1>3, <1>4

LEMMA PayStepInv == PayInv /\ [PayNext]_payVars => PayInv'
<1> SUFFICES ASSUME PayInv, [PayNext]_payVars PROVE PayInv'
  OBVIOUS
<1>1. CASE UNCHANGED payVars
  BY <1>1 DEF payVars, PayInv, PayTyped, ResetsAreKnown, WindowsAreKnown
<1>2. CASE \E u \in Payees : RecordVoid(u) \/ VoidInterrupted(u) \/ ResetCounter(u)
  BY <1>2, RecordVoidInv
<1>3. CASE ResetByLoop \/ ResetByCommand \/ ResetInterrupted
  BY <1>3, ResetInv
<1>4. CASE AnnouncesReset \/ AnnounceFails \/ AnnouncesWindow
  BY <1>4, AnnouncesInv
<1>5. CASE WeekPasses \/ MinutePasses \/ PayStops \/ PayStarts
  BY <1>5, PayTimeInv
<1> QED BY <1>1, <1>2, <1>3, <1>4, <1>5 DEF PayNext

LEMMA PayPromises == PayInv => PayTypeOK /\ ResetAnnouncedOnce /\ WindowPostedOnce
BY DEF PayInv, PayTyped, Banlists, ResetsAreKnown, WindowsAreKnown, PayTypeOK,
       ResetAnnouncedOnce, WindowPostedOnce

---------------------------------------------------------------------------
(* Mutes.                                                                  *)

(* What a /mute under way is doing.                                         *)
MuteJobs == [next : {"idle", "creating", "denying", "timing"},
             role : MuteRoles \cup {Unset}, todo : SUBSET MuteChannels]

(* The roles that are used are roles of the guild.                          *)
MuteTyped ==
    /\ MuteTypeOK /\ IsFiniteSet(muteRoles)
    /\ muting \in [Muted -> MuteJobs]
    /\ \A m \in Muted :
         /\ muting[m].todo # {} => muting[m].next = "denying"
         /\ muting[m].next \in {"denying", "timing"} => muting[m].role \in muteRoles
    /\ roleOf \in [Muted -> SUBSET muteRoles]
    /\ channels \subseteq MuteChannels /\ fresh \subseteq channels /\ refused \subseteq channels

(* With one role, a channel that nobody has yet to look at is denied to it  *)
(* as soon as a command has gone through the channels.                      *)
Handled(c) == c \in channels \ (fresh \cup refused)
Denied(c, role) == <<c, role>> \in denied
WhileDenying(role) ==
    \A m \in Muted, c \in MuteChannels :
        muting[m].next = "denying" /\ Handled(c) /\ c \notin muting[m].todo => Denied(c, role)
OnceDenied(role) ==
    \A m \in Muted, c \in MuteChannels :
        roleOf[m] # {} /\ Handled(c) => Denied(c, role)

MuteInv ==
    /\ MuteTyped
    /\ \A role \in MuteRoles : muteRoles = {role} => WhileDenying(role) /\ OnceDenied(role)

LEMMA ResolvesToRole ==
    ASSUME MuteTyped, NEW role \in muteRoles \cup {Unset}, Resolves(role)
    PROVE  /\ role # Unset => role \in muteRoles
           /\ role = Unset <=> muteRoles = {}
BY MuteAssumption DEF Resolves, Unset, MuteTyped, MuteTypeOK

(* A command takes a turn: it goes on, begins to deny or is over.           *)
LEMMA TurnTyped ==
    ASSUME MuteTyped, NEW m \in Muted, NEW job \in MuteJobs,
           muting' = [muting EXCEPT ![m] = job],
           job.todo # {} => job.next = "denying",
           job.next \in {"denying", "timing"} => job.role \in muteRoles',
           muteRoles \subseteq muteRoles'
    PROVE  /\ muting' \in [Muted -> MuteJobs] /\ muting'[m] = job
           /\ \A x \in Muted : x # m => muting'[x] = muting[x]
           /\ \A x \in Muted :
                /\ muting'[x].todo # {} => muting'[x].next = "denying"
                /\ muting'[x].next \in {"denying", "timing"} => muting'[x].role \in muteRoles'
<1>1. muting' \in [Muted -> MuteJobs] /\ muting'[m] = job
  BY DEF MuteTyped
<1>2. \A x \in Muted : x # m => muting'[x] = muting[x]
  BY DEF MuteTyped
<1>3. ASSUME NEW x \in Muted
      PROVE  /\ muting'[x].todo # {} => muting'[x].next = "denying"
             /\ muting'[x].next \in {"denying", "timing"} => muting'[x].role \in muteRoles'
  <2>1. CASE x = m  BY <1>1, <2>1
  <2>2. CASE x # m
    <3>1. muting'[x] = muting[x]  BY <1>2, <2>2
    <3>2. /\ muting[x].todo # {} => muting[x].next = "denying"
          /\ muting[x].next \in {"denying", "timing"} => muting[x].role \in muteRoles
      BY DEF MuteTyped
    <3>3. QED  BY <3>1, <3>2
  <2>3. QED  BY <2>1, <2>2
<1>4. QED  BY <1>1, <1>2, <1>3

LEMMA IdleJob == Idle \in MuteJobs /\ Idle.todo = {} /\ Idle.next = "idle"
BY DEF Idle, MuteJobs

LEMMA JobFacts ==
    ASSUME MuteTyped, NEW m \in Muted
    PROVE  /\ muting[m] \in MuteJobs
           /\ muting[m].todo # {} => muting[m].next = "denying"
           /\ muting[m].next \in {"denying", "timing"} => muting[m].role \in muteRoles
BY DEF MuteTyped

(* A step that neither changes the roles, the channels nor what is denied,  *)
(* and begins nothing but a walk through all channels.                      *)
LEMMA MuteTurn ==
    ASSUME MuteInv, NEW m \in Muted, NEW job \in MuteJobs,
           muting' = [muting EXCEPT ![m] = job],
           job.todo # {} => job.next = "denying",
           job.next \in {"denying", "timing"} => job.role \in muteRoles,
           job.next = "denying" => job.todo = channels,
           configured' \in MuteRoles \cup {Unset},
           UNCHANGED <<muteRoles, roleOf, denied, channels, fresh, refused, removing>>
    PROVE  MuteInv'
<1>1. MuteTyped /\ muteRoles \subseteq muteRoles'  BY DEF MuteInv
<1>2. /\ muting' \in [Muted -> MuteJobs] /\ muting'[m] = job
      /\ \A x \in Muted : x # m => muting'[x] = muting[x]
      /\ \A x \in Muted :
           /\ muting'[x].todo # {} => muting'[x].next = "denying"
           /\ muting'[x].next \in {"denying", "timing"} => muting'[x].role \in muteRoles'
  BY <1>1, TurnTyped
<1>3. MuteTyped'  BY <1>1, <1>2 DEF MuteTyped, MuteTypeOK
<1>4. ASSUME NEW role \in MuteRoles, muteRoles' = {role}
      PROVE  WhileDenying(role)' /\ OnceDenied(role)'
  <2>1. WhileDenying(role) /\ OnceDenied(role)  BY <1>4 DEF MuteInv
  <2>2. OnceDenied(role)'  BY <2>1 DEF OnceDenied, Handled, Denied
  <2>3. ASSUME NEW x \in Muted, NEW c \in MuteChannels, muting'[x].next = "denying",
               Handled(c)', c \notin muting'[x].todo
        PROVE  Denied(c, role)'
    <3>1. CASE x = m  BY <1>2, <2>3, <3>1 DEF Handled
    <3>2. CASE x # m  BY <1>2, <2>1, <2>3, <3>2 DEF WhileDenying, Handled, Denied
    <3>3. QED  BY <3>1, <3>2
  <2>4. WhileDenying(role)'  BY <2>3 DEF WhileDenying
  <2>5. QED  BY <2>2, <2>4
<1>5. QED  BY <1>3, <1>4 DEF MuteInv

LEMMA BeginsMuteInv ==
    ASSUME MuteInv, NEW m \in Muted, BeginsMute(m) PROVE MuteInv'
<1>1. MuteTyped /\ channels \in SUBSET MuteChannels /\ muteRoles \subseteq MuteRoles
      /\ muting[m] \in MuteJobs
  BY JobFacts DEF MuteInv, MuteTyped, MuteTypeOK
<1>2. PICK role \in muteRoles \cup {Unset} :
         /\ Resolves(role)
         /\ IF role = Unset THEN Turn(m, "creating") /\ UNCHANGED configured
            ELSE Denies(m, role) /\ configured' = role
  BY DEF BeginsMute
<1>3. UNCHANGED <<muteRoles, roleOf, denied, channels, fresh, refused, removing>>
  BY DEF BeginsMute
<1>4. CASE role = Unset
  <2> DEFINE job == [muting[m] EXCEPT !.next = "creating"]
  <2>1. muting' = [muting EXCEPT ![m] = job] /\ configured' = configured
    BY <1>2, <1>4 DEF Turn
  <2>2. muting[m].next = "idle" /\ muting[m].todo = {}
    BY <1>1, JobFacts DEF BeginsMute
  <2>3. job \in MuteJobs /\ job.todo = {} /\ job.next = "creating"
    BY <1>1, <2>2 DEF MuteJobs
  <2>4. configured' \in MuteRoles \cup {Unset}
    BY <1>1, <2>1 DEF MuteTyped, MuteTypeOK
  <2> HIDE DEF job
  <2>5. QED  BY <1>3, <2>1, <2>3, <2>4, MuteTurn
<1>5. CASE role # Unset
  <2> DEFINE job == [next |-> "denying", role |-> role, todo |-> channels]
  <2>1. muting' = [muting EXCEPT ![m] = job] /\ configured' = role /\ role \in muteRoles
    BY <1>2, <1>5 DEF Denies
  <2>2. /\ job \in MuteJobs /\ job.todo = channels /\ job.next = "denying"
        /\ job.role \in muteRoles
    BY <1>1, <2>1 DEF MuteJobs
  <2>3. configured' \in MuteRoles \cup {Unset}  BY <1>1, <2>1
  <2> HIDE DEF job
  <2>4. QED  BY <1>3, <2>1, <2>2, <2>3, MuteTurn
<1>6. QED  BY <1>4, <1>5

(* The role created is the only one if there was none; then nobody has it.  *)
LEMMA CreatesRoleInv ==
    ASSUME MuteInv, NEW m \in Muted, NEW new \in MuteRoles, CreatesRole(m, new)
    PROVE  MuteInv'
<1>1. MuteTyped /\ channels \in SUBSET MuteChannels /\ muteRoles \subseteq MuteRoles
      /\ muting[m] \in MuteJobs
  BY JobFacts DEF MuteInv, MuteTyped, MuteTypeOK
<1> DEFINE job == [next |-> "denying", role |-> new, todo |-> channels]
<1>2. /\ muteRoles' = muteRoles \cup {new} /\ configured' = new
      /\ muting' = [muting EXCEPT ![m] = job] /\ new \notin muteRoles
      /\ UNCHANGED <<roleOf, denied, channels, fresh, refused, removing>>
  BY DEF CreatesRole, Denies
<1>3. /\ job \in MuteJobs /\ job.todo = channels /\ job.next = "denying"
      /\ job.role \in muteRoles'
  BY <1>1, <1>2 DEF MuteJobs
<1> HIDE DEF job
<1>4. /\ muting' \in [Muted -> MuteJobs] /\ muting'[m] = job
      /\ \A x \in Muted : x # m => muting'[x] = muting[x]
      /\ \A x \in Muted :
           /\ muting'[x].todo # {} => muting'[x].next = "denying"
           /\ muting'[x].next \in {"denying", "timing"} => muting'[x].role \in muteRoles'
  BY <1>1, <1>2, <1>3, TurnTyped
<1>5. MuteTyped'
  <2>1. IsFiniteSet(muteRoles')  BY <1>1, <1>2, FS_AddElement DEF MuteTyped
  <2>2. roleOf' \in [Muted -> SUBSET muteRoles']  BY <1>1, <1>2 DEF MuteTyped
  <2>3. MuteTypeOK'  BY <1>1, <1>2 DEF MuteTyped, MuteTypeOK
  <2>4. QED  BY <1>1, <1>2, <1>4, <2>1, <2>2, <2>3 DEF MuteTyped
<1>6. ASSUME NEW role \in MuteRoles, muteRoles' = {role}
      PROVE  WhileDenying(role)' /\ OnceDenied(role)'
  <2>1. muteRoles = {}  BY <1>2, <1>6
  <2>2. \A x \in Muted : roleOf'[x] = {} /\ muting[x].next \notin {"denying", "timing"}
    BY <1>1, <1>2, <2>1 DEF MuteTyped
  <2>3. \A x \in Muted : muting'[x].next = "denying" => muting'[x].todo = channels
    BY <1>3, <1>4, <2>2
  <2>4. QED  BY <1>2, <2>2, <2>3 DEF WhileDenying, OnceDenied, Handled
<1>7. QED  BY <1>5, <1>6 DEF MuteInv

LEMMA DeniesChannelInv ==
    ASSUME MuteInv, NEW m \in Muted, NEW c \in MuteChannels, DeniesChannel(m, c)
    PROVE  MuteInv'
<1> DEFINE job == [muting[m] EXCEPT !.todo = muting[m].todo \ {c}]
<1>1. MuteTyped /\ muting[m] \in MuteJobs /\ muting[m].role \in muteRoles
      /\ muting[m].next = "denying" /\ muteRoles \subseteq MuteRoles
  <2>1. MuteTyped /\ muting[m].todo # {}  BY DEF MuteInv, DeniesChannel
  <2>2. QED  BY <2>1, JobFacts DEF MuteTyped, MuteTypeOK
<1>2. /\ muting' = [muting EXCEPT ![m] = job]
      /\ denied' = denied \cup {<<c, muting[m].role>>}
      /\ UNCHANGED <<muteRoles, roleOf, configured, channels, fresh, refused, removing>>
  BY <1>1 DEF DeniesChannel, MuteTyped
<1>3. /\ job \in MuteJobs /\ job.todo = muting[m].todo \ {c} /\ job.next = "denying"
      /\ job.role = muting[m].role
  BY <1>1 DEF MuteJobs
<1> HIDE DEF job
<1>4. /\ muting' \in [Muted -> MuteJobs] /\ muting'[m] = job
      /\ \A x \in Muted : x # m => muting'[x] = muting[x]
      /\ \A x \in Muted :
           /\ muting'[x].todo # {} => muting'[x].next = "denying"
           /\ muting'[x].next \in {"denying", "timing"} => muting'[x].role \in muteRoles'
  BY <1>1, <1>2, <1>3, TurnTyped
<1>5. MuteTyped'
  <2>1. denied' \subseteq MuteChannels \X MuteRoles
    BY <1>1, <1>2 DEF MuteTyped, MuteTypeOK
  <2>2. QED  BY <1>1, <1>2, <1>4, <2>1 DEF MuteTyped, MuteTypeOK
<1>6. ASSUME NEW role \in MuteRoles, muteRoles' = {role}
      PROVE  WhileDenying(role)' /\ OnceDenied(role)'
  <2>1. WhileDenying(role) /\ OnceDenied(role)  BY <1>2, <1>6 DEF MuteInv
  <2>2. Denied(c, role)'  BY <1>1, <1>2, <1>6 DEF Denied
  <2>3. \A x \in MuteChannels : Denied(x, role) => Denied(x, role)'
    BY <1>2 DEF Denied
  <2>4. ASSUME NEW x \in Muted, NEW d \in MuteChannels, muting'[x].next = "denying",
               Handled(d)', d \notin muting'[x].todo
        PROVE  Denied(d, role)'
    <3>1. Handled(d)  BY <1>2, <2>4 DEF Handled
    <3>2. CASE d = c  BY <2>2, <3>2
    <3>3. CASE d # c
      <4>1. muting[x].next = "denying" /\ d \notin muting[x].todo
        BY <1>1, <1>3, <1>4, <2>4, <3>3
      <4>2. QED  BY <2>1, <2>3, <3>1, <4>1 DEF WhileDenying
    <3>4. QED  BY <3>2, <3>3
  <2>5. OnceDenied(role)'  BY <1>2, <2>1, <2>3 DEF OnceDenied, Handled
  <2>6. QED  BY <2>4, <2>5 DEF WhileDenying
<1>7. QED  BY <1>5, <1>6 DEF MuteInv

LEMMA GivesRoleInv ==
    ASSUME MuteInv, NEW m \in Muted, GivesRole(m) PROVE MuteInv'
<1> DEFINE job == [muting[m] EXCEPT !.next = "timing"]
<1>1. MuteTyped /\ muting[m] \in MuteJobs /\ muting[m].role \in muteRoles
      /\ muting[m].next = "denying" /\ muting[m].todo = {}
  <2>1. MuteTyped /\ muting[m].next = "denying" /\ muting[m].todo = {}
    BY DEF MuteInv, GivesRole
  <2>2. QED  BY <2>1, JobFacts
<1>2. /\ muting' = [muting EXCEPT ![m] = job]
      /\ roleOf' = [roleOf EXCEPT ![m] = roleOf[m] \cup {muting[m].role}]
      /\ UNCHANGED <<muteRoles, denied, configured, channels, fresh, refused, removing>>
  BY <1>1 DEF GivesRole, Turn, MuteTyped
<1>3. /\ job \in MuteJobs /\ job.todo = {} /\ job.next = "timing"
      /\ job.role \in muteRoles
  BY <1>1 DEF MuteJobs
<1> HIDE DEF job
<1>4. /\ muting' \in [Muted -> MuteJobs] /\ muting'[m] = job
      /\ \A x \in Muted : x # m => muting'[x] = muting[x]
      /\ \A x \in Muted :
           /\ muting'[x].todo # {} => muting'[x].next = "denying"
           /\ muting'[x].next \in {"denying", "timing"} => muting'[x].role \in muteRoles'
  BY <1>1, <1>2, <1>3, TurnTyped
<1>5. MuteTyped'
  <2>1. roleOf' \in [Muted -> SUBSET muteRoles']  BY <1>1, <1>2 DEF MuteTyped
  <2>2. QED  BY <1>1, <1>2, <1>4, <2>1 DEF MuteTyped, MuteTypeOK
<1>6. ASSUME NEW role \in MuteRoles, muteRoles' = {role}
      PROVE  WhileDenying(role)' /\ OnceDenied(role)'
  <2>1. WhileDenying(role) /\ OnceDenied(role)  BY <1>2, <1>6 DEF MuteInv
  <2>2. \A c \in MuteChannels : Handled(c) => Denied(c, role)
    BY <1>1, <2>1 DEF WhileDenying
  <2>3. \A x \in Muted : muting'[x].next = "denying" => muting'[x] = muting[x]
    BY <1>3, <1>4
  <2>4. QED  BY <1>2, <2>1, <2>2, <2>3 DEF WhileDenying, OnceDenied, Handled, Denied
<1>7. QED  BY <1>5, <1>6 DEF MuteInv

LEMMA MuteEndsInv ==
    ASSUME MuteInv, NEW m \in Muted, TimesOut(m) \/ MuteFails(m) PROVE MuteInv'
<1>1. /\ muting' = [muting EXCEPT ![m] = Idle]
      /\ UNCHANGED <<muteRoles, roleOf, denied, channels, fresh, refused, removing, configured>>
  BY DEF TimesOut, MuteFails
<1>2. configured' \in MuteRoles \cup {Unset}
  BY <1>1 DEF MuteInv, MuteTyped, MuteTypeOK
<1>3. QED  BY <1>1, <1>2, IdleJob, MuteTurn

(* Steps by which only less is asked for.                                   *)
LEMMA MuteWeaker ==
    ASSUME MuteInv, UNCHANGED <<muteRoles, configured>>,
           removing' \in Muted \cup {Nobody},
           roleOf' \in [Muted -> SUBSET muteRoles],
           \A m \in Muted : roleOf'[m] # {} => roleOf[m] # {},
           muting' \in [Muted -> MuteJobs],
           \A m \in Muted : muting'[m] = muting[m] \/ muting'[m] = Idle,
           denied \subseteq denied', denied' \subseteq MuteChannels \X MuteRoles,
           channels' \subseteq MuteChannels, fresh' \subseteq channels',
           refused' \subseteq channels',
           \A c \in MuteChannels, role \in MuteRoles :
               Handled(c)' /\ muteRoles = {role} => Handled(c) \/ Denied(c, role)'
    PROVE  MuteInv'
<1>1. MuteTyped'
  <2>1. ASSUME NEW x \in Muted
        PROVE  /\ muting'[x].todo # {} => muting'[x].next = "denying"
               /\ muting'[x].next \in {"denying", "timing"} => muting'[x].role \in muteRoles'
    <3>1. CASE muting'[x] = Idle  BY <3>1, IdleJob
    <3>2. CASE muting'[x] = muting[x]  BY <3>2, JobFacts DEF MuteInv
    <3>3. QED  BY <3>1, <3>2
  <2>2. QED  BY <2>1 DEF MuteInv, MuteTyped, MuteTypeOK
<1>2. ASSUME NEW role \in MuteRoles, muteRoles' = {role}
      PROVE  WhileDenying(role)' /\ OnceDenied(role)'
  <2>1. WhileDenying(role) /\ OnceDenied(role)  BY <1>2 DEF MuteInv
  <2>2. \A c \in MuteChannels : Handled(c)' => Handled(c) \/ Denied(c, role)'
    BY <1>2
  <2>3. \A x \in MuteChannels : Denied(x, role) => Denied(x, role)'  BY DEF Denied
  <2>4. \A x \in Muted : muting'[x].next = "denying" => muting'[x] = muting[x]
    BY IdleJob
  <2>5. QED  BY <2>1, <2>2, <2>3, <2>4 DEF WhileDenying, OnceDenied
<1>3. QED  BY <1>1, <1>2 DEF MuteInv

LEMMA LoopAndGuildInv ==
    ASSUME MuteInv,
           \/ \E m \in Muted : TimeoutEnds(m) \/ LoopFinds(m)
           \/ LoopRemoves \/ MuteRestarts
           \/ \E c \in MuteChannels : ChannelCreated(c) \/ ListenerDenies(c) \/ ListenerFails(c)
    PROVE  MuteInv'
<1>1. /\ MuteTyped /\ muting \in [Muted -> MuteJobs]
      /\ roleOf \in [Muted -> SUBSET muteRoles] /\ muteRoles \subseteq MuteRoles
      /\ denied \subseteq MuteChannels \X MuteRoles
      /\ channels \subseteq MuteChannels /\ fresh \subseteq channels /\ refused \subseteq channels
      /\ removing \in Muted \cup {Nobody}
  BY DEF MuteInv, MuteTyped, MuteTypeOK
<1>2. ASSUME NEW m \in Muted, TimeoutEnds(m) PROVE MuteInv'
  <2>1. UNCHANGED <<muteRoles, roleOf, configured, denied, channels, fresh, refused, muting, removing>>
    BY <1>2 DEF TimeoutEnds
  <2>2. QED  BY <1>1, <2>1, MuteWeaker DEF Handled
<1>3. ASSUME NEW m \in Muted, LoopFinds(m) PROVE MuteInv'
  <2>1. /\ UNCHANGED <<muteRoles, roleOf, configured, denied, channels, fresh, refused, muting>>
        /\ removing' = m
    BY <1>3 DEF LoopFinds
  <2>2. QED  BY <1>1, <2>1, MuteWeaker DEF Handled
<1>4. CASE LoopRemoves
  <2>1. /\ UNCHANGED <<muteRoles, configured, denied, channels, fresh, refused, muting>>
        /\ removing' = Nobody
        /\ roleOf' = roleOf \/ \E role : roleOf' = [roleOf EXCEPT ![removing] = @ \ {role}]
    BY <1>4 DEF LoopRemoves
  <2>2. roleOf' \in [Muted -> SUBSET muteRoles]  BY <1>1, <2>1
  <2>3. \A m \in Muted : roleOf'[m] \subseteq roleOf[m]  BY <1>1, <2>1
  <2>4. QED  BY <1>1, <2>1, <2>2, <2>3, MuteWeaker DEF Handled
<1>5. CASE MuteRestarts
  <2>1. /\ UNCHANGED <<muteRoles, roleOf, configured, denied, channels>>
        /\ removing' = Nobody /\ muting' = [m \in Muted |-> Idle]
        /\ fresh' = {} /\ refused' = refused \cup fresh
    BY <1>5 DEF MuteRestarts
  <2>2. muting' \in [Muted -> MuteJobs] /\ \A m \in Muted : muting'[m] = Idle
    BY <2>1, IdleJob
  <2>3. \A c \in MuteChannels : Handled(c)' => Handled(c)  BY <2>1 DEF Handled
  <2>4. refused' \subseteq channels' /\ fresh' \subseteq channels'  BY <1>1, <2>1
  <2>5. QED  BY <1>1, <2>1, <2>2, <2>3, <2>4, MuteWeaker
<1>6. ASSUME NEW c \in MuteChannels, ChannelCreated(c) PROVE MuteInv'
  <2>1. /\ UNCHANGED <<muteRoles, roleOf, configured, denied, refused, muting, removing>>
        /\ channels' = channels \cup {c} /\ fresh' = fresh \cup {c}
    BY <1>6 DEF ChannelCreated
  <2>2. \A d \in MuteChannels : Handled(d)' => Handled(d)  BY <2>1 DEF Handled
  <2>3. /\ channels' \subseteq MuteChannels /\ fresh' \subseteq channels'
        /\ refused' \subseteq channels'
    BY <1>1, <2>1
  <2>4. QED  BY <1>1, <2>1, <2>2, <2>3, MuteWeaker
<1>7. ASSUME NEW c \in MuteChannels, ListenerDenies(c) PROVE MuteInv'
  <2>1. PICK role \in muteRoles \cup {Unset} :
           /\ Resolves(role)
           /\ denied' = IF role = Unset THEN denied ELSE denied \cup {<<c, role>>}
    BY <1>7 DEF ListenerDenies
  <2>2. /\ UNCHANGED <<muteRoles, roleOf, configured, channels, refused, muting, removing>>
        /\ fresh' = fresh \ {c}
    BY <1>7 DEF ListenerDenies
  <2>3. (role # Unset => role \in muteRoles) /\ (role = Unset <=> muteRoles = {})
    BY <1>1, <2>1, ResolvesToRole
  <2>4. denied \subseteq denied' /\ denied' \subseteq MuteChannels \X MuteRoles
    BY <1>1, <2>1, <2>3
  <2>5. ASSUME NEW d \in MuteChannels, NEW r \in MuteRoles, Handled(d)', muteRoles = {r}
        PROVE  Handled(d) \/ Denied(d, r)'
    <3>1. CASE d # c  BY <2>2, <2>5, <3>1 DEF Handled
    <3>2. CASE d = c
      <4>1. role = r  BY <2>3, <2>5
      <4>2. role # Unset  BY <2>3, <2>5
      <4>3. QED  BY <2>1, <3>2, <4>1, <4>2 DEF Denied
    <3>3. QED  BY <3>1, <3>2
  <2>6. fresh' \subseteq channels' /\ refused' \subseteq channels'  BY <1>1, <2>2
  <2>7. QED  BY <1>1, <2>2, <2>4, <2>5, <2>6, MuteWeaker
<1>8. ASSUME NEW c \in MuteChannels, ListenerFails(c) PROVE MuteInv'
  <2>1. /\ UNCHANGED <<muteRoles, roleOf, configured, denied, channels, muting, removing>>
        /\ fresh' = fresh \ {c} /\ refused' = refused \cup {c} /\ c \in fresh
    BY <1>8 DEF ListenerFails
  <2>2. \A d \in MuteChannels : Handled(d)' => Handled(d)  BY <2>1 DEF Handled
  <2>3. fresh' \subseteq channels' /\ refused' \subseteq channels'  BY <1>1, <2>1
  <2>4. QED  BY <1>1, <2>1, <2>2, <2>3, MuteWeaker
<1>9. QED  BY <1>2, <1>3, <1>4, <1>5, <1>6, <1>7, <1>8

LEMMA MuteStepInv == MuteInv /\ [MuteNext]_muteVars => MuteInv'
<1> SUFFICES ASSUME MuteInv, [MuteNext]_muteVars PROVE MuteInv'  OBVIOUS
<1>1. CASE MuteNext
  BY <1>1, BeginsMuteInv, CreatesRoleInv, DeniesChannelInv, GivesRoleInv, MuteEndsInv,
     LoopAndGuildInv DEF MuteNext
<1>2. CASE UNCHANGED muteVars
  BY <1>2 DEF muteVars, MuteInv, MuteTyped, MuteTypeOK, WhileDenying, OnceDenied, Handled,
              Denied
<1>3. QED  BY <1>1, <1>2

LEMMA MuteInitInv == MuteInit => MuteInv
<1> SUFFICES ASSUME MuteInit PROVE MuteInv  OBVIOUS
<1>1. /\ muteRoles = RoleThere /\ roleOf = [m \in Muted |-> {}] /\ denied = {}
      /\ configured = Unset /\ channels \in SUBSET MuteChannels /\ fresh = {} /\ refused = {}
      /\ muting = [m \in Muted |-> Idle] /\ removing = Nobody
  BY DEF MuteInit
<1>2. \A m \in Muted : muting[m] = Idle /\ roleOf[m] = {}  BY <1>1
<1>3. MuteTyped
  BY <1>1, <1>2, IdleJob, MuteAssumption DEF MuteTyped, MuteTypeOK
<1>4. \A role : WhileDenying(role) /\ OnceDenied(role)
  BY <1>2, IdleJob DEF WhileDenying, OnceDenied
<1>5. QED  BY <1>3, <1>4 DEF MuteInv

(* Every channel handled is denied to the role that somebody has.           *)
LEMMA MutedAreDenied == ASSUME MuteInv PROVE RoleDeniesChannels
<1> SUFFICES ASSUME Cardinality(muteRoles) = 1, NEW m \in Muted, NEW role \in roleOf[m],
                    NEW c \in channels \ (fresh \cup refused)
             PROVE  <<c, role>> \in denied
  BY DEF RoleDeniesChannels
<1>1. IsFiniteSet(muteRoles) /\ muteRoles \subseteq MuteRoles /\ channels \subseteq MuteChannels
      /\ roleOf[m] \subseteq muteRoles
  BY DEF MuteInv, MuteTyped, MuteTypeOK
<1>2. PICK r : muteRoles = {r}  BY <1>1, FS_Singleton
<1>3. role = r /\ role \in MuteRoles /\ muteRoles = {role}  BY <1>1, <1>2
<1>4. OnceDenied(role)  BY <1>3 DEF MuteInv
<1>5. c \in MuteChannels /\ Handled(c) /\ roleOf[m] # {}  BY <1>1 DEF Handled
<1>6. QED  BY <1>4, <1>5 DEF OnceDenied, Denied

---------------------------------------------------------------------------
(* Verification.                                                           *)

Links == [People -> Names \cup {NoName}]
MappedRoles == {"verified", "awaiting", "employee"}
NameRequests == [of : People \cup {"nobody"}, from : Names \cup {NoName}, to : Names \cup {NoName},
                 state : {"none", "pending", "approved", "closed"}]

(* A request that was made is of somebody, and for an account.              *)
VerInv ==
    /\ mapping \in Links
    /\ updater = [known |-> updater.known, batch |-> updater.batch, answer |-> updater.answer]
    /\ updater.known \in Links
    /\ roles \in [People -> SUBSET MappedRoles] /\ present \subseteq People
    /\ codes \in 0 .. CodesMax /\ deeds \in 0 .. DeedsMax
    /\ DOMAIN jobs = Commands
    /\ request \in [Requests -> NameRequests]
    /\ \A q \in Requests : request[q].state # "none" => request[q].of \in People /\ request[q].to \in Names

(* What ApprovedFromSaved says of a step.                                   *)
ApprovesFromSaved ==
    \A q \in Requests :
        jobs[<<"approve", q>>] = NoJob /\ jobs'[<<"approve", q>>] # NoJob
          => mapping[request[q].of] = request[q].from /\ mapping'[request[q].of] = request[q].to

LEMMA VerifyDeedBound ==
    ASSUME VerInv, Deed
    PROVE  deeds' \in 0 .. DeedsMax
<1>1. deeds \in 0 .. DeedsMax /\ DeedsMax \in Nat
  BY VerifyAssumption DEF VerInv
<1> QED BY <1>1 DEF Deed

LEMMA CommandIs ==
    /\ \A m \in People : <<"verify", m>> \in Commands /\ <<"forceverify", m>> \in Commands
    /\ \A q \in Requests : <<"approve", q>> \in Commands
BY DEF Commands

(* One command takes a turn; another stays as it is.                        *)
LEMMA JobTurn ==
    ASSUME VerInv, NEW c \in Commands, NEW job, jobs' = [jobs EXCEPT ![c] = job]
    PROVE  /\ DOMAIN jobs' = Commands
           /\ \A d \in Commands : d # c => jobs'[d] = jobs[d]
BY DEF VerInv

(* A member's roles change by what is a set of roles.                       *)
LEMMA RolesTurn ==
    ASSUME VerInv, NEW m, NEW had, m \in People => had \in SUBSET MappedRoles,
           roles' = [roles EXCEPT ![m] = had]
    PROVE  roles' \in [People -> SUBSET MappedRoles]
<1>1. roles' = [x \in People |-> IF x = m THEN had ELSE roles[x]]
  BY DEF VerInv
<1>2. \A x \in People : (IF x = m THEN had ELSE roles[x]) \in SUBSET MappedRoles
  BY DEF VerInv
<1> QED BY <1>1, <1>2

LEMMA EarnedIs == \A n : Earned(n) \subseteq MappedRoles
BY DEF Earned, MappedRoles

LEMMA WithRoleIs ==
    ASSUME VerInv, NEW m \in People, NEW earned \in SUBSET MappedRoles
    PROVE  WithRole(roles[m], earned) \in SUBSET MappedRoles
BY DEF WithRole, VerInv

(* A step that leaves the links, the requests and the commands alone, or    *)
(* that only ends commands.                                                 *)
LEMMA VerifyAside ==
    ASSUME VerInv, UNCHANGED <<mapping, request>>, codes' \in 0 .. CodesMax, deeds' \in 0 .. DeedsMax,
           updater' = [known |-> updater'.known, batch |-> updater'.batch, answer |-> updater'.answer],
           updater'.known \in Links,
           roles' \in [People -> SUBSET MappedRoles], present' \subseteq People,
           DOMAIN jobs' = Commands,
           \A q \in Requests : jobs[<<"approve", q>>] = NoJob => jobs'[<<"approve", q>>] = NoJob
    PROVE  VerInv' /\ ApprovesFromSaved
BY DEF VerInv, ApprovesFromSaved

LEMMA VerifyInitInv == VerifyInit => VerInv
<1> SUFFICES ASSUME VerifyInit PROVE VerInv
  OBVIOUS
<1>1. /\ mapping \in Links /\ present = People /\ codes = 0 /\ deeds = 0
      /\ updater = [known |-> mapping, batch |-> {}, answer |-> NoAnswer]
  BY DEF VerifyInit, Links
<1>2. 0 \in 0 .. CodesMax /\ 0 \in 0 .. DeedsMax
  BY VerifyAssumption
<1>3. roles \in [People -> SUBSET MappedRoles]
  BY DEF VerifyInit, MappedRoles
<1>4. DOMAIN jobs = Commands
  BY DEF VerifyInit
<1>5. /\ request \in [Requests -> NameRequests]
      /\ \A q \in Requests : request[q].state = "none"
  BY DEF VerifyInit, NoRequest, NameRequests
<1> QED BY <1>1, <1>2, <1>3, <1>4, <1>5 DEF VerInv

LEMMA VerifyInv ==
    ASSUME VerInv, NEW m \in People, NEW n \in Names, Verify(m, n) \/ ForceVerify(m, n)
    PROVE  VerInv' /\ ApprovesFromSaved
<1>1. /\ UNCHANGED <<request, roles, present, updater>> /\ Deed
  BY DEF Verify, ForceVerify, memberVars
<1>2. deeds' \in 0 .. DeedsMax
  BY <1>1, VerifyDeedBound
<1>3. mapping' \in Links
  <2>1. mapping' = mapping \/ mapping' = [mapping EXCEPT ![m] = n]
    BY DEF Verify, ForceVerify, VerifyAgain, VerifySucceeds, VerifyWaits
  <2> QED BY <2>1 DEF VerInv, Links
<1>4. codes' \in 0 .. CodesMax
  <2>1. codes' = codes \/ (codes < CodesMax /\ codes' = codes + 1)
    BY DEF Verify, ForceVerify, VerifyAgain, VerifySucceeds, VerifyWaits, GetOrCreate
  <2>2. codes \in 0 .. CodesMax /\ CodesMax \in Nat
    BY VerifyAssumption DEF VerInv
  <2> QED BY <2>1, <2>2
<1>5. /\ DOMAIN jobs' = Commands
      /\ \A q \in Requests : jobs'[<<"approve", q>>] = jobs[<<"approve", q>>]
  <2>1. \/ jobs' = jobs
        \/ \E c \in {<<"verify", m>>, <<"forceverify", m>>} : \E job : jobs' = [jobs EXCEPT ![c] = job]
    BY DEF Verify, ForceVerify, VerifyAgain, VerifySucceeds, VerifyWaits, Starts
  <2>2. CASE jobs' = jobs
    BY <2>2 DEF VerInv
  <2>3. ASSUME NEW c \in {<<"verify", m>>, <<"forceverify", m>>}, NEW job, jobs' = [jobs EXCEPT ![c] = job]
        PROVE  /\ DOMAIN jobs' = Commands
               /\ \A q \in Requests : jobs'[<<"approve", q>>] = jobs[<<"approve", q>>]
    <3>1. c \in Commands  BY CommandIs
    <3>2. \A q \in Requests : <<"approve", q>> # c  OBVIOUS
    <3> QED BY <2>3, <3>1, <3>2, CommandIs, JobTurn
  <2> QED BY <2>1, <2>2, <2>3
<1> QED BY <1>1, <1>2, <1>3, <1>4, <1>5 DEF VerInv, ApprovesFromSaved

LEMMA RequestInv ==
    ASSUME VerInv, NEW q \in Requests, NEW m \in People, NEW n \in Names, RequestChange(q, m, n)
    PROVE  VerInv' /\ ApprovesFromSaved
<1>1. /\ UNCHANGED <<mapping, codes, jobs, roles, present, updater>> /\ Deed
      /\ request' = [request EXCEPT ![q] = [of |-> m, from |-> mapping[m], to |-> n, state |-> "pending"]]
  BY DEF RequestChange, memberVars
<1>2. deeds' \in 0 .. DeedsMax
  BY <1>1, VerifyDeedBound
<1>3. [of |-> m, from |-> mapping[m], to |-> n, state |-> "pending"] \in NameRequests
  BY DEF VerInv, Links, NameRequests
<1>4. /\ request' \in [Requests -> NameRequests]
      /\ \A r \in Requests : request'[r].state # "none" => request'[r].of \in People /\ request'[r].to \in Names
  BY <1>1, <1>3 DEF VerInv
<1> QED BY <1>1, <1>2, <1>4 DEF VerInv, ApprovesFromSaved

(* The buttons of a request change what state it is in, and that alone.     *)
LEMMA RequestTurn ==
    ASSUME VerInv, NEW q \in Requests, NEW state \in {"approved", "closed"},
           request[q].state # "none",
           request' = [request EXCEPT ![q].state = state]
    PROVE  /\ request' \in [Requests -> NameRequests]
           /\ \A r \in Requests :
                request'[r].state # "none" => request'[r].of \in People /\ request'[r].to \in Names
<1>1. request[q] \in NameRequests /\ request[q].of \in People /\ request[q].to \in Names
  BY DEF VerInv
<1> DEFINE s == [request[q] EXCEPT !.state = state]
<1>2. s \in NameRequests /\ s.of \in People /\ s.to \in Names
  BY <1>1 DEF NameRequests
<1>3. request' = [request EXCEPT ![q] = s]
  OBVIOUS
<1> HIDE DEF s
<1> QED BY <1>2, <1>3 DEF VerInv

LEMMA ApproveInv ==
    ASSUME VerInv, NEW q \in Requests, ApproveRequest(q)
    PROVE  VerInv' /\ ApprovesFromSaved
<1>1. /\ UNCHANGED <<codes, roles, present, updater>> /\ Deed
      /\ request' = [request EXCEPT ![q].state = "approved"]
      /\ request[q].state # "none"
  BY DEF ApproveRequest, memberVars
<1>2. deeds' \in 0 .. DeedsMax
  BY <1>1, VerifyDeedBound
<1>3. /\ request' \in [Requests -> NameRequests]
      /\ \A r \in Requests :
           request'[r].state # "none" => request'[r].of \in People /\ request'[r].to \in Names
  BY <1>1, RequestTurn
<1>4. request[q].of \in People /\ request[q].to \in Names
  BY <1>1 DEF VerInv
<1>5. CASE StillSaved(q)
  <2>1. /\ mapping' = [mapping EXCEPT ![request[q].of] = request[q].to]
        /\ \E job : jobs' = [jobs EXCEPT ![<<"approve", q>>] = job]
    BY <1>5 DEF ApproveRequest, Starts
  <2>2. mapping' \in Links /\ mapping'[request[q].of] = request[q].to
    BY <1>4, <2>1 DEF VerInv, Links
  <2>3. /\ DOMAIN jobs' = Commands
        /\ \A r \in Requests : r # q => jobs'[<<"approve", r>>] = jobs[<<"approve", r>>]
    <3>1. PICK job : jobs' = [jobs EXCEPT ![<<"approve", q>>] = job]
      BY <2>1
    <3>2. \A r \in Requests : r # q => <<"approve", r>> # <<"approve", q>>
      OBVIOUS
    <3> QED BY <3>1, <3>2, CommandIs, JobTurn
  <2>4. VerInv'
    BY <1>1, <1>2, <1>3, <2>2, <2>3 DEF VerInv
  <2>5. ApprovesFromSaved
    BY <1>5, <2>2, <2>3 DEF ApprovesFromSaved, StillSaved
  <2> QED BY <2>4, <2>5
<1>6. CASE ~StillSaved(q)
  <2>1. UNCHANGED <<mapping, jobs>>
    BY <1>6 DEF ApproveRequest
  <2> QED BY <1>1, <1>2, <1>3, <2>1 DEF VerInv, ApprovesFromSaved
<1> QED BY <1>5, <1>6

LEMMA CloseInv ==
    ASSUME VerInv, NEW q \in Requests, CloseRequest(q)
    PROVE  VerInv' /\ ApprovesFromSaved
<1>1. /\ UNCHANGED <<mapping, codes, jobs, roles, present, updater, deeds>>
      /\ request' = [request EXCEPT ![q].state = "closed"] /\ request[q].state # "none"
  BY DEF CloseRequest, memberVars
<1>2. /\ request' \in [Requests -> NameRequests]
      /\ \A r \in Requests :
           request'[r].state # "none" => request'[r].of \in People /\ request'[r].to \in Names
  BY <1>1, RequestTurn
<1> QED BY <1>1, <1>2 DEF VerInv, ApprovesFromSaved

(* A call of a command under way, whatever Discord makes of it.             *)
LEMMA StepEffectIs ==
    ASSUME VerInv, NEW m, NEW step, NEW n, StepEffect(m, step, n)
    PROVE  /\ roles' \in [People -> SUBSET MappedRoles] /\ present' \subseteq People
           /\ updater' = [known |-> updater'.known, batch |-> updater'.batch, answer |-> updater'.answer]
           /\ updater'.known \in Links
<1>1. present' \subseteq People
  BY DEF StepEffect, VerInv
<1>2. /\ updater' = [known |-> updater'.known, batch |-> updater'.batch, answer |-> updater'.answer]
      /\ updater'.known \in Links
  <2>1. updater' = updater \/ updater' = [known |-> mapping, batch |-> {}, answer |-> NoAnswer]
    BY DEF StepEffect
  <2> QED BY <2>1 DEF VerInv
<1>3. \/ roles' = roles
      \/ m \in present /\ roles' = [roles EXCEPT ![m] = (roles[m] \cup {"verified"}) \ {"awaiting"}]
      \/ m \in present /\ roles' = [roles EXCEPT ![m] = WithRole(roles[m], Earned(n))]
      \/ m \in present /\ roles' = [roles EXCEPT ![m] = roles[m] \ {"employee"}]
      \/ m \in present /\ roles' = [roles EXCEPT ![m] = {}]
  BY DEF StepEffect
<1>4. m \in present => m \in People /\ roles[m] \in SUBSET MappedRoles
  BY DEF VerInv
<1>5. roles' \in [People -> SUBSET MappedRoles]
  <2>1. CASE roles' = roles
    BY <2>1 DEF VerInv
  <2>2. CASE m \in present /\ roles' = [roles EXCEPT ![m] = (roles[m] \cup {"verified"}) \ {"awaiting"}]
    <3>1. (roles[m] \cup {"verified"}) \ {"awaiting"} \in SUBSET MappedRoles
      BY <1>4, <2>2 DEF MappedRoles
    <3> QED BY <2>2, <3>1, RolesTurn
  <2>3. CASE m \in present /\ roles' = [roles EXCEPT ![m] = WithRole(roles[m], Earned(n))]
    <3>1. WithRole(roles[m], Earned(n)) \in SUBSET MappedRoles
      BY <1>4, <2>3, EarnedIs, WithRoleIs
    <3> QED BY <2>3, <3>1, RolesTurn
  <2>4. CASE m \in present /\ roles' = [roles EXCEPT ![m] = roles[m] \ {"employee"}]
    <3>1. roles[m] \ {"employee"} \in SUBSET MappedRoles
      BY <1>4, <2>4
    <3> QED BY <2>4, <3>1, RolesTurn
  <2>5. CASE m \in present /\ roles' = [roles EXCEPT ![m] = {}]
    <3>1. {} \in SUBSET MappedRoles
      OBVIOUS
    <3> QED BY <2>5, <3>1, RolesTurn
  <2> QED BY <1>3, <2>1, <2>2, <2>3, <2>4, <2>5
<1> QED BY <1>1, <1>2, <1>5

LEMMA JobInv ==
    ASSUME VerInv, NEW c \in Commands, JobStep(c) \/ RolesRaise(c)
    PROVE  VerInv' /\ ApprovesFromSaved
<1>1. jobs[c] # NoJob /\ UNCHANGED <<mapping, request, codes, deeds>>
  BY DEF JobStep, RolesRaise
<1>2. /\ DOMAIN jobs' = Commands
      /\ \A d \in Commands : d # c => jobs'[d] = jobs[d]
  <2>1. \E job : jobs' = [jobs EXCEPT ![c] = job]
    BY DEF JobStep, RolesRaise
  <2> QED BY <2>1, JobTurn
<1>3. \A q \in Requests : jobs[<<"approve", q>>] = NoJob => jobs'[<<"approve", q>>] = NoJob
  BY <1>1, <1>2, CommandIs
<1>4. /\ roles' \in [People -> SUBSET MappedRoles] /\ present' \subseteq People
      /\ updater' = [known |-> updater'.known, batch |-> updater'.batch, answer |-> updater'.answer]
      /\ updater'.known \in Links
  <2>1. CASE JobStep(c)
    <3>1. \E m, step, n : StepEffect(m, step, n)
      BY <2>1 DEF JobStep
    <3> QED BY <3>1, StepEffectIs
  <2>2. CASE RolesRaise(c)
    BY <2>2 DEF RolesRaise, memberVars, VerInv
  <2> QED BY <2>1, <2>2
<1>5. codes' \in 0 .. CodesMax /\ deeds' \in 0 .. DeedsMax
  BY <1>1 DEF VerInv
<1> QED BY <1>1, <1>2, <1>3, <1>4, <1>5, VerifyAside

LEMMA MemberInv ==
    ASSUME VerInv, NEW m \in People,
           \/ Expires(m) \/ Queues(m) \/ Joins(m) \/ Leaves(m) \/ ShowsCode(m)
           \/ \E onRules \in BOOLEAN : Reacts(m, onRules)
    PROVE  VerInv' /\ ApprovesFromSaved
<1>1. UNCHANGED <<mapping, request, codes, jobs, updater>>
  BY DEF Expires, Queues, Joins, Leaves, ShowsCode, Reacts, commandVars
<1>2. deeds' = deeds \/ Deed
  BY DEF Expires, Queues, Joins, Leaves, ShowsCode, Reacts
<1>3. deeds' \in 0 .. DeedsMax
  BY <1>2, VerifyDeedBound DEF VerInv
<1>4. present' \subseteq People
  BY DEF Expires, Queues, Joins, Leaves, ShowsCode, Reacts, memberVars, VerInv
<1>5. roles' \in [People -> SUBSET MappedRoles]
  <2>1. roles[m] \in SUBSET MappedRoles
    BY DEF VerInv
  <2>2. \/ roles' = roles
        \/ roles' = [roles EXCEPT ![m] = roles[m] \cup {"awaiting"}]
        \/ roles' = [roles EXCEPT ![m] = {}]
        \/ \E n : roles' = [roles EXCEPT ![m] = {"verified"} \cup Earned(n)]
    BY DEF Expires, Queues, Joins, Leaves, ShowsCode, Reacts, memberVars
  <2>3. roles[m] \cup {"awaiting"} \in SUBSET MappedRoles
    BY <2>1 DEF MappedRoles
  <2>4. \A n : {"verified"} \cup Earned(n) \in SUBSET MappedRoles
    BY EarnedIs DEF MappedRoles
  <2>5. CASE roles' = roles
    BY <2>5 DEF VerInv
  <2>6. CASE roles' = [roles EXCEPT ![m] = roles[m] \cup {"awaiting"}]
    BY <2>3, <2>6, RolesTurn
  <2>7. CASE roles' = [roles EXCEPT ![m] = {}]
    <3>1. {} \in SUBSET MappedRoles
      OBVIOUS
    <3> QED BY <2>7, <3>1, RolesTurn
  <2>8. CASE \E n : roles' = [roles EXCEPT ![m] = {"verified"} \cup Earned(n)]
    BY <2>4, <2>8, RolesTurn
  <2> QED BY <2>2, <2>5, <2>6, <2>7, <2>8
<1>6. codes' \in 0 .. CodesMax /\ DOMAIN jobs' = Commands
  BY <1>1 DEF VerInv
<1>7. /\ updater' = [known |-> updater'.known, batch |-> updater'.batch, answer |-> updater'.answer]
      /\ updater'.known \in Links
  BY <1>1 DEF VerInv
<1>8. \A q \in Requests : jobs[<<"approve", q>>] = NoJob => jobs'[<<"approve", q>>] = NoJob
  BY <1>1
<1> QED BY <1>1, <1>3, <1>4, <1>5, <1>6, <1>7, <1>8, VerifyAside

LEMMA UpdaterInv ==
    ASSUME VerInv, StartsBatch \/ UpdaterAssigns \/ \E m \in People : UpdaterFetches(m)
    PROVE  VerInv' /\ ApprovesFromSaved
<1>1. UNCHANGED <<mapping, request, codes, jobs, present>>
  BY DEF StartsBatch, UpdaterAssigns, UpdaterFetches, commandVars, memberVars
<1>2. deeds' = deeds \/ Deed
  BY DEF StartsBatch, UpdaterAssigns, UpdaterFetches
<1>3. deeds' \in 0 .. DeedsMax
  BY <1>2, VerifyDeedBound DEF VerInv
<1>4. roles' \in [People -> SUBSET MappedRoles]
  <2>1. \/ roles' = roles
        \/ \E m \in present, earned \in {{"employee"}, {}} :
             roles' = [roles EXCEPT ![m] = WithRole(roles[m], earned)]
    BY DEF StartsBatch, UpdaterAssigns, UpdaterFetches, memberVars
  <2>2. CASE roles' = roles
    BY <2>2 DEF VerInv
  <2>3. ASSUME NEW m \in present, NEW earned \in {{"employee"}, {}},
               roles' = [roles EXCEPT ![m] = WithRole(roles[m], earned)]
        PROVE  roles' \in [People -> SUBSET MappedRoles]
    <3>1. earned \in SUBSET MappedRoles
      BY DEF MappedRoles
    <3>2. m \in People
      BY DEF VerInv
    <3> QED BY <2>3, <3>1, <3>2, WithRoleIs, RolesTurn
  <2> QED BY <2>1, <2>2, <2>3
<1>5. /\ updater' = [known |-> updater'.known, batch |-> updater'.batch, answer |-> updater'.answer]
      /\ updater'.known \in Links
  <2>1. updater = [known |-> updater.known, batch |-> updater.batch, answer |-> updater.answer]
    BY DEF VerInv
  <2>2. \E known \in {updater.known, mapping} : \E batch, answer :
          updater' = [known |-> known, batch |-> batch, answer |-> answer]
    <3>1. CASE StartsBatch
      BY <2>1, <3>1 DEF StartsBatch
    <3>2. CASE UpdaterAssigns
      BY <2>1, <3>2 DEF UpdaterAssigns
    <3>3. ASSUME NEW m \in People, UpdaterFetches(m)
          PROVE  \E known \in {updater.known, mapping} : \E batch, answer :
                   updater' = [known |-> known, batch |-> batch, answer |-> answer]
      BY <2>1, <3>3 DEF UpdaterFetches
    <3> QED BY <3>1, <3>2, <3>3
  <2> QED BY <2>2 DEF VerInv
<1>6. codes' \in 0 .. CodesMax /\ DOMAIN jobs' = Commands /\ present' \subseteq People
  BY <1>1 DEF VerInv
<1>7. \A q \in Requests : jobs[<<"approve", q>>] = NoJob => jobs'[<<"approve", q>>] = NoJob
  BY <1>1
<1> QED BY <1>1, <1>3, <1>4, <1>5, <1>6, <1>7, VerifyAside

LEMMA HabboInv ==
    ASSUME VerInv,
           \E n \in Names : GroupChanges(n) \/ \E group \in {"DNH", "BoS", "none"} : ListName(n, group)
    PROVE  VerInv' /\ ApprovesFromSaved
<1>1. UNCHANGED <<mapping, request, codes, jobs, roles, present, updater>> /\ Deed
  BY DEF GroupChanges, ListName, commandVars, memberVars
<1>2. deeds' \in 0 .. DeedsMax
  BY <1>1, VerifyDeedBound
<1> QED BY <1>1, <1>2 DEF VerInv, ApprovesFromSaved

LEMMA VerifyRestartsInv ==
    ASSUME VerInv, VerifyRestarts
    PROVE  VerInv' /\ ApprovesFromSaved
<1>1. /\ Deed /\ jobs' = [c \in Commands |-> NoJob]
      /\ request' = [q \in Requests |-> IF request[q].state = "none" THEN NoRequest
                                        ELSE [request[q] EXCEPT !.state = "closed"]]
      /\ updater' = [known |-> mapping, batch |-> {}, answer |-> NoAnswer]
      /\ UNCHANGED <<mapping, codes, roles, present>>
  BY DEF VerifyRestarts
<1>2. deeds' \in 0 .. DeedsMax
  BY <1>1, VerifyDeedBound
<1>3. ASSUME NEW q \in Requests
      PROVE  /\ request'[q] \in NameRequests
             /\ request'[q].state # "none" => request'[q].of \in People /\ request'[q].to \in Names
  <2>1. CASE request[q].state = "none"
    BY <1>1, <2>1 DEF NoRequest, NameRequests
  <2>2. CASE request[q].state # "none"
    <3>1. request[q] \in NameRequests /\ request[q].of \in People /\ request[q].to \in Names
      BY <2>2 DEF VerInv
    <3>2. request'[q] = [request[q] EXCEPT !.state = "closed"]
      BY <1>1, <2>2
    <3> QED BY <3>1, <3>2 DEF NameRequests
  <2> QED BY <2>1, <2>2
<1>4. request' \in [Requests -> NameRequests]
  BY <1>1, <1>3
<1>5. \A q \in Requests : jobs'[<<"approve", q>>] = NoJob
  BY <1>1, CommandIs
<1>6. ApprovesFromSaved
  BY <1>5 DEF ApprovesFromSaved
<1>7. updater'.known = mapping /\ DOMAIN jobs' = Commands
  BY <1>1
<1>8. VerInv'
  BY <1>1, <1>2, <1>3, <1>4, <1>7 DEF VerInv
<1> QED BY <1>6, <1>8

LEMMA VerifyStepInv == VerInv /\ [VerifyNext]_verifyVars => VerInv' /\ [ApprovesFromSaved]_verifyVars
<1> SUFFICES ASSUME VerInv, [VerifyNext]_verifyVars PROVE VerInv' /\ [ApprovesFromSaved]_verifyVars
  OBVIOUS
<1>1. CASE UNCHANGED verifyVars
  BY <1>1 DEF verifyVars, commandVars, memberVars, VerInv
<1>2. ASSUME NEW m \in People,
             \/ \E n \in Names : Verify(m, n) \/ ForceVerify(m, n) \/ \E q \in Requests : RequestChange(q, m, n)
             \/ \E onRules \in BOOLEAN : Reacts(m, onRules)
             \/ Expires(m) \/ Queues(m) \/ UpdaterFetches(m) \/ Joins(m) \/ Leaves(m) \/ ShowsCode(m)
      PROVE  VerInv' /\ ApprovesFromSaved
  <2>1. CASE \E n \in Names : Verify(m, n) \/ ForceVerify(m, n)
    BY <2>1, VerifyInv
  <2>2. CASE \E n \in Names, q \in Requests : RequestChange(q, m, n)
    BY <2>2, RequestInv
  <2>3. CASE UpdaterFetches(m)
    BY <2>3, UpdaterInv
  <2> QED BY <1>2, <2>1, <2>2, <2>3, MemberInv
<1>3. CASE \E c \in Commands : JobStep(c) \/ RolesRaise(c)
  BY <1>3, JobInv
<1>4. CASE \E q \in Requests : ApproveRequest(q) \/ CloseRequest(q)
  BY <1>4, ApproveInv, CloseInv
<1>5. CASE \E n \in Names : GroupChanges(n) \/ \E group \in {"DNH", "BoS", "none"} : ListName(n, group)
  BY <1>5, HabboInv
<1>6. CASE StartsBatch \/ UpdaterAssigns
  BY <1>6, UpdaterInv
<1>7. CASE VerifyRestarts
  BY <1>7, VerifyRestartsInv
<1> QED BY <1>1, <1>2, <1>3, <1>4, <1>5, <1>6, <1>7 DEF VerifyNext

LEMMA VerifyPromises == VerInv => VerifyTypeOK
BY DEF VerInv, Links, MappedRoles, VerifyTypeOK

---------------------------------------------------------------------------
(* The members cda-admin has verified.                                     *)

Entry(u) == [user |-> u, name |-> granted[u]]
MemberRoles == {Gone} \cup SUBSET (Groups \cup {"awaiting", "verified"})
Attempts == [at : {"no", "fetch", "roles"}, user : CdaMembers \cup {None}, name : CdaNames \cup {None}]
Passes == [at : {"no", "next", "fetch", "assign"}, left : Seq(Entries), user : CdaMembers \cup {None},
           add : SUBSET Groups, remove : SUBSET Groups]

AttemptsTyped ==
    /\ attempt \in [CdaAttempts -> Attempts]
    /\ \A s \in CdaAttempts : attempt[s].at # "no" => attempt[s].user \in CdaMembers /\ attempt[s].name \in CdaNames
PassesTyped ==
    /\ pass \in [{"task", "join"} -> Passes]
    /\ \A p \in {"task", "join"} : pass[p].at = "fetch" => pass[p].left # <<>>

CdaTyped ==
    /\ cdaDeeds \in 0 .. CdaDeeds /\ cdaCodes \in [CdaMembers -> CdaNames \cup {None}]
    /\ cdaFile \in Seq(Entries) /\ cdaKnown \in [Cogs -> Seq(Entries)]
    /\ AttemptsTyped
    /\ nameAsked \subseteq Entries
    /\ cdaRoles \in [CdaMembers -> MemberRoles] /\ groupOf \in [CdaNames -> Groups \cup {None}]
    /\ PassesTyped
    /\ granted \in [CdaMembers -> CdaNames \cup {None}]

(* What was granted is in the file and in the copy the next grant writes.   *)
GrantedIsKnown == \A u \in CdaMembers : granted[u] # None => Entry(u) \in Range(cdaKnown["verify"])

CdaInv == CdaTyped /\ GrantedIsKept /\ GrantedIsKnown

LEMMA CdaDeedBound ==
    ASSUME CdaTyped, CdaDeed
    PROVE  cdaDeeds' \in 0 .. CdaDeeds
<1>1. cdaDeeds \in 0 .. CdaDeeds /\ CdaDeeds \in Nat
  BY CdaAssumption DEF CdaTyped
<1> QED BY <1>1 DEF CdaDeed

LEMMA NoPassIs == NoPass \in Passes /\ NoPass.at = "no"
BY DEF NoPass, Passes

LEMMA NoAttemptIs == NoAttempt \in Attempts /\ NoAttempt.at = "no"
BY DEF NoAttempt, Attempts

LEMMA AttemptTurn ==
    ASSUME CdaTyped, NEW s \in CdaAttempts, NEW a \in Attempts,
           a.at # "no" => a.user \in CdaMembers /\ a.name \in CdaNames,
           attempt' = [attempt EXCEPT ![s] = a]
    PROVE  AttemptsTyped'
BY DEF CdaTyped, AttemptsTyped

LEMMA PassTurn ==
    ASSUME CdaTyped, NEW p \in {"task", "join"}, NEW x \in Passes,
           x.at = "fetch" => x.left # <<>>,
           pass' = [pass EXCEPT ![p] = x]
    PROVE  PassesTyped'
<1>1. pass' \in [{"task", "join"} -> Passes] /\ \A q \in {"task", "join"} : pass'[q] = IF q = p THEN x ELSE pass[q]
  BY DEF CdaTyped, PassesTyped
<1>2. \A q \in {"task", "join"} : pass'[q].at = "fetch" => pass'[q].left # <<>>
  BY <1>1 DEF CdaTyped, PassesTyped
<1> QED BY <1>1, <1>2 DEF PassesTyped

LEMMA MemberTurn ==
    ASSUME CdaTyped, NEW u, NEW had, u \in CdaMembers => had \in MemberRoles,
           cdaRoles' = [cdaRoles EXCEPT ![u] = had]
    PROVE  cdaRoles' \in [CdaMembers -> MemberRoles]
<1>1. cdaRoles' = [x \in CdaMembers |-> IF x = u THEN had ELSE cdaRoles[x]]
  BY DEF CdaTyped
<1>2. \A x \in CdaMembers : (IF x = u THEN had ELSE cdaRoles[x]) \in MemberRoles
  BY DEF CdaTyped
<1> QED BY <1>1, <1>2

LEMMA OnwardIs ==
    ASSUME CdaTyped, NEW p \in {"task", "join"}
    PROVE  Onward(p) \in Passes /\ Onward(p).at \in {"no", "next"}
<1>1. pass[p].left \in Seq(Entries)
  BY DEF CdaTyped, PassesTyped, Passes
<1>2. CASE pass[p].left = <<>> \/ p = "join"
  BY <1>2, NoPassIs DEF Onward
<1>3. CASE ~(pass[p].left = <<>> \/ p = "join")
  <2>1. Onward(p) = [NoPass EXCEPT !.at = "next", !.left = Tail(pass[p].left)]
    BY <1>3 DEF Onward
  <2>2. Tail(pass[p].left) \in Seq(Entries)
    BY <1>1, <1>3
  <2> QED BY <2>1, <2>2, NoPassIs DEF Passes
<1> QED BY <1>2, <1>3

(* A step that grants nothing and leaves the file and the copies alone.     *)
LEMMA CdaAside ==
    ASSUME CdaInv, UNCHANGED <<cdaFile, cdaKnown, granted>>,
           cdaDeeds' \in 0 .. CdaDeeds, cdaCodes' \in [CdaMembers -> CdaNames \cup {None}],
           AttemptsTyped', nameAsked' \subseteq Entries,
           cdaRoles' \in [CdaMembers -> MemberRoles], groupOf' \in [CdaNames -> Groups \cup {None}],
           PassesTyped'
    PROVE  CdaInv'
<1>1. CdaTyped'
  BY DEF CdaInv, CdaTyped
<1> QED BY <1>1 DEF CdaInv, GrantedIsKept, GrantedIsKnown, Entry

(* Nobody else's grant is lost when u's entries change.                     *)
LEMMA AppendEntry ==
    ASSUME NEW list \in Seq(Entries), NEW e \in Entries
    PROVE  Append(list, e) \in Seq(Entries) /\ Range(Append(list, e)) = Range(list) \cup {e}
<1>1. Append(list, e) \in Seq(Entries)
  OBVIOUS
<1> QED BY <1>1, AppendDiffers

LEMMA RenamedIs ==
    ASSUME NEW list \in Seq(Entries), NEW r \in Entries
    PROVE  /\ Renamed(list, r.user, r.name) \in Seq(Entries)
           /\ r \in Range(Renamed(list, r.user, r.name))
           /\ \A e \in Range(list) : e.user # r.user => e \in Range(Renamed(list, r.user, r.name))
<1> DEFINE u == r.user
           n == r.name
<1>1. u \in CdaMembers /\ n \in CdaNames /\ r = [user |-> u, name |-> n]
  BY DEF Entries
<1> HIDE DEF u, n
<1>2. CASE ~Lists(list, u)
  <2>1. Renamed(list, u, n) = Append(list, r)
    BY <1>1, <1>2 DEF Renamed
  <2> QED BY <2>1, AppendEntry DEF u, n
<1>3. CASE Lists(list, u)
  <2> DEFINE i == FirstOf(list, u)
             e == [list[i] EXCEPT !.name = n]
             new == [list EXCEPT ![i] = e]
  <2>1. DOMAIN list = 1 .. Len(list) /\ Len(list) \in Nat
    OBVIOUS
  <2>2. i \in DOMAIN list /\ list[i].user = u
    BY <1>3, FirstOfIs
  <2>3. Renamed(list, u, n) = new
    BY <1>3 DEF Renamed
  <2>4. list[i] \in Entries
    BY <2>1, <2>2
  <2>5. e = r /\ e \in Entries
    BY <1>1, <2>2, <2>4 DEF Entries
  <2> HIDE DEF i, e
  <2>6. new \in Seq(Entries) /\ DOMAIN new = DOMAIN list /\ new[i] = r
    BY <2>1, <2>2, <2>5
  <2>7. \A j \in DOMAIN list : list[j].user # u => new[j] = list[j]
    BY <2>2
  <2>8. r \in Range(new)
    BY <2>2, <2>6 DEF Range
  <2>9. \A f \in Range(list) : f.user # u => f \in Range(new)
    BY <2>6, <2>7 DEF Range
  <2> QED BY <2>3, <2>6, <2>8, <2>9 DEF u, n
<1> QED BY <1>2, <1>3

LEMMA CdaInitInv == CdaInit => CdaInv
<1> SUFFICES ASSUME CdaInit PROVE CdaInv
  OBVIOUS
<1>1. cdaDeeds \in 0 .. CdaDeeds
  BY CdaAssumption DEF CdaInit
<1>2. cdaCodes \in [CdaMembers -> CdaNames \cup {None}] /\ granted \in [CdaMembers -> CdaNames \cup {None}]
      /\ \A u \in CdaMembers : granted[u] = None
  BY DEF CdaInit
<1>3. cdaFile \in Seq(Entries)
  <2>1. \/ cdaFile = <<>>
        \/ \E u \in CdaMembers, n \in CdaNames : cdaFile = <<[user |-> u, name |-> n]>>
    BY DEF CdaInit
  <2>2. \A u \in CdaMembers, n \in CdaNames : [user |-> u, name |-> n] \in Entries
    BY DEF Entries
  <2>3. \A e \in Entries : <<e>> \in Seq(Entries)
    OBVIOUS
  <2>4. <<>> \in Seq(Entries)
    OBVIOUS
  <2> HIDE DEF Entries
  <2>5. CASE \E u \in CdaMembers, n \in CdaNames : cdaFile = <<[user |-> u, name |-> n]>>
    <3>1. PICK u \in CdaMembers, n \in CdaNames : cdaFile = <<[user |-> u, name |-> n]>>
      BY <2>5
    <3> QED BY <2>2, <2>3, <3>1
  <2> QED BY <2>1, <2>4, <2>5
<1>4. cdaKnown \in [Cogs -> Seq(Entries)]
  BY <1>3 DEF CdaInit
<1>5. AttemptsTyped
  BY NoAttemptIs DEF CdaInit, AttemptsTyped
<1>6. PassesTyped
  BY NoPassIs DEF CdaInit, PassesTyped
<1>7. cdaRoles \in [CdaMembers -> MemberRoles]
  <2>1. {"verified"} \in MemberRoles /\ {"awaiting"} \in MemberRoles
    BY DEF MemberRoles
  <2> QED BY <2>1 DEF CdaInit
<1>8. groupOf \in [CdaNames -> Groups \cup {None}]
  BY DEF CdaInit, Groups
<1>9. nameAsked \subseteq Entries
  BY DEF CdaInit
<1>10. CdaTyped
  BY <1>1, <1>2, <1>3, <1>4, <1>5, <1>6, <1>7, <1>8, <1>9 DEF CdaTyped
<1>11. GrantedIsKept /\ GrantedIsKnown
  BY <1>2 DEF GrantedIsKept, GrantedIsKnown
<1> QED BY <1>10, <1>11 DEF CdaInv

LEMMA VerifiesInv ==
    ASSUME CdaInv, NEW u \in CdaMembers, NEW n \in CdaNames, NEW s \in CdaAttempts, CdaVerifies(s, u, n)
    PROVE  CdaInv'
<1> USE DEF CdaInv
<1>1. CdaDeed /\ UNCHANGED <<cdaFile, cdaKnown, nameAsked, cdaRoles, groupOf, pass, granted>>
  BY DEF CdaVerifies
<1>2. cdaDeeds' \in 0 .. CdaDeeds
  BY <1>1, CdaDeedBound
<1>3. cdaCodes' \in [CdaMembers -> CdaNames \cup {None}]
  BY DEF CdaVerifies, IssuesCode, CdaTyped
<1>4. AttemptsTyped'
  <2>1. CASE attempt' = attempt
    BY <2>1 DEF CdaTyped, AttemptsTyped
  <2>2. CASE attempt' = [attempt EXCEPT ![s] = [at |-> "fetch", user |-> u, name |-> n]]
    <3>1. [at |-> "fetch", user |-> u, name |-> n] \in Attempts
      BY DEF Attempts
    <3> QED BY <2>2, <3>1, AttemptTurn
  <2> QED BY <2>1, <2>2 DEF CdaVerifies
<1>5. PassesTyped'
  BY <1>1 DEF CdaTyped, PassesTyped
<1> QED BY <1>1, <1>2, <1>3, <1>4, <1>5, CdaAside DEF CdaTyped

LEMMA AttemptInv ==
    ASSUME CdaInv, NEW s \in CdaAttempts, VerifyUnproven(s) \/ VerifyUnanswered(s) \/ VerifyRoles(s)
    PROVE  CdaInv'
<1> USE DEF CdaInv
<1>1. /\ UNCHANGED <<cdaFile, cdaKnown, nameAsked, groupOf, pass, granted>>
      /\ attempt[s].at # "no" /\ attempt' = [attempt EXCEPT ![s] = NoAttempt]
      /\ cdaDeeds' = cdaDeeds \/ CdaDeed
  BY DEF VerifyUnproven, VerifyUnanswered, VerifyRoles
<1>2. attempt[s].user \in CdaMembers /\ attempt[s].name \in CdaNames
  BY <1>1 DEF CdaTyped, AttemptsTyped
<1>3. cdaDeeds' \in 0 .. CdaDeeds
  BY <1>1, CdaDeedBound DEF CdaTyped
<1>4. AttemptsTyped'
  BY <1>1, NoAttemptIs, AttemptTurn
<1>5. PassesTyped'
  BY <1>1 DEF CdaTyped, PassesTyped
<1>6. cdaCodes' \in [CdaMembers -> CdaNames \cup {None}]
  BY <1>2 DEF VerifyUnproven, VerifyUnanswered, VerifyRoles, IssuesCode, CdaTyped
<1>7. cdaRoles' \in [CdaMembers -> MemberRoles]
  <2>1. CASE cdaRoles' = cdaRoles
    BY <2>1 DEF CdaTyped
  <2>2. CASE VerifyRoles(s) /\ cdaRoles' # cdaRoles
    <3> DEFINE u == attempt[s].user
               swapped == (cdaRoles[u] \ {"awaiting"}) \cup {"verified"}
               given == {groupOf[attempt[s].name]} \ {None}
    <3>1. /\ cdaRoles[u] # Gone
          /\ \/ cdaRoles' = [cdaRoles EXCEPT ![u] = (swapped \ Groups) \cup given]
             \/ cdaRoles' = [cdaRoles EXCEPT ![u] = swapped]
      BY <2>2 DEF VerifyRoles
    <3>2. cdaRoles[u] \in SUBSET (Groups \cup {"awaiting", "verified"})
      BY <1>2, <3>1 DEF CdaTyped, MemberRoles
    <3>3. given \subseteq Groups
      BY <1>2 DEF CdaTyped
    <3>4. swapped \in MemberRoles /\ (swapped \ Groups) \cup given \in MemberRoles
      <4>1. swapped \in SUBSET (Groups \cup {"awaiting", "verified"})
        BY <3>2
      <4>2. (swapped \ Groups) \cup given \in SUBSET (Groups \cup {"awaiting", "verified"})
        BY <3>3, <4>1
      <4> QED BY <4>1, <4>2 DEF MemberRoles
    <3> HIDE DEF swapped, given, u
    <3> QED BY <3>1, <3>4, MemberTurn
  <2> QED BY <2>1, <2>2 DEF VerifyUnproven, VerifyUnanswered
<1> QED BY <1>1, <1>3, <1>4, <1>5, <1>6, <1>7, CdaAside DEF CdaTyped

(* The one step of /verify that grants: it writes the file from the copy.   *)
LEMMA ProvenInv ==
    ASSUME CdaInv, NEW s \in CdaAttempts, VerifyProven(s)
    PROVE  CdaInv'
<1> USE DEF CdaInv
<1> DEFINE u == attempt[s].user
           n == attempt[s].name
           e == [user |-> u, name |-> n]
<1>1. /\ attempt[s].at = "fetch" /\ Appends(e)
      /\ pass' \in {pass, IF cdaShared /\ pass["task"].at # "no"
                          THEN [pass EXCEPT !["task"].left = Append(pass["task"].left, e)] ELSE pass}
      /\ UNCHANGED <<nameAsked, cdaRoles, groupOf, cdaDeeds>>
  BY DEF VerifyProven
<1>2. u \in CdaMembers /\ n \in CdaNames /\ e \in Entries
  BY <1>1 DEF CdaTyped, AttemptsTyped, Entries
<1>3. \/ /\ attempt' = [attempt EXCEPT ![s] = NoAttempt]
         /\ UNCHANGED <<cdaFile, cdaCodes, granted>>
      \/ /\ attempt' = [attempt EXCEPT ![s].at = "roles"]
         /\ cdaCodes' = [cdaCodes EXCEPT ![u] = None]
         /\ cdaFile' = cdaKnown'["verify"]
         /\ granted' = [granted EXCEPT ![u] = n]
  BY DEF VerifyProven
<1>4. attempt[s] \in Attempts
  BY DEF CdaTyped, AttemptsTyped
<1>5. AttemptsTyped'
  <2>1. CASE attempt' = [attempt EXCEPT ![s] = NoAttempt]
    BY <2>1, NoAttemptIs, AttemptTurn
  <2>2. CASE attempt' = [attempt EXCEPT ![s].at = "roles"]
    <3> DEFINE a == [attempt[s] EXCEPT !.at = "roles"]
    <3>1. a \in Attempts /\ a.user = u /\ a.name = n
      BY <1>4 DEF Attempts
    <3>2. attempt' = [attempt EXCEPT ![s] = a]
      BY <2>2
    <3> HIDE DEF a
    <3> QED BY <1>2, <3>1, <3>2, AttemptTurn
  <2> QED BY <1>3, <2>1, <2>2
<1>6. PassesTyped'
  <2>1. CASE pass' = pass
    BY <2>1 DEF CdaTyped, PassesTyped
  <2>2. CASE pass' = [pass EXCEPT !["task"].left = Append(pass["task"].left, e)]
    <3> DEFINE x == [pass["task"] EXCEPT !.left = Append(pass["task"].left, e)]
    <3>1. pass' = [pass EXCEPT !["task"] = x]
      BY <2>2
    <3>2. pass["task"] \in Passes /\ pass["task"].left \in Seq(Entries)
      BY DEF CdaTyped, PassesTyped, Passes
    <3>3. Append(pass["task"].left, e) \in Seq(Entries) /\ Append(pass["task"].left, e) # <<>>
      BY <1>2, <3>2
    <3>4. x \in Passes /\ x.left # <<>>
      BY <3>2, <3>3 DEF Passes
    <3> HIDE DEF x
    <3> QED BY <3>1, <3>4, PassTurn
  <2> QED BY <1>1, <2>1, <2>2
<1> HIDE DEF u, n, e
<1>7. /\ cdaKnown' \in [Cogs -> Seq(Entries)]
      /\ Range(cdaKnown'["verify"]) = Range(cdaKnown["verify"]) \cup {e}
  <2>1. \A c \in Cogs : cdaKnown[c] \in Seq(Entries)
    BY DEF CdaTyped
  <2>2. \A c \in Cogs : cdaKnown'[c] = IF c = "verify" \/ cdaShared THEN Append(cdaKnown[c], e) ELSE cdaKnown[c]
    BY <1>1 DEF Appends
  <2>3. \A c \in Cogs : Append(cdaKnown[c], e) \in Seq(Entries)
    BY <1>2, <2>1, AppendEntry
  <2>4. cdaKnown' \in [Cogs -> Seq(Entries)]
    BY <1>1, <2>1, <2>3 DEF Appends
  <2>5. "verify" \in Cogs
    BY DEF Cogs
  <2>6. cdaKnown'["verify"] = Append(cdaKnown["verify"], e)
    BY <2>2, <2>5
  <2> QED BY <1>2, <2>1, <2>4, <2>5, <2>6, AppendEntry
<1>8. cdaFile' \in Seq(Entries)
  <2>1. "verify" \in Cogs
    BY DEF Cogs
  <2> QED BY <1>3, <1>7, <2>1 DEF CdaTyped
<1>9. cdaCodes' \in [CdaMembers -> CdaNames \cup {None}] /\ granted' \in [CdaMembers -> CdaNames \cup {None}]
  BY <1>2, <1>3 DEF CdaTyped
<1>10. CdaTyped'
  BY <1>1, <1>5, <1>6, <1>7, <1>8, <1>9 DEF CdaTyped
<1>11. ASSUME NEW v \in CdaMembers, granted'[v] # None
       PROVE  Entry(v)' \in Range(cdaKnown'["verify"])
  <2>1. CASE granted' = granted
    BY <1>7, <1>11, <2>1 DEF GrantedIsKnown, Entry
  <2>2. CASE granted' = [granted EXCEPT ![u] = n] /\ v = u
    <3>1. granted'[v] = n
      BY <2>2 DEF CdaTyped
    <3> QED BY <1>7, <2>2, <3>1 DEF Entry, e
  <2>3. CASE granted' = [granted EXCEPT ![u] = n] /\ v # u
    <3>1. granted'[v] = granted[v]
      BY <2>3 DEF CdaTyped
    <3> QED BY <1>7, <1>11, <3>1 DEF GrantedIsKnown, Entry
  <2> QED BY <1>3, <2>1, <2>2, <2>3
<1>12. GrantedIsKnown'
  BY <1>11 DEF GrantedIsKnown
<1>13. GrantedIsKept'
  <2>1. CASE cdaFile' = cdaFile /\ granted' = granted
    BY <2>1 DEF GrantedIsKept
  <2>2. CASE cdaFile' = cdaKnown'["verify"]
    BY <1>12, <2>2 DEF GrantedIsKnown, GrantedIsKept, Entry
  <2> QED BY <1>3, <2>1, <2>2
<1> QED BY <1>10, <1>12, <1>13

LEMMA NamesInv ==
    ASSUME CdaInv, NEW r \in nameAsked, ApprovesName(r) \/ RejectsName(r)
    PROVE  CdaInv'
<1> USE DEF CdaInv
<1>1. r \in Entries /\ r.user \in CdaMembers /\ r.name \in CdaNames /\ r = [user |-> r.user, name |-> r.name]
  BY DEF CdaTyped, Entries
<1>2. CASE RejectsName(r)
  <2>1. /\ UNCHANGED <<cdaFile, cdaKnown, cdaCodes, attempt, cdaRoles, groupOf, pass, granted, cdaDeeds>>
        /\ nameAsked' \subseteq Entries
    BY <1>2 DEF RejectsName, CdaTyped
  <2>2. AttemptsTyped' /\ PassesTyped'
    BY <2>1 DEF CdaTyped, AttemptsTyped, PassesTyped
  <2> QED BY <2>1, <2>2, CdaAside DEF CdaTyped
<1>3. CASE ApprovesName(r)
  <2>1. /\ cdaFile' = Renamed(cdaFile, r.user, r.name)
        /\ cdaKnown' = [c \in Cogs |-> cdaFile']
        /\ granted' = [granted EXCEPT ![r.user] = r.name]
        /\ cdaDeeds' = cdaDeeds \/ CdaDeed
        /\ nameAsked' \subseteq nameAsked
        /\ UNCHANGED <<cdaCodes, attempt, cdaRoles, groupOf, pass>>
    BY <1>3 DEF ApprovesName, Syncs
  <2>2. cdaFile \in Seq(Entries)
    BY DEF CdaTyped
  <2>3. /\ cdaFile' \in Seq(Entries) /\ r \in Range(cdaFile')
        /\ \A e \in Range(cdaFile) : e.user # r.user => e \in Range(cdaFile')
    BY <1>1, <2>1, <2>2, RenamedIs
  <2>4. cdaDeeds' \in 0 .. CdaDeeds
    BY <2>1, CdaDeedBound DEF CdaTyped
  <2>5. AttemptsTyped' /\ PassesTyped'
    BY <2>1 DEF CdaTyped, AttemptsTyped, PassesTyped
  <2>6. granted' \in [CdaMembers -> CdaNames \cup {None}]
    BY <1>1, <2>1 DEF CdaTyped
  <2>7. cdaKnown' \in [Cogs -> Seq(Entries)] /\ cdaKnown'["verify"] = cdaFile'
    BY <2>1, <2>3 DEF Cogs
  <2>8. CdaTyped'
    BY <2>1, <2>3, <2>4, <2>5, <2>6, <2>7 DEF CdaTyped
  <2>9. ASSUME NEW v \in CdaMembers, granted'[v] # None
        PROVE  [user |-> v, name |-> granted'[v]] \in Range(cdaFile')
    <3>1. CASE v = r.user
      <4>1. granted'[v] = r.name
        BY <1>1, <2>1, <3>1 DEF CdaTyped
      <4> QED BY <1>1, <2>3, <3>1, <4>1
    <3>2. CASE v # r.user
      <4>1. granted'[v] = granted[v]
        BY <2>1, <3>2 DEF CdaTyped
      <4>2. [user |-> v, name |-> granted[v]] \in Range(cdaFile)
        BY <2>9, <4>1 DEF GrantedIsKept
      <4>3. [user |-> v, name |-> granted[v]].user = v
        OBVIOUS
      <4> QED BY <2>3, <3>2, <4>1, <4>2, <4>3
    <3> QED BY <3>1, <3>2
  <2>10. GrantedIsKept'
    BY <2>9 DEF GrantedIsKept
  <2>11. GrantedIsKnown'
    BY <2>7, <2>9 DEF GrantedIsKnown, Entry
  <2> QED BY <2>8, <2>10, <2>11
<1> QED BY <1>2, <1>3

LEMMA UnverifiesInv ==
    ASSUME CdaInv, NEW u \in CdaMembers, ResetsVerification(u)
    PROVE  CdaInv'
<1> USE DEF CdaInv
<1>1. /\ CdaDeed /\ cdaRoles[u] # Gone
      /\ cdaFile' = Kept(cdaFile, {e \in Range(cdaFile) : e.user # u})
      /\ granted' = [granted EXCEPT ![u] = None]
      /\ \/ cdaRoles' = [cdaRoles EXCEPT ![u] = (cdaRoles[u] \ {"verified"}) \cup {"awaiting"}]
         \/ cdaRoles' = cdaRoles
      /\ UNCHANGED <<cdaKnown, cdaCodes, attempt, nameAsked, groupOf, pass>>
  BY DEF ResetsVerification
<1>2. cdaDeeds' \in 0 .. CdaDeeds
  BY <1>1, CdaDeedBound
<1>3. cdaFile \in Seq(Entries)
  BY DEF CdaTyped
<1>4. /\ cdaFile' \in Seq(Entries)
      /\ Range(cdaFile') = Range(cdaFile) \cap {e \in Range(cdaFile) : e.user # u}
  BY <1>1, <1>3, KeptIs
<1>5. cdaRoles' \in [CdaMembers -> MemberRoles]
  <2>1. (cdaRoles[u] \ {"verified"}) \cup {"awaiting"} \in MemberRoles
    <3>1. cdaRoles[u] \in SUBSET (Groups \cup {"awaiting", "verified"})
      BY <1>1 DEF CdaTyped, MemberRoles
    <3>2. (cdaRoles[u] \ {"verified"}) \cup {"awaiting"} \in SUBSET (Groups \cup {"awaiting", "verified"})
      BY <3>1
    <3> QED BY <3>2 DEF MemberRoles
  <2>2. CASE cdaRoles' = cdaRoles
    BY <2>2 DEF CdaTyped
  <2> QED BY <1>1, <2>1, <2>2, MemberTurn
<1>6. AttemptsTyped' /\ PassesTyped'
  BY <1>1 DEF CdaTyped, AttemptsTyped, PassesTyped
<1>7. granted' \in [CdaMembers -> CdaNames \cup {None}]
  BY <1>1 DEF CdaTyped
<1>8. CdaTyped'
  BY <1>1, <1>2, <1>4, <1>5, <1>6, <1>7 DEF CdaTyped
<1>9. \A v \in CdaMembers : granted'[v] # None => v # u /\ granted'[v] = granted[v]
  BY <1>1 DEF CdaTyped
<1>10. ASSUME NEW v \in CdaMembers, granted'[v] # None
       PROVE  [user |-> v, name |-> granted'[v]] \in Range(cdaFile')
  <2>1. [user |-> v, name |-> granted[v]] \in Range(cdaFile)
    BY <1>9, <1>10 DEF GrantedIsKept
  <2>2. [user |-> v, name |-> granted[v]].user # u
    BY <1>9, <1>10
  <2> QED BY <1>4, <1>9, <1>10, <2>1, <2>2
<1>11. GrantedIsKept'
  BY <1>10 DEF GrantedIsKept
<1>12. GrantedIsKnown'
  BY <1>1, <1>9 DEF GrantedIsKnown, Entry
<1> QED BY <1>8, <1>11, <1>12

LEMMA CdaMemberInv ==
    ASSUME CdaInv, NEW u \in CdaMembers,
           CodeExpires(u) \/ JoinsGuild(u) \/ LeavesGuild(u) \/ \E n \in CdaNames : AsksName(u, n)
    PROVE  CdaInv'
<1> USE DEF CdaInv
<1>1. /\ UNCHANGED <<cdaFile, cdaKnown, attempt, groupOf, granted>>
      /\ cdaDeeds' = cdaDeeds \/ CdaDeed
  BY DEF CodeExpires, JoinsGuild, LeavesGuild, AsksName
<1>2. cdaDeeds' \in 0 .. CdaDeeds
  BY <1>1, CdaDeedBound DEF CdaTyped
<1>3. AttemptsTyped'
  BY <1>1 DEF CdaTyped, AttemptsTyped
<1>4. cdaCodes' \in [CdaMembers -> CdaNames \cup {None}]
  BY DEF CodeExpires, JoinsGuild, LeavesGuild, AsksName, CdaTyped
<1>5. nameAsked' \subseteq Entries
  <2>1. \A n \in CdaNames : [user |-> u, name |-> n] \in Entries
    BY DEF Entries
  <2> QED BY <2>1 DEF CodeExpires, JoinsGuild, LeavesGuild, AsksName, CdaTyped
<1>6. cdaRoles' \in [CdaMembers -> MemberRoles]
  <2>1. cdaRoles' = cdaRoles \/ \E had \in MemberRoles : cdaRoles' = [cdaRoles EXCEPT ![u] = had]
    BY DEF CodeExpires, JoinsGuild, LeavesGuild, AsksName, MemberRoles
  <2>2. CASE cdaRoles' = cdaRoles
    BY <2>2 DEF CdaTyped
  <2> QED BY <2>1, <2>2, MemberTurn
<1>7. PassesTyped'
  <2>1. CASE pass' = pass
    BY <2>1 DEF CdaTyped, PassesTyped
  <2>2. CASE JoinsGuild(u) /\ pass' # pass
    <3> DEFINE list == cdaKnown["updater"]
               e == list[FirstOf(list, u)]
               x == [NoPass EXCEPT !.at = "fetch", !.user = u, !.left = <<e>>]
    <3>1. Lists(list, u) /\ pass' = [pass EXCEPT !["join"] = x]
      BY <2>2 DEF JoinsGuild
    <3>2. list \in Seq(Entries)
      BY DEF CdaTyped, Cogs
    <3>3. FirstOf(list, u) \in DOMAIN list
      BY <3>1, <3>2, FirstOfIs
    <3>4. e \in Entries
      BY <3>2, <3>3
    <3>5. <<e>> \in Seq(Entries) /\ <<e>> # <<>>
      BY <3>4
    <3>6. x \in Passes /\ x.left # <<>>
      BY <3>5, NoPassIs DEF Passes
    <3> HIDE DEF x
    <3> QED BY <3>1, <3>6, PassTurn
  <2> QED BY <2>1, <2>2 DEF CodeExpires, LeavesGuild, AsksName
<1> QED BY <1>1, <1>2, <1>3, <1>4, <1>5, <1>6, <1>7, CdaAside DEF CdaTyped

LEMMA PassInv ==
    ASSUME CdaInv,
           \/ PassBegins \/ PassNext
           \/ \E p \in {"task", "join"} : PassUnanswered(p) \/ PassCompares(p)
    PROVE  CdaInv'
<1> USE DEF CdaInv
<1>1. /\ UNCHANGED <<cdaFile, cdaKnown, cdaCodes, attempt, nameAsked, cdaRoles, groupOf, granted>>
      /\ cdaDeeds' = cdaDeeds \/ CdaDeed
  BY DEF PassBegins, PassNext, PassUnanswered, PassCompares
<1>2. cdaDeeds' \in 0 .. CdaDeeds
  BY <1>1, CdaDeedBound DEF CdaTyped
<1>3. AttemptsTyped'
  BY <1>1 DEF CdaTyped, AttemptsTyped
<1>4. \A p \in {"task", "join"} : pass[p] \in Passes /\ pass[p].left \in Seq(Entries)
  BY DEF CdaTyped, PassesTyped, Passes
<1>5. PassesTyped'
  <2>1. CASE PassBegins
    <3> DEFINE x == [NoPass EXCEPT !.at = "next", !.left = cdaKnown["updater"]]
    <3>1. pass' = [pass EXCEPT !["task"] = x]
      BY <2>1 DEF PassBegins
    <3>2. cdaKnown["updater"] \in Seq(Entries)
      BY DEF CdaTyped, Cogs
    <3>3. x \in Passes /\ x.at = "next"
      BY <3>2, NoPassIs DEF Passes
    <3> HIDE DEF x
    <3> QED BY <3>1, <3>3, PassTurn
  <2>2. CASE PassNext
    <3> DEFINE left == pass["task"].left
    <3>1. CASE left = <<>>
      <4>1. pass' = [pass EXCEPT !["task"] = NoPass]
        BY <2>2, <3>1 DEF PassNext
      <4> QED BY <4>1, NoPassIs, PassTurn
    <3>2. CASE left # <<>> /\ cdaRoles[Head(left).user] = Gone
      <4> DEFINE x == [pass["task"] EXCEPT !.left = Tail(left)]
      <4>1. pass' = [pass EXCEPT !["task"] = x] /\ pass["task"].at = "next"
        BY <2>2, <3>2 DEF PassNext
      <4>2. Tail(left) \in Seq(Entries)
        BY <1>4, <3>2
      <4>3. x \in Passes /\ x.at = "next"
        BY <1>4, <4>1, <4>2 DEF Passes
      <4> HIDE DEF x
      <4> QED BY <4>1, <4>3, PassTurn
    <3>3. CASE left # <<>> /\ cdaRoles[Head(left).user] # Gone
      <4> DEFINE x == [pass["task"] EXCEPT !.at = "fetch", !.user = Head(left).user]
      <4>1. pass' = [pass EXCEPT !["task"] = x]
        BY <2>2, <3>3 DEF PassNext
      <4>2. Head(left) \in Entries
        BY <1>4, <3>3
      <4>3. Head(left).user \in CdaMembers
        BY <4>2 DEF Entries
      <4>4. x \in Passes /\ x.left # <<>>
        BY <1>4, <3>3, <4>3 DEF Passes
      <4> HIDE DEF x
      <4> QED BY <4>1, <4>4, PassTurn
    <3> QED BY <3>1, <3>2, <3>3
  <2>3. ASSUME NEW p \in {"task", "join"}, PassUnanswered(p)
        PROVE  PassesTyped'
    BY <2>3, OnwardIs, PassTurn DEF PassUnanswered
  <2>4. ASSUME NEW p \in {"task", "join"}, PassCompares(p)
        PROVE  PassesTyped'
    <3> DEFINE u == pass[p].user
               n == Head(pass[p].left).name
               x == [pass[p] EXCEPT !.at = "assign", !.add = RolesToAdd(u, n), !.remove = RolesToRemove(u, n)]
    <3>1. pass[p].at = "fetch" /\ pass[p].left # <<>>
      BY <2>4 DEF PassCompares, CdaTyped, PassesTyped
    <3>2. Head(pass[p].left) \in Entries
      BY <1>4, <3>1
    <3>3. n \in CdaNames
      BY <3>2 DEF Entries
    <3>4. RolesToAdd(u, n) \in SUBSET Groups
      <4>1. groupOf[n] \in Groups \cup {None}
        BY <3>3 DEF CdaTyped
      <4> QED BY <4>1 DEF RolesToAdd
    <3>5. RolesToRemove(u, n) \in SUBSET Groups
      BY DEF RolesToRemove
    <3>6. pass' = [pass EXCEPT ![p] = Onward(p)] \/ pass' = [pass EXCEPT ![p] = x]
      BY <2>4 DEF PassCompares
    <3>7. x \in Passes /\ x.at = "assign"
      BY <1>4, <3>4, <3>5 DEF Passes
    <3> HIDE DEF x
    <3> QED BY <3>6, <3>7, OnwardIs, PassTurn
  <2> QED BY <2>1, <2>2, <2>3, <2>4
<1> QED BY <1>1, <1>2, <1>3, <1>5, CdaAside DEF CdaTyped

LEMMA AssignsInv ==
    ASSUME CdaInv, NEW p \in {"task", "join"}, PassAssigns(p)
    PROVE  CdaInv'
<1> USE DEF CdaInv
<1> DEFINE u == pass[p].user
<1>1. UNCHANGED <<cdaFile, cdaKnown, cdaCodes, attempt, nameAsked, groupOf, granted, cdaDeeds>>
  BY DEF PassAssigns
<1>2. AttemptsTyped'
  BY <1>1 DEF CdaTyped, AttemptsTyped
<1>3. pass[p] \in Passes /\ pass[p].add \subseteq Groups /\ pass[p].at = "assign"
  BY DEF CdaTyped, PassesTyped, Passes, PassAssigns
<1>4. cdaRoles' \in [CdaMembers -> MemberRoles]
  <2>1. CASE cdaRoles' = cdaRoles
    BY <2>1 DEF CdaTyped
  <2>2. CASE cdaRoles[u] # Gone
    <3>1. \/ cdaRoles' = [cdaRoles EXCEPT ![u] = cdaRoles[u] \cup pass[p].add]
          \/ cdaRoles' = [cdaRoles EXCEPT ![u] = cdaRoles[u] \ pass[p].remove]
      BY <2>2 DEF PassAssigns
    <3>2. ASSUME u \in CdaMembers
          PROVE  /\ cdaRoles[u] \cup pass[p].add \in MemberRoles
                 /\ cdaRoles[u] \ pass[p].remove \in MemberRoles
      <4>1. cdaRoles[u] \in SUBSET (Groups \cup {"awaiting", "verified"})
        BY <2>2, <3>2 DEF CdaTyped, MemberRoles
      <4>2. /\ cdaRoles[u] \cup pass[p].add \in SUBSET (Groups \cup {"awaiting", "verified"})
            /\ cdaRoles[u] \ pass[p].remove \in SUBSET (Groups \cup {"awaiting", "verified"})
        BY <1>3, <4>1
      <4> QED BY <4>2 DEF MemberRoles
    <3> QED BY <3>1, <3>2, MemberTurn
  <2> QED BY <2>1, <2>2 DEF PassAssigns
<1>5. PassesTyped'
  <2> DEFINE x == [pass[p] EXCEPT !.add = {}]
  <2>1. pass' = [pass EXCEPT ![p] = x] \/ pass' = [pass EXCEPT ![p] = Onward(p)]
    BY DEF PassAssigns
  <2>2. x \in Passes /\ x.at = "assign"
    BY <1>3 DEF Passes
  <2> HIDE DEF x
  <2> QED BY <2>1, <2>2, OnwardIs, PassTurn
<1> QED BY <1>1, <1>2, <1>4, <1>5, CdaAside DEF CdaTyped

LEMMA CdaRestInv ==
    ASSUME CdaInv, CdaRestarts \/ \E n \in CdaNames, g \in Groups : CdaGroupChanges(n, g)
    PROVE  CdaInv'
<1> USE DEF CdaInv
<1>1. CASE \E n \in CdaNames, g \in Groups : CdaGroupChanges(n, g)
  <2>1. /\ UNCHANGED <<cdaFile, cdaKnown, cdaCodes, attempt, nameAsked, cdaRoles, pass, granted>>
        /\ CdaDeed /\ groupOf' \in [CdaNames -> Groups \cup {None}]
    BY <1>1 DEF CdaGroupChanges, CdaTyped
  <2>2. AttemptsTyped' /\ PassesTyped'
    BY <2>1 DEF CdaTyped, AttemptsTyped, PassesTyped
  <2> QED BY <2>1, <2>2, CdaDeedBound, CdaAside DEF CdaTyped
<1>2. CASE CdaRestarts
  <2>1. /\ CdaDeed /\ cdaKnown' = [c \in Cogs |-> cdaFile]
        /\ attempt' = [s \in CdaAttempts |-> NoAttempt] /\ nameAsked' = {}
        /\ pass' = [p \in {"task", "join"} |-> NoPass]
        /\ UNCHANGED <<cdaFile, cdaCodes, cdaRoles, groupOf, granted>>
    BY <1>2 DEF CdaRestarts
  <2>2. AttemptsTyped'
    BY <2>1, NoAttemptIs DEF AttemptsTyped
  <2>3. PassesTyped'
    BY <2>1, NoPassIs DEF PassesTyped
  <2>4. cdaKnown' \in [Cogs -> Seq(Entries)] /\ cdaKnown'["verify"] = cdaFile
    BY <2>1 DEF Cogs, CdaTyped
  <2>5. CdaTyped'
    BY <2>1, <2>2, <2>3, <2>4, CdaDeedBound DEF CdaTyped
  <2>6. GrantedIsKept'
    BY <2>1 DEF GrantedIsKept
  <2>7. GrantedIsKnown'
    BY <2>1, <2>4 DEF GrantedIsKept, GrantedIsKnown, Entry
  <2> QED BY <2>5, <2>6, <2>7
<1> QED BY <1>1, <1>2

LEMMA CdaStepInv == CdaInv /\ [CdaNext]_cdaVars => CdaInv'
<1> SUFFICES ASSUME CdaInv, [CdaNext]_cdaVars PROVE CdaInv'
  OBVIOUS
<1>1. CASE UNCHANGED cdaVars
  BY <1>1 DEF cdaVars, CdaInv, CdaTyped, AttemptsTyped, PassesTyped, GrantedIsKept, GrantedIsKnown, Entry
<1>2. ASSUME NEW u \in CdaMembers,
             \/ \E n \in CdaNames : (\E s \in CdaAttempts : CdaVerifies(s, u, n)) \/ AsksName(u, n)
             \/ CodeExpires(u) \/ ResetsVerification(u) \/ JoinsGuild(u) \/ LeavesGuild(u)
      PROVE  CdaInv'
  <2>1. CASE \E n \in CdaNames, s \in CdaAttempts : CdaVerifies(s, u, n)
    BY <2>1, VerifiesInv
  <2>2. CASE ResetsVerification(u)
    BY <2>2, UnverifiesInv
  <2> QED BY <1>2, <2>1, <2>2, CdaMemberInv
<1>3. ASSUME NEW s \in CdaAttempts,
             VerifyUnproven(s) \/ VerifyUnanswered(s) \/ VerifyProven(s) \/ VerifyRoles(s)
      PROVE  CdaInv'
  BY <1>3, AttemptInv, ProvenInv
<1>4. CASE \E r \in nameAsked : ApprovesName(r) \/ RejectsName(r)
  BY <1>4, NamesInv
<1>5. CASE PassBegins \/ PassNext
  BY <1>5, PassInv
<1>6. ASSUME NEW p \in {"task", "join"}, PassUnanswered(p) \/ PassCompares(p) \/ PassAssigns(p)
      PROVE  CdaInv'
  BY <1>6, PassInv, AssignsInv
<1>7. CASE CdaRestarts \/ \E n \in CdaNames, g \in Groups : CdaGroupChanges(n, g)
  BY <1>7, CdaRestInv
<1> QED BY <1>1, <1>2, <1>3, <1>4, <1>5, <1>6, <1>7 DEF CdaNext

LEMMA CdaPromises == CdaInv => CdaTypeOK
<1> SUFFICES ASSUME CdaInv PROVE CdaTypeOK
  OBVIOUS
<1>1. \A e \in Range(cdaFile) : e.user \in CdaMembers /\ e.name \in CdaNames
  <2>1. \A i \in DOMAIN cdaFile : cdaFile[i] \in Entries
    BY DEF CdaInv, CdaTyped
  <2> QED BY <2>1 DEF Entries, Range
<1> QED BY <1>1 DEF CdaInv, CdaTyped, MemberRoles, CdaTypeOK

---------------------------------------------------------------------------
(* Checks of members.                                                      *)

Standings == [there : BOOLEAN, verified : BOOLEAN, awaiting : BOOLEAN, employee : BOOLEAN]
Posters == [at : {"no", "waits", "reads", "sends"}, watcher : Watchers \cup {"none"},
            member : Checked \cup {"none"}]

CheckTyped ==
    /\ checkDay \in 0 .. CheckDays /\ checkDeeds \in 0 .. CheckDeeds
    /\ standing \in [Checked -> Standings]
    /\ \A u \in Checked : standing[u].verified => ~standing[u].awaiting
    /\ alerts \in [Watchers -> Seq(Checked)] /\ alerted \in [Watchers -> SUBSET Checked]
    /\ poster \in [CheckTasks -> Posters]
    /\ \A t \in CheckTasks :
         poster[t].at # "no" => poster[t].watcher \in Watchers /\ poster[t].member \in Checked

Holds(t) == poster[t].at \in {"reads", "sends"}

(* One task of a watcher holds its lock, and its member is not remembered;  *)
(* a task about to send has looked at the channel, if that can be read.     *)
LockHeld ==
    \A s, t \in CheckTasks :
        Holds(s) /\ Holds(t) /\ poster[s].watcher = poster[t].watcher => s = t
HeldIsNew == \A t \in CheckTasks : Holds(t) => poster[t].member \notin alerted[poster[t].watcher]
SentIsNew ==
    ~historyFails => \A t \in CheckTasks :
        poster[t].at = "sends" => poster[t].member \notin Range(alerts[poster[t].watcher])
AlertsDiffer == ~historyFails => \A w \in Watchers : IsInjective(alerts[w])

CheckInv == CheckTyped /\ LockHeld /\ HeldIsNew /\ SentIsNew /\ AlertsDiffer

(* A member's roles change, or one is away.                                 *)
LEMMA StandingTyped ==
    ASSUME CheckTyped, NEW u, NEW s,
           u \in Checked => s \in Standings /\ (s.verified => ~s.awaiting),
           standing' = [standing EXCEPT ![u] = s]
    PROVE  /\ standing' \in [Checked -> Standings]
           /\ \A x \in Checked : standing'[x].verified => ~standing'[x].awaiting
<1>1. DOMAIN standing = Checked /\ \A x \in Checked : standing'[x] = IF x = u THEN s ELSE standing[x]
  BY DEF CheckTyped
<1>2. standing' = [x \in Checked |-> IF x = u THEN s ELSE standing[x]]
  BY <1>1 DEF CheckTyped
<1>3. \A x \in Checked : standing'[x] \in Standings /\ (standing'[x].verified => ~standing'[x].awaiting)
  BY <1>1 DEF CheckTyped
<1> QED BY <1>2, <1>3

LEMMA AwayTyped ==
    ASSUME CheckTyped, NEW u, Away(u)
    PROVE  /\ standing' \in [Checked -> Standings]
           /\ \A x \in Checked : standing'[x].verified => ~standing'[x].awaiting
<1> DEFINE s == [standing[u] EXCEPT !.there = FALSE]
<1>1. standing' = [standing EXCEPT ![u] = s]
  BY DEF Away
<1>2. u \in Checked => s \in Standings /\ (s.verified => ~s.awaiting)
  BY DEF CheckTyped, Standings
<1> HIDE DEF s
<1> QED BY <1>1, <1>2, StandingTyped

(* A step that leaves the tasks, the channels and what is remembered alone. *)
LEMMA CheckAside ==
    ASSUME CheckInv, UNCHANGED <<poster, alerts, alerted, historyFails>>,
           checkDay' \in 0 .. CheckDays, checkDeeds' \in 0 .. CheckDeeds,
           standing' \in [Checked -> Standings],
           \A u \in Checked : standing'[u].verified => ~standing'[u].awaiting
    PROVE  CheckInv'
<1>1. CheckTyped'
  BY DEF CheckInv, CheckTyped
<1> QED BY <1>1 DEF CheckInv, LockHeld, HeldIsNew, SentIsNew, AlertsDiffer, Holds

LEMMA CheckDeedBound ==
    ASSUME CheckTyped, CheckDeed
    PROVE  checkDeeds' \in 0 .. CheckDeeds
<1>1. checkDeeds \in 0 .. CheckDeeds /\ CheckDeeds \in Nat
  BY CheckAssumption DEF CheckTyped
<1> QED BY <1>1 DEF CheckDeed

LEMMA CheckInitInv == CheckInit => CheckInv
<1> SUFFICES ASSUME CheckInit PROVE CheckInv
  OBVIOUS
<1>1. checkDay \in 0 .. CheckDays /\ checkDeeds \in 0 .. CheckDeeds
  BY CheckAssumption DEF CheckInit
<1>2. standing \in [Checked -> Standings] /\ \A u \in Checked : ~standing[u].verified
  BY DEF CheckInit, Standings
<1>3. /\ poster \in [CheckTasks -> Posters] /\ \A t \in CheckTasks : poster[t].at = "no"
  BY DEF CheckInit, Posters, NoPoster
<1>4. alerts \in [Watchers -> Seq(Checked)] /\ \A w \in Watchers : alerts[w] = <<>>
  BY DEF CheckInit
<1>5. alerted \in [Watchers -> SUBSET Checked]
  BY DEF CheckInit
<1>6. IsInjective(<<>>)
  BY DEF IsInjective
<1>7. CheckTyped
  BY <1>1, <1>2, <1>3, <1>4, <1>5 DEF CheckTyped
<1>8. LockHeld /\ HeldIsNew /\ SentIsNew
  BY <1>3 DEF LockHeld, HeldIsNew, SentIsNew, Holds
<1>9. AlertsDiffer
  BY <1>4, <1>6 DEF AlertsDiffer
<1> QED BY <1>7, <1>8, <1>9 DEF CheckInv

(* A task goes on, or is over.                                              *)
LEMMA PosterTyped ==
    ASSUME CheckTyped, NEW t \in CheckTasks, NEW p \in Posters,
           p.at # "no" => p.watcher \in Watchers /\ p.member \in Checked,
           poster' = [poster EXCEPT ![t] = p]
    PROVE  /\ poster' \in [CheckTasks -> Posters] /\ poster'[t] = p
           /\ \A x \in CheckTasks : x # t => poster'[x] = poster[x]
           /\ \A x \in CheckTasks :
                poster'[x].at # "no" => poster'[x].watcher \in Watchers /\ poster'[x].member \in Checked
<1>1. poster' \in [CheckTasks -> Posters] /\ poster'[t] = p
  BY DEF CheckTyped
<1>2. \A x \in CheckTasks : x # t => poster'[x] = poster[x]
  BY DEF CheckTyped
<1>3. \A x \in CheckTasks :
        poster'[x].at # "no" => poster'[x].watcher \in Watchers /\ poster'[x].member \in Checked
  BY <1>1, <1>2 DEF CheckTyped
<1> QED BY <1>1, <1>2, <1>3

LEMMA NoPosterIs == NoPoster \in Posters /\ NoPoster.at = "no"
BY DEF NoPoster, Posters

(* A task that does not hold the lock afterwards.                           *)
LEMMA LetsGo ==
    ASSUME CheckInv, NEW t \in CheckTasks, NEW p \in Posters, p.at \in {"no", "waits"},
           p.at # "no" => p.watcher \in Watchers /\ p.member \in Checked,
           poster' = [poster EXCEPT ![t] = p],
           UNCHANGED <<standing, alerts, alerted, historyFails, checkDay>>,
           checkDeeds' \in 0 .. CheckDeeds
    PROVE  CheckInv'
<1> USE DEF CheckInv
<1>1. /\ poster' \in [CheckTasks -> Posters] /\ poster'[t] = p
      /\ \A x \in CheckTasks : x # t => poster'[x] = poster[x]
      /\ \A x \in CheckTasks :
           poster'[x].at # "no" => poster'[x].watcher \in Watchers /\ poster'[x].member \in Checked
  BY PosterTyped
<1>2. CheckTyped'
  BY <1>1 DEF CheckTyped
<1>3. \A x \in CheckTasks : poster'[x].at \in {"reads", "sends"} => poster'[x] = poster[x]
  BY <1>1
<1>4. LockHeld'
  BY <1>3 DEF LockHeld, Holds
<1>5. HeldIsNew'
  BY <1>3 DEF HeldIsNew, Holds
<1>6. SentIsNew'
  BY <1>3 DEF SentIsNew
<1>7. AlertsDiffer'
  BY DEF AlertsDiffer
<1> QED BY <1>2, <1>4, <1>5, <1>6, <1>7

LEMMA SeesInv ==
    ASSUME CheckInv, NEW t \in CheckTasks, NEW w \in Watchers, NEW u \in Checked, SeesMember(t, w, u)
    PROVE  CheckInv'
<1>1. /\ poster' = [poster EXCEPT ![t] = [at |-> "waits", watcher |-> w, member |-> u]]
      /\ UNCHANGED <<standing, alerts, alerted, historyFails, checkDay>> /\ CheckDeed
  BY DEF SeesMember, checkQuiet
<1>2. [at |-> "waits", watcher |-> w, member |-> u] \in Posters
  BY DEF Posters
<1>3. checkDeeds' \in 0 .. CheckDeeds
  BY <1>1, CheckDeedBound DEF CheckInv
<1> QED BY <1>1, <1>2, <1>3, LetsGo

LEMMA TakesLockInv ==
    ASSUME CheckInv, NEW t \in CheckTasks, TakesLock(t)
    PROVE  CheckInv'
<1> USE DEF CheckInv
<1>1. /\ poster[t].at = "waits" /\ LockFree(t)
      /\ UNCHANGED <<standing, alerts, alerted, historyFails, checkDay, checkDeeds>>
  BY DEF TakesLock, checkQuiet
<1>2. checkDeeds' \in 0 .. CheckDeeds
  BY <1>1 DEF CheckTyped
<1>3. CASE poster[t].member \in alerted[poster[t].watcher]
  <2>1. poster' = [poster EXCEPT ![t] = NoPoster]
    BY <1>3 DEF TakesLock
  <2> QED BY <1>1, <1>2, <2>1, NoPosterIs, LetsGo
<1>4. CASE poster[t].member \notin alerted[poster[t].watcher]
  <2> DEFINE p == [poster[t] EXCEPT !.at = "reads"]
  <2>1. poster' = [poster EXCEPT ![t] = p]
    BY <1>4 DEF TakesLock
  <2>2. poster[t] \in Posters
    BY DEF CheckTyped
  <2>3. p \in Posters /\ p.at = "reads" /\ p.watcher = poster[t].watcher /\ p.member = poster[t].member
    BY <2>2 DEF Posters
  <2>4. p.watcher \in Watchers /\ p.member \in Checked
    BY <1>1, <2>3 DEF CheckTyped
  <2> HIDE DEF p
  <2>5. /\ poster' \in [CheckTasks -> Posters] /\ poster'[t] = p
        /\ \A x \in CheckTasks : x # t => poster'[x] = poster[x]
        /\ \A x \in CheckTasks :
             poster'[x].at # "no" => poster'[x].watcher \in Watchers /\ poster'[x].member \in Checked
    BY <2>1, <2>3, <2>4, PosterTyped
  <2>6. CheckTyped'
    BY <1>1, <2>5 DEF CheckTyped
  <2>7. \A s \in CheckTasks : poster[s].watcher = poster[t].watcher => ~Holds(s)
    BY <1>1 DEF LockFree, Holds
  <2>8. LockHeld'
    BY <2>3, <2>5, <2>7 DEF LockHeld, Holds
  <2>9. HeldIsNew'
    BY <1>1, <1>4, <2>3, <2>5 DEF HeldIsNew, Holds
  <2>10. SentIsNew'
    BY <1>1, <2>3, <2>5 DEF SentIsNew
  <2>11. AlertsDiffer'
    BY <1>1 DEF AlertsDiffer
  <2> QED BY <2>6, <2>8, <2>9, <2>10, <2>11
<1> QED BY <1>3, <1>4

(* What is remembered of a member is what the task that holds the lock adds. *)
LEMMA RemembersInv ==
    ASSUME CheckInv, NEW t \in CheckTasks, Holds(t),
           poster' = [poster EXCEPT ![t] = NoPoster],
           alerted' = [alerted EXCEPT ![poster[t].watcher] = alerted[poster[t].watcher] \cup {poster[t].member}],
           \/ alerts' = alerts
           \/ /\ poster[t].at = "sends"
              /\ alerts' = [alerts EXCEPT ![poster[t].watcher] = Append(alerts[poster[t].watcher], poster[t].member)],
           UNCHANGED <<standing, historyFails, checkDay, checkDeeds>>
    PROVE  CheckInv'
<1> USE DEF CheckInv
<1> DEFINE w == poster[t].watcher
           u == poster[t].member
<1>1. w \in Watchers /\ u \in Checked
  BY DEF CheckTyped, Holds
<1>2. /\ poster' \in [CheckTasks -> Posters] /\ poster'[t] = NoPoster
      /\ \A x \in CheckTasks : x # t => poster'[x] = poster[x]
      /\ \A x \in CheckTasks :
           poster'[x].at # "no" => poster'[x].watcher \in Watchers /\ poster'[x].member \in Checked
  BY NoPosterIs, PosterTyped
<1>3. \A x \in CheckTasks : Holds(x)' => x # t /\ Holds(x) /\ poster'[x] = poster[x] /\ poster[x].watcher # w
  BY <1>2, NoPosterIs DEF Holds, LockHeld
<1>4. \A x \in CheckTasks : Holds(x) => poster[x].watcher \in Watchers
  BY DEF CheckTyped, Holds
<1> HIDE DEF w, u
<1>5. alerted' = [alerted EXCEPT ![w] = alerted[w] \cup {u}]
  BY DEF w, u
<1>6. alerted' \in [Watchers -> SUBSET Checked] /\ \A v \in Watchers : v # w => alerted'[v] = alerted[v]
  <2>1. alerted[w] \cup {u} \in SUBSET Checked
    BY <1>1 DEF CheckTyped
  <2>2. alerted \in [Watchers -> SUBSET Checked]
    BY DEF CheckTyped
  <2>3. alerted' \in [Watchers -> SUBSET Checked]
    BY <1>1, <1>5, <2>1, <2>2
  <2>4. \A v \in Watchers : v # w => alerted'[v] = alerted[v]
    BY <1>5, <2>2
  <2> QED BY <2>3, <2>4
<1>7. alerts' \in [Watchers -> Seq(Checked)] /\ \A v \in Watchers : v # w => alerts'[v] = alerts[v]
  <2>1. alerts' = alerts \/ alerts' = [alerts EXCEPT ![w] = Append(alerts[w], u)]
    BY DEF w, u
  <2>2. Append(alerts[w], u) \in Seq(Checked)
    BY <1>1 DEF CheckTyped
  <2> QED BY <1>1, <2>1, <2>2 DEF CheckTyped
<1>8. CheckTyped'
  BY <1>2, <1>6, <1>7 DEF CheckTyped
<1>9. LockHeld'
  BY <1>3 DEF LockHeld, Holds
<1>10. HeldIsNew'
  BY <1>3, <1>4, <1>6 DEF HeldIsNew, Holds
<1>11. SentIsNew'
  BY <1>3, <1>4, <1>7 DEF SentIsNew, Holds
<1>12. AlertsDiffer'
  <2>1. CASE alerts' = alerts
    BY <2>1 DEF AlertsDiffer
  <2>2. CASE /\ poster[t].at = "sends"
             /\ alerts' = [alerts EXCEPT ![w] = Append(alerts[w], u)]
    <3>1. alerts[w] \in Seq(Checked) /\ alerts'[w] = Append(alerts[w], u)
      BY <1>1, <2>2 DEF CheckTyped
    <3>2. ASSUME ~historyFails
          PROVE  IsInjective(alerts'[w])
      <4>1. u \notin Range(alerts[w])
        BY <2>2, <3>2 DEF SentIsNew, w, u
      <4>2. IsInjective(alerts[w])
        BY <1>1, <3>2 DEF AlertsDiffer
      <4> QED BY <1>1, <3>1, <4>1, <4>2, AppendDiffers
    <3> QED BY <1>7, <3>2 DEF AlertsDiffer
  <2> QED BY <2>1, <2>2 DEF w, u
<1> QED BY <1>8, <1>9, <1>10, <1>11, <1>12

LEMMA ReadsHistoryInv ==
    ASSUME CheckInv, NEW t \in CheckTasks, ReadsHistory(t)
    PROVE  CheckInv'
<1> USE DEF CheckInv
<1> DEFINE w == poster[t].watcher
           u == poster[t].member
<1>1. /\ poster[t].at = "reads"
      /\ UNCHANGED <<standing, alerts, historyFails, checkDay, checkDeeds>>
  BY DEF ReadsHistory, checkQuiet
<1>2. PICK found \in {(u \in Range(alerts[w]))} \cup (IF historyFails THEN {FALSE} ELSE {}) :
        /\ alerted' = IF found THEN [alerted EXCEPT ![w] = alerted[w] \cup {u}] ELSE alerted
        /\ poster' = [poster EXCEPT ![t] = IF found THEN NoPoster ELSE [poster[t] EXCEPT !.at = "sends"]]
  BY DEF ReadsHistory
<1>3. CASE found
  <2>1. /\ alerted' = [alerted EXCEPT ![w] = alerted[w] \cup {u}]
        /\ poster' = [poster EXCEPT ![t] = NoPoster]
    BY <1>2, <1>3
  <2> QED BY <1>1, <2>1, RemembersInv DEF Holds
<1>4. CASE ~found
  <2> DEFINE p == [poster[t] EXCEPT !.at = "sends"]
  <2>1. alerted' = alerted /\ poster' = [poster EXCEPT ![t] = p]
    BY <1>2, <1>4
  <2>2. historyFails \/ u \notin Range(alerts[w])
    BY <1>2, <1>4
  <2>3. poster[t] \in Posters /\ w \in Watchers /\ u \in Checked
    BY <1>1 DEF CheckTyped
  <2>4. p \in Posters /\ p.at = "sends" /\ p.watcher = w /\ p.member = u
    BY <2>3 DEF Posters
  <2> HIDE DEF p, w, u
  <2>5. /\ poster' \in [CheckTasks -> Posters] /\ poster'[t] = p
        /\ \A x \in CheckTasks : x # t => poster'[x] = poster[x]
        /\ \A x \in CheckTasks :
             poster'[x].at # "no" => poster'[x].watcher \in Watchers /\ poster'[x].member \in Checked
    BY <2>1, <2>3, <2>4, PosterTyped
  <2>6. CheckTyped'
    BY <1>1, <2>1, <2>5 DEF CheckTyped
  <2>7. \A x \in CheckTasks :
          /\ poster'[x].watcher = poster[x].watcher /\ poster'[x].member = poster[x].member
          /\ Holds(x)' <=> Holds(x)
    BY <1>1, <2>4, <2>5 DEF Holds, w, u
  <2>8. LockHeld'
    BY <2>7 DEF LockHeld
  <2>9. HeldIsNew'
    BY <2>1, <2>7 DEF HeldIsNew
  <2>10. SentIsNew'
    BY <1>1, <2>2, <2>4, <2>5 DEF SentIsNew
  <2>11. AlertsDiffer'
    BY <1>1 DEF AlertsDiffer
  <2> QED BY <2>6, <2>8, <2>9, <2>10, <2>11
<1> QED BY <1>3, <1>4

LEMMA SendsInv ==
    ASSUME CheckInv, NEW t \in CheckTasks, SendsAlert(t) \/ AlertFails(t)
    PROVE  CheckInv'
<1>1. CASE SendsAlert(t)
  <2>1. /\ poster[t].at = "sends" /\ poster' = [poster EXCEPT ![t] = NoPoster]
        /\ alerts' = [alerts EXCEPT ![poster[t].watcher] = Append(alerts[poster[t].watcher], poster[t].member)]
        /\ alerted' = [alerted EXCEPT ![poster[t].watcher] = alerted[poster[t].watcher] \cup {poster[t].member}]
        /\ UNCHANGED <<standing, historyFails, checkDay, checkDeeds>>
    BY <1>1 DEF SendsAlert, checkQuiet
  <2> QED BY <2>1, RemembersInv DEF Holds
<1>2. CASE AlertFails(t)
  <2>1. /\ poster' = [poster EXCEPT ![t] = NoPoster]
        /\ UNCHANGED <<standing, alerts, alerted, historyFails, checkDay, checkDeeds>>
    BY <1>2 DEF AlertFails, checkQuiet
  <2>2. checkDeeds' \in 0 .. CheckDeeds
    BY <2>1 DEF CheckInv, CheckTyped
  <2> QED BY <2>1, <2>2, NoPosterIs, LetsGo
<1> QED BY <1>1, <1>2

LEMMA ButtonsInv ==
    ASSUME CheckInv, NEW w \in Watchers, NEW u \in Checked,
           PressesIgnore(w, u) \/ PressesKick(w, u) \/ KicksAfterDM(u)
    PROVE  CheckInv'
<1> USE DEF CheckInv
<1>1. UNCHANGED <<poster, alerts, alerted, historyFails, checkDay, checkDeeds>>
  BY DEF PressesIgnore, PressesKick, KicksAfterDM, checkQuiet
<1>2. standing' = standing \/ Away(u)
  BY DEF PressesIgnore, PressesKick, KicksAfterDM
<1>3. /\ standing' \in [Checked -> Standings]
      /\ \A x \in Checked : standing'[x].verified => ~standing'[x].awaiting
  BY <1>2, AwayTyped DEF CheckTyped
<1>4. checkDay' \in 0 .. CheckDays /\ checkDeeds' \in 0 .. CheckDeeds
  BY <1>1 DEF CheckTyped
<1> QED BY <1>1, <1>3, <1>4, CheckAside

LEMMA DeedsInv ==
    ASSUME CheckInv, NEW u \in Checked,
           \/ BansListed(u) \/ Verified(u) \/ VerificationReset(u) \/ EmployeeChanges(u)
           \/ \E on \in BOOLEAN : ListsMember(u, on)
    PROVE  CheckInv'
<1> USE DEF CheckInv
<1>1. CheckDeed /\ UNCHANGED <<poster, alerts, alerted, historyFails, checkDay>>
  BY DEF BansListed, Verified, VerificationReset, EmployeeChanges, ListsMember, checkQuiet
<1>2. /\ standing[u] \in Standings /\ (standing[u].verified => ~standing[u].awaiting)
      /\ DOMAIN standing = Checked
  BY DEF CheckTyped
<1>3. /\ standing' \in [Checked -> Standings]
      /\ \A x \in Checked : standing'[x].verified => ~standing'[x].awaiting
  <2>1. CASE standing' = standing
    BY <2>1 DEF CheckTyped
  <2>2. CASE BansListed(u)
    <3>1. standing' = standing \/ Away(u)
      BY <2>2 DEF BansListed
    <3> QED BY <2>1, <3>1, AwayTyped
  <2>3. CASE Verified(u)
    <3> DEFINE s == [standing[u] EXCEPT !.verified = TRUE, !.awaiting = FALSE]
    <3>1. standing' = [standing EXCEPT ![u] = s]
      BY <1>2, <2>3 DEF Verified
    <3>2. s \in Standings /\ ~s.awaiting
      BY <1>2 DEF Standings
    <3> HIDE DEF s
    <3> QED BY <3>1, <3>2, StandingTyped
  <2>4. CASE VerificationReset(u)
    <3> DEFINE s == [standing[u] EXCEPT !.verified = FALSE, !.awaiting = TRUE]
    <3>1. standing' = [standing EXCEPT ![u] = s]
      BY <1>2, <2>4 DEF VerificationReset
    <3>2. s \in Standings /\ ~s.verified
      BY <1>2 DEF Standings
    <3> HIDE DEF s
    <3> QED BY <3>1, <3>2, StandingTyped
  <2>5. CASE EmployeeChanges(u)
    <3> DEFINE s == [standing[u] EXCEPT !.employee = ~standing[u].employee]
    <3>1. standing' = [standing EXCEPT ![u] = s]
      BY <1>2, <2>5 DEF EmployeeChanges
    <3>2. s \in Standings /\ s.verified = standing[u].verified /\ s.awaiting = standing[u].awaiting
      BY <1>2 DEF Standings
    <3> HIDE DEF s
    <3> QED BY <1>2, <3>1, <3>2, StandingTyped
  <2>6. CASE \E on \in BOOLEAN : ListsMember(u, on)
    BY <2>1, <2>6 DEF ListsMember
  <2> QED BY <2>2, <2>3, <2>4, <2>5, <2>6
<1>4. checkDay' \in 0 .. CheckDays /\ checkDeeds' \in 0 .. CheckDeeds
  BY <1>1, CheckDeedBound DEF CheckTyped
<1> QED BY <1>1, <1>3, <1>4, CheckAside

LEMMA SweepInv ==
    ASSUME CheckInv, SweepBegins \/ SweepNext \/ SweepKicks \/ CheckDayPasses
    PROVE  CheckInv'
<1> USE DEF CheckInv
<1>1. UNCHANGED <<poster, alerts, alerted, historyFails, checkDeeds>>
  BY DEF SweepBegins, SweepNext, SweepKicks, CheckDayPasses, checkQuiet
<1>2. standing' = standing \/ \E u : Away(u)
  BY DEF SweepBegins, SweepNext, SweepKicks, CheckDayPasses
<1>3. /\ standing' \in [Checked -> Standings]
      /\ \A x \in Checked : standing'[x].verified => ~standing'[x].awaiting
  BY <1>2, AwayTyped DEF CheckTyped
<1>4. checkDay' \in 0 .. CheckDays
  <2>1. checkDay \in 0 .. CheckDays /\ CheckDays \in Nat
    BY CheckAssumption DEF CheckTyped
  <2>2. checkDay' = checkDay \/ (checkDay < CheckDays /\ checkDay' = checkDay + 1)
    BY DEF SweepBegins, SweepNext, SweepKicks, CheckDayPasses, checkQuiet
  <2> QED BY <2>1, <2>2
<1>5. checkDeeds' \in 0 .. CheckDeeds
  BY <1>1 DEF CheckTyped
<1> QED BY <1>1, <1>3, <1>4, <1>5, CheckAside

LEMMA CheckRestartsInv ==
    ASSUME CheckInv, CheckRestarts
    PROVE  CheckInv'
<1> USE DEF CheckInv
<1>1. /\ CheckDeed /\ alerted' = [w \in Watchers |-> {}] /\ poster' = [t \in CheckTasks |-> NoPoster]
      /\ UNCHANGED <<standing, alerts, historyFails, checkDay>>
  BY DEF CheckRestarts, checkQuiet
<1>2. /\ poster' \in [CheckTasks -> Posters] /\ \A t \in CheckTasks : poster'[t].at = "no"
      /\ alerted' \in [Watchers -> SUBSET Checked]
  BY <1>1, NoPosterIs
<1>3. CheckTyped'
  BY <1>1, <1>2, CheckDeedBound DEF CheckTyped
<1>4. LockHeld' /\ HeldIsNew' /\ SentIsNew'
  BY <1>2 DEF LockHeld, HeldIsNew, SentIsNew, Holds
<1>5. AlertsDiffer'
  BY <1>1 DEF AlertsDiffer
<1> QED BY <1>3, <1>4, <1>5

LEMMA CheckStepInv == CheckInv /\ [CheckNext]_checkVars => CheckInv'
<1> SUFFICES ASSUME CheckInv, [CheckNext]_checkVars PROVE CheckInv'
  OBVIOUS
<1>1. CASE UNCHANGED checkVars
  BY <1>1 DEF checkVars, CheckInv, CheckTyped, LockHeld, HeldIsNew, SentIsNew, AlertsDiffer, Holds
<1>2. ASSUME NEW t \in CheckTasks,
             \/ \E w \in Watchers, u \in Checked : SeesMember(t, w, u)
             \/ TakesLock(t) \/ ReadsHistory(t) \/ SendsAlert(t) \/ AlertFails(t)
      PROVE  CheckInv'
  BY <1>2, SeesInv, TakesLockInv, ReadsHistoryInv, SendsInv
<1>3. ASSUME NEW w \in Watchers, NEW u \in Checked, PressesIgnore(w, u) \/ PressesKick(w, u)
      PROVE  CheckInv'
  BY <1>3, ButtonsInv
<1>4. ASSUME NEW u \in Checked,
             \/ KicksAfterDM(u) \/ BansListed(u) \/ Verified(u) \/ VerificationReset(u) \/ EmployeeChanges(u)
             \/ \E on \in BOOLEAN : ListsMember(u, on)
      PROVE  CheckInv'
  <2>1. "unlisted" \in Watchers  BY DEF Watchers
  <2>2. CASE KicksAfterDM(u)
    BY <2>1, <2>2, ButtonsInv
  <2> QED BY <1>4, <2>2, DeedsInv
<1>5. CASE SweepBegins \/ SweepNext \/ SweepKicks \/ CheckDayPasses
  BY <1>5, SweepInv
<1>6. CASE CheckRestarts
  BY <1>6, CheckRestartsInv
<1> QED BY <1>1, <1>2, <1>3, <1>4, <1>5, <1>6 DEF CheckNext

LEMMA CheckPromises == CheckInv => CheckTypeOK /\ MemberAlertedOnce
<1> SUFFICES ASSUME CheckInv PROVE CheckTypeOK /\ MemberAlertedOnce
  OBVIOUS
<1> USE DEF CheckInv
<1>1. \A w \in Watchers : alerted[w] \subseteq Checked /\ Range(alerts[w]) \subseteq Checked
  BY DEF CheckTyped, Range
<1>2. CheckTypeOK
  BY <1>1 DEF CheckTyped, CheckTypeOK
<1>3. MemberAlertedOnce
  BY DEF MemberAlertedOnce, AlertsDiffer, HeldIsNew, Holds
<1> QED BY <1>2, <1>3

---------------------------------------------------------------------------
(* All of them.                                                            *)

LoopsInv == part \in Parts /\ GiveInv /\ PayInv /\ MuteInv /\ VerInv /\ CdaInv /\ CheckInv

(* A step of one module is no step of another.                              *)
LEMMA LoopsStep ==
    ASSUME [LoopsNext]_LoopsVars
    PROVE  /\ part' = part
           /\ [GiveawayNext]_giveawayVars /\ [PayNext]_payVars /\ [MuteNext]_muteVars
           /\ [VerifyNext]_verifyVars /\ [CdaNext]_cdaVars /\ [CheckNext]_checkVars
<1>1. CASE UNCHANGED LoopsVars
  BY <1>1 DEF LoopsVars
<1>2. CASE Only("giveaway") /\ GiveawayNext
  BY <1>2 DEF Only
<1>3. CASE Only("pay") /\ PayNext
  BY <1>3 DEF Only
<1>4. CASE Only("mute") /\ MuteNext
  BY <1>4 DEF Only
<1>5. CASE Only("verify") /\ VerifyNext
  BY <1>5 DEF Only
<1>6. CASE Only("cda") /\ CdaNext
  BY <1>6 DEF Only
<1>7. CASE Only("checks") /\ CheckNext
  BY <1>7 DEF Only
<1> QED BY <1>1, <1>2, <1>3, <1>4, <1>5, <1>6, <1>7 DEF LoopsNext

LEMMA LoopsInitInv == LoopsInit => LoopsInv
BY GiveInitInv, PayInitInv, MuteInitInv, VerifyInitInv, CdaInitInv, CheckInitInv DEF LoopsInit, LoopsInv

LEMMA LoopsStepInv == LoopsInv /\ [LoopsNext]_LoopsVars => LoopsInv'
BY LoopsStep, GiveStepInv, PayStepInv, MuteStepInv, VerifyStepInv, CdaStepInv, CheckStepInv DEF LoopsInv

LEMMA LoopsInductive == LoopsSpec => []LoopsInv
<1>1. LoopsInit => LoopsInv
  BY LoopsInitInv
<1>2. LoopsInv /\ [LoopsNext]_LoopsVars => LoopsInv'
  BY LoopsStepInv
<1> QED BY <1>1, <1>2, PTL DEF LoopsSpec

(* Every variable of the giveaways, the pay weeks, the mutes, the two       *)
(* verifications and the checks of members stays in its range.              *)
THEOREM LoopsTypes == LoopsSpec => []LoopsTypeOK
<1>1. MuteInv => MuteTypeOK
  BY DEF MuteInv, MuteTyped
<1>2. LoopsInv => LoopsTypeOK
  BY <1>1, GivePromises, PayPromises, VerifyPromises, CdaPromises, CheckPromises DEF LoopsInv, LoopsTypeOK
<1> QED BY <1>2, LoopsInductive, PTL

(* However commands, sleeping tasks, loops and restarts meet, the results   *)
(* of a giveaway, the reset of a week, a pay window and an alert of a       *)
(* member are announced once: MiscGiveaway.py's _finalize_giveaway,         *)
(* PayVoidCog.py's reset_week, PayAnnounceCog.py's key of the minute and    *)
(* the lock and history of cda-admin's two watchers.                        *)
THEOREM AnnouncesOnce == LoopsSpec => []AnnouncedOnce
<1>1. LoopsInv => AnnouncedOnce
  BY GivePromises, PayPromises, CheckPromises DEF LoopsInv, AnnouncedOnce
<1> QED BY <1>1, LoopsInductive, PTL

(* While there is one mute role, a muted member is denied every channel     *)
(* that a /mute or the channel listener of the mute cog could handle.       *)
THEOREM MutesDeny == LoopsSpec => []RoleDeniesChannels
<1>1. LoopsInv => RoleDeniesChannels
  BY MutedAreDenied DEF LoopsInv
<1> QED BY <1>1, LoopsInductive, PTL

(* No writer of cda-admin's server.json drops the link a proof or an        *)
(* administrator established, and rpa-admin approves a change of name only  *)
(* over the link the request was made from.                                 *)
THEOREM LinksKept == LoopsSpec => LinksAreKept
<1>1. LoopsInv => (part = "cda" => GrantedIsKept)
  BY DEF LoopsInv, CdaInv
<1>2. LoopsInv /\ [LoopsNext]_LoopsVars =>
        [\A q \in Requests :
           jobs[<<"approve", q>>] = NoJob /\ jobs'[<<"approve", q>>] # NoJob
             => mapping[request[q].of] = request[q].from /\ mapping'[request[q].of] = request[q].to]_verifyVars
  BY LoopsStep, VerifyStepInv DEF LoopsInv, ApprovesFromSaved
<1> QED BY <1>1, <1>2, LoopsInductive, PTL DEF LinksAreKept, ApprovedFromSaved, LoopsSpec
==============================================================================
