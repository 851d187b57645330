---------------------------- MODULE ServicesProofs ----------------------------
(***************************************************************************)
(* The services that one configuration checks side by side: the limit of   *)
(* mutations of the portal's routes, the arithmetic of next_run, and what  *)
(* the supervisor's and the backups' theorems say of them together.        *)
(***************************************************************************)
EXTENDS MCServices, SupervisorProofs, BackupsProofs, SequenceTheorems
---------------------------------------------------------------------------
(* The limit of mutations.                                                 *)

Instants == 0 .. webNow
Rises(s) == \A i, j \in DOMAIN s : i <= j => s[i] <= s[j]

(* The popleft loop ends at an instant still in the window, or at the end.  *)
LEMMA FirstRecentIs ==
    ASSUME NEW s \in Seq(Nat)
    PROVE  /\ FirstRecent(s) \in 1 .. Len(s) + 1
           /\ FirstRecent(s) <= Len(s) => IsRecent(s[FirstRecent(s)])
           /\ \A j \in 1 .. FirstRecent(s) - 1 : ~IsRecent(s[j])
<1> DEFINE T == {i \in 1 .. Len(s) + 1 : i <= Len(s) => IsRecent(s[i])}
<1>1. Len(s) \in Nat
  OBVIOUS
<1>2. T \subseteq Nat /\ Len(s) + 1 \in T
  BY <1>1
<1>3. PICK i \in T : \A j \in T : ~(<<j, i>> \in OpToRel(<, Nat))
  <2> HIDE DEF T
  <2> QED BY <1>2, NatLessThanWellFounded, WFMin
<1>4. \A j \in 1 .. i - 1 : ~IsRecent(s[j])
  <2> SUFFICES ASSUME NEW j \in 1 .. i - 1, IsRecent(s[j]) PROVE FALSE
    OBVIOUS
  <2>1. i \in 1 .. Len(s) + 1 /\ i \in Nat /\ j \in Nat /\ j < i
    BY <1>1
  <2>2. j \in T
    BY <1>1, <2>1
  <2>3. <<j, i>> \in OpToRel(<, Nat)
    BY <2>1 DEF OpToRel
  <2> QED BY <1>3, <2>2, <2>3
<1>5. \E k \in 1 .. Len(s) + 1 :
        (k <= Len(s) => IsRecent(s[k])) /\ \A j \in 1 .. k - 1 : ~IsRecent(s[j])
  BY <1>4
<1> QED BY <1>5 DEF FirstRecent

(* What stays are the last ones, and of rising instants all that are in the *)
(* window.                                                                  *)
LEMMA RecentIs ==
    ASSUME NEW N \in Nat, NEW s \in Seq(0 .. N), Rises(s), webNow \in Nat
    PROVE  /\ Recent(s) \in Seq(0 .. N) /\ Rises(Recent(s)) /\ Len(Recent(s)) <= Len(s)
           /\ \A n \in 1 .. Len(Recent(s)) :
                Recent(s)[Len(Recent(s)) - n + 1] = s[Len(s) - n + 1]
           /\ \A n \in 1 .. Len(s) : IsRecent(s[Len(s) - n + 1]) => n <= Len(Recent(s))
<1> DEFINE first == FirstRecent(s)
           kept == Recent(s)
<1>0. s \in Seq(Nat) /\ Len(s) \in Nat /\ DOMAIN s = 1 .. Len(s)
  OBVIOUS
<1>1. /\ first \in 1 .. Len(s) + 1
      /\ \A j \in 1 .. first - 1 : ~IsRecent(s[j])
  BY <1>0, FirstRecentIs
<1>2. kept = SubSeq(s, first, Len(s))
  BY DEF Recent
<1> HIDE DEF first, kept
<1>3. /\ kept \in Seq(0 .. N) /\ Len(kept) = Len(s) - first + 1
      /\ DOMAIN kept = 1 .. Len(kept)
      /\ \A i \in 1 .. Len(kept) : kept[i] = s[first + i - 1]
  <2>1. first \in Int /\ Len(s) \in Int /\ \A i \in first .. Len(s) : s[i] \in 0 .. N
    BY <1>0, <1>1
  <2>2. /\ kept \in Seq(0 .. N) /\ Len(kept) = IF first <= Len(s) THEN Len(s) - first + 1 ELSE 0
        /\ \A i \in 1 .. Len(s) - first + 1 : kept[i] = s[first + i - 1]
    BY <2>1, <1>2, SubSeqProperties
  <2>3. Len(kept) = Len(s) - first + 1
    BY <1>0, <1>1, <2>2
  <2> QED BY <2>2, <2>3
<1>4. Len(kept) \in Nat /\ Len(kept) <= Len(s)
  BY <1>0, <1>1, <1>3
<1>5. Rises(kept)
  <2> SUFFICES ASSUME NEW i \in 1 .. Len(kept), NEW j \in 1 .. Len(kept), i <= j
               PROVE  kept[i] <= kept[j]
    BY <1>3 DEF Rises
  <2>1. first + i - 1 \in DOMAIN s /\ first + j - 1 \in DOMAIN s /\ first + i - 1 <= first + j - 1
    BY <1>0, <1>1, <1>3
  <2>2. s[first + i - 1] <= s[first + j - 1]
    BY <2>1 DEF Rises
  <2> QED BY <1>3, <2>2
<1>6. \A n \in 1 .. Len(kept) : kept[Len(kept) - n + 1] = s[Len(s) - n + 1]
  <2> TAKE n \in 1 .. Len(kept)
  <2>1. Len(kept) - n + 1 \in 1 .. Len(kept) /\ first + (Len(kept) - n + 1) - 1 = Len(s) - n + 1
    BY <1>0, <1>1, <1>3, <1>4
  <2> QED BY <1>3, <2>1
<1>7. \A n \in 1 .. Len(s) : IsRecent(s[Len(s) - n + 1]) => n <= Len(kept)
  <2> SUFFICES ASSUME NEW n \in 1 .. Len(s), IsRecent(s[Len(s) - n + 1]) PROVE n <= Len(kept)
    OBVIOUS
  <2>1. Len(s) - n + 1 \notin 1 .. first - 1
    BY <1>1
  <2> QED BY <1>0, <1>1, <1>3, <2>1
<1> QED BY <1>3, <1>4, <1>5, <1>6, <1>7 DEF kept

(* A limited mutation that ran has been counted: if it is in the window,    *)
(* so are at least as many hits as mutations since.                         *)
Counted(h, r) ==
    \A n \in 1 .. Len(r) :
        IsRecent(r[Len(r) - n + 1]) => n <= Len(h) /\ r[Len(r) - n + 1] <= h[Len(h) - n + 1]

WebInv ==
    /\ webNow \in 0 .. WebMax /\ webKind \in Kinds \cup {"authentication"}
    /\ hits \in [WebActors -> Seq(Instants)] /\ ran \in [WebActors -> Seq(Instants)]
    /\ \A a \in WebActors : Len(hits[a]) <= WebLimit /\ Rises(hits[a])
    /\ DOMAIN web = WebSlots
    /\ \A r \in WebSlots :
         web[r].at \in {"no", "form", "handle"} /\ (web[r].at # "no" => web[r].actor \in WebActors)
    /\ webKind \in Limited =>
         \A a \in WebActors : Counted(hits[a], ran[a]) /\ Len(ran[a]) <= WebLimit + 1 /\ Spaced(ran[a])

(* What allow makes of the hits of a key.                                   *)
Allowed(h) == IF Len(Recent(h)) < WebLimit THEN Append(Recent(h), webNow) ELSE Recent(h)

LEMMA AllowedIs ==
    ASSUME WebInv, NEW a \in WebActors
    PROVE  /\ Allowed(hits[a]) \in Seq(Instants) /\ Rises(Allowed(hits[a]))
           /\ Len(Allowed(hits[a])) <= WebLimit
<1> DEFINE h == hits[a]
           kept == Recent(h)
<1>1. webNow \in Nat /\ h \in Seq(0 .. webNow) /\ Rises(h) /\ Len(h) <= WebLimit /\ WebLimit \in Nat \ {0}
  BY WebAssumption DEF WebInv, Instants
<1>2. kept \in Seq(0 .. webNow) /\ Rises(kept) /\ Len(kept) <= Len(h)
  BY <1>1, RecentIs
<1>3. Allowed(h) = IF Len(kept) < WebLimit THEN Append(kept, webNow) ELSE kept
  BY DEF Allowed
<1> HIDE DEF h, kept
<1>4. CASE Len(kept) < WebLimit
  <2>1. /\ Append(kept, webNow) \in Seq(0 .. webNow) /\ Len(Append(kept, webNow)) = Len(kept) + 1
        /\ Append(kept, webNow)[Len(kept) + 1] = webNow
        /\ \A i \in 1 .. Len(kept) : Append(kept, webNow)[i] = kept[i]
    BY <1>1, <1>2
  <2>2. Len(kept) \in Nat /\ DOMAIN kept = 1 .. Len(kept) /\ \A i \in 1 .. Len(kept) : kept[i] \in 0 .. webNow
    <3>1. kept \in Seq(0 .. webNow)
      BY <1>2
    <3>2. Len(kept) \in Nat /\ DOMAIN kept = 1 .. Len(kept)
      BY <3>1
    <3>3. \A i \in 1 .. Len(kept) : kept[i] \in 0 .. webNow
      BY <3>1, ElementOfSeq
    <3> QED BY <3>2, <3>3
  <2>3. DOMAIN Append(kept, webNow) = 1 .. Len(kept) + 1
    BY <2>1
  <2>4. Rises(Append(kept, webNow))
    <3> SUFFICES ASSUME NEW i \in 1 .. Len(kept) + 1, NEW j \in 1 .. Len(kept) + 1, i <= j
                 PROVE  Append(kept, webNow)[i] <= Append(kept, webNow)[j]
      BY <2>3 DEF Rises
    <3>1. CASE j = Len(kept) + 1
      <4>1. i = Len(kept) + 1 \/ i \in 1 .. Len(kept)
        BY <2>2
      <4>2. Append(kept, webNow)[i] <= webNow
        BY <1>1, <2>1, <2>2, <4>1
      <4> QED BY <2>1, <3>1, <4>2
    <3>2. CASE j # Len(kept) + 1
      <4>1. i \in 1 .. Len(kept) /\ j \in 1 .. Len(kept)
        BY <2>2, <3>2
      <4> QED BY <1>2, <2>1, <2>2, <4>1 DEF Rises
    <3> QED BY <3>1, <3>2
  <2> QED BY <1>1, <1>3, <1>4, <2>1, <2>2, <2>4 DEF h, Instants
<1>5. CASE ~(Len(kept) < WebLimit)
  <2>1. Allowed(h) = kept
    BY <1>3, <1>5
  <2> QED BY <1>1, <1>2, <2>1 DEF h, Instants
<1> QED BY <1>4, <1>5

LEMMA AtInstants ==
    ASSUME NEW s \in Seq(Instants), webNow \in Nat, NEW n \in 1 .. Len(s)
    PROVE  Len(s) - n + 1 \in 1 .. Len(s) /\ s[Len(s) - n + 1] \in 0 .. webNow
BY DEF Instants

(* The hits that stay, and one more, still count the mutations.             *)
LEMMA CountedByRecent ==
    ASSUME webNow \in Nat, NEW h \in Seq(Instants), Rises(h), NEW r \in Seq(Instants), Counted(h, r)
    PROVE  Counted(Recent(h), r)
<1>1. /\ Recent(h) \in Seq(0 .. webNow)
      /\ \A n \in 1 .. Len(Recent(h)) : Recent(h)[Len(Recent(h)) - n + 1] = h[Len(h) - n + 1]
      /\ \A n \in 1 .. Len(h) : IsRecent(h[Len(h) - n + 1]) => n <= Len(Recent(h))
  BY RecentIs DEF Instants
<1>2. SUFFICES ASSUME NEW n \in 1 .. Len(r), IsRecent(r[Len(r) - n + 1])
               PROVE  /\ n <= Len(Recent(h))
                      /\ r[Len(r) - n + 1] <= Recent(h)[Len(Recent(h)) - n + 1]
  BY DEF Counted
<1>3. n <= Len(h) /\ r[Len(r) - n + 1] <= h[Len(h) - n + 1]
  BY <1>2 DEF Counted
<1>4. n \in 1 .. Len(h) /\ Len(h) \in Nat
  BY <1>3
<1>5. h[Len(h) - n + 1] \in Nat /\ r[Len(r) - n + 1] \in Nat
  BY <1>4, AtInstants
<1>6. IsRecent(h[Len(h) - n + 1])
  BY <1>2, <1>3, <1>5, WebAssumption DEF IsRecent
<1>7. n <= Len(Recent(h)) /\ n \in 1 .. Len(Recent(h))
  BY <1>1, <1>4, <1>6
<1> QED BY <1>1, <1>3, <1>7

LEMMA CountedByOneMore ==
    ASSUME webNow \in Nat, NEW h \in Seq(Instants), Rises(h), NEW r \in Seq(Instants), Counted(h, r)
    PROVE  Counted(Append(h, webNow), r) /\ Counted(Append(h, webNow), Append(r, webNow))
<1> DEFINE h2 == Append(h, webNow)
           r2 == Append(r, webNow)
<1>0. webNow \in Instants
  BY DEF Instants
<1>1. /\ Len(h2) = Len(h) + 1 /\ h2[Len(h) + 1] = webNow /\ Len(h) \in Nat
      /\ \A i \in 1 .. Len(h) : h2[i] = h[i]
  BY <1>0, AppendProperties
<1>2. /\ Len(r2) = Len(r) + 1 /\ r2[Len(r) + 1] = webNow /\ Len(r) \in Nat
      /\ \A i \in 1 .. Len(r) : r2[i] = r[i]
  BY <1>0, AppendProperties
<1> HIDE DEF h2, r2
<1>3. ASSUME NEW n \in 1 .. Len(r), IsRecent(r[Len(r) - n + 1])
      PROVE  n <= Len(h) /\ r[Len(r) - n + 1] <= h[Len(h) - n + 1]
  BY <1>3 DEF Counted
<1>4. Counted(h2, r)
  <2> SUFFICES ASSUME NEW n \in 1 .. Len(r), IsRecent(r[Len(r) - n + 1])
               PROVE  n <= Len(h2) /\ r[Len(r) - n + 1] <= h2[Len(h2) - n + 1]
    BY DEF Counted
  <2>1. n <= Len(h) /\ r[Len(r) - n + 1] <= h[Len(h) - n + 1]
    BY <1>3
  <2>2. r[Len(r) - n + 1] \in 0 .. webNow
    BY AtInstants
  <2>3. n \in 1 .. Len(h)
    BY <2>1, <1>1
  <2>4. h[Len(h) - n + 1] \in 0 .. webNow
    BY <2>3, AtInstants
  <2>5. CASE n = 1
    BY <2>1, <2>2, <2>5, <1>1
  <2>6. CASE n # 1
    <3>1. Len(h) - n + 1 \in 1 .. Len(h) /\ Len(h2) - n + 1 \in 1 .. Len(h)
          /\ Len(h) - n + 1 <= Len(h2) - n + 1
      BY <2>3, <2>6, <1>1
    <3>2. DOMAIN h = 1 .. Len(h)
      OBVIOUS
    <3>3. h[Len(h) - n + 1] <= h[Len(h2) - n + 1]
      BY <3>1, <3>2 DEF Rises
    <3>4. h2[Len(h2) - n + 1] = h[Len(h2) - n + 1]
      BY <3>1, <1>1
    <3>5. h[Len(h2) - n + 1] \in Nat
      <4>1. \A i \in 1 .. Len(h) : h[i] \in Nat
        BY DEF Instants
      <4> QED BY <3>1, <4>1
    <3>6. r[Len(r) - n + 1] <= h2[Len(h2) - n + 1]
      BY <2>1, <2>2, <2>4, <3>3, <3>4, <3>5
    <3> QED BY <2>1, <1>1, <3>6
  <2> QED BY <2>5, <2>6
<1>5. Counted(h2, r2)
  <2> SUFFICES ASSUME NEW n \in 1 .. Len(r2), IsRecent(r2[Len(r2) - n + 1])
               PROVE  n <= Len(h2) /\ r2[Len(r2) - n + 1] <= h2[Len(h2) - n + 1]
    BY DEF Counted
  <2>1. CASE n = 1
    BY <2>1, <1>1, <1>2
  <2>2. CASE n # 1
    <3>1. n - 1 \in 1 .. Len(r) /\ Len(r2) - n + 1 = Len(r) - (n - 1) + 1 /\ Len(r2) - n + 1 \in 1 .. Len(r)
      BY <2>2, <1>2
    <3>2. r2[Len(r2) - n + 1] = r[Len(r) - (n - 1) + 1]
      BY <3>1, <1>2
    <3>3. n - 1 <= Len(h) /\ r[Len(r) - (n - 1) + 1] <= h[Len(h) - (n - 1) + 1]
      BY <1>3, <3>1, <3>2
    <3>4. n <= Len(h2) /\ Len(h2) - n + 1 = Len(h) - (n - 1) + 1 /\ Len(h2) - n + 1 \in 1 .. Len(h)
      BY <3>1, <3>3, <1>1
    <3>5. h2[Len(h2) - n + 1] = h[Len(h) - (n - 1) + 1]
      BY <3>4, <1>1
    <3> QED BY <3>2, <3>3, <3>4, <3>5
  <2> QED BY <2>1, <2>2
<1> QED BY <1>4, <1>5 DEF h2, r2

(* Of the mutations that ran only the last ones are remembered.             *)
LEMMA LatestIs ==
    ASSUME webNow \in Nat, NEW r \in Seq(Instants), Len(r) <= WebLimit + 2, NEW h, Counted(h, r)
    PROVE  /\ Latest(r) \in Seq(Instants) /\ Counted(h, Latest(r)) /\ Len(Latest(r)) <= WebLimit + 1
           /\ \A n \in 1 .. Len(Latest(r)) : Latest(r)[Len(Latest(r)) - n + 1] = r[Len(r) - n + 1]
           /\ Len(Latest(r)) <= Len(r) /\ (Len(r) > 0 => Len(Latest(r)) > 0)
<1>0. WebLimit \in Nat \ {0} /\ Len(r) \in Nat
  BY WebAssumption
<1>1. CASE Len(r) > WebLimit + 1
  <2>1. r # <<>>
    BY <1>0, <1>1
  <2>2. /\ Tail(r) \in Seq(Instants) /\ Len(Tail(r)) = Len(r) - 1
        /\ \A i \in 1 .. Len(Tail(r)) : Tail(r)[i] = r[i + 1]
    BY <2>1, HeadTailProperties
  <2>3. Latest(r) = Tail(r)
    BY <1>1 DEF Latest
  <2>4. \A n \in 1 .. Len(Tail(r)) : Tail(r)[Len(Tail(r)) - n + 1] = r[Len(r) - n + 1]
    <3> TAKE n \in 1 .. Len(Tail(r))
    <3>1. Len(Tail(r)) - n + 1 \in 1 .. Len(Tail(r)) /\ (Len(Tail(r)) - n + 1) + 1 = Len(r) - n + 1
      BY <2>2, <1>0
    <3> QED BY <2>2, <3>1
  <2>5. Counted(h, Tail(r))
    <3> SUFFICES ASSUME NEW n \in 1 .. Len(Tail(r)), IsRecent(Tail(r)[Len(Tail(r)) - n + 1])
                 PROVE  n <= Len(h) /\ Tail(r)[Len(Tail(r)) - n + 1] <= h[Len(h) - n + 1]
      BY DEF Counted
    <3>1. n \in 1 .. Len(r) /\ Tail(r)[Len(Tail(r)) - n + 1] = r[Len(r) - n + 1]
      BY <2>2, <2>4, <1>0
    <3> QED BY <3>1 DEF Counted
  <2> QED BY <1>0, <1>1, <2>2, <2>3, <2>4, <2>5
<1>2. CASE ~(Len(r) > WebLimit + 1)
  <2>1. Latest(r) = r
    BY <1>2 DEF Latest
  <2> QED BY <1>0, <1>2, <2>1
<1> QED BY <1>1, <1>2

(* A mutation that runs when there is room: were the oldest remembered one  *)
(* in the window, the limiter would hold as many hits as the limit.         *)
LEMMA RunIsSpaced ==
    ASSUME WebInv, webKind \in Limited, NEW a \in WebActors, HasRoom(a)
    PROVE  LET h2 == Append(Recent(hits[a]), webNow)
               r2 == Latest(Append(ran[a], webNow))
           IN  r2 \in Seq(Instants) /\ Counted(h2, r2) /\ Len(r2) <= WebLimit + 1 /\ Spaced(r2)
<1> DEFINE h == hits[a]
           r == ran[a]
           kept == Recent(h)
           h2 == Append(kept, webNow)
           rr == Append(r, webNow)
           r2 == Latest(rr)
<1>0. WebLimit \in Nat \ {0} /\ webNow \in Nat /\ webNow \in Instants
  BY WebAssumption DEF WebInv, Instants
<1>1. /\ h \in Seq(Instants) /\ Rises(h) /\ r \in Seq(Instants) /\ Counted(h, r)
      /\ Len(r) <= WebLimit + 1 /\ Len(kept) < WebLimit
  BY DEF WebInv, HasRoom
<1>2. kept \in Seq(Instants) /\ Rises(kept)
  BY <1>0, <1>1, RecentIs DEF Instants
<1>3. Counted(kept, r)
  BY <1>0, <1>1, CountedByRecent
<1> HIDE DEF h, r, kept
<1>4. Counted(h2, rr)
  BY <1>0, <1>1, <1>2, <1>3, CountedByOneMore
<1>5. /\ rr \in Seq(Instants) /\ Len(rr) = Len(r) + 1 /\ Len(r) \in Nat
      /\ \A i \in 1 .. Len(r) : rr[i] = r[i]
      /\ rr[Len(r) + 1] = webNow
  BY <1>0, <1>1, AppendProperties
<1> HIDE DEF h2, rr
<1>6. /\ r2 \in Seq(Instants) /\ Counted(h2, r2) /\ Len(r2) <= WebLimit + 1
      /\ \A n \in 1 .. Len(r2) : r2[Len(r2) - n + 1] = rr[Len(rr) - n + 1]
  <2>1. webNow \in Nat /\ rr \in Seq(Instants) /\ Len(rr) <= WebLimit + 2
    BY <1>0, <1>1, <1>5
  <2> QED BY <1>4, <2>1, LatestIs
<1> HIDE DEF r2
<1>7. Spaced(r2)
  <2> SUFFICES ASSUME Len(r2) = WebLimit + 1 PROVE r2[Len(r2)] - r2[1] >= WebWindow
    BY <1>0 DEF Spaced, Last
  <2>1. 1 \in 1 .. Len(r2) /\ Len(r2) \in 1 .. Len(r2) /\ Len(r2) - 1 + 1 = Len(r2)
        /\ Len(r2) - Len(r2) + 1 = 1
    BY <1>0
  <2>2. r2[Len(r2)] = rr[Len(rr) - 1 + 1] /\ r2[1] = rr[Len(rr) - Len(r2) + 1]
    BY <1>6, <2>1
  <2>3. r2[Len(r2)] = webNow
    BY <2>2, <1>5
  <2>4. WebLimit \in 1 .. Len(r) /\ Len(rr) - Len(r2) + 1 = Len(r) - WebLimit + 1
        /\ Len(r) - WebLimit + 1 \in 1 .. Len(r)
    <3>1. Len(r2) <= Len(rr)
      BY <1>0, <1>1, <1>4, <1>5, LatestIs DEF r2
    <3> QED BY <3>1, <1>0, <1>1, <1>5
  <2>5. r2[1] = r[Len(r) - WebLimit + 1]
    BY <2>2, <2>4, <1>5
  <2>6. ~IsRecent(r[Len(r) - WebLimit + 1])
    <3> SUFFICES ASSUME IsRecent(r[Len(r) - WebLimit + 1]) PROVE FALSE
      OBVIOUS
    <3>1. WebLimit <= Len(kept)
      BY <1>3, <2>4 DEF Counted
    <3>2. Len(kept) \in Nat
      BY <1>2
    <3> QED BY <3>1, <3>2, <1>0, <1>1
  <2>7. r[Len(r) - WebLimit + 1] \in 0 .. webNow
    BY <1>0, <1>1, <2>4, AtInstants
  <2> QED BY <1>0, <2>3, <2>5, <2>6, <2>7, WebAssumption DEF IsRecent
<1> QED BY <1>6, <1>7 DEF h, r, kept, h2, rr, r2

LEMMA WebInitInv == WebInit => WebInv
<1> SUFFICES ASSUME WebInit PROVE WebInv
  OBVIOUS
<1>1. <<>> \in Seq(Instants) /\ Len(<<>>) = 0 /\ DOMAIN <<>> = {}
  OBVIOUS
<1>2. \A a \in WebActors : hits[a] = <<>> /\ ran[a] = <<>>
  BY DEF WebInit
<1>3. hits \in [WebActors -> Seq(Instants)] /\ ran \in [WebActors -> Seq(Instants)]
  BY <1>1 DEF WebInit
<1>4. Rises(<<>>) /\ Counted(<<>>, <<>>) /\ Spaced(<<>>)
  BY <1>1, WebAssumption DEF Rises, Counted, Spaced
<1>5. webNow \in 0 .. WebMax /\ webKind \in Kinds \cup {"authentication"}
  BY WebAssumption DEF WebInit
<1>6. DOMAIN web = WebSlots /\ \A r \in WebSlots : web[r].at = "no"
  BY DEF WebInit, NoWeb
<1> QED BY <1>1, <1>2, <1>3, <1>4, <1>5, <1>6, WebAssumption DEF WebInv

(* A request that only moves on leaves the limiter and the history alone.   *)
LEMMA WebMoves ==
    ASSUME WebInv, webNow' = webNow, webKind' = webKind, hits' = hits, ran' = ran,
           DOMAIN web' = WebSlots,
           \A r \in WebSlots :
             /\ web'[r].at \in {"no", "form", "handle"}
             /\ web'[r].at # "no" => web'[r].actor \in WebActors
    PROVE  WebInv'
BY DEF WebInv, Instants, Counted, IsRecent, Rises, Spaced

(* One key is asked of the limiter; one more mutation may have run.         *)
LEMMA WebCounts ==
    ASSUME WebInv, NEW a \in WebActors, Counts(a), webNow' = webNow, webKind' = webKind,
           DOMAIN web' = WebSlots,
           \A r \in WebSlots :
             /\ web'[r].at \in {"no", "form", "handle"}
             /\ web'[r].at # "no" => web'[r].actor \in WebActors,
           \/ ran' = ran
           \/ HasRoom(a) /\ webKind \in Limited /\ ran' = [ran EXCEPT ![a] = Latest(Append(@, webNow))]
    PROVE  WebInv'
<1>0. /\ webNow \in Nat /\ hits \in [WebActors -> Seq(Instants)] /\ ran \in [WebActors -> Seq(Instants)]
      /\ \A b \in WebActors : Len(hits[b]) <= WebLimit /\ Rises(hits[b])
      /\ webNow \in 0 .. WebMax /\ webKind \in Kinds \cup {"authentication"}
  BY WebAssumption DEF WebInv
<1>1. hits' = [hits EXCEPT ![a] = Allowed(hits[a])]
  BY DEF Counts, HasRoom, Allowed
<1>2. Allowed(hits[a]) \in Seq(Instants) /\ Rises(Allowed(hits[a])) /\ Len(Allowed(hits[a])) <= WebLimit
  BY AllowedIs
<1>3. hits' \in [WebActors -> Seq(Instants)]
      /\ \A b \in WebActors : Len(hits'[b]) <= WebLimit /\ Rises(hits'[b])
  BY <1>0, <1>1, <1>2
<1>4. webKind \in Limited => Counted(Allowed(hits[a]), ran[a])
  <2> SUFFICES ASSUME webKind \in Limited PROVE Counted(Allowed(hits[a]), ran[a])
    OBVIOUS
  <2>1. Counted(hits[a], ran[a]) /\ ran[a] \in Seq(Instants) /\ hits[a] \in Seq(Instants) /\ Rises(hits[a])
    BY <1>0 DEF WebInv
  <2>2. Counted(Recent(hits[a]), ran[a])
    BY <1>0, <2>1, CountedByRecent
  <2>3. Recent(hits[a]) \in Seq(Instants) /\ Rises(Recent(hits[a]))
    BY <1>0, <2>1, RecentIs DEF Instants
  <2>4. Counted(Append(Recent(hits[a]), webNow), ran[a])
    BY <1>0, <2>1, <2>2, <2>3, CountedByOneMore
  <2> QED BY <2>2, <2>4 DEF Allowed
<1>5. /\ ran' \in [WebActors -> Seq(Instants)]
      /\ webKind \in Limited => \A b \in WebActors :
           Counted(hits'[b], ran'[b]) /\ Len(ran'[b]) <= WebLimit + 1 /\ Spaced(ran'[b])
  <2>1. CASE ran' = ran
    <3>1. webKind \in Limited => \A b \in WebActors :
            Counted(hits[b], ran[b]) /\ Len(ran[b]) <= WebLimit + 1 /\ Spaced(ran[b])
      BY DEF WebInv
    <3> QED BY <1>0, <1>1, <1>4, <2>1, <3>1
  <2>2. CASE HasRoom(a) /\ webKind \in Limited /\ ran' = [ran EXCEPT ![a] = Latest(Append(@, webNow))]
    <3> DEFINE h2 == Append(Recent(hits[a]), webNow)
               r2 == Latest(Append(ran[a], webNow))
    <3>1. r2 \in Seq(Instants) /\ Counted(h2, r2) /\ Len(r2) <= WebLimit + 1 /\ Spaced(r2)
      BY <2>2, RunIsSpaced
    <3>2. Allowed(hits[a]) = h2
      BY <2>2 DEF Allowed, HasRoom
    <3>3. ran' = [ran EXCEPT ![a] = r2]
      BY <2>2
    <3> HIDE DEF h2, r2
    <3>4. \A b \in WebActors :
            Counted(hits[b], ran[b]) /\ Len(ran[b]) <= WebLimit + 1 /\ Spaced(ran[b])
      BY <2>2 DEF WebInv
    <3> QED BY <1>0, <1>1, <3>1, <3>2, <3>3, <3>4
  <2> QED BY <2>1, <2>2
<1> QED BY <1>0, <1>3, <1>5 DEF WebInv, Instants, Counted, IsRecent, Rises, Spaced

LEMMA WebStepInv == WebInv /\ [WebNext]_webVars => WebInv'
<1> SUFFICES ASSUME WebInv, [WebNext]_webVars PROVE WebInv'
  OBVIOUS
<1>0. /\ DOMAIN web = WebSlots
      /\ \A r \in WebSlots :
           /\ web[r].at \in {"no", "form", "handle"}
           /\ web[r].at # "no" => web[r].actor \in WebActors
  BY DEF WebInv
<1>1. ASSUME NEW a \in WebActors, AuthenticationFails(a) PROVE WebInv'
  BY <1>0, <1>1, WebCounts DEF AuthenticationFails
<1>2. ASSUME NEW a \in WebActors, NEW granted, PolicyChanges(a, granted) PROVE WebInv'
  BY <1>0, <1>2, WebMoves DEF PolicyChanges
<1>3. ASSUME NEW r \in WebSlots, NEW a \in WebActors, NEW browser, WebArrives(r, a, browser)
      PROVE  WebInv'
  <2>1. DOMAIN web' = WebSlots /\ \A q \in WebSlots :
           /\ web'[q].at \in {"no", "form", "handle"}
           /\ web'[q].at # "no" => web'[q].actor \in WebActors
    BY <1>0, <1>3 DEF WebArrives
  <2> QED BY <1>3, <2>1, WebMoves DEF WebArrives
<1>4. ASSUME NEW r \in WebSlots, FormArrives(r) PROVE WebInv'
  <2>1. DOMAIN web' = WebSlots /\ \A q \in WebSlots :
           /\ web'[q].at \in {"no", "form", "handle"}
           /\ web'[q].at # "no" => web'[q].actor \in WebActors
    <3>1. CASE WebEnds(r)
      BY <1>0, <3>1 DEF WebEnds, NoWeb
    <3>2. CASE web' = [web EXCEPT ![r].at = "handle"]
      <4>1. web[r].at = "form"
        BY <1>4 DEF FormArrives
      <4> QED BY <1>0, <3>2, <4>1
    <3> QED BY <1>4, <3>1, <3>2 DEF FormArrives
  <2> QED BY <1>4, <2>1, WebMoves DEF FormArrives
<1>5. ASSUME NEW r \in WebSlots, WebHandles(r) PROVE WebInv'
  <2> DEFINE a == web[r].actor
             permitted == webKind \in web[r].permissions
             counted == webKind \in Limited /\ (webKind = "lifecycle" => permitted)
  <2>0. a \in WebActors /\ webNow' = webNow /\ webKind' = webKind
    BY <1>0, <1>5 DEF WebHandles
  <2>1. DOMAIN web' = WebSlots /\ \A q \in WebSlots :
           /\ web'[q].at \in {"no", "form", "handle"}
           /\ web'[q].at # "no" => web'[q].actor \in WebActors
    BY <1>0, <1>5 DEF WebHandles, WebEnds, NoWeb
  <2>2. /\ IF counted THEN Counts(a) ELSE UNCHANGED hits
        /\ ran' = IF permitted /\ (counted => HasRoom(a))
                  THEN [ran EXCEPT ![a] = Latest(Append(@, webNow))] ELSE ran
    BY <1>5 DEF WebHandles
  <2> HIDE DEF a, permitted
  <2>3. CASE counted
    BY <2>0, <2>1, <2>2, <2>3, WebCounts
  <2>4. CASE ~counted /\ webKind \in Limited
    BY <2>0, <2>1, <2>2, <2>4, WebMoves
  <2>5. CASE webKind \notin Limited
    <3>1. hits' = hits
      BY <2>2, <2>5
    <3>2. ran' \in [WebActors -> Seq(Instants)]
      <4>1. ran \in [WebActors -> Seq(Instants)] /\ webNow \in Instants
        BY WebAssumption DEF WebInv, Instants
      <4>2. Append(ran[a], webNow) \in Seq(Instants) /\ Append(ran[a], webNow) # <<>>
        BY <2>0, <4>1, AppendProperties
      <4>3. Latest(Append(ran[a], webNow)) \in Seq(Instants)
        BY <4>2, HeadTailProperties DEF Latest
      <4> QED BY <2>2, <4>1, <4>3
    <3> QED BY <2>0, <2>1, <2>5, <3>1, <3>2 DEF WebInv, Instants, Rises
  <2> QED BY <2>3, <2>4, <2>5
<1>6. CASE WebTicks
  <2>1. webNow \in 0 .. WebMax /\ WebMax \in Nat /\ WebWindow \in Nat
    BY WebAssumption DEF WebInv
  <2>2. webNow < WebMax /\ webNow' = webNow + 1 /\ UNCHANGED <<webKind, policy, hits, web, ran>>
    BY <1>6 DEF WebTicks
  <2>3. webNow' \in 0 .. WebMax /\ Instants \subseteq Instants'
    BY <2>1, <2>2 DEF Instants
  <2>4. Seq(Instants) \subseteq Seq(Instants')
    BY <2>3
  <2>5. hits' \in [WebActors -> Seq(Instants')] /\ ran' \in [WebActors -> Seq(Instants')]
    BY <2>2, <2>4 DEF WebInv
  <2>6. ASSUME NEW a \in WebActors, webKind \in Limited PROVE Counted(hits[a], ran[a])'
    <3>1. Counted(hits[a], ran[a]) /\ ran[a] \in Seq(Instants)
      BY <2>6 DEF WebInv
    <3>2. \A n \in 1 .. Len(ran[a]) : ran[a][Len(ran[a]) - n + 1] \in 0 .. webNow
      <4>1. webNow \in Nat
        BY <2>1
      <4> QED BY <4>1, <3>1, AtInstants
    <3>3. \A n \in 1 .. Len(ran[a]) :
             IsRecent(ran[a][Len(ran[a]) - n + 1])' => IsRecent(ran[a][Len(ran[a]) - n + 1])
      BY <2>1, <2>2, <3>2 DEF IsRecent
    <3> QED BY <2>2, <3>1, <3>3 DEF Counted
  <2> QED BY <2>2, <2>3, <2>5, <2>6 DEF WebInv, Rises, Spaced
<1>7. CASE UNCHANGED webVars
  BY <1>0, <1>7, WebMoves DEF webVars
<1> QED BY <1>1, <1>2, <1>3, <1>4, <1>5, <1>6, <1>7 DEF WebNext

LEMMA WebAlways == WebSpec => []WebInv
BY WebInitInv, WebStepInv, PTL DEF WebSpec

(* However requests of browsers and of the API overlap, and whenever the    *)
(* policy changes, no window of any position holds more mutations of a      *)
(* principal than the limit: every mutation that ran was counted when it    *)
(* did, and the limiter forgets none that is in the window.                 *)
THEOREM WindowAlwaysHolds == WebSpec => []WindowHolds
<1>1. WebInv => WindowHolds
  BY DEF WebInv, WindowHolds
<1> QED BY <1>1, WebAlways, PTL

---------------------------------------------------------------------------
(* The calendar: what next_run returns.                                    *)

LEMMA DivIs ==
    ASSUME NEW n \in Nat \ {0}, NEW w \in Int
    PROVE  /\ w \div n \in Int /\ w % n \in 0 .. n - 1
           /\ w = (w \div n) * n + (w % n)
<1>1. w \div n \in Int
  OBVIOUS
<1>2. w % n \in 0 .. n - 1
  OBVIOUS
<1>3. w = (w \div n) * n + (w % n)
  OBVIOUS
<1> QED BY <1>1, <1>2, <1>3

LEMMA DivUnique ==
    ASSUME NEW n \in Nat \ {0}, NEW d \in Int, NEW h \in 0 .. n - 1
    PROVE  (d * n + h) \div n = d /\ (d * n + h) % n = h
  OBVIOUS

LEMMA DivMonotone ==
    ASSUME NEW n \in Nat \ {0}, NEW v \in Int, NEW w \in Int, v <= w
    PROVE  v \div n <= w \div n
  OBVIOUS

(* The clock never shows less at a later instant, and the same at two only  *)
(* in the repeated hour.                                                    *)
LEMMA LocalIs ==
    ASSUME NEW u \in Int, NEW v \in Int
    PROVE  /\ Local(u) \in Int
           /\ u <= v => Local(u) <= Local(v)
           /\ u < v /\ Local(u) = Local(v) => u = Autumn - 1 /\ v = Autumn
  BY CalendarAssumption DEF Local

(* The round trip through UTC gives the first instant that shows a wall     *)
(* time, and fails for the skipped hour only.                               *)
LEMMA FoldIs ==
    ASSUME NEW w \in Int
    PROVE  /\ Fold0(w) \in Int
           /\ w # Spring => Local(Fold0(w)) = w
           /\ w = Spring => Local(Fold0(w)) # w
           /\ \A u \in Int : Local(u) = w => Fold0(w) <= u
           /\ Fold0(w) # Autumn
  BY CalendarAssumption DEF Local, Fold0

Wall(s, d) == d * DayLen + s.hour

LEMMA WallIs ==
    ASSUME NEW s \in Schedules, NEW d \in Int
    PROVE  /\ s.hour \in 0 .. DayLen - 1 /\ DayLen \in Nat \ {0}
           /\ Wall(s, d) \in Int
           /\ Wall(s, d) \div DayLen = d /\ Wall(s, d) % DayLen = s.hour
<1>1. s.hour \in 0 .. DayLen - 1 /\ DayLen \in Nat \ {0}
  BY CalendarAssumption
<1>2. d * DayLen \in Int
  BY <1>1
<1>3. Wall(s, d) \in Int
  BY <1>1, <1>2 DEF Wall
<1> QED BY <1>1, <1>3, DivUnique DEF Wall

LEMMA CandidateIs ==
    ASSUME NEW s \in Schedules, NEW d \in Int
    PROVE  Candidate(d, s.hour) = IF Wall(s, d) = Spring THEN Never ELSE Fold0(Wall(s, d))
<1>1. Wall(s, d) \in Int
  BY WallIs
<1> QED BY <1>1, FoldIs DEF Candidate, Wall

(* The days next_run accepts, and the one it takes.                         *)
Today(from) == Local(from) \div DayLen
Found(s, from) == {d \in Searched : Acceptable(s, from, Today(from) + d)}

LEMMA NextRunIs ==
    ASSUME NEW s \in Schedules, NEW from \in Nat
    PROVE  /\ Today(from) \in Int
           /\ Found(s, from) = {} => NextRun(s, from) = Never
           /\ Found(s, from) # {} =>
                \E d \in Found(s, from) :
                   /\ \A e \in Found(s, from) : d <= e
                   /\ NextRun(s, from) = Candidate(Today(from) + d, s.hour)
<1> DEFINE found == Found(s, from)
<1>1. Today(from) \in Int
  BY LocalIs, DivIs, CalendarAssumption DEF Today
<1>2. NextRun(s, from) = IF found = {} THEN Never
        ELSE Candidate(Today(from) + (CHOOSE d \in found : \A e \in found : d <= e), s.hour)
  BY DEF NextRun, Found, Today
<1>3. found \subseteq Nat
  BY DEF Found, Searched
<1>4. ASSUME NEW x \in found
      PROVE  \E d \in found : \A e \in found : d <= e
  <2> HIDE DEF found
  <2>1. PICK d \in found : \A e \in found : ~(<<e, d>> \in OpToRel(<, Nat))
    BY <1>3, <1>4, NatLessThanWellFounded, WFMin
  <2>2. \A e \in found : ~(e < d)
    BY <1>3, <2>1 DEF OpToRel
  <2> QED BY <1>3, <2>2
<1> HIDE DEF found
<1>5. found # {} => \E d \in found : \A e \in found : d <= e
  BY <1>4
<1> QED BY <1>1, <1>2, <1>5 DEF found

(* What an instant that is meant has to do with the days.                   *)
LEMMA MeantIs ==
    ASSUME NEW s \in Schedules, NEW u \in Nat
    PROVE  /\ Local(u) \in Int /\ Local(u) \div DayLen \in Int
           /\ Local(u) % DayLen = s.hour => Local(u) = Wall(s, Local(u) \div DayLen)
<1>1. Local(u) \in Int
  BY LocalIs
<1>2. DayLen \in Nat \ {0}
  BY CalendarAssumption
<1>3. /\ Local(u) \div DayLen \in Int
      /\ Local(u) = (Local(u) \div DayLen) * DayLen + (Local(u) % DayLen)
  BY <1>1, <1>2, DivIs
<1> QED BY <1>1, <1>3 DEF Wall

(* A meant instant is the candidate of its day, and a candidate is meant.   *)
LEMMA MeantIsCandidate ==
    ASSUME NEW s \in Schedules, NEW u \in Meant(s)
    PROVE  /\ u \in Nat /\ Weekday(Local(u) \div DayLen) \in s.weekdays
           /\ Candidate(Local(u) \div DayLen, s.hour) = u
<1> DEFINE day == Local(u) \div DayLen
<1>1. /\ u \in Nat /\ Local(u) % DayLen = s.hour /\ Weekday(day) \in s.weekdays
      /\ \A v \in u - 2 .. u - 1 : Local(v) # Local(u)
  BY CalendarAssumption DEF Meant
<1>2. Local(u) = Wall(s, day) /\ day \in Int
  BY <1>1, MeantIs
<1>3. Local(u) \in Int /\ Local(u) # Spring /\ Fold0(Local(u)) = u
  BY <1>1, CalendarAssumption DEF Local, Fold0
<1> HIDE DEF day
<1>4. Candidate(day, s.hour) = u
  BY <1>2, <1>3, CandidateIs
<1> QED BY <1>1, <1>4 DEF day

LEMMA CandidateIsMeant ==
    ASSUME NEW s \in Schedules, NEW from \in 0 .. Horizon, NEW d \in Found(s, from)
    PROVE  /\ Candidate(Today(from) + d, s.hour) \in Meant(s)
           /\ Candidate(Today(from) + d, s.hour) > from
           /\ Local(Candidate(Today(from) + d, s.hour)) \div DayLen = Today(from) + d
<1> DEFINE day == Today(from) + d
           n == Candidate(day, s.hour)
<1>1. from \in Nat /\ DayLen \in Nat \ {0} /\ Horizon \in Nat
  BY CalendarAssumption
<1>2. Today(from) \in Int /\ d \in 0 .. 8 /\ day \in Int
  BY <1>1, NextRunIs DEF Found, Searched
<1>3. Weekday(day) \in s.weekdays /\ n > from
  BY DEF Found, Acceptable
<1> DEFINE w == Wall(s, day)
<1>4. /\ w \in Int /\ w \div DayLen = day /\ w % DayLen = s.hour /\ s.hour \in 0 .. DayLen - 1
  BY <1>2, WallIs
<1>5. n = IF w = Spring THEN Never ELSE Fold0(w)
  BY <1>2, CandidateIs
<1>6. w # Spring /\ n = Fold0(w) /\ n \in Int
  BY <1>1, <1>3, <1>4, <1>5, FoldIs DEF Never
<1>7. Local(n) = w /\ n # Autumn /\ n <= w
  BY <1>4, <1>6, FoldIs DEF Fold0
<1>8. \A v \in n - 2 .. n - 1 : Local(v) # Local(n)
  BY <1>6, <1>7, LocalIs
<1>9. w <= Horizon + 15 * DayLen
  <2>1. Local(from) \in Int /\ Local(from) <= Horizon + 1
    BY <1>1 DEF Local
  <2>2. Today(from) * DayLen <= Local(from)
    <3>1. /\ Local(from) = (Local(from) \div DayLen) * DayLen + (Local(from) % DayLen)
          /\ Local(from) % DayLen \in 0 .. DayLen - 1
      BY <1>1, <2>1, DivIs
    <3>2. Today(from) * DayLen \in Int
      BY <1>1, <1>2
    <3> QED BY <2>1, <3>1, <3>2, <1>1 DEF Today
  <2>3. day * DayLen = Today(from) * DayLen + d * DayLen /\ Today(from) * DayLen \in Int
        /\ d * DayLen \in Int
    BY <1>1, <1>2
  <2>4. d * DayLen <= 8 * DayLen
    BY <1>1, <1>2
  <2> QED BY <1>1, <1>4, <2>1, <2>2, <2>3, <2>4 DEF Wall
<1> HIDE DEF w, n, day
<1>10. n \in 0 .. Horizon + 15 * DayLen
  BY <1>1, <1>3, <1>6, <1>7, <1>9, <1>4
<1>11. n \in Meant(s)
  BY <1>3, <1>4, <1>7, <1>8, <1>10 DEF Meant
<1> QED BY <1>3, <1>4, <1>7, <1>11 DEF n, day

CalendarTypes == schedule \in Schedules /\ after \in 0 .. Horizon

LEMMA RightFirst ==
    ASSUME CalendarTypes
    PROVE  FindsTheFirst
<1> DEFINE n == NextRun(schedule, after)
           today == Today(after)
<1>1. schedule \in Schedules /\ after \in 0 .. Horizon /\ after \in Nat /\ DayLen \in Nat \ {0}
  BY CalendarAssumption DEF CalendarTypes
<1> SUFFICES ASSUME n # Never
             PROVE  /\ n \in Meant(schedule) /\ n > after
                    /\ \A u \in Meant(schedule) : u > after => n <= u
  BY DEF FindsTheFirst
<1>2. PICK d \in Found(schedule, after) :
        /\ \A e \in Found(schedule, after) : d <= e
        /\ n = Candidate(today + d, schedule.hour)
  BY <1>1, NextRunIs
<1>3. n \in Meant(schedule) /\ n > after /\ Local(n) \div DayLen = today + d
  BY <1>1, <1>2, CandidateIsMeant
<1>4. today \in Int /\ d \in 0 .. 8
  BY <1>1, <1>2, NextRunIs DEF Found, Searched
<1> HIDE DEF n, today
<1>5. ASSUME NEW u \in Meant(schedule), u > after, u < n PROVE FALSE
  <2> DEFINE day == Local(u) \div DayLen
  <2>1. /\ u \in Nat /\ n \in Nat /\ Weekday(day) \in schedule.weekdays
        /\ Candidate(day, schedule.hour) = u
    BY <1>1, <1>3, <1>5, MeantIsCandidate
  <2>2. /\ Local(after) \in Int /\ Local(u) \in Int /\ Local(n) \in Int
        /\ Local(after) <= Local(u) /\ Local(u) <= Local(n)
    BY <1>1, <1>5, <2>1, LocalIs
  <2>3. day \in Int /\ today <= day /\ day <= today + d
    BY <1>1, <1>3, <2>2, DivIs, DivMonotone DEF today, Today
  <2> HIDE DEF day
  <2>4. day - today \in 0 .. 8 /\ today + (day - today) = day
    BY <1>4, <2>3
  <2>5. day - today \in Found(schedule, after)
    BY <1>5, <2>1, <2>4 DEF Found, Searched, Acceptable, today
  <2>6. d <= day - today
    BY <1>2, <2>5
  <2>7. day = today + d
    BY <1>4, <2>3, <2>6
  <2> QED BY <1>2, <1>5, <2>1, <2>7
<1>6. ASSUME NEW u \in Meant(schedule), u > after PROVE n <= u
  <2>1. u \in Nat /\ n \in Nat
    BY <1>1, <1>3, MeantIsCandidate
  <2> QED BY <1>5, <1>6, <2>1
<1> QED BY <1>3, <1>6

LEMMA RightDaily ==
    ASSUME CalendarTypes
    PROVE  DailyIsFound
<1> DEFINE today == Today(after)
<1>1. schedule \in Schedules /\ after \in 0 .. Horizon /\ after \in Nat /\ DayLen \in Nat \ {0}
  BY CalendarAssumption DEF CalendarTypes
<1> SUFFICES ASSUME schedule.weekdays = 0 .. 6
             PROVE  NextRun(schedule, after) # Never
  BY DEF DailyIsFound
<1>0. Local(after) \in Int
  BY <1>1, LocalIs
<1>2. today \in Int /\ Local(after) \in Int
      /\ Local(after) = today * DayLen + (Local(after) % DayLen)
      /\ Local(after) % DayLen \in 0 .. DayLen - 1
  <2>1. /\ Local(after) \div DayLen \in Int
        /\ Local(after) = (Local(after) \div DayLen) * DayLen + (Local(after) % DayLen)
        /\ Local(after) % DayLen \in 0 .. DayLen - 1
    BY <1>0, <1>1, DivIs
  <2> QED BY <1>0, <2>1 DEF Today
<1>3. ASSUME NEW d \in {1, 2}, Wall(schedule, today + d) # Spring
      PROVE  d \in Found(schedule, after)
  <2> DEFINE w == Wall(schedule, today + d)
  <2>1. w \in Int /\ today + d \in Int /\ schedule.hour \in 0 .. DayLen - 1
    BY <1>1, <1>2, WallIs
  <2>2. Candidate(today + d, schedule.hour) = Fold0(w)
    BY <1>1, <1>3, <2>1, CandidateIs
  <2>3. today * DayLen + DayLen <= (today + d) * DayLen
        /\ today * DayLen \in Int /\ (today + d) * DayLen \in Int
    BY <1>1, <1>2
  <2>4. w > Local(after)
    BY <1>1, <1>2, <2>1, <2>3 DEF Wall
  <2> HIDE DEF w, today
  <2>5. Fold0(w) \in Int /\ Local(Fold0(w)) = w
    BY <1>3, <2>1, FoldIs DEF w
  <2>6. Fold0(w) > after
    BY <1>1, <1>2, <2>1, <2>4, <2>5, LocalIs
  <2>7. Weekday(today + d) \in 0 .. 6
    BY <2>1 DEF Weekday
  <2>8. d \in Searched
    BY DEF Searched
  <2> QED BY <2>2, <2>6, <2>7, <2>8 DEF Found, Acceptable, today
<1>4. Wall(schedule, today + 1) # Wall(schedule, today + 2)
  <2>1. (today + 2) * DayLen = (today + 1) * DayLen + DayLen /\ (today + 1) * DayLen \in Int
    BY <1>1, <1>2
  <2>2. schedule.hour \in Int
    BY <1>1, <1>2, WallIs
  <2> QED BY <1>1, <2>1, <2>2 DEF Wall
<1>5. Found(schedule, after) # {}
  <2> HIDE DEF today
  <2> QED BY <1>3, <1>4
<1>6. PICK d \in Found(schedule, after) :
        NextRun(schedule, after) = Candidate(today + d, schedule.hour)
  BY <1>1, <1>5, NextRunIs
<1>7. Candidate(today + d, schedule.hour) > after
  BY DEF Found, Acceptable
<1> QED BY <1>1, <1>6, <1>7 DEF Never

DayPassed == Today(after') > Today(after) \/ Local(after) % DayLen # schedule.hour

LEMMA RightDay ==
    ASSUME CalendarTypes, Run
    PROVE  CalendarTypes' /\ DayPassed
<1>1. /\ schedule \in Schedules /\ after \in 0 .. Horizon /\ after \in Nat /\ DayLen \in Nat \ {0}
      /\ schedule' = schedule /\ after' = NextRun(schedule, after) /\ after' \in 0 .. Horizon
  BY CalendarAssumption DEF CalendarTypes, Run
<1>2. after' # Never
  BY <1>1, CalendarAssumption DEF Never
<1>3. PICK d \in Found(schedule, after) : after' = Candidate(Today(after) + d, schedule.hour)
  BY <1>1, <1>2, NextRunIs
<1>4. Today(after') = Today(after) + d /\ after' > after
  BY <1>1, <1>3, CandidateIsMeant DEF Today
<1>5. Today(after) \in Int /\ d \in 0 .. 8
  BY <1>1, <1>3, NextRunIs DEF Found, Searched
<1>6. ASSUME d = 0, Local(after) % DayLen = schedule.hour PROVE FALSE
  <2>1. Local(after) \in Int /\ Local(after) = Wall(schedule, Today(after))
    BY <1>1, <1>6, MeantIs DEF Today
  <2>2. Fold0(Local(after)) <= after /\ Fold0(Local(after)) \in Int
    BY <1>1, <2>1, FoldIs
  <2>3. Candidate(Today(after), schedule.hour) \in {Never, Fold0(Local(after))}
    BY <1>1, <1>5, <2>1, CandidateIs
  <2>4. after' \in {Never, Fold0(Local(after))}
    BY <1>3, <1>5, <1>6, <2>3
  <2> QED BY <1>1, <1>2, <1>4, <2>2, <2>4
<1>7. DayPassed
  BY <1>4, <1>5, <1>6 DEF DayPassed
<1> QED BY <1>1, <1>7 DEF CalendarTypes

---------------------------------------------------------------------------
(* Side by side.                                                           *)

LEMMA EachStep ==
    ASSUME [ServicesNext]_ServicesVars
    PROVE  /\ part \in Parts => part' \in Parts
           /\ [Next]_vars /\ [BackupsNext]_backupVars /\ [WebNext]_webVars
           /\ [CalendarNext]_calendarVars
<1>1. CASE UNCHANGED ServicesVars
  BY <1>1 DEF ServicesVars
<1>2. CASE ServicesNext
  BY <1>2 DEF ServicesNext, Only
<1> QED BY <1>1, <1>2

LEMMA EachSpec ==
    ServicesSpec => Spec /\ BackupsSpec /\ WebSpec /\ CalendarSpec /\ [](part \in Parts)
<1>1. ServicesInit => Init /\ BackupsInit /\ WebInit /\ CalendarInit /\ part \in Parts
  BY DEF ServicesInit
<1>2. [ServicesNext]_ServicesVars
      => /\ [Next]_vars /\ [BackupsNext]_backupVars /\ [WebNext]_webVars
         /\ [CalendarNext]_calendarVars
  BY EachStep
<1>3. part \in Parts /\ [ServicesNext]_ServicesVars => (part \in Parts)'
  BY EachStep
<1> QED BY <1>1, <1>2, <1>3, PTL
      DEF ServicesSpec, Spec, BackupsSpec, WebSpec, CalendarSpec

(* The variables of the supervisor, the backups and the limiter keep their  *)
(* types, whatever fails, for any number of bots, threads and principals.   *)
THEOREM ServicesTypes == ServicesSpec => []ServicesTypeOK
<1>1. WebInv => WebTypeOK
  BY DEF WebInv, WebTypeOK
<1>2. part \in Parts /\ TypeOK /\ BackupsTypeOK /\ WebTypeOK => ServicesTypeOK
  BY DEF ServicesTypeOK
<1> QED BY <1>1, <1>2, EachSpec, TypeCorrect, BackupsTypes, WebAlways, PTL

(* What the portal has promised of backups and restores, with one process   *)
(* that can read its catalogue and whose clock does not go back: nothing    *)
(* that was reported is lost but to retention, nothing is retired under a   *)
(* restore, a rollback leaves nothing and keeps its snapshot, and a create  *)
(* trims.                                                                   *)
THEOREM BackupsKept ==
    ASSUME SingleProcess, "catalog" \notin BackupFaults, "clock" \notin BackupFaults
    PROVE  ServicesSpec => BackupsAreKept
<1>1. /\ BackupsSpec => []ReportedIsListed
      /\ BackupsSpec => []RestoringIsKept
      /\ BackupsSpec => ManualKeepsSafety
      /\ BackupsSpec => SuccessTrims
  BY ReportedListed, RestoringKept, ManualRestoreKeepsSafety, SuccessesTrim
<1>2. BackupsSpec => RolledBackLeavesNothing
  BY RollsBackLeavingNothing
<1> QED BY <1>1, <1>2, EachSpec, PTL DEF BackupsAreKept

(* For every length of the day, every weekly or daily schedule and every    *)
(* pair of transitions at least two hours apart: next_run finds the first   *)
(* meant instant if it finds one, always finds one of a daily schedule, and *)
(* successive runs are on successive local days, so a repeated hour runs    *)
(* once and a skipped one not at all.                                       *)
THEOREM NextRunsRight == ServicesSpec => NextRunIsRight
<1>1. CalendarInit => CalendarTypes
  BY DEF CalendarInit, CalendarTypes
<1>2. CalendarTypes /\ [CalendarNext]_calendarVars => CalendarTypes'
  BY RightDay DEF CalendarNext, calendarVars, CalendarTypes
<1>3. CalendarTypes /\ [CalendarNext]_calendarVars => [DayPassed]_calendarVars
  BY RightDay DEF CalendarNext
<1>4. CalendarTypes => (part = "calendar" => FindsTheFirst /\ DailyIsFound)
  BY RightFirst, RightDaily
<1>5. CalendarSpec => [][DayPassed]_calendarVars /\ [](part = "calendar" => FindsTheFirst /\ DailyIsFound)
  BY <1>1, <1>2, <1>3, <1>4, PTL DEF CalendarSpec
<1>6. CalendarSpec => OncePerDay
  BY <1>5 DEF OncePerDay, DayPassed, Today
<1> QED BY <1>5, <1>6, EachSpec, PTL DEF NextRunIsRight
===============================================================================
