----------------------------- MODULE SeedProofs -----------------------------
(***************************************************************************)
(* Theorems about the seeders and the country list, for any number of      *)
(* seeders, countries and requests.                                        *)
(***************************************************************************)
EXTENDS CountryList, ErrorsProofs, FiniteSetTheorems, SequenceTheorems

----------------------------------------------------------------------------
(* The rows and the order they are walked in.                              *)

LEMMA WalkIsSeq ==
  /\ Len(Walk) \in Nat /\ Len(Walk) = 2 + Len(Countries) /\ DOMAIN Walk = 1 .. Len(Walk)
  /\ Len(Countries) \in Nat /\ DOMAIN Countries = 1 .. Len(Countries)
  /\ Walk[1] = "ADMIN" /\ Walk[2] = "USER"
  /\ \A i \in 1 .. Len(Countries) : Walk[i + 2] = Countries[i]
<1>1. Countries \in Seq(RowsOf(Countries)) /\ Roles \in Seq({"ADMIN", "USER"})
  BY SeedAssumption DEF Roles
<1>2. /\ Len(Roles) = 2 /\ Roles[1] = "ADMIN" /\ Roles[2] = "USER"
      /\ Len(Countries) \in Nat /\ DOMAIN Countries = 1 .. Len(Countries)
  BY <1>1 DEF Roles
<1> DEFINE U == RowsOf(Countries) \cup {"ADMIN", "USER"}
<1>3. Countries \in Seq(U) /\ Roles \in Seq(U)
  BY <1>1
<1> HIDE DEF U
<1>4. /\ Walk \in Seq(U) /\ Len(Walk) = Len(Roles) + Len(Countries)
      /\ \A i \in 1 .. Len(Roles) + Len(Countries) :
           Walk[i] = IF i <= Len(Roles) THEN Roles[i] ELSE Countries[i - Len(Roles)]
  BY <1>3, ConcatProperties DEF Walk
<1>5. Len(Walk) = 2 + Len(Countries) /\ DOMAIN Walk = 1 .. Len(Walk)
  BY <1>2, <1>4
<1>6. ASSUME NEW i \in 1 .. Len(Countries)
      PROVE  Walk[i + 2] = Countries[i]
  <2>1. i + 2 \in 1 .. 2 + Len(Countries) /\ ~(i + 2 <= 2) /\ (i + 2) - 2 = i
    BY <1>2
  <2> QED
    BY <1>2, <1>4, <2>1
<1>7. Walk[1] = "ADMIN" /\ Walk[2] = "USER"
  BY <1>2, <1>4
<1> QED
  BY <1>2, <1>5, <1>6, <1>7

LEMMA WalkCovers ==
  /\ RowsOf(Roles) = {Walk[1], Walk[2]}
  /\ Row = {Walk[i] : i \in 1 .. Len(Walk)}
  /\ \A i, j \in 1 .. Len(Walk) : Walk[i] = Walk[j] => i = j
  /\ \A i \in 1 .. Len(Walk) : Walk[i] \in RowsOf(Countries) => i > 2
<1>1. RowsOf(Roles) = {Walk[1], Walk[2]}
  BY WalkIsSeq DEF RowsOf, Roles
<1>2. RowsOf(Countries) = {Walk[i + 2] : i \in 1 .. Len(Countries)}
  BY WalkIsSeq DEF RowsOf
<1>3. \A i, j \in 1 .. Len(Walk) : Walk[i] = Walk[j] => i = j
  BY WalkIsSeq, SeedAssumption
<1>4. \A i \in 1 .. Len(Walk) : i = 1 \/ i = 2 \/ \E k \in 1 .. Len(Countries) : i = k + 2
  <2> SUFFICES ASSUME NEW i \in 1 .. Len(Walk), i # 1, i # 2
               PROVE  \E k \in 1 .. Len(Countries) : i = k + 2
    OBVIOUS
  <2>1. i - 2 \in 1 .. Len(Countries) /\ i = (i - 2) + 2
    BY WalkIsSeq
  <2> QED
    BY <2>1
<1>5. Row = {Walk[i] : i \in 1 .. Len(Walk)}
  <2>1. ASSUME NEW i \in 1 .. Len(Walk)
        PROVE  Walk[i] \in Row
    BY <1>1, <1>2, <1>4 DEF Row
  <2>2. ASSUME NEW row \in Row
        PROVE  \E i \in 1 .. Len(Walk) : row = Walk[i]
    <3>1. CASE row \in RowsOf(Roles)
      BY <1>1, <3>1, WalkIsSeq
    <3>2. CASE row \in RowsOf(Countries)
      <4>1. PICK k \in 1 .. Len(Countries) : row = Walk[k + 2]
        BY <1>2, <3>2
      <4>2. k + 2 \in 1 .. Len(Walk)
        BY WalkIsSeq
      <4> QED
        BY <4>1, <4>2
    <3> QED
      BY <2>2, <3>1, <3>2 DEF Row
  <2> QED
    BY <2>1, <2>2
<1>6. \A i \in 1 .. Len(Walk) : Walk[i] \in RowsOf(Countries) => i > 2
  <2> SUFFICES ASSUME NEW i \in 1 .. Len(Walk), Walk[i] \in RowsOf(Countries)
               PROVE  i > 2
    OBVIOUS
  <2>1. PICK k \in 1 .. Len(Countries) : Walk[i] = Walk[k + 2]
    BY <1>2
  <2>2. k + 2 \in 1 .. Len(Walk)
    BY WalkIsSeq
  <2> QED
    BY <1>3, <2>1, <2>2
<1> QED
  BY <1>1, <1>3, <1>5, <1>6

LEMMA RowFacts ==
  ASSUME NEW s \in Seeder, next[s] \in 1 .. Len(Walk)
  PROVE  RowOf(s) \in Row /\ RowOf(s) = Walk[next[s]]
  BY WalkCovers DEF RowOf

----------------------------------------------------------------------------
(* The walk: what a seeder has behind it is stored.                        *)

Walking == {"idle", "connect", "select", "insert"} \cup Dangling

Placed(s) ==
  /\ state[s] \in Walking => next[s] \in 1 .. Len(Walk)
  /\ state[s] \in {"end", "ok"} => next[s] = Len(Walk) + 1
  /\ \A j \in 1 .. next[s] - 1 : Walk[j] \in stored

(***************************************************************************)
(* A row that is there when it is inserted, and was not when it was looked *)
(* up, was added by a seeder; and nothing is added that is not stored.     *)
(***************************************************************************)
Raced(s) == state[s] = "insert" /\ RowOf(s) \in stored => RowOf(s) \in added

SeedInv ==
  /\ SeedTypeOK
  /\ added \subseteq stored
  /\ RolesComeFirst
  /\ \A s \in Seeder : Placed(s) /\ Raced(s)

LEMMA ToStep ==
  ASSUME SeedTypeOK, NEW s \in Seeder, NEW new \in State, To(s, new)
  PROVE  /\ state' \in [Seeder -> State] /\ state'[s] = new
         /\ \A t \in Seeder : t # s => state'[t] = state[t]
  BY DEF SeedTypeOK, To

LEMMA AdvanceStep ==
  ASSUME SeedTypeOK, NEW s \in Seeder, next[s] \in 1 .. Len(Walk), Advance(s)
  PROVE  /\ state' \in [Seeder -> State] /\ next' \in [Seeder -> 1 .. Len(Walk) + 1]
         /\ next'[s] = next[s] + 1
         /\ state'[s] \in {"end", "select"}
         /\ state'[s] = "end" <=> next'[s] = Len(Walk) + 1
         /\ \A t \in Seeder : t # s => state'[t] = state[t] /\ next'[t] = next[t]
<1>1. To(s, IF next[s] = Len(Walk) THEN "end" ELSE "select") /\ next' = [next EXCEPT ![s] = @ + 1]
  BY DEF Advance
<1>2. /\ state' \in [Seeder -> State]
      /\ state'[s] = IF next[s] = Len(Walk) THEN "end" ELSE "select"
      /\ \A t \in Seeder : t # s => state'[t] = state[t]
  BY <1>1, ToStep DEF State, Running
<1>3. /\ next' \in [Seeder -> 1 .. Len(Walk) + 1] /\ next'[s] = next[s] + 1
      /\ \A t \in Seeder : t # s => next'[t] = next[t]
  BY <1>1, WalkIsSeq DEF SeedTypeOK
<1> QED
  BY <1>2, <1>3, WalkIsSeq

(***************************************************************************)
(* Whatever a step does to one seeder, the others keep their place.        *)
(***************************************************************************)
LEMMA OthersPlaced ==
  ASSUME SeedInv, NEW t \in Seeder, state'[t] = state[t], next'[t] = next[t],
         stored \subseteq stored', added \subseteq added',
         (stored' \ stored) \cap Row \subseteq added'
  PROVE  Placed(t)' /\ Raced(t)'
<1>1. Placed(t)'
  BY DEF SeedInv, Placed
<1>2. RowOf(t)' = RowOf(t)
  BY DEF RowOf
<1>3. state[t] = "insert" => RowOf(t) \in Row
  BY RowFacts DEF SeedInv, Placed, Walking
<1> QED
  BY <1>1, <1>2, <1>3 DEF SeedInv, Raced

LEMMA StoreStep ==
  ASSUME SeedInv, NEW s \in Seeder, state[s] \in Walking, Store(s)
  PROVE  /\ stored' \subseteq Row \cup Others /\ added' \subseteq Row /\ added' \subseteq stored'
         /\ stored \subseteq stored' /\ added \subseteq added' /\ stored' \ stored \subseteq added'
         /\ RowOf(s) \in stored' /\ RolesComeFirst'
<1>1. next[s] \in 1 .. Len(Walk) /\ RowOf(s) \in Row /\ RowOf(s) = Walk[next[s]]
  BY RowFacts DEF SeedInv, Placed
<1>2. CASE RowOf(s) \in RowsOf(Countries)
  <2>1. next[s] > 2
    BY <1>1, <1>2, WalkCovers
  <2>2. 1 \in 1 .. next[s] - 1 /\ 2 \in 1 .. next[s] - 1
    BY <1>1, <2>1, WalkIsSeq
  <2>3. RowsOf(Roles) \subseteq stored
    BY <2>2, WalkCovers DEF SeedInv, Placed
  <2> QED
    BY <1>1, <2>3 DEF Store, SeedInv, SeedTypeOK, RolesComeFirst
<1> QED
  BY <1>1, <1>2 DEF Store, SeedInv, SeedTypeOK, RolesComeFirst

LEMMA InitSeedInv == SeedInit => SeedInv
<1> SUFFICES ASSUME SeedInit
             PROVE  SeedInv
  OBVIOUS
<1>1. SeedTypeOK
  BY WalkIsSeq DEF SeedInit, SeedTypeOK, State
<1>2. \A s \in Seeder : Placed(s) /\ Raced(s)
  BY WalkIsSeq DEF SeedInit, Placed, Raced
<1> QED
  BY <1>1, <1>2 DEF SeedInit, SeedInv, RolesComeFirst

(***************************************************************************)
(* The steps of a seeder that move its state and nothing else it counts on.*)
(***************************************************************************)
LEMMA MovesSeedInv ==
  ASSUME SeedInv, NEW s \in Seeder, NEW new \in State, To(s, new),
         UNCHANGED <<stored, next, added>>, broken' \subseteq Seeder, alone' \subseteq Seeder,
         new \in Walking => state[s] \in Walking,
         new = "insert" => RowOf(s) \notin stored,
         new \in {"end", "ok"} => state[s] = "end"
  PROVE  SeedInv'
<1>1. /\ state' \in [Seeder -> State] /\ state'[s] = new
      /\ \A t \in Seeder : t # s => state'[t] = state[t]
  BY ToStep DEF SeedInv
<1>2. \A t \in Seeder : t # s => Placed(t)' /\ Raced(t)'
  BY <1>1, OthersPlaced
<1>3. Placed(s)' /\ Raced(s)'
  BY <1>1 DEF SeedInv, Placed, Raced, RowOf
<1>4. SeedTypeOK' /\ (added \subseteq stored)' /\ RolesComeFirst'
  BY <1>1 DEF SeedInv, SeedTypeOK, RolesComeFirst
<1> QED
  BY <1>2, <1>3, <1>4 DEF SeedInv

LEMMA AdvanceSeedInv ==
  ASSUME SeedInv, NEW s \in Seeder, state[s] \in Walking, Advance(s), UNCHANGED <<broken, alone>>,
         \/ UNCHANGED <<stored, added>> /\ RowOf(s) \in stored
         \/ Store(s)
  PROVE  SeedInv'
<1>0. next[s] \in 1 .. Len(Walk) /\ RowOf(s) = Walk[next[s]] /\ SeedTypeOK
  BY RowFacts DEF SeedInv, Placed
<1>1. /\ stored' \subseteq Row \cup Others /\ added' \subseteq Row /\ added' \subseteq stored'
      /\ stored \subseteq stored' /\ added \subseteq added' /\ stored' \ stored \subseteq added'
      /\ RowOf(s) \in stored' /\ RolesComeFirst'
  BY StoreStep DEF SeedInv, SeedTypeOK, RolesComeFirst
<1>2. /\ state' \in [Seeder -> State] /\ next' \in [Seeder -> 1 .. Len(Walk) + 1]
      /\ next'[s] = next[s] + 1 /\ state'[s] \in {"end", "select"}
      /\ state'[s] = "end" <=> next'[s] = Len(Walk) + 1
      /\ \A t \in Seeder : t # s => state'[t] = state[t] /\ next'[t] = next[t]
  BY <1>0, AdvanceStep
<1>3. \A t \in Seeder : t # s => Placed(t)' /\ Raced(t)'
  BY <1>1, <1>2, OthersPlaced
<1>4. Placed(s)'
  <2>1. \A j \in 1 .. next'[s] - 1 : j \in 1 .. next[s] - 1 \/ j = next[s]
    BY <1>0, <1>2, WalkIsSeq
  <2>2. \A j \in 1 .. next'[s] - 1 : Walk[j] \in stored'
    BY <1>0, <1>1, <2>1 DEF SeedInv, Placed
  <2>3. next'[s] \in 1 .. Len(Walk) \/ next'[s] = Len(Walk) + 1
    BY <1>0, <1>2, WalkIsSeq
  <2> QED
    BY <1>2, <2>2, <2>3 DEF Placed, Walking, Dangling
<1>5. Raced(s)'
  BY <1>2 DEF Raced
<1> QED
  BY <1>0, <1>1, <1>2, <1>3, <1>4, <1>5 DEF SeedInv, SeedTypeOK

(***************************************************************************)
(* An insert whose seeder does not live to hear of it.                     *)
(***************************************************************************)
LEMMA LostSeedInv ==
  ASSUME SeedInv, NEW s \in Seeder, state[s] \in Walking, NEW new \in {"failed", "killed"},
         To(s, new), Store(s), UNCHANGED next, broken' \subseteq Seeder, UNCHANGED alone
  PROVE  SeedInv'
<1>1. /\ stored' \subseteq Row \cup Others /\ added' \subseteq Row /\ added' \subseteq stored'
      /\ stored \subseteq stored' /\ added \subseteq added' /\ stored' \ stored \subseteq added'
      /\ RolesComeFirst'
  BY StoreStep
<1>2. /\ state' \in [Seeder -> State] /\ state'[s] = new
      /\ \A t \in Seeder : t # s => state'[t] = state[t]
  BY ToStep DEF SeedInv, State
<1>3. \A t \in Seeder : t # s => Placed(t)' /\ Raced(t)'
  BY <1>1, <1>2, OthersPlaced
<1>4. Placed(s)' /\ Raced(s)'
  BY <1>1, <1>2 DEF SeedInv, Placed, Raced, Walking, Dangling
<1> QED
  BY <1>1, <1>2, <1>3, <1>4 DEF SeedInv, SeedTypeOK

(***************************************************************************)
(* A country the seeders do not know moves none of them.                   *)
(***************************************************************************)
LEMMA AddCountryStep ==
  ASSUME SeedInv, AddCountry
  PROVE  /\ stored \subseteq stored' /\ stored' \subseteq Row \cup Others
         /\ (stored' \ stored) \cap Row = {} /\ UNCHANGED <<state, next, added, broken, alone>>
  BY SeedAssumption DEF AddCountry, SeedInv, SeedTypeOK

LEMMA AddCountrySeedInv == SeedInv /\ AddCountry => SeedInv'
<1> SUFFICES ASSUME SeedInv, AddCountry
             PROVE  SeedInv'
  OBVIOUS
<1>1. \A t \in Seeder : Placed(t)' /\ Raced(t)'
  BY AddCountryStep, OthersPlaced
<1>2. SeedTypeOK' /\ added' \subseteq stored' /\ RolesComeFirst'
  BY AddCountryStep DEF SeedInv, SeedTypeOK, RolesComeFirst
<1> QED
  BY <1>1, <1>2 DEF SeedInv

LEMMA NextSeedInv == SeedInv /\ [SeedNext]_seedVars => SeedInv'
<1> SUFFICES ASSUME SeedInv, [SeedNext]_seedVars
             PROVE  SeedInv'
  OBVIOUS
<1>1. CASE UNCHANGED seedVars
  BY <1>1 DEF seedVars, SeedInv, SeedTypeOK, RolesComeFirst, Placed, Raced, RowOf
<1>2. ASSUME NEW s \in Seeder, Start(s) \/ SeederStep(s) \/ Break(s) \/ Kill(s) \/ Land(s)
      PROVE  SeedInv'
  <2>0. /\ {"connect", "select", "insert", "end", "ok", "failed", "killed", "adrift", "cut"} \subseteq State
        /\ broken \subseteq Seeder /\ alone \subseteq Seeder
    BY DEF State, Running, Dangling, SeedInv, SeedTypeOK
  <2>1. CASE Start(s)
    <3>1. state[s] = "idle" /\ To(s, "connect") /\ alone' \subseteq Seeder
      BY <2>0, <2>1 DEF Start
    <3> QED
      BY <2>0, <2>1, <3>1, MovesSeedInv DEF Start, Walking, Dangling
  <2>2. CASE Connect(s)
    BY <2>0, <2>2, MovesSeedInv DEF Connect, Walking, Dangling
  <2>3. CASE Select(s)
    <3>1. CASE RowOf(s) \in stored
      BY <2>3, <3>1, AdvanceSeedInv DEF Select, Walking, Dangling
    <3>2. CASE RowOf(s) \notin stored
      BY <2>0, <2>3, <3>2, MovesSeedInv DEF Select, Walking, Dangling
    <3> QED
      BY <3>1, <3>2
  <2>4. CASE Insert(s)
    <3>1. CASE Store(s) /\ Advance(s)
      BY <2>4, <3>1, AdvanceSeedInv DEF Insert, Walking, Dangling
    <3>2. CASE To(s, "failed") /\ UNCHANGED <<stored, next, added>>
      BY <2>0, <2>4, <3>2, MovesSeedInv DEF Insert, Walking, Dangling
    <3> QED
      BY <2>4, <3>1, <3>2 DEF Insert
  <2>5. CASE End(s)
    BY <2>0, <2>5, MovesSeedInv DEF End, Walking, Dangling
  <2>6. CASE Break(s)
    <3>1. broken' \subseteq Seeder /\ UNCHANGED <<next, alone>>
      BY <2>0, <2>6 DEF Break
    <3>2. CASE To(s, "failed") /\ UNCHANGED <<stored, added>>
      BY <2>0, <3>1, <3>2, MovesSeedInv DEF Walking, Dangling
    <3>3. CASE state[s] = "insert" /\ To(s, "failed") /\ Store(s)
      BY <3>1, <3>3, LostSeedInv DEF Walking
    <3>4. CASE state[s] = "insert" /\ To(s, "cut") /\ UNCHANGED <<stored, added>>
      BY <2>0, <3>1, <3>4, MovesSeedInv DEF Walking, Dangling
    <3> QED
      BY <2>6, <3>2, <3>3, <3>4 DEF Break
  <2>7. CASE Kill(s)
    <3> DEFINE new == IF state[s] = "insert" THEN "adrift" ELSE "killed"
    <3>1. /\ To(s, new) /\ broken' \subseteq Seeder /\ UNCHANGED <<stored, next, added, alone>>
          /\ new \in State /\ (new \in Walking => state[s] \in Walking)
          /\ new \notin {"insert", "end", "ok"}
      BY <2>0, <2>7 DEF Kill, Walking, Dangling
    <3> HIDE DEF new
    <3> QED
      BY <2>0, <3>1, MovesSeedInv
  <2>8. CASE Land(s)
    <3>1. PICK new \in {"failed", "killed"} : To(s, new)
      BY <2>8 DEF Land
    <3>2. state[s] \in Dangling /\ UNCHANGED <<next, broken, alone>>
      BY <2>8 DEF Land
    <3>3. CASE UNCHANGED <<stored, added>>
      BY <2>0, <3>1, <3>2, <3>3, MovesSeedInv DEF Walking, Dangling
    <3>4. CASE Store(s)
      BY <2>0, <3>1, <3>2, <3>4, LostSeedInv DEF Walking
    <3> QED
      BY <2>8, <3>3, <3>4 DEF Land
  <2> QED
    BY <1>2, <2>1, <2>2, <2>3, <2>4, <2>5, <2>6, <2>7, <2>8 DEF SeederStep
<1> QED
  BY <1>1, <1>2, AddCountrySeedInv DEF SeedNext

LEMMA SeedInvImplies == SeedInv => SuccessMeansSeeded
<1> SUFFICES ASSUME SeedInv, NEW s \in Seeder, state[s] = "ok"
             PROVE  Row \subseteq stored
  BY DEF SuccessMeansSeeded
<1>1. next[s] = Len(Walk) + 1 /\ \A j \in 1 .. next[s] - 1 : Walk[j] \in stored
  BY DEF SeedInv, Placed
<1>2. next[s] - 1 = Len(Walk)
  BY <1>1, WalkIsSeq
<1> QED
  BY <1>1, <1>2, WalkCovers

----------------------------------------------------------------------------
(* The readers leave the seeders alone.                                    *)

LEMMA InitSeeds == Init => SeedInit
  BY DEF Init

LEMMA NextSeeds == [Next]_vars => [SeedNext]_seedVars
  BY DEF Next, vars, Arrive, Read, FindRows, CountRows, QueryFails

(***************************************************************************)
(* A seeder that exits with 0 leaves every row stored (seed-pg.js:17-50).  *)
(***************************************************************************)
THEOREM SuccessStaysSeeded == Spec => []SuccessMeansSeeded
<1>1. Spec => []SeedInv
  BY InitSeeds, NextSeeds, InitSeedInv, NextSeedInv, PTL DEF Spec
<1> QED
  BY <1>1, SeedInvImplies, PTL

(***************************************************************************)
(* No seeder stores a country before both roles are there                  *)
(* (seed-pg.js:19-46).                                                     *)
(***************************************************************************)
THEOREM RolesStayFirst == Spec => []RolesComeFirst
<1>1. Spec => []SeedInv
  BY InitSeeds, NextSeeds, InitSeedInv, NextSeedInv, PTL DEF Spec
<1>2. SeedInv => RolesComeFirst
  BY DEF SeedInv
<1> QED
  BY <1>1, <1>2, PTL

----------------------------------------------------------------------------
(* Runs side by side: the one ahead of the others is refused nothing.      *)

Leads(t) ==
  /\ state[t] \in Running \cup {"ok"}
  /\ added \subseteq {Walk[j] : j \in 1 .. next[t] - 1}

Led ==
  /\ \A s \in Seeder : state[s] \in Dangling => s \in broken
  /\ broken = {} => \/ Started = {} /\ added = {}
                   \/ \E t \in Seeder : Leads(t)

LEMMA LeaderIsNotRefused ==
  ASSUME SeedInv, NEW s \in Seeder, Leads(s), state[s] = "insert"
  PROVE  RowOf(s) \notin stored
<1> SUFFICES ASSUME RowOf(s) \in stored
             PROVE  FALSE
  OBVIOUS
<1>1. next[s] \in 1 .. Len(Walk) /\ RowOf(s) = Walk[next[s]]
  BY RowFacts DEF SeedInv, Placed, Walking, Dangling
<1>2. PICK j \in 1 .. next[s] - 1 : Walk[j] = Walk[next[s]]
  BY <1>1 DEF SeedInv, Raced, Leads
<1>3. j \in 1 .. Len(Walk) /\ j # next[s]
  BY <1>1, <1>2, WalkIsSeq
<1> QED
  BY <1>1, <1>2, <1>3, WalkCovers

(***************************************************************************)
(* Who inserts a row has come as far as whoever led.                       *)
(***************************************************************************)
LEMMA StorerLeads ==
  ASSUME SeedInv, NEW s \in Seeder, state[s] = "insert", Store(s), Advance(s),
         NEW t \in Seeder, Leads(t)
  PROVE  Leads(s)'
<1>1. next[s] \in 1 .. Len(Walk) /\ RowOf(s) = Walk[next[s]] /\ SeedTypeOK
  BY RowFacts DEF SeedInv, Placed, Walking, Dangling
<1>2. next'[s] = next[s] + 1 /\ state'[s] \in {"end", "select"}
  BY <1>1, AdvanceStep
<1>3. next[t] \in 1 .. Len(Walk) + 1
  BY <1>1 DEF SeedTypeOK
<1>4. ~(next[s] \in 1 .. next[t] - 1)
  BY <1>1 DEF SeedInv, Placed, Store
<1>5. next[t] <= next[s]
  BY <1>1, <1>3, <1>4, WalkIsSeq
<1>6. ASSUME NEW row \in added'
      PROVE  \E j \in 1 .. next'[s] - 1 : row = Walk[j]
  <2>1. CASE row = Walk[next[s]]
    <3>1. next[s] \in 1 .. next'[s] - 1
      BY <1>1, <1>2, WalkIsSeq
    <3> QED
      BY <2>1, <3>1
  <2>2. CASE row \in added
    <3>1. PICK j \in 1 .. next[t] - 1 : row = Walk[j]
      BY <2>2 DEF Leads
    <3>2. j \in 1 .. next'[s] - 1
      BY <1>1, <1>2, <1>3, <1>5, <3>1, WalkIsSeq
    <3> QED
      BY <3>1, <3>2
  <2> QED
    BY <1>1, <1>6, <2>1, <2>2 DEF Store
<1> QED
  BY <1>2, <1>6 DEF Leads, Running

(***************************************************************************)
(* A step that stores nothing and ends nobody's run leaves the leader.     *)
(***************************************************************************)
LEMMA KeepsLed ==
  ASSUME SeedInv, Led, NEW s \in Seeder, state[s] # "idle",
         NEW new \in Running \cup {"ok"}, To(s, new),
         UNCHANGED <<added, broken>>,
         next' = next \/ next' = [next EXCEPT ![s] = @ + 1]
  PROVE  Led'
<1>1. state' \in [Seeder -> State] /\ state'[s] = new /\ \A u \in Seeder : u # s => state'[u] = state[u]
  BY ToStep DEF SeedInv, State
<1>2. \A u \in Seeder : next[u] \in Nat /\ next'[u] \in {next[u], next[u] + 1}
  BY WalkIsSeq DEF SeedInv, SeedTypeOK
<1>3. \A u \in Seeder : state'[u] \in Dangling => u \in broken'
  BY <1>1 DEF Led, Running, Dangling
<1>4. ASSUME NEW t \in Seeder, Leads(t)
      PROVE  Leads(t)'
  <2>1. 1 .. next[t] - 1 \subseteq 1 .. next'[t] - 1
    BY <1>2
  <2>2. added' \subseteq {Walk[j] : j \in 1 .. next'[t] - 1}
    BY <1>4, <2>1 DEF Leads
  <2> QED
    BY <1>1, <1>4, <2>2 DEF Leads
<1>5. Started # {}
  BY DEF Started
<1> QED
  BY <1>3, <1>4, <1>5 DEF Led

LEMMA InitLed == SeedInit => Led
  BY DEF SeedInit, Led, Started, Dangling

LEMMA NextLed == SeedInv /\ Led /\ [SeedNext]_seedVars => Led'
<1> SUFFICES ASSUME SeedInv, Led, [SeedNext]_seedVars
             PROVE  Led'
  OBVIOUS
<1>1. CASE UNCHANGED seedVars
  BY <1>1 DEF seedVars, Led, Leads, Started
<1>2. ASSUME NEW s \in Seeder, Start(s) \/ SeederStep(s) \/ Break(s) \/ Kill(s) \/ Land(s)
      PROVE  Led'
  <2>0. {"connect", "select", "insert", "end", "ok"} \subseteq Running \cup {"ok"} /\ SeedTypeOK
    BY DEF Running, SeedInv
  <2>1. CASE Start(s)
    <3>1. /\ state' \in [Seeder -> State] /\ state'[s] = "connect"
          /\ \A u \in Seeder : u # s => state'[u] = state[u]
      BY <2>0, <2>1, ToStep DEF Start, State, Running
    <3>2. state[s] = "idle" /\ UNCHANGED <<next, added, broken>>
      BY <2>1 DEF Start
    <3>3. \A t \in Seeder : Leads(t) => Leads(t)'
      BY <3>1, <3>2 DEF Leads, Running
    <3>4. added = {} => Leads(s)'
      BY <3>1, <3>2 DEF Leads, Running
    <3> QED
      BY <3>1, <3>2, <3>3, <3>4 DEF Led, Dangling
  <2>2. CASE Connect(s)
    BY <2>0, <2>2, KeepsLed DEF Connect
  <2>3. CASE Select(s)
    <3>1. CASE RowOf(s) \in stored
      <4>1. PICK new \in {"end", "select"} : To(s, new)
        BY <2>3, <3>1 DEF Select, Advance
      <4> QED
        BY <2>0, <2>3, <3>1, <4>1, KeepsLed DEF Select, Advance
    <3>2. CASE RowOf(s) \notin stored
      BY <2>0, <2>3, <3>2, KeepsLed DEF Select
    <3> QED
      BY <3>1, <3>2
  <2>4. CASE Insert(s)
    <3>0. state[s] = "insert" /\ UNCHANGED broken
      BY <2>4 DEF Insert
    <3>1. CASE Store(s) /\ Advance(s)
      <4>1. next[s] \in 1 .. Len(Walk)
        BY <3>0 DEF SeedInv, Placed, Walking, Dangling
      <4>2. \A u \in Seeder : state'[u] \in Dangling => u \in broken'
        BY <2>0, <3>0, <3>1, <4>1, AdvanceStep DEF Led, Dangling
      <4>3. Started # {}
        BY <3>0 DEF Started
      <4>4. \A t \in Seeder : Leads(t) => Leads(s)'
        BY <3>0, <3>1, StorerLeads
      <4> QED
        BY <3>0, <4>2, <4>3, <4>4 DEF Led
    <3>2. CASE RowOf(s) \in stored /\ To(s, "failed") /\ UNCHANGED <<stored, next, added>>
      <4>1. /\ state' \in [Seeder -> State] /\ state'[s] = "failed"
            /\ \A u \in Seeder : u # s => state'[u] = state[u]
        BY <2>0, <3>2, ToStep DEF State
      <4>2. \A u \in Seeder : state'[u] \in Dangling => u \in broken'
        BY <3>0, <4>1 DEF Led, Dangling
      <4>3. ASSUME NEW t \in Seeder, Leads(t)
            PROVE  Leads(t)'
        <5>1. t # s
          BY <3>0, <3>2, <4>3, LeaderIsNotRefused
        <5> QED
          BY <3>2, <4>1, <4>3, <5>1 DEF Leads
      <4>4. Started # {}
        BY <3>0 DEF Started
      <4> QED
        BY <3>0, <4>2, <4>3, <4>4 DEF Led
    <3> QED
      BY <2>4, <3>1, <3>2 DEF Insert
  <2>5. CASE End(s)
    BY <2>0, <2>5, KeepsLed DEF End
  <2>6. CASE Break(s) \/ Kill(s)
    <3>1. broken' = broken \cup {s} /\ \E new \in {"failed", "adrift", "cut", "killed"} : To(s, new)
      BY <2>6 DEF Break, Kill
    <3>2. \A u \in Seeder : u # s => state'[u] = state[u]
      BY <2>0, <3>1, ToStep DEF State, Dangling
    <3> QED
      BY <3>1, <3>2 DEF Led
  <2>7. CASE Land(s)
    <3>1. s \in broken /\ broken' = broken /\ \E new \in {"failed", "killed"} : To(s, new)
      BY <2>7 DEF Land, Led
    <3>2. state'[s] \notin Dangling /\ \A u \in Seeder : u # s => state'[u] = state[u]
      BY <2>0, <3>1, ToStep DEF State, Dangling
    <3> QED
      BY <3>1, <3>2 DEF Led
  <2> QED
    BY <1>2, <2>1, <2>2, <2>3, <2>4, <2>5, <2>6, <2>7 DEF SeederStep
<1>3. CASE AddCountry
  BY <1>3 DEF AddCountry, Led, Leads, Started
<1> QED
  BY <1>1, <1>2, <1>3 DEF SeedNext

(***************************************************************************)
(* Of the seeders that run together, none of them broken, one exits with 0 *)
(* (seed-pg.js:26-47: every run walks the rows in one order).              *)
(***************************************************************************)
THEOREM OneRunSucceeds == Spec => []SomeRunSucceeds
<1>1. Spec => [](SeedInv /\ Led)
  BY InitSeeds, NextSeeds, InitSeedInv, NextSeedInv, InitLed, NextLed, PTL DEF Spec
<1>2. Led => SomeRunSucceeds
  BY DEF Led, Leads, SomeRunSucceeds, Runners, Started
<1> QED
  BY <1>1, <1>2, PTL

----------------------------------------------------------------------------
(* A run on its own.                                                       *)

Alone ==
  /\ alone \subseteq Started
  /\ \A s \in alone : s \in Runners => Runners = {s}
  /\ \A s \in alone : state[s] = "insert" => RowOf(s) \notin stored
  /\ \A s \in alone \ broken : state[s] # "failed"

(***************************************************************************)
(* A step of a seeder that has started touches only its own state, and a   *)
(* seeder on its own is the only one that can take one.                    *)
(***************************************************************************)
LEMMA StepsAlone ==
  ASSUME SeedInv, Alone, NEW s \in Seeder, s \in Runners, NEW new \in State \ {"idle"},
         To(s, new), UNCHANGED alone, broken \subseteq broken',
         s \in alone /\ new = "insert" => RowOf(s)' \notin stored',
         s \in alone /\ new = "failed" => s \in broken'
  PROVE  Alone'
<1>1. state' \in [Seeder -> State] /\ state'[s] = new /\ \A u \in Seeder : u # s => state'[u] = state[u]
  BY ToStep DEF SeedInv
<1>2. alone' \subseteq Started'
  BY <1>1 DEF Alone, Started
<1>3. ASSUME NEW u \in alone', u \in Runners'
      PROVE  Runners' = {u}
  <2>1. u \in Runners /\ Runners' \subseteq Runners
    BY <1>1, <1>3 DEF Runners
  <2>2. Runners = {u}
    BY <1>3, <2>1 DEF Alone
  <2> QED
    BY <1>3, <2>1, <2>2
<1>4. ASSUME NEW u \in alone', u # s
      PROVE  /\ state'[u] # "insert"
             /\ u \notin broken' => state'[u] # "failed"
  <2>1. u \in Seeder /\ u \notin Runners
    BY <1>4 DEF Alone, Started
  <2> QED
    BY <1>1, <1>4, <2>1 DEF Alone, Runners, Running
<1> QED
  BY <1>1, <1>2, <1>3, <1>4 DEF Alone

LEMMA InitAlone == SeedInit => Alone
  BY DEF SeedInit, Alone

LEMMA NextAlone == SeedInv /\ Led /\ Alone /\ [SeedNext]_seedVars => Alone'
<1> SUFFICES ASSUME SeedInv, Led, Alone, [SeedNext]_seedVars
             PROVE  Alone'
  OBVIOUS
<1>1. CASE UNCHANGED seedVars
  BY <1>1 DEF seedVars, Alone, Started, Runners, RowOf
<1>2. ASSUME NEW s \in Seeder, Start(s) \/ SeederStep(s) \/ Break(s) \/ Kill(s) \/ Land(s)
      PROVE  Alone'
  <2>0. {"connect", "select", "insert", "end", "ok", "failed", "killed", "adrift", "cut"} \subseteq State \ {"idle"}
    BY DEF State, Running, Dangling
  <2>1. CASE Start(s)
    <3>1. /\ state' \in [Seeder -> State] /\ state'[s] = "connect"
          /\ \A u \in Seeder : u # s => state'[u] = state[u]
      BY <2>0, <2>1, ToStep DEF Start, SeedInv
    <3>2. state[s] = "idle" /\ s \notin alone /\ UNCHANGED <<stored, next, broken>>
      BY <2>1 DEF Start, Alone, Started
    <3>3. Runners' = Runners \cup {s} /\ s \notin Runners
      BY <3>1, <3>2 DEF Runners, Running, Dangling
    <3>4. alone' = IF Runners = {} THEN alone \cup {s} ELSE alone \ Runners
      BY <2>1 DEF Start
    <3>5. Started' = Started \cup {s}
      BY <3>1 DEF Started
    <3>6. ASSUME NEW u \in alone', u # s
          PROVE  u \in alone /\ u \notin Runners' /\ state'[u] = state[u] /\ state[u] # "insert"
      <4>1. u \in alone /\ u \notin Runners /\ u \in Seeder
        BY <3>4, <3>6 DEF Alone, Started
      <4> QED
        BY <3>1, <3>3, <3>6, <4>1 DEF Runners, Running
    <3>7. alone' \subseteq Started'
      BY <3>4, <3>5 DEF Alone
    <3>8. s \in alone' => Runners' = {s}
      BY <3>2, <3>3, <3>4
    <3> QED
      BY <3>1, <3>2, <3>6, <3>7, <3>8 DEF Alone
  <2>2. CASE Connect(s)
    BY <2>0, <2>2, StepsAlone DEF Connect, Runners, Running
  <2>3. CASE Select(s)
    <3>1. s \in Runners /\ UNCHANGED <<stored, broken, alone>>
      BY <2>3 DEF Select, Runners, Running
    <3>2. CASE RowOf(s) \in stored
      <4>1. PICK new \in {"end", "select"} : To(s, new)
        BY <2>3, <3>2 DEF Select, Advance
      <4> QED
        BY <2>0, <3>1, <4>1, StepsAlone
    <3>3. CASE RowOf(s) \notin stored
      <4>1. To(s, "insert") /\ RowOf(s)' = RowOf(s)
        BY <2>3, <3>3 DEF Select, RowOf
      <4> QED
        BY <2>0, <3>1, <3>3, <4>1, StepsAlone
    <3> QED
      BY <3>2, <3>3
  <2>4. CASE Insert(s)
    <3>1. s \in Runners /\ UNCHANGED <<broken, alone>> /\ state[s] = "insert"
      BY <2>4 DEF Insert, Runners, Running
    <3>2. CASE Store(s) /\ Advance(s)
      <4>1. PICK new \in {"end", "select"} : To(s, new)
        BY <3>2 DEF Advance
      <4> QED
        BY <2>0, <3>1, <4>1, StepsAlone
    <3>3. CASE RowOf(s) \in stored /\ To(s, "failed")
      <4>1. s \notin alone
        BY <3>1, <3>3 DEF Alone
      <4> QED
        BY <2>0, <3>1, <3>3, <4>1, StepsAlone
    <3> QED
      BY <2>4, <3>2, <3>3 DEF Insert
  <2>5. CASE End(s)
    BY <2>0, <2>5, StepsAlone DEF End, Runners, Running
  <2>6. CASE Break(s)
    <3>1. PICK new \in {"failed", "cut"} : To(s, new)
      BY <2>6 DEF Break
    <3> QED
      BY <2>0, <2>6, <3>1, StepsAlone DEF Break, Runners
  <2>7. CASE Kill(s)
    <3>1. PICK new \in {"adrift", "killed"} : To(s, new)
      BY <2>7 DEF Kill
    <3> QED
      BY <2>0, <2>7, <3>1, StepsAlone DEF Kill, Runners
  <2>8. CASE Land(s)
    <3>1. PICK new \in {"failed", "killed"} : To(s, new)
      BY <2>8 DEF Land
    <3>2. s \in Runners /\ (s \in alone => s \in broken)
      BY <2>8 DEF Land, Runners, Alone, Led
    <3> QED
      BY <2>0, <2>8, <3>1, <3>2, StepsAlone DEF Land
  <2> QED
    BY <1>2, <2>1, <2>2, <2>3, <2>4, <2>5, <2>6, <2>7, <2>8 DEF SeederStep
<1>3. CASE AddCountry
  <2>1. /\ UNCHANGED <<state, next, broken, alone>>
        /\ \A s \in Seeder : state[s] = "insert" /\ RowOf(s) \notin stored => RowOf(s)' \notin stored'
    <3>1. \A s \in Seeder : RowOf(s)' = RowOf(s) /\ (state[s] = "insert" => RowOf(s) \in Row)
      BY <1>3, AddCountryStep, RowFacts DEF RowOf, SeedInv, Placed, Walking
    <3> QED
      BY <1>3, <3>1, AddCountryStep
  <2> QED
    BY <2>1 DEF Alone, Started, Runners
<1> QED
  BY <1>1, <1>2, <1>3 DEF SeedNext

(***************************************************************************)
(* A seeder that nobody runs beside and that meets no failure does not     *)
(* fail, whatever an interrupted one has left (seed-pg.js:26-47).          *)
(***************************************************************************)
THEOREM RerunsMend == Spec => []RerunMends
<1>1. Spec => [](SeedInv /\ Led /\ Alone)
  BY InitSeeds, NextSeeds, InitSeedInv, NextSeedInv, InitLed, NextLed, InitAlone, NextAlone, PTL DEF Spec
<1>2. Alone => RerunMends
  BY DEF Alone, RerunMends
<1> QED
  BY <1>1, <1>2, PTL

----------------------------------------------------------------------------
(* The country list.                                                       *)

LEMMA FiniteCountries ==
  /\ \A S \in SUBSET Country : IsFiniteSet(S) /\ Cardinality(S) \in Nat
  /\ \A S, T \in SUBSET Country : S \subseteq T => Cardinality(S) <= Cardinality(T)
<1> DEFINE f == [i \in 1 .. Len(Countries) |-> Countries[i]]
<1>1. f \in Surjection(1 .. Len(Countries), RowsOf(Countries))
  BY WalkIsSeq DEF RowsOf, Surjection
<1>2. IsFiniteSet(1 .. Len(Countries))
  BY WalkIsSeq, FS_Interval
<1>3. IsFiniteSet(RowsOf(Countries))
  BY <1>1, <1>2, FS_Surjection
<1>4. IsFiniteSet(Country)
  BY <1>3, SeedAssumption, FS_Union DEF Country
<1>5. \A S \in SUBSET Country : IsFiniteSet(S)
  BY <1>4, FS_Subset
<1> QED
  BY <1>5, FS_Subset, FS_CardinalityType

LEMMA QueryErrorAnswered ==
  ASSUME NEW e \in DbErrors
  PROVE  ErrorMiddleware(e) \in AnswerSet /\ ErrorMiddleware(e) # OkAnswer
<1>1. e.app = FALSE /\ ErrorMiddleware(e).statusCode # 200
  BY DEF DbErrors, CodedError, ErrorMiddleware, HandlePrismaError, IsPrismaError,
         HandleKnownPrismaError, IsKnownRequestError, KnownRequestCodes, ConflictError,
         IsPrismaValidationError, NotFoundError, ValidationError, InternalServerError,
         AppError, AppErrorWith, AnswerOf, Answer
<1>2. OkAnswer.statusCode = 200
  BY DEF OkAnswer, Answer
<1> QED
  BY <1>1, <1>2, LibraryErrorAnswered

(***************************************************************************)
(* What a request has read lies between what was stored when it came and   *)
(* what is stored now.                                                     *)
(***************************************************************************)
RowsInv(r) ==
  rows[r] # None =>
    /\ rows[r] \subseteq StoredCountries
    /\ wanted[r] = "all" => known[r] \subseteq rows[r]
    /\ wanted[r] \in known[r] => rows[r] = {wanted[r]}

TotalInv(r) ==
  total[r] # None =>
    total[r] >= Cardinality(known[r]) /\ total[r] <= Cardinality(StoredCountries)

ReaderInv(r) ==
  /\ known[r] \subseteq stored
  /\ RowsInv(r) /\ TotalInv(r)
  /\ wanted[r] = None => rows[r] = None /\ total[r] = None /\ reply[r] = None
  /\ reply[r] = OkAnswer => rows[r] # None /\ (wanted[r] = "all" => total[r] # None)
  /\ r \in promised => RowsOf(Countries) \subseteq known[r]

ListInv == TypeOK /\ \A r \in Reader : ReaderInv(r)

LEMMA CountriesInRow == RowsOf(Countries) \subseteq Row /\ RowsOf(Countries) \subseteq Country
  BY DEF Row, Country

LEMMA InitListInv == Init => ListInv
<1> SUFFICES ASSUME Init
             PROVE  ListInv
  OBVIOUS
<1>1. SeedTypeOK
  BY InitSeedInv DEF Init, SeedInv
<1>2. TypeOK
  <2> DEFINE Some(S) == S \cup {None}
  <2>1. \A S : [r \in Reader |-> None] \in [Reader -> Some(S)]
    OBVIOUS
  <2>2. known \in [Reader -> SUBSET Country] /\ promised \subseteq Reader
    BY DEF Init
  <2> QED
    <3>1. wanted \in [Reader -> Country \cup {"all", NoCode} \cup {None}]
      BY <2>1 DEF Init
    <3>2. rows \in [Reader -> (SUBSET Country) \cup {None}]
      BY <2>1 DEF Init
    <3>3. total \in [Reader -> Nat \cup {None}] /\ reply \in [Reader -> AnswerSet \cup {None}]
      BY <2>1 DEF Init
    <3> QED
      BY <1>1, <2>2, <3>1, <3>2, <3>3 DEF TypeOK
<1>3. None # OkAnswer
  BY ReaderAssumption, OkAnswerType
<1> QED
  BY <1>2, <1>3 DEF Init, ListInv, ReaderInv, RowsInv, TotalInv

(***************************************************************************)
(* A seeder only adds rows.                                                *)
(***************************************************************************)
LEMMA SeedersOnlyAdd == [SeedNext]_seedVars => stored \subseteq stored'
  BY DEF SeedNext, seedVars, Start, SeederStep, Connect, Select, Insert, End, Break, Kill, Land, Store, AddCountry

LEMMA SeedListInv ==
  ASSUME ListInv, SeedTypeOK', stored \subseteq stored', UNCHANGED readerVars
  PROVE  ListInv'
<1>1. TypeOK'
  BY DEF ListInv, TypeOK, readerVars
<1>2. /\ StoredCountries \subseteq StoredCountries' /\ StoredCountries \in SUBSET Country
      /\ StoredCountries' \in SUBSET Country
  BY DEF StoredCountries
<1>3. /\ Cardinality(StoredCountries) <= Cardinality(StoredCountries')
      /\ Cardinality(StoredCountries) \in Nat /\ Cardinality(StoredCountries') \in Nat
  BY <1>2, FiniteCountries
<1>4. ASSUME NEW r \in Reader
      PROVE  ReaderInv(r)'
  <2>1. RowsInv(r)'
    BY <1>2 DEF ListInv, ReaderInv, RowsInv, readerVars
  <2>2. Cardinality(known[r]) \in Nat /\ (total[r] # None => total[r] \in Nat)
    BY FiniteCountries DEF ListInv, TypeOK
  <2>3. TotalInv(r)'
    BY <1>3, <2>2 DEF ListInv, ReaderInv, TotalInv, readerVars
  <2> QED
    BY <2>1, <2>3 DEF ListInv, ReaderInv, readerVars
<1> QED
  BY <1>1, <1>4 DEF ListInv

(***************************************************************************)
(* A step of one request leaves the others as they were.                   *)
(***************************************************************************)
LEMMA OtherReaders ==
  ASSUME ListInv, NEW r \in Reader, UNCHANGED stored,
         UNCHANGED <<wanted[r], rows[r], total[r], reply[r], known[r]>>,
         r \in promised' => r \in promised
  PROVE  ReaderInv(r)'
  BY DEF ListInv, ReaderInv, RowsInv, TotalInv, StoredCountries

LEMMA NextListInv == SeedInv /\ ListInv /\ [Next]_vars => ListInv'
<1> SUFFICES ASSUME SeedInv, ListInv, [Next]_vars
             PROVE  ListInv'
  OBVIOUS
<1>0. SeedTypeOK' /\ stored \subseteq stored'
  BY NextSeeds, NextSeedInv, SeedersOnlyAdd DEF SeedInv
<1>1. CASE UNCHANGED vars \/ (SeedNext /\ UNCHANGED readerVars)
  BY <1>0, <1>1, SeedListInv DEF vars
<1>2. ASSUME NEW r \in Reader, Arrive(r) \/ Read(r)
      PROVE  ListInv'
  <2>0. /\ None # OkAnswer /\ OkAnswer \in AnswerSet /\ StoredCountries \subseteq Country
        /\ wanted \in [Reader -> Country \cup {"all", NoCode, None}]
        /\ rows \in [Reader -> (SUBSET Country) \cup {None}]
        /\ total \in [Reader -> Nat \cup {None}]
        /\ reply \in [Reader -> AnswerSet \cup {None}]
        /\ known \in [Reader -> SUBSET Country]
        /\ promised \subseteq Reader
        /\ ReaderInv(r)
    BY ReaderAssumption, OkAnswerType DEF ListInv, TypeOK, StoredCountries
  <2>1. CASE Arrive(r)
    <3>1. /\ wanted' \in [Reader -> Country \cup {"all", NoCode, None}]
          /\ known' \in [Reader -> SUBSET Country] /\ known'[r] = StoredCountries
          /\ promised' \subseteq Reader
          /\ UNCHANGED <<stored, rows, total, reply>>
          /\ \A q \in Reader : q # r => wanted'[q] = wanted[q] /\ known'[q] = known[q]
          /\ \A q \in Reader : q # r => (q \in promised' => q \in promised)
      BY <2>0, <2>1 DEF Arrive, seedVars
    <3>2. TypeOK'
      BY <1>0, <2>0, <3>1 DEF TypeOK
    <3>3. rows[r] = None /\ total[r] = None /\ reply[r] = None
      BY <2>0, <2>1 DEF Arrive, ReaderInv
    <3>4. r \in promised' => RowsOf(Countries) \subseteq known'[r]
      <4>1. CASE \E s \in Seeder : state[s] = "ok"
        <5>1. Row \subseteq stored
          BY <4>1, SeedInvImplies DEF SuccessMeansSeeded
        <5> QED
          BY <3>1, <5>1, CountriesInRow DEF StoredCountries
      <4>2. CASE ~ \E s \in Seeder : state[s] = "ok"
        <5>1. promised' = promised
          BY <2>1, <4>2 DEF Arrive
        <5>2. r \in promised => RowsOf(Countries) \subseteq stored
          BY <2>0 DEF ReaderInv
        <5> QED
          BY <3>1, <5>1, <5>2, CountriesInRow DEF StoredCountries
      <4> QED
        BY <4>1, <4>2
    <3>5. ReaderInv(r)'
      BY <2>0, <3>1, <3>3, <3>4 DEF ReaderInv, RowsInv, TotalInv, StoredCountries
    <3>6. ASSUME NEW q \in Reader, q # r
          PROVE  ReaderInv(q)'
      <4>1. /\ UNCHANGED <<wanted[q], rows[q], total[q], reply[q], known[q]>>
            /\ q \in promised' => q \in promised
        BY <3>1, <3>6
      <4> QED
        BY <3>1, <4>1, OtherReaders
    <3> QED
      BY <3>2, <3>5, <3>6 DEF ListInv
  <2>2. CASE FindRows(r)
    <3>1. /\ rows' = [rows EXCEPT ![r] = Find(r)] /\ Waiting(r)
          /\ UNCHANGED <<stored, wanted, total, known, promised>>
          /\ \/ Return(r) /\ (wanted[r] = "all" => total[r] # None)
             \/ UNCHANGED reply
      BY <2>2 DEF FindRows, seedVars
    <3>2. /\ Find(r) \subseteq StoredCountries
          /\ wanted[r] = "all" => Find(r) = StoredCountries
          /\ wanted[r] \in known[r] => Find(r) = {wanted[r]}
      <4>1. known[r] \subseteq StoredCountries /\ "all" \notin known[r]
        BY <2>0, ReaderAssumption, CountriesInRow DEF ReaderInv, StoredCountries
      <4> QED
        BY <4>1 DEF Find
    <3>3. Find(r) # None
      BY <2>0, <3>2, ReaderAssumption, CountriesInRow
    <3>4. rows' \in [Reader -> (SUBSET Country) \cup {None}] /\ rows'[r] = Find(r)
          /\ \A q \in Reader : q # r => rows'[q] = rows[q]
      BY <2>0, <3>1, <3>2
    <3>5. reply' \in [Reader -> AnswerSet \cup {None}]
          /\ \A q \in Reader : q # r => reply'[q] = reply[q]
      BY <2>0, <3>1 DEF Return
    <3>6. TypeOK'
      BY <1>0, <2>0, <3>1, <3>4, <3>5 DEF TypeOK
    <3>7. known[r] \subseteq StoredCountries
      BY <2>0 DEF ReaderInv, StoredCountries
    <3>8. RowsInv(r)'
      BY <3>1, <3>2, <3>4, <3>7 DEF RowsInv, StoredCountries
    <3>9. reply'[r] = OkAnswer => (wanted[r] = "all" => total[r] # None)
      BY <2>0, <3>1 DEF Waiting
    <3>10. wanted[r] # None
      BY <3>1 DEF Waiting
    <3>11. ReaderInv(r)'
      BY <2>0, <3>1, <3>3, <3>4, <3>8, <3>9, <3>10 DEF ReaderInv, TotalInv, StoredCountries
    <3>12. \A q \in Reader : q # r => ReaderInv(q)'
      BY <3>1, <3>4, <3>5, OtherReaders
    <3> QED
      BY <3>6, <3>11, <3>12 DEF ListInv
  <2>3. CASE CountRows(r)
    <3>1. /\ total' = [total EXCEPT ![r] = Cardinality(StoredCountries)] /\ Waiting(r)
          /\ UNCHANGED <<stored, wanted, rows, known, promised>>
          /\ \/ Return(r) /\ rows[r] # None
             \/ UNCHANGED reply
      BY <2>3 DEF CountRows, seedVars
    <3>2. known[r] \subseteq StoredCountries
      BY <2>0 DEF ReaderInv, StoredCountries
    <3>3. /\ Cardinality(StoredCountries) \in Nat
          /\ Cardinality(known[r]) <= Cardinality(StoredCountries)
      BY <2>0, <3>2, FiniteCountries
    <3>4. /\ total' \in [Reader -> Nat \cup {None}] /\ total'[r] = Cardinality(StoredCountries)
          /\ \A q \in Reader : q # r => total'[q] = total[q]
      BY <2>0, <3>1, <3>3
    <3>5. reply' \in [Reader -> AnswerSet \cup {None}]
          /\ \A q \in Reader : q # r => reply'[q] = reply[q]
      BY <2>0, <3>1 DEF Return
    <3>6. TypeOK'
      BY <1>0, <2>0, <3>1, <3>4, <3>5 DEF TypeOK
    <3>7. TotalInv(r)' /\ total'[r] # None
      BY <2>0, <3>1, <3>3, <3>4, ReaderAssumption DEF TotalInv, StoredCountries
    <3>8. reply'[r] = OkAnswer => rows[r] # None
      BY <2>0, <3>1 DEF Waiting
    <3>9. wanted[r] # None
      BY <3>1 DEF Waiting
    <3>10. ReaderInv(r)'
      BY <2>0, <3>1, <3>7, <3>8, <3>9 DEF ReaderInv, RowsInv, StoredCountries
    <3>11. \A q \in Reader : q # r => ReaderInv(q)'
      BY <3>1, <3>4, <3>5, OtherReaders
    <3> QED
      BY <3>6, <3>10, <3>11 DEF ListInv
  <2>4. CASE QueryFails(r)
    <3>1. PICK e \in DbErrors : reply' = [reply EXCEPT ![r] = ErrorMiddleware(e)]
      BY <2>4 DEF QueryFails
    <3>2. UNCHANGED <<stored, wanted, rows, total, known, promised>> /\ wanted[r] # None
      BY <2>4 DEF QueryFails, Waiting, seedVars
    <3>3. /\ reply' \in [Reader -> AnswerSet \cup {None}] /\ reply'[r] # OkAnswer
          /\ \A q \in Reader : q # r => reply'[q] = reply[q]
      BY <2>0, <3>1, QueryErrorAnswered
    <3>4. TypeOK'
      BY <1>0, <2>0, <3>2, <3>3 DEF TypeOK
    <3>5. ReaderInv(r)'
      BY <2>0, <3>2, <3>3 DEF ReaderInv, RowsInv, TotalInv, StoredCountries
    <3>6. \A q \in Reader : q # r => ReaderInv(q)'
      BY <3>2, <3>3, OtherReaders
    <3> QED
      BY <3>4, <3>5, <3>6 DEF ListInv
  <2> QED
    BY <1>2, <2>1, <2>2, <2>3, <2>4 DEF Read
<1> QED
  BY <1>1, <1>2 DEF Next

LEMMA ListAlwaysHolds == Spec => [](SeedInv /\ ListInv)
  BY InitSeeds, NextSeeds, InitSeedInv, NextSeedInv, InitListInv, NextListInv, PTL DEF Spec

(***************************************************************************)
(* The types of the seeders' state and of the requests (seed-pg.js,        *)
(* country.service.ts).                                                    *)
(***************************************************************************)
THEOREM ListTypeCorrect == Spec => []TypeOK
<1>1. ListInv => TypeOK
  BY DEF ListInv
<1> QED
  BY <1>1, ListAlwaysHolds, PTL

(***************************************************************************)
(* A list and its total lie between what was stored when the request came  *)
(* and what is stored now (country.service.ts:22-28).                      *)
(***************************************************************************)
THEOREM ListsStayOfTheirTime == Spec => []ListIsOfItsTime
<1>1. ASSUME ListInv, NEW r \in Reader, Listed(r)
      PROVE  /\ known[r] \subseteq rows[r] /\ rows[r] \subseteq StoredCountries
             /\ total[r] \in Cardinality(known[r]) .. Cardinality(StoredCountries)
  <2>1. ReaderInv(r) /\ rows[r] # None /\ total[r] # None
    BY <1>1 DEF ListInv, ReaderInv, Listed
  <2>2. /\ Cardinality(known[r]) \in Nat /\ Cardinality(StoredCountries) \in Nat
        /\ total[r] \in Nat
    BY <1>1, <2>1, FiniteCountries DEF ListInv, TypeOK, StoredCountries
  <2> QED
    BY <1>1, <2>1, <2>2 DEF ReaderInv, RowsInv, TotalInv, Listed
<1>2. ListInv => ListIsOfItsTime
  BY <1>1 DEF ListIsOfItsTime
<1> QED
  BY <1>2, ListAlwaysHolds, PTL

(***************************************************************************)
(* After some seeder's exit with 0 every list has the countries of the     *)
(* file, whatever else the table holds, its total counts them, and each is *)
(* found by its code (country.service.ts:22-36).                           *)
(***************************************************************************)
THEOREM SeededListsStayComplete == Spec => []SeededListIsComplete
<1>1. ASSUME ListInv, NEW r \in promised
      PROVE  /\ Listed(r) => /\ RowsOf(Countries) \subseteq rows[r]
                             /\ Cardinality(RowsOf(Countries)) <= total[r]
             /\ reply[r] = OkAnswer /\ wanted[r] \in RowsOf(Countries) => rows[r] = {wanted[r]}
  <2>1. r \in Reader /\ ReaderInv(r) /\ RowsOf(Countries) \subseteq known[r] /\ known[r] \in SUBSET Country
    BY <1>1 DEF ListInv, TypeOK, ReaderInv
  <2>2. /\ Cardinality(RowsOf(Countries)) \in Nat /\ Cardinality(known[r]) \in Nat
        /\ Cardinality(RowsOf(Countries)) <= Cardinality(known[r])
    BY <2>1, FiniteCountries, CountriesInRow
  <2>3. ASSUME Listed(r)
        PROVE  /\ RowsOf(Countries) \subseteq rows[r]
               /\ Cardinality(RowsOf(Countries)) <= total[r]
    <3>1. rows[r] # None /\ total[r] # None /\ wanted[r] = "all"
      BY <2>1, <2>3 DEF ReaderInv, Listed
    <3>2. total[r] \in Nat
      BY <1>1, <2>1, <3>1 DEF ListInv, TypeOK
    <3> QED
      BY <2>1, <2>2, <3>1, <3>2 DEF ReaderInv, RowsInv, TotalInv
  <2> QED
    BY <2>1, <2>3 DEF ReaderInv, RowsInv
<1>2. ListInv => SeededListIsComplete
  BY <1>1 DEF SeededListIsComplete
<1> QED
  BY <1>2, ListAlwaysHolds, PTL

=============================================================================
