--------------------------- MODULE MatchingProofs ---------------------------
(* Proofs about Matching and Scoring, for every catalogue and any number of offers. *)
EXTENDS Matching, FiniteSetTheorems, TLAPS

-----------------------------------------------------------------------------
(* Extremes and quotients *)

LEMMA MinNat ==
    ASSUME NEW S \in SUBSET Nat, S # {}
    PROVE  Min(S) \in S /\ \A y \in S : Min(S) <= y
<1>1. PICK x \in S : \A y \in S : ~ (<<y, x>> \in OpToRel(<, Nat))
  BY NatLessThanWellFounded, WFMin
<1>2. ASSUME NEW y \in S PROVE x <= y
  <2>1. x \in Nat /\ y \in Nat
    OBVIOUS
  <2>2. y < x => <<y, x>> \in OpToRel(<, Nat)
    BY <2>1 DEF OpToRel
  <2>3. ~ (y < x)
    BY <1>1, <2>2
  <2> QED BY <2>1, <2>3
<1> QED BY <1>2 DEF Min

LEMMA MaxFinite ==
    ASSUME NEW S \in SUBSET Int, IsFiniteSet(S), S # {}
    PROVE  Max(S) \in S /\ \A y \in S : Max(S) >= y
<1> DEFINE Bound(T) == T # {} /\ \A x \in S : \E y \in T : x <= y
           Bounds == {T \in SUBSET S : Bound(T)}
           sizes == {Cardinality(T) : T \in Bounds}
<1>1. S \in Bounds
  OBVIOUS
<1>2. \A T \in Bounds : IsFiniteSet(T) /\ Cardinality(T) \in Nat
  BY FS_Subset, FS_CardinalityType
<1>3. PICK T \in Bounds : \A U \in Bounds : Cardinality(T) <= Cardinality(U)
  <2>1. sizes \in SUBSET Nat /\ sizes # {}
    BY <1>1, <1>2
  <2>2. PICK n \in sizes : \A k \in sizes : n <= k
    <3> HIDE DEF sizes
    <3> QED BY <2>1, MinNat
  <2> QED BY <2>2
<1>4. PICK m \in T : TRUE
  OBVIOUS
<1>5. ASSUME NEW y \in S PROVE m >= y
  <2>1. SUFFICES ASSUME ~ m >= y PROVE FALSE
    OBVIOUS
  <2> DEFINE U == T \ {m}
  <2>2. PICK z \in T : y <= z
    OBVIOUS
  <2>3. z \in U /\ m <= z
    BY <2>1, <2>2
  <2>4. \A x \in S : \E w \in U : x <= w
    <3> SUFFICES ASSUME NEW x \in S PROVE \E w \in U : x <= w
      OBVIOUS
    <3>1. PICK w \in T : x <= w
      OBVIOUS
    <3> QED BY <2>3, <3>1
  <2>5. U \in Bounds
    BY <2>3, <2>4
  <2>6. Cardinality(U) = Cardinality(T) - 1
    BY <1>2, <1>4, FS_RemoveElement
  <2> HIDE DEF U, Bounds
  <2> QED BY <1>2, <1>3, <2>5, <2>6
<1> QED BY <1>4, <1>5 DEF Max

LEMMA Pairs ==
    ASSUME NEW a \in Int, NEW b \in Int
    PROVE  /\ Min({a, b}) = IF a <= b THEN a ELSE b
           /\ Max({a, b}) = IF a >= b THEN a ELSE b
<1> DEFINE lo == IF a <= b THEN a ELSE b
           hi == IF a >= b THEN a ELSE b
<1>1. lo \in {a, b} /\ (\A y \in {a, b} : lo <= y)
      /\ \A x \in {a, b} : (\A y \in {a, b} : x <= y) => x = lo
  OBVIOUS
<1>2. hi \in {a, b} /\ (\A y \in {a, b} : hi >= y)
      /\ \A x \in {a, b} : (\A y \in {a, b} : x >= y) => x = hi
  OBVIOUS
<1> QED BY <1>1, <1>2 DEF Min, Max

LEMMA AtLeastOne ==
    ASSUME NEW c \in Nat
    PROVE  Max({1, c}) \in Nat \ {0} /\ (c > 0 => Max({1, c}) = c)
<1>1. Max({1, c}) = IF 1 >= c THEN 1 ELSE c
  BY Pairs
<1> QED BY <1>1

LEMMA Division ==
    ASSUME NEW a \in Int, NEW b \in Nat \ {0}
    PROVE  a \div b \in Int /\ b * (a \div b) <= a /\ a < b * (a \div b) + b
OBVIOUS

LEMMA Quotient ==
    ASSUME NEW a \in Int, NEW b \in Nat \ {0}, NEW q \in Int, b * q <= a, a < b * q + b
    PROVE  a \div b = q
OBVIOUS

LEMMA DivisionGrows ==
    ASSUME NEW a \in Int, NEW c \in Int, NEW b \in Nat \ {0}, a <= c
    PROVE  a \div b <= c \div b
OBVIOUS

-----------------------------------------------------------------------------
(* What is stored *)

\* The requirements read from a row, whatever its weights are.
LEMMA AnfFields ==
    ASSUME NEW row, PostingOK(row)
    PROVE  LET anf == AnforderungVon(row) IN
           /\ anf.bereiche = row.bereiche /\ anf.berufe = row.berufe
           /\ anf.ausbildungMin = row.ausbildungMin /\ anf.aufgaben = row.aufgaben
           /\ anf.aufgabenMin = row.aufgabenMin /\ anf.erfahrungMin = row.erfahrungMin
           /\ anf.erfahrungMax = row.erfahrungMax /\ anf.montageMin = row.montageMin
           /\ anf.fuehrerscheinMin = row.fuehrerscheinMin /\ anf.deutschMin = row.deutschMin
           /\ anf.gebotenes = row.gebotenes /\ anf.startBis = row.startBis
           /\ anf.gewichte = PruefeGewichte(row.gewichte)
BY DEF PostingOK, AnforderungVon

\* Weights of any kind become absent or a number from 0 to 5.
LEMMA WeightsChecked == ASSUME NEW roh PROVE PruefeGewichte(roh) \in [Keys -> Optional(0..5)]
<1>1. \A x \in Int : Clamp(0, 5, x) \in 0..5
  BY DEF Clamp
<1>2. \A x \in Int : (x + 5) \div 10 \in Int
  OBVIOUS
<1>3. \A x \in Int : Clamp(0, 5, (x + 5) \div 10) \in 0..5
  BY <1>1, <1>2
<1> QED BY <1>3 DEF PruefeGewichte, Optional

\* All that the score needs to know of requirements.
AnfOK(anf) ==
    /\ anf.bereiche \in SUBSET Bereiche /\ anf.berufe \in SUBSET Berufe
    /\ anf.ausbildungMin \in Optional(Ausbildungsstatus)
    /\ anf.aufgaben \in SUBSET Aufgaben /\ anf.aufgabenMin \in Nat
    /\ anf.erfahrungMin \in Optional(Erfahrung) /\ anf.erfahrungMax \in Optional(Erfahrung)
    /\ ~Below(anf.erfahrungMax, anf.erfahrungMin)
    /\ anf.montageMin \in Optional(Montage)
    /\ anf.fuehrerscheinMin \in Optional(Fuehrerschein)
    /\ anf.deutschMin \in Optional(Deutsch) /\ anf.gebotenes \in SUBSET Wuensche
    /\ anf.startBis \in Optional(Start) /\ anf.gewichte \in [Keys -> Optional(0..5)]

LEMMA AnfIsOK == ASSUME NEW row, PostingOK(row) PROVE AnfOK(AnforderungVon(row))
BY AnfFields, WeightsChecked DEF PostingOK, AnfOK

LEMMA StufeType == ASSUME NEW jahre PROVE Stufe(jahre) \in Erfahrung
<1> DEFINE all == {0, 2, 5, 10}
           S == {grenze \in all : jahre > grenze}
<1>1. all = (({0} \cup {2}) \cup {5}) \cup {10}
  OBVIOUS
<1>2. IsFiniteSet({0}) /\ Cardinality({0}) = 1
  BY FS_Singleton
<1>3. IsFiniteSet({0} \cup {2}) /\ Cardinality({0} \cup {2}) = 2
  BY <1>2, FS_AddElement
<1>4. IsFiniteSet({0} \cup {2} \cup {5}) /\ Cardinality({0} \cup {2} \cup {5}) = 3
  BY <1>3, FS_AddElement
<1>5. IsFiniteSet(all) /\ Cardinality(all) = 4
  BY <1>1, <1>4, FS_AddElement
<1>6. IsFiniteSet(S) /\ Cardinality(S) <= 4 /\ S \in SUBSET all
  BY <1>5, FS_Subset
<1>7. Cardinality(S) \in Nat
  BY <1>6, FS_CardinalityType
<1>8. Stufe(jahre) = Cardinality(S)
  BY DEF Stufe
<1> HIDE DEF S
<1> QED BY <1>6, <1>7, <1>8 DEF Erfahrung

LEMMA ProfileIsOK == ASSUME NEW pd, DataOK(pd) PROVE ExtractProfile(pd) \in Profil
<1>1. Leer \in Profil
  BY DEF Leer, Profil, Optional
<1>2. CASE pd.profil = None /\ pd.schritt = None /\ pd.alt # None
  <2>1. AltesProfil(pd.alt) \in Profil
    BY <1>2, StufeType
       DEF DataOK, AltOK, AltesProfil, Profil, Optional, Ausbildungsstatus, Montage,
           Fuehrerschein
  <2> QED BY <1>2, <2>1 DEF ExtractProfile
<1>3. CASE ~(pd.profil = None /\ pd.schritt = None /\ pd.alt # None)
  BY <1>1, <1>3 DEF ExtractProfile, DataOK, Optional
<1> QED BY <1>2, <1>3

\* Whatever is sent, a row that is stored asks for no more than it lists.
LEMMA SaveIsOK ==
    ASSUME NEW dto \in Dtos, Katalogisiert(dto), NEW gewichte
    PROVE  PostingOK(SaveJobData(dto, gewichte))
<1> DEFINE row == SaveJobData(dto, gewichte)
           n == Cardinality(dto.aufgaben)
<1>1. dto.aufgaben \in SUBSET Aufgaben /\ n \in Nat
  BY ScoringAssumption, FS_Subset, FS_CardinalityType DEF Katalogisiert
<1>2. AufgabenMin(dto) \in Nat /\ AufgabenMin(dto) <= n
  BY <1>1, MatchingAssumption DEF AufgabenMin, Clamp
<1>3. LET spanne == Spanne(dto.erfahrungMin, dto.erfahrungMax) IN
      /\ spanne[1] \in Optional(Erfahrung) /\ spanne[2] \in Optional(Erfahrung)
      /\ ~Below(spanne[2], spanne[1])
  BY ScoringAssumption DEF Katalogisiert, Spanne, Below, Optional, Erfahrung
<1>4. SalaryMax(dto) \in Optional(Int)
  BY MatchingAssumption, Pairs DEF SalaryMax, Optional
<1>5. row.ort \in Optional(Int)
  BY MatchingAssumption DEF SaveJobData
<1> QED
  BY <1>1, <1>2, <1>3, <1>4, <1>5 DEF PostingOK, SaveJobData, Katalogisiert

LEMMA StoredInit == Init => StoredOK
BY SaveIsOK, MatchingAssumption DEF Init, StoredOK, OfferState, Optional

LEMMA StoredStep == StoredOK /\ [Next]_vars => StoredOK'
<1> SUFFICES ASSUME StoredOK, [Next]_vars PROVE StoredOK'
  OBVIOUS
<1> USE DEF StoredOK
<1>1. ASSUME NEW dto \in Dtos, SaveJob(dto) PROVE StoredOK'
  BY <1>1, SaveIsOK DEF SaveJob
<1>2. ASSUME NEW pd \in Data, UpdateProfile(pd) PROVE StoredOK'
  BY <1>2, MatchingAssumption DEF UpdateProfile
<1>3. ASSUME NEW read \in Data, NEW orte \in Ortslisten, SaveWorkLocations(read, orte)
      PROVE  StoredOK'
  <2>1. OrteOK(orte) /\ DataOK(read)
    BY MatchingAssumption
  <2> QED BY <1>3, <2>1 DEF SaveWorkLocations, DataOK
<1>4. ASSUME NEW offer \in Offers, NEW answer \in OfferState, RespondOffer(offer, answer)
      PROVE  StoredOK'
  BY <1>4 DEF RespondOffer
<1>5. ASSUME UNCHANGED vars PROVE StoredOK'
  BY <1>5 DEF vars
<1> QED BY <1>1, <1>2, <1>3, <1>4, <1>5 DEF Next, SaveJobRefused

LEMMA Invariance == Spec => []StoredOK
BY StoredInit, StoredStep, PTL DEF Spec

\* Requirements, profile and offers have their types: no input gets past the catalogue, and
\* whatever the weights of a seeded row are, they are read as absent or from 0 to 5.
THEOREM TypeCorrect == Spec => []TypeOK
<1>1. StoredOK => TypeOK
  <2> SUFFICES ASSUME StoredOK PROVE TypeOK
    OBVIOUS
  <2>1. AnfOK(Anf)
    BY AnfIsOK DEF StoredOK, Anf
  <2>2. Requirements \in Anforderung
    BY <2>1 DEF AnfOK, Requirements, Anforderung
  <2>3. Kandidat \in Profil
    BY ProfileIsOK DEF StoredOK, Kandidat
  <2> QED BY <2>2, <2>3 DEF TypeOK, StoredOK
<1> QED BY <1>1, Invariance, PTL

-----------------------------------------------------------------------------
(* The parts of the score *)

\* Kinds of work and wishes can be counted.
LEMMA Counts ==
    ASSUME NEW U, IsFiniteSet(U), NEW S \in SUBSET U, NEW T \in SUBSET S
    PROVE  /\ IsFiniteSet(S) /\ Cardinality(S) \in Nat /\ Cardinality(T) \in Nat
           /\ Cardinality(T) <= Cardinality(S)
           /\ S # {} => Cardinality(S) > 0
<1>1. IsFiniteSet(S) /\ IsFiniteSet(T) /\ Cardinality(T) <= Cardinality(S)
  BY FS_Subset
<1>2. Cardinality(S) \in Nat /\ Cardinality(T) \in Nat
  BY <1>1, FS_CardinalityType
<1>3. S # {} => Cardinality(S) # 0
  BY <1>1, FS_EmptySet
<1> QED BY <1>1, <1>2, <1>3

\* What is missing in experience, without the minima.
LEMMA ErfahrungTenths ==
    ASSUME NEW anf, AnfOK(anf), NEW k \in Profil, k.erfahrung # None
    PROVE  LET von == anf.erfahrungMin
               bis == anf.erfahrungMax
               e == k.erfahrung
           IN  /\ ErfahrungFehlt(anf, k) \in 0..10
               /\ ErfahrungFehlt(anf, k) =
                      IF von # None /\ e < von THEN IF 5 * (von - e) >= 10 THEN 10 ELSE 5
                      ELSE IF bis # None /\ bis < e THEN IF e - bis >= 3 THEN 3 ELSE e - bis
                      ELSE 0
<1> DEFINE von == anf.erfahrungMin
           bis == anf.erfahrungMax
           e == k.erfahrung
<1>1. e \in 0..4 /\ von \in 0..4 \cup {None} /\ bis \in 0..4 \cup {None}
  BY DEF AnfOK, Profil, Optional, Erfahrung
<1>2. None \notin Int
  BY ScoringAssumption
<1>3. ErfahrungFehlt(anf, k) =
          IF von # None /\ e < von THEN Min({10, 5 * (von - e)})
          ELSE IF bis # None /\ bis < e THEN Min({3, e - bis}) ELSE 0
  BY <1>1, <1>2 DEF ErfahrungFehlt, Below
<1> HIDE DEF von, bis, e
<1>4. CASE von # None /\ e < von
  <2>1. von - e \in 1..4 /\ 5 * (von - e) \in Int
    BY <1>1, <1>4
  <2>2. Min({10, 5 * (von - e)}) = IF 10 <= 5 * (von - e) THEN 10 ELSE 5 * (von - e)
    BY <2>1, Pairs
  <2> QED BY <1>3, <1>4, <2>1, <2>2 DEF von, bis, e
<1>5. CASE ~(von # None /\ e < von) /\ bis # None /\ bis < e
  <2>1. e - bis \in 1..4
    BY <1>1, <1>5
  <2>2. Min({3, e - bis}) = IF 3 <= e - bis THEN 3 ELSE e - bis
    BY <2>1, Pairs
  <2> QED BY <1>3, <1>5, <2>1, <2>2 DEF von, bis, e
<1>6. CASE ~(von # None /\ e < von) /\ ~(bis # None /\ bis < e)
  BY <1>3, <1>6 DEF von, bis, e
<1> QED BY <1>4, <1>5, <1>6

\* A criterion that applies misses a fraction from 0 to 1.
LEMMA FehltIsFraction ==
    ASSUME NEW anf, AnfOK(anf), NEW k \in Profil, NEW key \in Keys, Anwendbar(anf, k, key)
    PROVE  LET f == Fehlt(anf, k, key) IN
           f[1] \in Nat /\ f[2] \in Nat \ {0} /\ f[1] <= f[2]
<1> USE DEF AnfOK, Profil
<1>1. CASE key = "aufgaben"
  BY <1>1, Counts, ScoringAssumption DEF Fehlt, Anwendbar
<1>2. CASE key = "erfahrung"
  BY <1>2, ErfahrungTenths DEF Fehlt, Anwendbar
<1>3. CASE key = "beruf"
  BY <1>3 DEF Fehlt, BerufFehlt
<1>4. CASE key = "prioritaeten"
  BY <1>4, Counts, ScoringAssumption DEF Fehlt, Anwendbar
<1>5. CASE key = "fuehrerschein"
  BY <1>5 DEF Fehlt, FuehrerscheinFehlt
<1>6. CASE key = "start"
  <2>1. StartFehlt(anf, k) \in 0..10
    BY <1>6, ScoringAssumption DEF Anwendbar, StartFehlt, Clamp, Optional, Start
  <2> QED BY <1>6, <2>1 DEF Fehlt
<1> QED BY <1>1, <1>2, <1>3, <1>4, <1>5, <1>6 DEF Keys

LEMMA WeightType ==
    ASSUME NEW anf, AnfOK(anf), NEW key \in Keys
    PROVE  Gewicht(anf, key) \in 0..5
BY ScoringAssumption DEF AnfOK, Gewicht, STANDARD_GEWICHTE, Keys, Optional

\* Rounding moves a fraction by at most a half, and nothing over the next whole number.
LEMMA RoundedNear ==
    ASSUME NEW a \in Nat, NEW b \in Nat \ {0}
    PROVE  /\ Rounded(a, b) \in Nat
           /\ 2 * b * Rounded(a, b) <= 2 * a + b /\ 2 * a < 2 * b * Rounded(a, b) + b
<1> DEFINE c == 2 * b
           d == 2 * a + b
<1>1. c \in Nat \ {0} /\ d \in Int /\ Rounded(a, b) = d \div c
  BY DEF Rounded
<1>2. d \div c \in Int /\ c * (d \div c) <= d /\ d < c * (d \div c) + c
  <2> HIDE DEF c, d
  <2> QED BY <1>1, Division
<1>3. d \div c >= 0
  <2>1. d >= 0
    OBVIOUS
  <2> HIDE DEF c, d
  <2> QED BY <1>1, <2>1
<1> QED BY <1>1, <1>2, <1>3

LEMMA RoundedBelow ==
    ASSUME NEW w \in Nat, NEW a \in Nat, NEW b \in Nat \ {0}, a <= b
    PROVE  Rounded(100 * w * a, b) <= 100 * w
<1> DEFINE c == 100 * w
           p == Rounded(c * a, b)
<1>1. c \in Nat /\ c * a \in Nat /\ c * a <= c * b
  OBVIOUS
<1> HIDE DEF c
<1>2. p \in Nat /\ 2 * b * p <= 2 * (c * a) + b
  BY <1>1, RoundedNear
<1>3. 2 * b * p < 2 * b * (c + 1)
  BY <1>1, <1>2
<1>4. p < c + 1
  BY <1>1, <1>2, <1>3
<1> QED BY <1>1, <1>2, <1>4 DEF c

LEMMA PenaltyType ==
    ASSUME NEW anf, AnfOK(anf), NEW k \in Profil, NEW key \in Keys, Anwendbar(anf, k, key)
    PROVE  Penalty(anf, k, key) \in 0..100 * Gewicht(anf, key)
<1> DEFINE f == Fehlt(anf, k, key)
           w == Gewicht(anf, key)
<1>1. f[1] \in Nat /\ f[2] \in Nat \ {0} /\ f[1] <= f[2] /\ w \in Nat
  BY FehltIsFraction, WeightType
<1>2. Penalty(anf, k, key) = Rounded(100 * w * f[1], f[2])
  BY DEF Penalty
<1> HIDE DEF f, w
<1>3. 100 * w * f[1] \in Nat
  BY <1>1
<1>4. Rounded(100 * w * f[1], f[2]) \in Nat /\ Rounded(100 * w * f[1], f[2]) <= 100 * w
  BY <1>1, <1>3, RoundedNear, RoundedBelow
<1> QED BY <1>1, <1>2, <1>4 DEF w

\* The six reasons for exclusion, one by one.
LEMMA AusschlussByKey ==
    ASSUME NEW anf, NEW k
    PROVE  LET out == Ausschluss(anf, k) IN
           /\ out \subseteq
                  {"bereich", "ausbildung", "aufgaben", "montage", "fuehrerschein", "deutsch"}
           /\ "bereich" \in out <=>
                  anf.bereiche # {} /\ k.bereich # None /\ k.bereich \notin anf.bereiche
           /\ "ausbildung" \in out <=> Below(k.ausbildungsstatus, anf.ausbildungMin)
           /\ "aufgaben" \in out <=>
                  Cardinality(Covered(anf, k)) < Min({anf.aufgabenMin, Cardinality(anf.aufgaben)})
           /\ "montage" \in out <=> Below(k.montage, anf.montageMin)
           /\ "fuehrerschein" \in out <=>
                  anf.fuehrerscheinMin # None /\ anf.fuehrerscheinMin > 0 /\ k.fuehrerschein = 0
           /\ "deutsch" \in out <=> Below(k.deutsch, anf.deutschMin)
BY DEF Ausschluss

\* The weights and the penalties that are added up.
Weighed(anf, k) == [key \in Keys |-> IF key \in Counted(anf, k) THEN Gewicht(anf, key) ELSE 0]
Taken(anf, k) == [key \in Keys |-> IF key \in Counted(anf, k) THEN Penalty(anf, k, key) ELSE 0]

LEMMA SummeType == ASSUME NEW f \in [Keys -> Nat] PROVE Summe(f) \in Nat
BY DEF Keys, Summe

LEMMA SummeGrows ==
    ASSUME NEW f \in [Keys -> Int], NEW g \in [Keys -> Int], \A key \in Keys : f[key] <= g[key]
    PROVE  Summe(f) <= Summe(g)
BY DEF Keys, Summe

LEMMA SummeIsNull ==
    ASSUME NEW f \in [Keys -> Nat]
    PROVE  Summe(f) = 0 <=> \A key \in Keys : f[key] = 0
BY DEF Keys, Summe

LEMMA SummeScales ==
    ASSUME NEW f \in [Keys -> Int], NEW c \in Int
    PROVE  Summe([key \in Keys |-> c * f[key]]) = c * Summe(f)
BY DEF Keys, Summe

LEMMA PartsType ==
    ASSUME NEW anf, AnfOK(anf), NEW k \in Profil
    PROVE  /\ Weighed(anf, k) \in [Keys -> 0..5] /\ Taken(anf, k) \in [Keys -> Nat]
           /\ \A key \in Keys : Taken(anf, k)[key] <= 100 * Weighed(anf, k)[key]
           /\ \A key \in Counted(anf, k) : Weighed(anf, k)[key] >= 1
           /\ TotalMaxPenalty(anf, k) = Summe(Weighed(anf, k))
           /\ TotalPenalty(anf, k) = Summe(Taken(anf, k))
<1>1. \A key \in Keys : Gewicht(anf, key) \in 0..5
  BY WeightType
<1>2. \A key \in Counted(anf, k) : Penalty(anf, k, key) \in 0..100 * Gewicht(anf, key)
  BY PenaltyType DEF Counted
<1>3. \A key \in Counted(anf, k) : key \in Keys /\ Gewicht(anf, key) > 0
  BY DEF Counted
<1> QED BY <1>1, <1>2, <1>3 DEF Weighed, Taken, TotalMaxPenalty, TotalPenalty

\* The total penalty is at most the largest one, which is 0 only if nothing counts.
LEMMA Totals ==
    ASSUME NEW anf, AnfOK(anf), NEW k \in Profil
    PROVE  /\ TotalMaxPenalty(anf, k) \in Nat /\ TotalPenalty(anf, k) \in Nat
           /\ TotalPenalty(anf, k) <= 100 * TotalMaxPenalty(anf, k)
           /\ TotalMaxPenalty(anf, k) = 0 <=> Counted(anf, k) = {}
<1> DEFINE w == Weighed(anf, k)
           t == Taken(anf, k)
           hundred == [key \in Keys |-> 100 * w[key]]
<1>1. /\ w \in [Keys -> 0..5] /\ t \in [Keys -> Nat]
      /\ \A key \in Keys : t[key] <= 100 * w[key]
      /\ \A key \in Counted(anf, k) : w[key] >= 1
      /\ TotalMaxPenalty(anf, k) = Summe(w) /\ TotalPenalty(anf, k) = Summe(t)
  BY PartsType
<1>2. \A key \in Keys : key \notin Counted(anf, k) => w[key] = 0
  BY DEF Weighed
<1>3. Counted(anf, k) \subseteq Keys
  BY DEF Counted
<1> HIDE DEF w, t
<1>4. w \in [Keys -> Nat] /\ w \in [Keys -> Int]
  BY <1>1
<1>5. Summe(w) \in Nat /\ Summe(t) \in Nat
  BY <1>1, <1>4, SummeType
<1>6. Summe(t) <= Summe(hundred)
  <2>1. hundred \in [Keys -> Int] /\ t \in [Keys -> Int]
        /\ \A key \in Keys : t[key] <= hundred[key]
    BY <1>1
  <2> HIDE DEF hundred
  <2> QED BY <2>1, SummeGrows
<1>7. Summe(hundred) = 100 * Summe(w)
  BY <1>4, SummeScales
<1>8. Summe(w) = 0 <=> Counted(anf, k) = {}
  BY <1>1, <1>2, <1>3, <1>4, SummeIsNull
<1> QED BY <1>1, <1>5, <1>6, <1>7, <1>8

\* A share of at most 100 percent becomes points from 0 to 100, to within half a point.
LEMMA PointsNear ==
    ASSUME NEW a \in Nat, NEW b \in Nat \ {0}, a <= 100 * b, NEW down \in BOOLEAN
    PROVE  /\ Points(a, b, down) \in 0..100
           /\ 2 * (b * Points(a, b, down)) <= 2 * a + b
           /\ 2 * a <= 2 * (b * Points(a, b, down)) + b
           /\ a = 100 * b => Points(a, b, down) = 100
<1> DEFINE d == IF down THEN 1 ELSE 0
           u == 2 * a + b - d
           c == 2 * b
           q == u \div c
<1>1. d \in 0..1 /\ u \in Nat /\ c \in Nat \ {0} /\ Points(a, b, down) = q
  BY DEF Points
<1>2. q \in Int /\ c * q <= u /\ u < c * q + c
  <2> HIDE DEF u, c
  <2> QED BY <1>1, Division
<1>3. q >= 0
  <2> HIDE DEF u, c
  <2> QED BY <1>1
<1>4. q <= 100
  <2>1. u < c * 101
    BY <1>1
  <2> HIDE DEF q, u
  <2>2. c * q < c * 101
    BY <1>2, <1>1, <2>1
  <2> HIDE DEF c
  <2> QED BY <1>1, <1>2, <2>2
<1>5. a = 100 * b => q = 100
  <2> SUFFICES ASSUME a = 100 * b PROVE q = 100
    OBVIOUS
  <2>1. c * 100 <= u /\ u < c * 100 + c
    BY <1>1
  <2> HIDE DEF u, c
  <2> QED BY <1>1, <2>1, Quotient
<1>6. c * q = 2 * (b * q)
  <2> HIDE DEF q
  <2> QED BY <1>2
<1> HIDE DEF q
<1> QED BY <1>1, <1>2, <1>3, <1>4, <1>5, <1>6

\* The score is never clamped.
LEMMA BaseScoreValue ==
    ASSUME NEW anf, AnfOK(anf), NEW k \in Profil, NEW down \in BOOLEAN
    PROVE  LET W == TotalMaxPenalty(anf, k)
               score == BaseScore(anf, k, down)
           IN  /\ score \in 0..100
               /\ W = 0 => score = 100
               /\ W # 0 => score = Points(100 * W - TotalPenalty(anf, k), W, down)
<1> DEFINE W == TotalMaxPenalty(anf, k)
           a == 100 * W - TotalPenalty(anf, k)
<1>1. W \in Nat /\ a \in Nat /\ a <= 100 * W
  BY Totals
<1>2. W # 0 => Points(a, W, down) \in 0..100
  <2> HIDE DEF W, a
  <2> QED BY <1>1, PointsNear
<1>3. BaseScore(anf, k, down) = IF W = 0 THEN 100 ELSE Clamp(0, 100, Points(a, W, down))
  BY DEF BaseScore
<1> QED BY <1>2, <1>3 DEF Clamp

-----------------------------------------------------------------------------
(* Somebody fits *)

LEMMA IdealIsOK == ASSUME AnfOK(Anf) PROVE Ideal \in Profil
BY DEF AnfOK, Ideal, Profil, Optional, Ausbildungsstatus, Montage, Fuehrerschein, Deutsch, Start

LEMMA IdealPasses == ASSUME AnfOK(Anf) PROVE Ausschluss(Anf, Ideal) = {}
<1> DEFINE n == Cardinality(Anf.aufgaben)
<1>0. /\ Ideal.bereich = IF Anf.bereiche = {} THEN None ELSE CHOOSE b \in Anf.bereiche : TRUE
      /\ Ideal.ausbildungsstatus = 3 /\ Ideal.aufgaben = Anf.aufgaben /\ Ideal.montage = 3
      /\ Ideal.fuehrerschein = 3 /\ Ideal.deutsch = 3
  BY DEF Ideal
<1> USE ScoringAssumption DEF AnfOK
<1>1. "bereich" \notin Ausschluss(Anf, Ideal)
  <2>1. Anf.bereiche # {} => Ideal.bereich \in Anf.bereiche
    BY <1>0
  <2> QED BY <2>1, AusschlussByKey
<1>2. "ausbildung" \notin Ausschluss(Anf, Ideal)
  <2>1. ~Below(3, Anf.ausbildungMin)
    BY DEF Below, Optional, Ausbildungsstatus
  <2> QED BY <1>0, <2>1, AusschlussByKey
<1>3. "aufgaben" \notin Ausschluss(Anf, Ideal)
  <2>1. Covered(Anf, Ideal) = Anf.aufgaben
    BY <1>0 DEF Covered
  <2>2. n \in Nat
    BY Counts
  <2>3. Min({Anf.aufgabenMin, n}) = IF Anf.aufgabenMin <= n THEN Anf.aufgabenMin ELSE n
    BY <2>2, Pairs
  <2>4. ~(n < Min({Anf.aufgabenMin, n}))
    BY <2>2, <2>3
  <2> QED BY <2>1, <2>4, AusschlussByKey
<1>4. "montage" \notin Ausschluss(Anf, Ideal)
  <2>1. ~Below(3, Anf.montageMin)
    BY DEF Below, Optional, Montage
  <2> QED BY <1>0, <2>1, AusschlussByKey
<1>5. "fuehrerschein" \notin Ausschluss(Anf, Ideal)
  <2>1. Ideal.fuehrerschein # 0
    BY <1>0
  <2> QED BY <2>1, AusschlussByKey
<1>6. "deutsch" \notin Ausschluss(Anf, Ideal)
  <2>1. ~Below(3, Anf.deutschMin)
    BY DEF Below, Optional, Deutsch
  <2> QED BY <1>0, <2>1, AusschlussByKey
<1>7. Ausschluss(Anf, Ideal) \subseteq
          {"bereich", "ausbildung", "aufgaben", "montage", "fuehrerschein", "deutsch"}
  BY AusschlussByKey
<1> QED BY <1>1, <1>2, <1>3, <1>4, <1>5, <1>6, <1>7

LEMMA IdealMissesNothing ==
    ASSUME AnfOK(Anf), NEW key \in Keys, Anwendbar(Anf, Ideal, key)
    PROVE  Fehlt(Anf, Ideal, key)[1] = 0
<1> USE ScoringAssumption DEF AnfOK
<1>1. CASE key = "aufgaben"
  <2>1. Anf.aufgaben \ Ideal.aufgaben = {}
    BY DEF Ideal
  <2> QED BY <1>1, <2>1, FS_EmptySet DEF Fehlt
<1>2. CASE key = "erfahrung"
  <2>1. Ideal.erfahrung = IF Anf.erfahrungMin = None THEN Anf.erfahrungMax ELSE Anf.erfahrungMin
    BY DEF Ideal
  <2>2. ErfahrungFehlt(Anf, Ideal) = 0
    BY <2>1 DEF ErfahrungFehlt, Below, Optional, Erfahrung
  <2> QED BY <1>2, <2>2 DEF Fehlt
<1>3. CASE key = "beruf"
  <2>1. Anf.berufe # {}
    BY <1>3 DEF Anwendbar
  <2>2. Ideal.beruf \in Anf.berufe
    BY <2>1 DEF Ideal
  <2> QED BY <1>3, <2>2 DEF Fehlt, BerufFehlt
<1>4. CASE key = "prioritaeten"
  <2>1. Ideal.prioritaeten \ Anf.gebotenes = {}
    BY DEF Ideal
  <2> QED BY <1>4, <2>1, FS_EmptySet DEF Fehlt
<1>5. CASE key = "fuehrerschein"
  <2>1. Ideal.fuehrerschein = 3
    BY DEF Ideal
  <2>2. FuehrerscheinFehlt(Anf, Ideal) = 0
    BY <1>5, <2>1 DEF FuehrerscheinFehlt, Anwendbar, Optional, Fuehrerschein
  <2> QED BY <1>5, <2>2 DEF Fehlt
<1>6. CASE key = "start"
  <2>1. Ideal.start = 0 /\ Anf.startBis \in Start
    BY <1>6 DEF Ideal, Anwendbar, Optional
  <2>2. StartFehlt(Anf, Ideal) = 0
    BY <2>1 DEF StartFehlt, Clamp, Start
  <2> QED BY <1>6, <2>2 DEF Fehlt
<1> QED BY <1>1, <1>2, <1>3, <1>4, <1>5, <1>6 DEF Keys

LEMMA RoundedNull == ASSUME NEW b \in Nat \ {0} PROVE Rounded(0, b) = 0
<1> DEFINE c == 2 * b
<1>1. c \in Nat \ {0} /\ c * 0 <= b /\ b < c * 0 + c /\ 2 * 0 + b = b
  OBVIOUS
<1>2. b \div c = 0
  <2> HIDE DEF c
  <2> QED BY <1>1, Quotient
<1> QED BY <1>1, <1>2 DEF Rounded

\* No posting is stored that nobody can fulfil: whoever has what it asks for passes every
\* exclusion and reaches 100, whatever the employer or the seed wrote into it.
THEOREM SomebodyCanFit == Spec => []SomebodyFits
<1>1. StoredOK => SomebodyFits
  <2> SUFFICES ASSUME StoredOK PROVE SomebodyFits
    OBVIOUS
  <2>1. AnfOK(Anf) /\ Ideal \in Profil
    BY AnfIsOK, IdealIsOK DEF StoredOK, Anf
  <2>2. Ausschluss(Anf, Ideal) = {}
    BY <2>1, IdealPasses
  <2>3. ASSUME NEW down \in BOOLEAN PROVE BaseScore(Anf, Ideal, down) = 100
    <3> DEFINE W == TotalMaxPenalty(Anf, Ideal)
    <3>1. ASSUME NEW key \in Keys, Anwendbar(Anf, Ideal, key)
          PROVE  Penalty(Anf, Ideal, key) = 0
      <4> DEFINE f == Fehlt(Anf, Ideal, key)
      <4>1. f[1] = 0 /\ f[2] \in Nat \ {0} /\ 100 * Gewicht(Anf, key) * 0 = 0
        BY <2>1, <3>1, IdealMissesNothing, FehltIsFraction, WeightType
      <4>2. Penalty(Anf, Ideal, key) = Rounded(100 * Gewicht(Anf, key) * f[1], f[2])
        BY DEF Penalty
      <4> HIDE DEF f
      <4> QED BY <4>1, <4>2, RoundedNull
    <3>2. TotalPenalty(Anf, Ideal) = 0
      <4>1. \A key \in Keys : Taken(Anf, Ideal)[key] = 0
        BY <3>1 DEF Taken, Counted
      <4> QED BY <2>1, <4>1, PartsType, SummeIsNull
    <3>3. W \in Nat
      BY <2>1, Totals
    <3>4. W # 0 => Points(100 * W - TotalPenalty(Anf, Ideal), W, down) = 100
      <4>1. 100 * W - TotalPenalty(Anf, Ideal) = 100 * W /\ 100 * W \in Nat
        BY <3>2, <3>3
      <4> HIDE DEF W
      <4> QED BY <3>3, <4>1, PointsNear
    <3> QED BY <2>1, <3>3, <3>4, BaseScoreValue
  <2> QED BY <2>2, <2>3 DEF SomebodyFits
<1> QED BY <1>1, Invariance, PTL

-----------------------------------------------------------------------------
(* The score is what it claims to be *)

LEMMA CountedForAReason == ASSUME StoredOK PROVE NothingCountedForAReason
<1> SUFFICES ASSUME Counted(Anf, Kandidat) = {}, NEW key \in Keys, Anwendbar(Anf, Kandidat, key)
             PROVE  posting.gewichte[key] \in Int /\ posting.gewichte[key] < 5
  BY DEF NothingCountedForAReason
<1> DEFINE roh == posting.gewichte[key]
<1>1. ~(Gewicht(Anf, key) > 0)
  BY DEF Counted
<1>2. Anf.gewichte[key] = IF roh \in Int THEN Clamp(0, 5, (roh + 5) \div 10) ELSE None
  <2>1. Anf.gewichte = PruefeGewichte(posting.gewichte)
    BY AnfFields DEF StoredOK, Anf
  <2> QED BY <2>1 DEF PruefeGewichte
<1>3. STANDARD_GEWICHTE[key] > 0
  BY DEF STANDARD_GEWICHTE, Keys
<1>4. Anf.gewichte[key] # None
  BY <1>1, <1>3 DEF Gewicht
<1>5. roh \in Int /\ Gewicht(Anf, key) = Clamp(0, 5, (roh + 5) \div 10)
  BY <1>2, <1>4 DEF Gewicht
<1> HIDE DEF roh
<1>6. roh < 5
  <2>1. roh >= 5 => (roh + 5) \div 10 >= 1
    BY <1>5
  <2>2. (roh + 5) \div 10 >= 1 => Clamp(0, 5, (roh + 5) \div 10) > 0
    BY <1>5 DEF Clamp
  <2> QED BY <1>1, <1>5, <2>1, <2>2
<1> QED BY <1>5, <1>6 DEF roh

\* On a common denominator a rounded penalty is off by at most a half.
LEMMA DeviationNear ==
    ASSUME NEW w \in Nat, NEW a \in Nat, NEW b \in Nat \ {0}, NEW m \in Nat, NEW N \in Nat,
           m * b = N
    PROVE  LET p == Rounded(100 * w * a, b) IN
           /\ 2 * (N * p) <= 200 * (w * a * m) + N
           /\ 200 * (w * a * m) <= 2 * (N * p) + N
<1> DEFINE c == 100 * w * a
           p == Rounded(c, b)
<1>1. w * a \in Nat /\ c = 100 * (w * a) /\ c \in Nat
  OBVIOUS
<1>2. c * m = 100 * (w * a * m)
  <2> DEFINE d == w * a
  <2> HIDE DEF c, d
  <2>1. d \in Nat /\ c = 100 * d /\ w * a * m = d * m
    BY <1>1 DEF d
  <2>2. (100 * d) * m = 100 * (d * m)
    BY <2>1
  <2> QED BY <2>1, <2>2
<1> HIDE DEF c
<1>3. p \in Nat /\ 2 * b * p <= 2 * c + b /\ 2 * c < 2 * b * p + b
  BY <1>1, RoundedNear
<1> HIDE DEF p
<1>4. b * p \in Nat /\ 2 * (b * p) <= 2 * c + b /\ 2 * c <= 2 * (b * p) + b
  <2>1. b * p \in Nat /\ 2 * b * p = 2 * (b * p)
    BY <1>3
  <2> QED BY <1>1, <1>3, <2>1
<1>5. m * (2 * (b * p)) <= m * (2 * c + b) /\ m * (2 * c) <= m * (2 * (b * p) + b)
  BY <1>1, <1>4
<1>6. m * (2 * (b * p)) = 2 * (N * p)
  <2>1. m * (2 * (b * p)) = 2 * ((m * b) * p)
    BY <1>3
  <2> QED BY <2>1
<1>7. m * (2 * c + b) = 2 * (c * m) + N /\ m * (2 * c) = 2 * (c * m)
      /\ m * (2 * (b * p) + b) = m * (2 * (b * p)) + N
  BY <1>1, <1>4
<1> QED BY <1>2, <1>5, <1>6, <1>7 DEF p, c

LEMMA SummeLinear ==
    ASSUME NEW f \in [Keys -> Int], NEW g \in [Keys -> Int], NEW a \in Int, NEW b \in Int
    PROVE  Summe([key \in Keys |-> a * f[key] + b * g[key]]) = a * Summe(f) + b * Summe(g)
<1> DEFINE af == [key \in Keys |-> a * f[key]]
           bg == [key \in Keys |-> b * g[key]]
           sum == [key \in Keys |-> a * f[key] + b * g[key]]
<1>1. af \in [Keys -> Int] /\ bg \in [Keys -> Int]
      /\ \A key \in Keys : sum[key] = af[key] + bg[key]
  OBVIOUS
<1>2. Summe(af) = a * Summe(f) /\ Summe(bg) = b * Summe(g)
  BY SummeScales
<1>3. Summe(sum) = Summe(af) + Summe(bg)
  <2> HIDE DEF af, bg, sum
  <2> QED BY <1>1 DEF Summe, Keys
<1> QED BY <1>2, <1>3

\* Every denominator divides the common one.
LEMMA NennerDivides ==
    ASSUME AnfOK(Anf), Kandidat \in Profil, NEW key \in Keys, Anwendbar(Anf, Kandidat, key)
    PROVE  LET m == Nenner \div Fehlt(Anf, Kandidat, key)[2] IN
           m \in Nat /\ m * Fehlt(Anf, Kandidat, key)[2] = Nenner
<1> DEFINE c == Cardinality(Anf.aufgaben)
           d == Cardinality(Kandidat.prioritaeten)
           a == Max({1, c})
           b == Max({1, d})
           t == Fehlt(Anf, Kandidat, key)[2]
<1>1. c \in Nat /\ d \in Nat
  BY Counts, ScoringAssumption DEF AnfOK, Profil
<1>2. a \in Nat \ {0} /\ b \in Nat \ {0} /\ (c > 0 => a = c) /\ (d > 0 => b = d)
  <2> HIDE DEF c, d
  <2> QED BY <1>1, AtLeastOne
<1>3. Nenner = 10 * a * b
  BY DEF Nenner
<1> HIDE DEF a, b
<1>4. \E m \in Nat : m * t = 10 * a * b
  <2>1. CASE key = "aufgaben"
    <3>1. t = a
      BY <1>2, <2>1, Counts, ScoringAssumption DEF Fehlt, Anwendbar, AnfOK
    <3>2. 10 * b \in Nat /\ (10 * b) * a = 10 * a * b
      BY <1>2
    <3> QED BY <3>1, <3>2
  <2>2. CASE key = "prioritaeten"
    <3>1. t = b
      BY <1>2, <2>2, Counts, ScoringAssumption DEF Fehlt, Anwendbar, Profil
    <3>2. 10 * a \in Nat /\ (10 * a) * b = 10 * a * b
      BY <1>2
    <3> QED BY <3>1, <3>2
  <2>3. CASE key \notin {"aufgaben", "prioritaeten"}
    <3>1. t = 10
      BY <2>3 DEF Fehlt, Keys
    <3>2. a * b \in Nat /\ (a * b) * 10 = 10 * a * b
      BY <1>2
    <3> QED BY <3>1, <3>2
  <2> QED BY <2>1, <2>2, <2>3
<1>5. t \in Nat \ {0}
  BY FehltIsFraction
<1> HIDE DEF t
<1>6. PICK m \in Nat : m * t = Nenner
  BY <1>3, <1>4
<1>7. Nenner \in Int /\ t * m <= Nenner /\ Nenner < t * m + t
  BY <1>5, <1>6
<1>8. Nenner \div t = m
  BY <1>5, <1>7, Quotient
<1> QED BY <1>6, <1>8 DEF t

LEMMA NennerType ==
    ASSUME AnfOK(Anf), Kandidat \in Profil
    PROVE  Nenner \in Nat \ {0}
<1> DEFINE c == Cardinality(Anf.aufgaben)
           d == Cardinality(Kandidat.prioritaeten)
           a == Max({1, c})
           b == Max({1, d})
<1>1. c \in Nat /\ d \in Nat
  BY Counts, ScoringAssumption DEF AnfOK, Profil
<1>2. a \in Nat \ {0} /\ b \in Nat \ {0}
  <2> HIDE DEF c, d
  <2> QED BY <1>1, AtLeastOne
<1>3. Nenner = 10 * a * b
  BY DEF Nenner
<1> HIDE DEF a, b
<1>4. a * b \in Nat \ {0}
  BY <1>2
<1> QED BY <1>2, <1>3, <1>4

\* The rounded penalties of all criteria together are off by at most half their weights.
LEMMA SumNear ==
    ASSUME AnfOK(Anf), Kandidat \in Profil
    PROVE  LET W == TotalMaxPenalty(Anf, Kandidat)
               P == TotalPenalty(Anf, Kandidat)
               M == Summe([key \in Keys |-> IF key \in Counted(Anf, Kandidat)
                                            THEN Abweichung(key) ELSE 0])
           IN  /\ M \in Nat
               /\ 2 * (Nenner * P) <= 200 * M + Nenner * W
               /\ 200 * M <= 2 * (Nenner * P) + Nenner * W
<1> DEFINE N == Nenner
           w == Weighed(Anf, Kandidat)
           t == Taken(Anf, Kandidat)
           D == [key \in Keys |-> IF key \in Counted(Anf, Kandidat) THEN Abweichung(key) ELSE 0]
           two == 2 * N
           tN == [key \in Keys |-> two * t[key] + 0 * w[key]]
           upper == [key \in Keys |-> 200 * D[key] + N * w[key]]
           lower == [key \in Keys |-> 200 * D[key] + 0 * w[key]]
           over == [key \in Keys |-> two * t[key] + N * w[key]]
<1>1. /\ w \in [Keys -> 0..5] /\ t \in [Keys -> Nat]
      /\ \A key \in Counted(Anf, Kandidat) : w[key] >= 1
      /\ TotalMaxPenalty(Anf, Kandidat) = Summe(w) /\ TotalPenalty(Anf, Kandidat) = Summe(t)
  BY PartsType
<1>2. N \in Nat /\ two \in Nat
  BY NennerType
<1>3. ASSUME NEW key \in Counted(Anf, Kandidat)
      PROVE  /\ D[key] \in Nat
             /\ 2 * (N * t[key]) <= 200 * D[key] + N
             /\ 200 * D[key] <= 2 * (N * t[key]) + N
  <2> DEFINE f == Fehlt(Anf, Kandidat, key)
             g == Gewicht(Anf, key)
             m == N \div f[2]
  <2>1. key \in Keys /\ Anwendbar(Anf, Kandidat, key)
    BY <1>3 DEF Counted
  <2>2. f[1] \in Nat /\ f[2] \in Nat \ {0} /\ g \in Nat
    BY <2>1, FehltIsFraction, WeightType
  <2>3. m \in Nat /\ m * f[2] = N
    BY <2>1, NennerDivides
  <2>4. D[key] = g * f[1] * m
    BY <2>1 DEF Abweichung
  <2>5. t[key] = Rounded(100 * g * f[1], f[2])
    BY <2>1 DEF Taken, Penalty
  <2> HIDE DEF f, g, m, D, t, N
  <2>6. g * f[1] * m \in Nat
    BY <2>2, <2>3
  <2>7. /\ 2 * (N * Rounded(100 * g * f[1], f[2])) <= 200 * (g * f[1] * m) + N
        /\ 200 * (g * f[1] * m) <= 2 * (N * Rounded(100 * g * f[1], f[2])) + N
    BY <1>2, <2>2, <2>3, DeviationNear
  <2> QED BY <2>4, <2>5, <2>6, <2>7
<1>4. ASSUME NEW key \in Keys
      PROVE  /\ D[key] \in Nat
             /\ two * t[key] <= 200 * D[key] + N * w[key]
             /\ 200 * D[key] <= two * t[key] + N * w[key]
  <2>1. CASE key \in Counted(Anf, Kandidat)
    <3>1. w[key] \in Nat /\ w[key] >= 1 /\ t[key] \in Nat
      BY <1>1, <2>1
    <3>2. D[key] \in Nat /\ 2 * (N * t[key]) <= 200 * D[key] + N
          /\ 200 * D[key] <= 2 * (N * t[key]) + N
      BY <1>3, <2>1
    <3> HIDE DEF w, D, t, N
    <3>3. N * w[key] \in Nat /\ N * w[key] >= N
      BY <1>2, <3>1
    <3>4. N * t[key] \in Nat /\ two * t[key] = 2 * (N * t[key])
      BY <1>2, <3>1
    <3> QED BY <1>2, <3>2, <3>3, <3>4
  <2>2. CASE key \notin Counted(Anf, Kandidat)
    <3>1. D[key] = 0 /\ t[key] = 0 /\ w[key] = 0
      BY <2>2 DEF Taken, Weighed
    <3> HIDE DEF w, D, t, N, two
    <3> QED BY <1>2, <3>1
  <2> QED BY <2>1, <2>2
<1>5. D \in [Keys -> Nat]
  BY <1>4
<1> HIDE DEF w, t, D, N, two
<1>6. w \in [Keys -> Int] /\ t \in [Keys -> Int] /\ D \in [Keys -> Int] /\ w \in [Keys -> Nat]
      /\ N \in Int /\ two \in Int
  BY <1>1, <1>2, <1>5
<1>7. Summe(w) \in Nat /\ Summe(t) \in Nat /\ Summe(D) \in Nat
  BY <1>1, <1>5, <1>6, SummeType
<1>8. Summe(tN) = two * Summe(t) + 0 * Summe(w) /\ Summe(upper) = 200 * Summe(D) + N * Summe(w)
      /\ Summe(lower) = 200 * Summe(D) + 0 * Summe(w) /\ Summe(over) = two * Summe(t) + N * Summe(w)
  BY <1>6, SummeLinear
<1>9. tN \in [Keys -> Int] /\ upper \in [Keys -> Int] /\ lower \in [Keys -> Int]
      /\ over \in [Keys -> Int]
  BY <1>6
<1>10. \A key \in Keys : tN[key] <= upper[key] /\ lower[key] <= over[key]
  <2> SUFFICES ASSUME NEW key \in Keys PROVE tN[key] <= upper[key] /\ lower[key] <= over[key]
    OBVIOUS
  <2>1. two * t[key] \in Int /\ N * w[key] \in Int /\ D[key] \in Int /\ 0 * w[key] = 0
    BY <1>6
  <2>2. two * t[key] <= 200 * D[key] + N * w[key] /\ 200 * D[key] <= two * t[key] + N * w[key]
    BY <1>4
  <2> QED BY <2>1, <2>2
<1>11. Summe(tN) <= Summe(upper) /\ Summe(lower) <= Summe(over)
  <2> HIDE DEF tN, upper, lower, over
  <2> QED BY <1>9, <1>10, SummeGrows
<1>12. two * Summe(t) = 2 * (N * Summe(t)) /\ 0 * Summe(w) = 0 /\ N * Summe(w) \in Nat
       /\ N * Summe(t) \in Nat
  BY <1>2, <1>7 DEF two
<1> HIDE DEF tN, upper, lower, over
<1>13. 2 * (N * Summe(t)) <= 200 * Summe(D) + N * Summe(w)
       /\ 200 * Summe(D) <= 2 * (N * Summe(t)) + N * Summe(w)
  BY <1>7, <1>8, <1>11, <1>12
<1> QED BY <1>1, <1>7, <1>13 DEF D, N

LEMMA Mean ==
    ASSUME NEW S \in Nat, NEW W \in Nat, NEW N \in Nat, NEW P \in Nat, NEW M \in Nat,
           2 * (W * S) <= 2 * (100 * W - P) + W, 2 * (100 * W - P) <= 2 * (W * S) + W,
           2 * (N * P) <= 200 * M + N * W, 200 * M <= 2 * (N * P) + N * W
    PROVE  Km(S * (W * N), 100 * (W * N - M)) <= W * N
<1> DEFINE x == W * N
           y == N * P
           z == S * (W * N)
<1>1. x \in Nat /\ y \in Nat /\ z \in Nat
  OBVIOUS
<1>2. /\ (2 * (W * S)) * N = 2 * z /\ (2 * (100 * W - P)) * N = 200 * x - 2 * y
      /\ (2 * (100 * W - P) + W) * N = 200 * x - 2 * y + x
      /\ (2 * (W * S) + W) * N = 2 * z + x /\ N * W = x
  <2>1. (W * S) * N = S * (W * N)
    OBVIOUS
  <2>2. (100 * W - P) * N = 100 * (W * N) - N * P
    OBVIOUS
  <2>3. (2 * (W * S)) * N = 2 * ((W * S) * N) /\ (2 * (100 * W - P)) * N = 2 * ((100 * W - P) * N)
    OBVIOUS
  <2>4. (2 * (W * S) + W) * N = (2 * (W * S)) * N + W * N
        /\ (2 * (100 * W - P) + W) * N = (2 * (100 * W - P)) * N + W * N
    OBVIOUS
  <2>5. N * W = W * N
    OBVIOUS
  <2> HIDE DEF x, y, z
  <2> QED BY <2>1, <2>2, <2>3, <2>4, <2>5, <1>1 DEF x, y, z
<1>3. ASSUME NEW a \in Int, NEW b \in Int, a <= b PROVE a * N <= b * N
  BY <1>3
<1>4. 2 * z <= 200 * x - 2 * y + x /\ 200 * x - 2 * y <= 2 * z + x
  <2> DEFINE A == 2 * (W * S)
             B == 2 * (100 * W - P)
  <2>1. A \in Int /\ B \in Int /\ A <= B + W /\ B <= A + W /\ B + W \in Int /\ A + W \in Int
    OBVIOUS
  <2>2. A * N <= (B + W) * N /\ B * N <= (A + W) * N
    <3> HIDE DEF A, B
    <3> QED BY <1>3, <2>1
  <2> HIDE DEF x, y, z
  <2> QED BY <1>2, <2>2
<1>5. 2 * y <= 200 * M + x /\ 200 * M <= 2 * y + x
  BY <1>2
<1> HIDE DEF x, y, z
<1>6. Km(z, 100 * (x - M)) <= x
  BY <1>1, <1>4, <1>5 DEF Km
<1> QED BY <1>6 DEF x, z

\* The score a worker sees is the weighted mean of the criteria that apply, to within a
\* point, for every posting, profile and weights: no criterion is dropped without a reason,
\* and rounding each penalty before adding never adds up to more.
THEOREM ScoreIsExplained == Spec => []ScoreExplained
<1>1. StoredOK => ScoreExplained
  <2> SUFFICES ASSUME StoredOK PROVE ScoreExplained
    OBVIOUS
  <2>1. AnfOK(Anf) /\ Kandidat \in Profil
    BY AnfIsOK, ProfileIsOK DEF StoredOK, Anf, Kandidat
  <2> DEFINE W == TotalMaxPenalty(Anf, Kandidat)
             P == TotalPenalty(Anf, Kandidat)
             M == Summe([key \in Keys |-> IF key \in Counted(Anf, Kandidat)
                                          THEN Abweichung(key) ELSE 0])
  <2>2. ASSUME Counted(Anf, Kandidat) # {}, NEW down \in BOOLEAN
        PROVE  Km(BaseScore(Anf, Kandidat, down) * (W * Nenner), 100 * (W * Nenner - M))
                   <= W * Nenner
    <3> DEFINE a == 100 * W - P
               S == Points(a, W, down)
    <3>1. W \in Nat \ {0} /\ P \in Nat /\ P <= 100 * W
      BY <2>1, <2>2, Totals
    <3>2. BaseScore(Anf, Kandidat, down) = S
      BY <2>1, <3>1, BaseScoreValue
    <3>3. M \in Nat /\ 2 * (Nenner * P) <= 200 * M + Nenner * W
          /\ 200 * M <= 2 * (Nenner * P) + Nenner * W
      BY <2>1, SumNear
    <3>4. Nenner \in Nat
      BY <2>1, NennerType
    <3> HIDE DEF W, P, M
    <3>5. a \in Nat /\ a <= 100 * W
      BY <3>1
    <3>6. S \in Nat /\ 2 * (W * S) <= 2 * a + W /\ 2 * a <= 2 * (W * S) + W
      <4> HIDE DEF a
      <4>1. S \in 0..100 /\ 2 * (W * S) <= 2 * a + W /\ 2 * a <= 2 * (W * S) + W
        BY <2>2, <3>1, <3>5, PointsNear
      <4> QED BY <4>1
    <3> HIDE DEF S
    <3> QED BY <3>1, <3>2, <3>3, <3>4, <3>6, Mean
  <2>3. ScoreIsTheMean
    BY <2>2, Zenon DEF ScoreIsTheMean, TotalMaxPenalty
  <2> QED BY <2>3, CountedForAReason DEF ScoreExplained
<1> QED BY <1>1, Invariance, PTL

-----------------------------------------------------------------------------
(* Places *)

PlacesOK(orte) == \A o \in orte : o.ort \in Int /\ o.radius \in Int

LEMMA PlacesAreOK == ASSUME NEW pd, DataOK(pd) PROVE PlacesOK(WorkLocations(pd))
BY DEF DataOK, OrteOK, WorkLocations, PlacesOK, Optional

LEMMA KmType == ASSUME NEW a \in Int, NEW b \in Int PROVE Km(a, b) \in Nat
BY DEF Km

\* The closest work location is one of them.
LEMMA Nearest ==
    ASSUME NEW orte, PlacesOK(orte), NEW ort \in Optional(Int)
    PROVE  /\ (ort = None \/ orte = {}) => NearestKm(orte, ort) = None
           /\ ort # None /\ orte # {} =>
                  /\ NearestKm(orte, ort) \in Nat
                  /\ NearestKm(orte, ort) # None
                  /\ \E o \in orte : NearestKm(orte, ort) = Km(o.ort, ort)
                  /\ \A o \in orte : NearestKm(orte, ort) <= Km(o.ort, ort)
<1> DEFINE S == {Km(o.ort, ort) : o \in orte}
<1>1. CASE ort # None /\ orte # {}
  <2>1. S \in SUBSET Nat /\ S # {}
    BY <1>1, KmType DEF PlacesOK, Optional
  <2>2. NearestKm(orte, ort) = Min(S)
    BY <1>1 DEF NearestKm
  <2>3. Min(S) \in S /\ \A y \in S : Min(S) <= y
    <3> HIDE DEF S
    <3> QED BY <2>1, MinNat
  <2> QED BY <1>1, <2>1, <2>2, <2>3, ScoringAssumption
<1>2. CASE ~(ort # None /\ orte # {})
  BY <1>2 DEF NearestKm
<1> QED BY <1>1, <1>2

LEMMA TravelGrows ==
    ASSUME NEW a \in Nat, NEW b \in Nat, a <= b
    PROVE  TravelMinutes(a) \in Nat /\ TravelMinutes(a) <= TravelMinutes(b)
<1>1. 12 * a + 55 \in Nat /\ 12 * b + 55 \in Nat /\ 12 * a + 55 <= 12 * b + 55
  OBVIOUS
<1> QED BY <1>1 DEF TravelMinutes

LEMMA MinutesType ==
    ASSUME NEW orte, PlacesOK(orte), NEW ort \in Optional(Int)
    PROVE  /\ Minutes(orte, ort) \in Optional(Nat)
           /\ Minutes(orte, ort) = None <=> ort = None \/ orte = {}
           /\ Minutes(orte, ort) # None =>
                  Minutes(orte, ort) = TravelMinutes(NearestKm(orte, ort))
<1> DEFINE km == NearestKm(orte, ort)
<1>1. Minutes(orte, ort) = IF km = None THEN None ELSE TravelMinutes(km)
  BY DEF Minutes
<1>2. km = None <=> ort = None \/ orte = {}
  BY Nearest
<1>3. km # None => km \in Nat
  BY Nearest
<1> HIDE DEF km
<1>4. km # None => TravelMinutes(km) \in Nat
  BY <1>3, TravelGrows
<1> QED BY <1>1, <1>2, <1>4, ScoringAssumption DEF Optional, km

\* One more place to work in is never farther away.
LEMMA MorePlaces ==
    ASSUME NEW orte, NEW more, PlacesOK(more), orte \subseteq more, orte # {},
           NEW ort \in Optional(Int)
    PROVE  /\ ZuWeit(more, ort) => ZuWeit(orte, ort)
           /\ ort # None => Minutes(more, ort) # None /\ Minutes(orte, ort) # None
                            /\ Minutes(more, ort) <= Minutes(orte, ort)
           /\ ort # None => /\ NearestKm(more, ort) \in Nat /\ NearestKm(orte, ort) \in Nat
                            /\ NearestKm(more, ort) <= NearestKm(orte, ort)
                            /\ NearestKm(more, ort) # None
<1>1. PlacesOK(orte)
  BY DEF PlacesOK
<1>2. ZuWeit(more, ort) => ZuWeit(orte, ort)
  BY <1>1, Nearest DEF ZuWeit, ImRadius
<1>3. ASSUME ort # None
      PROVE  /\ Minutes(more, ort) # None /\ Minutes(orte, ort) # None
             /\ Minutes(more, ort) <= Minutes(orte, ort)
             /\ NearestKm(more, ort) \in Nat /\ NearestKm(orte, ort) \in Nat
             /\ NearestKm(more, ort) <= NearestKm(orte, ort)
             /\ NearestKm(more, ort) # None
  <2>1. NearestKm(more, ort) \in Nat /\ NearestKm(orte, ort) \in Nat
        /\ NearestKm(more, ort) <= NearestKm(orte, ort)
    <3>1. PICK o \in orte : NearestKm(orte, ort) = Km(o.ort, ort)
      BY <1>1, <1>3, Nearest
    <3> QED BY <1>1, <1>3, <3>1, Nearest
  <2>2. Minutes(more, ort) # None /\ Minutes(orte, ort) # None
    BY <1>1, <1>3, MinutesType
  <2>3. Minutes(more, ort) <= Minutes(orte, ort)
    BY <1>1, <2>1, <2>2, MinutesType, TravelGrows
  <2>4. NearestKm(more, ort) # None
    BY <2>1, ScoringAssumption
  <2> QED BY <2>1, <2>2, <2>3, <2>4
<1> QED BY <1>2, <1>3

-----------------------------------------------------------------------------
(* Refusals *)

LEMMA ImageFinite ==
    ASSUME NEW S, IsFiniteSet(S), NEW f, DOMAIN f = S, f = [x \in S |-> f[x]]
    PROVE  IsFiniteSet({f[x] : x \in S})
<1>1. f \in Surjection(S, {f[x] : x \in S})
  BY DEF Surjection
<1> QED BY <1>1, FS_Surjection

LEMMA DeclinedType ==
    ASSUME NEW os
    PROVE  /\ IsFiniteSet(Declined(os))
           /\ \A o \in Declined(os) : o.ort \in Optional(Int) /\ o.salary \in Optional(Int)
<1> DEFINE S == {o \in Offers : os[o].status = "DECLINED"}
           f == [offer \in S |->
                    [offer |-> offer, company |-> OfferOf[offer].company,
                     ort |-> OfferOf[offer].ort, salary |-> OfferOf[offer].salary,
                     reason |-> os[offer].reason]]
<1>1. Declined(os) = {f[x] : x \in S}
  BY DEF Declined
<1>2. IsFiniteSet(S)
  BY MatchingAssumption, FS_Subset
<1>3. IsFiniteSet({f[x] : x \in S})
  <2>1. DOMAIN f = S /\ f = [x \in S |-> f[x]]
    OBVIOUS
  <2> HIDE DEF f, S
  <2> QED BY <1>2, <2>1, ImageFinite
<1>4. \A o \in Declined(os) : o.ort \in Optional(Int) /\ o.salary \in Optional(Int)
  BY MatchingAssumption DEF Declined
<1> QED BY <1>1, <1>3, <1>4

\* The parts of the context of refusals.
Far(D) == {o \in D : o.reason = "zu_weit"}
Low(D) == {o \in D : o.reason = "gehalt"}
Of(D, c) == {o \in D : o.company = c}
Companies(D) == {o.company : o \in D}
Times(D, orte) == {Minutes(orte, o.ort) : o \in Far(D)} \ {None}
Pay(D) == {o.salary : o \in Low(D)} \ {None}

RefusedOK(D) ==
    IsFiniteSet(D) /\ \A o \in D : o.ort \in Optional(Int) /\ o.salary \in Optional(Int)

LEMMA ContextParts ==
    ASSUME NEW D, NEW orte
    PROVE  LET ctx == DeclineContext(D, orte) IN
           /\ DOMAIN ctx.byCompany = Companies(D)
           /\ \A c \in Companies(D) : ctx.byCompany[c] = Cardinality(Of(D, c))
           /\ ctx.zuWeitCount = Cardinality(Far(D)) /\ ctx.gehaltCount = Cardinality(Low(D))
           /\ ctx.zuWeitMinuten = (IF Times(D, orte) = {} THEN None ELSE Min(Times(D, orte)))
           /\ ctx.gehaltDeclinedMax = IF Pay(D) = {} THEN None ELSE Max(Pay(D))
BY DEF DeclineContext, Far, Low, Of, Companies, Times, Pay

LEMMA PartsFinite ==
    ASSUME NEW D, RefusedOK(D), NEW orte, PlacesOK(orte)
    PROVE  /\ Times(D, orte) \in SUBSET Nat
           /\ Pay(D) \in SUBSET Int /\ IsFiniteSet(Pay(D))
           /\ IsFiniteSet(Far(D)) /\ IsFiniteSet(Low(D)) /\ \A c : IsFiniteSet(Of(D, c))
<1>1. IsFiniteSet(Far(D)) /\ IsFiniteSet(Low(D)) /\ \A c : IsFiniteSet(Of(D, c))
  <2>1. Far(D) \in SUBSET D /\ Low(D) \in SUBSET D /\ \A c : Of(D, c) \in SUBSET D
    BY DEF Far, Low, Of
  <2> QED BY <2>1, FS_Subset DEF RefusedOK
<1>2. Times(D, orte) \in SUBSET Nat
  <2>1. \A o \in Far(D) : Minutes(orte, o.ort) \in Optional(Nat)
    BY MinutesType DEF Far, RefusedOK
  <2> QED BY <2>1 DEF Times, Optional
<1>3. Pay(D) \in SUBSET Int
  BY DEF Pay, Low, RefusedOK, Optional
<1>4. IsFiniteSet(Pay(D))
  <2> DEFINE f == [o \in Low(D) |-> o.salary]
             T == {f[o] : o \in Low(D)}
  <2>1. DOMAIN f = Low(D) /\ f = [o \in Low(D) |-> f[o]] /\ Pay(D) \in SUBSET T
    BY DEF Pay
  <2>2. IsFiniteSet(T)
    <3> HIDE DEF f
    <3> QED BY <1>1, <2>1, ImageFinite
  <2> QED BY <2>1, <2>2, FS_Subset
<1> QED BY <1>1, <1>2, <1>3, <1>4

\* What one part of the deductions takes off.
CompanyPart(ctx, job) ==
    IF job.company \in DOMAIN ctx.byCompany THEN Min({20, 8 * ctx.byCompany[job.company]}) ELSE 0
FarPart(ctx, minutes) ==
    IF ctx.zuWeitCount >= 2 /\ minutes # None /\ minutes >= Grenze(ctx) THEN 10 ELSE 0
PayPart(ctx, job) ==
    IF ctx.gehaltCount >= 2 /\ ctx.gehaltDeclinedMax # None /\ job.salary # None
       /\ job.salary <= ctx.gehaltDeclinedMax
    THEN 10 ELSE 0

LEMMA CompanyPartType ==
    ASSUME NEW D, RefusedOK(D), NEW orte, PlacesOK(orte), NEW job
    PROVE  /\ CompanyPart(DeclineContext(D, orte), job) \in Nat
           /\ job.company \in Companies(D) =>
                  LET n == Cardinality(Of(D, job.company)) IN
                  /\ n \in Nat
                  /\ CompanyPart(DeclineContext(D, orte), job) = IF 20 <= 8 * n THEN 20 ELSE 8 * n
           /\ job.company \notin Companies(D) => CompanyPart(DeclineContext(D, orte), job) = 0
<1> DEFINE n == Cardinality(Of(D, job.company))
           part == CompanyPart(DeclineContext(D, orte), job)
<1>1. n \in Nat
  BY PartsFinite, FS_CardinalityType
<1>2. part = IF job.company \in Companies(D) THEN Min({20, 8 * n}) ELSE 0
  BY ContextParts DEF CompanyPart
<1> HIDE DEF n, part
<1>3. 8 * n \in Int /\ Min({20, 8 * n}) = IF 20 <= 8 * n THEN 20 ELSE 8 * n
  BY <1>1, Pairs
<1> QED BY <1>1, <1>2, <1>3 DEF n, part

LEMMA DeductionType ==
    ASSUME NEW D, RefusedOK(D), NEW orte, PlacesOK(orte), NEW job, NEW minutes
    PROVE  LET ctx == DeclineContext(D, orte) IN
           /\ Deduction(ctx, job, minutes)
                  = CompanyPart(ctx, job) + FarPart(ctx, minutes) + PayPart(ctx, job)
           /\ CompanyPart(ctx, job) \in Nat /\ FarPart(ctx, minutes) \in Nat
           /\ PayPart(ctx, job) \in Nat /\ Deduction(ctx, job, minutes) \in Nat
           /\ D = {} => Deduction(ctx, job, minutes) = 0
<1> DEFINE ctx == DeclineContext(D, orte)
<1>1. Deduction(ctx, job, minutes)
          = CompanyPart(ctx, job) + FarPart(ctx, minutes) + PayPart(ctx, job)
  BY DEF Deduction, CompanyPart, FarPart, PayPart
<1>2. CompanyPart(ctx, job) \in Nat
  BY CompanyPartType
<1>3. FarPart(ctx, minutes) \in Nat /\ PayPart(ctx, job) \in Nat
  BY DEF FarPart, PayPart
<1>4. ASSUME D = {}
      PROVE  CompanyPart(ctx, job) = 0 /\ FarPart(ctx, minutes) = 0 /\ PayPart(ctx, job) = 0
  <2>1. Far(D) = {} /\ Low(D) = {} /\ Companies(D) = {}
    BY <1>4 DEF Far, Low, Companies
  <2>2. ctx.zuWeitCount = 0 /\ ctx.gehaltCount = 0 /\ DOMAIN ctx.byCompany = {}
    BY <2>1, ContextParts, FS_EmptySet
  <2> HIDE DEF ctx
  <2> QED BY <2>2 DEF CompanyPart, FarPart, PayPart
<1> QED BY <1>1, <1>2, <1>3, <1>4

LEMMA AdjustedValue ==
    ASSUME NEW s \in Int, NEW d \in Int
    PROVE  Adjusted(s, d) = IF 0 >= s - d THEN 0 ELSE s - d
<1> DEFINE x == s - d
<1>1. x \in Int
  OBVIOUS
<1> HIDE DEF x
<1>2. Max({0, x}) = IF 0 >= x THEN 0 ELSE x
  BY <1>1, Pairs
<1> QED BY <1>2 DEF Adjusted, x

\* The score, and the score after the deductions, of a stored posting.
LEMMA MatchScoreValue ==
    ASSUME NEW row, PostingOK(row), NEW pd, DataOK(pd), NEW os, NEW down \in BOOLEAN
    PROVE  LET anf == AnforderungVon(row)
               k == ExtractProfile(pd)
               base == BaseScore(anf, k, down)
               d == Deduction(Context(pd, os), row, Minutes(WorkLocations(pd), row.ort))
           IN  /\ base \in 0..100 /\ d \in Nat
               /\ Passed(row, pd) =>
                      MatchScore(row, pd, os, down) = IF 0 >= base - d THEN 0 ELSE base - d
               /\ ~Passed(row, pd) => MatchScore(row, pd, os, down) = 0
               /\ Declined(os) = {} => d = 0
<1> DEFINE anf == AnforderungVon(row)
           k == ExtractProfile(pd)
           base == BaseScore(anf, k, down)
           orte == WorkLocations(pd)
           D == Declined(os)
           d == Deduction(Context(pd, os), row, Minutes(orte, row.ort))
           s == Score(anf, k, orte, row.ort, down)
<1>1. AnfOK(anf) /\ k \in Profil /\ PlacesOK(orte) /\ RefusedOK(D)
  BY AnfIsOK, ProfileIsOK, PlacesAreOK, DeclinedType DEF RefusedOK
<1>2. base \in 0..100
  <2> HIDE DEF anf, k
  <2> QED BY <1>1, BaseScoreValue
<1>3. d \in Nat /\ (D = {} => d = 0)
  <2>1. d = Deduction(DeclineContext(D, orte), row, Minutes(orte, row.ort))
    BY DEF Context
  <2> HIDE DEF orte, D, d
  <2> QED BY <1>1, <2>1, DeductionType
<1>4. s = IF Passed(row, pd) THEN base ELSE 0
  BY DEF Score, Passed, Reasons
<1>5. MatchScore(row, pd, os, down) = Adjusted(s, d)
  BY DEF MatchScore
<1> HIDE DEF base, d, s
<1>6. Adjusted(s, d) = IF 0 >= s - d THEN 0 ELSE s - d
  BY <1>2, <1>3, <1>4, AdjustedValue
<1> QED BY <1>2, <1>3, <1>4, <1>5, <1>6 DEF base, d, D

-----------------------------------------------------------------------------
(* Refusals never help *)

LEMMA GrenzeShrinks ==
    ASSUME NEW D, NEW E, RefusedOK(D), RefusedOK(E), D \subseteq E, NEW orte, PlacesOK(orte),
           ~LimitLearned(DeclineContext(D, orte), DeclineContext(E, orte))
    PROVE  LET before == Grenze(DeclineContext(D, orte))
               after == Grenze(DeclineContext(E, orte))
           IN  before \in Int /\ after \in Int /\ after <= before
<1> DEFINE S == Times(D, orte)
           T == Times(E, orte)
           x == IF S = {} THEN 45 ELSE Min(S)
           y == IF T = {} THEN 45 ELSE Min(T)
<1>1. S \in SUBSET Nat /\ T \in SUBSET Nat /\ S \subseteq T
  BY PartsFinite DEF Times, Far
<1>2. (S # {} => Min(S) \in S /\ \A z \in S : Min(S) <= z)
      /\ (T # {} => Min(T) \in T /\ \A z \in T : Min(T) <= z)
  <2> HIDE DEF S, T
  <2> QED BY <1>1, MinNat
<1>3. /\ DeclineContext(D, orte).zuWeitMinuten = IF S = {} THEN None ELSE Min(S)
      /\ DeclineContext(E, orte).zuWeitMinuten = IF T = {} THEN None ELSE Min(T)
  BY ContextParts
<1> HIDE DEF S, T
<1>4. x \in Nat /\ y \in Nat
  BY <1>1, <1>2
<1>5. (S # {} => Min(S) # None) /\ (T # {} => Min(T) # None)
  <2>1. (S # {} => Min(S) \in Nat) /\ (T # {} => Min(T) \in Nat)
    BY <1>1, <1>2
  <2>2. None \notin Nat
    BY ScoringAssumption
  <2> QED BY <2>1, <2>2
<1>6. /\ Grenze(DeclineContext(D, orte)) = Max({15, x})
      /\ Grenze(DeclineContext(E, orte)) = Max({15, y})
  BY <1>3, <1>5 DEF Grenze, ZU_WEIT_FALLBACK_MIN
<1>7. y <= x
  <2>1. CASE S # {}
    <3>1. Min(S) \in T /\ T # {}
      BY <1>1, <1>2, <2>1
    <3> QED BY <1>2, <2>1, <3>1
  <2>2. CASE S = {} /\ T # {}
    <3>1. ~(Min(T) > 45)
      BY <1>3, <1>5, <2>2 DEF LimitLearned, ZU_WEIT_FALLBACK_MIN
    <3>2. x = 45 /\ y = Min(T)
      BY <2>2
    <3> QED BY <1>4, <3>1, <3>2
  <2>3. CASE S = {} /\ T = {}
    BY <2>3
  <2> QED BY <2>1, <2>2, <2>3
<1> HIDE DEF x, y
<1>8. Max({15, x}) = (IF 15 >= x THEN 15 ELSE x) /\ Max({15, y}) = (IF 15 >= y THEN 15 ELSE y)
  BY <1>4, Pairs
<1> QED BY <1>4, <1>6, <1>7, <1>8

\* More refusals take off at least as much, part by part.
LEMMA DeductionGrows ==
    ASSUME NEW D, NEW E, RefusedOK(D), RefusedOK(E), D \subseteq E, NEW orte, PlacesOK(orte),
           ~LimitLearned(DeclineContext(D, orte), DeclineContext(E, orte)),
           NEW job, job.salary \in Optional(Int), NEW minutes \in Optional(Nat)
    PROVE  Deduction(DeclineContext(D, orte), job, minutes)
               <= Deduction(DeclineContext(E, orte), job, minutes)
<1> DEFINE ctx == DeclineContext(D, orte)
           ctx2 == DeclineContext(E, orte)
<1>1. CompanyPart(ctx, job) <= CompanyPart(ctx2, job)
  <2> DEFINE c == job.company
             m == Cardinality(Of(D, c))
             n == Cardinality(Of(E, c))
  <2>1. Of(D, c) \in SUBSET Of(E, c) /\ Companies(D) \subseteq Companies(E)
    BY DEF Of, Companies
  <2>2. m <= n
    BY <2>1, PartsFinite, FS_Subset
  <2>3. /\ CompanyPart(ctx, job) \in Nat /\ CompanyPart(ctx2, job) \in Nat
        /\ c \in Companies(D) =>
               m \in Nat /\ CompanyPart(ctx, job) = IF 20 <= 8 * m THEN 20 ELSE 8 * m
        /\ c \notin Companies(D) => CompanyPart(ctx, job) = 0
        /\ c \in Companies(E) =>
               n \in Nat /\ CompanyPart(ctx2, job) = IF 20 <= 8 * n THEN 20 ELSE 8 * n
    BY CompanyPartType
  <2> HIDE DEF c, m, n, ctx, ctx2
  <2> QED BY <2>1, <2>2, <2>3
<1>2. FarPart(ctx, minutes) <= FarPart(ctx2, minutes)
  <2>1. ctx.zuWeitCount \in Int /\ ctx2.zuWeitCount \in Int /\ ctx.zuWeitCount <= ctx2.zuWeitCount
    <3>1. Far(D) \in SUBSET Far(E)
      BY DEF Far
    <3> QED BY <3>1, PartsFinite, ContextParts, FS_Subset, FS_CardinalityType
  <2>2. Grenze(ctx) \in Int /\ Grenze(ctx2) \in Int /\ Grenze(ctx2) <= Grenze(ctx)
    BY GrenzeShrinks
  <2> HIDE DEF ctx, ctx2
  <2> QED BY <2>1, <2>2 DEF FarPart, Optional
<1>3. PayPart(ctx, job) <= PayPart(ctx2, job)
  <2>1. ctx.gehaltCount \in Int /\ ctx2.gehaltCount \in Int /\ ctx.gehaltCount <= ctx2.gehaltCount
    <3>1. Low(D) \in SUBSET Low(E)
      BY DEF Low
    <3> QED BY <3>1, PartsFinite, ContextParts, FS_Subset, FS_CardinalityType
  <2>2. ctx.gehaltDeclinedMax # None =>
            /\ ctx2.gehaltDeclinedMax # None
            /\ ctx.gehaltDeclinedMax \in Int /\ ctx2.gehaltDeclinedMax \in Int
            /\ ctx.gehaltDeclinedMax <= ctx2.gehaltDeclinedMax
    <3> DEFINE S == Pay(D)
               T == Pay(E)
    <3>1. S \in SUBSET Int /\ IsFiniteSet(S) /\ T \in SUBSET Int /\ IsFiniteSet(T) /\ S \subseteq T
      BY PartsFinite DEF Pay, Low
    <3>2. ctx.gehaltDeclinedMax = (IF S = {} THEN None ELSE Max(S))
          /\ ctx2.gehaltDeclinedMax = (IF T = {} THEN None ELSE Max(T))
      BY ContextParts
    <3> HIDE DEF S, T, ctx, ctx2
    <3>3. (S # {} => Max(S) \in S) /\ (T # {} => Max(T) \in T /\ \A z \in T : Max(T) >= z)
      BY <3>1, MaxFinite
    <3> QED BY <3>1, <3>2, <3>3, ScoringAssumption
  <2> HIDE DEF ctx, ctx2
  <2> QED BY <2>1, <2>2 DEF PayPart, Optional
<1>4. /\ Deduction(ctx, job, minutes)
             = CompanyPart(ctx, job) + FarPart(ctx, minutes) + PayPart(ctx, job)
      /\ Deduction(ctx2, job, minutes)
             = CompanyPart(ctx2, job) + FarPart(ctx2, minutes) + PayPart(ctx2, job)
      /\ CompanyPart(ctx, job) \in Nat /\ CompanyPart(ctx2, job) \in Nat
      /\ FarPart(ctx, minutes) \in Nat /\ FarPart(ctx2, minutes) \in Nat
      /\ PayPart(ctx, job) \in Nat /\ PayPart(ctx2, job) \in Nat
  BY DeductionType
<1> HIDE DEF ctx, ctx2
<1>5. Deduction(ctx, job, minutes) <= Deduction(ctx2, job, minutes)
  BY <1>1, <1>2, <1>3, <1>4
<1> QED BY <1>5 DEF ctx, ctx2

\* One more refusal never raises the score of a posting, however many there were before and
\* whatever they refused, except where the first measured way replaces the assumed limit.
THEOREM RefusalsCannotHelp == Spec => RefusalsNeverHelp
<1> DEFINE Same == /\ posting' = posting /\ data' = data
                   /\ Declined(offers) \subseteq Declined(offers')
                   /\ ~LimitLearned(Context(data, offers), Context(data, offers'))
           NoHelp == \A down \in BOOLEAN : MatchScore(posting, data, offers', down)
                                               <= MatchScore(posting, data, offers, down)
<1>1. ASSUME StoredOK, Same PROVE NoHelp
  <2> SUFFICES ASSUME NEW down \in BOOLEAN
               PROVE  MatchScore(posting, data, offers', down)
                          <= MatchScore(posting, data, offers, down)
    OBVIOUS
  <2> DEFINE base == BaseScore(AnforderungVon(posting), ExtractProfile(data), down)
             orte == WorkLocations(data)
             minutes == Minutes(orte, posting.ort)
             d == Deduction(Context(data, offers), posting, minutes)
             e == Deduction(Context(data, offers'), posting, minutes)
  <2>1. PostingOK(posting) /\ DataOK(data) /\ PlacesOK(orte)
        /\ RefusedOK(Declined(offers)) /\ RefusedOK(Declined(offers'))
    BY <1>1, PlacesAreOK, DeclinedType DEF StoredOK, RefusedOK
  <2>2. posting.ort \in Optional(Int) /\ posting.salary \in Optional(Int)
    BY <2>1 DEF PostingOK
  <2>3. minutes \in Optional(Nat)
    BY <2>1, <2>2, MinutesType
  <2>4. d <= e
    <3>1. ~LimitLearned(DeclineContext(Declined(offers), orte),
                        DeclineContext(Declined(offers'), orte))
      BY <1>1 DEF Context
    <3>2. Deduction(DeclineContext(Declined(offers), orte), posting, minutes)
              <= Deduction(DeclineContext(Declined(offers'), orte), posting, minutes)
      <4> HIDE DEF orte, minutes
      <4> QED BY <1>1, <2>1, <2>2, <2>3, <3>1, DeductionGrows
    <3> QED BY <3>2 DEF Context
  <2>5. /\ base \in 0..100 /\ d \in Nat /\ e \in Nat
        /\ Passed(posting, data) =>
               /\ MatchScore(posting, data, offers, down) = IF 0 >= base - d THEN 0 ELSE base - d
               /\ MatchScore(posting, data, offers', down) = IF 0 >= base - e THEN 0 ELSE base - e
        /\ ~Passed(posting, data) => MatchScore(posting, data, offers, down) = 0
                                     /\ MatchScore(posting, data, offers', down) = 0
    BY <2>1, MatchScoreValue
  <2> HIDE DEF base, d, e
  <2> QED BY <2>4, <2>5
<1>2. StoredOK /\ [Next]_vars => [Same => NoHelp]_vars
  BY <1>1
<1> QED BY <1>2, Invariance, PTL DEF Spec, RefusalsNeverHelp

-----------------------------------------------------------------------------
(* More never hurts *)

\* The lemmas speak of a posting and of two profiles: before and after.
LEMMA GapsKeep ==
    ASSUME NEW row, PostingOK(row), NEW pd, DataOK(pd), NEW qd, DataOK(qd),
           qd.orte = pd.orte \/ WorkLocations(qd) = {},
           Withdrawn(ExtractProfile(pd), ExtractProfile(qd))
    PROVE  Reasons(row, qd) \subseteq Reasons(row, pd) \cup {"aufgaben"}
<1> DEFINE anf == AnforderungVon(row)
           k == ExtractProfile(pd)
           l == ExtractProfile(qd)
<1>1. /\ l.bereich \in {k.bereich, None} /\ l.montage \in {k.montage, None}
      /\ l.ausbildungsstatus \in {k.ausbildungsstatus, None} /\ l.deutsch \in {k.deutsch, None}
      /\ l.fuehrerschein \in {k.fuehrerschein, None}
  BY DEF Withdrawn, Scalars
<1>2. Ausschluss(anf, l) \subseteq Ausschluss(anf, k) \cup {"aufgaben"}
  <2> HIDE DEF anf, k, l
  <2>1. ("bereich" \in Ausschluss(anf, l) => "bereich" \in Ausschluss(anf, k))
        /\ ("ausbildung" \in Ausschluss(anf, l) => "ausbildung" \in Ausschluss(anf, k))
        /\ ("montage" \in Ausschluss(anf, l) => "montage" \in Ausschluss(anf, k))
        /\ ("deutsch" \in Ausschluss(anf, l) => "deutsch" \in Ausschluss(anf, k))
    BY <1>1, AusschlussByKey DEF Below
  <2>2. "fuehrerschein" \in Ausschluss(anf, l) => "fuehrerschein" \in Ausschluss(anf, k)
    <3>1. l.fuehrerschein = 0 => k.fuehrerschein = 0
      BY <1>1, ScoringAssumption
    <3> QED BY <3>1, AusschlussByKey
  <2>3. Ausschluss(anf, l) \subseteq
            {"bereich", "ausbildung", "aufgaben", "montage", "fuehrerschein", "deutsch"}
    BY AusschlussByKey
  <2> QED BY <2>1, <2>2, <2>3
<1>3. ZuWeit(WorkLocations(qd), row.ort) => ZuWeit(WorkLocations(pd), row.ort)
  <2>1. CASE qd.orte = pd.orte
    BY <2>1 DEF WorkLocations
  <2>2. CASE WorkLocations(qd) = {}
    BY <2>2 DEF ZuWeit, NearestKm
  <2> QED BY <2>1, <2>2
<1> QED BY <1>2, <1>3 DEF Reasons, Knockouts

LEMMA PlacesKeep ==
    ASSUME NEW row, PostingOK(row), NEW pd, DataOK(pd), NEW qd, DataOK(qd),
           ExtractProfile(qd) = ExtractProfile(pd),
           WorkLocations(pd) # {}, WorkLocations(pd) \subseteq WorkLocations(qd)
    PROVE  /\ Reasons(row, qd) \subseteq Reasons(row, pd)
           /\ \A q \in Queries : Listed(row, pd, q) => Listed(row, qd, q)
           /\ \A s \in Searches : Found(row, pd, s) => Found(row, qd, s)
<1> DEFINE orte == WorkLocations(pd)
           more == WorkLocations(qd)
           m == Minutes(orte, row.ort)
           n == Minutes(more, row.ort)
<1>1. PlacesOK(orte) /\ PlacesOK(more) /\ row.ort \in Optional(Int)
  BY PlacesAreOK DEF PostingOK
<1>2. (ZuWeit(more, row.ort) => ZuWeit(orte, row.ort))
      /\ (row.ort # None => n # None /\ m # None /\ n <= m)
  <2> HIDE DEF orte, more
  <2> QED BY <1>1, MorePlaces DEF orte, more
<1>3. (m = None <=> row.ort = None \/ orte = {}) /\ m \in Optional(Nat) /\ n \in Optional(Nat)
  <2> HIDE DEF orte, more
  <2> QED BY <1>1, MinutesType
<1>4. Reasons(row, qd) \subseteq Reasons(row, pd)
  BY <1>2 DEF Reasons, Knockouts
<1>5. ASSUME NEW q \in Queries, Listed(row, pd, q) PROVE Listed(row, qd, q)
  <2>1. Passed(row, qd)
    BY <1>4, <1>5 DEF Listed, Passed
  <2>2. q.maxTravelMinutes # None => m # None /\ m <= q.maxTravelMinutes
    BY <1>5 DEF Listed
  <2>3. q.maxTravelMinutes \in Optional(Int)
    BY DEF Queries, Optional
  <2>4. q.maxTravelMinutes # None => n # None /\ n <= q.maxTravelMinutes
    <3> HIDE DEF m, n
    <3> QED BY <1>2, <1>3, <2>2, <2>3 DEF Optional
  <2> QED BY <1>5, <2>1, <2>4 DEF Listed
<1>6. ASSUME NEW s \in Searches, Found(row, pd, s) PROVE Found(row, qd, s)
  <2>1. s.centre \in Int /\ s.radiusKm \in Int /\ s.centre # None /\ s.centre \in Optional(Int)
    BY MatchingAssumption, ScoringAssumption DEF Optional
  <2>2. /\ NearestKm(more, s.centre) \in Nat /\ NearestKm(orte, s.centre) \in Nat
        /\ NearestKm(more, s.centre) <= NearestKm(orte, s.centre)
        /\ NearestKm(more, s.centre) # None
    <3> HIDE DEF orte, more
    <3> QED BY <1>1, <2>1, MorePlaces DEF orte, more
  <2>3. NearestKm(orte, s.centre) <= s.radiusKm
    BY <1>6 DEF Found, InRange
  <2>4. NearestKm(more, s.centre) <= s.radiusKm
    <3> HIDE DEF orte, more
    <3> QED BY <2>1, <2>2, <2>3
  <2> QED BY <1>6, <2>2, <2>4 DEF Found, InRange
<1> QED BY <1>4, <1>5, <1>6

\* Better by hand: what the next lemmas use of it.
LEMMA BetterFields ==
    ASSUME NEW k, NEW l, Better(k, l)
    PROVE  /\ l.bereich = k.bereich /\ l.prioritaeten = k.prioritaeten
           /\ l.beruf = k.beruf \/ (k.beruf # None /\ l.beruf \in Anf.berufe)
           /\ k.aufgaben \subseteq l.aufgaben /\ (k.aufgaben = {} => l.aufgaben = {})
           /\ AtLeast(k.ausbildungsstatus, l.ausbildungsstatus) /\ AtLeast(k.montage, l.montage)
           /\ AtLeast(k.deutsch, l.deutsch) /\ AtLeast(k.erfahrung, l.erfahrung)
           /\ AtLeast(k.fuehrerschein, l.fuehrerschein) /\ AtLeast(l.start, k.start)
           /\ l.erfahrung = k.erfahrung \/ ~Below(Anf.erfahrungMax, l.erfahrung)
           /\ k.fuehrerschein = Fahrschule /\ l.fuehrerschein # Fahrschule =>
                  ~Below(l.fuehrerschein, Anf.fuehrerscheinMin)
BY DEF Better

LEMMA BelowShrinks ==
    ASSUME NEW a \in Optional(Int), NEW b \in Optional(Int), NEW c \in Optional(Int), AtLeast(a, b)
    PROVE  Below(b, c) => Below(a, c)
BY DEF AtLeast, Below, Optional

LEMMA BetterPasses ==
    ASSUME AnfOK(Anf), NEW k \in Profil, NEW l \in Profil, Better(k, l)
    PROVE  Ausschluss(Anf, l) \subseteq Ausschluss(Anf, k)
<1> USE DEF Profil, AnfOK
<1>0. \A S \in SUBSET Int : Optional(S) \in SUBSET Optional(Int)
  BY DEF Optional
<1>1. "bereich" \in Ausschluss(Anf, l) => "bereich" \in Ausschluss(Anf, k)
  BY BetterFields, AusschlussByKey
<1>2. "ausbildung" \in Ausschluss(Anf, l) => "ausbildung" \in Ausschluss(Anf, k)
  <2>1. Below(l.ausbildungsstatus, Anf.ausbildungMin)
            => Below(k.ausbildungsstatus, Anf.ausbildungMin)
    BY <1>0, BetterFields, BelowShrinks DEF Ausbildungsstatus
  <2> QED BY <2>1, AusschlussByKey
<1>3. "aufgaben" \in Ausschluss(Anf, l) => "aufgaben" \in Ausschluss(Anf, k)
  <2> DEFINE m == Cardinality(Covered(Anf, k))
             n == Cardinality(Covered(Anf, l))
             c == Cardinality(Anf.aufgaben)
             limit == Min({Anf.aufgabenMin, c})
  <2>1. Covered(Anf, k) \in SUBSET Covered(Anf, l) /\ Covered(Anf, l) \in SUBSET Aufgaben
    BY BetterFields DEF Covered
  <2>2. m \in Nat /\ n \in Nat /\ m <= n /\ c \in Nat
    BY <2>1, Counts, ScoringAssumption
  <2>3. limit \in Int
    BY <2>2, Pairs
  <2>4. n < limit => m < limit
    <3> HIDE DEF m, n, limit
    <3> QED BY <2>2, <2>3
  <2> QED BY <2>4, AusschlussByKey
<1>4. "montage" \in Ausschluss(Anf, l) => "montage" \in Ausschluss(Anf, k)
  <2>1. Below(l.montage, Anf.montageMin) => Below(k.montage, Anf.montageMin)
    BY <1>0, BetterFields, BelowShrinks DEF Montage
  <2> QED BY <2>1, AusschlussByKey
<1>5. "fuehrerschein" \in Ausschluss(Anf, l) => "fuehrerschein" \in Ausschluss(Anf, k)
  <2>1. l.fuehrerschein = 0 => k.fuehrerschein = 0
    BY BetterFields, ScoringAssumption DEF AtLeast, Optional, Fuehrerschein
  <2> QED BY <2>1, AusschlussByKey
<1>6. "deutsch" \in Ausschluss(Anf, l) => "deutsch" \in Ausschluss(Anf, k)
  <2>1. Below(l.deutsch, Anf.deutschMin) => Below(k.deutsch, Anf.deutschMin)
    BY <1>0, BetterFields, BelowShrinks DEF Deutsch
  <2> QED BY <2>1, AusschlussByKey
<1>7. Ausschluss(Anf, l) \subseteq
          {"bereich", "ausbildung", "aufgaben", "montage", "fuehrerschein", "deutsch"}
  BY AusschlussByKey
<1> QED BY <1>1, <1>2, <1>3, <1>4, <1>5, <1>6, <1>7

\* The better profile answers the same questions, and misses no more in any.
LEMMA BetterApplies ==
    ASSUME AnfOK(Anf), NEW k \in Profil, NEW l \in Profil, Better(k, l), NEW key \in Keys
    PROVE  Anwendbar(Anf, l, key) <=> Anwendbar(Anf, k, key)
<1>1. /\ l.prioritaeten = k.prioritaeten /\ (l.aufgaben = {} <=> k.aufgaben = {})
      /\ (l.erfahrung = None <=> k.erfahrung = None)
      /\ (l.fuehrerschein = None <=> k.fuehrerschein = None)
      /\ (l.start = None <=> k.start = None)
  BY BetterFields DEF AtLeast
<1>2. l.beruf = None <=> k.beruf = None
  BY BetterFields, ScoringAssumption DEF AnfOK
<1> QED BY <1>1, <1>2 DEF Anwendbar, Keys

LEMMA BetterMissesLess ==
    ASSUME AnfOK(Anf), NEW k \in Profil, NEW l \in Profil, Better(k, l),
           NEW key \in Keys, Anwendbar(Anf, k, key)
    PROVE  /\ Fehlt(Anf, l, key)[1] <= Fehlt(Anf, k, key)[1]
           /\ Fehlt(Anf, l, key)[2] = Fehlt(Anf, k, key)[2]
<1> USE DEF AnfOK, Profil
<1>1. CASE key = "aufgaben"
  <2>1. Anf.aufgaben \ l.aufgaben \in SUBSET (Anf.aufgaben \ k.aufgaben)
    BY BetterFields
  <2>2. Cardinality(Anf.aufgaben \ l.aufgaben) <= Cardinality(Anf.aufgaben \ k.aufgaben)
    BY <2>1, Counts, ScoringAssumption
  <2> QED BY <1>1, <2>2 DEF Fehlt
<1>2. CASE key = "erfahrung"
  <2> DEFINE von == Anf.erfahrungMin
             bis == Anf.erfahrungMax
             e == k.erfahrung
             f == l.erfahrung
             miss(x) == IF von # None /\ x < von THEN IF 5 * (von - x) >= 10 THEN 10 ELSE 5
                        ELSE IF bis # None /\ bis < x THEN IF x - bis >= 3 THEN 3 ELSE x - bis
                        ELSE 0
  <2>1. e \in 0..4 /\ f \in 0..4 /\ e <= f /\ von \in 0..4 \cup {None} /\ bis \in 0..4 \cup {None}
    BY <1>2, BetterFields DEF Anwendbar, AtLeast, Optional, Erfahrung
  <2>2. f = e \/ ~(bis # None /\ bis < f)
    BY <2>1, BetterFields, ScoringAssumption DEF Below
  <2>3. e # None /\ f # None
    BY <2>1, ScoringAssumption
  <2>4. ErfahrungFehlt(Anf, k) = miss(e) /\ ErfahrungFehlt(Anf, l) = miss(f)
    BY <2>3, ErfahrungTenths
  <2>5. miss(f) <= miss(e)
    <3> HIDE DEF von, bis, e, f
    <3> QED BY <2>1, <2>2
  <2> QED BY <1>2, <2>4, <2>5 DEF Fehlt
<1>3. CASE key = "beruf"
  <2>1. l.bereich = k.bereich /\ (l.beruf = k.beruf \/ l.beruf \in Anf.berufe)
    BY BetterFields
  <2>2. BerufFehlt(Anf, l) <= BerufFehlt(Anf, k)
    BY <2>1 DEF BerufFehlt
  <2> QED BY <1>3, <2>2 DEF Fehlt
<1>4. CASE key = "prioritaeten"
  <2>1. l.prioritaeten = k.prioritaeten
    BY BetterFields
  <2>2. Cardinality(k.prioritaeten \ Anf.gebotenes) \in Nat
    BY Counts, ScoringAssumption
  <2> QED BY <1>4, <2>1, <2>2 DEF Fehlt
<1>5. CASE key = "fuehrerschein"
  <2> DEFINE soll == Anf.fuehrerscheinMin
             a == k.fuehrerschein
             b == l.fuehrerschein
  <2>1. soll \in 0..3 /\ a \in 0..3 /\ b \in 0..3 /\ a <= b
    BY <1>5, BetterFields DEF Anwendbar, AtLeast, Optional, Fuehrerschein
  <2>2. a = 1 /\ b # 1 => b >= soll
    BY <2>1, BetterFields, ScoringAssumption DEF Below, Fahrschule
  <2>3. FuehrerscheinFehlt(Anf, l) <= FuehrerscheinFehlt(Anf, k)
    BY <2>1, <2>2 DEF FuehrerscheinFehlt, Fahrschule
  <2> QED BY <1>5, <2>3 DEF Fehlt
<1>6. CASE key = "start"
  <2>1. l.start \in Int /\ k.start \in Int /\ l.start <= k.start /\ Anf.startBis \in Int
    BY <1>6, BetterFields DEF Anwendbar, AtLeast, Optional, Start
  <2>2. StartFehlt(Anf, l) <= StartFehlt(Anf, k)
    BY <2>1 DEF StartFehlt, Clamp
  <2> QED BY <1>6, <2>2 DEF Fehlt
<1> QED BY <1>1, <1>2, <1>3, <1>4, <1>5, <1>6 DEF Keys

LEMMA RoundedGrows ==
    ASSUME NEW w \in Nat, NEW a \in Nat, NEW c \in Nat, a <= c, NEW b \in Nat \ {0}
    PROVE  Rounded(100 * w * a, b) <= Rounded(100 * w * c, b)
<1> DEFINE u == 100 * w
           x == u * a
           y == u * c
<1>1. u \in Nat
  OBVIOUS
<1>2. x \in Nat /\ y \in Nat /\ x <= y
  <2> HIDE DEF u
  <2> QED BY <1>1
<1> HIDE DEF x, y
<1>3. 2 * x + b \in Int /\ 2 * y + b \in Int /\ 2 * x + b <= 2 * y + b /\ 2 * b \in Nat \ {0}
  BY <1>2
<1>4. (2 * x + b) \div (2 * b) <= (2 * y + b) \div (2 * b)
  BY <1>3, DivisionGrows
<1> QED BY <1>4 DEF Rounded, x, y

LEMMA PointsGrow ==
    ASSUME NEW a \in Int, NEW c \in Int, a <= c, NEW b \in Nat \ {0}, NEW down \in BOOLEAN
    PROVE  Points(a, b, down) <= Points(c, b, down)
<1> DEFINE d == IF down THEN 1 ELSE 0
           u == 2 * a + b - d
           v == 2 * c + b - d
<1>1. u \in Int /\ v \in Int /\ u <= v /\ 2 * b \in Nat \ {0}
  OBVIOUS
<1>2. Points(a, b, down) = u \div (2 * b) /\ Points(c, b, down) = v \div (2 * b)
  BY DEF Points
<1> HIDE DEF u, v
<1> QED BY <1>1, <1>2, DivisionGrows

LEMMA BetterScores ==
    ASSUME AnfOK(Anf), NEW k \in Profil, NEW l \in Profil, Better(k, l), NEW down \in BOOLEAN
    PROVE  BaseScore(Anf, k, down) <= BaseScore(Anf, l, down)
<1> DEFINE W == TotalMaxPenalty(Anf, k)
           P == TotalPenalty(Anf, k)
           Q == TotalPenalty(Anf, l)
<1>1. Counted(Anf, l) = Counted(Anf, k)
  BY BetterApplies DEF Counted
<1>2. TotalMaxPenalty(Anf, l) = W
  BY <1>1 DEF TotalMaxPenalty
<1>3. \A key \in Keys : Taken(Anf, l)[key] <= Taken(Anf, k)[key]
  <2> SUFFICES ASSUME NEW key \in Keys PROVE Taken(Anf, l)[key] <= Taken(Anf, k)[key]
    OBVIOUS
  <2>1. CASE key \notin Counted(Anf, k)
    BY <1>1, <2>1 DEF Taken
  <2>2. CASE key \in Counted(Anf, k)
    <3> DEFINE f == Fehlt(Anf, k, key)
               g == Fehlt(Anf, l, key)
               w == Gewicht(Anf, key)
    <3>1. Anwendbar(Anf, k, key) /\ Anwendbar(Anf, l, key)
      BY <2>2, BetterApplies DEF Counted
    <3>2. f[1] \in Nat /\ f[2] \in Nat \ {0} /\ g[1] \in Nat /\ w \in Nat
      BY <3>1, FehltIsFraction, WeightType
    <3>3. g[1] <= f[1] /\ g[2] = f[2]
      BY <3>1, BetterMissesLess
    <3>4. /\ Taken(Anf, k)[key] = Rounded(100 * w * f[1], f[2])
          /\ Taken(Anf, l)[key] = Rounded(100 * w * g[1], g[2])
      BY <1>1, <2>2 DEF Taken, Penalty
    <3> HIDE DEF f, g, w
    <3>5. Rounded(100 * w * g[1], f[2]) <= Rounded(100 * w * f[1], f[2])
      BY <3>2, <3>3, RoundedGrows
    <3> QED BY <3>3, <3>4, <3>5
  <2> QED BY <2>1, <2>2
<1>4. Q <= P
  <2>1. Taken(Anf, k) \in [Keys -> Int] /\ Taken(Anf, l) \in [Keys -> Int]
    BY PartsType
  <2>2. P = Summe(Taken(Anf, k)) /\ Q = Summe(Taken(Anf, l))
    BY PartsType
  <2> QED BY <1>3, <2>1, <2>2, SummeGrows
<1>5. W \in Nat /\ P \in Nat /\ Q \in Nat
  BY Totals
<1>6. /\ W = 0 => BaseScore(Anf, k, down) = 100 /\ BaseScore(Anf, l, down) = 100
      /\ W # 0 => /\ BaseScore(Anf, k, down) = Points(100 * W - P, W, down)
                  /\ BaseScore(Anf, l, down) = Points(100 * W - Q, W, down)
  BY <1>2, BaseScoreValue
<1> HIDE DEF W, P, Q
<1>7. 100 * W - P \in Int /\ 100 * W - Q \in Int /\ 100 * W - P <= 100 * W - Q
  BY <1>4, <1>5
<1>8. W # 0 => Points(100 * W - P, W, down) <= Points(100 * W - Q, W, down)
  BY <1>5, <1>7, PointsGrow
<1> QED BY <1>6, <1>8

LEMMA ReachesGrows ==
    ASSUME NEW a \in Optional(Int), NEW b \in Optional(Int), NEW c \in Optional(Int),
           AtLeast(a, b), Reaches(a, c)
    PROVE  Reaches(b, c)
BY DEF AtLeast, Reaches, Optional

LEMMA BetterIsMasked ==
    ASSUME NEW k \in Profil, NEW l \in Profil, Better(k, l), NEW s \in Searches, Masked(k, s)
    PROVE  Masked(l, s)
<1>1. \A S \in SUBSET Int : Optional(S) \in SUBSET Optional(Int)
  BY DEF Optional
<1>2. /\ s.erfahrungMin \in Optional(Int) /\ s.ausbildungMin \in Optional(Int)
      /\ s.montageMin \in Optional(Int)
  BY <1>1, MatchingAssumption DEF Erfahrung, Ausbildungsstatus, Montage
<1>3. /\ k.erfahrung \in Optional(Int) /\ l.erfahrung \in Optional(Int)
      /\ k.ausbildungsstatus \in Optional(Int) /\ l.ausbildungsstatus \in Optional(Int)
      /\ k.montage \in Optional(Int) /\ l.montage \in Optional(Int)
  BY <1>1 DEF Profil, Erfahrung, Ausbildungsstatus, Montage
<1>4. /\ Reaches(l.erfahrung, s.erfahrungMin)
      /\ Reaches(l.ausbildungsstatus, s.ausbildungMin)
      /\ Reaches(l.montage, s.montageMin)
  BY <1>2, <1>3, BetterFields, ReachesGrows DEF Masked
<1> QED BY <1>4, BetterFields DEF Masked

LEMMA BetterKeeps ==
    ASSUME PostingOK(posting), NEW pd, DataOK(pd), NEW qd, DataOK(qd), qd.orte = pd.orte,
           Better(ExtractProfile(pd), ExtractProfile(qd)), NEW os
    PROVE  /\ Passed(posting, pd) => Passed(posting, qd)
           /\ \A s \in Searches : Found(posting, pd, s) => Found(posting, qd, s)
           /\ \A down \in BOOLEAN :
                  MatchScore(posting, qd, os, down) >= MatchScore(posting, pd, os, down)
<1> DEFINE k == ExtractProfile(pd)
           l == ExtractProfile(qd)
<1>1. AnfOK(Anf) /\ k \in Profil /\ l \in Profil
  BY AnfIsOK, ProfileIsOK DEF Anf
<1>2. WorkLocations(qd) = WorkLocations(pd)
  BY DEF WorkLocations
<1>3. Ausschluss(Anf, l) \subseteq Ausschluss(Anf, k)
  <2> HIDE DEF k, l
  <2> QED BY <1>1, BetterPasses DEF k, l
<1>4. Passed(posting, pd) => Passed(posting, qd)
  BY <1>2, <1>3 DEF Passed, Reasons, Knockouts, Anf
<1>5. ASSUME NEW down \in BOOLEAN
      PROVE  MatchScore(posting, qd, os, down) >= MatchScore(posting, pd, os, down)
  <2> DEFINE before == BaseScore(Anf, k, down)
             after == BaseScore(Anf, l, down)
             d == Deduction(Context(pd, os), posting, Minutes(WorkLocations(pd), posting.ort))
             x == MatchScore(posting, pd, os, down)
             y == MatchScore(posting, qd, os, down)
  <2>1. before <= after
    <3> HIDE DEF k, l
    <3> QED BY <1>1, BetterScores DEF k, l
  <2>2. /\ before \in 0..100 /\ d \in Nat
        /\ Passed(posting, pd) => x = IF 0 >= before - d THEN 0 ELSE before - d
        /\ ~Passed(posting, pd) => x = 0
    BY MatchScoreValue DEF Anf
  <2>3. Context(qd, os) = Context(pd, os)
    BY <1>2 DEF Context
  <2>4. /\ after \in 0..100
        /\ Passed(posting, qd) => y = IF 0 >= after - d THEN 0 ELSE after - d
        /\ ~Passed(posting, qd) => y = 0
    BY <1>2, <2>3, MatchScoreValue DEF Anf
  <2> HIDE DEF before, after, d, x, y
  <2>5. y >= x
    BY <1>4, <2>1, <2>2, <2>4
  <2> QED BY <2>5 DEF x, y
<1>6. ASSUME NEW s \in Searches, Found(posting, pd, s) PROVE Found(posting, qd, s)
  <2>1. InRange(qd, s.centre, s.radiusKm)
    BY <1>2, <1>6 DEF Found, InRange
  <2>2. Masked(l, s)
    <3>1. Masked(k, s)
      BY <1>6 DEF Found
    <3> HIDE DEF k, l
    <3> QED BY <1>1, <3>1, BetterIsMasked DEF k, l
  <2> QED BY <1>3, <1>6, <2>1, <2>2 DEF Found, Anf
<1> QED BY <1>4, <1>5, <1>6

\* Telling less about himself, looking in one more place and being better at what he told
\* never costs a craftsman a posting, and the latter two never hide him from a search, for
\* every posting, profile, search and list of refusals.
THEOREM MoreCannotHurt == Spec => MoreNeverHurts
<1> DEFINE Kept == GapsNeverExclude /\ AnotherPlaceNeverExcludes /\ BetterNeverHurts
<1>1. ASSUME StoredOK, StoredOK' PROVE GapsNeverExclude
  BY <1>1, GapsKeep DEF StoredOK, GapsNeverExclude, SamePlaces
<1>2. ASSUME StoredOK, StoredOK' PROVE AnotherPlaceNeverExcludes
  BY <1>2, PlacesKeep DEF StoredOK, AnotherPlaceNeverExcludes
<1>3. ASSUME StoredOK, StoredOK' PROVE BetterNeverHurts
  BY <1>3, BetterKeeps DEF StoredOK, BetterNeverHurts, SamePlaces
<1>4. StoredOK /\ [Next]_vars => [Kept]_vars
  BY <1>1, <1>2, <1>3, StoredStep
<1> QED BY <1>4, Invariance, PTL DEF Spec, MoreNeverHurts
=============================================================================
