------------------------------ MODULE Scoring -------------------------------
(***************************************************************************)
(* The two stages of the matching: what excludes a posting, and how well   *)
(* it fits otherwise.  Pure operators over a requirement profile anf, a    *)
(* candidate profile k, and the work locations of the candidate.           *)
(*                                                                         *)
(* An answer on an ordered scale of the catalogue stands for its rank.     *)
(* Places lie on a line, in km: only distances matter.  Penalties are      *)
(* counted in hundredths, as the code rounds them.                         *)
(***************************************************************************)
EXTENDS Integers, FiniteSets, FiniteSetsExt

CONSTANTS
    None,           \* the null value: no answer, no requirement
    Bereiche,       \* fields of training
    Berufe,         \* trades
    BerufeVon,      \* the trades of each field
    Aufgaben,       \* kinds of work
    Wuensche        \* PRIORITAETEN

ASSUME ScoringAssumption ==
    /\ None \notin Int \cup Bereiche \cup Berufe
    /\ BerufeVon \in [Bereiche -> SUBSET Berufe]
    /\ IsFiniteSet(Aufgaben) /\ IsFiniteSet(Wuensche)

-----------------------------------------------------------------------------
(* The scales of the catalogue *)

Ausbildungsstatus == 0..3
Erfahrung == 0..4
Montage == 0..3
Deutsch == 0..3

\* nein, fahrschule, b, c
Fuehrerschein == 0..3
Fahrschule == 1

\* Months until the start.
Start == {0, 2, 6, 12, 24}

Optional(S) == S \cup {None}

Profil == [bereich: Optional(Bereiche), ausbildungsstatus: Optional(Ausbildungsstatus),
           beruf: Optional(Berufe), aufgaben: SUBSET Aufgaben, erfahrung: Optional(Erfahrung),
           prioritaeten: SUBSET Wuensche, montage: Optional(Montage),
           fuehrerschein: Optional(Fuehrerschein), deutsch: Optional(Deutsch),
           start: Optional(Start)]

Leer == [bereich |-> None, ausbildungsstatus |-> None, beruf |-> None, aufgaben |-> {},
         erfahrung |-> None, prioritaeten |-> {}, montage |-> None, fuehrerschein |-> None,
         deutsch |-> None, start |-> None]

Keys == {"aufgaben", "erfahrung", "beruf", "prioritaeten", "fuehrerschein", "start"}

STANDARD_GEWICHTE ==
    [aufgaben |-> 5, erfahrung |-> 4, beruf |-> 3, prioritaeten |-> 2, fuehrerschein |-> 2,
     start |-> 1]

Anforderung == [bereiche: SUBSET Bereiche, berufe: SUBSET Berufe,
                ausbildungMin: Optional(Ausbildungsstatus), aufgaben: SUBSET Aufgaben,
                aufgabenMin: Nat, erfahrungMin: Optional(Erfahrung),
                erfahrungMax: Optional(Erfahrung), montageMin: Optional(Montage),
                fuehrerscheinMin: Optional(Fuehrerschein), deutschMin: Optional(Deutsch),
                gebotenes: SUBSET Wuensche, startBis: Optional(Start),
                gewichte: [Keys -> Optional(0..5)]]

Clamp(low, high, x) == IF x < low THEN low ELSE IF x > high THEN high ELSE x

\* Mutant: what is no number counts as 0.
PruefeGewichteZero(roh) ==
    [key \in Keys |-> IF roh[key] = None THEN None
                      ELSE IF roh[key] \in Int THEN Clamp(0, 5, (roh[key] + 5) \div 10) ELSE 0]

\* Mutant: a fraction is cut off.
PruefeGewichteFloor(roh) ==
    [key \in Keys |-> IF roh[key] \in Int THEN Clamp(0, 5, roh[key] \div 10) ELSE None]

\* Stored weights are unchecked JSON, here in tenths: a number is rounded and clamped, what
\* is no number counts as absent.
PruefeGewichte(roh) ==
    [key \in Keys |-> IF roh[key] \in Int THEN Clamp(0, 5, (roh[key] + 5) \div 10) ELSE None]

-----------------------------------------------------------------------------
(* Places *)

Km(a, b) == IF a < b THEN b - a ELSE a - b

\* travelMinutes: Math.round(km * 1.2 + 5)
TravelMinutes(km) == (12 * km + 55) \div 10

\* nearestLocation: the distance of the closest work location, if there is one.
NearestKm(orte, ort) ==
    IF ort = None \/ orte = {} THEN None ELSE Min({Km(o.ort, ort) : o \in orte})

Minutes(orte, ort) ==
    LET km == NearestKm(orte, ort) IN IF km = None THEN None ELSE TravelMinutes(km)

\* Mutant: only the closest work location counts.
ImRadiusNearest(orte, ort) ==
    \E o \in orte : Km(o.ort, ort) = NearestKm(orte, ort) /\ Km(o.ort, ort) <= o.radius

\* lage: the posting lies within the radius of some work location.
ImRadius(orte, ort) == \E o \in orte : Km(o.ort, ort) <= o.radius

\* Without a place on either side nobody is excluded for the distance.
ZuWeit(orte, ort) == NearestKm(orte, ort) # None /\ ~ImRadius(orte, ort)

-----------------------------------------------------------------------------
(* Stage 1: exclusion *)

\* Mutant: a missing answer counts as the lowest one.
BelowOrMissing(ist, soll) == soll # None /\ (ist = None \/ ist < soll)

Below(ist, soll) == soll # None /\ ist # None /\ ist < soll

Covered(anf, k) == anf.aufgaben \cap k.aufgaben

\* ausschlusskriterien without the distance.
Ausschluss(anf, k) ==
    {key \in {"bereich", "ausbildung", "aufgaben", "montage", "fuehrerschein", "deutsch"} :
        CASE key = "bereich" ->
                 anf.bereiche # {} /\ k.bereich # None /\ k.bereich \notin anf.bereiche
          [] key = "ausbildung" -> Below(k.ausbildungsstatus, anf.ausbildungMin)
          [] key = "aufgaben" ->
                 Cardinality(Covered(anf, k))
                     < Min({anf.aufgabenMin, Cardinality(anf.aufgaben)})
          [] key = "montage" -> Below(k.montage, anf.montageMin)
          \* Only somebody without any licence is out.
          [] key = "fuehrerschein" ->
                 anf.fuehrerscheinMin # None /\ anf.fuehrerscheinMin > 0 /\ k.fuehrerschein = 0
          [] key = "deutsch" -> Below(k.deutsch, anf.deutschMin)}

Knockouts(anf, k, orte, ort) ==
    Ausschluss(anf, k) \cup (IF ZuWeit(orte, ort) THEN {"entfernung"} ELSE {})

-----------------------------------------------------------------------------
(* Stage 2: points *)

Gewicht(anf, key) ==
    IF anf.gewichte[key] = None THEN STANDARD_GEWICHTE[key] ELSE anf.gewichte[key]

\* There is something to compare on both sides.
Anwendbar(anf, k, key) ==
    CASE key = "aufgaben" -> anf.aufgaben # {} /\ k.aufgaben # {}
      [] key = "erfahrung" ->
             k.erfahrung # None /\ (anf.erfahrungMin # None \/ anf.erfahrungMax # None)
      [] key = "beruf" -> anf.berufe # {} /\ k.beruf # None
      [] key = "prioritaeten" -> k.prioritaeten # {} /\ anf.gebotenes # {}
      [] key = "fuehrerschein" ->
             anf.fuehrerscheinMin # None /\ anf.fuehrerscheinMin > 0 /\ k.fuehrerschein # None
      [] key = "start" -> anf.startBis # None /\ k.start # None

Counted(anf, k) == {key \in Keys : Anwendbar(anf, k, key) /\ Gewicht(anf, key) > 0}

\* Tenths that are missing: half per step below the range, a tenth per step above it,
\* and above it never more than three.
ErfahrungFehlt(anf, k) ==
    IF Below(k.erfahrung, anf.erfahrungMin)
    THEN Min({10, 5 * (anf.erfahrungMin - k.erfahrung)})
    ELSE IF Below(anf.erfahrungMax, k.erfahrung)
         THEN Min({3, k.erfahrung - anf.erfahrungMax})
         ELSE 0

BerufFehlt(anf, k) ==
    IF k.beruf \in anf.berufe THEN 0
    ELSE IF k.bereich # None /\ BerufeVon[k.bereich] \cap anf.berufe # {} THEN 4 ELSE 10

FuehrerscheinFehlt(anf, k) ==
    IF k.fuehrerschein >= anf.fuehrerscheinMin THEN 0
    ELSE IF k.fuehrerschein = Fahrschule THEN 5 ELSE 7

\* Mutant: an earlier start counts as far off as a later one.
StartFehltEitherWay(anf, k) == Clamp(0, 10, Km(k.start, anf.startBis))

StartFehlt(anf, k) == Clamp(0, 10, k.start - anf.startBis)

\* 1 - fulfilment as <<numerator, denominator>>.
Fehlt(anf, k, key) ==
    CASE key = "aufgaben" ->
             <<Cardinality(anf.aufgaben \ k.aufgaben), Cardinality(anf.aufgaben)>>
      [] key = "erfahrung" -> <<ErfahrungFehlt(anf, k), 10>>
      [] key = "beruf" -> <<BerufFehlt(anf, k), 10>>
      [] key = "prioritaeten" ->
             <<Cardinality(k.prioritaeten \ anf.gebotenes), Cardinality(k.prioritaeten)>>
      [] key = "fuehrerschein" -> <<FuehrerscheinFehlt(anf, k), 10>>
      [] key = "start" -> <<StartFehlt(anf, k), 10>>

\* Math.round of a fraction that is not negative.
Rounded(a, b) == (2 * a + b) \div (2 * b)

\* The penalty of a criterion, in hundredths.
Penalty(anf, k, key) ==
    LET f == Fehlt(anf, k, key) IN Rounded(100 * Gewicht(anf, key) * f[1], f[2])

Summe(f) ==
    f["aufgaben"] + f["erfahrung"] + f["beruf"] + f["prioritaeten"] + f["fuehrerschein"]
    + f["start"]

TotalPenalty(anf, k) ==
    Summe([key \in Keys |-> IF key \in Counted(anf, k) THEN Penalty(anf, k, key) ELSE 0])

\* Mutant: the weights of criteria that do not apply dilute the score.
TotalMaxPenaltyAll(anf, k) == Summe([key \in Keys |-> Gewicht(anf, key)])

TotalMaxPenalty(anf, k) ==
    Summe([key \in Keys |-> IF key \in Counted(anf, k) THEN Gewicht(anf, key) ELSE 0])

\* The score is computed in doubles: where the exact value lies half way between two
\* points, the double may lie below it.  down tells which of the two points comes out.
Points(a, b, down) == (2 * a + b - (IF down THEN 1 ELSE 0)) \div (2 * b)

BaseScore(anf, k, down) ==
    LET total == TotalMaxPenalty(anf, k) IN
    IF total = 0 THEN 100
    ELSE Clamp(0, 100, Points(100 * total - TotalPenalty(anf, k), total, down))

\* bewerte: the score, 0 if something excludes the posting.
Score(anf, k, orte, ort, down) ==
    IF Knockouts(anf, k, orte, ort) = {} THEN BaseScore(anf, k, down) ELSE 0

-----------------------------------------------------------------------------
(* Deductions for refused offers *)

\* Mutant: the lowest refused salary counts.
DeclineContextLowest(declined, orte) ==
    LET far == {o \in declined : o.reason = "zu_weit"}
        low == {o \in declined : o.reason = "gehalt"}
        pay == {o.salary : o \in low} \ {None}
    IN  [byCompany |-> [c \in {o.company : o \in declined} |->
                           Cardinality({o \in declined : o.company = c})],
         zuWeitCount |-> Cardinality(far), zuWeitMinuten |-> None,
         gehaltCount |-> Cardinality(low),
         gehaltDeclinedMax |-> IF pay = {} THEN None ELSE Min(pay)]

\* declineContext: what the refusals of a worker say; a refused offer has a company, a
\* place, a salary and a reason.
DeclineContext(declined, orte) ==
    LET far == {o \in declined : o.reason = "zu_weit"}
        times == {Minutes(orte, o.ort) : o \in far} \ {None}
        low == {o \in declined : o.reason = "gehalt"}
        pay == {o.salary : o \in low} \ {None}
    IN  [byCompany |-> [c \in {o.company : o \in declined} |->
                           Cardinality({o \in declined : o.company = c})],
         zuWeitCount |-> Cardinality(far),
         zuWeitMinuten |-> IF times = {} THEN None ELSE Min(times),
         gehaltCount |-> Cardinality(low),
         gehaltDeclinedMax |-> IF pay = {} THEN None ELSE Max(pay)]

ZU_WEIT_FALLBACK_MIN == 45

Grenze(ctx) ==
    Max({15, IF ctx.zuWeitMinuten = None THEN ZU_WEIT_FALLBACK_MIN ELSE ctx.zuWeitMinuten})

\* declineAdjustments: the sum of the three deductions.
Deduction(ctx, job, minutes) ==
    (IF job.company \in DOMAIN ctx.byCompany
     THEN Min({20, 8 * ctx.byCompany[job.company]}) ELSE 0)
    + (IF ctx.zuWeitCount >= 2 /\ minutes # None /\ minutes >= Grenze(ctx) THEN 10 ELSE 0)
    + (IF ctx.gehaltCount >= 2 /\ ctx.gehaltDeclinedMax # None /\ job.salary # None
          /\ job.salary <= ctx.gehaltDeclinedMax
       THEN 10 ELSE 0)

\* applyAdjustments; an excluded posting has nothing to lose.
Adjusted(score, deduction) == Max({0, score - deduction})
=============================================================================
