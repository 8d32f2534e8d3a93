------------------------------ MODULE Matching ------------------------------
(***************************************************************************)
(* One posting, one craftsman and the offers he received: how saving the   *)
(* posting, changing the profile and answering offers move the score the   *)
(* craftsman sees and the one his employer sees.  The score itself is      *)
(* Scoring; here is what is stored, and how it is read back.               *)
(***************************************************************************)
EXTENDS Scoring

CONSTANTS
    Dtos,           \* what an employer can send: SaveJobDto
    Seeds,          \* postings written by the seed, which checks nothing
    Data,           \* profileData of a user
    Ortslisten,     \* lists of work locations
    Searches,       \* what an employer can ask for in the search mask: CandidateQueryDto
    Offers,         \* received offers
    OfferOf,        \* company, place and salary of each offer's posting
    Gruende,        \* reasons of a refusal
    Company,        \* the company of the posting
    CompanyOrt      \* its place

\* A row as saveJobData writes it, with weights of any kind: it demands no more kinds of
\* work than it lists, and no range the wrong way round.
PostingOK(row) ==
    /\ row \in [bereiche: SUBSET Bereiche, berufe: SUBSET Berufe,
                ausbildungMin: Optional(Ausbildungsstatus), aufgaben: SUBSET Aufgaben,
                aufgabenMin: Nat, erfahrungMin: Optional(Erfahrung),
                erfahrungMax: Optional(Erfahrung), montageMin: Optional(Montage),
                fuehrerscheinMin: Optional(Fuehrerschein), deutschMin: Optional(Deutsch),
                gebotenes: SUBSET Wuensche, startBis: Optional(Start),
                gewichte: {row.gewichte}, company: {row.company}, ort: Optional(Int),
                salary: Optional(Int)]
    /\ row.aufgabenMin <= Cardinality(row.aufgaben)
    /\ ~Below(row.erfahrungMax, row.erfahrungMin)

OrteOK(orte) == \A o \in orte : o.ort \in Optional(Int) /\ o.radius \in Optional(Int)

\* The questionnaires, old and new, offer the answers of the catalogue only.
AltOK(alt) ==
    /\ alt.bereich \in Optional(Bereiche) /\ alt.jahre \in Optional(Int)
    /\ alt.ziel \in Wuensche \cup {None, "naehe"}

DataOK(pd) ==
    /\ pd \in [profil: Optional(Profil), schritt: Optional(Profil), alt: {pd.alt},
               orte: {pd.orte}]
    /\ pd.alt # None => AltOK(pd.alt)
    /\ OrteOK(pd.orte)

\* What employers send has the types of the DTO, and nothing more is known of it.
ASSUME MatchingAssumption ==
    /\ IsFiniteSet(Offers)
    /\ \A offer \in Offers : {"company", "ort", "salary"} \subseteq DOMAIN OfferOf[offer]
    /\ \A offer \in Offers :
          OfferOf[offer].ort \in Optional(Int) /\ OfferOf[offer].salary \in Optional(Int)
    /\ None \notin Gruende
    /\ \A dto \in Dtos :
          /\ dto.aufgabenMin \in Int /\ dto.ort \in Optional(Int)
          /\ dto.salaryMin \in Optional(Int) /\ dto.salaryMax \in Optional(Int)
    /\ CompanyOrt \in Optional(Int)
    /\ \A row \in Seeds : PostingOK(row)
    /\ \A pd \in Data : DataOK(pd)
    /\ \A orte \in Ortslisten : OrteOK(orte)
    /\ Searches \subseteq
           [bereiche: SUBSET Bereiche, aufgaben: SUBSET Aufgaben,
            erfahrungMin: Optional(Erfahrung), ausbildungMin: Optional(Ausbildungsstatus),
            montageMin: Optional(Montage), centre: Int, radiusKm: Int]

VARIABLES
    posting,        \* row of JobPosting
    data,           \* User.profileData
    offers          \* status and reason of each JobOffer

vars == <<posting, data, offers>>

-----------------------------------------------------------------------------
(* What is stored *)

OfferState == [status: {"NEW", "ACCEPTED", "DECLINED"}, reason: Optional(Gruende)]

\* More mandatory kinds of work than are listed nobody could fulfil.
AufgabenMin(dto) == Clamp(0, Cardinality(dto.aufgaben), dto.aufgabenMin)

\* Mutant: the range is stored as it was sent.
SpanneSent(von, bis) == <<von, bis>>

\* A range the wrong way round is turned.
Spanne(von, bis) == IF Below(bis, von) THEN <<bis, von>> ELSE <<von, bis>>

Ungewichtet == [key \in Keys |-> None]

\* Two salaries the wrong way round are swapped; one that is missing stays missing.
SalaryMax(dto) ==
    IF dto.salaryMin # None /\ dto.salaryMax # None THEN Max({dto.salaryMin, dto.salaryMax})
    ELSE dto.salaryMax

\* saveJobData with anforderungsDaten.  A dto without weights leaves the stored ones.
SaveJobData(dto, gewichte) ==
    LET spanne == Spanne(dto.erfahrungMin, dto.erfahrungMax) IN
    [bereiche |-> dto.bereiche, berufe |-> dto.berufe, ausbildungMin |-> dto.ausbildungMin,
     aufgaben |-> dto.aufgaben, aufgabenMin |-> AufgabenMin(dto),
     erfahrungMin |-> spanne[1], erfahrungMax |-> spanne[2], montageMin |-> dto.montageMin,
     fuehrerscheinMin |-> dto.fuehrerscheinMin, deutschMin |-> dto.deutschMin,
     gebotenes |-> dto.gebotenes, startBis |-> dto.startBis,
     gewichte |-> IF dto.gewichte = None THEN gewichte ELSE dto.gewichte,
     company |-> Company, ort |-> IF dto.ort = None THEN CompanyOrt ELSE dto.ort,
     salary |-> SalaryMax(dto)]

\* Mutant: lists are not compared with the catalogue.
KatalogisiertSkalen(dto) == dto.deutschMin \in Optional(Deutsch)

\* What the catalogue does not know is refused: no score would ever take it into account.
Katalogisiert(dto) ==
    /\ dto.bereiche \subseteq Bereiche /\ dto.berufe \subseteq Berufe
    /\ dto.aufgaben \subseteq Aufgaben /\ dto.gebotenes \subseteq Wuensche
    /\ dto.ausbildungMin \in Optional(Ausbildungsstatus)
    /\ dto.erfahrungMin \in Optional(Erfahrung) /\ dto.erfahrungMax \in Optional(Erfahrung)
    /\ dto.montageMin \in Optional(Montage)
    /\ dto.fuehrerscheinMin \in Optional(Fuehrerschein)
    /\ dto.deutschMin \in Optional(Deutsch)
    /\ dto.startBis \in Optional(Start)

AnforderungVon(row) == [row EXCEPT !.gewichte = PruefeGewichte(@)]

\* jahreZuStufe
Stufe(jahre) ==
    Cardinality({grenze \in {0, 2, 5, 10} : jahre > grenze})

\* altesProfil: the answers of the old questionnaire.
AltesProfil(alt) ==
    [bereich |-> alt.bereich,
     ausbildungsstatus |-> IF "meister" \in alt.zertifikate THEN 3
                           ELSE IF "geselle" \in alt.zertifikate THEN 2 ELSE None,
     beruf |-> None, aufgaben |-> {},
     erfahrung |-> IF alt.jahre = None THEN None ELSE Stufe(alt.jahre),
     prioritaeten |-> IF alt.ziel \in {None, "naehe"} THEN {} ELSE {alt.ziel},
     montage |-> IF alt.montage THEN 2 ELSE None,
     fuehrerschein |-> IF "fuehrerschein" \in alt.zertifikate THEN 2 ELSE None,
     deutsch |-> None, start |-> None]

\* extractProfile: the settings write profil, the wizard its step, old accounts neither.
ExtractProfile(pd) ==
    IF pd.profil # None THEN pd.profil
    ELSE IF pd.schritt # None THEN pd.schritt
    ELSE IF pd.alt # None THEN AltesProfil(pd.alt)
    ELSE Leer

\* Entries without coordinates are skipped, a missing radius is 30 km.
WorkLocations(pd) ==
    {[ort |-> o.ort, radius |-> IF o.radius = None THEN 30 ELSE o.radius] :
        o \in {p \in pd.orte : p.ort # None}}

-----------------------------------------------------------------------------
(* What is read back *)

Declined(os) ==
    {[offer |-> offer, company |-> OfferOf[offer].company, ort |-> OfferOf[offer].ort,
      salary |-> OfferOf[offer].salary, reason |-> os[offer].reason] :
        offer \in {o \in Offers : os[o].status = "DECLINED"}}

Context(pd, os) == DeclineContext(Declined(os), WorkLocations(pd))

Reasons(row, pd) ==
    Knockouts(AnforderungVon(row), ExtractProfile(pd), WorkLocations(pd), row.ort)

Passed(row, pd) == Reasons(row, pd) = {}

\* buildJobDto: the score of a posting after the deductions.
MatchScore(row, pd, os, down) ==
    Adjusted(Score(AnforderungVon(row), ExtractProfile(pd), WorkLocations(pd), row.ort, down),
             Deduction(Context(pd, os), row, Minutes(WorkLocations(pd), row.ort)))

\* listJobs: an unknown travel time or salary meets no limit the craftsman sets.
Listed(row, pd, q) ==
    /\ Passed(row, pd)
    /\ q.maxTravelMinutes # None =>
           LET minutes == Minutes(WorkLocations(pd), row.ort)
           IN  minutes # None /\ minutes <= q.maxTravelMinutes
    /\ q.minSalary # None => row.salary # None /\ row.salary >= q.minSalary

\* The search takes only craftsmen with a work location near its centre.
InRange(pd, centre, radius) ==
    LET km == NearestKm(WorkLocations(pd), centre) IN km # None /\ km <= radius

\* Mutant: the lowest value asked for is taken for the highest.
ReachesAtMost(ist, soll) == soll = None \/ (ist # None /\ ist <= soll)

\* Unlike the requirements of a posting, a filter of the search is not met by no answer.
Reaches(ist, soll) == soll = None \/ (ist # None /\ ist >= soll)

\* The filters of the search mask.
Masked(k, s) ==
    /\ s.bereiche # {} => k.bereich \in s.bereiche
    /\ s.aufgaben \subseteq k.aufgaben
    /\ Reaches(k.erfahrung, s.erfahrungMin)
    /\ Reaches(k.ausbildungsstatus, s.ausbildungMin)
    /\ Reaches(k.montage, s.montageMin)

\* searchCandidates against a posting: his own radius excludes nobody.
Found(row, pd, s) ==
    /\ InRange(pd, s.centre, s.radiusKm)
    /\ Masked(ExtractProfile(pd), s)
    /\ Ausschluss(AnforderungVon(row), ExtractProfile(pd)) = {}

Anf == AnforderungVon(posting)
Kandidat == ExtractProfile(data)

-----------------------------------------------------------------------------
(* Operations *)

Init ==
    /\ posting \in Seeds \cup
           {SaveJobData(dto, Ungewichtet) : dto \in {d \in Dtos : Katalogisiert(d)}}
    /\ data \in Data
    /\ offers = [offer \in Offers |-> [status |-> "NEW", reason |-> None]]

\* updateJob
SaveJob(dto) ==
    /\ Katalogisiert(dto)
    /\ posting' = SaveJobData(dto, posting.gewichte)
    /\ UNCHANGED <<data, offers>>

SaveJobRefused(dto) ==
    /\ ~Katalogisiert(dto)
    /\ UNCHANGED vars

\* updateProfile of AuthService replaces all of profileData.
UpdateProfile(pd) ==
    /\ data' = pd
    /\ UNCHANGED <<posting, offers>>

\* saveWorkLocations keeps the rest of the profile as it read it, which may be the profile
\* of any earlier time: its two statements are PlacesRead and PlacesWrite of Registration.
SaveWorkLocations(read, orte) ==
    /\ data' = [read EXCEPT !.orte = orte]
    /\ UNCHANGED <<posting, offers>>

\* respondOffer takes any earlier answer back; only a refusal carries a reason.
RespondOffer(offer, answer) ==
    /\ answer.status # "NEW"
    /\ answer.status = "ACCEPTED" => answer.reason = None
    /\ offers' = [offers EXCEPT ![offer] = answer]
    /\ UNCHANGED <<posting, data>>

Next ==
    \/ \E dto \in Dtos : SaveJob(dto)
    \/ \E dto \in Dtos : SaveJobRefused(dto)
    \/ \E pd \in Data : UpdateProfile(pd)
    \/ \E read \in Data, orte \in Ortslisten : SaveWorkLocations(read, orte)
    \/ \E offer \in Offers, answer \in OfferState : RespondOffer(offer, answer)

Spec == Init /\ [][Next]_vars

-----------------------------------------------------------------------------
(* Properties *)

\* What is stored at any time can be read: rows and profiles have their types, a row asks
\* for what it lists.
StoredOK == PostingOK(posting) /\ DataOK(data) /\ offers \in [Offers -> OfferState]

Requirements ==
    [bereiche |-> Anf.bereiche, berufe |-> Anf.berufe, ausbildungMin |-> Anf.ausbildungMin,
     aufgaben |-> Anf.aufgaben, aufgabenMin |-> Anf.aufgabenMin,
     erfahrungMin |-> Anf.erfahrungMin, erfahrungMax |-> Anf.erfahrungMax,
     montageMin |-> Anf.montageMin, fuehrerscheinMin |-> Anf.fuehrerscheinMin,
     deutschMin |-> Anf.deutschMin, gebotenes |-> Anf.gebotenes, startBis |-> Anf.startBis,
     gewichte |-> Anf.gewichte]

\* Whatever was sent or seeded, the requirements read from the posting are of the
\* catalogue with weights from 0 to 5; the profile and the offers have their types.
TypeOK ==
    /\ Requirements \in Anforderung
    /\ Kandidat \in Profil
    /\ offers \in [Offers -> OfferState]

\* A craftsman who has everything the posting asks for.  Nothing ties his trade to his field,
\* in a profile or in a posting.
Ideal ==
    [bereich |-> IF Anf.bereiche = {} THEN None ELSE CHOOSE b \in Anf.bereiche : TRUE,
     beruf |-> IF Anf.berufe = {} THEN None ELSE CHOOSE b \in Anf.berufe : TRUE,
     ausbildungsstatus |-> 3, aufgaben |-> Anf.aufgaben, prioritaeten |-> Anf.gebotenes,
     erfahrung |-> IF Anf.erfahrungMin = None THEN Anf.erfahrungMax ELSE Anf.erfahrungMin,
     montage |-> 3, fuehrerschein |-> 3, deutsch |-> 3, start |-> 0]

\* saveJobData never stores a posting nobody can fulfil, however contradictory the
\* employer's input was: somebody passes every exclusion and reaches 100.
SomebodyFits ==
    /\ Ausschluss(Anf, Ideal) = {}
    /\ \A down \in BOOLEAN : BaseScore(Anf, Ideal, down) = 100

\* Stored weights that are no numbers do not turn a posting into a perfect match: nothing
\* is counted only where nothing can be compared or a number below a half was stored, which
\* is rounded to 0.
NothingCountedForAReason ==
    Counted(Anf, Kandidat) = {} =>
        \A key \in Keys : Anwendbar(Anf, Kandidat, key) =>
            posting.gewichte[key] \in Int /\ posting.gewichte[key] < 5

Nenner == 10 * Max({1, Cardinality(Anf.aufgaben)}) * Max({1, Cardinality(Kandidat.prioritaeten)})

Abweichung(key) ==
    LET f == Fehlt(Anf, Kandidat, key) IN Gewicht(Anf, key) * f[1] * (Nenner \div f[2])

\* The score is the weighted mean of the criteria that apply, to within a point of the
\* exact fraction although every penalty is rounded before it is added.
ScoreIsTheMean ==
    LET counted == Counted(Anf, Kandidat)
        weight ==
            Summe([key \in Keys |-> IF key \in counted THEN Gewicht(Anf, key) ELSE 0]) * Nenner
        missing == Summe([key \in Keys |-> IF key \in counted THEN Abweichung(key) ELSE 0])
    IN
    counted # {} => \A down \in BOOLEAN :
        Km(BaseScore(Anf, Kandidat, down) * weight, 100 * (weight - missing)) <= weight

\* The score says what it claims to say, for weights of any kind and a criterion missing.
ScoreExplained == NothingCountedForAReason /\ ScoreIsTheMean

SameJob == posting' = posting /\ offers' = offers
SamePlaces == data'.orte = data.orte

Scalars == {"bereich", "ausbildungsstatus", "beruf", "erfahrung", "montage", "fuehrerschein",
            "deutsch", "start"}

\* Some answers of k are withdrawn in l.
Withdrawn(k, l) ==
    /\ \A f \in Scalars : l[f] \in {k[f], None}
    /\ l.aufgaben \subseteq k.aufgaben

\* Not to know excludes nobody: withdrawing answers or work locations adds no reason for
\* exclusion, except kinds of work where the employer demands a number of them.
GapsNeverExclude ==
    /\ SameJob
    /\ SamePlaces \/ WorkLocations(data') = {}
    /\ Withdrawn(ExtractProfile(data), ExtractProfile(data'))
    => Reasons(posting, data') \subseteq Reasons(posting, data) \cup {"aufgaben"}

Queries == [maxTravelMinutes: {None, 30, 60}, minSalary: {None, 3000}]

\* To want to work in one more place excludes no posting that was shown before, whatever
\* limits he sets, and nobody is lost to a search that found him: every place counts with its
\* own radius, not only the closest, and the way is that from the closest.
AnotherPlaceNeverExcludes ==
    /\ SameJob
    /\ ExtractProfile(data') = ExtractProfile(data)
    /\ WorkLocations(data) # {} /\ WorkLocations(data) \subseteq WorkLocations(data')
    => /\ Reasons(posting, data') \subseteq Reasons(posting, data)
       /\ \A q \in Queries : Listed(posting, data, q) => Listed(posting, data', q)
       /\ \A s \in Searches : Found(posting, data, s) => Found(posting, data', s)

AtLeast(low, high) == (low = None /\ high = None)
                      \/ (low # None /\ high # None /\ low <= high)

\* Where l differs from k it answers the same questions and fits the posting better.  Beyond
\* the range of experience more is not better, and short of the licence that is asked for
\* the driving school counts more than a licence of a lower class.
Better(k, l) ==
    /\ l.bereich = k.bereich /\ l.prioritaeten = k.prioritaeten
    /\ l.beruf = k.beruf \/ (k.beruf # None /\ l.beruf \in Anf.berufe)
    /\ k.aufgaben \subseteq l.aufgaben /\ (k.aufgaben = {} => l.aufgaben = {})
    /\ \A f \in {"ausbildungsstatus", "montage", "deutsch", "erfahrung", "fuehrerschein"} :
           AtLeast(k[f], l[f])
    /\ AtLeast(l.start, k.start)
    /\ l.erfahrung = k.erfahrung \/ ~Below(Anf.erfahrungMax, l.erfahrung)
    /\ k.fuehrerschein = Fahrschule /\ l.fuehrerschein # Fahrschule =>
           ~Below(l.fuehrerschein, Anf.fuehrerscheinMin)

\* Improving on the answers given never hides a posting from him nor him from a search, and
\* never lowers the score.
BetterNeverHurts ==
    SameJob /\ SamePlaces /\ Better(ExtractProfile(data), ExtractProfile(data')) =>
        /\ Passed(posting, data) => Passed(posting, data')
        /\ \A s \in Searches : Found(posting, data, s) => Found(posting, data', s)
        /\ \A down \in BOOLEAN : MatchScore(posting, data', offers, down)
                                     >= MatchScore(posting, data, offers, down)

\* Telling less about himself, looking in one more place and being better at what he told
\* never costs a craftsman a posting, and the latter two never hide him from a search, by
\* whatever route the profile is changed.  To tell less does: the search asks for answers.
MoreNeverHurts ==
    [][GapsNeverExclude /\ AnotherPlaceNeverExcludes /\ BetterNeverHurts]_vars

\* The first known travel time replaces the fallback, and allows more than it did.
LimitLearned(before, after) ==
    /\ before.zuWeitMinuten = None
    /\ after.zuWeitMinuten # None /\ after.zuWeitMinuten > ZU_WEIT_FALLBACK_MIN

\* Refusing one more offer never raises the score of a posting, whatever was refused before,
\* unless the refusal replaces the assumed limit of 45 minutes by a larger one.
RefusalsNeverHelp ==
    [][/\ posting' = posting /\ data' = data
       /\ Declined(offers) \subseteq Declined(offers')
       /\ ~LimitLearned(Context(data, offers), Context(data, offers'))
       => \A down \in BOOLEAN : MatchScore(posting, data, offers', down)
                                    <= MatchScore(posting, data, offers, down)]_vars
=============================================================================
