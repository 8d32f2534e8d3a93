----------------------------- MODULE MCMatching -----------------------------
(* Model-checking instance of Matching. *)
EXTENDS Matching, TLC

CONSTANTS elektro, shk, b1, b2, b3, unknown, w1, w2, w3

MCBereiche == {elektro, shk}
MCBerufe == {b1, b2, b3}
MCBerufeVon == (elektro :> {b1, b2}) @@ (shk :> {b3})
MCAufgaben == {"pv", "netz", "sps"}
MCWuensche == {w1, w2, w3}

Frei == [bereiche |-> {}, berufe |-> {}, ausbildungMin |-> None, aufgaben |-> {},
         aufgabenMin |-> 0, erfahrungMin |-> None, erfahrungMax |-> None,
         montageMin |-> None, fuehrerscheinMin |-> None, deutschMin |-> None,
         gebotenes |-> {}, startBis |-> None, gewichte |-> None, ort |-> None,
         salaryMin |-> None, salaryMax |-> None]

\* Many requirements; experience and salary the wrong way round.
Voll == [Frei EXCEPT !.bereiche = {elektro}, !.berufe = {b1}, !.ausbildungMin = 2,
                     !.aufgaben = MCAufgaben, !.aufgabenMin = 2, !.erfahrungMin = 3,
                     !.erfahrungMax = 1, !.montageMin = 1, !.fuehrerscheinMin = 3,
                     !.deutschMin = 2, !.gebotenes = {w1, w2}, !.startBis = 2,
                     !.ort = 45, !.salaryMin = 3000, !.salaryMax = 2500]

\* Weights of its own, one of them 0, and more mandatory kinds of work than listed.
Gewichtet == [Frei EXCEPT !.aufgaben = {"pv", "sps"}, !.aufgabenMin = 3, !.startBis = 0,
                          !.fuehrerscheinMin = 2, !.salaryMax = 3500,
                          !.gewichte = [Ungewichtet EXCEPT !["start"] = 50, !["aufgaben"] = 0]]

Fremd == [Frei EXCEPT !.berufe = {b1, unknown}]

MCDtos == {Voll, Gewichtet, Fremd}

\* 999, -7, 0.3, 0.5, 3.6, and no number.
Roh == [aufgaben |-> 9990, erfahrung |-> -70, start |-> 3, prioritaeten |-> 5,
        fuehrerschein |-> 36, beruf |-> unknown]

\* The seed writes the range the right way round, and weights of any kind.
MCSeeds == {SaveJobData([Voll EXCEPT !.erfahrungMin = 1, !.erfahrungMax = 3], Roh)}

Gut == [bereich |-> elektro, ausbildungsstatus |-> 3, beruf |-> b1, aufgaben |-> MCAufgaben,
        erfahrung |-> 2, prioritaeten |-> {w1, w3}, montage |-> 2, fuehrerschein |-> 3,
        deutsch |-> 3, start |-> 0]

Profile == {Gut, Leer,
            [Gut EXCEPT !.beruf = b2, !.aufgaben = {"pv", "netz"}, !.erfahrung = 1,
                        !.ausbildungsstatus = 2, !.montage = 1, !.deutsch = 2],
            [Gut EXCEPT !.start = 2], [Gut EXCEPT !.beruf = b2, !.erfahrung = None],
            [Gut EXCEPT !.beruf = b3, !.erfahrung = 4],
            [Gut EXCEPT !.aufgaben = {"pv"}, !.deutsch = None],
            [Gut EXCEPT !.aufgaben = {}, !.start = 24, !.beruf = None, !.fuehrerschein = None],
            [Leer EXCEPT !.beruf = b1, !.start = 2],
            [Gut EXCEPT !.fuehrerschein = 1], [Gut EXCEPT !.fuehrerschein = 2],
            [Gut EXCEPT !.fuehrerschein = 0, !.deutsch = 0, !.bereich = shk]}

Nah == {[ort |-> 85, radius |-> 50]}
\* The closest place does not cover a posting at 45, the other one does.
Weit == {[ort |-> 10, radius |-> None], [ort |-> 85, radius |-> 50],
         [ort |-> None, radius |-> 50]}
MCOrtslisten == {{}, Nah, Weit}

\* Everything around the company, and the whole mask around the posting at 45.
MCSearches ==
    {[bereiche |-> {}, aufgaben |-> {}, erfahrungMin |-> None, ausbildungMin |-> None,
      montageMin |-> None, centre |-> 30, radiusKm |-> 50],
     [bereiche |-> {elektro}, aufgaben |-> {"pv"}, erfahrungMin |-> 1, ausbildungMin |-> 2,
      montageMin |-> 1, centre |-> 45, radiusKm |-> 35]}

NoData == [profil |-> None, schritt |-> None, alt |-> None, orte |-> {}]

MCData ==
    {[NoData EXCEPT !.profil = p, !.orte = Weit] : p \in Profile}
    \cup {NoData, [NoData EXCEPT !.schritt = Gut],
          [NoData EXCEPT !.orte = Nah,
               !.alt = [bereich |-> elektro, zertifikate |-> {"geselle", "fuehrerschein"},
                        jahre |-> 5, montage |-> TRUE, ziel |-> w1]]}

MCOffers == {1, 2, 3}
MCOfferOf ==
    (1 :> [company |-> "own", ort |-> None, salary |-> 2500])
    @@ (2 :> [company |-> "own", ort |-> 100, salary |-> 3500])
    @@ (3 :> [company |-> "other", ort |-> 160, salary |-> 4000])
=============================================================================
