CONSTANTS
    None = None
    elektro = elektro
    shk = shk
    b1 = b1
    b2 = b2
    b3 = b3
    unknown = unknown
    w1 = w1
    w2 = w2
    w3 = w3
    Bereiche <- MCBereiche
    Berufe <- MCBerufe
    BerufeVon <- MCBerufeVon
    Aufgaben <- MCAufgaben
    Wuensche <- MCWuensche
    Dtos <- MCDtos
    Seeds <- MCSeeds
    Data <- MCData
    Ortslisten <- MCOrtslisten
    Searches <- MCSearches
    Offers <- MCOffers
    OfferOf <- MCOfferOf
    Gruende = {"zu_weit", "gehalt"}
    Company = "own"
    CompanyOrt = 30
SPECIFICATION Spec
INVARIANTS
    TypeOK
    SomebodyFits
    ScoreExplained
PROPERTIES
    MoreNeverHurts
    RefusalsNeverHelp
