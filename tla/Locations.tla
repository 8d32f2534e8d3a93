----------------------------- MODULE Locations ------------------------------
(***************************************************************************)
(* Where companies and postings are, and how long the way there takes: the *)
(* geocoding of postal codes, the handlers of EmployerService that store   *)
(* what it returns, and the exact travel time of JobsService.              *)
(*                                                                         *)
(* Both services outside may fail at any time.  Their caches live in the   *)
(* process.  Every handler reads, waits for an answer, and then writes.    *)
(***************************************************************************)
EXTENDS Naturals, FiniteSets

CONSTANTS
    Plz,            \* five-digit postal codes
    Malformed,      \* other strings the column takes, the empty one included
    Found,          \* postal codes Nominatim knows
    Region,         \* Leitregion of each postal code
    Given,          \* postal codes whose centres postings give themselves
    Companies,      \* primary keys of Company
    Own,            \* the company of an employer, there from the start
    Jobs,           \* primary keys of JobPosting
    Accounts,       \* e-mail addresses of employer accounts
    Origins,        \* where craftsmen start
    Calls,          \* slots of concurrent calls
    CacheMax,       \* CACHE_MAX
    None,           \* the null value
    Confs,          \* configurations of the routing service
    MaxCalls,       \* bound: calls begun
    MaxRestarts     \* bound: restarts of the process

ASSUME LocationsAssumption ==
    /\ Found \subseteq Plz /\ Given \subseteq Plz /\ Plz \cap Malformed = {} /\ Own \in Companies
    /\ Malformed # {}
    /\ None \notin Plz \cup Malformed \cup Companies \cup Jobs \cup Accounts
    /\ None \notin [exact: BOOLEAN, of: Plz \cup {Region[p] : p \in Plz}]
    /\ CacheMax \in Nat /\ MaxCalls \in Nat /\ MaxRestarts \in Nat
    /\ Confs \subseteq [host: {None, "demo", "own"}, allowPublicDemo: BOOLEAN,
                        isPubliclyServed: BOOLEAN]

VARIABLES
    conf,           \* osrmUrl, allowPublicDemo, isPubliclyServed
    company,        \* table Company
    job,            \* table JobPosting
    account,        \* company of each employer account
    places,         \* cache of GeocodingService
    blocked,        \* failedUntil: codes that failed within the last minute
    routes,         \* cache of RoutingService: pairs whose time is known
    calls,          \* local state of each call
    outage,         \* history: codes a request has failed for
    begun,          \* calls begun so far
    restarts        \* restarts so far

tables == <<company, job, account>>
geocoding == <<places, blocked, outage>>
vars == <<conf, tables, routes, geocoding, calls, begun, restarts>>

-----------------------------------------------------------------------------
(* Values *)

\* A place is the centre of a postal code or, coarsely, of its Leitregion.
Exact(p) == [exact |-> TRUE, of |-> p]
fallback(p) == [exact |-> FALSE, of |-> Region[p]]
Places == {Exact(p) : p \in Plz} \cup {fallback(p) : p \in Plz}

\* The places that belong to a postal code.
At(p) == {Exact(p), fallback(p)}

Codes == Plz \cup Malformed
Company == [state: {"unused", "live"}, plz: Codes, at: Places \cup {None}]
NoCompany == [state |-> "unused", plz |-> CHOOSE m \in Malformed : TRUE, at |-> None]

\* of: history, the postal code of the company row the place was taken from.
Job == [company: Companies \cup {None}, at: Places \cup {None}, of: Codes \cup {None}]
NoJob == [company |-> None, at |-> None, of |-> None]

Call == [pc: {"idle", "fetch", "store", "account", "intakeJob", "route", "answer"},
         kind: {"profile", "job", "intake", "travel"}, co: Companies \cup {None},
         plz: Codes, row: Company, j: Jobs \cup {None}, account: Accounts \cup {None},
         coords: Places \cup {None}, from: Origins \cup {None}, to: Places \cup {None},
         timed: BOOLEAN,    \* history: the time was in the cache or in the answer
         cleared: BOOLEAN]  \* history: another call has cleared the cache since

Idle == [pc |-> "idle", kind |-> "profile", co |-> None, plz |-> NoCompany.plz,
         row |-> NoCompany, j |-> None, account |-> None, coords |-> None,
         from |-> None, to |-> None, timed |-> FALSE, cleared |-> FALSE]

Goto(c, call) == calls' = [calls EXCEPT ![c] = call]

\* A handler that writes is called.
Begin(c, call) ==
    /\ calls[c].pc = "idle"
    /\ begun < MaxCalls
    /\ begun' = begun + 1
    /\ Goto(c, call)

Init ==
    /\ conf \in Confs
    /\ company = [co \in Companies |->
                     IF co = Own THEN [NoCompany EXCEPT !.state = "live"] ELSE NoCompany]
    /\ job = [j \in Jobs |-> NoJob]
    /\ account = [a \in Accounts |-> None]
    /\ places = [p \in Plz |-> None]
    /\ blocked = {} /\ routes = {} /\ outage = {}
    /\ calls = [c \in Calls |-> Idle]
    /\ begun = 0 /\ restarts = 0

-----------------------------------------------------------------------------
(* GeocodingService.resolve *)

\* Mutant: one failure blocks every postal code.
BlockedAll(p) == blocked # {}

Blocked(p) == p \in blocked

\* What is answered without a request: nothing for a malformed code, what is cached, and
\* the coarse place within a minute of a failure.
Resolve(call) ==
    LET p == call.plz IN
    IF p \notin Plz THEN [call EXCEPT !.pc = "store"]
    ELSE IF places[p] # None THEN [call EXCEPT !.pc = "store", !.coords = places[p]]
    ELSE IF Blocked(p) THEN [call EXCEPT !.pc = "store", !.coords = fallback(p)]
    ELSE [call EXCEPT !.pc = "fetch"]

\* A hit is cached, and so is the coarse place where there is none.
FetchAnswered(c) ==
    LET p == calls[c].plz
        coords == IF p \in Found THEN Exact(p) ELSE fallback(p)
    IN
    /\ calls[c].pc = "fetch"
    /\ places' = [places EXCEPT ![p] = coords]
    /\ Goto(c, [calls[c] EXCEPT !.pc = "store", !.coords = coords])
    /\ UNCHANGED <<conf, tables, routes, blocked, outage, begun, restarts>>

\* Mutant: the coarse place is remembered for good.
RememberedAfterFailure(p) == [places EXCEPT ![p] = fallback(p)]

\* A failure is remembered for a minute only.
AfterFailure(p) == places

FetchFails(c) ==
    LET p == calls[c].plz IN
    /\ calls[c].pc = "fetch"
    /\ places' = AfterFailure(p)
    /\ blocked' = blocked \cup {p}
    /\ outage' = outage \cup {p}
    /\ Goto(c, [calls[c] EXCEPT !.pc = "store", !.coords = fallback(p)])
    /\ UNCHANGED <<conf, tables, routes, begun, restarts>>

\* The minute is over.
Unblock(p) ==
    /\ p \in blocked
    /\ blocked' = blocked \ {p}
    /\ UNCHANGED <<conf, tables, routes, places, outage, calls, begun, restarts>>

-----------------------------------------------------------------------------
(* The company profile, postings, and companies set up by an administrator *)

UpdateProfileRead(c, plz) ==
    /\ Begin(c, Resolve([Idle EXCEPT !.kind = "profile", !.co = Own, !.plz = plz]))
    /\ UNCHANGED <<conf, tables, routes, geocoding, restarts>>

\* Mutant: coordinates are written only where there are none yet.
PatchedOnce(row, call) ==
    [row EXCEPT !.plz = call.plz, !.at = IF @ = None THEN call.coords ELSE @]

\* One update writes the code and, if it was resolved, its place.
Patched(row, call) ==
    [row EXCEPT !.plz = call.plz, !.at = IF call.coords = None THEN @ ELSE call.coords]

UpdateProfileWrite(c) ==
    /\ calls[c].pc = "store" /\ calls[c].kind = "profile"
    /\ company' = [company EXCEPT ![calls[c].co] = Patched(@, calls[c])]
    /\ Goto(c, Idle)
    /\ UNCHANGED <<conf, job, account, routes, geocoding, begun, restarts>>

\* saveJobData: a company without a place is resolved once more.
SaveJobData(call) == IF call.row.at = None THEN Resolve(call) ELSE [call EXCEPT !.pc = "store"]

\* createJob and updateJob of an employer; the row was read by requireEmployer.
SaveJobRead(c, j) ==
    /\ job[j].company \in {None, Own}
    /\ Begin(c, SaveJobData([Idle EXCEPT !.kind = "job", !.co = Own, !.row = company[Own],
                                         !.plz = company[Own].plz, !.j = j]))
    /\ UNCHANGED <<conf, tables, routes, geocoding, restarts>>

\* company.lat ?? centroid?.lat ?? null
PlaceOf(call) == IF call.row.at = None THEN call.coords ELSE call.row.at

NewJob(call) == [company |-> call.co, at |-> PlaceOf(call), of |-> call.row.plz]

\* A place given in the posting itself comes before that of the company.
Posting(call, given) ==
    IF given = None THEN NewJob(call)
    ELSE [company |-> call.co, at |-> given, of |-> None]

GivenPlaces == {Exact(p) : p \in Given} \cup {None}

SaveJobWrite(c, given) ==
    /\ calls[c].pc = "store" /\ calls[c].kind = "job"
    /\ job[calls[c].j].company \in {None, calls[c].co}
    /\ job' = [job EXCEPT ![calls[c].j] = Posting(calls[c], given)]
    /\ Goto(c, Idle)
    /\ UNCHANGED <<conf, company, account, routes, geocoding, begun, restarts>>

\* adminCreateCompany: the account must be free; then the code is resolved.
IntakeRead(c, plz, a) ==
    /\ a # None => account[a] = None
    /\ Begin(c, Resolve([Idle EXCEPT !.kind = "intake", !.plz = plz, !.account = a]))
    /\ UNCHANGED <<conf, tables, routes, geocoding, restarts>>

IntakeCompany(c, co) ==
    LET call == calls[c]
        row == [state |-> "live", plz |-> call.plz, at |-> call.coords]
    IN
    /\ call.pc = "store" /\ call.kind = "intake"
    /\ company[co].state = "unused"
    /\ company' = [company EXCEPT ![co] = row]
    /\ Goto(c, [call EXCEPT !.pc = IF call.account = None THEN "intakeJob" ELSE "account",
                            !.co = co, !.row = row])
    /\ UNCHANGED <<conf, job, account, routes, geocoding, begun, restarts>>

\* Mutant: an account that has appeared in the meantime is passed over.
AfterAccountAnyway(call) == [call EXCEPT !.pc = "intakeJob"]

\* The address is unique: a second account fails the call, and the company stays.
AfterAccount(call) ==
    IF account[call.account] = None THEN [call EXCEPT !.pc = "intakeJob"] ELSE Idle

IntakeAccount(c) ==
    LET call == calls[c] IN
    /\ call.pc = "account"
    /\ account' = [account EXCEPT ![call.account] = IF @ = None THEN call.co ELSE @]
    /\ Goto(c, AfterAccount(call))
    /\ UNCHANGED <<conf, company, job, routes, geocoding, begun, restarts>>

\* createJob with the row just made: a place that could be resolved is in it already.
IntakeJob(c, j, given) ==
    /\ calls[c].pc = "intakeJob"
    /\ job[j].company = None
    /\ job' = [job EXCEPT ![j] = Posting(calls[c], given)]
    /\ UNCHANGED <<conf, company, account, routes, geocoding, calls, begun, restarts>>

\* All postings are made, or a statement fails: what was written stays.
IntakeEnds(c) ==
    /\ calls[c].kind = "intake" /\ calls[c].pc \in {"store", "account", "intakeJob"}
    /\ Goto(c, Idle)
    /\ UNCHANGED <<conf, tables, routes, geocoding, begun, restarts>>

-----------------------------------------------------------------------------
(* RoutingService and travelTime *)

\* decideRouting
Decide ==
    IF conf.host = "demo" THEN ~conf.isPubliclyServed /\ conf.allowPublicDemo
    ELSE conf.host # None

Pair(call) == <<call.from, call.to>>

TravelRead(c, j, from) ==
    LET call == [Idle EXCEPT !.kind = "travel", !.from = from, !.to = job[j].at]
        fetched == Decide /\ Pair(call) \notin routes
    IN
    /\ calls[c].pc = "idle"
    /\ job[j].at # None
    /\ Goto(c, [call EXCEPT !.pc = IF fetched THEN "route" ELSE "answer",
                            !.timed = Decide /\ ~fetched])
    /\ UNCHANGED <<conf, tables, routes, geocoding, begun, restarts>>

\* Nothing is found where the posting has no place.
TravelNotFound(c, j) ==
    /\ calls[c].pc = "idle"
    /\ job[j].at = None
    /\ UNCHANGED vars

\* Mutant: nothing limits the cache.
NeverFull == FALSE

Full == Cardinality(routes) > CacheMax

\* Mutant: the cache is cleared after the time has been put into it.
RememberedLost(times) == IF Full THEN {} ELSE routes \cup times

\* A full cache is cleared before the new time goes in.
Remembered(times) == IF Full THEN times ELSE routes \cup times

\* The answer holds a time, or none where there is no road.  Other calls whose time was in
\* the cache may find it gone.
RouteAnswered(c, road) ==
    /\ calls[c].pc = "route"
    /\ routes' = Remembered(IF road THEN {Pair(calls[c])} ELSE {})
    /\ calls' = [d \in Calls |->
           IF d = c THEN [calls[c] EXCEPT !.pc = "answer", !.timed = road]
           ELSE [calls[d] EXCEPT !.cleared = @ \/ (Full /\ calls[d].pc = "answer")]]
    /\ UNCHANGED <<conf, tables, geocoding, begun, restarts>>

\* No answer in time, or an error.
RouteFails(c) ==
    /\ calls[c].pc = "route"
    /\ Goto(c, [calls[c] EXCEPT !.pc = "answer"])
    /\ UNCHANGED <<conf, tables, routes, geocoding, begun, restarts>>

\* exact: drivingMinutes reads the time from the cache again.
Answered(c) == Decide /\ Pair(calls[c]) \in routes

TravelAnswer(c) ==
    /\ calls[c].pc = "answer"
    /\ Goto(c, Idle)
    /\ UNCHANGED <<conf, tables, routes, geocoding, begun, restarts>>

-----------------------------------------------------------------------------

Restart ==
    /\ restarts < MaxRestarts
    /\ calls' = [c \in Calls |-> Idle]
    /\ places' = [p \in Plz |-> None]
    /\ blocked' = {} /\ routes' = {}
    /\ restarts' = restarts + 1
    /\ UNCHANGED <<conf, tables, outage, begun>>

Step(c) ==
    \/ FetchAnswered(c) \/ FetchFails(c)
    \/ \E plz \in Codes : UpdateProfileRead(c, plz)
    \/ UpdateProfileWrite(c)
    \/ \E j \in Jobs : SaveJobRead(c, j)
    \/ \E given \in GivenPlaces : SaveJobWrite(c, given)
    \/ \E plz \in Codes, a \in Accounts \cup {None} : IntakeRead(c, plz, a)
    \/ \E co \in Companies : IntakeCompany(c, co)
    \/ IntakeAccount(c)
    \/ \E j \in Jobs, given \in GivenPlaces : IntakeJob(c, j, given)
    \/ IntakeEnds(c)
    \/ \E j \in Jobs : TravelNotFound(c, j) \/ \E from \in Origins : TravelRead(c, j, from)
    \/ \E road \in BOOLEAN : RouteAnswered(c, road)
    \/ RouteFails(c) \/ TravelAnswer(c)

Next ==
    \/ \E c \in Calls : Step(c)
    \/ \E p \in Plz : Unblock(p)
    \/ Restart

Spec == Init /\ [][Next]_vars

-----------------------------------------------------------------------------
(* Properties *)

\* The tables, the caches and the local states have their types; the cache of times never
\* holds more than one entry above CacheMax.
TypeOK ==
    /\ conf \in Confs
    /\ company \in [Companies -> Company]
    /\ job \in [Jobs -> Job]
    /\ account \in [Accounts -> Companies \cup {None}]
    /\ places \in [Plz -> Places \cup {None}]
    /\ blocked \subseteq Plz /\ outage \subseteq Plz
    /\ routes \subseteq Origins \X Places /\ Cardinality(routes) <= CacheMax + 1
    /\ calls \in [Calls -> Call]
    /\ begun \in Nat /\ restarts \in Nat

\* A company with a valid postal code is at the place of that code.
CompaniesAtTheirCode ==
    \A co \in Companies : company[co].plz \in Plz => company[co].at \in At(company[co].plz)

\* A posting without a place of its own is where its company was when it was saved.
JobsWhereCompanyWas ==
    \A j \in Jobs : job[j].of \in Plz => job[j].at \in At(job[j].of)

\* Code and place stay together, whatever updates of the profile, postings and intakes
\* overlap and fail; only a code that is no postal code leaves an older place behind.
PlaceFollowsCode == CompaniesAtTheirCode /\ JobsWhereCompanyWas

\* A coarse place is remembered for good only where the service knows nothing better.
CoarseOnlyIfUnknown ==
    \A p \in Found : places[p] \in {None, Exact(p)}

\* Without a failed request for its own code, a company whose code is known is placed
\* exactly: failures for other codes and restarts do not degrade it.
ExactWithoutOutage ==
    \A co \in Companies : company[co].plz \in Found \ outage =>
        company[co].at = Exact(company[co].plz)

\* An outage of the geocoding service degrades what is resolved for the code it hit during
\* that outage, and nothing else.
OutageStaysLocal == CoarseOnlyIfUnknown /\ ExactWithoutOutage

\* However intakes overlap, fail and are repeated, one account gets one company, and the
\* postings of an intake with an account go to the company of that account.
IntakeOnce ==
    \A c \in Calls : calls[c].pc = "intakeJob" /\ calls[c].account # None =>
        account[calls[c].account] = calls[c].co

\* A time that was in the cache or in the answer is given as exact, unless an overlapping
\* call has cleared the cache in between.
EstimateOnlyIfNeeded ==
    \A c \in Calls : calls[c].pc = "answer" /\ calls[c].timed /\ ~calls[c].cleared => Answered(c)
=============================================================================
