-------------------------- MODULE LocationsProofs ---------------------------
(* Proofs about Locations, for any number of codes, companies and calls. *)
EXTENDS Locations, FiniteSetTheorems, TLAPS

-----------------------------------------------------------------------------
(* Places and calls *)

LEMMA PlacesFacts ==
    /\ None \notin Places
    /\ \A p \in Plz : Exact(p) \in Places /\ fallback(p) \in Places /\ At(p) \subseteq Places
<1> DEFINE S == [exact: BOOLEAN, of: Plz \cup {Region[p] : p \in Plz}]
<1>1. \A p \in Plz : Exact(p) \in S /\ fallback(p) \in S
  BY DEF Exact, fallback
<1>2. None \notin S
  BY LocationsAssumption
<1> HIDE DEF S
<1> QED BY <1>1, <1>2 DEF Places, At

LEMMA NoCompanyTypes == NoCompany \in Company /\ NoCompany.plz \in Malformed
                        /\ NoCompany.plz \notin Plz /\ NoCompany.at = None
BY LocationsAssumption DEF NoCompany, Company, Codes

RowOK(row) == row.plz \in Plz => row.at \in At(row.plz)

\* What a call under way may rely on, while requests have failed for the codes in out.
Good(r, out) ==
    /\ r \in Call
    /\ r.pc = "fetch" => r.plz \in Plz
    /\ r.pc \in {"route", "answer"} => r.from \in Origins /\ r.to \in Places
    /\ r.kind = "profile" /\ r.pc # "idle" => r.co \in Companies
    /\ r.pc \in {"account", "intakeJob"} => r.co \in Companies
    /\ r.pc = "route" => ~r.timed
    /\ RowOK(r.row)
    /\ r.kind \in {"profile", "intake"} /\ r.pc = "store" /\ r.plz \in Plz =>
           /\ r.coords \in At(r.plz)
           /\ r.plz \in Found \ out => r.coords = Exact(r.plz)

LEMMA GoodLater ==
    ASSUME NEW r, NEW out, NEW out2, Good(r, out), out \subseteq out2 PROVE Good(r, out2)
BY DEF Good

LEMMA IdleGood == ASSUME NEW out PROVE Good(Idle, out)
BY NoCompanyTypes DEF Good, Idle, Call, Company, RowOK

GoodCalls == \A c \in Calls : Good(calls[c], outage)

\* The cache holds places of its codes, the exact one if there is one; a code is blocked
\* only after a failure.
CacheOK == /\ \A p \in Plz : places[p] # None => places[p] \in At(p)
           /\ CoarseOnlyIfUnknown
           /\ blocked \subseteq outage

LEMMA ResolveGood ==
    ASSUME TypeOK, CacheOK, NEW r \in Call, RowOK(r.row), r.kind = "profile" => r.co \in Companies
    PROVE  Good(Resolve(r), outage) /\ Resolve(r).pc \in {"store", "fetch"}
<1> DEFINE p == r.plz
<1>1. CASE p \notin Plz
  BY <1>1 DEF Resolve, Good, Call
<1>2. CASE p \in Plz /\ places[p] # None
  <2>1. places[p] \in At(p) /\ places[p] \in Places
    BY <1>2, PlacesFacts DEF CacheOK
  <2>2. p \in Found => places[p] = Exact(p)
    BY <1>2 DEF CacheOK, CoarseOnlyIfUnknown
  <2>3. Resolve(r) = [r EXCEPT !.pc = "store", !.coords = places[p]]
    BY <1>2 DEF Resolve
  <2> QED BY <2>1, <2>2, <2>3 DEF Good, Call
<1>3. CASE p \in Plz /\ places[p] = None /\ Blocked(p)
  <2>1. p \in outage /\ fallback(p) \in At(p) /\ fallback(p) \in Places
    BY <1>3, PlacesFacts DEF CacheOK, Blocked, At
  <2>2. Resolve(r) = [r EXCEPT !.pc = "store", !.coords = fallback(p)]
    BY <1>3 DEF Resolve
  <2> QED BY <2>1, <2>2 DEF Good, Call
<1>4. CASE p \in Plz /\ places[p] = None /\ ~Blocked(p)
  <2>1. Resolve(r) = [r EXCEPT !.pc = "fetch"]
    BY <1>4 DEF Resolve
  <2> QED BY <1>4, <2>1 DEF Good, Call
<1> QED BY <1>1, <1>2, <1>3, <1>4

-----------------------------------------------------------------------------
(* How a step changes the calls *)

\* The call c becomes r, and the others are left alone.
Moved(c, r) == calls' = [calls EXCEPT ![c] = r] /\ Good(r, outage')

\* The records the calls become.
Fetched(c) == [calls[c] EXCEPT !.pc = "store",
                   !.coords = IF calls[c].plz \in Found THEN Exact(calls[c].plz)
                              ELSE fallback(calls[c].plz)]
Failed(c) == [calls[c] EXCEPT !.pc = "store", !.coords = fallback(calls[c].plz)]

LEMMA FetchAnsweredMoves ==
    ASSUME TypeOK, GoodCalls, NEW c \in Calls, FetchAnswered(c)
    PROVE  Moved(c, Fetched(c)) /\ calls[c].plz \in Plz
<1> DEFINE p == calls[c].plz
           coords == IF p \in Found THEN Exact(p) ELSE fallback(p)
<1>1. Good(calls[c], outage) /\ calls[c].pc = "fetch" /\ outage' = outage
  BY DEF GoodCalls, FetchAnswered
<1>2. p \in Plz
  BY <1>1 DEF Good
<1>3. coords \in At(p) /\ coords \in Places /\ (p \in Found => coords = Exact(p))
  BY <1>2, PlacesFacts DEF At
<1>4. Fetched(c) = [calls[c] EXCEPT !.pc = "store", !.coords = coords]
  BY DEF Fetched
<1>5. calls' = [calls EXCEPT ![c] = Fetched(c)]
  BY DEF FetchAnswered, Goto, Fetched
<1> HIDE DEF coords
<1>6. Good(Fetched(c), outage)
  BY <1>1, <1>3, <1>4 DEF Good, Call
<1> QED BY <1>1, <1>2, <1>5, <1>6 DEF Moved

LEMMA FetchFailsMoves ==
    ASSUME TypeOK, GoodCalls, NEW c \in Calls, FetchFails(c)
    PROVE  Moved(c, Failed(c)) /\ calls[c].plz \in Plz
<1> DEFINE p == calls[c].plz
<1>1. Good(calls[c], outage) /\ calls[c].pc = "fetch" /\ p \in outage'
  BY DEF GoodCalls, FetchFails
<1>2. p \in Plz
  BY <1>1 DEF Good
<1>3. fallback(p) \in At(p) /\ fallback(p) \in Places
  BY <1>2, PlacesFacts DEF At
<1>4. Failed(c) = [calls[c] EXCEPT !.pc = "store", !.coords = fallback(p)]
  BY DEF Failed
<1>5. Good(Failed(c), outage')
  BY <1>1, <1>3, <1>4 DEF Good, Call
<1> QED BY <1>2, <1>4, <1>5 DEF Moved, FetchFails, Goto

Reads(c) == \/ \E plz \in Codes : UpdateProfileRead(c, plz)
            \/ \E j \in Jobs : SaveJobRead(c, j)
            \/ \E plz \in Codes, a \in Accounts \cup {None} : IntakeRead(c, plz, a)

LEMMA ReadsMoves ==
    ASSUME TypeOK, CacheOK, CompaniesAtTheirCode, NEW c \in Calls, Reads(c)
    PROVE  /\ \E r : Moved(c, r) /\ r.pc \in {"store", "fetch"}
           /\ UNCHANGED <<conf, tables, routes, geocoding, restarts>> /\ begun' = begun + 1
<1>1. UNCHANGED <<conf, tables, routes, geocoding, restarts>> /\ begun' = begun + 1
  BY DEF Reads, UpdateProfileRead, SaveJobRead, IntakeRead, Begin
<1>2. Idle \in Call /\ RowOK(NoCompany) /\ Idle.row = NoCompany
  BY NoCompanyTypes, IdleGood DEF RowOK, Good, Idle
<1>3. ASSUME NEW plz \in Codes, UpdateProfileRead(c, plz)
      PROVE  \E r : Moved(c, r) /\ r.pc \in {"store", "fetch"}
  <2> DEFINE r == [Idle EXCEPT !.kind = "profile", !.co = Own, !.plz = plz]
  <2>1. r \in Call /\ RowOK(r.row) /\ r.co \in Companies
    BY <1>2, LocationsAssumption DEF Call, Idle
  <2>2. calls' = [calls EXCEPT ![c] = Resolve(r)]
    BY <1>3 DEF UpdateProfileRead, Begin, Goto
  <2> HIDE DEF r
  <2> QED BY <1>1, <2>1, <2>2, ResolveGood DEF Moved, geocoding
<1>4. ASSUME NEW j \in Jobs, SaveJobRead(c, j)
      PROVE  \E r : Moved(c, r) /\ r.pc \in {"store", "fetch"}
  <2> DEFINE r == [Idle EXCEPT !.kind = "job", !.co = Own, !.row = company[Own],
                               !.plz = company[Own].plz, !.j = j]
  <2>1. company[Own] \in Company /\ RowOK(company[Own]) /\ company[Own].plz \in Codes
    BY LocationsAssumption DEF TypeOK, CompaniesAtTheirCode, RowOK, Company
  <2>2. r \in Call /\ RowOK(r.row) /\ r.kind = "job"
    BY <1>2, <2>1, LocationsAssumption DEF Call, Idle
  <2>3. calls' = [calls EXCEPT ![c] = SaveJobData(r)]
    BY <1>4 DEF SaveJobRead, Begin, Goto
  <2> HIDE DEF r
  <2>4. CASE r.row.at = None
    BY <1>1, <2>2, <2>3, <2>4, ResolveGood DEF SaveJobData, Moved, geocoding
  <2>5. CASE r.row.at # None
    <3> DEFINE stored == [r EXCEPT !.pc = "store"]
    <3>1. Good(stored, outage) /\ stored.pc = "store"
      BY <2>2 DEF Good, Call
    <3>2. calls' = [calls EXCEPT ![c] = stored]
      BY <2>3, <2>5 DEF SaveJobData
    <3> HIDE DEF stored
    <3> QED BY <1>1, <3>1, <3>2 DEF Moved, geocoding
  <2> QED BY <2>4, <2>5
<1>5. ASSUME NEW plz \in Codes, NEW a \in Accounts \cup {None}, IntakeRead(c, plz, a)
      PROVE  \E r : Moved(c, r) /\ r.pc \in {"store", "fetch"}
  <2> DEFINE r == [Idle EXCEPT !.kind = "intake", !.plz = plz, !.account = a]
  <2>1. r \in Call /\ RowOK(r.row) /\ r.kind = "intake"
    BY <1>2 DEF Call, Idle
  <2>2. calls' = [calls EXCEPT ![c] = Resolve(r)]
    BY <1>5 DEF IntakeRead, Begin, Goto
  <2> HIDE DEF r
  <2> QED BY <1>1, <2>1, <2>2, ResolveGood DEF Moved, geocoding
<1> QED BY <1>1, <1>3, <1>4, <1>5 DEF Reads

Ends(c) == \/ UpdateProfileWrite(c) \/ IntakeEnds(c) \/ TravelAnswer(c)
           \/ \E given \in GivenPlaces : SaveJobWrite(c, given)

LEMMA EndsMoves == ASSUME NEW c \in Calls, Ends(c) PROVE Moved(c, Idle)
BY IdleGood DEF Ends, UpdateProfileWrite, IntakeEnds, TravelAnswer, SaveJobWrite, Moved, Goto

\* The company an intake sets up, and what the intake goes on with.
Taken(c) == [state |-> "live", plz |-> calls[c].plz, at |-> calls[c].coords]
Founded(c, co) == [calls[c] EXCEPT
    !.pc = IF calls[c].account = None THEN "intakeJob" ELSE "account",
    !.co = co, !.row = Taken(c)]

LEMMA IntakeCompanyMoves ==
    ASSUME GoodCalls, NEW c \in Calls, NEW co \in Companies, IntakeCompany(c, co)
    PROVE  /\ Moved(c, Founded(c, co)) /\ Taken(c) \in Company
           /\ company' = [company EXCEPT ![co] = Taken(c)]
           /\ calls[c].plz \in Found \ outage => calls[c].coords = Exact(calls[c].plz)
           /\ RowOK(Taken(c))
<1>1. Good(calls[c], outage) /\ calls[c].pc = "store" /\ calls[c].kind = "intake"
      /\ outage' = outage
  BY DEF GoodCalls, IntakeCompany, geocoding
<1>2. Taken(c) \in Company
  BY <1>1 DEF Good, Call, Taken, Company
<1>3. RowOK(Taken(c))
  BY <1>1 DEF Good, Taken, RowOK
<1>4. calls[c].plz \in Found \ outage => calls[c].coords = Exact(calls[c].plz)
  BY <1>1, LocationsAssumption DEF Good
<1>5. Good(Founded(c, co), outage)
  BY <1>1, <1>2, <1>3 DEF Good, Call, Founded
<1>6. calls' = [calls EXCEPT ![c] = Founded(c, co)]
  BY DEF IntakeCompany, Goto, Founded, Taken
<1>7. company' = [company EXCEPT ![co] = Taken(c)]
  BY DEF IntakeCompany, Taken
<1> QED BY <1>1, <1>2, <1>3, <1>4, <1>5, <1>6, <1>7 DEF Moved

LEMMA IntakeAccountMoves ==
    ASSUME GoodCalls, NEW c \in Calls, IntakeAccount(c)
    PROVE  Moved(c, AfterAccount(calls[c])) /\ calls[c] \in Call
<1>1. Good(calls[c], outage) /\ calls[c].pc = "account" /\ outage' = outage
  BY DEF GoodCalls, IntakeAccount, geocoding
<1>2. Good([calls[c] EXCEPT !.pc = "intakeJob"], outage)
  BY <1>1 DEF Good, Call
<1>3. Good(AfterAccount(calls[c]), outage)
  BY <1>2, IdleGood DEF AfterAccount
<1> QED BY <1>1, <1>3 DEF Moved, IntakeAccount, Goto, Good

\* What a question for a travel time becomes once it has looked at the cache.
Asked(c, j, from) ==
    LET call == [Idle EXCEPT !.kind = "travel", !.from = from, !.to = job[j].at]
        fetched == Decide /\ Pair(call) \notin routes
    IN  [call EXCEPT !.pc = IF fetched THEN "route" ELSE "answer", !.timed = Decide /\ ~fetched]

LEMMA TravelReadMoves ==
    ASSUME TypeOK, NEW c \in Calls, NEW j \in Jobs, NEW from \in Origins, TravelRead(c, j, from)
    PROVE  /\ Moved(c, Asked(c, j, from))
           /\ Asked(c, j, from).pc = "route" => Decide
           /\ Asked(c, j, from).timed => Decide /\ Pair(Asked(c, j, from)) \in routes
           /\ Asked(c, j, from).pc \in {"route", "answer"}
<1>1. job[j].at \in Places /\ outage' = outage
  BY DEF TypeOK, Job, TravelRead, geocoding
<1> DEFINE call == [Idle EXCEPT !.kind = "travel", !.from = from, !.to = job[j].at]
           fetched == Decide /\ Pair(call) \notin routes
           pc == IF fetched THEN "route" ELSE "answer"
           timed == Decide /\ ~fetched
<1>2. call \in Call /\ call.kind = "travel" /\ call.from = from /\ call.to = job[j].at
      /\ call.row = NoCompany
  BY <1>1, IdleGood DEF Good, Idle, Call
<1>3. Asked(c, j, from) = [call EXCEPT !.pc = pc, !.timed = timed]
  BY DEF Asked
<1>4. Pair(Asked(c, j, from)) = Pair(call)
  BY <1>2, <1>3 DEF Pair, Call
<1>5. timed \in BOOLEAN /\ pc \in {"route", "answer"}
  BY DEF Decide
<1>6. RowOK(NoCompany)
  BY NoCompanyTypes DEF RowOK
<1>7. Asked(c, j, from).pc = pc /\ Asked(c, j, from).timed = timed
  BY <1>2, <1>3 DEF Call
<1>8. Good(Asked(c, j, from), outage)
  <2>1. pc = "route" => ~timed
    OBVIOUS
  <2> HIDE DEF call, pc, timed
  <2> QED BY <1>1, <1>2, <1>3, <1>5, <1>6, <2>1 DEF Good, Call
<1>9. calls' = [calls EXCEPT ![c] = Asked(c, j, from)]
  BY DEF TravelRead, Goto, Asked
<1> QED BY <1>1, <1>4, <1>5, <1>7, <1>8, <1>9 DEF Moved

LEMMA RouteFailsMoves ==
    ASSUME GoodCalls, NEW c \in Calls, RouteFails(c)
    PROVE  Moved(c, [calls[c] EXCEPT !.pc = "answer"]) /\ calls[c] \in Call
<1>1. Good(calls[c], outage) /\ calls[c].pc = "route" /\ outage' = outage
  BY DEF GoodCalls, RouteFails, geocoding
<1>2. Good([calls[c] EXCEPT !.pc = "answer"], outage)
  BY <1>1 DEF Good, Call
<1> QED BY <1>1, <1>2 DEF Moved, RouteFails, Goto, Good

LEMMA RouteAnsweredMoves ==
    ASSUME TypeOK, GoodCalls, NEW c \in Calls, NEW road \in BOOLEAN, RouteAnswered(c, road)
    PROVE  /\ GoodCalls' /\ calls' \in [Calls -> Call]
           /\ calls'[c] = [calls[c] EXCEPT !.pc = "answer", !.timed = road]
           /\ \A d \in Calls \ {c} : calls'[d] =
                  [calls[d] EXCEPT !.cleared = @ \/ (Full /\ calls[d].pc = "answer")]
<1>1. outage' = outage /\ calls \in [Calls -> Call] /\ calls[c].pc = "route"
  BY DEF RouteAnswered, geocoding, TypeOK
<1>2. calls'[c] = [calls[c] EXCEPT !.pc = "answer", !.timed = road]
  BY DEF RouteAnswered
<1>3. \A d \in Calls \ {c} : calls'[d] =
          [calls[d] EXCEPT !.cleared = @ \/ (Full /\ calls[d].pc = "answer")]
  BY DEF RouteAnswered
<1>4. Good(calls'[c], outage)
  BY <1>1, <1>2 DEF GoodCalls, Good, Call
<1>5. ASSUME NEW d \in Calls \ {c} PROVE Good(calls'[d], outage)
  <2> DEFINE cleared == calls[d].cleared \/ (Full /\ calls[d].pc = "answer")
  <2>1. Good(calls[d], outage) /\ calls[d] \in Call
    BY DEF GoodCalls, Good
  <2>2. cleared \in BOOLEAN /\ calls'[d] = [calls[d] EXCEPT !.cleared = cleared]
    BY <1>3, <2>1 DEF Call, Full
  <2> HIDE DEF cleared
  <2> QED BY <2>1, <2>2 DEF Good, Call
<1>6. \A d \in Calls : Good(calls'[d], outage')
  BY <1>1, <1>4, <1>5
<1>7. calls' = [d \in Calls |-> calls'[d]]
  BY DEF RouteAnswered
<1> QED BY <1>2, <1>3, <1>6, <1>7 DEF GoodCalls, Good

LEMMA MovedGood ==
    ASSUME TypeOK, GoodCalls, NEW c \in Calls, NEW r, Moved(c, r), outage \subseteq outage'
    PROVE  /\ GoodCalls' /\ calls' \in [Calls -> Call]
           /\ calls'[c] = r /\ \A d \in Calls \ {c} : calls'[d] = calls[d]
<1>1. calls \in [Calls -> Call] /\ r \in Call
  BY DEF TypeOK, Moved, Good
<1>2. calls' \in [Calls -> Call] /\ calls'[c] = r /\ \A d \in Calls \ {c} : calls'[d] = calls[d]
  BY <1>1 DEF Moved
<1>3. ASSUME NEW d \in Calls PROVE Good(calls'[d], outage')
  BY <1>2, GoodLater DEF GoodCalls, Moved
<1> QED BY <1>2, <1>3 DEF GoodCalls

-----------------------------------------------------------------------------
(* The inductive invariant *)

\* What a call knows about the tables and the cache of times.
CallOK(r) ==
    /\ r.pc = "route" => Decide
    /\ r.pc = "answer" /\ r.timed /\ ~r.cleared => Decide /\ Pair(r) \in routes
    /\ r.pc = "intakeJob" /\ r.account # None => account[r.account] = r.co

CallsOK == \A c \in Calls : CallOK(calls[c])

IInv ==
    /\ TypeOK /\ IsFiniteSet(routes)
    /\ GoodCalls /\ CacheOK /\ CallsOK
    /\ CompaniesAtTheirCode /\ JobsWhereCompanyWas /\ ExactWithoutOutage

\* The same of a call after a step.
Later(r) ==
    /\ r.pc = "route" => Decide'
    /\ r.pc = "answer" /\ r.timed /\ ~r.cleared => Decide' /\ Pair(r) \in routes'
    /\ r.pc = "intakeJob" /\ r.account # None => account'[r.account] = r.co

\* A step that forgets no time and takes no account away leaves the other calls right.
LEMMA OthersKeep ==
    ASSUME NEW r, CallOK(r), conf' = conf, routes \subseteq routes',
           r.pc = "intakeJob" /\ r.account # None => account'[r.account] = account[r.account]
    PROVE  Later(r)
BY DEF CallOK, Later, Decide

LEMMA MovedOK ==
    ASSUME IInv, NEW c \in Calls, NEW r, Moved(c, r), outage \subseteq outage', conf' = conf,
           routes' = routes, account' = account, Later(r)
    PROVE  GoodCalls' /\ calls' \in [Calls -> Call] /\ CallsOK'
<1>1. GoodCalls' /\ calls' \in [Calls -> Call]
      /\ calls'[c] = r /\ \A d \in Calls \ {c} : calls'[d] = calls[d]
  BY MovedGood DEF IInv
<1>2. ASSUME NEW d \in Calls PROVE Later(calls'[d])
  BY <1>1, OthersKeep DEF IInv, CallsOK
<1>3. CallsOK'
  BY <1>2 DEF CallsOK, CallOK, Later, Pair
<1> QED BY <1>1, <1>3

-----------------------------------------------------------------------------
(* Every step preserves it *)

LEMMA InitOK == Init => IInv
<1> SUFFICES ASSUME Init PROVE IInv
  OBVIOUS
<1>1. NoCompany \in Company /\ NoCompany.plz \notin Plz /\ Idle \in Call /\ Good(Idle, outage)
      /\ NoJob \in Job /\ NoJob.of \notin Plz
  BY NoCompanyTypes, IdleGood, LocationsAssumption DEF NoJob, Job, Good
<1>2. [NoCompany EXCEPT !.state = "live"] \in Company
      /\ [NoCompany EXCEPT !.state = "live"].plz \notin Plz
  BY <1>1 DEF Company
<1>3. company \in [Companies -> Company] /\ \A co \in Companies : company[co].plz \notin Plz
  BY <1>1, <1>2 DEF Init
<1>4. IsFiniteSet(routes) /\ Cardinality(routes) = 0 /\ routes = {}
  BY FS_EmptySet DEF Init
<1>5. TypeOK
  BY <1>1, <1>3, <1>4, LocationsAssumption DEF Init, TypeOK
<1>6. \A c \in Calls : calls[c] = Idle
  BY DEF Init
<1>7. GoodCalls /\ CallsOK
  <2>1. CallOK(Idle)
    BY DEF CallOK, Idle
  <2> QED BY <1>1, <1>6, <2>1 DEF GoodCalls, CallsOK
<1>8. CacheOK
  BY LocationsAssumption DEF Init, CacheOK, CoarseOnlyIfUnknown
<1>9. CompaniesAtTheirCode /\ JobsWhereCompanyWas /\ ExactWithoutOutage
  BY <1>1, <1>3, LocationsAssumption
  DEF Init, CompaniesAtTheirCode, JobsWhereCompanyWas, ExactWithoutOutage
<1> QED BY <1>4, <1>5, <1>7, <1>8, <1>9 DEF IInv

\* The steps of a call.
Works(c) ==
    \/ FetchAnswered(c) \/ FetchFails(c) \/ Reads(c) \/ Ends(c)
    \/ \E co \in Companies : IntakeCompany(c, co)
    \/ IntakeAccount(c)
    \/ \E j \in Jobs, given \in GivenPlaces : IntakeJob(c, j, given)
    \/ \E j \in Jobs : TravelNotFound(c, j)
    \/ \E j \in Jobs, from \in Origins : TravelRead(c, j, from)
    \/ \E road \in BOOLEAN : RouteAnswered(c, road)
    \/ RouteFails(c)

LEMMA StepWorks == ASSUME NEW c \in Calls, Step(c) PROVE Works(c)
BY DEF Step, Works, Reads, Ends

LEMMA WorksFrame ==
    ASSUME NEW c \in Calls, Works(c)
    PROVE  conf' = conf /\ outage \subseteq outage' /\ restarts' = restarts
BY DEF Works, Reads, Ends, FetchAnswered, FetchFails, UpdateProfileRead, UpdateProfileWrite,
       SaveJobRead, SaveJobWrite, IntakeRead, IntakeCompany, IntakeAccount, IntakeJob,
       IntakeEnds, TravelRead, TravelNotFound, RouteAnswered, RouteFails, TravelAnswer,
       Begin, Goto, geocoding, tables, vars

LEMMA WorksCalls ==
    ASSUME IInv, NEW c \in Calls, Works(c)
    PROVE  GoodCalls' /\ calls' \in [Calls -> Call] /\ CallsOK'
<1>1. TypeOK /\ GoodCalls /\ CallsOK /\ CacheOK /\ CompaniesAtTheirCode
      /\ Good(calls[c], outage) /\ CallOK(calls[c]) /\ calls[c] \in Call
  BY DEF IInv, GoodCalls, CallsOK, Good
<1>2. conf' = conf /\ outage \subseteq outage'
  BY WorksFrame
<1>3. CASE FetchAnswered(c)
  <2>1. Moved(c, Fetched(c)) /\ Fetched(c).pc = "store"
    BY <1>1, <1>3, FetchAnsweredMoves DEF Fetched, Call
  <2> QED BY <1>2, <1>3, <2>1, MovedOK DEF FetchAnswered, tables, Later
<1>4. CASE FetchFails(c)
  <2>1. Moved(c, Failed(c)) /\ Failed(c).pc = "store"
    BY <1>1, <1>4, FetchFailsMoves DEF Failed, Call
  <2> QED BY <1>2, <1>4, <2>1, MovedOK DEF FetchFails, tables, Later
<1>5. CASE Reads(c)
  <2>1. PICK r : Moved(c, r) /\ r.pc \in {"store", "fetch"}
    BY <1>1, <1>5, ReadsMoves
  <2>2. routes' = routes /\ account' = account
    BY <1>1, <1>5, ReadsMoves DEF tables
  <2> QED BY <1>2, <2>1, <2>2, MovedOK DEF Later
<1>6. CASE Ends(c)
  <2>1. routes' = routes /\ account' = account
    BY <1>6 DEF Ends, UpdateProfileWrite, IntakeEnds, TravelAnswer, SaveJobWrite, tables
  <2>2. Later(Idle)
    BY DEF Later, Idle
  <2> QED BY <1>2, <1>6, <2>1, <2>2, EndsMoves, MovedOK
<1>7. CASE \E co \in Companies : IntakeCompany(c, co)
  <2>1. PICK co \in Companies : IntakeCompany(c, co)
    BY <1>7
  <2>2. Moved(c, Founded(c, co))
    BY <1>1, <2>1, IntakeCompanyMoves
  <2>3. Founded(c, co).pc \in {"intakeJob", "account"}
        /\ Founded(c, co).account = calls[c].account
        /\ (Founded(c, co).pc = "intakeJob" => calls[c].account = None)
    BY <1>1 DEF Founded, Call
  <2>4. routes' = routes /\ account' = account
    BY <2>1 DEF IntakeCompany
  <2> QED BY <1>2, <2>2, <2>3, <2>4, MovedOK DEF Later
<1>8. CASE IntakeAccount(c)
  <2> DEFINE a == calls[c].account
  <2>1. Moved(c, AfterAccount(calls[c])) /\ routes' = routes
        /\ calls[c].pc = "account" /\ calls[c].co \in Companies
    BY <1>1, <1>8, IntakeAccountMoves DEF IntakeAccount, Good
  <2>2. account' = [account EXCEPT ![a] = IF account[a] = None THEN calls[c].co ELSE account[a]]
        /\ account \in [Accounts -> Companies \cup {None}]
    BY <1>1, <1>8 DEF IntakeAccount, TypeOK
  <2>3. a \in Accounts \cup {None}
    BY <1>1 DEF Call
  <2>4. Later(AfterAccount(calls[c]))
    <3>1. CASE account[a] = None
      <4>1. AfterAccount(calls[c]) = [calls[c] EXCEPT !.pc = "intakeJob"]
        BY <3>1 DEF AfterAccount
      <4>2. a # None => account'[a] = calls[c].co
        BY <2>2, <2>3, <3>1
      <4> QED BY <1>1, <4>1, <4>2 DEF Later, Call
    <3>2. CASE account[a] # None
      BY <3>2 DEF AfterAccount, Later, Idle
    <3> QED BY <3>1, <3>2
  <2>5. ASSUME NEW d \in Calls \ {c} PROVE Later(calls[d])
    <3>1. ASSUME calls[d].pc = "intakeJob", calls[d].account # None
          PROVE  account'[calls[d].account] = account[calls[d].account]
      <4>1. calls[d].account \in Accounts /\ calls[d].co \in Companies
            /\ account[calls[d].account] = calls[d].co
        BY <1>1, <3>1 DEF GoodCalls, Good, CallsOK, CallOK, Call
      <4> QED BY <2>2, <4>1, LocationsAssumption
    <3> QED BY <1>1, <1>2, <2>1, <3>1, OthersKeep DEF CallsOK
  <2>6. GoodCalls' /\ calls' \in [Calls -> Call] /\ calls'[c] = AfterAccount(calls[c])
        /\ \A d \in Calls \ {c} : calls'[d] = calls[d]
    BY <1>1, <1>2, <2>1, MovedGood
  <2>7. \A d \in Calls : Later(calls'[d])
    BY <2>4, <2>5, <2>6
  <2> QED BY <2>6, <2>7 DEF CallsOK, CallOK, Later, Pair
<1>9. CASE \/ \E j \in Jobs, given \in GivenPlaces : IntakeJob(c, j, given)
           \/ \E j \in Jobs : TravelNotFound(c, j)
  <2>1. UNCHANGED <<calls, conf, routes, account, outage>>
    BY <1>9 DEF IntakeJob, TravelNotFound, geocoding, vars, tables
  <2> QED BY <1>1, <2>1 DEF GoodCalls, CallsOK, CallOK, Pair, Decide, TypeOK, Good
<1>10. CASE \E j \in Jobs, from \in Origins : TravelRead(c, j, from)
  <2>1. PICK j \in Jobs, from \in Origins : TravelRead(c, j, from)
    BY <1>10
  <2>2. /\ Moved(c, Asked(c, j, from))
        /\ Asked(c, j, from).pc = "route" => Decide
        /\ Asked(c, j, from).timed => Decide /\ Pair(Asked(c, j, from)) \in routes
        /\ Asked(c, j, from).pc \in {"route", "answer"}
    BY <1>1, <2>1, TravelReadMoves
  <2>3. routes' = routes /\ account' = account /\ Decide' = Decide
    BY <1>2, <2>1 DEF TravelRead, tables, Decide
  <2>4. Later(Asked(c, j, from))
    BY <2>2, <2>3 DEF Later
  <2> QED BY <1>2, <2>2, <2>3, <2>4, MovedOK
<1>11. CASE \E road \in BOOLEAN : RouteAnswered(c, road)
  <2>1. PICK road \in BOOLEAN : RouteAnswered(c, road)
    BY <1>11
  <2>2. GoodCalls' /\ calls' \in [Calls -> Call]
        /\ calls'[c] = [calls[c] EXCEPT !.pc = "answer", !.timed = road]
        /\ \A d \in Calls \ {c} : calls'[d] =
               [calls[d] EXCEPT !.cleared = @ \/ (Full /\ calls[d].pc = "answer")]
    BY <1>1, <2>1, RouteAnsweredMoves
  <2>3. account' = account /\ Decide' = Decide /\ calls[c].pc = "route" /\ Decide
        /\ routes' = Remembered(IF road THEN {Pair(calls[c])} ELSE {})
    BY <1>1, <1>2, <2>1 DEF RouteAnswered, tables, Decide, CallOK
  <2>4. Pair(calls'[c]) = Pair(calls[c])
    BY <1>1, <2>2 DEF Pair, Call
  <2>5. Later(calls'[c])
    BY <1>1, <2>2, <2>3, <2>4 DEF Later, Remembered, Call
  <2>6. ASSUME NEW d \in Calls \ {c} PROVE Later(calls'[d])
    <3> DEFINE cleared == calls[d].cleared \/ (Full /\ calls[d].pc = "answer")
    <3>1. calls[d] \in Call /\ CallOK(calls[d])
      BY <1>1 DEF TypeOK, CallsOK
    <3>2. calls'[d] = [calls[d] EXCEPT !.cleared = cleared]
      BY <2>2, <3>1 DEF Call
    <3>3. Pair(calls'[d]) = Pair(calls[d]) /\ calls'[d].pc = calls[d].pc
          /\ calls'[d].timed = calls[d].timed /\ calls'[d].cleared = cleared
          /\ calls'[d].account = calls[d].account /\ calls'[d].co = calls[d].co
      BY <3>1, <3>2 DEF Pair, Call
    <3>4. ~Full => routes \subseteq routes'
      BY <2>3 DEF Remembered
    <3> QED BY <2>3, <3>1, <3>3, <3>4 DEF Later, CallOK
  <2>7. \A d \in Calls : Later(calls'[d])
    BY <2>5, <2>6
  <2> QED BY <2>2, <2>7 DEF CallsOK, CallOK, Later, Pair
<1>12. CASE RouteFails(c)
  <2> DEFINE r == [calls[c] EXCEPT !.pc = "answer"]
  <2>1. Moved(c, r) /\ routes' = routes /\ account' = account /\ calls[c].pc = "route"
    BY <1>1, <1>12, RouteFailsMoves DEF RouteFails, tables
  <2>2. ~calls[c].timed
    BY <1>1, <2>1 DEF Good
  <2>3. Later(r)
    BY <1>1, <2>2 DEF Later, Call
  <2> HIDE DEF r
  <2> QED BY <1>2, <2>1, <2>3, MovedOK
<1> QED BY <1>3, <1>4, <1>5, <1>6, <1>7, <1>8, <1>9, <1>10, <1>11, <1>12 DEF Works

\* The handlers that write to the tables.
Writes(c) ==
    \/ UpdateProfileWrite(c) \/ IntakeAccount(c)
    \/ \E given \in GivenPlaces : SaveJobWrite(c, given)
    \/ \E co \in Companies : IntakeCompany(c, co)
    \/ \E j \in Jobs, given \in GivenPlaces : IntakeJob(c, j, given)

LEMMA WritesOrNot == ASSUME NEW c \in Calls, Works(c), ~Writes(c) PROVE UNCHANGED tables
BY DEF Works, Writes, Reads, Ends, FetchAnswered, FetchFails, UpdateProfileRead,
       SaveJobRead, IntakeRead, IntakeEnds, TravelRead, TravelNotFound, RouteAnswered,
       RouteFails, TravelAnswer, vars, tables

TablesTyped == /\ company \in [Companies -> Company]
               /\ job \in [Jobs -> Job]
               /\ account \in [Accounts -> Companies \cup {None}]

TablesOK == TablesTyped /\ CompaniesAtTheirCode /\ JobsWhereCompanyWas /\ ExactWithoutOutage

\* A posting takes its place from a row that is at its code, or from what was resolved.
LEMMA PlaceOfRow ==
    ASSUME NEW r \in Call, RowOK(r.row)
    PROVE  /\ NewJob(r) \in Job /\ NewJob(r).of = r.row.plz
           /\ r.row.plz \in Plz => NewJob(r).at \in At(r.row.plz)
<1>1. PlaceOf(r) \in Places \cup {None}
  BY DEF PlaceOf, Call, Company
<1>2. r.row.plz \in Codes /\ r.co \in Companies \cup {None}
  BY DEF Call, Company
<1>3. NewJob(r) \in Job /\ NewJob(r).of = r.row.plz /\ NewJob(r).at = PlaceOf(r)
  BY <1>1, <1>2 DEF NewJob, Job
<1>4. ASSUME r.row.plz \in Plz PROVE PlaceOf(r) \in At(r.row.plz)
  BY <1>4, PlacesFacts DEF PlaceOf, RowOK
<1> QED BY <1>3, <1>4

\* A place given in the posting itself says nothing of the company's.
LEMMA PostingOK ==
    ASSUME NEW r \in Call, RowOK(r.row), NEW given \in GivenPlaces
    PROVE  /\ Posting(r, given) \in Job
           /\ Posting(r, given).of \in Plz => Posting(r, given).at \in At(Posting(r, given).of)
<1>1. CASE given = None
  BY <1>1, PlaceOfRow DEF Posting
<1>2. CASE given # None
  <2>1. given \in Places /\ r.co \in Companies \cup {None}
    BY <1>2, LocationsAssumption DEF GivenPlaces, Places, Call
  <2>2. Posting(r, given) = [company |-> r.co, at |-> given, of |-> None]
    BY <1>2 DEF Posting
  <2> QED BY <2>1, <2>2, LocationsAssumption DEF Job
<1> QED BY <1>1, <1>2

LEMMA JobsKept ==
    ASSUME TablesOK, NEW j \in Jobs, NEW row \in Job, row.of \in Plz => row.at \in At(row.of),
           job' = [job EXCEPT ![j] = row], company' = company, account' = account,
           outage' = outage
    PROVE  TablesOK'
<1>1. job' \in [Jobs -> Job] /\ JobsWhereCompanyWas'
  BY DEF TablesOK, TablesTyped, JobsWhereCompanyWas, At, Exact, fallback
<1> QED BY <1>1
    DEF TablesOK, TablesTyped, CompaniesAtTheirCode, ExactWithoutOutage, At, Exact, fallback

LEMMA CompaniesKept ==
    ASSUME TablesOK, NEW co \in Companies, NEW row \in Company, RowOK(row),
           row.plz \in Found \ outage => row.at = Exact(row.plz),
           company' = [company EXCEPT ![co] = row], job' = job, account' = account,
           outage' = outage
    PROVE  TablesOK'
<1>1. company' \in [Companies -> Company]
  BY DEF TablesOK, TablesTyped
<1>2. CompaniesAtTheirCode' /\ ExactWithoutOutage'
  BY DEF TablesOK, TablesTyped, CompaniesAtTheirCode, ExactWithoutOutage, RowOK, At, Exact, fallback
<1> QED BY <1>1, <1>2 DEF TablesOK, TablesTyped, JobsWhereCompanyWas, At, Exact, fallback

LEMMA WorksTables == ASSUME IInv, NEW c \in Calls, Works(c) PROVE TablesOK'
<1>1. TablesOK /\ Good(calls[c], outage) /\ calls[c] \in Call
  BY DEF IInv, TypeOK, TablesOK, TablesTyped, GoodCalls, Good
<1>2. CASE UpdateProfileWrite(c)
  <2> DEFINE co == calls[c].co
             row == Patched(company[co], calls[c])
  <2>1. calls[c].pc = "store" /\ calls[c].kind = "profile" /\ outage' = outage
        /\ company' = [company EXCEPT ![co] = row] /\ job' = job /\ account' = account
    BY <1>2 DEF UpdateProfileWrite, geocoding
  <2>2. co \in Companies /\ company[co] \in Company
    BY <1>1, <2>1 DEF Good, TablesOK, TablesTyped
  <2>3. row = [company[co] EXCEPT !.plz = calls[c].plz,
                  !.at = IF calls[c].coords = None THEN company[co].at ELSE calls[c].coords]
    BY DEF Patched
  <2>4. row \in Company
    BY <1>1, <2>2, <2>3 DEF Company, Call
  <2>5. row.plz = calls[c].plz /\ (calls[c].coords # None => row.at = calls[c].coords)
    BY <2>2, <2>3 DEF Company
  <2>6. calls[c].plz \in Plz => calls[c].coords \in At(calls[c].plz) /\ calls[c].coords # None
    BY <1>1, <2>1, PlacesFacts DEF Good
  <2>7. RowOK(row)
    BY <2>5, <2>6 DEF RowOK
  <2>8. row.plz \in Found \ outage => row.at = Exact(row.plz)
    BY <1>1, <2>1, <2>5, <2>6, LocationsAssumption DEF Good
  <2> HIDE DEF row, co
  <2> QED BY <1>1, <2>1, <2>2, <2>4, <2>7, <2>8, CompaniesKept
<1>3. CASE IntakeAccount(c)
  <2>1. company' = company /\ job' = job /\ outage' = outage
        /\ account' \in [Accounts -> Companies \cup {None}]
    BY <1>1, <1>3 DEF IntakeAccount, geocoding, TablesOK, TablesTyped, Call
  <2> QED BY <1>1, <2>1
      DEF TablesOK, TablesTyped, CompaniesAtTheirCode, JobsWhereCompanyWas, ExactWithoutOutage
<1>4. ASSUME NEW given \in GivenPlaces, SaveJobWrite(c, given) PROVE TablesOK'
  <2> DEFINE j == calls[c].j
             row == Posting(calls[c], given)
  <2>1. job' = [job EXCEPT ![j] = row] /\ company' = company /\ account' = account
        /\ outage' = outage /\ j \in Jobs \cup {None}
    BY <1>1, <1>4 DEF SaveJobWrite, geocoding, Call
  <2>2. row \in Job /\ (row.of \in Plz => row.at \in At(row.of))
    BY <1>1, PostingOK DEF Good
  <2> HIDE DEF j, row
  <2>3. CASE j \in Jobs
    BY <1>1, <2>1, <2>2, <2>3, JobsKept
  <2>4. CASE j = None
    <3>1. job' = job
      BY <1>1, <2>1, <2>4, LocationsAssumption DEF TablesOK, TablesTyped
    <3> QED BY <1>1, <2>1, <3>1
        DEF TablesOK, TablesTyped, CompaniesAtTheirCode, JobsWhereCompanyWas, ExactWithoutOutage
  <2> QED BY <2>1, <2>3, <2>4
<1>5. ASSUME NEW co \in Companies, IntakeCompany(c, co) PROVE TablesOK'
  <2>1. /\ Taken(c) \in Company /\ RowOK(Taken(c))
        /\ company' = [company EXCEPT ![co] = Taken(c)]
        /\ calls[c].plz \in Found \ outage => calls[c].coords = Exact(calls[c].plz)
    BY <1>5, IntakeCompanyMoves DEF IInv
  <2>2. Taken(c).plz \in Found \ outage => Taken(c).at = Exact(Taken(c).plz)
    BY <2>1 DEF Taken
  <2>3. job' = job /\ account' = account /\ outage' = outage
    BY <1>5 DEF IntakeCompany, geocoding
  <2> QED BY <1>1, <2>1, <2>2, <2>3, CompaniesKept
<1>6. ASSUME NEW j \in Jobs, NEW given \in GivenPlaces, IntakeJob(c, j, given)
      PROVE  TablesOK'
  <2> DEFINE row == Posting(calls[c], given)
  <2>1. job' = [job EXCEPT ![j] = row] /\ company' = company
        /\ account' = account /\ outage' = outage
    BY <1>6 DEF IntakeJob, geocoding
  <2>2. row \in Job /\ (row.of \in Plz => row.at \in At(row.of))
    BY <1>1, PostingOK DEF Good
  <2> HIDE DEF row
  <2> QED BY <1>1, <2>1, <2>2, JobsKept
<1>7. CASE ~Writes(c)
  <2>1. company' = company /\ job' = job /\ account' = account /\ outage \subseteq outage'
    BY <1>7, WritesOrNot, WorksFrame DEF tables
  <2> QED BY <1>1, <2>1
      DEF TablesOK, TablesTyped, CompaniesAtTheirCode, JobsWhereCompanyWas, ExactWithoutOutage
<1> QED BY <1>2, <1>3, <1>4, <1>5, <1>6, <1>7 DEF Writes

\* The caches after a step: what they hold, and how large the cache of times is.
CachesTyped == /\ places \in [Plz -> Places \cup {None}]
               /\ blocked \subseteq Plz /\ outage \subseteq Plz

TimesOK == /\ routes \subseteq Origins \X Places /\ IsFiniteSet(routes)
           /\ Cardinality(routes) <= CacheMax + 1

LEMMA WorksCaches == ASSUME IInv, NEW c \in Calls, Works(c) PROVE CachesTyped' /\ CacheOK'
<1>1. CachesTyped /\ CacheOK /\ TypeOK /\ GoodCalls
  BY DEF IInv, TypeOK, CachesTyped
<1>2. CASE FetchAnswered(c)
  <2> DEFINE p == calls[c].plz
             coords == IF p \in Found THEN Exact(p) ELSE fallback(p)
  <2>1. p \in Plz
    BY <1>1, <1>2, FetchAnsweredMoves
  <2>2. places' = [places EXCEPT ![p] = coords] /\ blocked' = blocked /\ outage' = outage
    BY <1>2 DEF FetchAnswered
  <2>3. coords \in Places /\ coords \in At(p) /\ (p \in Found => coords = Exact(p))
    BY <2>1, PlacesFacts DEF At
  <2> HIDE DEF p, coords
  <2>4. CachesTyped'
    BY <1>1, <2>1, <2>2, <2>3 DEF CachesTyped, Places, Exact, fallback
  <2>5. \A q \in Plz : places'[q] = IF q = p THEN coords ELSE places[q]
    BY <1>1, <2>2 DEF CachesTyped
  <2>6. CacheOK'
    BY <1>1, <2>1, <2>2, <2>3, <2>5, LocationsAssumption
    DEF CacheOK, CoarseOnlyIfUnknown, At, Exact, fallback
  <2> QED BY <2>4, <2>6
<1>3. CASE FetchFails(c)
  <2>1. calls[c].plz \in Plz
    BY <1>1, <1>3, FetchFailsMoves
  <2>2. places' = places /\ blocked' = blocked \cup {calls[c].plz}
        /\ outage' = outage \cup {calls[c].plz}
    BY <1>3 DEF FetchFails, AfterFailure
  <2> QED BY <1>1, <2>1, <2>2
      DEF CachesTyped, CacheOK, CoarseOnlyIfUnknown, At, Exact, fallback, Places
<1>4. CASE ~FetchAnswered(c) /\ ~FetchFails(c)
  <2>1. UNCHANGED geocoding
    BY <1>4 DEF Works, Reads, Ends, UpdateProfileRead, UpdateProfileWrite, SaveJobRead,
            SaveJobWrite, IntakeRead, IntakeCompany, IntakeAccount, IntakeJob, IntakeEnds,
            TravelRead, TravelNotFound, RouteAnswered, RouteFails, TravelAnswer, vars
  <2> QED BY <1>1, <2>1
      DEF geocoding, CachesTyped, CacheOK, CoarseOnlyIfUnknown, At, Exact, fallback, Places
<1> QED BY <1>2, <1>3, <1>4

LEMMA RememberedBounded ==
    ASSUME TimesOK, NEW x \in Origins \X Places, NEW times \in {{}, {x}}
    PROVE  /\ Remembered(times) \subseteq Origins \X Places
           /\ IsFiniteSet(Remembered(times)) /\ Cardinality(Remembered(times)) <= CacheMax + 1
<1>1. Cardinality(routes) \in Nat /\ CacheMax \in Nat
  BY FS_CardinalityType, LocationsAssumption DEF TimesOK
<1>2. IsFiniteSet(times) /\ Cardinality(times) \in {0, 1}
  BY FS_EmptySet, FS_Singleton
<1>3. CASE Full
  BY <1>1, <1>2, <1>3 DEF Remembered, TimesOK
<1>4. CASE ~Full /\ times = {}
  BY <1>4 DEF Remembered, TimesOK
<1>5. CASE ~Full /\ times = {x}
  <2>1. IsFiniteSet(routes \cup {x})
        /\ Cardinality(routes \cup {x}) \in {Cardinality(routes), Cardinality(routes) + 1}
    BY FS_AddElement DEF TimesOK
  <2> QED BY <1>1, <1>5, <2>1 DEF Remembered, TimesOK, Full
<1> QED BY <1>3, <1>4, <1>5

LEMMA WorksTimes == ASSUME IInv, NEW c \in Calls, Works(c) PROVE TimesOK'
<1>1. TimesOK /\ Good(calls[c], outage)
  BY DEF IInv, TypeOK, TimesOK, GoodCalls
<1>2. ASSUME NEW road \in BOOLEAN, RouteAnswered(c, road) PROVE TimesOK'
  <2> DEFINE x == Pair(calls[c])
             times == IF road THEN {x} ELSE {}
  <2>1. x \in Origins \X Places /\ times \in {{}, {x}} /\ routes' = Remembered(times)
    BY <1>1, <1>2 DEF RouteAnswered, Good, Pair
  <2> HIDE DEF x, times
  <2>2. /\ Remembered(times) \subseteq Origins \X Places
        /\ IsFiniteSet(Remembered(times)) /\ Cardinality(Remembered(times)) <= CacheMax + 1
    BY <1>1, <2>1, RememberedBounded
  <2>3. \A q \in routes' : q \in Origins \X Places
    BY <2>1, <2>2
  <2> QED BY <2>1, <2>2, <2>3 DEF TimesOK, Places, Exact, fallback
<1>3. CASE \A road \in BOOLEAN : ~RouteAnswered(c, road)
  <2>1. routes' = routes
    BY <1>3 DEF Works, Reads, Ends, FetchAnswered, FetchFails, UpdateProfileRead,
            UpdateProfileWrite, SaveJobRead, SaveJobWrite, IntakeRead, IntakeCompany,
            IntakeAccount, IntakeJob, IntakeEnds, TravelRead, TravelNotFound, RouteFails,
            TravelAnswer, vars
  <2> QED BY <1>1, <2>1 DEF TimesOK, Places, Exact, fallback
<1> QED BY <1>2, <1>3

LEMMA WorksBegun == ASSUME IInv, NEW c \in Calls, Works(c) PROVE begun' \in Nat
<1>1. begun \in Nat
  BY DEF IInv, TypeOK
<1>2. begun' = begun \/ begun' = begun + 1
  BY DEF Works, Reads, Ends, FetchAnswered, FetchFails, UpdateProfileRead, UpdateProfileWrite,
       SaveJobRead, SaveJobWrite, IntakeRead, IntakeCompany, IntakeAccount, IntakeJob,
       IntakeEnds, TravelRead, TravelNotFound, RouteAnswered, RouteFails, TravelAnswer,
       Begin, vars
<1> QED BY <1>1, <1>2

LEMMA WorksOK == ASSUME IInv, NEW c \in Calls, Works(c) PROVE IInv'
<1>1. conf' \in Confs /\ restarts' \in Nat
  BY WorksFrame DEF IInv, TypeOK
<1> QED BY <1>1, WorksCalls, WorksTables, WorksCaches, WorksTimes, WorksBegun
    DEF IInv, TypeOK, TablesOK, TablesTyped, CachesTyped, TimesOK

LEMMA UnblockOK == ASSUME IInv, NEW p \in Plz, Unblock(p) PROVE IInv'
<1>1. UNCHANGED <<conf, company, job, account, routes, places, outage, calls, begun, restarts>>
      /\ blocked' \subseteq blocked
  BY DEF Unblock, tables
<1>2. TypeOK' /\ IsFiniteSet(routes)'
  BY <1>1 DEF IInv, TypeOK, Call
<1>3. GoodCalls' /\ CallsOK'
  BY <1>1 DEF IInv, GoodCalls, CallsOK, CallOK, Good, Pair, Decide
<1>4. CacheOK'
  BY <1>1 DEF IInv, CacheOK, CoarseOnlyIfUnknown, At, Exact, fallback
<1>5. CompaniesAtTheirCode' /\ JobsWhereCompanyWas' /\ ExactWithoutOutage'
  BY <1>1 DEF IInv, CompaniesAtTheirCode, JobsWhereCompanyWas, ExactWithoutOutage
<1> QED BY <1>2, <1>3, <1>4, <1>5 DEF IInv

LEMMA RestartOK == ASSUME IInv, Restart PROVE IInv'
<1>1. /\ UNCHANGED <<conf, company, job, account, outage, begun>> /\ restarts' = restarts + 1
      /\ calls' = [c \in Calls |-> Idle] /\ places' = [q \in Plz |-> None]
      /\ blocked' = {} /\ routes' = {}
  BY DEF Restart, tables
<1>2. Good(Idle, outage') /\ Idle \in Call
  BY IdleGood DEF Good
<1>3. IsFiniteSet(routes') /\ Cardinality(routes') = 0
  BY <1>1, FS_EmptySet
<1>4. TypeOK'
  BY <1>1, <1>2, <1>3, LocationsAssumption DEF IInv, TypeOK
<1>5. \A c \in Calls : calls'[c] = Idle
  BY <1>1
<1>6. GoodCalls'
  BY <1>2, <1>5 DEF GoodCalls
<1>7. CallsOK'
  <2>1. Idle.pc = "idle"
    BY DEF Idle
  <2> QED BY <1>5, <2>1 DEF CallsOK, CallOK
<1>8. CacheOK'
  BY <1>1, LocationsAssumption DEF CacheOK, CoarseOnlyIfUnknown
<1>9. CompaniesAtTheirCode' /\ JobsWhereCompanyWas' /\ ExactWithoutOutage'
  BY <1>1 DEF IInv, CompaniesAtTheirCode, JobsWhereCompanyWas, ExactWithoutOutage
<1> QED BY <1>3, <1>4, <1>6, <1>7, <1>8, <1>9 DEF IInv

LEMMA StutterOK == ASSUME IInv, UNCHANGED vars PROVE IInv'
<1>1. UNCHANGED <<conf, company, job, account, routes, places, blocked, outage, calls, begun,
                  restarts>>
  BY DEF vars, tables, geocoding
<1>2. TypeOK' /\ IsFiniteSet(routes)' /\ GoodCalls' /\ CallsOK' /\ CacheOK'
  BY <1>1 DEF IInv, TypeOK, GoodCalls, CallsOK, CallOK, Good, Pair, Decide, CacheOK,
              CoarseOnlyIfUnknown
<1>3. CompaniesAtTheirCode' /\ JobsWhereCompanyWas' /\ ExactWithoutOutage'
  BY <1>1 DEF IInv, CompaniesAtTheirCode, JobsWhereCompanyWas, ExactWithoutOutage
<1> QED BY <1>2, <1>3 DEF IInv

LEMMA Invariance == Spec => []IInv
<1>1. IInv /\ [Next]_vars => IInv'
  BY StepWorks, WorksOK, UnblockOK, RestartOK, StutterOK DEF Next
<1> QED BY InitOK, <1>1, PTL DEF Spec

-----------------------------------------------------------------------------
(* Theorems *)

\* The tables, the caches and the calls have their types, and the cache of travel times
\* never holds more than one entry above its limit.
THEOREM TypeCorrect == Spec => []TypeOK
<1>1. IInv => TypeOK
  BY DEF IInv
<1> QED BY Invariance, <1>1, PTL

\* Companies stay at the place of their postal code, and postings where their company was
\* when they were saved: profile updates, postings and intakes that overlap, failed
\* requests and restarts never put a place next to the code of another.
THEOREM PlacesFollowCodes == Spec => []PlaceFollowsCode
<1>1. IInv => PlaceFollowsCode
  BY DEF IInv, PlaceFollowsCode
<1> QED BY Invariance, <1>1, PTL

\* A coarse place is kept for good only where the geocoding service knows nothing better,
\* and a company is placed coarsely only if a request for its own code has failed.
THEOREM OutagesStayLocal == Spec => []OutageStaysLocal
<1>1. IInv => OutageStaysLocal
  BY DEF IInv, CacheOK, OutageStaysLocal
<1> QED BY Invariance, <1>1, PTL

\* An intake that goes on to its postings owns the account it was asked to open.
THEOREM IntakesOwnTheirAccount == Spec => []IntakeOnce
<1>1. IInv => IntakeOnce
  BY DEF IInv, CallsOK, CallOK, IntakeOnce
<1> QED BY Invariance, <1>1, PTL

\* An estimate replaces a time that was known only if another call cleared the cache.
THEOREM EstimatesAreNeeded == Spec => []EstimateOnlyIfNeeded
<1>1. IInv => EstimateOnlyIfNeeded
  BY DEF IInv, CallsOK, CallOK, EstimateOnlyIfNeeded, Answered
<1> QED BY Invariance, <1>1, PTL
=============================================================================
