-------------------------- MODULE MarketplaceProofs --------------------------
(* Proofs about Marketplace, for any number of companies, craftsmen and calls. *)
EXTENDS Marketplace, TLAPS

-----------------------------------------------------------------------------
(* How a step changes the calls *)

CallOK(r) == /\ r \in CallState
             /\ r.pc \in {"found", "attach", "act", "ask", "offer"} => r.e \in Employers
             /\ r.pc \in {"attach", "act", "ask", "offer"} => r.c \in Companies
             /\ r.pc \in {"ask", "offer", "apply"} => r.w \in Workers
             /\ r.pc \in {"offer", "apply"} => r.j \in Jobs

CallsOK == call \in [Calls -> CallState] /\ \A h \in Calls : CallOK(call[h])

LEMMA TypedCalls == TypeOK => CallsOK
BY DEF TypeOK, CallsOK, CallOK

LEMMA IdleOK == NoRequest \in Request /\ CallOK(IdleCall)
BY MarketplaceAssumption DEF NoRequest, Request, CallOK, CallState, IdleCall

LEMMA CallMove ==
    ASSUME CallsOK, NEW h \in Calls, NEW r, CallOK(r), call' = [call EXCEPT ![h] = r]
    PROVE  CallsOK' /\ call'[h] = r /\ \A g \in Calls \ {h} : call'[g] = call[g]
<1>1. call' \in [Calls -> CallState]
  BY DEF CallsOK, CallOK
<1>2. ASSUME NEW g \in Calls PROVE CallOK(call'[g])
  <2>1. CASE g = h
    BY <2>1 DEF CallsOK
  <2>2. CASE g # h
    BY <2>2 DEF CallsOK
  <2> QED BY <2>1, <2>2
<1> QED BY <1>1, <1>2 DEF CallsOK, CallOK

\* What the call h of an employer or a craftsman is after a step of its own.
Entered(h, e) == [IdleCall EXCEPT !.pc = IF employer[e] = None THEN "found" ELSE "act",
                                  !.e = e, !.c = employer[e]]

Ends(h) == Refuse(h) \/ View(h) \/ AskWrite(h) \/ OfferWrite(h) \/ ApplyWrite(h)
           \/ \E j \in Jobs, s \in JobStatus : SaveJob(h, j, s)

Moves(h) == \/ Ends(h) \/ Attach(h)
            \/ \E e \in Employers : Enter(h, e)
            \/ \E c \in Companies : Found(h, c)
            \/ \E w \in Workers : AskRead(h, w)
            \/ \E j \in Jobs, w \in Workers : OfferRead(h, j, w) \/ ApplyRead(h, w, j)

Others == \/ \E w \in Workers : \/ DeleteWorker(w)
                                \/ \E c \in Companies, s \in {"APPROVED", "DECLINED"} :
                                       Respond(w, c, s)
          \/ Tick \/ UNCHANGED vars

LEMMA Steps == [Next]_vars => (\E h \in Calls : Moves(h)) \/ Others \/ Restart
BY DEF Next, EmployerStep, WorkerStep, Moves, Ends, Others, CreateJob, UpdateJob, ArchiveJob,
       JobStatus

LEMMA OthersKeepCalls == Others => UNCHANGED <<call, employer, founder, posting>>
BY DEF Others, DeleteWorker, Respond, Tick, vars

LEMMA EndsIdle == ASSUME NEW h \in Calls, Ends(h)
                  PROVE  call' = [call EXCEPT ![h] = IdleCall] /\ UNCHANGED <<employer, founder>>
BY DEF Ends, Refuse, View, SearchCandidates, ListRequests, ListApplications, Show, AskWrite, OfferWrite, ApplyWrite, SaveJob

LEMMA CallsStep == ASSUME TypeOK, [Next]_vars PROVE CallsOK'
<1>0. CallsOK
  BY TypedCalls
<1>1. ASSUME NEW h \in Calls, Ends(h) PROVE CallsOK'
  BY <1>0, <1>1, EndsIdle, IdleOK, CallMove
<1>2. ASSUME NEW h \in Calls, Attach(h) PROVE CallsOK'
  <2>1. CallOK([call[h] EXCEPT !.pc = "act"])
    BY <1>0, <1>2 DEF Attach, CallsOK, CallOK, CallState
  <2> QED BY <1>0, <1>2, <2>1, CallMove DEF Attach
<1>3. ASSUME NEW h \in Calls, NEW e \in Employers, Enter(h, e) PROVE CallsOK'
  <2>1. employer[e] \in Companies \cup {None}
    BY DEF TypeOK
  <2>2. CallOK(Entered(h, e))
    BY <2>1, IdleOK DEF Entered, CallOK, CallState, IdleCall
  <2> QED BY <1>0, <1>3, <2>2, CallMove DEF Enter, Entered
<1>4. ASSUME NEW h \in Calls, NEW c \in Companies, Found(h, c) PROVE CallsOK'
  <2>1. CallOK([call[h] EXCEPT !.pc = "attach", !.c = c])
    BY <1>0, <1>4 DEF Found, CallsOK, CallOK, CallState
  <2>2. call' = [call EXCEPT ![h] = [call[h] EXCEPT !.pc = "attach", !.c = c]]
    BY <1>0, <1>4 DEF Found, CallsOK, CallState
  <2> QED BY <1>0, <2>1, <2>2, CallMove
<1>5. ASSUME NEW h \in Calls, NEW w \in Workers, AskRead(h, w) PROVE CallsOK'
  <2> DEFINE r == [call[h] EXCEPT !.pc = "ask", !.w = w, !.seen = contact[call[h].c][w]]
  <2>1. call[h].c \in Companies
    BY <1>0, <1>5 DEF AskRead, CallsOK, CallOK
  <2>2. contact[call[h].c][w] \in Request
    BY <2>1 DEF TypeOK
  <2>3. CallOK(r)
    BY <1>0, <1>5, <2>2 DEF AskRead, CallsOK, CallOK, CallState
  <2>4. call' = [call EXCEPT ![h] = r]
    BY <1>0, <1>5 DEF AskRead, CallsOK, CallState
  <2> QED BY <1>0, <2>3, <2>4, CallMove
<1>6. ASSUME NEW h \in Calls, NEW w \in Workers, NEW j \in Jobs, OfferRead(h, j, w)
      PROVE  CallsOK'
  <2> DEFINE r == [call[h] EXCEPT !.pc = "offer", !.j = j, !.w = w]
  <2>1. CallOK(r)
    BY <1>0, <1>6 DEF OfferRead, CallsOK, CallOK, CallState
  <2>2. call' = [call EXCEPT ![h] = r]
    BY <1>0, <1>6 DEF OfferRead, CallsOK, CallState
  <2> QED BY <1>0, <2>1, <2>2, CallMove
<1>7. ASSUME NEW h \in Calls, NEW w \in Workers, NEW j \in Jobs, ApplyRead(h, w, j)
      PROVE  CallsOK'
  <2>1. CallOK([IdleCall EXCEPT !.pc = "apply", !.w = w, !.j = j])
    BY IdleOK DEF CallOK, CallState, IdleCall
  <2> QED BY <1>0, <1>7, <2>1, CallMove DEF ApplyRead
<1>8. Restart => CallsOK'
  BY IdleOK DEF Restart, CallsOK, CallOK
<1>9. Others => CallsOK'
  BY <1>0, OthersKeepCalls DEF CallsOK
<1> QED BY <1>1, <1>2, <1>3, <1>4, <1>5, <1>6, <1>7, <1>8, <1>9, Steps DEF Moves

-----------------------------------------------------------------------------
(* How a step changes the requests *)

AskedBy(h, c, w) == /\ AskWrite(h) /\ Asks(h) /\ call[h].c = c /\ call[h].w = w
                    /\ contact'[c][w] = Asked
Answered(c, w) == \E s \in {"APPROVED", "DECLINED"} :
                      /\ contact'[c][w] = [status |-> s, at |-> now]
                      /\ s = "APPROVED" => <<c, w>> \in agreed'
                      /\ contact[c][w].status # "none"
Gone(c, w) == DeleteWorker(w) /\ contact'[c][w] = NoRequest

LEMMA AskChanges ==
    ASSUME TypeOK, NEW h \in Calls, AskWrite(h)
    PROVE  /\ contact' \in [Companies -> [Workers -> Request]]
           /\ \A c \in Companies, w \in Workers :
                  contact'[c][w] = contact[c][w] \/ AskedBy(h, c, w)
<1>1. call[h].c \in Companies /\ call[h].w \in Workers /\ CallsOK
  BY TypedCalls DEF AskWrite, TypeOK
<1>2. Asked \in Request
  BY DEF Asked, Request, TypeOK
<1>3. CASE Asks(h)
  <2>1. contact' = [contact EXCEPT ![call[h].c][call[h].w] = Asked]
    BY <1>3 DEF AskWrite
  <2> QED BY <1>1, <1>2, <1>3, <2>1 DEF TypeOK, AskedBy
<1>4. CASE ~Asks(h)
  BY <1>4 DEF AskWrite, TypeOK
<1> QED BY <1>3, <1>4

LEMMA AnswerChanges ==
    ASSUME TypeOK, NEW v \in Workers, NEW d \in Companies,
           NEW s \in {"APPROVED", "DECLINED"}, Respond(v, d, s)
    PROVE  /\ contact' \in [Companies -> [Workers -> Request]]
           /\ \A c \in Companies, w \in Workers :
                  contact'[c][w] = contact[c][w] \/ Answered(c, w)
<1>1. [status |-> s, at |-> now] \in Request
  BY DEF Request, TypeOK
<1>2. contact' = [contact EXCEPT ![d][v] = [status |-> s, at |-> now]]
  BY DEF Respond
<1>3. s = "APPROVED" => <<d, v>> \in agreed'
  BY DEF Respond
<1> QED BY <1>1, <1>2, <1>3 DEF TypeOK, Answered, Respond

LEMMA DeleteChanges ==
    ASSUME TypeOK, NEW v \in Workers, DeleteWorker(v)
    PROVE  /\ contact' \in [Companies -> [Workers -> Request]]
           /\ \A c \in Companies : contact'[c][v] = NoRequest
           /\ \A c \in Companies, w \in Workers :
                  contact'[c][w] = contact[c][w] \/ Gone(c, w)
<1>1. contact' = [c \in Companies |-> [contact[c] EXCEPT ![v] = NoRequest]]
  BY DEF DeleteWorker
<1>2. \A c \in Companies : contact[c] \in [Workers -> Request]
  BY DEF TypeOK
<1>3. \A c \in Companies : contact'[c] \in [Workers -> Request]
  BY <1>1, <1>2, IdleOK
<1>4. ASSUME NEW c \in Companies, NEW w \in Workers
      PROVE  contact'[c][w] = IF w = v THEN NoRequest ELSE contact[c][w]
  BY <1>1, <1>2
<1>5. contact' \in [Companies -> [Workers -> Request]]
  BY <1>1, <1>3
<1> QED BY <1>4, <1>5 DEF Gone

LEMMA ContactFrame ==
    ASSUME [Next]_vars,
           ~\E h \in Calls : AskWrite(h),
           ~\E w \in Workers : \/ DeleteWorker(w)
                               \/ \E c \in Companies, s \in {"APPROVED", "DECLINED"} :
                                      Respond(w, c, s)
    PROVE  UNCHANGED contact
<1>1. ASSUME NEW h \in Calls, Moves(h) PROVE UNCHANGED contact
  BY <1>1 DEF Moves, Ends, Refuse, View, SearchCandidates, ListRequests, ListApplications, Show, OfferWrite, ApplyWrite, SaveJob, Attach, Enter,
              Found, AskRead, OfferRead, ApplyRead
<1>2. Tick \/ UNCHANGED vars \/ Restart => UNCHANGED contact
  BY DEF Tick, vars, Restart
<1> QED BY <1>1, <1>2, Steps DEF Others

LEMMA ContactStep ==
    ASSUME TypeOK, [Next]_vars
    PROVE  /\ contact' \in [Companies -> [Workers -> Request]]
           /\ \A c \in Companies, w \in Workers :
                  \/ contact'[c][w] = contact[c][w]
                  \/ \E h \in Calls : AskedBy(h, c, w)
                  \/ Answered(c, w) \/ Gone(c, w)
<1>1. contact \in [Companies -> [Workers -> Request]]
  BY DEF TypeOK
<1>2. CASE \E h \in Calls : AskWrite(h)
  BY <1>2, AskChanges
<1>3. CASE \E w \in Workers, c \in Companies, s \in {"APPROVED", "DECLINED"} : Respond(w, c, s)
  BY <1>3, AnswerChanges
<1>4. CASE \E w \in Workers : DeleteWorker(w)
  BY <1>4, DeleteChanges
<1>5. CASE UNCHANGED contact
  BY <1>1, <1>5
<1> QED BY <1>2, <1>3, <1>4, <1>5, ContactFrame

-----------------------------------------------------------------------------
(* How a step changes postings, offers and applications *)

LEMMA PostingStep ==
    ASSUME TypeOK, [Next]_vars
    PROVE  /\ posting' \in [Jobs -> Posting]
           /\ \A j \in Jobs :
                \/ posting'[j] = posting[j]
                \/ \E h \in Calls, s \in JobStatus :
                      /\ call[h].pc = "act" /\ call[h].c \in Companies
                      /\ posting'[j] = Saved(j, call[h].c, s)
<1>1. CASE UNCHANGED posting
  BY <1>1 DEF TypeOK
<1>2. ASSUME NEW h \in Calls, NEW i \in Jobs, NEW s \in JobStatus, SaveJob(h, i, s)
      PROVE  /\ posting' \in [Jobs -> Posting]
             /\ \A j \in Jobs :
                  \/ posting'[j] = posting[j]
                  \/ /\ call[h].pc = "act" /\ call[h].c \in Companies
                     /\ posting'[j] = Saved(j, call[h].c, s)
  <2>1. call[h].c \in Companies /\ call[h].pc = "act"
    BY <1>2 DEF SaveJob, TypeOK
  <2>2. Saved(i, call[h].c, s) \in Posting
    BY <2>1 DEF Saved, Posting, TypeOK
  <2>3. posting' = [posting EXCEPT ![i] = Saved(i, call[h].c, s)]
    BY <1>2 DEF SaveJob
  <2> QED BY <2>1, <2>2, <2>3 DEF TypeOK
<1>3. ASSUME NEW h \in Calls, Moves(h)
      PROVE  UNCHANGED posting \/ \E j \in Jobs, s \in JobStatus : SaveJob(h, j, s)
  BY <1>3 DEF Moves, Ends, Refuse, View, SearchCandidates, ListRequests, ListApplications, Show, AskWrite, OfferWrite, ApplyWrite, Attach, Enter,
              Found, AskRead, OfferRead, ApplyRead
<1>4. Restart => UNCHANGED posting
  BY DEF Restart
<1> QED BY <1>1, <1>2, <1>3, <1>4, Steps, OthersKeepCalls

\* A row <<j, w>> comes from a call that is about to insert it.
InsertedBy(h, r) == /\ call[h].pc \in {"offer", "apply"} /\ r = <<call[h].j, call[h].w>>
                    /\ call[h].w \in workers

LEMMA RowsStep ==
    ASSUME TypeOK, [Next]_vars
    PROVE  /\ workers' \subseteq workers
           /\ offers' \subseteq Jobs \X Workers /\ applied' \subseteq Jobs \X Workers
           /\ \A r \in offers' \cup applied' :
                 r \in offers \cup applied \/ \E h \in Calls : InsertedBy(h, r)
           /\ workers' = workers \/ \E w \in Workers : DeleteWorker(w)
<1> USE DEF TypeOK
<1>1. CASE UNCHANGED <<workers, offers, applied>>
  BY <1>1
<1>2. ASSUME NEW h \in Calls, OfferWrite(h) \/ ApplyWrite(h)
      PROVE  /\ UNCHANGED workers
             /\ offers' \subseteq Jobs \X Workers /\ applied' \subseteq Jobs \X Workers
             /\ \A r \in offers' \cup applied' : r \in offers \cup applied \/ InsertedBy(h, r)
  <2>1. call[h].j \in Jobs /\ call[h].w \in Workers
    BY <1>2 DEF OfferWrite, ApplyWrite
  <2> QED BY <1>2, <2>1 DEF OfferWrite, ApplyWrite, Inserted, Insertable, InsertedBy
<1>3. ASSUME NEW w \in Workers, DeleteWorker(w)
      PROVE  workers' \subseteq workers /\ offers' \subseteq offers /\ applied' \subseteq applied
  BY <1>3 DEF DeleteWorker
<1>4. ASSUME NEW h \in Calls, Moves(h)
      PROVE  UNCHANGED <<workers, offers, applied>> \/ OfferWrite(h) \/ ApplyWrite(h)
  BY <1>4 DEF Moves, Ends, Refuse, View, SearchCandidates, ListRequests, ListApplications, Show, AskWrite, SaveJob, Attach, Enter, Found, AskRead,
              OfferRead, ApplyRead
<1>5. Others \/ Restart
      => UNCHANGED <<workers, offers, applied>> \/ \E w \in Workers : DeleteWorker(w)
  BY DEF Others, Respond, Tick, Restart, vars
<1> QED BY <1>1, <1>2, <1>3, <1>4, <1>5, Steps

-----------------------------------------------------------------------------
(* The type invariant *)

LEMMA CompaniesStep ==
    ASSUME TypeOK, [Next]_vars
    PROVE  /\ employer' \in [Employers -> Companies \cup {None}]
           /\ founder' \in [Companies -> Employers \cup {None}]
           /\ UNCHANGED employer \/ \E h \in Calls : Attach(h)
           /\ UNCHANGED founder \/ \E h \in Calls, c \in Companies : Found(h, c)
<1> USE DEF TypeOK
<1>1. ASSUME NEW h \in Calls, Attach(h)
      PROVE  employer' \in [Employers -> Companies \cup {None}] /\ UNCHANGED founder
  BY <1>1 DEF Attach, Attached
<1>2. ASSUME NEW h \in Calls, NEW c \in Companies, Found(h, c)
      PROVE  founder' \in [Companies -> Employers \cup {None}] /\ UNCHANGED employer
  BY <1>2 DEF Found
<1>3. ASSUME NEW h \in Calls, Moves(h)
      PROVE  \/ UNCHANGED <<employer, founder>> \/ Attach(h)
             \/ \E c \in Companies : Found(h, c)
  <2>1. Ends(h) => UNCHANGED <<employer, founder>>
    BY EndsIdle
  <2>2. \/ \E e \in Employers : Enter(h, e)
        \/ \E w \in Workers : AskRead(h, w)
        \/ \E j \in Jobs, w \in Workers : OfferRead(h, j, w) \/ ApplyRead(h, w, j)
        => UNCHANGED <<employer, founder>>
    BY DEF Enter, AskRead, OfferRead, ApplyRead
  <2> QED BY <1>3, <2>1, <2>2 DEF Moves
<1>4. Others \/ Restart => UNCHANGED <<employer, founder>>
  BY OthersKeepCalls DEF Restart
<1> QED BY <1>1, <1>2, <1>3, <1>4, Steps

LEMMA HistoryStep ==
    ASSUME TypeOK, [Next]_vars
    PROVE  /\ now' \in 0..MaxTime /\ now <= now'
           /\ agreed' \subseteq Companies \X Workers
           /\ \A c \in Companies, w \in Workers : <<c, w>> \in agreed \ agreed' =>
                 <<c, w>> \notin shown' /\ contact'[c][w].status = "DECLINED"
           /\ \A c \in Companies, w \in Workers :
                 <<c, w>> \in shown' \ shown => contact[c][w].status = "APPROVED"
           /\ shown' \subseteq Companies \X Workers
<1> USE DEF TypeOK
<1>0. now \in Nat /\ MaxTime \in Nat
  BY MarketplaceAssumption
<1>1. ASSUME NEW h \in Calls, View(h)
      PROVE  /\ UNCHANGED <<now, agreed>> /\ shown' \subseteq Companies \X Workers
             /\ \A c \in Companies, w \in Workers :
                   <<c, w>> \in shown' \ shown => contact[c][w].status = "APPROVED"
  <2>1. call[h].c \in Companies
    BY <1>1 DEF View, SearchCandidates, ListRequests, ListApplications, Show
  <2> QED BY <1>1, <2>1 DEF View, SearchCandidates, ListRequests, ListApplications, Show, Released
<1>2. ASSUME NEW w \in Workers, NEW c \in Companies, NEW s \in {"APPROVED", "DECLINED"},
             Respond(w, c, s)
      PROVE  /\ now' = now /\ shown' \subseteq shown
             /\ agreed' \subseteq Companies \X Workers
             /\ \A d \in Companies, v \in Workers : <<d, v>> \in agreed \ agreed' =>
                   <<d, v>> \notin shown' /\ contact'[d][v].status = "DECLINED"
  <2>1. CASE s = "APPROVED"
    BY <1>2, <2>1 DEF Respond
  <2>2. CASE s = "DECLINED"
    <3>1. contact'[c][w].status = "DECLINED"
      BY <1>2, <2>2 DEF Respond
    <3>2. agreed' = agreed \ {<<c, w>>} /\ shown' = shown \ {<<c, w>>} /\ now' = now
      BY <1>2, <2>2 DEF Respond
    <3> QED BY <3>1, <3>2
  <2> QED BY <2>1, <2>2
<1>3. Tick => now' \in 0..MaxTime /\ now <= now' /\ UNCHANGED <<agreed, shown>>
  BY <1>0 DEF Tick
<1>4. ASSUME NEW h \in Calls, Moves(h) PROVE UNCHANGED <<now, agreed, shown>> \/ View(h)
  BY <1>4 DEF Moves, Ends, Refuse, AskWrite, OfferWrite, ApplyWrite, SaveJob, Attach, Enter,
              Found, AskRead, OfferRead, ApplyRead
<1>5. UNCHANGED vars \/ Restart \/ (\E w \in Workers : DeleteWorker(w))
      => UNCHANGED <<now, agreed, shown>>
  BY DEF DeleteWorker, Restart, vars
<1> QED BY <1>0, <1>1, <1>2, <1>3, <1>4, <1>5, Steps DEF Others

LEMMA InitTypes == Init => TypeOK
<1> SUFFICES ASSUME Init PROVE TypeOK
  OBVIOUS
<1>1. now \in 0..MaxTime
  BY MarketplaceAssumption DEF Init
<1>2. posting \in [Jobs -> Posting]
  BY DEF Init, NoPosting, Posting, JobStatus
<1>3. contact \in [Companies -> [Workers -> Request]]
  BY IdleOK DEF Init
<1>4. call \in [Calls -> CallState] /\ \A h \in Calls : CallOK(call[h])
  BY IdleOK DEF Init, CallOK
<1>5. /\ workers \subseteq Workers /\ offers \subseteq Jobs \X Workers
      /\ applied \subseteq Jobs \X Workers /\ agreed \subseteq Companies \X Workers
      /\ shown \subseteq Companies \X Workers
      /\ employer \in [Employers -> Companies \cup {None}]
      /\ founder \in [Companies -> Employers \cup {None}]
  BY DEF Init
<1> QED BY <1>1, <1>2, <1>3, <1>4, <1>5 DEF TypeOK, CallOK

\* The tables keep their types, and what a call holds on to exists or did exist.
THEOREM TypeCorrect == Spec => []TypeOK
<1>1. TypeOK /\ [Next]_vars => TypeOK'
  <2> SUFFICES ASSUME TypeOK, [Next]_vars PROVE TypeOK'
    OBVIOUS
  <2>1. workers' \subseteq Workers
    BY RowsStep DEF TypeOK
  <2> QED BY <2>1, CallsStep, ContactStep, PostingStep, RowsStep, CompaniesStep, HistoryStep
          DEF TypeOK, CallsOK, CallOK
<1> QED BY InitTypes, <1>1, PTL DEF Spec

-----------------------------------------------------------------------------
(* Consent *)

\* Contact data of a craftsman reach a company only after he released them to that
\* company: a request becomes APPROVED by his answer alone.
THEOREM ConsentFirst == Spec => []DataNeedsConsent
<1>1. Init => DataNeedsConsent
  BY DEF Init, DataNeedsConsent, NoRequest
<1>2. TypeOK /\ DataNeedsConsent /\ [Next]_vars => DataNeedsConsent'
  <2> SUFFICES ASSUME TypeOK, DataNeedsConsent, [Next]_vars PROVE DataNeedsConsent'
    OBVIOUS
  <2>1. shown' \subseteq agreed'
    <3> SUFFICES ASSUME NEW c \in Companies, NEW w \in Workers, <<c, w>> \in shown'
                 PROVE  <<c, w>> \in agreed'
      BY HistoryStep
    <3>1. <<c, w>> \in agreed
      BY HistoryStep DEF DataNeedsConsent
    <3> QED BY <3>1, HistoryStep
  <2>2. ASSUME NEW c \in Companies, NEW w \in Workers, contact'[c][w].status = "APPROVED"
        PROVE  <<c, w>> \in agreed'
    <3>1. CASE contact'[c][w] = contact[c][w]
      BY <2>2, <3>1, HistoryStep DEF DataNeedsConsent
    <3>2. CASE Answered(c, w)
      BY <2>2, <3>2 DEF Answered
    <3>3. contact'[c][w] \notin {Asked, NoRequest}
      BY <2>2 DEF Asked, NoRequest
    <3> QED BY <3>1, <3>2, <3>3, ContactStep DEF AskedBy, Gone
  <2> QED BY <2>1, <2>2 DEF DataNeedsConsent
<1> QED BY <1>1, <1>2, TypeCorrect, PTL DEF Spec

-----------------------------------------------------------------------------
(* Deleted accounts *)

\* Requests, offers and applications of a deleted craftsman are gone, and no call that
\* was under way brings one back.
THEOREM GoneForGood == Spec => []NothingOfTheGone
<1>1. Init => NothingOfTheGone
  BY DEF Init, NothingOfTheGone
<1>2. TypeOK /\ NothingOfTheGone /\ [Next]_vars => NothingOfTheGone'
  <2> SUFFICES ASSUME TypeOK, NothingOfTheGone, [Next]_vars, NEW w \in Workers, w \notin workers'
               PROVE  /\ \A c \in Companies : contact'[c][w] = NoRequest
                      /\ \A r \in offers' \cup applied' : r[2] # w
    BY DEF NothingOfTheGone
  <2>1. CASE DeleteWorker(w)
    <3>1. \A r \in offers' \cup applied' : r[2] # w
      BY <2>1 DEF DeleteWorker
    <3> QED BY <2>1, <3>1, DeleteChanges
  <2>2. CASE ~DeleteWorker(w)
    <3>1. w \notin workers
      BY <2>2, RowsStep DEF DeleteWorker
    <3>2. ASSUME NEW c \in Companies PROVE contact'[c][w] = NoRequest
      <4>1. contact[c][w] = NoRequest
        BY <3>1 DEF NothingOfTheGone
      <4>2. ASSUME NEW h \in Calls, AskedBy(h, c, w) PROVE FALSE
        <5>1. contact[c][w].status = "none"
          BY <4>1 DEF NoRequest
        <5>2. Asks(h) /\ call[h].c = c /\ call[h].w = w
          BY <4>2 DEF AskedBy
        <5> QED BY <3>1, <5>1, <5>2 DEF Asks, Insertable
      <4>3. ~Answered(c, w)
        BY <4>1 DEF Answered, NoRequest
      <4> QED BY <4>1, <4>2, <4>3, ContactStep DEF Gone
    <3>3. ASSUME NEW r \in offers' \cup applied' PROVE r[2] # w
      <4>1. CASE r \in offers \cup applied
        BY <3>1, <4>1 DEF NothingOfTheGone
      <4>2. CASE \E h \in Calls : InsertedBy(h, r)
        BY <3>1, <4>2 DEF InsertedBy
      <4> QED BY <4>1, <4>2, RowsStep
    <3> QED BY <3>2, <3>3
  <2> QED BY <2>1, <2>2
<1> QED BY <1>1, <1>2, TypeCorrect, PTL DEF Spec

-----------------------------------------------------------------------------
(* One call across a step *)

EnterOf(g) == \E e \in Employers : Enter(g, e) /\ call'[g] = Entered(g, e)
FoundOf(g) == \E c \in Companies :
                 Found(g, c) /\ call'[g] = [call[g] EXCEPT !.pc = "attach", !.c = c]
AttachOf(g) == Attach(g) /\ call'[g] = [call[g] EXCEPT !.pc = "act"]
AskOf(g) == \E w \in Workers :
               /\ AskRead(g, w)
               /\ call'[g] = [call[g] EXCEPT !.pc = "ask", !.w = w,
                                             !.seen = contact[call[g].c][w]]
OfferOf(g) == \E j \in Jobs, w \in Workers :
                 /\ OfferRead(g, j, w)
                 /\ call'[g] = [call[g] EXCEPT !.pc = "offer", !.j = j, !.w = w]
ApplyOf(g) == \E j \in Jobs, w \in Workers :
                 /\ ApplyRead(g, w, j)
                 /\ call'[g] = [IdleCall EXCEPT !.pc = "apply", !.w = w, !.j = j]

LEMMA MovesTo ==
    ASSUME TypeOK, NEW g \in Calls
    PROVE  /\ IdleCall.pc = "idle"
           /\ EnterOf(g) => call'[g].pc \in {"found", "act"}
           /\ FoundOf(g) => call'[g].pc = "attach"
           /\ AttachOf(g) => call'[g].pc = "act"
           /\ AskOf(g) => call'[g].pc = "ask"
           /\ OfferOf(g) => call'[g].pc = "offer"
           /\ ApplyOf(g) => call'[g].pc = "apply"
<1>1. call[g] \in CallState
  BY DEF TypeOK
<1>2. IdleCall \in CallState /\ IdleCall.pc = "idle"
  BY IdleOK DEF CallOK, IdleCall
<1>3. EnterOf(g) => call'[g].pc \in {"found", "act"}
  BY DEF EnterOf, Entered, IdleCall
<1>4. FoundOf(g) => call'[g].pc = "attach"
  BY <1>1 DEF FoundOf, CallState
<1>5. AttachOf(g) => call'[g].pc = "act"
  BY <1>1 DEF AttachOf, CallState
<1>6. AskOf(g) => call'[g].pc = "ask"
  BY <1>1 DEF AskOf, CallState
<1>7. OfferOf(g) => call'[g].pc = "offer"
  BY <1>1 DEF OfferOf, CallState
<1>8. ApplyOf(g) => call'[g].pc = "apply"
  BY DEF ApplyOf, IdleCall
<1> QED BY <1>2, <1>3, <1>4, <1>5, <1>6, <1>7, <1>8

LEMMA CallChange ==
    ASSUME TypeOK, [Next]_vars, NEW g \in Calls
    PROVE  \/ call'[g] = call[g] \/ call'[g] = IdleCall
           \/ EnterOf(g) \/ FoundOf(g) \/ AttachOf(g) \/ AskOf(g) \/ OfferOf(g) \/ ApplyOf(g)
<1> DEFINE Same == call'[g] = call[g]
<1>0. call \in [Calls -> CallState] /\ call[g] \in CallState
  BY DEF TypeOK
<1>1. Others \/ Restart => Same \/ call'[g] = IdleCall
  BY OthersKeepCalls DEF Restart
<1>2. ASSUME NEW h \in Calls, Moves(h), h # g PROVE Same
  BY <1>0, <1>2 DEF Moves, Ends, Refuse, View, SearchCandidates, ListRequests, ListApplications, Show, AskWrite, OfferWrite, ApplyWrite, SaveJob,
                    Attach, Enter, Found, AskRead, OfferRead, ApplyRead
<1>3. Ends(g) => call'[g] = IdleCall
  BY <1>0, EndsIdle
<1>4. ASSUME NEW e \in Employers, Enter(g, e) PROVE EnterOf(g)
  BY <1>0, <1>4 DEF Enter, EnterOf, Entered
<1>5. ASSUME NEW c \in Companies, Found(g, c) PROVE FoundOf(g)
  <2>1. call'[g] = [call[g] EXCEPT !.pc = "attach", !.c = c]
    BY <1>0, <1>5 DEF Found, CallState
  <2> QED BY <1>5, <2>1 DEF FoundOf
<1>6. Attach(g) => AttachOf(g)
  BY <1>0 DEF Attach, AttachOf
<1>7. ASSUME NEW w \in Workers, AskRead(g, w) PROVE AskOf(g)
  <2>1. call'[g] = [call[g] EXCEPT !.pc = "ask", !.w = w, !.seen = contact[call[g].c][w]]
    BY <1>0, <1>7 DEF AskRead, CallState
  <2> QED BY <1>7, <2>1 DEF AskOf
<1>8. ASSUME NEW j \in Jobs, NEW w \in Workers, OfferRead(g, j, w) PROVE OfferOf(g)
  <2>1. call'[g] = [call[g] EXCEPT !.pc = "offer", !.j = j, !.w = w]
    BY <1>0, <1>8 DEF OfferRead, CallState
  <2> QED BY <1>8, <2>1 DEF OfferOf
<1>9. ASSUME NEW j \in Jobs, NEW w \in Workers, ApplyRead(g, w, j) PROVE ApplyOf(g)
  BY <1>0, <1>9 DEF ApplyRead, ApplyOf
<1> QED BY <1>1, <1>2, <1>3, <1>4, <1>5, <1>6, <1>7, <1>8, <1>9, Steps DEF Moves

-----------------------------------------------------------------------------
(* Published postings *)

Reach == ReachInv /\ ReachedWasPublished

LEMMA Published ==
    ASSUME TypeOK, ReachInv, [Next]_vars, NEW j \in Jobs
    PROVE  /\ posting[j].published => posting'[j].published
           /\ posting'[j].owner # None /\ posting'[j].status = "ACTIVE" => posting'[j].published
<1>1. CASE posting'[j] = posting[j]
  BY <1>1 DEF ReachInv
<1>2. CASE \E c \in Companies, s \in JobStatus : posting'[j] = Saved(j, c, s)
  <2>1. PICK c \in Companies, s \in JobStatus : posting'[j] = Saved(j, c, s)
    BY <1>2
  <2>2. posting'[j].status = s /\ posting'[j].published = (posting[j].published \/ s = "ACTIVE")
    BY <2>1 DEF Saved
  <2> QED BY <2>2
<1> QED BY <1>1, <1>2, PostingStep

LEMMA ReachStep == ASSUME TypeOK, Reach, [Next]_vars PROVE Reach'
<1> USE DEF Reach
<1>1. ASSUME NEW g \in Calls, call'[g].pc \in {"offer", "apply"}
      PROVE  posting'[call'[g].j].published
  <2>1. CASE call'[g] = call[g]
    BY <1>1, <2>1, Published DEF ReachInv, TypeOK
  <2>2. CASE OfferOf(g) \/ ApplyOf(g)
    <3>1. PICK j \in Jobs : call'[g].j = j /\ Open(j)
      BY <2>2 DEF OfferOf, ApplyOf, OfferRead, ApplyRead, TypeOK, CallState, IdleCall
    <3> QED BY <3>1, Published DEF Open, ReachInv
  <2>3. call'[g] # IdleCall /\ ~EnterOf(g) /\ ~FoundOf(g) /\ ~AttachOf(g) /\ ~AskOf(g)
    BY <1>1, MovesTo
  <2> QED BY <2>1, <2>2, <2>3, CallChange
<1>2. ASSUME NEW r \in offers' \cup applied' PROVE posting'[r[1]].published
  <2>1. CASE r \in offers \cup applied
    BY <2>1, Published DEF ReachedWasPublished, TypeOK
  <2>2. CASE \E h \in Calls : InsertedBy(h, r)
    BY <2>2, Published DEF InsertedBy, ReachInv, TypeOK
  <2> QED BY <2>1, <2>2, RowsStep
<1> QED BY <1>1, <1>2, Published DEF ReachInv, ReachedWasPublished

\* No offer and no application concerns a posting that was never published.
THEOREM OnlyPublished == Spec => []ReachedWasPublished
<1>1. Init => Reach
  BY DEF Init, Reach, ReachInv, ReachedWasPublished, NoPosting, IdleCall
<1>2. TypeOK /\ Reach /\ [Next]_vars => Reach'
  BY ReachStep
<1> QED BY <1>1, <1>2, TypeCorrect, PTL DEF Spec, Reach

-----------------------------------------------------------------------------
(* Refusals *)

LEMMA AskStep == ASSUME TypeOK, AskInv, [Next]_vars PROVE AskInv'
<1>1. \A r \in Request : MayAsk(r) => MayAsk(r)'
  <2>1. now \in Nat /\ now' \in Nat /\ now <= now' /\ \A r \in Request : r.at \in Nat
    BY MarketplaceAssumption, HistoryStep DEF TypeOK, Request
  <2> QED BY <2>1, MarketplaceAssumption DEF MayAsk
<1>2. ASSUME NEW g \in Calls, call'[g].pc = "ask"
      PROVE  call'[g].seen \in Request /\ MayAsk(call'[g].seen)
  <2>1. CASE call'[g] = call[g]
    BY <1>2, <2>1 DEF AskInv, TypeOK, CallState
  <2>2. CASE AskOf(g)
    <3>1. PICK w \in Workers : AskRead(g, w) /\ call'[g].seen = contact[call[g].c][w]
      BY <2>2 DEF AskOf, TypeOK, CallState
    <3>2. call[g].c \in Companies
      BY <3>1 DEF AskRead, TypeOK
    <3> QED BY <3>1, <3>2 DEF AskRead, TypeOK
  <2>3. /\ call'[g] # IdleCall /\ ~EnterOf(g) /\ ~FoundOf(g) /\ ~AttachOf(g) /\ ~OfferOf(g)
        /\ ~ApplyOf(g)
    BY <1>2, MovesTo
  <2> QED BY <2>1, <2>2, <2>3, CallChange
<1> QED BY <1>1, <1>2 DEF AskInv

\* An answer is overridden by a new request only when the refusal is 90 days old, or by
\* a call that read the request before that answer.
THEOREM AnswersStand == Spec => OnlyLateAnswersOverridden
<1>1. Init => AskInv
  BY DEF Init, AskInv, IdleCall
<1>2. TypeOK /\ AskInv /\ [Next]_vars => AskInv'
  BY AskStep
<1>3. TypeOK /\ AskInv /\ [Next]_vars
      => [\A c \in Companies, w \in Workers :
             Reasked(c, w) => \/ /\ contact[c][w].status = "DECLINED"
                                 /\ now - contact[c][w].at >= Lock
                              \/ AnsweredSince(c, w)]_vars
  <2> SUFFICES ASSUME TypeOK, AskInv, [Next]_vars, NEW c \in Companies, NEW w \in Workers,
                      Reasked(c, w), ~AnsweredSince(c, w)
               PROVE  contact[c][w].status = "DECLINED" /\ now - contact[c][w].at >= Lock
    OBVIOUS
  <2>1. ~Answered(c, w) /\ ~Gone(c, w) /\ contact'[c][w] # contact[c][w]
    BY DEF Reasked, Answered, Gone, NoRequest
  <2>2. PICK h \in Calls : AskedBy(h, c, w)
    BY <2>1, ContactStep
  <2>3. call[h].pc = "ask" /\ call[h].seen = contact[c][w]
    BY <2>2 DEF AskedBy, AskWrite, AnsweredSince
  <2>4. MayAsk(contact[c][w]) /\ contact[c][w].status # "none"
    BY <2>3 DEF AskInv, Reasked
  <2> QED BY <2>4 DEF MayAsk
<1> QED BY <1>1, <1>2, <1>3, TypeCorrect, PTL DEF Spec, OnlyLateAnswersOverridden

-----------------------------------------------------------------------------
(* Companies *)

Linked(c) == /\ founder[c] \in Employers
             /\ employer[founder[c]] = c \/ Superseded(c)

\* Who founded a company never changes.
LEMMA FoundedOnce ==
    ASSUME TypeOK, [Next]_vars, NEW c \in Companies, founder[c] \in Employers
    PROVE  founder'[c] = founder[c] /\ (Superseded(c) => Superseded(c)')
<1>1. None \notin Employers
  BY MarketplaceAssumption
<1>2. ASSUME NEW d \in Companies, founder[d] \in Employers PROVE founder'[d] = founder[d]
  <2>1. CASE UNCHANGED founder
    BY <2>1
  <2>2. ASSUME NEW h \in Calls, NEW b \in Companies, Found(h, b) PROVE founder'[d] = founder[d]
    <3>1. b # d
      BY <1>1, <1>2, <2>2 DEF Found
    <3> QED BY <2>2, <3>1 DEF Found, TypeOK
  <2> QED BY <2>1, <2>2, CompaniesStep
<1> QED BY <1>2 DEF Superseded

\* A company stays linked to its founder, or another one of his takes its place.
LEMMA LinkKept ==
    ASSUME TypeOK, CompanyInv, [Next]_vars, NEW c \in Companies, Linked(c)
    PROVE  Linked(c)'
<1>1. founder'[c] = founder[c] /\ founder[c] \in Employers
  BY FoundedOnce DEF Linked
<1>2. CASE Superseded(c)
  BY <1>1, <1>2, FoundedOnce DEF Linked
<1>3. CASE employer[founder[c]] = c /\ UNCHANGED employer
  BY <1>1, <1>3 DEF Linked
<1>4. ASSUME employer[founder[c]] = c, NEW h \in Calls, Attach(h) PROVE Linked(c)'
  <2> DEFINE d == call[h].c
  <2>1. d \in Companies /\ call[h].e \in Employers /\ founder[d] = call[h].e
    BY <1>4 DEF Attach, TypeOK, CompanyInv
  <2>2. founder'[d] = founder[d]
    BY <2>1, FoundedOnce
  <2>3. CASE call[h].e # founder[c]
    BY <1>1, <1>4, <2>3 DEF Attach, Attached, Linked
  <2>4. CASE call[h].e = founder[c] /\ d = c
    BY <1>1, <1>4, <2>1, <2>4 DEF Attach, Attached, TypeOK, Linked
  <2>5. CASE call[h].e = founder[c] /\ d # c
    BY <1>1, <2>1, <2>2, <2>5 DEF Superseded, Linked
  <2> QED BY <2>3, <2>4, <2>5
<1> QED BY <1>2, <1>3, <1>4, CompaniesStep DEF Linked

LEMMA EmployersStep ==
    ASSUME TypeOK, CompanyInv, [Next]_vars, NEW e \in Employers, employer'[e] # None
    PROVE  founder'[employer'[e]] = e
<1>1. CASE employer'[e] = employer[e]
  <2>1. employer[e] \in Companies /\ founder[employer[e]] = e
    BY <1>1 DEF CompanyInv, TypeOK
  <2> QED BY <1>1, <2>1, FoundedOnce
<1>2. CASE employer'[e] # employer[e]
  <2>1. PICK h \in Calls : Attach(h)
    BY <1>2, CompaniesStep
  <2>2. call[h].e = e /\ employer'[e] = call[h].c /\ call[h].c \in Companies
    BY <1>2, <2>1 DEF Attach, Attached, TypeOK
  <2>3. founder[call[h].c] = e
    BY <2>1, <2>2 DEF Attach, CompanyInv
  <2> QED BY <2>2, <2>3, FoundedOnce
<1> QED BY <1>1, <1>2

LEMMA CallCompany ==
    ASSUME TypeOK, CompanyInv, [Next]_vars, NEW g \in Calls,
           call'[g].pc \in {"attach", "act", "ask", "offer"},
           NEW c \in Companies, NEW e \in Employers, call'[g].c = c, call'[g].e = e
    PROVE  /\ founder'[c] = e
           /\ call'[g].pc # "attach" =>
                 employer'[e] = c \/ \E d \in Companies \ {c} : founder'[d] = founder'[c]
<1>0. call[g] \in CallState
  BY DEF TypeOK
<1>1. ASSUME call[g].pc \in {"attach", "act", "ask", "offer"}, call[g].c = c, call[g].e = e
      PROVE  /\ founder'[c] = e
             /\ call[g].pc # "attach" =>
                   employer'[e] = c \/ \E d \in Companies \ {c} : founder'[d] = founder'[c]
  <2>1. founder[c] = e
    BY <1>1 DEF CompanyInv
  <2>2. founder'[c] = e
    BY <2>1, FoundedOnce
  <2>3. CASE call[g].pc = "attach"
    BY <2>2, <2>3
  <2>4. CASE call[g].pc # "attach"
    <3>1. Linked(c)
      BY <1>1, <2>1, <2>4 DEF CompanyInv, Linked
    <3>2. Linked(c)'
      BY <3>1, LinkKept
    <3> QED BY <2>2, <3>2 DEF Linked, Superseded
  <2> QED BY <2>3, <2>4
<1>2. CASE call'[g] = call[g]
  BY <1>1, <1>2
<1>3. CASE AskOf(g) \/ OfferOf(g)
  <2>1. call[g].pc = "act" /\ call[g].c = c /\ call[g].e = e
    BY <1>0, <1>3 DEF AskOf, OfferOf, AskRead, OfferRead, CallState
  <2> QED BY <1>1, <2>1
<1>4. CASE AttachOf(g)
  <2>1. call[g].pc = "attach" /\ call[g].c = c /\ call[g].e = e
    BY <1>0, <1>4 DEF AttachOf, Attach, CallState
  <2>2. employer'[e] = c
    BY <1>4, <2>1 DEF AttachOf, Attach, Attached, TypeOK
  <2> QED BY <1>1, <2>1, <2>2
<1>5. CASE FoundOf(g)
  <2>1. PICK b \in Companies : Found(g, b) /\ call'[g] = [call[g] EXCEPT !.pc = "attach", !.c = b]
    BY <1>5 DEF FoundOf
  <2>2. call'[g].pc = "attach" /\ b = c /\ call[g].e = e
    BY <1>0, <2>1 DEF CallState
  <2>3. founder'[c] = e
    BY <2>1, <2>2 DEF Found, TypeOK
  <2> QED BY <2>2, <2>3
<1>6. CASE EnterOf(g)
  <2>1. PICK f \in Employers : Enter(g, f) /\ call'[g] = Entered(g, f)
    BY <1>6 DEF EnterOf
  <2>2. employer[e] = c /\ f = e
    BY <2>1 DEF Entered, IdleCall
  <2>3. founder[c] = e
    BY <2>2, MarketplaceAssumption DEF CompanyInv
  <2>4. founder'[c] = e
    BY <2>3, FoundedOnce
  <2>5. employer'[e] = c
    BY <2>1, <2>2 DEF Enter
  <2> QED BY <2>4, <2>5
<1>7. call'[g] # IdleCall /\ ~ApplyOf(g)
  BY MovesTo
<1> QED BY <1>2, <1>3, <1>4, <1>5, <1>6, <1>7, CallChange

LEMMA CompanyStep == ASSUME TypeOK, CompanyInv, [Next]_vars PROVE CompanyInv'
<1>1. ASSUME NEW g \in Calls, call'[g].pc \in {"attach", "act", "ask", "offer"}
      PROVE  /\ founder'[call'[g].c] = call'[g].e
             /\ call'[g].pc # "attach" =>
                   \/ employer'[call'[g].e] = call'[g].c
                   \/ \E d \in Companies \ {call'[g].c} : founder'[d] = founder'[call'[g].c]
  <2>1. call'[g].c \in Companies /\ call'[g].e \in Employers
    BY <1>1, CallsStep DEF CallsOK, CallOK
  <2> QED BY <1>1, <2>1, CallCompany
<1> QED BY <1>1, EmployersStep DEF CompanyInv, Superseded

\* What makes a company active is the work of a call that acts for it.
LEMMA Activated ==
    ASSUME TypeOK, [Next]_vars, NEW c \in Companies, Active(c)'
    PROVE  \/ Active(c)
           \/ \E h \in Calls : call[h].pc \in {"act", "ask"} /\ call[h].c = c
<1>1. ASSUME NEW j \in Jobs, posting'[j].owner = c
      PROVE  \/ posting[j].owner = c
             \/ \E h \in Calls : call[h].pc \in {"act", "ask"} /\ call[h].c = c
  <2>1. CASE posting'[j] = posting[j]
    BY <1>1, <2>1
  <2>2. CASE posting'[j] # posting[j]
    <3>1. PICK h \in Calls, s \in JobStatus :
              call[h].pc = "act" /\ posting'[j] = Saved(j, call[h].c, s)
      BY <2>2, PostingStep
    <3>2. posting'[j].owner = call[h].c
      BY <3>1 DEF Saved
    <3> QED BY <1>1, <3>1, <3>2
  <2> QED BY <2>1, <2>2
<1>2. ASSUME NEW w \in Workers, contact'[c][w].status # "none"
      PROVE  \/ contact[c][w].status # "none"
             \/ \E h \in Calls : call[h].pc \in {"act", "ask"} /\ call[h].c = c
  <2>1. ASSUME NEW h \in Calls, AskedBy(h, c, w) PROVE call[h].pc = "ask" /\ call[h].c = c
    BY <2>1 DEF AskedBy, AskWrite
  <2>2. Answered(c, w) => contact[c][w].status # "none"
    BY DEF Answered
  <2>3. ~Gone(c, w)
    BY <1>2 DEF Gone, NoRequest
  <2> QED BY <1>2, <2>1, <2>2, <2>3, ContactStep
<1> QED BY <1>1, <1>2 DEF Active

\* A company that published a posting or asked a craftsman is the one its employer
\* works with, or two first calls of that employer overlapped.
THEOREM StrayExplained == Spec => []StrayNeedsRace
<1> DEFINE I == CompanyInv /\ StrayNeedsRace
<1>1. Init => I
  <2> SUFFICES ASSUME Init PROVE I
    OBVIOUS
  <2>1. \A c \in Companies : ~Active(c)
    BY MarketplaceAssumption DEF Init, Active, NoPosting, NoRequest
  <2>2. \A e \in Employers : employer[e] # None => founder[employer[e]] = e
    BY DEF Init
  <2>3. \A h \in Calls : call[h].pc = "idle"
    BY DEF Init, IdleCall
  <2> QED BY <2>1, <2>2, <2>3 DEF CompanyInv, StrayNeedsRace
<1>2. TypeOK /\ I /\ [Next]_vars => I'
  <2> SUFFICES ASSUME TypeOK, I, [Next]_vars, NEW c \in Companies, Active(c)' PROVE Linked(c)'
    BY CompanyStep DEF StrayNeedsRace, Linked
  <2>1. CASE Active(c)
    BY <2>1, LinkKept DEF StrayNeedsRace, Linked
  <2>2. ASSUME NEW h \in Calls, call[h].pc \in {"act", "ask"}, call[h].c = c PROVE Linked(c)'
    <3>1. Linked(c)
      BY <2>2 DEF CompanyInv, Linked, TypeOK
    <3> QED BY <3>1, LinkKept
  <2> QED BY <2>1, <2>2, Activated
<1> QED BY <1>1, <1>2, TypeCorrect, PTL DEF Spec
=============================================================================
