----------------------------- MODULE Marketplace -----------------------------
(***************************************************************************)
(* Companies and craftsmen: EmployerService.requireEmployer, the postings, *)
(* searchCandidates and listRequests, requestContact and sendOffer;        *)
(* JobsService.apply and respondContactRequest.                            *)
(*                                                                         *)
(* Every call of an employer starts with requireEmployer, which creates a  *)
(* missing company in two statements.  requestContact reads the request it *)
(* decides about, and later updates it by primary key; the answer of the   *)
(* craftsman overwrites whatever the status is.                            *)
(***************************************************************************)
EXTENDS Naturals

CONSTANTS
    Employers,      \* users with the role EMPLOYER
    Companies,      \* primary keys of companies, never used twice
    Workers,        \* users with the role APPLICANT
    Jobs,           \* primary keys of postings
    Calls,          \* slots of concurrent calls
    None,           \* the null value
    Lock,           \* the 90 days a refusal holds
    MaxTime         \* bound of the clock

ASSUME MarketplaceAssumption ==
    /\ Lock \in Nat /\ MaxTime \in Nat
    /\ None \notin Companies \cup Employers

VARIABLES
    now,
    workers,        \* users of Workers that still exist
    employer,       \* User.companyId of the employers
    founder,        \* whose account or call created a company; None: no such row
    posting,        \* table JobPosting
    contact,        \* table ContactRequest, unique on company and user
    offers,         \* table JobOffer, unique on posting and user
    applied,        \* table JobApplication, unique on posting and user
    call,           \* local state of the calls
    agreed,         \* history: companies a craftsman released his contact data to, and
                    \* has not refused since
    shown           \* history: companies contact data were sent to since the last refusal

vars == <<now, workers, employer, founder, posting, contact, offers, applied, call,
          agreed, shown>>

JobStatus == {"DRAFT", "ACTIVE", "PAUSED", "ARCHIVED"}

\* published is history: the posting was ACTIVE at some time.
Posting == [owner: Companies \cup {None}, status: JobStatus, published: BOOLEAN]

NoPosting == [owner |-> None, status |-> "DRAFT", published |-> FALSE]

\* at: updatedAt, which the database client sets on every write.
Request == [status: {"none", "REQUESTED", "APPROVED", "DECLINED"}, at: 0..MaxTime]

NoRequest == [status |-> "none", at |-> 0]

\* pc names the statement that comes next; seen is the request as it was read.
CallState == [pc: {"idle", "found", "attach", "act", "ask", "offer", "apply"},
              e: Employers \cup {None}, c: Companies \cup {None},
              w: Workers \cup {None}, j: Jobs \cup {None}, seen: Request]

IdleCall == [pc |-> "idle", e |-> None, c |-> None, w |-> None, j |-> None,
             seen |-> NoRequest]

TypeOK ==
    /\ now \in 0..MaxTime
    /\ workers \subseteq Workers
    /\ employer \in [Employers -> Companies \cup {None}]
    /\ founder \in [Companies -> Employers \cup {None}]
    /\ posting \in [Jobs -> Posting]
    /\ contact \in [Companies -> [Workers -> Request]]
    /\ offers \subseteq Jobs \X Workers
    /\ applied \subseteq Jobs \X Workers
    /\ call \in [Calls -> CallState]
    /\ \A h \in Calls :
        /\ call[h].pc \in {"found", "attach", "act", "ask", "offer"} => call[h].e \in Employers
        /\ call[h].pc \in {"attach", "act", "ask", "offer"} => call[h].c \in Companies
        /\ call[h].pc \in {"ask", "offer", "apply"} => call[h].w \in Workers
        /\ call[h].pc \in {"offer", "apply"} => call[h].j \in Jobs
    /\ agreed \subseteq Companies \X Workers
    /\ shown \subseteq Companies \X Workers

\* Some companies were set up by an administrator together with their account.
Init ==
    /\ now = 0
    /\ workers = Workers
    /\ employer \in [Employers -> Companies \cup {None}]
    /\ founder \in [Companies -> Employers \cup {None}]
    /\ \A e \in Employers, c \in Companies : employer[e] = c <=> founder[c] = e
    /\ posting = [j \in Jobs |-> NoPosting]
    /\ contact = [c \in Companies |-> [w \in Workers |-> NoRequest]]
    /\ offers = {} /\ applied = {}
    /\ call = [h \in Calls |-> IdleCall]
    /\ agreed = {} /\ shown = {}

-----------------------------------------------------------------------------
(* requireEmployer: the company of the calling employer *)

Enter(h, e) ==
    /\ call[h].pc = "idle"
    /\ call' = [call EXCEPT ![h] = [IdleCall EXCEPT
                   !.pc = IF employer[e] = None THEN "found" ELSE "act",
                   !.e  = e, !.c = employer[e]]]
    /\ UNCHANGED <<now, workers, employer, founder, posting, contact, offers, applied,
                   agreed, shown>>

Found(h, c) ==
    /\ call[h].pc = "found"
    /\ founder[c] = None
    /\ founder' = [founder EXCEPT ![c] = call[h].e]
    /\ call' = [call EXCEPT ![h].pc = "attach", ![h].c = c]
    /\ UNCHANGED <<now, workers, employer, posting, contact, offers, applied, agreed, shown>>

\* Mutant: the new company is not entered with its employer.
AttachedNowhere(h) == employer

Attached(h) == [employer EXCEPT ![call[h].e] = call[h].c]

\* The call goes on with the company it created, whatever another call has attached.
Attach(h) ==
    /\ call[h].pc = "attach"
    /\ employer' = Attached(h)
    /\ call' = [call EXCEPT ![h].pc = "act"]
    /\ UNCHANGED <<now, workers, founder, posting, contact, offers, applied, agreed, shown>>

\* The request names nothing that exists, or nothing the call may act on.
Refuse(h) ==
    /\ call[h].pc = "act"
    /\ call' = [call EXCEPT ![h] = IdleCall]
    /\ UNCHANGED <<now, workers, employer, founder, posting, contact, offers, applied,
                   agreed, shown>>

-----------------------------------------------------------------------------
(* Postings.  A posting keeps its company and its row, so the check of the    *)
(* owner and the write that follows make one step.                            *)

Saved(j, c, s) == [owner |-> c, status |-> s, published |-> posting[j].published \/ s = "ACTIVE"]

SaveJob(h, j, s) ==
    /\ call[h].pc = "act"
    /\ posting' = [posting EXCEPT ![j] = Saved(j, call[h].c, s)]
    /\ call' = [call EXCEPT ![h] = IdleCall]
    /\ UNCHANGED <<now, workers, employer, founder, contact, offers, applied, agreed, shown>>

CreateJob(h, j, s) == posting[j].owner = None /\ SaveJob(h, j, s)

\* Any status may follow any other; one that is left out becomes ACTIVE.
UpdateJob(h, j, s) == posting[j].owner = call[h].c /\ SaveJob(h, j, s)

ArchiveJob(h, j) == UpdateJob(h, j, "ARCHIVED")

\* Mutant: a posting of any status.
OpenAnyStatus(j) == posting[j].owner # None

Open(j) == posting[j].owner # None /\ posting[j].status = "ACTIVE"

-----------------------------------------------------------------------------
(* Release of contact data *)

\* Mutant: contact data as soon as there is a request.
ReleasedOnRequest(c) == {w \in workers : contact[c][w].status # "none"}

Released(c) == {w \in workers : contact[c][w].status = "APPROVED"}

\* toCandidateDto for everybody on a list; the rows of the request and of the user go together.
Show(h, listed) ==
    /\ call[h].pc = "act"
    /\ shown' = shown \cup ({call[h].c} \X (Released(call[h].c) \cap listed))
    /\ call' = [call EXCEPT ![h] = IdleCall]
    /\ UNCHANGED <<now, workers, employer, founder, posting, contact, offers, applied, agreed>>

\* Who is found depends on filters and scores: Found of Matching.
SearchCandidates(h) == \E found \in SUBSET workers : Show(h, found)

ListRequests(h) == Show(h, {w \in workers : contact[call[h].c][w].status # "none"})

Applicants(c) == {w \in workers : \E j \in Jobs : posting[j].owner = c /\ <<j, w>> \in applied}

ListApplications(h) == Show(h, Applicants(call[h].c))

View(h) == SearchCandidates(h) \/ ListRequests(h) \/ ListApplications(h)

\* Mutant: a refusal holds for no time at all.
MayAskAgain(r) == r.status \in {"none", "DECLINED"}

MayAsk(r) == r.status = "none" \/ (r.status = "DECLINED" /\ now - r.at >= Lock)

AskRead(h, w) ==
    /\ call[h].pc = "act"
    /\ w \in workers
    /\ MayAsk(contact[call[h].c][w])
    /\ call' = [call EXCEPT ![h].pc = "ask", ![h].w = w, ![h].seen = contact[call[h].c][w]]
    /\ UNCHANGED <<now, workers, employer, founder, posting, contact, offers, applied,
                   agreed, shown>>

\* Mutant: the time until which a refusal would hold, for the time of the write.
AskedUntil == [status |-> "REQUESTED", at |-> now + Lock]

Asked == [status |-> "REQUESTED", at |-> now]

\* Mutant: no foreign key to the user.
InsertableAnyway(w) == TRUE

\* The foreign key to the user.
Insertable(w) == w \in workers

\* A request that was there is updated by its primary key, whatever it says by now;
\* it went if its user did.  Otherwise one is created, unless there is one by now.
Asks(h) ==
    LET r == contact[call[h].c][call[h].w] IN
    IF call[h].seen.status = "none" THEN r.status = "none" /\ Insertable(call[h].w)
                                    ELSE r.status # "none"

AskWrite(h) ==
    /\ call[h].pc = "ask"
    /\ contact' = IF Asks(h) THEN [contact EXCEPT ![call[h].c][call[h].w] = Asked] ELSE contact
    /\ call' = [call EXCEPT ![h] = IdleCall]
    /\ UNCHANGED <<now, workers, employer, founder, posting, offers, applied, agreed, shown>>

\* respondContactRequest: no condition on the status it finds.
Respond(w, c, s) ==
    /\ contact[c][w].status # "none"
    /\ s \in {"APPROVED", "DECLINED"}
    /\ contact' = [contact EXCEPT ![c][w] = [status |-> s, at |-> now]]
    /\ IF s = "APPROVED"
       THEN agreed' = agreed \cup {<<c, w>>} /\ shown' = shown
       ELSE agreed' = agreed \ {<<c, w>>} /\ shown' = shown \ {<<c, w>>}
    /\ UNCHANGED <<now, workers, employer, founder, posting, offers, applied, call>>

-----------------------------------------------------------------------------
(* Offers and applications: check of the posting, then the insert *)

\* The unique index makes a second insert fail.
Inserted(rows, j, w) == IF Insertable(w) THEN rows \cup {<<j, w>>} ELSE rows

OfferRead(h, j, w) ==
    /\ call[h].pc = "act"
    /\ Open(j) /\ posting[j].owner = call[h].c
    /\ w \in workers
    /\ call' = [call EXCEPT ![h].pc = "offer", ![h].j = j, ![h].w = w]
    /\ UNCHANGED <<now, workers, employer, founder, posting, contact, offers, applied,
                   agreed, shown>>

OfferWrite(h) ==
    /\ call[h].pc = "offer"
    /\ offers' = Inserted(offers, call[h].j, call[h].w)
    /\ call' = [call EXCEPT ![h] = IdleCall]
    /\ UNCHANGED <<now, workers, employer, founder, posting, contact, applied, agreed, shown>>

ApplyRead(h, w, j) ==
    /\ call[h].pc = "idle"
    /\ w \in workers
    /\ Open(j)
    /\ call' = [call EXCEPT ![h] = [IdleCall EXCEPT !.pc = "apply", !.w = w, !.j = j]]
    /\ UNCHANGED <<now, workers, employer, founder, posting, contact, offers, applied,
                   agreed, shown>>

ApplyWrite(h) ==
    /\ call[h].pc = "apply"
    /\ applied' = Inserted(applied, call[h].j, call[h].w)
    /\ call' = [call EXCEPT ![h] = IdleCall]
    /\ UNCHANGED <<now, workers, employer, founder, posting, contact, offers, agreed, shown>>

-----------------------------------------------------------------------------
(* Deletion of an account, restarts, time *)

\* Requests, offers and applications go with the user (onDelete: Cascade).
DeleteWorker(w) ==
    /\ w \in workers
    /\ workers' = workers \ {w}
    /\ contact' = [c \in Companies |-> [contact[c] EXCEPT ![w] = NoRequest]]
    /\ offers' = {o \in offers : o[2] # w}
    /\ applied' = {a \in applied : a[2] # w}
    /\ UNCHANGED <<now, employer, founder, posting, call, agreed, shown>>

Restart ==
    /\ call' = [h \in Calls |-> IdleCall]
    /\ UNCHANGED <<now, workers, employer, founder, posting, contact, offers, applied,
                   agreed, shown>>

Tick ==
    /\ now < MaxTime
    /\ now' = now + 1
    /\ UNCHANGED <<workers, employer, founder, posting, contact, offers, applied, call,
                   agreed, shown>>

EmployerStep(h) ==
    \/ \E e \in Employers : Enter(h, e)
    \/ \E c \in Companies : Found(h, c)
    \/ Attach(h) \/ Refuse(h) \/ View(h) \/ AskWrite(h) \/ OfferWrite(h)
    \/ \E j \in Jobs : \/ \E s \in JobStatus : CreateJob(h, j, s) \/ UpdateJob(h, j, s)
                       \/ ArchiveJob(h, j)
                       \/ \E w \in Workers : OfferRead(h, j, w)
    \/ \E w \in Workers : AskRead(h, w)

WorkerStep(w) ==
    \/ \E h \in Calls, j \in Jobs : ApplyRead(h, w, j)
    \/ \E c \in Companies, s \in {"APPROVED", "DECLINED"} : Respond(w, c, s)
    \/ DeleteWorker(w)

Next ==
    \/ \E h \in Calls : EmployerStep(h) \/ ApplyWrite(h)
    \/ \E w \in Workers : WorkerStep(w)
    \/ Restart
    \/ Tick

Spec == Init /\ [][Next]_vars

-----------------------------------------------------------------------------
(* What the marketplace promises *)

\* "The company NEVER receives contact data until the worker approves": data were
\* sent, and may be sent, only where the craftsman released them to that company and has
\* not refused since.
DataNeedsConsent ==
    /\ shown \subseteq agreed
    /\ \A c \in Companies, w \in Workers : contact[c][w].status = "APPROVED" => <<c, w>> \in agreed

\* A draft reaches nobody: offers and applications are about postings that were
\* published, although the posting may be withdrawn between its check and the insert.
ReachedWasPublished ==
    \A r \in offers \cup applied : posting[r[1]].published

\* Nothing of a deleted craftsman stays, whichever call was about to write it.
NothingOfTheGone ==
    \A w \in Workers \ workers :
        /\ \A c \in Companies : contact[c][w] = NoRequest
        /\ \A r \in offers \cup applied : r[2] # w

\* A company that owns a posting or asked somebody, and that its founder can no
\* longer reach.
Active(c) == \/ \E j \in Jobs : posting[j].owner = c
             \/ \E w \in Workers : contact[c][w].status # "none"

Superseded(c) == \E d \in Companies \ {c} : founder[d] = founder[c]

\* A company that acted is the one its employer works with, unless that employer's
\* first calls overlapped and created another one.
StrayNeedsRace ==
    \A c \in Companies : Active(c) =>
        /\ founder[c] \in Employers
        /\ employer[founder[c]] = c \/ Superseded(c)

\* A call under way that decided on a request the craftsman has answered since.
AnsweredSince(c, w) ==
    \E h \in Calls : /\ call[h].pc = "ask" /\ call[h].c = c /\ call[h].w = w
                     /\ call[h].seen # contact[c][w]

Reasked(c, w) == /\ contact[c][w].status \in {"APPROVED", "DECLINED"}
                 /\ contact'[c][w].status = "REQUESTED"

\* "Ein Nein des Kandidaten hält", to this extent: an answer is overridden by a new request
\* only once the refusal is 90 days old, or by a call that read the request before that
\* answer.
OnlyLateAnswersOverridden ==
    [][\A c \in Companies, w \in Workers :
          Reasked(c, w) => \/ /\ contact[c][w].status = "DECLINED"
                              /\ now - contact[c][w].at >= Lock
                           \/ AnsweredSince(c, w)]_vars

\* Why a refusal mostly holds: every call was allowed to ask when it read.
AskInv ==
    \A h \in Calls : call[h].pc = "ask" => MayAsk(call[h].seen)

\* Why offers and applications concern published postings.
ReachInv ==
    /\ \A j \in Jobs : posting[j].owner # None /\ posting[j].status = "ACTIVE"
                       => posting[j].published
    /\ \A h \in Calls : call[h].pc \in {"offer", "apply"} => posting[call[h].j].published

\* Why a company that acts is reachable or superseded.
CompanyInv ==
    /\ \A e \in Employers : employer[e] # None => founder[employer[e]] = e
    /\ \A h \in Calls :
        /\ call[h].pc \in {"attach", "act", "ask", "offer"} => founder[call[h].c] = call[h].e
        /\ call[h].pc \in {"act", "ask", "offer"} =>
               employer[call[h].e] = call[h].c \/ Superseded(call[h].c)
=============================================================================
