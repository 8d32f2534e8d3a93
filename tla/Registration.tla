---------------------------- MODULE Registration ----------------------------
(***************************************************************************)
(* The registration wizard of AuthService: drafts, their steps, and their  *)
(* promotion to a user; and the changes of the profile data the user has   *)
(* from it, by updateProfile and by saveWorkLocations of JobsService.      *)
(*                                                                         *)
(* saveStep reads the draft, merges one step into what it read, and writes *)
(* the whole object.  completeRegistration reads the draft twice: once to  *)
(* answer early, and again inside the transaction that creates the user.   *)
(* The transaction runs at Read Committed and locks nothing it reads.  Its *)
(* two writes and its commit are one step: nothing is read between them.   *)
(***************************************************************************)
EXTENDS Naturals, FiniteSets

CONSTANTS
    Drafts,         \* primary keys of RegistrationDraft; never used twice
    Users,          \* primary keys of User; never used twice
    Emails,         \* normalised addresses
    LastStep,       \* LAST_PLACEHOLDER_STEP
    Answers,        \* payloads of a step
    PlacesStep,     \* the step that holds the work locations
    Profiles,       \* profile data a client can send to updateProfile
    Calls,          \* slots of concurrent calls
    None            \* the null value

ASSUME RegistrationAssumption ==
    /\ LastStep \in Nat \ {0} /\ PlacesStep \in 1..LastStep
    /\ None \notin Drafts \cup Users \cup Emails \cup Answers
    /\ Profiles \subseteq [1..LastStep -> Answers \cup {None}]

VARIABLES
    drafts,         \* table RegistrationDraft
    users,          \* table User
    calls,          \* local state of each call
    acked,          \* history: the last answer acknowledged for each step of a draft
    lossy,          \* history: drafts written by a call with an outdated snapshot
    made            \* history: drafts a user was made of

vars == <<drafts, users, calls, acked, lossy, made>>

Steps == 1..LastStep
TotalSteps == LastStep + 1
StepData == [Steps -> Answers \cup {None}]
NoData == [s \in Steps |-> None]

Draft == [state: {"unused", "open", "completed", "pruned"}, expired: BOOLEAN,
          currentStep: 0..TotalSteps, stepData: StepData]

Fresh(state) == [state |-> state, expired |-> FALSE, currentStep |-> 0, stepData |-> NoData]

\* promised and sound are history: what was acknowledged last of each answer, and whether
\* no overlap of two calls has lost any of it.
User == [state: {"unused", "live", "deleted"}, email: Emails \cup {None}, profile: StepData,
         promised: StepData, sound: BOOLEAN]

NoUser == [state |-> "unused", email |-> None, profile |-> NoData, promised |-> NoData,
           sound |-> FALSE]

Call == [pc: {"idle", "save", "check", "recheck", "commit", "link", "places"},
         d: Drafts \cup {None}, step: Steps, data: Answers \cup {None},
         email: Emails \cup {None}, referred: BOOLEAN, u: Users \cup {None},
         seen: StepData, seenStep: 0..TotalSteps, promised: StepData, sound: BOOLEAN]

Idle == [pc |-> "idle", d |-> None, step |-> 1, data |-> None, email |-> None,
         referred |-> FALSE, u |-> None, seen |-> NoData, seenStep |-> 0,
         promised |-> NoData, sound |-> FALSE]

Init ==
    /\ drafts = [d \in Drafts |-> Fresh("unused")]
    /\ users = [u \in Users |-> NoUser]
    /\ calls = [c \in Calls |-> Idle]
    /\ acked = [d \in Drafts |-> NoData]
    /\ lossy = {}
    /\ made = {}

Stored(d) == drafts[d].state \in {"open", "completed"}

\* loadDraft, and the check it repeats inside the transaction.
Usable(d) == drafts[d].state = "open" /\ ~drafts[d].expired

Goto(c, call) == calls' = [calls EXCEPT ![c] = call]
End(c) == Goto(c, Idle)

-----------------------------------------------------------------------------
(* Drafts and steps *)

StartRegistration(d) ==
    /\ drafts[d].state = "unused"
    /\ drafts' = [drafts EXCEPT ![d] = Fresh("open")]
    /\ UNCHANGED <<users, calls, acked, lossy, made>>

SaveRead(c, d, step, data) ==
    /\ calls[c].pc = "idle"
    /\ Usable(d)
    /\ Goto(c, [Idle EXCEPT !.pc = "save", !.d = d, !.step = step, !.data = data,
                            !.seen = drafts[d].stepData, !.seenStep = drafts[d].currentStep])
    /\ UNCHANGED <<drafts, users, acked, lossy, made>>

\* loadDraft refuses a draft that is unknown, completed or expired.
LoadRefused(c, d) ==
    /\ calls[c].pc = "idle"
    /\ ~Usable(d)
    /\ UNCHANGED vars

\* The merged object exceeds the cap on its size.
SaveRefused(c) ==
    /\ calls[c].pc = "save"
    /\ End(c)
    /\ UNCHANGED <<drafts, users, acked, lossy, made>>

\* Mutant: the step replaces what was stored.
MergedAlone(call) == [NoData EXCEPT ![call.step] = call.data]

Merged(call) == [call.seen EXCEPT ![call.step] = call.data]

\* Math.max(draft.currentStep, step)
Reached(call) == IF call.seenStep < call.step THEN call.step ELSE call.seenStep

Outdated(call) ==
    drafts[call.d].stepData # call.seen \/ drafts[call.d].currentStep # call.seenStep

\* update by primary key: a draft that is gone fails the call, a completed one does not.
SaveWrite(c) ==
    LET call == calls[c]
        d == call.d
    IN
    /\ call.pc = "save"
    /\ IF Stored(d)
       THEN /\ drafts' = [drafts EXCEPT ![d].stepData = Merged(call),
                                        ![d].currentStep = Reached(call)]
            /\ acked' = [acked EXCEPT ![d][call.step] = call.data]
            /\ lossy' = IF Outdated(call) THEN lossy \cup {d} ELSE lossy
       ELSE UNCHANGED <<drafts, acked, lossy>>
    /\ End(c)
    /\ UNCHANGED <<users, made>>

-----------------------------------------------------------------------------
(* Promotion *)

CompleteRead(c, d, email, referred) ==
    /\ calls[c].pc = "idle"
    /\ Usable(d)
    /\ Goto(c, [Idle EXCEPT !.pc = "check", !.d = d, !.email = email, !.referred = referred,
                            !.seen = drafts[d].stepData, !.seenStep = drafts[d].currentStep])
    /\ UNCHANGED <<drafts, users, acked, lossy, made>>

Taken(email) == \E u \in Users : users[u].state = "live" /\ users[u].email = email

\* The early answer for an address in use, and the hash of the password.
CompleteCheck(c) ==
    /\ calls[c].pc = "check"
    /\ IF Taken(calls[c].email) THEN End(c) ELSE Goto(c, [calls[c] EXCEPT !.pc = "recheck"])
    /\ UNCHANGED <<drafts, users, acked, lossy, made>>

\* Mutant: the steps are those of the first read.
ProfileReadEarly(c) == calls[c].seen

\* The steps of the draft as it is inside the transaction.
Profile(c) == drafts[calls[c].d].stepData

CompleteRecheck(c) ==
    LET d == calls[c].d IN
    /\ calls[c].pc = "recheck"
    /\ IF Usable(d)
       THEN Goto(c, [calls[c] EXCEPT !.pc = "commit", !.seen = Profile(c),
                                     !.promised = acked[d], !.sound = d \notin lossy])
       ELSE End(c)
    /\ UNCHANGED <<drafts, users, acked, lossy, made>>

\* Mutant: the draft is left open.
PromotedDraftOpen(row) == [row EXCEPT !.currentStep = TotalSteps]

PromotedDraft(row) == [row EXCEPT !.state = "completed", !.currentStep = TotalSteps]

\* Mutant: the user created is not passed on.
AfterCommitNobody(call, u) == IF call.referred THEN [Idle EXCEPT !.pc = "link"] ELSE Idle

\* Only a user who came by a link is handed to linkReferral.
AfterCommit(call, u) ==
    IF call.referred THEN [Idle EXCEPT !.pc = "link", !.u = u] ELSE Idle

\* The user is created, the draft is marked, and the transaction commits.
CompleteCommit(c, u) ==
    LET call == calls[c]
        d == call.d
    IN
    /\ call.pc = "commit"
    /\ users[u].state = "unused"
    /\ Stored(d) /\ ~Taken(call.email)
    /\ users' = [users EXCEPT ![u] =
           [state |-> "live", email |-> call.email, profile |-> call.seen,
            promised |-> call.promised, sound |-> call.sound]]
    /\ drafts' = [drafts EXCEPT ![d] = PromotedDraft(@)]
    /\ made' = made \cup {d}
    /\ Goto(c, AfterCommit(call, u))
    /\ UNCHANGED <<acked, lossy>>

\* The address is in use (P2002), the draft has been pruned (P2025), or its JSON is too
\* large: all of the transaction is rolled back.
CompleteFails(c) ==
    /\ calls[c].pc = "commit"
    /\ End(c)
    /\ UNCHANGED <<drafts, users, acked, lossy, made>>

\* linkReferral catches its own errors; what it does is Link of Referral.
CompleteLink(c) ==
    /\ calls[c].pc = "link"
    /\ End(c)
    /\ UNCHANGED <<drafts, users, acked, lossy, made>>

-----------------------------------------------------------------------------
(* Changes of the profile *)

\* updateProfile replaces all of profileData, whatever it read before; of a user who is gone
\* by its write it changes nothing.
UpdateProfile(u, profile) ==
    /\ users[u].state = "live"
    /\ users' = [users EXCEPT ![u].profile = profile, ![u].promised = profile,
                              ![u].sound = TRUE]
    /\ UNCHANGED <<drafts, calls, acked, lossy, made>>

PlacesRead(c, u, places) ==
    /\ calls[c].pc = "idle"
    /\ users[u].state = "live"
    /\ Goto(c, [Idle EXCEPT !.pc = "places", !.u = u, !.data = places,
                            !.seen = users[u].profile])
    /\ UNCHANGED <<drafts, users, acked, lossy, made>>

\* Mutant: the profile is replaced by the places.
PlacedAlone(call) == [NoData EXCEPT ![PlacesStep] = call.data]

\* The places are merged into the profile as it was read.  The answer of PlacesStep stands
\* for its places; whatever else that step holds is kept as the other steps are.
Placed(call) == [call.seen EXCEPT ![PlacesStep] = call.data]

\* update by primary key: a user who is gone fails the call.
PlacesWrite(c) ==
    LET call == calls[c]
        u == call.u
    IN
    /\ call.pc = "places"
    /\ users' = IF users[u].state = "live"
                THEN [users EXCEPT ![u].profile = Placed(call),
                                   ![u].promised[PlacesStep] = call.data,
                                   ![u].sound = @ /\ users[u].profile = call.seen]
                ELSE users
    /\ End(c)
    /\ UNCHANGED <<drafts, acked, lossy, made>>

-----------------------------------------------------------------------------
(* Everything else *)

\* Time passes the end of the draft and of its token, which are the same moment.
Expire(d) ==
    /\ Stored(d)
    /\ drafts' = [drafts EXCEPT ![d].expired = TRUE]
    /\ UNCHANGED <<users, calls, acked, lossy, made>>

Pruned == Fresh("pruned")

\* pruneAuthArtifacts: drafts that are completed or expired.
PruneDrafts ==
    LET gone == {d \in Drafts : Stored(d) /\ (drafts[d].expired \/ drafts[d].state = "completed")}
    IN
    /\ gone # {}
    /\ drafts' = [d \in Drafts |-> IF d \in gone THEN Pruned ELSE drafts[d]]
    /\ UNCHANGED <<users, calls, acked, lossy, made>>

\* deleteAccount of Accounts; the address is free again.
DeleteUser(u) ==
    /\ users[u].state = "live"
    /\ users' = [users EXCEPT ![u] = [NoUser EXCEPT !.state = "deleted"]]
    /\ UNCHANGED <<drafts, calls, acked, lossy, made>>

Restart ==
    /\ calls' = [c \in Calls |-> Idle]
    /\ UNCHANGED <<drafts, users, acked, lossy, made>>

Step(c) ==
    \/ \E d \in Drafts, step \in Steps, data \in Answers : SaveRead(c, d, step, data)
    \/ \E d \in Drafts : LoadRefused(c, d)
    \/ SaveRefused(c)
    \/ SaveWrite(c)
    \/ \E d \in Drafts, email \in Emails, referred \in BOOLEAN :
           CompleteRead(c, d, email, referred)
    \/ CompleteCheck(c)
    \/ CompleteRecheck(c)
    \/ \E u \in Users : CompleteCommit(c, u)
    \/ CompleteFails(c)
    \/ CompleteLink(c)
    \/ \E u \in Users, places \in Answers : PlacesRead(c, u, places)
    \/ PlacesWrite(c)

Next ==
    \/ \E c \in Calls : Step(c)
    \/ \E d \in Drafts : StartRegistration(d)
    \/ \E d \in Drafts : Expire(d)
    \/ PruneDrafts
    \/ \E u \in Users : DeleteUser(u) \/ \E profile \in Profiles : UpdateProfile(u, profile)
    \/ Restart

Spec == Init /\ [][Next]_vars

-----------------------------------------------------------------------------
(* Properties *)

CallsOK ==
    /\ calls \in [Calls -> Call]
    /\ \A c \in Calls :
           /\ calls[c].pc \notin {"idle", "link", "places"} => calls[c].d \in Drafts
           /\ calls[c].pc \in {"save", "places"} => calls[c].data \in Answers
           /\ calls[c].pc \in {"check", "recheck", "commit"} => calls[c].email \in Emails
           /\ calls[c].pc \in {"link", "places"} => calls[c].u \in Users

\* The tables and the local states have their types; a call under way knows its draft.
TypeOK ==
    /\ drafts \in [Drafts -> Draft]
    /\ users \in [Users -> User]
    /\ CallsOK
    /\ acked \in [Drafts -> StepData]
    /\ lossy \subseteq Drafts
    /\ made \subseteq Drafts

\* saveStep answers with success: an answer acknowledged last stays in the draft, and the
\* highest step is kept, unless some call wrote the draft with a snapshot that was outdated.
AnswersKept ==
    \A d \in Drafts : Stored(d) /\ d \notin lossy =>
        /\ drafts[d].stepData = acked[d]
        /\ \A s \in Steps : acked[d][s] # None => s <= drafts[d].currentStep

\* A user is made of every answer acknowledged by the time the transaction of
\* completeRegistration looks at the draft, although the draft was first read before the
\* password was hashed, and his profile follows every change acknowledged later; only what
\* an overlap of two steps, or of a saving of work locations, lost is missing.
ProfileHoldsAnswers ==
    \A u \in Users : users[u].state # "unused" /\ users[u].sound =>
        users[u].profile = users[u].promised

\* No acknowledged answer is lost on its way from the wizard to the profile of the user and
\* afterwards, except by two steps of one draft that overlap, and by work locations saved
\* while the profile changes.
NoAnswerLost == AnswersKept /\ ProfileHoldsAnswers

Inside(d) == {c \in Calls : calls[c].pc = "commit" /\ calls[c].d = d}

\* The promotion of a draft is single-use: once a user has been made of it, no further
\* transaction gets past its check of the draft, through steps saved late, expiry, pruning
\* and restarts; only those that had passed it by then can still make a user.
PromotedOnce ==
    [][\A d \in made : Inside(d)' \subseteq Inside(d)]_vars
=============================================================================
