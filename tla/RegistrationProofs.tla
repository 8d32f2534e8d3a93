------------------------- MODULE RegistrationProofs -------------------------
(* Proofs about Registration, for any number of drafts, addresses and calls. *)
EXTENDS Registration, TLAPS

-----------------------------------------------------------------------------
(* Types *)

CallOK(r) == /\ r \in Call
             /\ r.pc \notin {"idle", "link", "places"} => r.d \in Drafts
             /\ r.pc \in {"save", "places"} => r.data \in Answers
             /\ r.pc \in {"check", "recheck", "commit"} => r.email \in Emails
             /\ r.pc \in {"link", "places"} => r.u \in Users

LEMMA CallsOKByCall == CallsOK <=> calls \in [Calls -> Call] /\ \A c \in Calls : CallOK(calls[c])
BY DEF CallsOK, CallOK

LEMMA StepsNat == /\ LastStep \in Nat /\ TotalSteps \in Nat /\ LastStep < TotalSteps
                  /\ Steps \subseteq 0..TotalSteps /\ 1 \in Steps /\ 0 \in 0..TotalSteps
                  /\ TotalSteps \in 0..TotalSteps
BY RegistrationAssumption DEF Steps, TotalSteps

LEMMA NoDataTypes == NoData \in StepData
BY DEF NoData, StepData

LEMMA FreshTypes == ASSUME NEW state \in {"unused", "open", "pruned"} PROVE Fresh(state) \in Draft
BY NoDataTypes, StepsNat DEF Fresh, Draft

LEMMA IdleTypes == CallOK(Idle)
BY NoDataTypes, StepsNat DEF CallOK, Call, Idle

\* A call goes on, and the others are left alone.
LEMMA GotoTypes ==
    ASSUME TypeOK, NEW c \in Calls, NEW r, CallOK(r), Goto(c, r)
    PROVE  /\ CallsOK' /\ calls'[c] = r
           /\ \A g \in Calls \ {c} : calls'[g] = calls[g]
<1>1. calls \in [Calls -> Call] /\ \A g \in Calls : CallOK(calls[g])
  BY CallsOKByCall DEF TypeOK
<1>2. calls' \in [Calls -> Call] /\ calls'[c] = r /\ \A g \in Calls \ {c} : calls'[g] = calls[g]
  BY <1>1 DEF Goto, CallOK
<1>3. \A g \in Calls : CallOK(calls'[g])
  BY <1>1, <1>2
<1>4. CallsOK'
  BY <1>2, <1>3 DEF CallsOK, CallOK
<1> QED BY <1>2, <1>4

LEMMA EndTypes ==
    ASSUME TypeOK, NEW c \in Calls, End(c)
    PROVE  /\ CallsOK' /\ calls'[c] = Idle
           /\ \A g \in Calls \ {c} : calls'[g] = calls[g]
BY IdleTypes, GotoTypes DEF End

-----------------------------------------------------------------------------
(* What each step does to the calls *)

\* The call c ends, or becomes r.
Moved(c, r) == CallOK(r) /\ CallsOK' /\ calls'[c] = r
               /\ \A g \in Calls \ {c} : calls'[g] = calls[g]

LEMMA SaveReadMoves ==
    ASSUME TypeOK, NEW c \in Calls, NEW d \in Drafts, NEW step \in Steps, NEW data \in Answers,
           SaveRead(c, d, step, data)
    PROVE  \E r : Moved(c, r) /\ r.pc = "save"
<1> DEFINE r == [Idle EXCEPT !.pc = "save", !.d = d, !.step = step, !.data = data,
                             !.seen = drafts[d].stepData, !.seenStep = drafts[d].currentStep]
<1>1. drafts[d].stepData \in StepData /\ drafts[d].currentStep \in 0..TotalSteps
  BY DEF TypeOK, Draft
<1>2. CallOK(r) /\ r.pc = "save"
  BY <1>1, IdleTypes DEF CallOK, Call, Idle
<1>3. Goto(c, r)
  BY DEF SaveRead
<1>4. Moved(c, r)
  BY <1>2, <1>3, GotoTypes DEF Moved
<1> QED BY <1>2, <1>4

LEMMA PlacesReadMoves ==
    ASSUME TypeOK, NEW c \in Calls, NEW u \in Users, NEW places \in Answers,
           PlacesRead(c, u, places)
    PROVE  \E r : Moved(c, r) /\ r.pc = "places"
<1> DEFINE r == [Idle EXCEPT !.pc = "places", !.u = u, !.data = places,
                             !.seen = users[u].profile]
<1>1. users[u].profile \in StepData
  BY DEF TypeOK, User
<1>2. CallOK(r) /\ r.pc = "places"
  BY <1>1, IdleTypes DEF CallOK, Call, Idle
<1>3. Goto(c, r)
  BY DEF PlacesRead
<1>4. Moved(c, r)
  BY <1>2, <1>3, GotoTypes DEF Moved
<1> QED BY <1>2, <1>4

LEMMA CompleteReadMoves ==
    ASSUME TypeOK, NEW c \in Calls, NEW d \in Drafts, NEW email \in Emails,
           NEW referred \in BOOLEAN, CompleteRead(c, d, email, referred)
    PROVE  \E r : Moved(c, r) /\ r.pc = "check"
<1> DEFINE r == [Idle EXCEPT !.pc = "check", !.d = d, !.email = email, !.referred = referred,
                             !.seen = drafts[d].stepData, !.seenStep = drafts[d].currentStep]
<1>1. drafts[d].stepData \in StepData /\ drafts[d].currentStep \in 0..TotalSteps
  BY DEF TypeOK, Draft
<1>2. CallOK(r) /\ r.pc = "check"
  BY <1>1, IdleTypes DEF CallOK, Call, Idle
<1>3. Goto(c, r)
  BY DEF CompleteRead
<1>4. Moved(c, r)
  BY <1>2, <1>3, GotoTypes DEF Moved
<1> QED BY <1>2, <1>4

LEMMA CompleteCheckMoves ==
    ASSUME TypeOK, NEW c \in Calls, CompleteCheck(c)
    PROVE  \E r : Moved(c, r) /\ r.pc \in {"idle", "recheck"}
<1> DEFINE r == [calls[c] EXCEPT !.pc = "recheck"]
<1>1. CASE Taken(calls[c].email)
  BY <1>1, EndTypes, IdleTypes DEF CompleteCheck, Moved, Idle
<1>2. CASE ~Taken(calls[c].email)
  <2>1. CallOK(calls[c]) /\ calls[c].pc = "check"
    BY CallsOKByCall DEF TypeOK, CompleteCheck
  <2>2. CallOK(r) /\ r.pc = "recheck"
    BY <2>1 DEF CallOK, Call
  <2>3. Moved(c, r)
    BY <1>2, <2>2, GotoTypes DEF CompleteCheck, Moved
  <2> QED BY <2>2, <2>3
<1> QED BY <1>1, <1>2

\* A call that passes the check takes the steps of the draft as they are by then.
Rechecked(c) ==
    LET d == calls[c].d IN
    [calls[c] EXCEPT !.pc = "commit", !.seen = drafts[d].stepData, !.promised = acked[d],
                     !.sound = d \notin lossy]

LEMMA CompleteRecheckMoves ==
    ASSUME TypeOK, NEW c \in Calls, CompleteRecheck(c)
    PROVE  /\ calls[c].d \in Drafts
           /\ \/ Moved(c, Idle)
              \/ Usable(calls[c].d) /\ Moved(c, Rechecked(c))
<1>1. CallOK(calls[c]) /\ calls[c].pc = "recheck"
  BY CallsOKByCall DEF TypeOK, CompleteRecheck
<1>2. calls[c].d \in Drafts
  BY <1>1 DEF CallOK
<1>3. CASE Usable(calls[c].d)
  <2>1. drafts[calls[c].d].stepData \in StepData /\ acked[calls[c].d] \in StepData
    BY <1>2 DEF TypeOK, Draft
  <2>2. CallOK(Rechecked(c))
    BY <1>1, <2>1 DEF CallOK, Call, Rechecked
  <2>3. Goto(c, Rechecked(c))
    BY <1>3 DEF CompleteRecheck, Profile, Rechecked
  <2> QED BY <1>2, <1>3, <2>2, <2>3, GotoTypes DEF Moved
<1>4. CASE ~Usable(calls[c].d)
  BY <1>2, <1>4, EndTypes, IdleTypes DEF CompleteRecheck, Moved
<1> QED BY <1>3, <1>4

LEMMA CompleteCommitMoves ==
    ASSUME TypeOK, NEW c \in Calls, NEW u \in Users, CompleteCommit(c, u)
    PROVE  Moved(c, AfterCommit(calls[c], u)) /\ CallOK(calls[c])
<1>1. CallOK(calls[c])
  BY CallsOKByCall DEF TypeOK
<1>2. CallOK(AfterCommit(calls[c], u))
  BY <1>1, IdleTypes DEF AfterCommit, CallOK, Call, CompleteCommit
<1>3. Goto(c, AfterCommit(calls[c], u))
  BY DEF CompleteCommit
<1> QED BY <1>1, <1>2, <1>3, GotoTypes DEF Moved

\* Steps that end a call.
Ends(c) == SaveRefused(c) \/ SaveWrite(c) \/ CompleteFails(c) \/ CompleteLink(c)
           \/ PlacesWrite(c)

LEMMA EndsMoves == ASSUME TypeOK, NEW c \in Calls, Ends(c) PROVE Moved(c, Idle)
<1>1. End(c)
  BY DEF Ends, SaveRefused, SaveWrite, CompleteFails, CompleteLink, PlacesWrite
<1> QED BY <1>1, EndTypes, IdleTypes DEF Moved

Others == \/ \E d \in Drafts : StartRegistration(d) \/ Expire(d)
          \/ PruneDrafts
          \/ \E u \in Users : DeleteUser(u) \/ \E profile \in Profiles : UpdateProfile(u, profile)
          \/ UNCHANGED vars

LEMMA OthersKeepCalls == Others => UNCHANGED <<calls, acked, lossy, made>>
BY DEF Others, StartRegistration, Expire, PruneDrafts, DeleteUser, UpdateProfile, vars

\* The steps of the system, as the proofs split them.
Reads(c) == \/ \E d \in Drafts, step \in Steps, data \in Answers : SaveRead(c, d, step, data)
            \/ \E d \in Drafts, email \in Emails, referred \in BOOLEAN :
                   CompleteRead(c, d, email, referred)
            \/ CompleteCheck(c)
            \/ \E u \in Users, places \in Answers : PlacesRead(c, u, places)

LEMMA StepCases ==
    [Next]_vars => \/ \E c \in Calls : \/ Reads(c) \/ CompleteRecheck(c) \/ Ends(c)
                                       \/ \E u \in Users : CompleteCommit(c, u)
                   \/ Others \/ Restart
BY DEF Next, Step, Reads, Ends, Others, LoadRefused

LEMMA ReadsMoves ==
    ASSUME TypeOK, NEW c \in Calls, Reads(c)
    PROVE  /\ \E r : Moved(c, r) /\ r.pc \in {"idle", "save", "check", "recheck", "places"}
           /\ UNCHANGED <<drafts, users, acked, lossy, made>>
<1>1. UNCHANGED <<drafts, users, acked, lossy, made>>
  BY DEF Reads, SaveRead, CompleteRead, CompleteCheck, PlacesRead
<1> QED BY <1>1, SaveReadMoves, CompleteReadMoves, CompleteCheckMoves, PlacesReadMoves
        DEF Reads

LEMMA CallsStep == ASSUME TypeOK, [Next]_vars PROVE CallsOK'
<1>1. ASSUME NEW c \in Calls, Reads(c) PROVE CallsOK'
  BY <1>1, ReadsMoves DEF Moved
<1>2. ASSUME NEW c \in Calls, CompleteRecheck(c) PROVE CallsOK'
  BY <1>2, CompleteRecheckMoves DEF Moved
<1>3. ASSUME NEW c \in Calls, Ends(c) PROVE CallsOK'
  BY <1>3, EndsMoves DEF Moved
<1>4. ASSUME NEW c \in Calls, NEW u \in Users, CompleteCommit(c, u) PROVE CallsOK'
  BY <1>4, CompleteCommitMoves DEF Moved
<1>5. Others => CallsOK'
  BY OthersKeepCalls DEF CallsOK, TypeOK
<1>6. Restart => CallsOK'
  BY IdleTypes DEF Restart, CallsOK, CallOK
<1> QED BY <1>1, <1>2, <1>3, <1>4, <1>5, <1>6, StepCases

-----------------------------------------------------------------------------
(* What each step does to the tables *)

\* What saveStep writes: the merged steps, and the highest step reached.
SavedDraft(c) == [drafts[calls[c].d] EXCEPT !.stepData = Merged(calls[c]),
                                            !.currentStep = Reached(calls[c])]
SavedAnswers(c) == [acked[calls[c].d] EXCEPT ![calls[c].step] = calls[c].data]

Saves(c) == LET d == calls[c].d IN
            /\ Stored(d)
            /\ drafts' = [drafts EXCEPT ![d] = SavedDraft(c)]
            /\ acked' = [acked EXCEPT ![d] = SavedAnswers(c)]
            /\ lossy' = IF Outdated(calls[c]) THEN lossy \cup {d} ELSE lossy

LEMMA MergedTypes ==
    ASSUME NEW r, CallOK(r), r.pc = "save"
    PROVE  Merged(r) \in StepData /\ Reached(r) \in 0..TotalSteps
<1>1. r.seen \in StepData /\ r.step \in Steps /\ r.data \in Answers /\ r.seenStep \in 0..TotalSteps
  BY DEF CallOK, Call
<1>2. Merged(r) \in StepData
  BY <1>1 DEF Merged, StepData
<1>3. Reached(r) \in 0..TotalSteps
  BY <1>1, StepsNat DEF Reached
<1> QED BY <1>2, <1>3

LEMMA SaveWriteCases ==
    ASSUME TypeOK, NEW c \in Calls, SaveWrite(c)
    PROVE  /\ CallOK(calls[c]) /\ calls[c].pc = "save" /\ calls[c].d \in Drafts
           /\ UNCHANGED <<users, made>>
           /\ \/ Saves(c)
              \/ ~Stored(calls[c].d) /\ UNCHANGED <<drafts, acked, lossy>>
<1>1. CallOK(calls[c]) /\ calls[c].pc = "save"
  BY CallsOKByCall DEF TypeOK, SaveWrite
<1>2. calls[c].d \in Drafts /\ calls[c].step \in Steps
  BY <1>1 DEF CallOK, Call
<1>3. CASE Stored(calls[c].d)
  <2>1. drafts' = [drafts EXCEPT ![calls[c].d] = SavedDraft(c)]
    BY <1>2, <1>3 DEF SaveWrite, SavedDraft, TypeOK, Draft
  <2>2. acked' = [acked EXCEPT ![calls[c].d] = SavedAnswers(c)]
    BY <1>2, <1>3 DEF SaveWrite, SavedAnswers, TypeOK
  <2>3. lossy' = IF Outdated(calls[c]) THEN lossy \cup {calls[c].d} ELSE lossy
    BY <1>3 DEF SaveWrite
  <2>4. UNCHANGED <<users, made>>
    BY DEF SaveWrite
  <2> QED BY <1>1, <1>2, <1>3, <2>1, <2>2, <2>3, <2>4 DEF Saves
<1>4. CASE ~Stored(calls[c].d)
  BY <1>1, <1>2, <1>4 DEF SaveWrite
<1> QED BY <1>3, <1>4

LEMMA SavedTypes ==
    ASSUME TypeOK, NEW c \in Calls, SaveWrite(c), Saves(c)
    PROVE  /\ SavedDraft(c) \in Draft /\ SavedAnswers(c) \in StepData
           /\ SavedDraft(c).state = drafts[calls[c].d].state
           /\ SavedDraft(c).stepData = Merged(calls[c])
           /\ SavedDraft(c).currentStep = Reached(calls[c])
<1>1. CallOK(calls[c]) /\ calls[c].pc = "save" /\ calls[c].d \in Drafts
  BY SaveWriteCases
<1>2. drafts[calls[c].d] \in Draft /\ acked[calls[c].d] \in StepData
  BY <1>1 DEF TypeOK
<1>3. calls[c].step \in Steps /\ calls[c].data \in Answers
  BY <1>1 DEF CallOK, Call
<1>4. SavedAnswers(c) \in StepData
  BY <1>2, <1>3 DEF SavedAnswers, StepData
<1> QED BY <1>1, <1>2, <1>4, MergedTypes DEF SavedDraft, Draft

\* The row a completed registration leaves, and the user it makes.
UserOf(call) ==
    [state |-> "live", email |-> call.email, profile |-> call.seen,
     promised |-> call.promised, sound |-> call.sound]

LEMMA CommitTypes ==
    ASSUME TypeOK, NEW c \in Calls, NEW u \in Users, CompleteCommit(c, u)
    PROVE  /\ calls[c].d \in Drafts /\ Stored(calls[c].d)
           /\ UserOf(calls[c]) \in User /\ users' = [users EXCEPT ![u] = UserOf(calls[c])]
           /\ PromotedDraft(drafts[calls[c].d]) \in Draft
           /\ drafts' = [drafts EXCEPT ![calls[c].d] = PromotedDraft(drafts[calls[c].d])]
           /\ made' = made \cup {calls[c].d}
<1>1. CallOK(calls[c]) /\ calls[c].pc = "commit"
  BY CallsOKByCall DEF TypeOK, CompleteCommit
<1>2. calls[c].d \in Drafts /\ calls[c].email \in Emails /\ calls[c] \in Call
  BY <1>1 DEF CallOK
<1>3. UserOf(calls[c]) \in User
  BY <1>2 DEF UserOf, User, Call
<1>4. PromotedDraft(drafts[calls[c].d]) \in Draft
  <2>1. drafts[calls[c].d] \in Draft
    BY <1>2 DEF TypeOK
  <2>2. \A row \in Draft : PromotedDraft(row) \in Draft
    BY StepsNat DEF Draft, PromotedDraft
  <2> QED BY <2>1, <2>2
<1> QED BY <1>2, <1>3, <1>4 DEF CompleteCommit, UserOf

\* The row that saveWorkLocations writes.
PlacedUser(c) ==
    LET u == calls[c].u IN
    [users[u] EXCEPT !.profile = Placed(calls[c]),
                     !.promised = [users[u].promised EXCEPT ![PlacesStep] = calls[c].data],
                     !.sound = users[u].sound /\ users[u].profile = calls[c].seen]

LEMMA PlacesWriteCases ==
    ASSUME TypeOK, NEW c \in Calls, PlacesWrite(c)
    PROVE  /\ CallOK(calls[c]) /\ calls[c].pc = "places"
           /\ UNCHANGED <<drafts, acked, lossy, made>>
           /\ \/ users' = [users EXCEPT ![calls[c].u] = PlacedUser(c)]
              \/ users' = users
<1>1. CallOK(calls[c]) /\ calls[c].pc = "places" /\ UNCHANGED <<drafts, acked, lossy, made>>
  BY CallsOKByCall DEF TypeOK, PlacesWrite
<1>2. calls[c].u \in Users
  BY <1>1 DEF CallOK
<1>3. CASE users[calls[c].u].state = "live"
  <2>1. users[calls[c].u] \in User
    BY <1>2 DEF TypeOK
  <2>2. users' = [users EXCEPT ![calls[c].u] = PlacedUser(c)]
    BY <1>2, <1>3, <2>1 DEF PlacesWrite, PlacedUser, TypeOK, User
  <2> QED BY <1>1, <2>2
<1>4. CASE users[calls[c].u].state # "live"
  BY <1>1, <1>4 DEF PlacesWrite
<1> QED BY <1>3, <1>4

LEMMA PlacedTypes ==
    ASSUME TypeOK, NEW c \in Calls, PlacesWrite(c)
    PROVE  /\ calls[c].u \in Users /\ PlacedUser(c) \in User
           /\ PlacedUser(c).sound /\ users[calls[c].u].profile = users[calls[c].u].promised
                  => PlacedUser(c).profile = PlacedUser(c).promised
           /\ PlacedUser(c).sound => users[calls[c].u].sound
           /\ PlacedUser(c).state = users[calls[c].u].state
<1> DEFINE row == users[calls[c].u]
<1>1. CallOK(calls[c]) /\ calls[c].pc = "places"
  BY PlacesWriteCases
<1>2. calls[c].u \in Users /\ calls[c].data \in Answers /\ calls[c].seen \in StepData
  BY <1>1 DEF CallOK, Call
<1>3. row \in User /\ row.promised \in StepData
  BY <1>2 DEF TypeOK, User
<1>4. PlacesStep \in Steps
  BY RegistrationAssumption DEF Steps
<1>5. Placed(calls[c]) \in StepData
  BY <1>2, <1>4 DEF Placed, StepData
<1>6. [row.promised EXCEPT ![PlacesStep] = calls[c].data] \in StepData
  BY <1>2, <1>3, <1>4 DEF StepData
<1>7. /\ PlacedUser(c).profile = Placed(calls[c])
      /\ PlacedUser(c).promised = [row.promised EXCEPT ![PlacesStep] = calls[c].data]
      /\ PlacedUser(c).sound = (row.sound /\ row.profile = calls[c].seen)
      /\ PlacedUser(c).state = row.state
  BY <1>3 DEF PlacedUser, User
<1>8. PlacedUser(c) \in User
  <2>1. row.sound \in BOOLEAN
    BY <1>3 DEF User
  <2>2. (row.sound /\ row.profile = calls[c].seen) \in BOOLEAN
    OBVIOUS
  <2>3. \A p \in StepData, q \in StepData, b \in BOOLEAN :
            [row EXCEPT !.profile = p, !.promised = q, !.sound = b] \in User
    BY <1>3 DEF User
  <2> QED BY <1>5, <1>6, <2>2, <2>3 DEF PlacedUser
<1> QED BY <1>2, <1>7, <1>8 DEF Placed

LEMMA UpdateTypes ==
    ASSUME TypeOK, NEW u \in Users, NEW profile \in Profiles, UpdateProfile(u, profile)
    PROVE  /\ users' \in [Users -> User]
           /\ users'[u].profile = users'[u].promised
           /\ \A v \in Users \ {u} : users'[v] = users[v]
           /\ UNCHANGED <<drafts, calls, acked, lossy, made>>
<1>1. users[u] \in User /\ profile \in StepData
  BY RegistrationAssumption DEF TypeOK, StepData, Steps
<1> DEFINE row == [users[u] EXCEPT !.profile = profile, !.promised = profile, !.sound = TRUE]
<1>2. row \in User /\ row.profile = profile /\ row.promised = profile
  BY <1>1 DEF User
<1>3. users' = [users EXCEPT ![u] = row]
  BY <1>1 DEF UpdateProfile, TypeOK, User
<1> QED BY <1>2, <1>3 DEF UpdateProfile, TypeOK

LEMMA DeletedTypes ==
    /\ [NoUser EXCEPT !.state = "deleted"] \in User
    /\ [NoUser EXCEPT !.state = "deleted"].profile = [NoUser EXCEPT !.state = "deleted"].promised
BY NoDataTypes DEF NoUser, User

LEMMA TablesStep ==
    ASSUME TypeOK, [Next]_vars
    PROVE  /\ drafts' \in [Drafts -> Draft] /\ users' \in [Users -> User]
           /\ acked' \in [Drafts -> StepData] /\ lossy' \subseteq Drafts
           /\ made' \subseteq Drafts
<1> DEFINE Tables == /\ drafts' \in [Drafts -> Draft] /\ users' \in [Users -> User]
                     /\ acked' \in [Drafts -> StepData] /\ lossy' \subseteq Drafts
                     /\ made' \subseteq Drafts
<1>1. ASSUME NEW c \in Calls, Reads(c) \/ CompleteRecheck(c) \/ SaveRefused(c)
                              \/ CompleteFails(c) \/ CompleteLink(c)
      PROVE  Tables
  <2>1. UNCHANGED <<drafts, users, acked, lossy, made>>
    BY <1>1, ReadsMoves DEF CompleteRecheck, SaveRefused, CompleteFails, CompleteLink
  <2> QED BY <2>1 DEF TypeOK
<1>2. ASSUME NEW c \in Calls, SaveWrite(c) PROVE Tables
  <2>1. CASE Saves(c)
    BY <1>2, <2>1, SaveWriteCases, SavedTypes DEF Saves, TypeOK
  <2>2. CASE UNCHANGED <<drafts, acked, lossy>>
    BY <1>2, <2>2, SaveWriteCases DEF TypeOK
  <2> QED BY <1>2, <2>1, <2>2, SaveWriteCases
<1>3. ASSUME NEW c \in Calls, NEW u \in Users, CompleteCommit(c, u) PROVE Tables
  <2>1. drafts' \in [Drafts -> Draft] /\ users' \in [Users -> User]
    BY <1>3, CommitTypes DEF TypeOK
  <2>2. made' \subseteq Drafts
    BY <1>3, CommitTypes DEF TypeOK
  <2> QED BY <1>3, <2>1, <2>2 DEF TypeOK, CompleteCommit
<1>4. ASSUME NEW c \in Calls, PlacesWrite(c) PROVE Tables
  BY <1>4, PlacesWriteCases, PlacedTypes DEF TypeOK
<1>5. ASSUME NEW d \in Drafts, StartRegistration(d) PROVE Tables
  BY <1>5, FreshTypes DEF TypeOK, StartRegistration
<1>6. ASSUME NEW d \in Drafts, Expire(d) PROVE Tables
  BY <1>6 DEF TypeOK, Expire, Draft
<1>7. PruneDrafts => Tables
  BY FreshTypes DEF TypeOK, PruneDrafts, Pruned
<1>8. ASSUME NEW u \in Users, DeleteUser(u) PROVE Tables
  BY <1>8, DeletedTypes DEF TypeOK, DeleteUser
<1>9. ASSUME NEW u \in Users, NEW profile \in Profiles, UpdateProfile(u, profile) PROVE Tables
  BY <1>9, UpdateTypes DEF TypeOK
<1>10. Restart => Tables
  BY DEF TypeOK, Restart
<1>11. UNCHANGED vars => Tables
  BY DEF TypeOK, vars
<1> QED BY <1>1, <1>2, <1>3, <1>4, <1>5, <1>6, <1>7, <1>8, <1>9, <1>10, <1>11, StepCases
        DEF Ends, Others

LEMMA InitTypes == Init => TypeOK
<1>1. NoUser \in User
  BY NoDataTypes DEF NoUser, User
<1> QED BY <1>1, FreshTypes, IdleTypes, NoDataTypes DEF Init, TypeOK, CallsOK, CallOK

LEMMA TypeStep == TypeOK /\ [Next]_vars => TypeOK'
BY CallsStep, TablesStep DEF TypeOK

\* The tables and the local states of the wizard keep their types.
THEOREM TypeCorrect == Spec => []TypeOK
BY InitTypes, TypeStep, PTL DEF Spec

-----------------------------------------------------------------------------
(* No answer is lost *)

\* A draft that has not been started has no answers.
UnusedClean == \A d \in Drafts : drafts[d].state = "unused" => acked[d] = NoData

\* A call inside the transaction has the answers acknowledged by its check.
CommitHolds ==
    \A c \in Calls : calls[c].pc = "commit" /\ calls[c].sound => calls[c].seen = calls[c].promised

AnswersInv == AnswersKept /\ ProfileHoldsAnswers /\ UnusedClean /\ CommitHolds

LEMMA AnswersInit == Init => AnswersInv
BY DEF Init, AnswersInv, AnswersKept, ProfileHoldsAnswers, UnusedClean, CommitHolds, Stored,
       Fresh, NoUser, Idle

LEMMA KeptBySave ==
    ASSUME TypeOK, AnswersKept, UnusedClean, NEW c \in Calls, SaveWrite(c)
    PROVE  AnswersKept' /\ UnusedClean'
<1>1. CASE UNCHANGED <<drafts, acked, lossy>>
  BY <1>1 DEF AnswersKept, UnusedClean, Stored
<1>2. CASE Saves(c)
  <2> DEFINE e == calls[c].d
  <2>1. e \in Drafts /\ Stored(e) /\ CallOK(calls[c]) /\ calls[c].pc = "save"
    BY <1>2, SaveWriteCases DEF Saves
  <2>2. /\ drafts'[e] = SavedDraft(c) /\ acked'[e] = SavedAnswers(c)
        /\ \A d \in Drafts \ {e} : drafts'[d] = drafts[d] /\ acked'[d] = acked[d]
        /\ lossy \subseteq lossy'
    BY <1>2, <2>1 DEF Saves, TypeOK
  <2>3. calls[c].seen \in StepData /\ calls[c].step \in Steps /\ calls[c].data \in Answers
        /\ calls[c].seenStep \in 0..TotalSteps
    BY <2>1 DEF CallOK, Call
  <2>4. ASSUME e \notin lossy'
        PROVE  /\ drafts'[e].stepData = acked'[e]
               /\ \A s \in Steps : acked'[e][s] # None => s <= drafts'[e].currentStep
    <3>1. e \notin lossy /\ drafts[e].stepData = calls[c].seen
          /\ drafts[e].currentStep = calls[c].seenStep
      BY <1>2, <2>4 DEF Saves, Outdated
    <3>2. acked[e] = calls[c].seen
          /\ \A s \in Steps : acked[e][s] # None => s <= calls[c].seenStep
      BY <2>1, <3>1 DEF AnswersKept
    <3>3. drafts'[e].stepData = Merged(calls[c]) /\ drafts'[e].currentStep = Reached(calls[c])
      BY <1>2, <2>2, SavedTypes
    <3>4. acked'[e] = Merged(calls[c])
      BY <2>2, <3>2 DEF SavedAnswers, Merged
    <3>5. calls[c].step <= Reached(calls[c]) /\ calls[c].seenStep <= Reached(calls[c])
          /\ Reached(calls[c]) \in Nat
      <4>1. calls[c].step \in Nat /\ calls[c].seenStep \in Nat
        <5>1. calls[c].step \in 0..TotalSteps
          BY <2>3, StepsNat
        <5>2. \A i \in 0..TotalSteps : i \in Nat
          BY StepsNat
        <5> QED BY <2>3, <5>1, <5>2
      <4> QED BY <4>1 DEF Reached
    <3>6. ASSUME NEW s \in Steps, acked'[e][s] # None PROVE s <= Reached(calls[c])
      <4>1. CASE s = calls[c].step
        BY <3>5, <4>1
      <4>2. CASE s # calls[c].step
        <5>1. acked'[e][s] = acked[e][s]
          BY <2>3, <3>2, <3>4, <4>2 DEF Merged, StepData
        <5>2. s <= calls[c].seenStep
          BY <3>2, <3>6, <5>1
        <5>3. s \in Nat /\ calls[c].seenStep \in Nat
          BY <2>3, StepsNat
        <5> QED BY <3>5, <5>2, <5>3
      <4> QED BY <4>1, <4>2
    <3> QED BY <3>3, <3>4, <3>6
  <2>5. drafts'[e].state = drafts[e].state
    BY <1>2, <2>2, SavedTypes
  <2>6. AnswersKept'
    BY <2>1, <2>2, <2>4, <2>5 DEF AnswersKept, Stored
  <2>7. UnusedClean'
    BY <2>1, <2>2, <2>5 DEF UnusedClean, Stored
  <2> QED BY <2>6, <2>7
<1> QED BY <1>1, <1>2, SaveWriteCases

\* Other steps leave the answers of a draft alone.
LEMMA KeptByOthers ==
    ASSUME TypeOK, AnswersKept, UnusedClean, [Next]_vars,
           \A c \in Calls : ~SaveWrite(c)
    PROVE  AnswersKept' /\ UnusedClean'
<1>1. ASSUME NEW c \in Calls, Reads(c) \/ CompleteRecheck(c) \/ Ends(c)
      PROVE  AnswersKept' /\ UnusedClean'
  <2>1. UNCHANGED <<drafts, acked, lossy>>
    BY <1>1, ReadsMoves, PlacesWriteCases
       DEF CompleteRecheck, Ends, SaveRefused, CompleteFails, CompleteLink
  <2> QED BY <2>1 DEF AnswersKept, UnusedClean, Stored
<1>2. ASSUME NEW c \in Calls, NEW u \in Users, CompleteCommit(c, u)
      PROVE  AnswersKept' /\ UnusedClean'
  <2> DEFINE e == calls[c].d
  <2>1. e \in Drafts /\ Stored(e) /\ drafts'[e] = PromotedDraft(drafts[e])
        /\ drafts[e] \in Draft
        /\ \A d \in Drafts \ {e} : drafts'[d] = drafts[d]
    BY <1>2, CommitTypes DEF TypeOK
  <2>2. drafts'[e].stepData = drafts[e].stepData /\ drafts'[e].currentStep = TotalSteps
        /\ drafts'[e].state = "completed"
    BY <2>1 DEF PromotedDraft, Draft
  <2>3. \A s \in Steps : s <= TotalSteps
    BY StepsNat
  <2>4. UNCHANGED <<acked, lossy>>
    BY <1>2 DEF CompleteCommit
  <2> QED BY <2>1, <2>2, <2>3, <2>4 DEF AnswersKept, UnusedClean, Stored
<1>3. ASSUME NEW d \in Drafts, StartRegistration(d) PROVE AnswersKept' /\ UnusedClean'
  <2>1. acked[d] = NoData /\ drafts'[d] = Fresh("open")
        /\ \A e \in Drafts \ {d} : drafts'[e] = drafts[e]
    BY <1>3 DEF StartRegistration, UnusedClean, TypeOK
  <2>2. drafts'[d].stepData = acked[d] /\ \A s \in Steps : acked[d][s] = None
        /\ drafts'[d].state = "open"
    BY <2>1 DEF Fresh, NoData
  <2>3. UNCHANGED <<acked, lossy>>
    BY <1>3 DEF StartRegistration
  <2> QED BY <2>1, <2>2, <2>3 DEF AnswersKept, UnusedClean, Stored
<1>4. ASSUME NEW d \in Drafts, Expire(d) PROVE AnswersKept' /\ UnusedClean'
  BY <1>4 DEF Expire, AnswersKept, UnusedClean, Stored, TypeOK, Draft
<1>5. PruneDrafts => AnswersKept' /\ UnusedClean'
  BY DEF PruneDrafts, Pruned, Fresh, AnswersKept, UnusedClean, Stored, TypeOK
<1>6. ASSUME NEW u \in Users, DeleteUser(u) \/ \E profile \in Profiles : UpdateProfile(u, profile)
      PROVE  AnswersKept' /\ UnusedClean'
  <2>1. UNCHANGED <<drafts, acked, lossy>>
    BY <1>6, UpdateTypes DEF DeleteUser
  <2> QED BY <2>1 DEF AnswersKept, UnusedClean, Stored
<1>7. Restart \/ UNCHANGED vars => AnswersKept' /\ UnusedClean'
  BY DEF Restart, vars, AnswersKept, UnusedClean, Stored
<1> QED BY <1>1, <1>2, <1>3, <1>4, <1>5, <1>6, <1>7, StepCases DEF Others

LEMMA CommitHoldsStep ==
    ASSUME TypeOK, AnswersKept, CommitHolds, [Next]_vars PROVE CommitHolds'
<1>1. ASSUME NEW c \in Calls, NEW r, Moved(c, r), r.pc # "commit" PROVE CommitHolds'
  BY <1>1 DEF CommitHolds, Moved
<1>2. ASSUME NEW c \in Calls, Reads(c) PROVE CommitHolds'
  BY <1>1, <1>2, ReadsMoves
<1>3. ASSUME NEW c \in Calls, CompleteRecheck(c) PROVE CommitHolds'
  <2>1. CASE Moved(c, Idle)
    BY <1>1, <2>1 DEF Idle
  <2>2. CASE Usable(calls[c].d) /\ Moved(c, Rechecked(c))
    <3> DEFINE d == calls[c].d
    <3>1. CallOK(calls[c]) /\ d \in Drafts
      BY <1>3, CallsOKByCall, CompleteRecheckMoves DEF TypeOK
    <3>2. Rechecked(c).seen = drafts[d].stepData /\ Rechecked(c).promised = acked[d]
          /\ Rechecked(c).sound = (d \notin lossy)
      BY <3>1 DEF Rechecked, CallOK, Call
    <3>3. d \notin lossy => drafts[d].stepData = acked[d]
      BY <2>2, <3>1 DEF AnswersKept, Usable, Stored
    <3> QED BY <2>2, <3>2, <3>3 DEF CommitHolds, Moved
  <2> QED BY <1>3, <2>1, <2>2, CompleteRecheckMoves
<1>4. ASSUME NEW c \in Calls, Ends(c) PROVE CommitHolds'
  BY <1>1, <1>4, EndsMoves DEF Idle
<1>5. ASSUME NEW c \in Calls, NEW u \in Users, CompleteCommit(c, u) PROVE CommitHolds'
  <2>1. AfterCommit(calls[c], u).pc # "commit"
    BY <1>5, CompleteCommitMoves DEF AfterCommit, Idle, CallOK, Call
  <2> QED BY <1>1, <1>5, <2>1, CompleteCommitMoves
<1>6. Others => CommitHolds'
  BY OthersKeepCalls DEF CommitHolds
<1>7. Restart => CommitHolds'
  BY DEF Restart, CommitHolds, Idle
<1> QED BY <1>2, <1>3, <1>4, <1>5, <1>6, <1>7, StepCases

LEMMA ProfileStep ==
    ASSUME TypeOK, ProfileHoldsAnswers, CommitHolds, [Next]_vars PROVE ProfileHoldsAnswers'
<1>1. ASSUME NEW c \in Calls, Reads(c) \/ CompleteRecheck(c) \/ SaveRefused(c) \/ SaveWrite(c)
                              \/ CompleteFails(c) \/ CompleteLink(c)
      PROVE  ProfileHoldsAnswers'
  <2>1. users' = users
    BY <1>1, ReadsMoves
       DEF CompleteRecheck, SaveRefused, SaveWrite, CompleteFails, CompleteLink
  <2> QED BY <2>1 DEF ProfileHoldsAnswers
<1>2. ASSUME NEW c \in Calls, PlacesWrite(c) PROVE ProfileHoldsAnswers'
  <2>1. CASE users' = users
    BY <2>1 DEF ProfileHoldsAnswers
  <2>2. CASE users' = [users EXCEPT ![calls[c].u] = PlacedUser(c)]
    <3>1. \A v \in Users \ {calls[c].u} : users'[v] = users[v]
      BY <2>2 DEF TypeOK
    <3>2. calls[c].u \in Users /\ users'[calls[c].u] = PlacedUser(c)
      BY <1>2, <2>2, PlacedTypes DEF TypeOK
    <3> QED BY <1>2, <3>1, <3>2, PlacedTypes DEF ProfileHoldsAnswers
  <2> QED BY <1>2, <2>1, <2>2, PlacesWriteCases
<1>3. ASSUME NEW c \in Calls, NEW u \in Users, CompleteCommit(c, u) PROVE ProfileHoldsAnswers'
  <2>1. users'[u] = UserOf(calls[c]) /\ \A v \in Users \ {u} : users'[v] = users[v]
    BY <1>3, CommitTypes DEF TypeOK
  <2>2. calls[c].sound => calls[c].seen = calls[c].promised
    BY <1>3 DEF CommitHolds, CompleteCommit
  <2> QED BY <2>1, <2>2 DEF ProfileHoldsAnswers, UserOf
<1>4. ASSUME NEW u \in Users, DeleteUser(u) PROVE ProfileHoldsAnswers'
  <2>1. users'[u] = [NoUser EXCEPT !.state = "deleted"]
        /\ \A v \in Users \ {u} : users'[v] = users[v]
    BY <1>4 DEF DeleteUser, TypeOK
  <2> QED BY <2>1, DeletedTypes DEF ProfileHoldsAnswers
<1>5. ASSUME NEW u \in Users, NEW profile \in Profiles, UpdateProfile(u, profile)
      PROVE  ProfileHoldsAnswers'
  BY <1>5, UpdateTypes DEF ProfileHoldsAnswers
<1>6. ASSUME UNCHANGED users PROVE ProfileHoldsAnswers'
  BY <1>6 DEF ProfileHoldsAnswers
<1> QED BY <1>1, <1>2, <1>3, <1>4, <1>5, <1>6, StepCases
        DEF Ends, Others, StartRegistration, Expire, PruneDrafts, Restart, vars

LEMMA AnswersStep == TypeOK /\ AnswersInv /\ [Next]_vars => AnswersInv'
<1> SUFFICES ASSUME TypeOK, AnswersInv, [Next]_vars PROVE AnswersInv'
  OBVIOUS
<1>1. AnswersKept' /\ UnusedClean'
  <2>1. CASE \E c \in Calls : SaveWrite(c)
    BY <2>1, KeptBySave DEF AnswersInv
  <2>2. CASE ~\E c \in Calls : SaveWrite(c)
    BY <2>2, KeptByOthers DEF AnswersInv
  <2> QED BY <2>1, <2>2
<1> QED BY <1>1, CommitHoldsStep, ProfileStep DEF AnswersInv

\* However the calls overlap, an acknowledged answer reaches the profile of the user and
\* stays there until it is replaced, unless two steps of the draft overlapped, or a saving
\* of work locations overlapped another change of the profile.
THEOREM AnswersReachProfile == Spec => []NoAnswerLost
<1>1. Init => TypeOK /\ AnswersInv
  BY InitTypes, AnswersInit
<1>2. (TypeOK /\ AnswersInv) /\ [Next]_vars => (TypeOK /\ AnswersInv)'
  BY TypeStep, AnswersStep
<1>3. AnswersInv => NoAnswerLost
  BY DEF AnswersInv, NoAnswerLost
<1> QED BY <1>1, <1>2, <1>3, PTL DEF Spec

-----------------------------------------------------------------------------
(* A draft is promoted once *)

\* A draft a user was made of is not open again.
MadeClosed == \A d \in made : drafts[d].state \in {"completed", "pruned"}

LEMMA MadeStep == ASSUME TypeOK, MadeClosed, [Next]_vars PROVE MadeClosed'
<1>1. ASSUME NEW c \in Calls, Reads(c) \/ CompleteRecheck(c) \/ SaveRefused(c)
                              \/ CompleteFails(c) \/ CompleteLink(c) \/ PlacesWrite(c)
      PROVE  MadeClosed'
  <2>1. UNCHANGED <<drafts, made>>
    BY <1>1, ReadsMoves, PlacesWriteCases
       DEF CompleteRecheck, SaveRefused, CompleteFails, CompleteLink
  <2> QED BY <2>1 DEF MadeClosed
<1>2. ASSUME NEW c \in Calls, SaveWrite(c) PROVE MadeClosed'
  <2>1. \A d \in Drafts : drafts'[d].state = drafts[d].state
    <3>1. CASE Saves(c)
      BY <1>2, <3>1, SavedTypes, SaveWriteCases DEF Saves, TypeOK
    <3> QED BY <1>2, <3>1, SaveWriteCases
  <2> QED BY <1>2, <2>1, SaveWriteCases DEF MadeClosed, TypeOK
<1>3. ASSUME NEW c \in Calls, NEW u \in Users, CompleteCommit(c, u) PROVE MadeClosed'
  <2>1. PromotedDraft(drafts[calls[c].d]).state = "completed"
    BY <1>3, CommitTypes DEF PromotedDraft, TypeOK, Draft
  <2> QED BY <1>3, <2>1, CommitTypes DEF MadeClosed, TypeOK
<1>4. ASSUME NEW d \in Drafts, StartRegistration(d) PROVE MadeClosed'
  BY <1>4 DEF StartRegistration, MadeClosed, TypeOK
<1>5. ASSUME NEW d \in Drafts, Expire(d) PROVE MadeClosed'
  BY <1>5 DEF Expire, MadeClosed, TypeOK, Draft
<1>6. PruneDrafts => MadeClosed'
  BY DEF PruneDrafts, Pruned, Fresh, MadeClosed, TypeOK
<1>7. ASSUME UNCHANGED <<drafts, made>> PROVE MadeClosed'
  BY <1>7 DEF MadeClosed
<1> QED BY <1>1, <1>2, <1>3, <1>4, <1>5, <1>6, <1>7, StepCases
        DEF Ends, Others, DeleteUser, UpdateProfile, Restart, vars

LEMMA InsideStep ==
    ASSUME TypeOK, MadeClosed, [Next]_vars, NEW d \in made
    PROVE  Inside(d)' \subseteq Inside(d)
<1>0. ~Usable(d)
  BY DEF MadeClosed, Usable, TypeOK
<1>1. ASSUME NEW c \in Calls, NEW r, Moved(c, r), r.pc # "commit"
      PROVE  Inside(d)' \subseteq Inside(d)
  BY <1>1 DEF Inside, Moved
<1>2. ASSUME NEW c \in Calls, Reads(c) PROVE Inside(d)' \subseteq Inside(d)
  BY <1>1, <1>2, ReadsMoves
<1>3. ASSUME NEW c \in Calls, CompleteRecheck(c) PROVE Inside(d)' \subseteq Inside(d)
  <2>1. CASE Moved(c, Idle)
    BY <1>1, <2>1 DEF Idle
  <2>2. CASE Usable(calls[c].d) /\ Moved(c, Rechecked(c))
    <3>1. calls[c].d # d
      BY <1>0, <2>2
    <3>2. Rechecked(c).d = calls[c].d
      BY <1>3, CallsOKByCall DEF Rechecked, TypeOK, CallOK, Call
    <3> QED BY <2>2, <3>1, <3>2 DEF Inside, Moved
  <2> QED BY <1>3, <2>1, <2>2, CompleteRecheckMoves
<1>4. ASSUME NEW c \in Calls, Ends(c) PROVE Inside(d)' \subseteq Inside(d)
  BY <1>1, <1>4, EndsMoves DEF Idle
<1>5. ASSUME NEW c \in Calls, NEW u \in Users, CompleteCommit(c, u)
      PROVE  Inside(d)' \subseteq Inside(d)
  <2>1. AfterCommit(calls[c], u).pc # "commit"
    BY <1>5, CompleteCommitMoves DEF AfterCommit, Idle, CallOK, Call
  <2> QED BY <1>1, <1>5, <2>1, CompleteCommitMoves
<1>6. Others => Inside(d)' \subseteq Inside(d)
  BY OthersKeepCalls DEF Inside
<1>7. Restart => Inside(d)' \subseteq Inside(d)
  BY DEF Restart, Inside, Idle
<1> QED BY <1>2, <1>3, <1>4, <1>5, <1>6, <1>7, StepCases

\* Once a user has been made of a draft, no transaction that had not passed its check of the
\* draft by then makes another.
THEOREM PromotionIsFinal == Spec => PromotedOnce
<1>1. Init => TypeOK /\ MadeClosed
  BY InitTypes DEF Init, MadeClosed
<1>2. (TypeOK /\ MadeClosed) /\ [Next]_vars => (TypeOK /\ MadeClosed)'
  BY TypeStep, MadeStep
<1>3. (TypeOK /\ MadeClosed) /\ [Next]_vars
      => [\A d \in made : Inside(d)' \subseteq Inside(d)]_vars
  BY InsideStep
<1> QED BY <1>1, <1>2, <1>3, PTL DEF Spec, PromotedOnce
=============================================================================
