----------------------------- MODULE OtpProofs -----------------------------
(* Proofs about Otp, for every number of contacts, codes and handlers. *)
EXTENDS Otp, FiniteSetTheorems, TLAPS

\* A handler that moves on keeps a well-formed local state.
LEMMA RequestGoto ==
    ASSUME RequestsOK, NEW r \in Requests, NEW s \in RequestState,
           s.pc # "idle" => s.contact # None,
           req' = [req EXCEPT ![r] = s]
    PROVE  RequestsOK'
<1>1. req' \in [Requests -> RequestState]
  BY DEF RequestsOK
<1>2. ASSUME NEW q \in Requests, req'[q].pc # "idle" PROVE req'[q].contact # None
  <2>1. CASE q = r
    BY <1>2, <2>1 DEF RequestsOK
  <2>2. CASE q # r
    BY <1>2, <2>2 DEF RequestsOK
  <2> QED BY <2>1, <2>2
<1> QED BY <1>1, <1>2 DEF RequestsOK

LEMMA VerifyGoto ==
    ASSUME VerifiersOK, NEW v \in Verifiers, NEW s \in VerifyState,
           s.pc # "idle" => s.contact # None /\ Present(s.snap),
           ver' = [ver EXCEPT ![v] = s]
    PROVE  VerifiersOK'
<1>1. ver' \in [Verifiers -> VerifyState]
  BY DEF VerifiersOK
<1>2. ASSUME NEW q \in Verifiers, ver'[q].pc # "idle"
      PROVE  ver'[q].contact # None /\ Present(ver'[q].snap)
  <2>1. CASE q = v
    BY <1>2, <2>1 DEF VerifiersOK
  <2>2. CASE q # v
    BY <1>2, <2>2 DEF VerifiersOK
  <2> QED BY <2>1, <2>2
<1> QED BY <1>1, <1>2 DEF VerifiersOK

LEMMA IdleTypes ==
    /\ IdleRequest \in RequestState /\ IdleRequest.pc = "idle"
    /\ IdleVerify \in VerifyState /\ IdleVerify.pc = "idle"
    /\ NoChallenge \in Challenge
BY DEF IdleRequest, RequestState, IdleVerify, VerifyState, Snapshot, SnapOf, NoChallenge,
       Challenge

LEMMA RequestsStep == TypeOK /\ [Next]_vars => RequestsOK'
<1> SUFFICES ASSUME TypeOK, [Next]_vars PROVE RequestsOK'
  OBVIOUS
<1> USE DEF TypeOK
<1>1. CASE UNCHANGED vars
  BY <1>1 DEF vars, RequestsOK
<1>2. ASSUME NEW r \in Requests, NEW c \in Contacts, RequestStart(r, c) PROVE RequestsOK'
  <2> DEFINE s == [IdleRequest EXCEPT !.pc = "count", !.contact = c, !.now = now]
  <2>1. s \in RequestState /\ s.contact # None
    BY OtpAssumption DEF IdleRequest, RequestState, TablesOK
  <2> QED BY <1>2, <2>1, RequestGoto DEF RequestStart
<1>3. ASSUME NEW r \in Requests, RequestCount(r) PROVE RequestsOK'
  <2> DEFINE s == [req[r] EXCEPT !.pc = "cooldown"]
  <2>1. s \in RequestState /\ s.contact # None
    BY <1>3 DEF RequestCount, RequestsOK, RequestState
  <2>2. req' = [req EXCEPT ![r] = s] \/ req' = [req EXCEPT ![r] = IdleRequest]
    BY <1>3 DEF RequestCount
  <2> QED BY <2>1, <2>2, RequestGoto, IdleTypes
<1>4. ASSUME NEW r \in Requests, RequestCooldown(r) PROVE RequestsOK'
  <2> DEFINE s == [req[r] EXCEPT !.pc = "upsert"]
  <2>1. s \in RequestState /\ s.contact # None
    BY <1>4 DEF RequestCooldown, RequestsOK, RequestState
  <2>2. req' = [req EXCEPT ![r] = s] \/ req' = [req EXCEPT ![r] = IdleRequest]
    BY <1>4 DEF RequestCooldown
  <2> QED BY <2>1, <2>2, RequestGoto, IdleTypes
<1>5. ASSUME NEW r \in Requests, NEW code \in Codes, RequestUpsert(r, code)
      PROVE  RequestsOK'
  <2>1. PICK id \in Nat :
          req' = [req EXCEPT ![r] = [req[r] EXCEPT !.pc = "log", !.id = id, !.issue = nextIssue]]
    <3> DEFINE id == IF Present(challenge[req[r].contact])
                     THEN challenge[req[r].contact].id ELSE nextId
    <3>1. req' = [req EXCEPT ![r] = [req[r] EXCEPT !.pc = "log", !.id = id, !.issue = nextIssue]]
      BY <1>5 DEF RequestUpsert, RequestsOK
    <3>2. req[r].contact \in Contacts
      BY <1>5 DEF RequestUpsert, RequestsOK, RequestState
    <3>3. id \in Nat
      BY <3>2 DEF TablesOK, Challenge
    <3> QED BY <3>1, <3>3
  <2> DEFINE s == [req[r] EXCEPT !.pc = "log", !.id = id, !.issue = nextIssue]
  <2>2. s \in RequestState /\ s.contact # None
    BY <1>5 DEF RequestUpsert, RequestsOK, RequestState, HistoryOK
  <2> QED BY <2>1, <2>2, RequestGoto
<1>6. ASSUME NEW r \in Requests, RequestConflict(r) PROVE RequestsOK'
  BY <1>6, RequestGoto, IdleTypes DEF RequestConflict
<1>7. ASSUME NEW r \in Requests, RequestLog(r) PROVE RequestsOK'
  <2> DEFINE s == [req[r] EXCEPT !.pc = "deliver"]
  <2>1. s \in RequestState /\ s.contact # None
    BY <1>7 DEF RequestLog, RequestsOK, RequestState
  <2>2. req' = [req EXCEPT ![r] = s]
    BY <1>7 DEF RequestLog
  <2> QED BY <2>1, <2>2, RequestGoto
<1>8. ASSUME NEW r \in Requests, RequestDeliver(r) PROVE RequestsOK'
  BY <1>8, RequestGoto, IdleTypes DEF RequestDeliver
<1>9. ASSUME NEW r \in Requests, RequestDeliveryFails(r) PROVE RequestsOK'
  <2> DEFINE s == [req[r] EXCEPT !.pc = "rollback"]
  <2>1. s \in RequestState /\ s.contact # None
    BY <1>9 DEF RequestDeliveryFails, RequestsOK, RequestState
  <2>2. req' = [req EXCEPT ![r] = s]
    BY <1>9 DEF RequestDeliveryFails
  <2> QED BY <2>1, <2>2, RequestGoto
<1>10. ASSUME NEW r \in Requests, RequestRollback(r) PROVE RequestsOK'
  BY <1>10, RequestGoto, IdleTypes DEF RequestRollback
<1>11. ASSUME Restart PROVE RequestsOK'
  BY <1>11, IdleTypes DEF Restart, RequestsOK
<1>12. ASSUME UNCHANGED req PROVE RequestsOK'
  BY <1>12 DEF RequestsOK
<1>13. ASSUME NEW v \in Verifiers,
              \/ \E c \in Contacts, code \in Codes : VerifyRead(v, c, code)
              \/ VerifyStep(v)
       PROVE  UNCHANGED req
  BY <1>13 DEF VerifyRead, Found, VerifyStep, VerifyCharge, VerifyLock, VerifyWrongCode,
               VerifyConsume, VerifyPurge, VerifyMint
<1>14. Prune \/ Tick => UNCHANGED req
  BY DEF Prune, Tick
<1> QED
  BY <1>1, <1>2, <1>3, <1>4, <1>5, <1>6, <1>7, <1>8, <1>9, <1>10, <1>11, <1>12, <1>13, <1>14
     DEF Next, RequestStep

LEMMA VerifiersStep == TypeOK /\ [Next]_vars => VerifiersOK'
<1> SUFFICES ASSUME TypeOK, [Next]_vars PROVE VerifiersOK'
  OBVIOUS
<1> USE DEF TypeOK
<1>1. ASSUME UNCHANGED ver PROVE VerifiersOK'
  BY <1>1 DEF VerifiersOK
<1>2. ASSUME NEW v \in Verifiers, NEW c \in Contacts, NEW code \in Codes,
             VerifyRead(v, c, code)
      PROVE  VerifiersOK'
  <2> DEFINE s == [IdleVerify EXCEPT !.pc = "charge", !.contact = c,
                                     !.code = code, !.snap = SnapOf(challenge[c])]
  <2>1. SnapOf(challenge[c]) \in Snapshot /\ Present(SnapOf(challenge[c]))
    BY <1>2 DEF VerifyRead, Found, SnapOf, Snapshot, TablesOK, Challenge, Present
  <2>2. /\ s \in VerifyState
        /\ s.contact # None
        /\ Present(s.snap)
    BY <2>1, OtpAssumption DEF IdleVerify, VerifyState
  <2> QED BY <1>2, <2>2, VerifyGoto DEF VerifyRead
<1>3. ASSUME NEW v \in Verifiers, VerifyCharge(v) PROVE VerifiersOK'
  <2>1. PICK pc \in {"compare", "lock"} : ver' = [ver EXCEPT ![v] = [ver[v] EXCEPT !.pc = pc]]
    <3>1. \/ ver' = [ver EXCEPT ![v] = [ver[v] EXCEPT !.pc = "compare"]]
          \/ ver' = [ver EXCEPT ![v] = [ver[v] EXCEPT !.pc = "lock"]]
      BY <1>3 DEF VerifyCharge
    <3> QED BY <3>1
  <2> DEFINE s == [ver[v] EXCEPT !.pc = pc]
  <2>2. s \in VerifyState /\ s.contact # None /\ Present(s.snap)
    BY <1>3 DEF VerifyCharge, VerifiersOK, VerifyState
  <2> QED BY <2>1, <2>2, VerifyGoto
<1>4. ASSUME NEW v \in Verifiers, VerifyLock(v) \/ VerifyWrongCode(v) \/ VerifyMint(v)
      PROVE  VerifiersOK'
  BY <1>4, VerifyGoto, IdleTypes DEF VerifyLock, VerifyWrongCode, VerifyMint
<1>5. ASSUME NEW v \in Verifiers, VerifyConsume(v) PROVE VerifiersOK'
  <2> DEFINE won == challenge[ver[v].contact].issue
             s == [ver[v] EXCEPT !.pc = "purge", !.won = won]
  <2>1. ver[v] \in VerifyState /\ ver[v].contact \in Contacts /\ Present(ver[v].snap)
    BY <1>5 DEF VerifyConsume, VerifiersOK, VerifyState
  <2>2. won \in Nat
    BY <2>1 DEF TablesOK, Challenge
  <2>3. s \in VerifyState /\ s.contact # None /\ Present(s.snap)
    BY <2>1, <2>2, OtpAssumption DEF VerifyState
  <2>4. ver' = [ver EXCEPT ![v] = s] \/ ver' = [ver EXCEPT ![v] = IdleVerify]
    BY <1>5 DEF VerifyConsume
  <2> QED BY <2>3, <2>4, VerifyGoto, IdleTypes
<1>6. ASSUME NEW v \in Verifiers, VerifyPurge(v) PROVE VerifiersOK'
  <2> DEFINE s == [ver[v] EXCEPT !.pc = "mint"]
  <2>1. s \in VerifyState /\ s.contact # None /\ Present(s.snap)
    BY <1>6 DEF VerifyPurge, VerifiersOK, VerifyState
  <2>2. ver' = [ver EXCEPT ![v] = s]
    BY <1>6 DEF VerifyPurge
  <2> QED BY <2>1, <2>2, VerifyGoto
<1>7. ASSUME Restart PROVE VerifiersOK'
  BY <1>7, IdleTypes DEF Restart, VerifiersOK
<1>8. ASSUME NEW r \in Requests,
             RequestStep(r) \/ \E c \in Contacts : RequestStart(r, c)
      PROVE  UNCHANGED ver
  BY <1>8 DEF RequestStart, RequestStep, RequestCount, RequestCooldown, RequestUpsert,
              RequestConflict, RequestLog, RequestDeliver, RequestDeliveryFails, RequestRollback
<1>9. Prune \/ Tick \/ UNCHANGED vars => UNCHANGED ver
  BY DEF Prune, Tick, vars
<1> QED
  BY <1>1, <1>2, <1>3, <1>4, <1>5, <1>6, <1>7, <1>8, <1>9 DEF Next, VerifyStep

\* A statement that writes one row keeps the table well-formed.
LEMMA WriteRow ==
    ASSUME challenge \in [Contacts -> Challenge], NEW c \in Contacts, NEW row \in Challenge
    PROVE  [challenge EXCEPT ![c] = row] \in [Contacts -> Challenge]
OBVIOUS

LEMMA HoldingFinite ==
    ASSUME NEW i
    PROVE  /\ IsFiniteSet(Holding(i)) /\ Cardinality(Holding(i)) \in Nat
           /\ IsFiniteSet(Waiting(i)) /\ Cardinality(Waiting(i)) \in Nat
<1>1. Holding(i) \in SUBSET Verifiers /\ Waiting(i) \in SUBSET Verifiers
  BY DEF Holding, Waiting
<1> QED BY <1>1, OtpAssumption, FS_Subset, FS_CardinalityType

LEMMA CountUp ==
    ASSUME NEW N, NEW f \in [1..N -> Nat], NEW i, NEW n \in Nat
    PROVE  [f EXCEPT ![i] = f[i] + n] \in [1..N -> Nat]
<1>1. CASE i \in 1..N
  BY <1>1
<1>2. CASE i \notin 1..N
  <2>1. [f EXCEPT ![i] = f[i] + n] = f
    BY <1>2
  <2> QED BY <2>1
<1> QED BY <1>1, <1>2

LEMMA TablesStep == TypeOK /\ [Next]_vars => TablesOK' /\ HistoryOK'
<1> SUFFICES ASSUME TypeOK, [Next]_vars PROVE TablesOK' /\ HistoryOK'
  OBVIOUS
<1> USE DEF TypeOK
<1> DEFINE Rows == challenge \in [Contacts -> Challenge]
<1>1. ASSUME NEW r \in Requests, req[r].pc # "idle"
      PROVE  /\ req[r].contact \in Contacts
             /\ req[r].now \in Nat /\ req[r].issue \in Nat
  BY <1>1 DEF RequestsOK, RequestState
<1>2. ASSUME NEW v \in Verifiers, ver[v].pc # "idle"
      PROVE  /\ ver[v].contact \in Contacts
             /\ ver[v].won \in Nat /\ ver[v].snap.issue \in Nat
  BY <1>2 DEF VerifiersOK, VerifyState, Snapshot
<1>3. ASSUME NEW c \in Contacts, NEW id, DeleteById(c, id) PROVE Rows'
  BY <1>3, IdleTypes DEF TablesOK, DeleteById
<1>4. ASSUME UNCHANGED <<now, challenge, issuances, tokens, nextId, history>>
      PROVE  TablesOK' /\ HistoryOK'
  BY <1>4 DEF TablesOK, HistoryOK, history
<1>5. ASSUME NEW r \in Requests, NEW code \in Codes, RequestUpsert(r, code)
      PROVE  TablesOK' /\ HistoryOK'
  <2> DEFINE c == req[r].contact
             old == challenge[c]
             row == [id        |-> IF Present(old) THEN old.id ELSE nextId,
                     code      |-> code,
                     attempts  |-> 0,
                     expiresAt |-> req[r].now + Ttl,
                     consumed  |-> FALSE,
                     createdAt |-> IF Present(old) THEN req[r].now ELSE now,
                     issue     |-> nextIssue]
  <2>1. c \in Contacts /\ old \in Challenge /\ req[r].now \in Nat
    BY <1>1, <1>5 DEF RequestUpsert, TablesOK
  <2>2. row \in Challenge
    <3>1. row.id \in Nat /\ row.createdAt \in Nat
      <4>1. old.id \in Nat /\ nextId \in Nat /\ now \in Nat
        BY <2>1 DEF Challenge, TablesOK
      <4> QED BY <2>1, <4>1
    <3>2. row.expiresAt \in Nat /\ row.issue \in Nat
      BY <2>1, OtpAssumption DEF HistoryOK
    <3>3. row.code \in Codes /\ row.attempts \in Nat /\ row.consumed \in BOOLEAN
      OBVIOUS
    <3>4. row = [id |-> row.id, code |-> row.code, attempts |-> row.attempts,
                 expiresAt |-> row.expiresAt, consumed |-> row.consumed,
                 createdAt |-> row.createdAt, issue |-> row.issue]
      OBVIOUS
    <3> HIDE DEF row
    <3> QED BY <3>1, <3>2, <3>3, <3>4 DEF Challenge
  <2>3. Rows'
    BY <1>5, <2>1, <2>2, WriteRow DEF RequestUpsert, TablesOK
  <2>4. nextId' \in Nat \ {0} /\ nextIssue' \in Nat \ {0}
    BY <1>5 DEF RequestUpsert, TablesOK, HistoryOK
  <2>5. UNCHANGED <<now, issuances, tokens, inbox, guesses>>
    BY <1>5 DEF RequestUpsert
  <2>6. overtaken' \in [1..MaxIssues -> Nat]
    <3>1. overtaken \in [1..MaxIssues -> Nat] /\ Cardinality(Holding(old.issue)) \in Nat
      BY HoldingFinite DEF HistoryOK
    <3>2. \/ overtaken' = overtaken
          \/ overtaken' = [overtaken EXCEPT ![old.issue] =
                              overtaken[old.issue] + Cardinality(Holding(old.issue))]
      BY <1>5 DEF RequestUpsert
    <3> HIDE DEF old
    <3> QED BY <3>1, <3>2, CountUp
  <2> QED BY <2>3, <2>4, <2>5, <2>6 DEF TablesOK, HistoryOK
<1>6. ASSUME NEW r \in Requests, RequestLog(r) PROVE TablesOK' /\ HistoryOK'
  <2>1. issuances' \in SUBSET Issuance
    BY <1>1, <1>6 DEF RequestLog, TablesOK, Issuance
  <2> QED BY <1>6, <2>1 DEF RequestLog, TablesOK, HistoryOK, history
<1>7. ASSUME NEW r \in Requests, RequestDeliver(r) PROVE TablesOK' /\ HistoryOK'
  <2>1. inbox' \in SUBSET Delivery
    BY <1>1, <1>7 DEF RequestDeliver, HistoryOK, Delivery
  <2> QED BY <1>7, <2>1 DEF RequestDeliver, TablesOK, HistoryOK
<1>8. ASSUME NEW r \in Requests, RequestRollback(r) PROVE TablesOK' /\ HistoryOK'
  <2>1. Rows'
    BY <1>1, <1>3, <1>8 DEF RequestRollback
  <2> QED BY <1>8, <2>1 DEF RequestRollback, TablesOK, HistoryOK, history
<1>9. ASSUME NEW v \in Verifiers, VerifyLock(v) \/ VerifyPurge(v) PROVE TablesOK' /\ HistoryOK'
  <2>1. Rows'
    BY <1>2, <1>3, <1>9 DEF VerifyLock, VerifyPurge
  <2> QED BY <1>9, <2>1 DEF VerifyLock, VerifyPurge, TablesOK, HistoryOK, history
<1>10. ASSUME NEW v \in Verifiers, VerifyCharge(v) PROVE TablesOK' /\ HistoryOK'
  <2> DEFINE c == ver[v].contact
             row == [challenge[c] EXCEPT !.attempts = @ + 1]
  <2>1. c \in Contacts /\ challenge[c] \in Challenge
    BY <1>2, <1>10 DEF VerifyCharge, TablesOK
  <2>2. row \in Challenge
    BY <2>1 DEF Challenge
  <2>3. challenge' = [challenge EXCEPT ![c] = row] \/ challenge' = challenge
    BY <1>10 DEF VerifyCharge
  <2>4. Rows'
    BY <2>1, <2>2, <2>3, WriteRow DEF TablesOK
  <2>5. guesses' \in [1..MaxIssues -> Nat]
    BY <1>10, CountUp DEF VerifyCharge, HistoryOK
  <2> QED BY <1>10, <2>4, <2>5 DEF VerifyCharge, TablesOK, HistoryOK
<1>11. ASSUME NEW v \in Verifiers, VerifyConsume(v) PROVE TablesOK' /\ HistoryOK'
  <2> DEFINE c == ver[v].contact
             row == [challenge[c] EXCEPT !.consumed = TRUE]
  <2>1. c \in Contacts /\ challenge[c] \in Challenge
    BY <1>2, <1>11 DEF VerifyConsume, TablesOK
  <2>2. row \in Challenge
    BY <2>1 DEF Challenge
  <2>3. challenge' = [challenge EXCEPT ![c] = row] \/ challenge' = challenge
    BY <1>11 DEF VerifyConsume
  <2>4. Rows'
    BY <2>1, <2>2, <2>3, WriteRow DEF TablesOK
  <2> QED BY <1>11, <2>4 DEF VerifyConsume, TablesOK, HistoryOK, history
<1>12. ASSUME NEW v \in Verifiers, VerifyMint(v) PROVE TablesOK' /\ HistoryOK'
  <2>1. tokens' \in SUBSET Token
    BY <1>2, <1>12, OtpAssumption DEF VerifyMint, TablesOK, Token
  <2>2. nextId' \in Nat \ {0}
    BY <1>12 DEF VerifyMint, TablesOK
  <2> QED BY <1>12, <2>1, <2>2 DEF VerifyMint, TablesOK, HistoryOK, history
<1>13. ASSUME Prune PROVE TablesOK' /\ HistoryOK'
  <2>1. Rows' /\ issuances' \in SUBSET Issuance
    BY <1>13, IdleTypes DEF Prune, TablesOK
  <2> QED BY <1>13, <2>1 DEF Prune, TablesOK, HistoryOK, history
<1>14. ASSUME Tick PROVE TablesOK' /\ HistoryOK'
  BY <1>14 DEF Tick, TablesOK, HistoryOK, history
<1>15. ASSUME NEW r \in Requests,
              \/ RequestCount(r) \/ RequestCooldown(r) \/ RequestConflict(r)
              \/ RequestDeliveryFails(r) \/ \E c \in Contacts : RequestStart(r, c)
       PROVE  UNCHANGED <<now, challenge, issuances, tokens, nextId, history>>
  BY <1>15 DEF RequestStart, RequestCount, RequestCooldown, RequestConflict,
               RequestDeliveryFails
<1>16. ASSUME NEW v \in Verifiers,
              \/ VerifyWrongCode(v)
              \/ \E c \in Contacts, code \in Codes : VerifyRead(v, c, code)
       PROVE  UNCHANGED <<now, challenge, issuances, tokens, nextId, history>>
  BY <1>16 DEF VerifyWrongCode, VerifyRead
<1>17. Restart \/ UNCHANGED vars =>
          UNCHANGED <<now, challenge, issuances, tokens, nextId, history>>
  BY DEF Restart, vars
<1> QED
  BY <1>4, <1>5, <1>6, <1>7, <1>8, <1>9, <1>10, <1>11, <1>12, <1>13, <1>14, <1>15, <1>16,
     <1>17 DEF Next, RequestStep, VerifyStep

LEMMA TypeInit == Init => TypeOK
<1> SUFFICES ASSUME Init PROVE TypeOK
  OBVIOUS
<1>1. RequestsOK /\ VerifiersOK
  BY IdleTypes DEF Init, RequestsOK, VerifiersOK
<1>2. TablesOK /\ HistoryOK
  BY IdleTypes DEF Init, TablesOK, HistoryOK
<1> QED BY <1>1, <1>2 DEF TypeOK

LEMMA TypeStep == TypeOK /\ [Next]_vars => TypeOK'
BY RequestsStep, VerifiersStep, TablesStep DEF TypeOK

\* Type correctness: whatever step interleaves with whatever other, the handlers'
\* local state and the tables they share stay well-formed.
THEOREM TypeCorrect == Spec => []TypeOK
BY TypeInit, TypeStep, PTL DEF Spec

-----------------------------------------------------------------------------
(* One token per issue *)

\* Rows disappear or stay as they are.
Shrinks == \A c \in Contacts : challenge'[c] = challenge[c] \/ ~Present(challenge'[c])

\* No handler starts spending; one that does, spends on unchanged.
FewerSpenders == \A v \in Verifiers : Spending(v)' => Spending(v) /\ ver'[v] = ver[v]

LEMMA NoneAbsent == ~Present(NoChallenge)
BY DEF Present, NoChallenge

LEMMA DeleteShrinks ==
    ASSUME TypeOK, NEW c, NEW id, DeleteById(c, id)
    PROVE  Shrinks
BY NoneAbsent DEF TypeOK, TablesOK, DeleteById, Shrinks

LEMMA SpendShrink ==
    ASSUME SpendInv, Shrinks, FewerSpenders, UNCHANGED <<tokens, nextIssue>>
    PROVE  SpendInv'
<1> USE DEF SpendInv, Shrinks, FewerSpenders
<1>1. IssuesKnown'
  BY DEF IssuesKnown
<1>2. RowsDistinct'
  BY DEF RowsDistinct
<1>3. SpendersDistinct'
  BY DEF SpendersDistinct
<1>4. WonRowIsOurs'
  BY DEF WonRowIsOurs
<1>5. OneTokenPerIssue' /\ SpentChallengeGone'
  BY DEF OneTokenPerIssue, SpentChallengeGone
<1> QED BY <1>1, <1>2, <1>3, <1>4, <1>5

LEMMA SpendUpsert ==
    ASSUME TypeOK, SpendInv, NEW r \in Requests, NEW code \in Codes, RequestUpsert(r, code)
    PROVE  SpendInv'
<1> DEFINE c == req[r].contact
<1> USE DEF SpendInv
<1>1. /\ c \in Contacts
      /\ \A d \in Contacts : d # c => challenge'[d] = challenge[d]
      /\ challenge'[c].issue = nextIssue
      /\ nextIssue' = nextIssue + 1 /\ nextIssue \in Nat \ {0}
      /\ UNCHANGED <<tokens, ver>>
  BY DEF RequestUpsert, TypeOK, TablesOK, HistoryOK, RequestsOK, RequestState
<1>2. /\ \A d \in Contacts : challenge[d].issue \in Nat
      /\ \A t \in tokens : t.issue \in Nat
      /\ \A v \in Verifiers : ver[v].won \in Nat
  BY DEF TypeOK, TablesOK, VerifiersOK, Challenge, Token, VerifyState
<1> HIDE DEF c
<1>3. IssuesKnown'
  BY <1>1, <1>2 DEF IssuesKnown, Spending
<1>4. RowsDistinct'
  BY <1>1, <1>2 DEF RowsDistinct, IssuesKnown
<1>5. SpendersDistinct' /\ OneTokenPerIssue'
  BY <1>1 DEF SpendersDistinct, OneTokenPerIssue, Spending
<1>6. WonRowIsOurs'
  BY <1>1, <1>2 DEF WonRowIsOurs, IssuesKnown, Spending
<1>7. SpentChallengeGone'
  BY <1>1, <1>2 DEF SpentChallengeGone, IssuesKnown
<1> QED BY <1>3, <1>4, <1>5, <1>6, <1>7

\* A row keeps its issue while attempts are charged to it.
LEMMA SpendCharge ==
    ASSUME TypeOK, SpendInv, NEW v \in Verifiers, VerifyCharge(v)
    PROVE  SpendInv'
<1> USE DEF SpendInv
<1>1. \A c \in Contacts : /\ challenge'[c].issue = challenge[c].issue
                          /\ challenge'[c].id = challenge[c].id
                          /\ challenge'[c].consumed = challenge[c].consumed
  BY DEF VerifyCharge, TypeOK, TablesOK, Challenge
<1>2. \A w \in Verifiers : Spending(w)' => Spending(w) /\ ver'[w] = ver[w]
  BY DEF VerifyCharge, TypeOK, VerifiersOK, VerifyState, Spending
<1>3. UNCHANGED <<tokens, nextIssue>>
  BY DEF VerifyCharge
<1>4. IssuesKnown'
  BY <1>1, <1>2, <1>3 DEF IssuesKnown, Present
<1>5. RowsDistinct'
  BY <1>1 DEF RowsDistinct, Present
<1>6. SpendersDistinct' /\ OneTokenPerIssue'
  BY <1>2, <1>3 DEF SpendersDistinct, OneTokenPerIssue
<1>7. WonRowIsOurs'
  BY <1>1, <1>2 DEF WonRowIsOurs, Present
<1>8. SpentChallengeGone'
  BY <1>1, <1>3 DEF SpentChallengeGone, Present
<1> QED BY <1>4, <1>5, <1>6, <1>7, <1>8

\* The conditional consume is what keeps two handlers from winning one issue.
LEMMA SpendConsume ==
    ASSUME TypeOK, SpendInv, NEW v \in Verifiers, VerifyConsume(v)
    PROVE  SpendInv'
<1> DEFINE c == ver[v].contact
           hit == Consumes(v)
<1> USE DEF SpendInv
<1>1. /\ c \in Contacts /\ Present(ver[v].snap) /\ ver[v] \in VerifyState
      /\ challenge[c] \in Challenge
  BY DEF VerifyConsume, TypeOK, TablesOK, VerifiersOK, VerifyState
<1>2. CASE ~hit
  <2>1. Shrinks /\ UNCHANGED <<tokens, nextIssue>>
    BY <1>2 DEF VerifyConsume, Shrinks, history
  <2>2. FewerSpenders
    BY <1>2 DEF VerifyConsume, TypeOK, VerifiersOK, FewerSpenders, Spending, IdleVerify
  <2> QED BY <2>1, <2>2, SpendShrink
<1>3. CASE hit
  <2>1. /\ ver'[v].pc = "purge" /\ ver'[v].won = challenge[c].issue
        /\ ver'[v].contact = c /\ ver'[v].snap = ver[v].snap
        /\ \A w \in Verifiers : w # v => ver'[w] = ver[w]
    BY <1>1, <1>3 DEF VerifyConsume, TypeOK, VerifiersOK, VerifyState
  <2>2. \A d \in Contacts : /\ challenge'[d].issue = challenge[d].issue
                            /\ challenge'[d].id = challenge[d].id
                            /\ d # c => challenge'[d] = challenge[d]
    BY <1>1, <1>3 DEF VerifyConsume, TypeOK, TablesOK, Challenge
  <2>3. challenge'[c].consumed /\ ~challenge[c].consumed
        /\ challenge[c].id = ver[v].snap.id /\ Present(challenge[c])
    BY <1>1, <1>3 DEF VerifyConsume, Consumes, TypeOK, TablesOK, Challenge, Present
  <2>4. UNCHANGED <<tokens, nextIssue>> /\ nextIssue \in Nat \ {0}
    BY DEF VerifyConsume, TypeOK, HistoryOK, history
  <2>5. Spending(v)' /\ \A w \in Verifiers : w # v => (Spending(w)' <=> Spending(w))
    BY <2>1 DEF Spending
  <2>6. ~Spending(v)
    BY DEF VerifyConsume, Spending
  <2> HIDE DEF c, hit
  <2>7. IssuesKnown'
    BY <1>1, <2>1, <2>2, <2>3, <2>4, <2>5 DEF IssuesKnown, Present
  <2>8. RowsDistinct'
    BY <2>2 DEF RowsDistinct, Present
  <2>9. SpendersDistinct'
    BY <1>1, <2>1, <2>3, <2>4, <2>5
       DEF SpendersDistinct, WonRowIsOurs, SpentChallengeGone
  <2>10. WonRowIsOurs'
    <3> SUFFICES ASSUME NEW w \in Verifiers, NEW d \in Contacts, Spending(w)',
                        Present(challenge[d])', challenge'[d].issue = ver'[w].won
                 PROVE  /\ ver'[w].pc = "purge" /\ d = ver'[w].contact
                        /\ challenge'[d].id = ver'[w].snap.id /\ challenge'[d].consumed
      BY DEF WonRowIsOurs
    <3>1. Present(challenge[d]) /\ challenge[d].issue = ver'[w].won
      BY <2>2 DEF Present
    <3>2. CASE w = v
      BY <1>1, <2>1, <2>2, <2>3, <3>1, <3>2 DEF RowsDistinct
    <3>3. CASE w # v
      <4>1. Spending(w) /\ ver'[w] = ver[w]
        BY <2>1, <2>5, <3>3
      <4>2. challenge[d].consumed
        BY <3>1, <4>1 DEF WonRowIsOurs
      <4>3. d # c
        BY <2>3, <4>2
      <4> QED BY <2>2, <3>1, <4>1, <4>3 DEF WonRowIsOurs
    <3> QED BY <3>2, <3>3
  <2>11. OneTokenPerIssue' /\ SpentChallengeGone'
    BY <2>2, <2>4 DEF OneTokenPerIssue, SpentChallengeGone, Present
  <2> QED BY <2>7, <2>8, <2>9, <2>10, <2>11
<1> QED BY <1>2, <1>3

LEMMA SpendPurge ==
    ASSUME TypeOK, SpendInv, NEW v \in Verifiers, VerifyPurge(v)
    PROVE  SpendInv'
<1> DEFINE c == ver[v].contact
<1> USE DEF SpendInv
<1>1. Shrinks /\ UNCHANGED <<tokens, nextIssue>>
  BY DeleteShrinks DEF VerifyPurge, history
<1>2. /\ ver'[v].won = ver[v].won
      /\ \A w \in Verifiers : w # v => ver'[w] = ver[w]
      /\ \A w \in Verifiers : Spending(w)' => Spending(w) /\ ver'[w].won = ver[w].won
  BY DEF VerifyPurge, TypeOK, VerifiersOK, VerifyState, Spending
<1>3. Spending(v)
  BY DEF VerifyPurge, Spending
<1>4. \A d \in Contacts : Present(challenge[d])' => challenge[d].issue # ver[v].won
  <2> SUFFICES ASSUME NEW d \in Contacts, Present(challenge[d])',
                      challenge[d].issue = ver[v].won
               PROVE  FALSE
    OBVIOUS
  <2>1. challenge'[d] = challenge[d]
    BY <1>1 DEF Shrinks
  <2>2. d = c /\ challenge[d].id = ver[v].snap.id
    BY <1>3, <2>1 DEF WonRowIsOurs
  <2>3. challenge'[d] = NoChallenge
    BY <2>2 DEF VerifyPurge, DeleteById, TypeOK, TablesOK
  <2> QED BY <2>3, NoneAbsent
<1>5. IssuesKnown' /\ RowsDistinct' /\ SpendersDistinct'
  BY <1>1, <1>2 DEF IssuesKnown, RowsDistinct, SpendersDistinct, Shrinks
<1>6. WonRowIsOurs'
  BY <1>1, <1>2, <1>4 DEF WonRowIsOurs, Shrinks
<1>7. OneTokenPerIssue' /\ SpentChallengeGone'
  BY <1>1 DEF OneTokenPerIssue, SpentChallengeGone, Shrinks
<1> QED BY <1>5, <1>6, <1>7

LEMMA SpendMint ==
    ASSUME TypeOK, SpendInv, NEW v \in Verifiers, VerifyMint(v)
    PROVE  SpendInv'
<1> USE DEF SpendInv
<1> DEFINE new == [jti |-> nextId, contact |-> ver[v].contact, exp |-> now + TokenTtl,
                   issue |-> ver[v].won]
<1>1. tokens' = tokens \cup {new} /\ new.issue = ver[v].won
  BY DEF VerifyMint
<1>2. UNCHANGED <<challenge, nextIssue>> /\ Spending(v) /\ ver[v].pc = "mint"
  BY DEF VerifyMint, Spending, history
<1>3. /\ ~Spending(v)'
      /\ \A w \in Verifiers : w # v => ver'[w] = ver[w]
  BY DEF VerifyMint, Spending, TypeOK, VerifiersOK, IdleVerify
<1>4. \A w \in Verifiers : Spending(w)' => w # v /\ Spending(w) /\ ver'[w] = ver[w]
  BY <1>3 DEF Spending
<1> HIDE DEF new
<1>5. IssuesKnown' /\ RowsDistinct'
  BY <1>1, <1>2, <1>4 DEF IssuesKnown, RowsDistinct
<1>6. SpendersDistinct'
  BY <1>1, <1>2, <1>4 DEF SpendersDistinct
<1>7. WonRowIsOurs'
  BY <1>2, <1>4 DEF WonRowIsOurs
<1>8. OneTokenPerIssue'
  BY <1>1, <1>2 DEF OneTokenPerIssue, SpendersDistinct
<1>9. SpentChallengeGone'
  BY <1>1, <1>2 DEF SpentChallengeGone, WonRowIsOurs
<1> QED BY <1>5, <1>6, <1>7, <1>8, <1>9

LEMMA SpendInit == Init => SpendInv
BY NoneAbsent
   DEF Init, SpendInv, IssuesKnown, RowsDistinct, SpendersDistinct, WonRowIsOurs,
       OneTokenPerIssue, SpentChallengeGone, Spending, IdleVerify

\* Every other step only lets go of rows and of handlers.
LEMMA OtherSteps ==
    ASSUME TypeOK, [Next]_vars,
           ~\E r \in Requests, code \in Codes : RequestUpsert(r, code),
           ~\E v \in Verifiers : VerifyCharge(v) \/ VerifyConsume(v)
                                    \/ VerifyPurge(v) \/ VerifyMint(v)
    PROVE  Shrinks /\ FewerSpenders /\ UNCHANGED <<tokens, nextIssue, guesses>>
<1> USE DEF TypeOK, history
<1>1. ASSUME UNCHANGED <<challenge, ver>> PROVE Shrinks /\ FewerSpenders
  BY <1>1 DEF Shrinks, FewerSpenders, Spending
<1>2. ASSUME UNCHANGED ver PROVE FewerSpenders
  BY <1>2 DEF FewerSpenders, Spending
<1>3. ASSUME NEW r \in Requests,
             \/ \E c \in Contacts : RequestStart(r, c)
             \/ RequestCount(r) \/ RequestCooldown(r) \/ RequestConflict(r)
             \/ RequestLog(r) \/ RequestDeliver(r) \/ RequestDeliveryFails(r)
      PROVE  UNCHANGED <<challenge, ver, tokens, nextIssue, guesses>>
  BY <1>3 DEF RequestStart, RequestCount, RequestCooldown, RequestConflict, RequestLog,
              RequestDeliver, RequestDeliveryFails
<1>4. ASSUME NEW r \in Requests, RequestRollback(r)
      PROVE  Shrinks /\ UNCHANGED <<ver, tokens, nextIssue, guesses>>
  BY <1>4, DeleteShrinks DEF RequestRollback
<1>5. ASSUME NEW v \in Verifiers, NEW c \in Contacts, NEW code \in Codes,
             VerifyRead(v, c, code)
      PROVE  Shrinks /\ FewerSpenders /\ UNCHANGED <<tokens, nextIssue, guesses>>
  BY <1>5 DEF VerifyRead, Found, Shrinks, FewerSpenders, Spending, VerifiersOK, IdleVerify
<1>6. ASSUME NEW v \in Verifiers, VerifyLock(v)
      PROVE  Shrinks /\ FewerSpenders /\ UNCHANGED <<tokens, nextIssue, guesses>>
  BY <1>6, DeleteShrinks DEF VerifyLock, FewerSpenders, Spending, VerifiersOK, IdleVerify
<1>7. ASSUME NEW v \in Verifiers, VerifyWrongCode(v)
      PROVE  Shrinks /\ FewerSpenders /\ UNCHANGED <<tokens, nextIssue, guesses>>
  BY <1>7 DEF VerifyWrongCode, Shrinks, FewerSpenders, Spending, VerifiersOK, IdleVerify
<1>8. ASSUME Prune
      PROVE  Shrinks /\ UNCHANGED <<ver, tokens, nextIssue, guesses>>
  BY <1>8, NoneAbsent DEF Prune, Shrinks
<1>9. ASSUME Restart
      PROVE  Shrinks /\ FewerSpenders /\ UNCHANGED <<tokens, nextIssue, guesses>>
  BY <1>9 DEF Restart, Shrinks, FewerSpenders, Spending, IdleVerify
<1>10. Tick \/ UNCHANGED vars => UNCHANGED <<challenge, ver, tokens, nextIssue, guesses>>
  BY DEF Tick, vars
<1> QED
  BY <1>1, <1>2, <1>3, <1>4, <1>5, <1>6, <1>7, <1>8, <1>9, <1>10
     DEF Next, RequestStep, VerifyStep

LEMMA SpendStep == TypeOK /\ SpendInv /\ [Next]_vars => SpendInv'
BY SpendShrink, SpendUpsert, SpendCharge, SpendConsume, SpendPurge, SpendMint, OtherSteps

\* Single use, for every number of contacts, codes and concurrent handlers and
\* across restarts: an issued challenge yields at most one token.
THEOREM SingleToken == Spec => []OneTokenPerIssue
<1>1. Spec => []SpendInv
  BY SpendInit, SpendStep, TypeCorrect, PTL DEF Spec
<1>2. SpendInv => OneTokenPerIssue
  BY DEF SpendInv
<1> QED BY <1>1, <1>2, PTL

\* A challenge that has yielded a token is never in the table again.
THEOREM SpentStaysGone == Spec => []SpentChallengeGone
<1>1. Spec => []SpendInv
  BY SpendInit, SpendStep, TypeCorrect, PTL DEF Spec
<1>2. SpendInv => SpentChallengeGone
  BY DEF SpendInv
<1> QED BY <1>1, <1>2, PTL

-----------------------------------------------------------------------------
(* The guess budget *)

LEMMA FewerCount ==
    ASSUME NEW S, NEW T, IsFiniteSet(S), T \subseteq S
    PROVE  Cardinality(T) <= Cardinality(S)
BY FS_Subset

LEMMA HistoryTypes ==
    ASSUME TypeOK, NEW i \in 1..MaxIssues
    PROVE  guesses[i] \in Nat /\ overtaken[i] \in Nat /\ MaxAttempts \in Nat
BY OtpAssumption DEF TypeOK, HistoryOK

\* Rows vanish or keep what the budget depends on.
RowsLast ==
    \A c \in Contacts :
        Present(challenge'[c]) =>
            /\ challenge'[c].id = challenge[c].id
            /\ challenge'[c].issue = challenge[c].issue
            /\ challenge'[c].attempts = challenge[c].attempts

\* A call about to be charged was so before, or has just read a row that is there.
NewReaders ==
    \A v \in Verifiers : ver'[v].pc = "charge" =>
        \/ ver'[v] = ver[v]
        \/ /\ ver'[v].contact \in Contacts
           /\ Present(challenge[ver'[v].contact])
           /\ challenge'[ver'[v].contact] = challenge[ver'[v].contact]
           /\ ver'[v].snap = SnapOf(challenge[ver'[v].contact])

\* Nobody is charged in a step of this kind.
Quiet == /\ RowsLast /\ NewReaders
         /\ nextId <= nextId'
         /\ UNCHANGED <<nextIssue, guesses, overtaken>>

LEMMA SnapshotsQuiet ==
    ASSUME TypeOK, TypeOK', SpendInv, SnapshotsKnown, Quiet
    PROVE  SnapshotsKnown'
<1>1. nextId \in Nat /\ nextId' \in Nat /\ nextIssue \in Nat /\ 0 < nextId
  BY DEF TypeOK, TablesOK, HistoryOK
<1>2. ASSUME NEW c \in Contacts PROVE challenge'[c].id < nextId'
  <2>1. challenge'[c].id \in Nat /\ challenge[c].id \in Nat
    BY DEF TypeOK, TablesOK, Challenge
  <2>2. challenge'[c].id = 0 \/ challenge'[c].id = challenge[c].id
    BY DEF Quiet, RowsLast, Present
  <2> QED BY <1>1, <2>1, <2>2 DEF SnapshotsKnown, Quiet
<1>3. ASSUME NEW v \in Verifiers, ver'[v].pc = "charge"
      PROVE  /\ ver'[v].snap.issue \in 1..(nextIssue' - 1)
             /\ ver'[v].snap.id < nextId'
             /\ \A c \in Contacts :
                   Present(challenge'[c]) /\ challenge'[c].issue = ver'[v].snap.issue
                   => c = ver'[v].contact
  <2>0. ver'[v].snap.id \in Nat
    BY DEF TypeOK, VerifiersOK, VerifyState, Snapshot
  <2>1. CASE ver'[v] = ver[v]
    <3>1. ver[v].pc = "charge"
      BY <1>3, <2>1
    <3> QED BY <1>1, <2>0, <2>1, <3>1 DEF SnapshotsKnown, Quiet, RowsLast, Present
  <2>2. CASE ver'[v] # ver[v]
    <3> DEFINE d == ver'[v].contact
    <3>1. /\ d \in Contacts /\ Present(challenge[d])
          /\ ver'[v].snap.id = challenge[d].id /\ ver'[v].snap.issue = challenge[d].issue
      <4>1. d \in Contacts /\ Present(challenge[d]) /\ ver'[v].snap = SnapOf(challenge[d])
        BY <1>3, <2>2 DEF Quiet, NewReaders
      <4> QED BY <4>1 DEF SnapOf
    <3> HIDE DEF d
    <3>2. challenge[d].issue \in 1..(nextIssue - 1) /\ challenge[d].id < nextId
      BY <3>1 DEF SpendInv, IssuesKnown, SnapshotsKnown
    <3>3. \A c \in Contacts :
             Present(challenge'[c]) /\ challenge'[c].issue = ver'[v].snap.issue => c = d
      BY <3>1 DEF SpendInv, RowsDistinct, Quiet, RowsLast, Present
    <3> QED BY <1>1, <2>0, <3>1, <3>2, <3>3 DEF Quiet, d
  <2> QED BY <2>1, <2>2
<1> QED BY <1>2, <1>3 DEF SnapshotsKnown

\* An issue that leaves the table takes its waiting calls along: its primary key is gone.
LEMMA BudgetQuiet ==
    ASSUME TypeOK, TypeOK', SpendInv, BudgetInv, Quiet
    PROVE  BudgetInv'
<1>1. SnapshotsKnown'
  BY SnapshotsQuiet DEF BudgetInv
<1>2. ASSUME NEW c \in Contacts, Present(challenge'[c])
      PROVE  /\ challenge'[c].issue <= MaxIssues
             /\ challenge'[c].attempts <= MaxAttempts
             /\ guesses'[challenge'[c].issue] <= challenge'[c].attempts
  BY <1>2 DEF BudgetInv, Quiet, RowsLast, Present
<1>3. ASSUME NEW i \in 1..MaxIssues, ~Current(i)'
      PROVE  guesses[i] + Cardinality(Waiting(i)') <= MaxAttempts + overtaken[i]
  <2>1. ASSUME NEW v \in Waiting(i)'
        PROVE  /\ v \in Verifiers /\ ver[v] = ver'[v] /\ ver[v].pc = "charge"
               /\ ver[v].snap.issue = i /\ ver[v].contact \in Contacts
               /\ Present(challenge'[ver[v].contact])
               /\ challenge'[ver[v].contact].id = ver[v].snap.id
    <3>1. /\ v \in Verifiers /\ ver'[v].pc = "charge" /\ ver'[v].snap.issue = i
          /\ challenge'[ver'[v].contact].id = ver'[v].snap.id
      BY <2>1 DEF Waiting, Holding
    <3>2. ver'[v].contact \in Contacts /\ Present(ver'[v].snap)
      BY <3>1 DEF TypeOK, VerifiersOK, VerifyState
    <3>3. ver'[v] = ver[v]
      <4> SUFFICES ASSUME ver'[v] # ver[v] PROVE FALSE
        OBVIOUS
      <4>1. /\ Present(challenge'[ver'[v].contact])
            /\ challenge'[ver'[v].contact].issue = ver'[v].snap.issue
        <5>1. /\ Present(challenge[ver'[v].contact])
              /\ challenge'[ver'[v].contact] = challenge[ver'[v].contact]
              /\ ver'[v].snap = SnapOf(challenge[ver'[v].contact])
          BY <3>1 DEF Quiet, NewReaders
        <5> QED BY <5>1 DEF SnapOf
      <4> QED BY <1>3, <3>1, <3>2, <4>1 DEF Current
    <3> QED BY <3>1, <3>2, <3>3 DEF Present
  <2>2. CASE Current(i)
    <3>1. PICK c \in Contacts : Present(challenge[c]) /\ challenge[c].issue = i
      BY <2>2 DEF Current
    <3>2. ~Present(challenge'[c])
      BY <1>3, <3>1 DEF Quiet, RowsLast, Current
    <3>3. Waiting(i)' = {}
      BY <2>1, <3>1, <3>2 DEF BudgetInv, SnapshotsKnown
    <3>4. guesses[i] <= challenge[c].attempts /\ challenge[c].attempts <= MaxAttempts
      BY <3>1 DEF BudgetInv
    <3>5. challenge[c].attempts \in Nat
      BY DEF TypeOK, TablesOK, Challenge
    <3> QED BY <3>3, <3>4, <3>5, FS_EmptySet, HistoryTypes
  <2>3. CASE ~Current(i)
    <3>1. Waiting(i)' \subseteq Waiting(i)
      BY <2>1 DEF Waiting, Holding, Quiet, RowsLast
    <3>2. Cardinality(Waiting(i)') <= Cardinality(Waiting(i))
      BY <3>1, HoldingFinite, FewerCount
    <3>3. guesses[i] + Cardinality(Waiting(i)) <= MaxAttempts + overtaken[i]
      BY <2>3 DEF BudgetInv
    <3>4. Cardinality(Waiting(i)) \in Nat /\ Cardinality(Waiting(i)') \in Nat
      BY <3>1, HoldingFinite, FS_Subset, FS_CardinalityType
    <3> QED BY <3>2, <3>3, <3>4, HistoryTypes
  <2> QED BY <2>2, <2>3
<1> QED BY <1>1, <1>2, <1>3 DEF BudgetInv, Quiet

LEMMA BudgetUpsert ==
    ASSUME TypeOK, TypeOK', SpendInv, BudgetInv, NEW r \in Requests, NEW code \in Codes,
           RequestUpsert(r, code)
    PROVE  BudgetInv'
<1> DEFINE c == req[r].contact
           old == challenge[c]
<1>1. /\ c \in Contacts
      /\ \A d \in Contacts : d # c => challenge'[d] = challenge[d]
      /\ challenge'[c].issue = nextIssue /\ challenge'[c].attempts = 0
      /\ challenge'[c].id = IF Present(old) THEN old.id ELSE nextId
      /\ nextId' = IF Present(old) THEN nextId ELSE nextId + 1
      /\ nextIssue' = nextIssue + 1 /\ nextIssue \in Nat \ {0} /\ nextIssue <= MaxIssues
      /\ nextId \in Nat \ {0}
      /\ UNCHANGED <<guesses, ver>>
  BY DEF RequestUpsert, TypeOK, TablesOK, HistoryOK, RequestsOK, RequestState
<1>2. overtaken' = IF Present(old)
                   THEN [overtaken EXCEPT ![old.issue] = @ + Cardinality(Holding(old.issue))]
                   ELSE overtaken
  BY DEF RequestUpsert
<1>3. old \in Challenge /\ overtaken \in [1..MaxIssues -> Nat] /\ MaxIssues \in Nat
  BY <1>1, OtpAssumption DEF TypeOK, TablesOK, HistoryOK
<1>4. challenge'[c].id # 0 /\ Present(challenge'[c])
  BY <1>1 DEF Present
<1> HIDE DEF c, old
<1>5. SnapshotsKnown'
  <2>1. ASSUME NEW d \in Contacts PROVE challenge'[d].id < nextId'
    <3>1. challenge[d].id \in Nat /\ challenge[d].id < nextId
      BY DEF TypeOK, TablesOK, Challenge, BudgetInv, SnapshotsKnown
    <3> QED BY <1>1, <3>1 DEF old
  <2>2. ASSUME NEW v \in Verifiers, ver[v].pc = "charge"
        PROVE  /\ ver[v].snap.issue \in 1..(nextIssue' - 1)
               /\ ver[v].snap.id < nextId'
               /\ \A d \in Contacts :
                     Present(challenge'[d]) /\ challenge'[d].issue = ver[v].snap.issue
                     => d = ver[v].contact
    <3>1. /\ ver[v].snap.issue \in 1..(nextIssue - 1) /\ ver[v].snap.id < nextId
          /\ ver[v].snap.id \in Nat
      BY <2>2 DEF BudgetInv, SnapshotsKnown, TypeOK, VerifiersOK, VerifyState, Snapshot
    <3>2. ASSUME NEW d \in Contacts, Present(challenge'[d]),
                 challenge'[d].issue = ver[v].snap.issue
          PROVE  d = ver[v].contact
      BY <1>1, <2>2, <3>1, <3>2 DEF BudgetInv, SnapshotsKnown
    <3> QED BY <1>1, <3>1, <3>2
  <2> QED BY <1>1, <2>1, <2>2 DEF SnapshotsKnown
<1>6. ASSUME NEW d \in Contacts, Present(challenge'[d])
      PROVE  /\ challenge'[d].issue <= MaxIssues
             /\ challenge'[d].attempts <= MaxAttempts
             /\ guesses'[challenge'[d].issue] <= challenge'[d].attempts
  <2>1. guesses[nextIssue] = 0
    BY <1>1, <1>3 DEF BudgetInv
  <2> QED BY <1>1, <1>6, <2>1, OtpAssumption DEF BudgetInv
<1>7. ASSUME NEW i \in 1..MaxIssues, i >= nextIssue' PROVE guesses'[i] = 0
  BY <1>1, <1>7 DEF BudgetInv
<1>8. ASSUME NEW i \in 1..MaxIssues, ~Current(i)'
      PROVE  guesses[i] + Cardinality(Waiting(i)') <= MaxAttempts + overtaken'[i]
  <2>1. Waiting(i)' \subseteq Holding(i)
    BY <1>1 DEF Waiting, Holding
  <2>2. Cardinality(Waiting(i)') \in Nat
    BY <2>1, HoldingFinite, FS_Subset, FS_CardinalityType
  <2>3. CASE Present(old) /\ i = old.issue
    <3>1. overtaken'[i] = overtaken[i] + Cardinality(Holding(i))
      BY <1>2, <1>3, <2>3
    <3>2. Cardinality(Waiting(i)') <= Cardinality(Holding(i))
      BY <2>1, HoldingFinite, FewerCount
    <3>3. guesses[i] <= old.attempts /\ old.attempts <= MaxAttempts /\ old.attempts \in Nat
      BY <1>1, <1>3, <2>3 DEF BudgetInv, old, Challenge
    <3> QED BY <2>2, <3>1, <3>2, <3>3, HoldingFinite, HistoryTypes
  <2>4. CASE ~(Present(old) /\ i = old.issue)
    <3>1. overtaken'[i] = overtaken[i]
      BY <1>2, <1>3, <2>4
    <3>2. ~Current(i)
      BY <1>1, <1>8, <2>4 DEF Current, old
    <3>3. Waiting(i)' \subseteq Waiting(i)
      <4> SUFFICES ASSUME NEW v \in Waiting(i)'
                   PROVE  challenge[ver[v].contact].id = ver[v].snap.id
        BY <2>1 DEF Waiting
      <4>1. /\ v \in Verifiers /\ ver[v].pc = "charge"
            /\ challenge'[ver[v].contact].id = ver[v].snap.id
        BY <1>1 DEF Waiting, Holding
      <4>2. ver[v].contact \in Contacts /\ ver[v].snap.id < nextId
        BY <4>1 DEF TypeOK, VerifiersOK, VerifyState, BudgetInv, SnapshotsKnown
      <4> QED BY <1>1, <4>1, <4>2 DEF old
    <3>4. Cardinality(Waiting(i)') <= Cardinality(Waiting(i))
      BY <3>3, HoldingFinite, FewerCount
    <3>5. guesses[i] + Cardinality(Waiting(i)) <= MaxAttempts + overtaken[i]
      BY <3>2 DEF BudgetInv
    <3> QED BY <2>2, <3>1, <3>4, <3>5, HoldingFinite, HistoryTypes
  <2> QED BY <2>3, <2>4
<1> QED BY <1>1, <1>5, <1>6, <1>7, <1>8 DEF BudgetInv

\* A charged call compares with the code it read: with the code of the row, which the row
\* counts, or with an older one, for which it no longer waits.
LEMMA BudgetCharge ==
    ASSUME TypeOK, TypeOK', SpendInv, BudgetInv, NEW v \in Verifiers, VerifyCharge(v)
    PROVE  BudgetInv'
<1> DEFINE c == ver[v].contact
           k == ver[v].snap.issue
           hit == challenge[c].id = ver[v].snap.id /\ Chargeable(challenge[c])
<1>1. /\ c \in Contacts /\ Present(ver[v].snap) /\ challenge[c] \in Challenge
      /\ ver[v] \in VerifyState /\ ver[v].pc = "charge"
      /\ UNCHANGED <<nextIssue, nextId, overtaken>>
  BY DEF VerifyCharge, TypeOK, TablesOK, HistoryOK, VerifiersOK, VerifyState
<1>2. ver'[v].pc # "charge" /\ \A w \in Verifiers : w # v => ver'[w] = ver[w]
  BY <1>1 DEF VerifyCharge, TypeOK, VerifiersOK, VerifyState
<1>3. \A d \in Contacts : /\ challenge'[d].id = challenge[d].id
                          /\ challenge'[d].issue = challenge[d].issue
                          /\ d # c => challenge'[d] = challenge[d]
  BY DEF VerifyCharge, TypeOK, TablesOK, Challenge
<1>4. CASE ~hit
  <2>1. RowsLast /\ NewReaders /\ guesses' = guesses
    BY <1>2, <1>4 DEF VerifyCharge, RowsLast, NewReaders
  <2>2. nextId \in Nat
    BY DEF TypeOK, TablesOK
  <2> QED BY <1>1, <2>1, <2>2, BudgetQuiet DEF Quiet
<1>5. CASE hit
  <2>1. Present(challenge[c]) /\ challenge[c].attempts < MaxAttempts
    BY <1>1, <1>5 DEF Chargeable, Present
  <2>2. challenge'[c].attempts = challenge[c].attempts + 1
    BY <1>1, <1>5 DEF VerifyCharge, TypeOK, TablesOK, Challenge
  <2>3. guesses' = [guesses EXCEPT ![k] = @ + 1] /\ guesses \in [1..MaxIssues -> Nat]
    BY <1>5 DEF VerifyCharge, TypeOK, HistoryOK
  <2>4. k \in 1..(nextIssue - 1)
    BY <1>1 DEF BudgetInv, SnapshotsKnown
  <2>5. challenge[c].attempts \in Nat /\ MaxAttempts \in Nat /\ nextIssue \in Nat
    BY <1>1, OtpAssumption DEF Challenge, TypeOK, HistoryOK
  <2>6. challenge[c].id = ver[v].snap.id
    BY <1>5
  <2> HIDE DEF c, k, hit
  <2>7. SnapshotsKnown'
    <3>1. \A w \in Verifiers : ver'[w].pc = "charge" => ver'[w] = ver[w]
      BY <1>2
    <3> QED BY <1>1, <1>3, <3>1 DEF BudgetInv, SnapshotsKnown, Present
  <2>8. ASSUME NEW d \in Contacts, Present(challenge'[d])
        PROVE  /\ challenge'[d].issue <= MaxIssues
               /\ challenge'[d].attempts <= MaxAttempts
               /\ guesses'[challenge'[d].issue] <= challenge'[d].attempts
    <3> DEFINE i == challenge[d].issue
    <3>1. /\ Present(challenge[d]) /\ i = challenge'[d].issue
          /\ i <= MaxIssues /\ challenge[d].attempts <= MaxAttempts
          /\ guesses[i] <= challenge[d].attempts
      BY <1>3, <2>8 DEF Present, BudgetInv
    <3>2. i \in 1..MaxIssues /\ challenge[d].attempts \in Nat
      BY <3>1, OtpAssumption
         DEF SpendInv, IssuesKnown, TypeOK, TablesOK, HistoryOK, Challenge
    <3> HIDE DEF i
    <3>3. CASE i = k
      <4>1. d = c
        BY <1>1, <3>1, <3>3 DEF BudgetInv, SnapshotsKnown, c, k, i
      <4> QED BY <2>1, <2>2, <2>3, <2>5, <3>1, <3>2, <3>3, <4>1
    <3>4. CASE i # k
      <4>1. guesses'[i] = guesses[i] /\ guesses[i] \in Nat
        BY <2>3, <3>2, <3>4
      <4>2. challenge'[d].attempts \in {challenge[d].attempts, challenge[d].attempts + 1}
        BY <1>3, <2>2
      <4>3. challenge'[d].attempts <= MaxAttempts
        BY <1>3, <2>1, <2>2, <2>5, <3>1
      <4> QED BY <3>1, <3>2, <4>1, <4>2, <4>3
    <3> QED BY <3>3, <3>4
  <2>9. ASSUME NEW i \in 1..MaxIssues, i >= nextIssue' PROVE guesses'[i] = 0
    BY <1>1, <2>3, <2>4, <2>5, <2>9 DEF BudgetInv
  <2>10. ASSUME NEW i \in 1..MaxIssues, ~Current(i)'
         PROVE  guesses'[i] + Cardinality(Waiting(i)') <= MaxAttempts + overtaken'[i]
    <3>1. ~Current(i)
      BY <1>3, <2>10 DEF Current, Present
    <3>2. Waiting(i)' \subseteq Waiting(i) \ {v}
      <4> SUFFICES ASSUME NEW w \in Waiting(i)' PROVE w \in Waiting(i) /\ w # v
        OBVIOUS
      <4>1. /\ w \in Verifiers /\ ver'[w].pc = "charge" /\ ver'[w].snap.issue = i
            /\ challenge'[ver'[w].contact].id = ver'[w].snap.id
        BY DEF Waiting, Holding
      <4>2. w # v /\ ver'[w] = ver[w]
        BY <1>2, <4>1
      <4>3. ver[w].contact \in Contacts
        BY <4>1, <4>2 DEF TypeOK, VerifiersOK, VerifyState
      <4> QED BY <1>3, <4>1, <4>2, <4>3 DEF Waiting, Holding
    <3>3. /\ IsFiniteSet(Waiting(i)) /\ IsFiniteSet(Waiting(i) \ {v})
          /\ Cardinality(Waiting(i)) \in Nat /\ Cardinality(Waiting(i) \ {v}) \in Nat
          /\ Cardinality(Waiting(i) \ {v}) =
               IF v \in Waiting(i) THEN Cardinality(Waiting(i)) - 1 ELSE Cardinality(Waiting(i))
      BY HoldingFinite, FS_RemoveElement, FS_CardinalityType
    <3>4. /\ Cardinality(Waiting(i)') <= Cardinality(Waiting(i) \ {v})
          /\ Cardinality(Waiting(i)') \in Nat
      BY <3>2, <3>3, FS_Subset, FS_CardinalityType
    <3>5. guesses[i] + Cardinality(Waiting(i)) <= MaxAttempts + overtaken[i]
      BY <3>1 DEF BudgetInv
    <3>6. CASE i = k
      <4>1. v \in Waiting(i)
        BY <1>1, <2>6, <3>6 DEF Waiting, Holding, c, k
      <4>2. guesses'[i] = guesses[i] + 1
        BY <2>3, <3>6
      <4> QED BY <1>1, <3>3, <3>4, <3>5, <4>1, <4>2, HistoryTypes
    <3>7. CASE i # k
      <4>1. guesses'[i] = guesses[i]
        BY <2>3, <3>7
      <4> QED BY <1>1, <3>3, <3>4, <3>5, <4>1, HistoryTypes
    <3> QED BY <3>6, <3>7
  <2> QED BY <2>7, <2>8, <2>9, <2>10 DEF BudgetInv
<1> QED BY <1>4, <1>5

\* All other steps charge nobody.
LEMMA QuietSteps ==
    ASSUME TypeOK, TypeOK', [Next]_vars,
           ~\E r \in Requests, code \in Codes : RequestUpsert(r, code),
           ~\E v \in Verifiers : VerifyCharge(v)
    PROVE  Quiet
<1>0. /\ nextId \in Nat /\ \A c, id : DeleteById(c, id) => RowsLast
  BY DeleteShrinks DEF TypeOK, TablesOK, Shrinks, RowsLast
<1>1. UNCHANGED challenge => RowsLast
  BY DEF RowsLast
<1>2. ASSUME UNCHANGED ver PROVE NewReaders
  BY <1>2 DEF NewReaders
<1>3. ASSUME NEW r \in Requests,
             \/ \E c \in Contacts : RequestStart(r, c)
             \/ RequestCount(r) \/ RequestCooldown(r) \/ RequestConflict(r)
             \/ RequestLog(r) \/ RequestDeliver(r) \/ RequestDeliveryFails(r)
      PROVE  Quiet
  <2>1. UNCHANGED <<challenge, ver, nextId, nextIssue, guesses, overtaken>>
    BY <1>3 DEF RequestStart, RequestCount, RequestCooldown, RequestConflict, RequestLog,
                RequestDeliver, RequestDeliveryFails, history
  <2> QED BY <1>0, <1>1, <1>2, <2>1 DEF Quiet
<1>4. ASSUME NEW r \in Requests, RequestRollback(r) PROVE Quiet
  BY <1>0, <1>2, <1>4 DEF RequestRollback, Quiet, history
<1>5. ASSUME NEW v \in Verifiers, NEW c \in Contacts, NEW code \in Codes,
             VerifyRead(v, c, code)
      PROVE  Quiet
  <2>1. \A w \in Verifiers : w # v => ver'[w] = ver[w]
    BY <1>5 DEF VerifyRead, TypeOK, VerifiersOK
  <2>2. ver'[v].contact = c /\ ver'[v].snap = SnapOf(challenge[c]) /\ Present(challenge[c])
    BY <1>5 DEF VerifyRead, Found, TypeOK, VerifiersOK, IdleVerify
  <2>3. UNCHANGED <<challenge, nextId, nextIssue, guesses, overtaken>>
    BY <1>5 DEF VerifyRead, history
  <2>4. NewReaders
    BY <2>1, <2>2, <2>3 DEF NewReaders
  <2> QED BY <1>0, <1>1, <2>3, <2>4 DEF Quiet
<1>6. ASSUME NEW v \in Verifiers, NEW s \in VerifyState, s.pc # "charge",
             ver' = [ver EXCEPT ![v] = s]
      PROVE  NewReaders
  BY <1>6 DEF NewReaders, TypeOK, VerifiersOK
<1>7. ASSUME NEW v \in Verifiers, VerifyLock(v) \/ VerifyWrongCode(v) PROVE Quiet
  <2>1. NewReaders
    BY <1>6, <1>7, IdleTypes DEF VerifyLock, VerifyWrongCode
  <2> QED BY <1>0, <1>1, <1>7, <2>1 DEF VerifyLock, VerifyWrongCode, Quiet, history
<1>8. ASSUME NEW v \in Verifiers, VerifyConsume(v) \/ VerifyPurge(v) \/ VerifyMint(v)
      PROVE  Quiet
  <2>1. ver'[v].pc # "charge" /\ \A w \in Verifiers : w # v => ver'[w] = ver[w]
    <3>1. CASE VerifyConsume(v)
      BY <3>1 DEF VerifyConsume, TypeOK, VerifiersOK, VerifyState, IdleVerify
    <3>2. CASE VerifyPurge(v) \/ VerifyMint(v)
      BY <3>2 DEF VerifyPurge, VerifyMint, TypeOK, VerifiersOK, VerifyState, IdleVerify
    <3> QED BY <1>8, <3>1, <3>2
  <2>2. RowsLast
    <3>1. CASE VerifyConsume(v)
      BY <3>1 DEF VerifyConsume, TypeOK, TablesOK, Challenge, RowsLast
    <3>2. CASE VerifyPurge(v) \/ VerifyMint(v)
      BY <1>0, <1>1, <3>2 DEF VerifyPurge, VerifyMint
    <3> QED BY <1>8, <3>1, <3>2
  <2>3. nextId <= nextId' /\ UNCHANGED <<nextIssue, guesses, overtaken>>
    BY <1>0, <1>8 DEF VerifyConsume, VerifyPurge, VerifyMint, history
  <2>4. NewReaders
    BY <2>1 DEF NewReaders
  <2> QED BY <2>2, <2>3, <2>4 DEF Quiet
<1>9. ASSUME Prune PROVE Quiet
  <2>1. RowsLast
    BY <1>9, NoneAbsent DEF Prune, RowsLast, TypeOK, TablesOK
  <2> QED BY <1>0, <1>2, <1>9, <2>1 DEF Prune, Quiet, history
<1>10. ASSUME Restart PROVE Quiet
  <2>1. NewReaders
    BY <1>10 DEF Restart, NewReaders, IdleVerify
  <2> QED BY <1>0, <1>1, <1>10, <2>1 DEF Restart, Quiet, history
<1>11. ASSUME Tick \/ UNCHANGED vars PROVE Quiet
  BY <1>0, <1>1, <1>2, <1>11 DEF Tick, vars, Quiet, history
<1> QED
  BY <1>3, <1>4, <1>5, <1>7, <1>8, <1>9, <1>10, <1>11 DEF Next, RequestStep, VerifyStep

LEMMA BudgetStep == TypeOK /\ SpendInv /\ BudgetInv /\ [Next]_vars => BudgetInv'
BY TypeStep, BudgetUpsert, BudgetCharge, BudgetQuiet, QuietSteps

LEMMA BudgetInit == Init => BudgetInv
<1> SUFFICES ASSUME Init PROVE BudgetInv
  OBVIOUS
<1>1. SnapshotsKnown
  BY DEF Init, SnapshotsKnown, IdleVerify, NoChallenge
<1>2. \A i : Waiting(i) = {}
  BY DEF Init, Waiting, Holding, IdleVerify
<1>3. \A i \in 1..MaxIssues : guesses[i] = 0 /\ overtaken[i] = 0
  BY DEF Init
<1>4. \A i \in 1..MaxIssues : guesses[i] + Cardinality(Waiting(i)) <= MaxAttempts + overtaken[i]
  BY <1>2, <1>3, FS_EmptySet, OtpAssumption
<1>5. \A c \in Contacts : ~Present(challenge[c])
  BY NoneAbsent DEF Init
<1> QED BY <1>1, <1>3, <1>4, <1>5 DEF BudgetInv

LEMMA BudgetMeaning == TypeOK /\ SpendInv /\ BudgetInv => GuessBudget
<1> SUFFICES ASSUME TypeOK, BudgetInv, NEW i \in 1..MaxIssues
             PROVE  guesses[i] <= MaxAttempts + overtaken[i]
  BY DEF GuessBudget
<1>1. CASE Current(i)
  <2>1. PICK c \in Contacts : Present(challenge[c]) /\ challenge[c].issue = i
    BY <1>1 DEF Current
  <2>2. /\ guesses[i] <= challenge[c].attempts /\ challenge[c].attempts <= MaxAttempts
        /\ challenge[c].attempts \in Nat
    BY <2>1 DEF BudgetInv, TypeOK, TablesOK, Challenge
  <2> QED BY <2>2, HistoryTypes
<1>2. CASE ~Current(i)
  BY <1>2, HoldingFinite, HistoryTypes DEF BudgetInv
<1> QED BY <1>1, <1>2

\* However many verify calls overlap, the code of an issue is compared at most maxAttempts
\* times, plus once for every call that had read it when its row was re-issued.
THEOREM BudgetHolds == Spec => []GuessBudget
<1>1. Spec => []SpendInv
  BY SpendInit, SpendStep, TypeCorrect, PTL DEF Spec
<1>2. Spec => []BudgetInv
  BY BudgetInit, BudgetStep, TypeCorrect, <1>1, PTL DEF Spec
<1> QED BY <1>1, <1>2, BudgetMeaning, TypeCorrect, PTL

-----------------------------------------------------------------------------
(* The issuance caps see every code that was delivered *)

\* What is still too young for the pruning stays counted while the clock runs on.
LEMMA LoggedKept ==
    ASSUME TypeOK, now' \in Nat, now <= now', NEW c, NEW issue, NEW asked \in Nat,
           \A i \in issuances : i.at + IssuanceKeep >= now => i \in issuances',
           now <= asked + Day => Logged(c, issue, asked),
           now' <= asked + Day
    PROVE  Logged(c, issue, asked)'
<1>1. now \in Nat /\ Day \in Nat /\ IssuanceKeep \in Nat /\ Day <= IssuanceKeep
  BY OtpAssumption DEF TypeOK, TablesOK
<1>2. PICK i \in issuances : i.contact = c /\ i.issue = issue /\ i.at >= asked
  BY <1>1 DEF Logged
<1>3. i.at \in Nat
  BY DEF TypeOK, TablesOK, Issuance
<1>4. i \in issuances'
  BY <1>1, <1>3, <1>2
<1> QED BY <1>2, <1>4 DEF Logged

LEMMA CountedStep == TypeOK /\ CountedInv /\ [Next]_vars => CountedInv'
<1> SUFFICES ASSUME TypeOK, CountedInv, [Next]_vars PROVE CountedInv'
  OBVIOUS
<1>1. TypeOK'
  BY TypeStep
<1> DEFINE
      Time == /\ now' \in Nat /\ now <= now'
              /\ \A i \in issuances : i.at + IssuanceKeep >= now => i \in issuances'
      Settled == \A q \in Requests :
                     req'[q] # req[q] => req'[q].pc # "deliver" /\ req'[q].now <= now'
<1>2. ASSUME Time, Settled, UNCHANGED inbox PROVE CountedInv'
  <2>1. ASSUME NEW q \in Requests PROVE req'[q].now <= now'
    <3>1. req[q].now \in Nat /\ now \in Nat
      BY DEF TypeOK, RequestsOK, RequestState, TablesOK
    <3> QED BY <1>2, <3>1 DEF CountedInv
  <2>2. ASSUME NEW q \in Requests, req'[q].pc = "deliver", now' <= req'[q].now + Day
        PROVE  Logged(req[q].contact, req[q].issue, req[q].now)'
    <3>1. req'[q] = req[q] /\ req[q].now \in Nat
      BY <1>2, <2>2 DEF TypeOK, RequestsOK, RequestState
    <3> QED BY <1>2, <2>2, <3>1, LoggedKept DEF CountedInv
  <2>3. ASSUME NEW d \in inbox', now' <= d.asked + Day
        PROVE  Logged(d.contact, d.issue, d.asked)'
    <3>1. d \in inbox /\ d.asked \in Nat
      BY <1>2 DEF TypeOK, HistoryOK, Delivery
    <3> QED BY <1>2, <2>3, <3>1, LoggedKept DEF CountedInv
  <2> QED BY <2>1, <2>2, <2>3 DEF CountedInv
<1>3. now \in Nat /\ req \in [Requests -> RequestState]
  BY DEF TypeOK, TablesOK, RequestsOK
<1>4. ASSUME UNCHANGED <<now, issuances>> PROVE Time
  BY <1>3, <1>4
<1>5. ASSUME NEW r \in Requests, NEW c \in Contacts, RequestStart(r, c) PROVE CountedInv'
  <2>1. Settled
    BY <1>3, <1>5 DEF RequestStart, IdleRequest
  <2> QED BY <1>2, <1>4, <1>5, <2>1 DEF RequestStart, history
<1>6. ASSUME NEW r \in Requests,
             \/ RequestCount(r) \/ RequestCooldown(r) \/ RequestConflict(r)
             \/ RequestDeliveryFails(r) \/ RequestRollback(r)
             \/ \E code \in Codes : RequestUpsert(r, code)
      PROVE  CountedInv'
  <2>1. \A q \in Requests : q # r => req'[q] = req[q]
    BY <1>3, <1>6 DEF RequestCount, RequestCooldown, RequestConflict, RequestDeliveryFails,
                     RequestRollback, RequestUpsert
  <2>2. req'[r].pc # "deliver" /\ req'[r].now \in {0, req[r].now}
    <3>1. CASE \E code \in Codes : RequestUpsert(r, code)
      <4>1. PICK id : req' = [req EXCEPT ![r].pc = "log", ![r].id = id, ![r].issue = nextIssue]
        BY <3>1 DEF RequestUpsert
      <4> QED BY <1>3, <4>1 DEF RequestState
    <3>2. CASE RequestCount(r) \/ RequestCooldown(r)
      <4>1. PICK pc \in {"cooldown", "upsert"} :
              req' = [req EXCEPT ![r].pc = pc] \/ req' = [req EXCEPT ![r] = IdleRequest]
        BY <3>2 DEF RequestCount, RequestCooldown
      <4> QED BY <1>3, <4>1 DEF RequestState, IdleRequest
    <3>3. CASE RequestConflict(r) \/ RequestDeliveryFails(r) \/ RequestRollback(r)
      BY <1>3, <3>3 DEF RequestConflict, RequestDeliveryFails, RequestRollback, IdleRequest,
                       RequestState
    <3> QED BY <1>6, <3>1, <3>2, <3>3
  <2>3. UNCHANGED <<now, issuances, inbox>>
    BY <1>6 DEF RequestCount, RequestCooldown, RequestConflict, RequestDeliveryFails,
                RequestRollback, RequestUpsert, history
  <2>4. Settled
    BY <1>3, <2>1, <2>2, <2>3 DEF CountedInv
  <2> QED BY <1>2, <1>4, <2>3, <2>4
<1>7. ASSUME NEW r \in Requests, RequestLog(r) PROVE CountedInv'
  <2> DEFINE new == [contact |-> req[r].contact, at |-> now, issue |-> req[r].issue]
  <2>1. /\ new \in issuances' /\ issuances \subseteq issuances'
        /\ new.contact = req[r].contact /\ new.issue = req[r].issue /\ new.at = now
        /\ UNCHANGED <<now, inbox>>
    BY <1>7 DEF RequestLog, history
  <2>2. /\ \A q \in Requests : q # r => req'[q] = req[q]
        /\ req'[r].contact = req[r].contact /\ req'[r].issue = req[r].issue
        /\ req'[r].now = req[r].now
    BY <1>3, <1>7 DEF RequestLog, RequestState
  <2> HIDE DEF new
  <2>3. Logged(req[r].contact, req[r].issue, req[r].now)'
    BY <2>1, <2>2 DEF Logged, CountedInv
  <2>4. \A c, issue, asked : Logged(c, issue, asked) =>
            \E i \in issuances' : i.contact = c /\ i.issue = issue /\ i.at >= asked
    BY <2>1 DEF Logged
  <2> QED BY <2>1, <2>2, <2>3, <2>4 DEF CountedInv, Logged
<1>8. ASSUME NEW r \in Requests, RequestDeliver(r) PROVE CountedInv'
  <2> DEFINE new == [contact |-> req[r].contact, issue |-> req[r].issue,
                     asked |-> req[r].now]
  <2>1. /\ inbox' = inbox \cup {new}
        /\ new.contact = req[r].contact /\ new.issue = req[r].issue
        /\ new.asked = req[r].now
        /\ UNCHANGED <<now, issuances>> /\ req[r].pc = "deliver"
    BY <1>8 DEF RequestDeliver
  <2>2. /\ \A q \in Requests : q # r => req'[q] = req[q]
        /\ req'[r].pc = "idle" /\ req'[r].now = 0
    BY <1>3, <1>8 DEF RequestDeliver, IdleRequest
  <2> HIDE DEF new
  <2> QED BY <1>3, <2>1, <2>2 DEF CountedInv, Logged
<1>9. ASSUME Restart PROVE CountedInv'
  <2>1. Settled
    BY <1>3, <1>9 DEF Restart, IdleRequest
  <2> QED BY <1>2, <1>4, <1>9, <2>1 DEF Restart, history
<1>10. ASSUME Prune \/ Tick PROVE CountedInv'
  <2>1. Time /\ Settled
    BY <1>3, <1>10 DEF Prune, Tick, Kept
  <2> QED BY <1>2, <1>10, <2>1 DEF Prune, Tick, history
<1>11. ASSUME UNCHANGED <<now, issuances, req, inbox>> PROVE CountedInv'
  BY <1>2, <1>4, <1>11
<1>12. ASSUME NEW v \in Verifiers,
              \/ \E c \in Contacts, code \in Codes : VerifyRead(v, c, code)
              \/ VerifyStep(v)
       PROVE  UNCHANGED <<now, issuances, req, inbox>>
  BY <1>12 DEF VerifyRead, VerifyStep, VerifyCharge, VerifyLock, VerifyWrongCode,
               VerifyConsume, VerifyPurge, VerifyMint, history
<1>13. UNCHANGED vars => UNCHANGED <<now, issuances, req, inbox>>
  BY DEF vars, history
<1> QED
  BY <1>5, <1>6, <1>7, <1>8, <1>9, <1>10, <1>11, <1>12, <1>13 DEF Next, RequestStep

LEMMA CountedInit == Init => CountedInv
BY DEF Init, CountedInv, IdleRequest

\* No code reaches a contact without standing in the log that the caps on issuances count,
\* for as long as they look back: for every retention of at least a day, any number of
\* concurrent requests and restarts, and a prune at any moment.
THEOREM DeliveriesCounted == Spec => []DeliveryIsCounted
<1>1. Spec => []CountedInv
  BY CountedInit, CountedStep, TypeCorrect, PTL DEF Spec
<1>2. CountedInv => DeliveryIsCounted
  BY DEF CountedInv, DeliveryIsCounted, Logged
<1> QED BY <1>1, <1>2, PTL
=============================================================================
