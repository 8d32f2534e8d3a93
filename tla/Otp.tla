-------------------------------- MODULE Otp --------------------------------
(***************************************************************************)
(* One-time codes: OtpService.request, OtpService.verify and the hourly    *)
(* RetentionService.pruneOtpArtifacts.                                     *)
(*                                                                         *)
(* A handler is a slot with a program counter; it gives up the processor   *)
(* at every await, so the steps of all slots interleave.  One database     *)
(* statement is one atomic step (PostgreSQL, Read Committed).  Codes stand *)
(* for their HMACs, a contact determines its channel.                      *)
(***************************************************************************)
EXTENDS Naturals, FiniteSets

CONSTANTS
    Contacts,       \* normalised e-mail addresses and phone numbers
    Codes,          \* values generateNumericCode can return
    Requests,       \* slots of concurrent OtpService.request calls
    Verifiers,      \* slots of concurrent OtpService.verify calls
    None,           \* the null value
    Ttl,            \* otp.ttlSeconds, in clock ticks
    MaxAttempts,    \* otp.maxAttempts
    Cooldown,       \* otp.resendCooldownSeconds
    Hour, Day,      \* the two rolling windows of the issuance caps
    MaxPerHour, MaxPerDay,
    Grace,          \* how long an expired challenge is kept (1h)
    IssuanceKeep,   \* how long an issuance is kept (2 days)
    TokenTtl,       \* VERIFICATION_TOKEN_TTL_MS
    MaxTime,        \* bound: the last tick of the clock
    MaxIssues       \* bound: number of codes issued in a behaviour

ASSUME OtpAssumption ==
    /\ None \notin Contacts \cup Codes
    /\ Ttl \in Nat /\ Cooldown \in Nat /\ TokenTtl \in Nat
    /\ MaxAttempts \in Nat \ {0}
    /\ MaxPerHour \in Nat \ {0} /\ MaxPerDay \in Nat \ {0}
    /\ Hour \in Nat /\ Day \in Nat /\ Grace \in Nat /\ IssuanceKeep \in Nat
    /\ MaxTime \in Nat /\ MaxIssues \in Nat
    /\ Hour <= Day /\ Day <= IssuanceKeep
    /\ IsFiniteSet(Verifiers)

VARIABLES
    now,            \* the wall clock, Date.now()
    challenge,      \* table OtpChallenge, unique on (contact, purpose)
    issuances,      \* table OtpIssuance
    tokens,         \* verification tokens handed out
    req,            \* local state of each request handler
    ver,            \* local state of each verify handler
    nextId,         \* next fresh identifier: primary keys and jtis
    nextIssue,      \* history: serial number of the next issued code
    inbox,          \* history: codes delivered to their contact
    guesses,        \* history: comparisons made with each issued code
    overtaken       \* history: calls that held a code when its row was re-issued

history == <<nextIssue, inbox, guesses, overtaken>>
vars == <<now, challenge, issuances, tokens, req, ver, nextId, history>>

(***************************************************************************)
(* A challenge row.  "issue" is a history field, the serial number of the  *)
(* upsert that wrote the row; "id" survives the update path of the upsert. *)
(* A row with id 0 is absent.                                              *)
(***************************************************************************)
Challenge == [id: Nat, code: Codes \cup {None}, attempts: Nat, expiresAt: Nat,
              consumed: BOOLEAN, createdAt: Nat, issue: Nat]

NoChallenge == [id |-> 0, code |-> None, attempts |-> 0, expiresAt |-> 0,
                consumed |-> FALSE, createdAt |-> 0, issue |-> 0]

Present(row) == row.id # 0

Issuance == [contact: Contacts, at: Nat, issue: Nat]

\* issue (history): the issue of the row that was consumed.
Token == [jti: Nat, contact: Contacts, exp: Nat, issue: Nat]

\* What a verify call keeps of the row it read; maxAttempts is the same for
\* every row.
Snapshot == [id: Nat, code: Codes \cup {None}, issue: Nat]

SnapOf(row) == [id |-> row.id, code |-> row.code, issue |-> row.issue]

\* A message that reached its contact; "asked" is when its code was asked for.
Delivery == [contact: Contacts, issue: Nat, asked: Nat]

RequestState == [pc: {"idle", "count", "cooldown", "upsert", "log", "deliver", "rollback"},
                 contact: Contacts \cup {None}, now: Nat, id: Nat, issue: Nat]

VerifyState == [pc: {"idle", "charge", "lock", "compare", "purge", "mint"},
                contact: Contacts \cup {None}, code: Codes \cup {None},
                snap: Snapshot, won: Nat]

IdleRequest == [pc |-> "idle", contact |-> None, now |-> 0, id |-> 0, issue |-> 0]

IdleVerify == [pc |-> "idle", contact |-> None, code |-> None,
               snap |-> SnapOf(NoChallenge), won |-> 0]

RequestsOK ==
    /\ req \in [Requests -> RequestState]
    /\ \A r \in Requests : req[r].pc # "idle" => req[r].contact # None

VerifiersOK ==
    /\ ver \in [Verifiers -> VerifyState]
    /\ \A v \in Verifiers :
          ver[v].pc # "idle" => ver[v].contact # None /\ Present(ver[v].snap)

TablesOK ==
    /\ now \in Nat
    /\ challenge \in [Contacts -> Challenge]
    /\ issuances \in SUBSET Issuance
    /\ tokens \in SUBSET Token
    /\ nextId \in Nat \ {0}

HistoryOK ==
    /\ nextIssue \in Nat \ {0}
    /\ inbox \in SUBSET Delivery
    /\ guesses \in [1..MaxIssues -> Nat]
    /\ overtaken \in [1..MaxIssues -> Nat]

TypeOK == RequestsOK /\ VerifiersOK /\ TablesOK /\ HistoryOK

Init ==
    /\ now = 0
    /\ challenge = [c \in Contacts |-> NoChallenge]
    /\ issuances = {}
    /\ tokens = {}
    /\ req = [r \in Requests |-> IdleRequest]
    /\ ver = [v \in Verifiers |-> IdleVerify]
    /\ nextId = 1
    /\ nextIssue = 1
    /\ inbox = {}
    /\ guesses = [i \in 1..MaxIssues |-> 0]
    /\ overtaken = [i \in 1..MaxIssues |-> 0]

-----------------------------------------------------------------------------
(* OtpService.request *)

\* Rows the count query sees; createdAt >= since has no upper limit.
IssuedSince(c, since) == {i \in issuances : i.contact = c /\ i.at >= since}

\* x - d, but not below the start of the clock.
Back(x, d) == IF x >= d THEN x - d ELSE 0

\* The clock is read once, before the first query.
RequestStart(r, c) ==
    /\ req[r].pc = "idle"
    /\ req' = [req EXCEPT ![r] = [IdleRequest EXCEPT !.pc = "count", !.contact = c, !.now = now]]
    /\ UNCHANGED <<now, challenge, issuances, tokens, ver, nextId, history>>

WithinCaps(r) ==
    LET c == req[r].contact IN
    /\ Cardinality(IssuedSince(c, Back(req[r].now, Hour))) < MaxPerHour
    /\ Cardinality(IssuedSince(c, Back(req[r].now, Day))) < MaxPerDay

\* Both counts run in one transaction.
RequestCount(r) ==
    /\ req[r].pc = "count"
    /\ req' = [req EXCEPT ![r] = IF WithinCaps(r) THEN [@ EXCEPT !.pc = "cooldown"] ELSE IdleRequest]
    /\ UNCHANGED <<now, challenge, issuances, tokens, ver, nextId, history>>

CoolingDown(r) ==
    LET row == challenge[req[r].contact] IN
    Present(row) /\ req[r].now < row.createdAt + Cooldown

RequestCooldown(r) ==
    /\ req[r].pc = "cooldown"
    /\ req' = [req EXCEPT ![r] = IF CoolingDown(r) THEN IdleRequest ELSE [@ EXCEPT !.pc = "upsert"]]
    /\ UNCHANGED <<now, challenge, issuances, tokens, ver, nextId, history>>

\* Verify calls that have read the code of an issue and are still to be charged for it.
Holding(i) == {v \in Verifiers : ver[v].pc = "charge" /\ ver[v].snap.issue = i}

\* The update path keeps the primary key and stamps the time the handler read;
\* the create path takes a new key and the database's clock.
RequestUpsert(r, code) ==
    LET c == req[r].contact
        old == challenge[c]
        row == [id        |-> IF Present(old) THEN old.id ELSE nextId,
                code      |-> code,
                attempts  |-> 0,
                expiresAt |-> req[r].now + Ttl,
                consumed  |-> FALSE,
                createdAt |-> IF Present(old) THEN req[r].now ELSE now,
                issue     |-> nextIssue] IN
    /\ req[r].pc = "upsert"
    /\ nextIssue <= MaxIssues
    /\ challenge' = [challenge EXCEPT ![c] = row]
    /\ nextId' = IF Present(old) THEN nextId ELSE nextId + 1
    /\ nextIssue' = nextIssue + 1
    /\ req' = [req EXCEPT ![r].pc = "log", ![r].id = row.id, ![r].issue = nextIssue]
    /\ overtaken' = IF Present(old)
                    THEN [overtaken EXCEPT ![old.issue] = @ + Cardinality(Holding(old.issue))]
                    ELSE overtaken
    /\ UNCHANGED <<now, issuances, tokens, ver, inbox, guesses>>

\* P2002: the insert lost to a concurrent one, so a row exists by now.
RequestConflict(r) ==
    /\ req[r].pc = "upsert"
    /\ Present(challenge[req[r].contact])
    /\ req' = [req EXCEPT ![r] = IdleRequest]
    /\ UNCHANGED <<now, challenge, issuances, tokens, ver, nextId, history>>

RequestLog(r) ==
    /\ req[r].pc = "log"
    /\ issuances' = issuances \cup
           {[contact |-> req[r].contact, at |-> now, issue |-> req[r].issue]}
    /\ req' = [req EXCEPT ![r].pc = "deliver"]
    /\ UNCHANGED <<now, challenge, tokens, ver, nextId, history>>

RequestDeliver(r) ==
    /\ req[r].pc = "deliver"
    /\ inbox' = inbox \cup
           {[contact |-> req[r].contact, issue |-> req[r].issue, asked |-> req[r].now]}
    /\ req' = [req EXCEPT ![r] = IdleRequest]
    /\ UNCHANGED <<now, challenge, issuances, tokens, ver, nextId, nextIssue, guesses, overtaken>>

\* The mail or SMS provider rejects, or its timeout expires.
RequestDeliveryFails(r) ==
    /\ req[r].pc = "deliver"
    /\ req' = [req EXCEPT ![r].pc = "rollback"]
    /\ UNCHANGED <<now, challenge, issuances, tokens, ver, nextId, history>>

\* deleteMany({ where: { id } })
DeleteById(c, id) ==
    challenge' = [challenge EXCEPT ![c] = IF @.id = id THEN NoChallenge ELSE @]

RequestRollback(r) ==
    /\ req[r].pc = "rollback"
    /\ DeleteById(req[r].contact, req[r].id)
    /\ req' = [req EXCEPT ![r] = IdleRequest]
    /\ UNCHANGED <<now, issuances, tokens, ver, nextId, history>>

-----------------------------------------------------------------------------
(* OtpService.verify *)

\* Mutant: no check whether a challenge was found.
FoundOrNot(c) == TRUE

Found(c) == Present(challenge[c])

\* Any code may be presented.  Without a challenge the call fails at once.
VerifyRead(v, c, code) ==
    /\ ver[v].pc = "idle"
    /\ Found(c)
    /\ ver' = [ver EXCEPT ![v] = [IdleVerify EXCEPT !.pc = "charge", !.contact = c,
                                                    !.code = code, !.snap = SnapOf(challenge[c])]]
    /\ UNCHANGED <<now, challenge, issuances, tokens, req, nextId, history>>

\* Mutant: the attempt is charged without asking for a rest of the budget.
ChargeableWithoutBudget(row) ==
    /\ ~row.consumed
    /\ now < row.expiresAt

\* The where clause of the atomic charge.
Chargeable(row) ==
    /\ ~row.consumed
    /\ now < row.expiresAt
    /\ row.attempts < MaxAttempts

\* updateMany by primary key: whatever issue the row holds by now is charged, and a charged
\* call goes on to compare with the code it read.
VerifyCharge(v) ==
    LET c == ver[v].contact
        row == challenge[c]
        hit == row.id = ver[v].snap.id /\ Chargeable(row) IN
    /\ ver[v].pc = "charge"
    /\ challenge' = IF hit THEN [challenge EXCEPT ![c].attempts = @ + 1] ELSE challenge
    /\ guesses' = IF hit THEN [guesses EXCEPT ![ver[v].snap.issue] = @ + 1] ELSE guesses
    /\ ver' = [ver EXCEPT ![v].pc = IF hit THEN "compare" ELSE "lock"]
    /\ UNCHANGED <<now, issuances, tokens, req, nextId, nextIssue, inbox, overtaken>>

\* Nothing was charged: expired or exhausted, invalidate.
VerifyLock(v) ==
    /\ ver[v].pc = "lock"
    /\ DeleteById(ver[v].contact, ver[v].snap.id)
    /\ ver' = [ver EXCEPT ![v] = IdleVerify]
    /\ UNCHANGED <<now, issuances, tokens, req, nextId, history>>

VerifyWrongCode(v) ==
    /\ ver[v].pc = "compare"
    /\ ver[v].code # ver[v].snap.code
    /\ ver' = [ver EXCEPT ![v] = IdleVerify]
    /\ UNCHANGED <<now, challenge, issuances, tokens, req, nextId, history>>

\* Mutant: consumed without the condition consumedAt = null.
ConsumesAnyway(v) == challenge[ver[v].contact].id = ver[v].snap.id

\* The where clause of the conditional consume, against the row as it is now.
Consumes(v) ==
    LET row == challenge[ver[v].contact] IN row.id = ver[v].snap.id /\ ~row.consumed

\* The code is compared with the row read at the start.
VerifyConsume(v) ==
    LET c == ver[v].contact IN
    /\ ver[v].pc = "compare"
    /\ ver[v].code = ver[v].snap.code
    /\ challenge' = IF Consumes(v) THEN [challenge EXCEPT ![c].consumed = TRUE] ELSE challenge
    /\ ver' = [ver EXCEPT ![v] = IF Consumes(v)
                                 THEN [@ EXCEPT !.pc = "purge", !.won = challenge[c].issue]
                                 ELSE IdleVerify]
    /\ UNCHANGED <<now, issuances, tokens, req, nextId, history>>

VerifyPurge(v) ==
    /\ ver[v].pc = "purge"
    /\ DeleteById(ver[v].contact, ver[v].snap.id)
    /\ ver' = [ver EXCEPT ![v].pc = "mint"]
    /\ UNCHANGED <<now, issuances, tokens, req, nextId, history>>

\* The token's jti is a fresh random string.
VerifyMint(v) ==
    /\ ver[v].pc = "mint"
    /\ tokens' = tokens \cup {[jti |-> nextId, contact |-> ver[v].contact, exp |-> now + TokenTtl,
                               issue |-> ver[v].won]}
    /\ nextId' = nextId + 1
    /\ ver' = [ver EXCEPT ![v] = IdleVerify]
    /\ UNCHANGED <<now, challenge, issuances, req, history>>

-----------------------------------------------------------------------------
(* RetentionService.pruneOtpArtifacts, restarts and time *)

\* Mutant: issuances are pruned after the grace period of the challenges.
KeptTooShort(i) == i.at + Grace >= now

Kept(i) == i.at + IssuanceKeep >= now

Prune ==
    /\ challenge' = [c \in Contacts |->
           IF challenge[c].expiresAt + Grace < now THEN NoChallenge ELSE challenge[c]]
    /\ issuances' = {i \in issuances : Kept(i)}
    /\ UNCHANGED <<now, tokens, req, ver, nextId, history>>

\* The process restarts: every handler is lost, the tables are not.
Restart ==
    /\ req' = [r \in Requests |-> IdleRequest]
    /\ ver' = [v \in Verifiers |-> IdleVerify]
    /\ UNCHANGED <<now, challenge, issuances, tokens, nextId, history>>

Tick ==
    /\ now < MaxTime
    /\ now' = now + 1
    /\ UNCHANGED <<challenge, issuances, tokens, req, ver, nextId, history>>

RequestStep(r) ==
    \/ RequestCount(r) \/ RequestCooldown(r)
    \/ \E code \in Codes : RequestUpsert(r, code)
    \/ RequestConflict(r) \/ RequestLog(r)
    \/ RequestDeliver(r) \/ RequestDeliveryFails(r) \/ RequestRollback(r)

VerifyStep(v) ==
    \/ VerifyCharge(v) \/ VerifyLock(v)
    \/ VerifyWrongCode(v) \/ VerifyConsume(v) \/ VerifyPurge(v) \/ VerifyMint(v)

Next ==
    \/ \E r \in Requests : RequestStep(r) \/ \E c \in Contacts : RequestStart(r, c)
    \/ \E v \in Verifiers :
          VerifyStep(v) \/ \E c \in Contacts, code \in Codes : VerifyRead(v, c, code)
    \/ Prune
    \/ Restart
    \/ Tick

Spec == Init /\ [][Next]_vars

-----------------------------------------------------------------------------
(* What the codes promise *)

\* One issued challenge yields at most one verification token, whatever the
\* handlers that read it, re-issue it, consume it and purge it do meanwhile.
OneTokenPerIssue == \A t, u \in tokens : t.issue = u.issue => t = u

\* Once a verify call has answered with a token, the challenge it spent is out
\* of the table: no later call can find it, not even after a restart.
SpentChallengeGone ==
    \A t \in tokens, c \in Contacts :
        Present(challenge[c]) => challenge[c].issue # t.issue

\* Why the two hold: a row still to be consumed belongs to no token and to no
\* handler that has won one; the row a handler has won is its own to purge.
Spending(v) == ver[v].pc \in {"purge", "mint"}

IssuesKnown ==
    /\ \A c \in Contacts : Present(challenge[c]) => challenge[c].issue \in 1..(nextIssue - 1)
    /\ \A t \in tokens : t.issue < nextIssue
    /\ \A v \in Verifiers : Spending(v) => ver[v].won < nextIssue

RowsDistinct ==
    \A c, d \in Contacts :
        Present(challenge[c]) /\ Present(challenge[d]) /\ challenge[c].issue = challenge[d].issue
        => c = d

SpendersDistinct ==
    /\ \A v, w \in Verifiers : Spending(v) /\ Spending(w) /\ ver[v].won = ver[w].won => v = w
    /\ \A v \in Verifiers, t \in tokens : Spending(v) => ver[v].won # t.issue

WonRowIsOurs ==
    \A v \in Verifiers, c \in Contacts :
        Spending(v) /\ Present(challenge[c]) /\ challenge[c].issue = ver[v].won
        => /\ ver[v].pc = "purge" /\ c = ver[v].contact
           /\ challenge[c].id = ver[v].snap.id /\ challenge[c].consumed

SpendInv == /\ IssuesKnown /\ RowsDistinct /\ SpendersDistinct /\ WonRowIsOurs
            /\ OneTokenPerIssue /\ SpentChallengeGone

\* A code is compared with guesses at most maxAttempts times, but for calls that had read it
\* when a re-issue under the same primary key replaced it: each of those makes at most one
\* comparison more with the old code, paid for by the budget of the new one.
GuessBudget == \A i \in 1..MaxIssues : guesses[i] <= MaxAttempts + overtaken[i]

\* Why it holds: while an issue is in the table its row counts every comparison with its
\* code.  Afterwards only calls that read it before and find its primary key still there can
\* be charged, each once, and the re-issue has counted them.
Current(i) == \E c \in Contacts : Present(challenge[c]) /\ challenge[c].issue = i

Waiting(i) == {v \in Holding(i) : challenge[ver[v].contact].id = ver[v].snap.id}

SnapshotsKnown ==
    /\ \A c \in Contacts : challenge[c].id < nextId
    /\ \A v \in Verifiers : ver[v].pc = "charge" =>
          /\ ver[v].snap.issue \in 1..(nextIssue - 1)
          /\ ver[v].snap.id < nextId
          /\ \A c \in Contacts :
                Present(challenge[c]) /\ challenge[c].issue = ver[v].snap.issue
                => c = ver[v].contact

BudgetInv ==
    /\ SnapshotsKnown
    /\ \A c \in Contacts : Present(challenge[c]) =>
          /\ challenge[c].issue <= MaxIssues
          /\ challenge[c].attempts <= MaxAttempts
          /\ guesses[challenge[c].issue] <= challenge[c].attempts
    /\ \A i \in 1..MaxIssues :
          /\ i >= nextIssue => guesses[i] = 0
          /\ ~Current(i) => guesses[i] + Cardinality(Waiting(i)) <= MaxAttempts + overtaken[i]

\* No code reaches a contact without being in the log the issuance caps count,
\* and pruning forgets none of them within the day the caps look back.
DeliveryIsCounted ==
    \A d \in inbox :
        now <= d.asked + Day =>
            \E i \in issuances : i.contact = d.contact /\ i.issue = d.issue

\* Why it holds: what is about to be delivered was logged no earlier than its code was asked
\* for, so the pruning, which looks at the time of the log, keeps it for the whole day.
Logged(c, issue, asked) ==
    \E i \in issuances : i.contact = c /\ i.issue = issue /\ i.at >= asked

CountedInv ==
    /\ \A r \in Requests : req[r].now <= now
    /\ \A r \in Requests :
          req[r].pc = "deliver" /\ now <= req[r].now + Day =>
              Logged(req[r].contact, req[r].issue, req[r].now)
    /\ \A d \in inbox : now <= d.asked + Day => Logged(d.contact, d.issue, d.asked)

\* "Roll back exactly the challenge we just created": a failed delivery removes
\* no challenge but the one whose code could not be delivered.
RollbackOwnChallenge ==
    [][\A r \in Requests, c \in Contacts :
          /\ req[r].pc = "rollback" /\ req'[r].pc = "idle"
          /\ Present(challenge[c]) /\ ~Present(challenge'[c])
          => challenge[c].issue = req[r].issue]_vars
=============================================================================
