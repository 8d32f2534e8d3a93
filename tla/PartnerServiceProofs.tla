------------------------ MODULE PartnerServiceProofs ------------------------
(* Proofs about the two models of PartnerService: Partners, the accounts, for any number  *)
(* of partners, tokens and calls, and Referral, for any number of users and calls.        *)
EXTENDS Partners, Referral, TLAPS

-----------------------------------------------------------------------------
(* Accounts: typing *)

\* A call that moves to a well-formed local state keeps all of them so.
LEMMA LocalMove ==
    ASSUME PartnersTypeOK, NEW h \in Handlers, NEW l \in Local, LocalOK(l),
           local' = [local EXCEPT ![h] = l]
    PROVE  local' \in [Handlers -> Local] /\ \A k \in Handlers : LocalOK(local'[k])
<1>1. local' \in [Handlers -> Local]
  BY DEF PartnersTypeOK
<1>2. ASSUME NEW k \in Handlers PROVE LocalOK(local'[k])
  <2>1. CASE k = h
    BY <2>1 DEF PartnersTypeOK
  <2>2. CASE k # h
    BY <2>2 DEF PartnersTypeOK
  <2> QED BY <2>1, <2>2
<1> QED BY <1>1, <1>2

LEMMA IdleOK == Idle \in Local /\ LocalOK(Idle)
BY DEF Idle, Local, LocalOK

\* What a call starts with.
LEMMA CallStarts ==
    ASSUME PartnersTypeOK, NEW h \in Handlers, Call(h)
    PROVE  \E l \in Local :
              /\ Begin(h, l) /\ LocalOK(l)
              /\ l.pc \notin {"idle", "register"} => Live(l.id)
              /\ l.pc = "register" /\ l.token # Null => ContactOf[l.token] = l.new
              /\ l.pc = "phone" => l.seen = partner[l.id].phone
              /\ l.pc = "login" => /\ l.ver = partner[l.id].version
                                   /\ l.password = partner[l.id].password
<1> DEFINE Goal == \E l \in Local :
              /\ Begin(h, l) /\ LocalOK(l)
              /\ l.pc \notin {"idle", "register"} => Live(l.id)
              /\ l.pc = "register" /\ l.token # Null => ContactOf[l.token] = l.new
              /\ l.pc = "phone" => l.seen = partner[l.id].phone
              /\ l.pc = "login" => /\ l.ver = partner[l.id].version
                                   /\ l.password = partner[l.id].password
<1>1. ASSUME NEW slug \in Slugs, NEW phone \in Phones, NEW p \in Passwords,
             NEW t \in Tokens \cup {Null}, RegisterRead(h, slug, phone, p, t)
      PROVE  Goal
  <2> DEFINE l == [Idle EXCEPT !.pc = "register", !.slug = slug, !.new = phone,
                               !.password = p, !.token = t]
  <2>1. l \in Local /\ LocalOK(l)
    BY DEF Idle, Local, LocalOK
  <2>2. Begin(h, l) /\ (t # Null => ContactOf[t] = phone)
    BY <1>1 DEF RegisterRead, Accepted
  <2>3. l.pc = "register" /\ l.token = t /\ l.new = phone
    BY DEF Idle
  <2> HIDE DEF l
  <2> QED BY <2>1, <2>2, <2>3
<1>2. ASSUME NEW i \in Ids, NEW p \in Passwords, LoginRead(h, i, p) PROVE Goal
  <2> DEFINE l == [Idle EXCEPT !.pc = "login", !.id = i, !.ver = partner[i].version,
                               !.password = p]
  <2>1. partner[i].version \in Nat
    BY DEF PartnersTypeOK, Partner
  <2>2. l \in Local /\ LocalOK(l)
    BY <2>1 DEF Idle, Local, LocalOK
  <2>3. Begin(h, l) /\ Live(i) /\ partner[i].password = p
    BY <1>2 DEF LoginRead
  <2>4. l.pc = "login" /\ l.id = i /\ l.ver = partner[i].version /\ l.password = p
    BY DEF Idle
  <2> HIDE DEF l
  <2> QED BY <2>2, <2>3, <2>4
<1>3. ASSUME NEW s \in sessions, NEW pc \in {"logout", "payout", "phone", "password", "delete"},
             NEW new \in Phones \cup Passwords \cup Ibans \cup {Null},
             pc = "payout" => new \in Ibans \cup {Null}, pc = "phone" => new \in Phones,
             pc = "password" => new \in Passwords, BeginAs(h, s, pc, new)
      PROVE  Goal
  <2> DEFINE seen == IF pc = "phone" THEN partner[s.sub].phone ELSE Null
             l == [Idle EXCEPT !.pc = pc, !.id = s.sub, !.ver = s.ver, !.seen = seen,
                               !.new = new]
  <2>1. s.sub \in Ids /\ s.ver \in Nat /\ seen \in Phones \cup {Null}
    BY DEF PartnersTypeOK, Session, Partner
  <2>2. Begin(h, l) /\ Live(s.sub)
    BY <1>3 DEF BeginAs, Usable
  <2> HIDE DEF seen
  <2>3. l \in Local /\ LocalOK(l)
    BY <1>3, <2>1 DEF Idle, Local, LocalOK
  <2>4. l.pc = pc /\ l.id = s.sub /\ l.seen = seen
    BY DEF Idle
  <2> HIDE DEF l
  <2>5. l.pc = "phone" => l.seen = partner[l.id].phone
    BY <2>4 DEF seen
  <2> QED BY <2>2, <2>3, <2>4, <2>5
<1>4. ASSUME NEW s \in sessions, BeginAs(h, s, "logout", Null) PROVE Goal
  BY <1>3, <1>4
<1>5. ASSUME NEW s \in sessions, NEW iban \in Ibans \cup {Null}, BeginAs(h, s, "payout", iban)
      PROVE  Goal
  BY <1>3, <1>5
<1>6. ASSUME NEW s \in sessions, NEW phone \in Phones, BeginAs(h, s, "phone", phone) PROVE Goal
  BY <1>3, <1>6
<1>7. ASSUME NEW s \in sessions, NEW p \in Passwords, BeginAs(h, s, "password", p) PROVE Goal
  BY <1>3, <1>7
<1>8. ASSUME NEW s \in sessions, BeginAs(h, s, "delete", Null) PROVE Goal
  BY <1>3, <1>8
<1> QED BY <1>1, <1>2, <1>4, <1>5, <1>6, <1>7, <1>8 DEF Call

\* A later step ends its call.
LEMMA ContinueEnds ==
    ASSUME NEW h \in Handlers, Finish(h)
    PROVE  /\ local' = [local EXCEPT ![h] = Idle]
           /\ UNCHANGED <<expired, calls>>
BY DEF Finish, RegisterWrite, LoginWrite, LogoutWrite, PayoutWrite, PhoneWrite, PasswordWrite,
       DeleteWrite, End

-----------------------------------------------------------------------------
(* Accounts: what a step does to the table of partners *)

\* A row is not revived, keeps its origin, its version only grows, a new password comes
\* with a new version, and the flag is not set again, nor kept with another number.
RowStep(r, q) ==
    /\ q.state = "unused" <=> r.state = "unused"
    /\ q.state = "live" => r.state = "live"
    /\ q.proof = r.proof /\ q.late = r.late
    /\ q.version >= r.version
    /\ q.password # r.password => q.version > r.version
    /\ q.verified => r.verified /\ q.phone = r.phone

\* A row as register writes it.
NewPartner(q) ==
    /\ q.state = "live" /\ q.version = 0
    /\ q.verified => q.proof # Null /\ q.phone = ContactOf[q.proof]
    /\ q.proof # Null => /\ q.proof \notin used /\ q.proof \in used'
                         /\ q.late \/ q.proof \notin expired

TableStep ==
    /\ partner' \in [Ids -> Partner]
    /\ \A i \in Ids : \/ RowStep(partner[i], partner'[i])
                      \/ partner[i].state = "unused" /\ NewPartner(partner'[i])
    /\ \A i, j \in Ids : i # j /\ partner'[i] # partner[i] => partner'[j] = partner[j]

LEMMA SameRow == ASSUME NEW r \in Partner PROVE RowStep(r, r)
<1>1. r.version \in Nat
  BY DEF Partner
<1> QED BY <1>1 DEF RowStep

LEMMA Untouched == ASSUME PartnersTypeOK, UNCHANGED partner PROVE TableStep
<1>1. ASSUME NEW i \in Ids PROVE RowStep(partner[i], partner'[i])
  <2>1. partner[i] \in Partner
    BY DEF PartnersTypeOK
  <2> QED BY <2>1, SameRow
<1> QED BY <1>1 DEF TableStep, PartnersTypeOK

LEMMA OneRow ==
    ASSUME PartnersTypeOK, NEW i \in Ids, NEW row \in Partner,
           RowStep(partner[i], row) \/ (partner[i].state = "unused" /\ NewPartner(row)),
           partner' = [partner EXCEPT ![i] = row]
    PROVE  TableStep
<1>1. partner' \in [Ids -> Partner]
  BY DEF PartnersTypeOK
<1>2. partner'[i] = row /\ \A j \in Ids \ {i} : partner'[j] = partner[j]
  BY DEF PartnersTypeOK
<1>3. ASSUME NEW j \in Ids, j # i PROVE RowStep(partner[j], partner'[j])
  BY <1>2, <1>3, SameRow DEF PartnersTypeOK
<1>4. ASSUME NEW j \in Ids
      PROVE  \/ RowStep(partner[j], partner'[j])
             \/ partner[j].state = "unused" /\ NewPartner(partner'[j])
  BY <1>2, <1>3
<1>5. \A j, k \in Ids : j # k /\ partner'[j] # partner[j] => partner'[k] = partner[k]
  BY <1>2
<1> QED BY <1>1, <1>4, <1>5 DEF TableStep

LEMMA WriteStep ==
    ASSUME PartnersTypeOK, NEW h \in Handlers, local[h].id \in Ids, NEW row \in Partner,
           Live(local[h].id) => RowStep(partner[local[h].id], row), UpdateRow(h, row)
    PROVE  TableStep
<1>1. CASE Live(local[h].id)
  BY <1>1, OneRow DEF UpdateRow
<1>2. CASE ~Live(local[h].id)
  BY <1>2, Untouched DEF UpdateRow
<1> QED BY <1>1, <1>2

LEMMA RegisterTable ==
    ASSUME PartnersTypeOK, CallsOK, NEW h \in Handlers, NEW i \in Ids, RegisterWrite(h, i)
    PROVE  TableStep
<1> DEFINE l == local[h]
           row == [state |-> "live", slug |-> l.slug, phone |-> l.new, password |-> l.password,
                   verified |-> l.token # Null, payout |-> Null, version |-> 0,
                   proof |-> l.token, late |-> l.token \in expired]
<1>1. /\ l.slug \in Slugs /\ l.new \in Phones /\ l.password \in Passwords
      /\ l.token \in Tokens \cup {Null}
      /\ l.token # Null => ContactOf[l.token] = l.new
  BY DEF PartnersTypeOK, Local, LocalOK, RegisterWrite, CallsOK, CallOK
<1>2. CASE UNCHANGED partner
  BY <1>2, Untouched
<1>3. CASE Fresh(l.token) /\ ~Clash(l.slug, l.new)
  <2>1. /\ partner' = [partner EXCEPT ![i] = row] /\ used' = used \cup Spent(l.token)
        /\ partner[i].state = "unused"
    BY <1>3 DEF RegisterWrite
  <2>2. row \in Partner
    BY <1>1 DEF Partner
  <2>3. l.token \notin used /\ (l.token # Null => l.token \in used')
    BY <1>1, <1>3, <2>1 DEF Fresh, Spent
  <2>4. NewPartner(row)
    BY <1>1, <2>3 DEF NewPartner
  <2> QED BY <2>1, <2>2, <2>4, OneRow
<1> QED BY <1>2, <1>3 DEF RegisterWrite

LEMMA ContinueTable ==
    ASSUME PartnersTypeOK, CallsOK, NEW h \in Handlers, Finish(h) PROVE TableStep
<1> DEFINE i == local[h].id
           r == partner[i]
<1>1. local[h].pc \notin {"idle", "register"} => i \in Ids /\ r \in Partner
  BY DEF PartnersTypeOK, LocalOK
<1>2. CASE LogoutWrite(h)
  <2>1. i \in Ids /\ r \in Partner /\ r.version \in Nat /\ r.version + 1 \in Nat
    BY <1>1, <1>2 DEF LogoutWrite, Partner
  <2> DEFINE row == [r EXCEPT !.version = r.version + 1]
  <2>2. UpdateRow(h, row)
    BY <1>2 DEF LogoutWrite, NextVersion
  <2>3. /\ row \in Partner /\ row.version = r.version + 1 /\ row.state = r.state
        /\ row.proof = r.proof /\ row.late = r.late /\ row.password = r.password
        /\ row.verified = r.verified /\ row.phone = r.phone
    BY <2>1 DEF Partner
  <2> HIDE DEF row
  <2>4. RowStep(r, row)
    BY <2>1, <2>3 DEF RowStep
  <2> QED BY <2>1, <2>2, <2>3, <2>4, WriteStep
<1>3. CASE PayoutWrite(h)
  <2> DEFINE iban == IF local[h].new = Null THEN r.payout ELSE local[h].new
             row == [r EXCEPT !.payout = iban]
  <2>1. i \in Ids /\ r \in Partner /\ r.version \in Nat /\ iban \in Ibans \cup {Null}
    BY <1>1, <1>3 DEF PayoutWrite, Partner, PartnersTypeOK, LocalOK
  <2>2. UpdateRow(h, row)
    BY <1>3, <2>1 DEF PayoutWrite, Partner
  <2> HIDE DEF iban
  <2>3. row \in Partner /\ RowStep(r, row)
    BY <2>1 DEF Partner, RowStep
  <2> QED BY <2>1, <2>2, <2>3, WriteStep
<1>4. CASE PhoneWrite(h)
  <2> DEFINE b == r.verified /\ SamePhone(h)
             row == [r EXCEPT !.phone = local[h].new, !.verified = b]
  <2>1. /\ i \in Ids /\ r \in Partner /\ r.version \in Nat /\ b \in BOOLEAN
        /\ local[h].new \in Phones
    BY <1>1, <1>4 DEF PhoneWrite, Partner, PartnersTypeOK, LocalOK, SamePhone
  <2>2. UpdateRow(h, row) \/ UNCHANGED partner
    BY <1>4, <2>1 DEF PhoneWrite, Partner
  <2>3. b => r.verified /\ local[h].new = r.phone
    BY <1>4 DEF CallsOK, CallOK, SamePhone, PhoneWrite
  <2> HIDE DEF b
  <2>4. /\ row \in Partner /\ row.version = r.version /\ row.state = r.state
        /\ row.proof = r.proof /\ row.late = r.late /\ row.password = r.password
        /\ row.verified = b /\ row.phone = local[h].new
    BY <2>1 DEF Partner
  <2> HIDE DEF row
  <2>5. RowStep(r, row)
    BY <2>1, <2>3, <2>4 DEF RowStep
  <2> QED BY <2>1, <2>2, <2>4, <2>5, WriteStep, Untouched DEF row
<1>5. CASE PasswordWrite(h)
  <2> DEFINE n == r.version + 1
             row == [r EXCEPT !.password = local[h].new, !.version = n]
  <2>1. /\ i \in Ids /\ r \in Partner /\ r.version \in Nat /\ local[h].new \in Passwords
        /\ n \in Nat /\ n > r.version
    BY <1>1, <1>5 DEF PasswordWrite, Partner, PartnersTypeOK, LocalOK
  <2>2. UpdateRow(h, row)
    BY <1>5 DEF PasswordWrite, NextVersion
  <2> HIDE DEF n
  <2>3. /\ row \in Partner /\ row.version = n /\ row.state = r.state
        /\ row.proof = r.proof /\ row.late = r.late
        /\ row.verified = r.verified /\ row.phone = r.phone
    BY <2>1 DEF Partner
  <2> HIDE DEF row
  <2>4. RowStep(r, row)
    BY <2>1, <2>3 DEF RowStep
  <2> QED BY <2>1, <2>2, <2>3, <2>4, WriteStep
<1>6. CASE DeleteWrite(h)
  <2> DEFINE row == [r EXCEPT !.state = "deleted"]
  <2>1. i \in Ids /\ r \in Partner /\ r.version \in Nat
    BY <1>1, <1>6 DEF DeleteWrite, Partner
  <2>2. UpdateRow(h, row)
    BY <1>6 DEF DeleteWrite
  <2>3. row \in Partner
    BY <2>1 DEF Partner
  <2>4. ASSUME Live(i) PROVE RowStep(r, row)
    BY <2>1, <2>4 DEF Partner, RowStep, Live
  <2> QED BY <2>1, <2>2, <2>3, <2>4, WriteStep
<1>7. CASE LoginWrite(h)
  BY <1>7, Untouched DEF LoginWrite
<1> QED BY <1>2, <1>3, <1>4, <1>5, <1>6, <1>7, RegisterTable DEF Finish

LEMMA NextTable == ASSUME PartnersTypeOK, CallsOK, [PartnersNext]_partnersVars PROVE TableStep
<1>1. ASSUME NEW h \in Handlers, Call(h) PROVE UNCHANGED partner
  BY <1>1, CallStarts DEF Begin
<1>2. PartnersRestart \/ (\E t \in Tokens : Expire(t) \/ Prune(t)) \/ UNCHANGED partnersVars
      => UNCHANGED partner
  BY DEF PartnersRestart, Expire, Prune, partnersVars
<1> QED BY <1>1, <1>2, ContinueTable, Untouched DEF PartnersNext

-----------------------------------------------------------------------------
(* Accounts: the access tokens *)

\* A step hands out at most one token, with the version its partner has after it, and,
\* unless its login was late, with the password.
SessionStep ==
    \A s \in sessions' \ sessions :
        /\ s \in Session
        /\ partner'[s.sub].state # "unused" /\ s.ver = partner'[s.sub].version
        /\ s.late \/ s.password = partner'[s.sub].password

LEMMA NextSessions ==
    ASSUME PartnersTypeOK, CallsOK, [PartnersNext]_partnersVars
    PROVE  SessionStep /\ sessions \subseteq sessions'
<1>1. CASE UNCHANGED sessions
  BY <1>1 DEF SessionStep
<1>2. ASSUME NEW h \in Handlers, NEW i \in Ids, RegisterWrite(h, i)
      PROVE  SessionStep /\ sessions \subseteq sessions'
  <2> DEFINE l == local[h]
             s == [sub |-> i, ver |-> 0, password |-> l.password, late |-> FALSE]
  <2>1. l.password \in Passwords
    BY <1>2 DEF PartnersTypeOK, LocalOK, RegisterWrite
  <2>2. CASE Fresh(l.token) /\ ~Clash(l.slug, l.new)
    <3>1. sessions' = sessions \cup {s}
      BY <1>2, <2>2 DEF RegisterWrite
    <3>2. /\ partner'[i].state = "live" /\ partner'[i].version = 0
          /\ partner'[i].password = l.password
      BY <1>2, <2>2 DEF RegisterWrite, PartnersTypeOK
    <3>3. s \in Session /\ s.sub = i /\ s.ver = 0 /\ s.password = l.password
      BY <2>1 DEF Session
    <3> HIDE DEF s
    <3> QED BY <3>1, <3>2, <3>3 DEF SessionStep
  <2>3. CASE UNCHANGED sessions
    BY <2>3 DEF SessionStep
  <2> QED BY <1>2, <2>2, <2>3 DEF RegisterWrite
<1>3. ASSUME NEW h \in Handlers, LoginWrite(h) PROVE SessionStep /\ sessions \subseteq sessions'
  <2> DEFINE i == local[h].id
             late == local[h].ver # partner[i].version
             s == [sub |-> i, ver |-> partner[i].version, password |-> local[h].password,
                   late |-> late]
  <2>1. /\ i \in Ids /\ partner[i].version \in Nat /\ local[h].password \in Passwords
        /\ partner[i].state # "unused" /\ late \in BOOLEAN
        /\ late \/ local[h].password = partner[i].password
    BY <1>3 DEF LoginWrite, PartnersTypeOK, LocalOK, Partner, CallsOK, CallOK
  <2>2. UNCHANGED partner /\ (sessions' = sessions \cup {s} \/ UNCHANGED sessions)
    BY <1>3 DEF LoginWrite, Issue
  <2> HIDE DEF late
  <2> QED BY <2>1, <2>2 DEF SessionStep, Session
<1>4. ASSUME NEW h \in Handlers, PasswordWrite(h)
      PROVE  SessionStep /\ sessions \subseteq sessions'
  <2> DEFINE i == local[h].id
             n == partner[i].version + 1
             s == [sub |-> i, ver |-> n, password |-> local[h].new, late |-> FALSE]
             row == [partner[i] EXCEPT !.password = local[h].new, !.version = n]
  <2>1. /\ i \in Ids /\ partner[i] \in Partner /\ n \in Nat /\ local[h].new \in Passwords
    BY <1>4 DEF PasswordWrite, PartnersTypeOK, LocalOK, Partner
  <2>2. CASE Live(i)
    <3>1. partner' = [partner EXCEPT ![i] = row] /\ sessions' = sessions \cup {s}
      BY <1>4, <2>2 DEF PasswordWrite, UpdateRow, Issue, NextVersion
    <3> HIDE DEF n
    <3>2. /\ partner'[i].state = "live" /\ partner'[i].version = n
          /\ partner'[i].password = local[h].new
      BY <2>1, <2>2, <3>1 DEF PartnersTypeOK, Partner, Live
    <3>3. s \in Session /\ s.sub = i /\ s.ver = n /\ s.password = local[h].new
      BY <2>1 DEF Session
    <3> HIDE DEF s
    <3> QED BY <3>1, <3>2, <3>3 DEF SessionStep
  <2>3. CASE ~Live(i)
    BY <1>4, <2>3 DEF PasswordWrite, Issue, SessionStep
  <2> QED BY <2>2, <2>3
<1>5. ASSUME NEW h \in Handlers, Call(h) PROVE UNCHANGED sessions
  BY <1>5, CallStarts DEF Begin
<1>6. ASSUME NEW h \in Handlers,
             LogoutWrite(h) \/ PayoutWrite(h) \/ PhoneWrite(h) \/ DeleteWrite(h)
      PROVE  UNCHANGED sessions
  BY <1>6 DEF LogoutWrite, PayoutWrite, PhoneWrite, DeleteWrite
<1>7. PartnersRestart \/ (\E t \in Tokens : Expire(t) \/ Prune(t)) \/ UNCHANGED partnersVars
      => UNCHANGED sessions
  BY DEF PartnersRestart, Expire, Prune, partnersVars
<1> QED BY <1>1, <1>2, <1>3, <1>4, <1>5, <1>6, <1>7 DEF PartnersNext, Finish

-----------------------------------------------------------------------------
(* Accounts: the tokens of the SMS check *)

\* Nothing valid is forgotten, and validity does not come back.
TokenStep ==
    /\ used' \in SUBSET Tokens /\ expired' \in SUBSET Tokens
    /\ expired \subseteq expired'
    /\ used \subseteq used' \cup expired'

LEMMA NextTokens == ASSUME PartnersTypeOK, [PartnersNext]_partnersVars PROVE TokenStep
<1>1. CASE UNCHANGED <<used, expired>>
  BY <1>1 DEF TokenStep, PartnersTypeOK
<1>2. ASSUME NEW h \in Handlers, NEW i \in Ids, RegisterWrite(h, i) PROVE TokenStep
  <2>1. local[h].token \in Tokens \cup {Null}
    BY DEF PartnersTypeOK, Local
  <2> QED BY <1>2, <2>1 DEF RegisterWrite, Spent, TokenStep, PartnersTypeOK
<1>3. ASSUME NEW t \in Tokens, Expire(t) \/ Prune(t) PROVE TokenStep
  BY <1>3 DEF Expire, Prune, Prunable, TokenStep, PartnersTypeOK
<1>4. ASSUME NEW h \in Handlers, Call(h) PROVE UNCHANGED <<used, expired>>
  BY <1>4, CallStarts DEF Begin
<1>5. ASSUME NEW h \in Handlers, Finish(h), ~\E i \in Ids : RegisterWrite(h, i)
      PROVE  UNCHANGED <<used, expired>>
  BY <1>5 DEF Finish, LoginWrite, LogoutWrite, PayoutWrite, PhoneWrite, PasswordWrite,
              DeleteWrite, End
<1>6. PartnersRestart \/ UNCHANGED partnersVars => UNCHANGED <<used, expired>>
  BY DEF PartnersRestart, partnersVars
<1> QED BY <1>1, <1>2, <1>3, <1>4, <1>5, <1>6 DEF PartnersNext

-----------------------------------------------------------------------------
(* Accounts: the inductive invariant *)

LEMMA PartnersTypeStep == ASSUME PartnersTypeOK, CallsOK, [PartnersNext]_partnersVars PROVE PartnersTypeOK'
<1>1. partner' \in [Ids -> Partner]
  BY NextTable DEF TableStep
<1>2. sessions' \in SUBSET Session
  BY NextSessions DEF SessionStep, PartnersTypeOK
<1>3. used' \in SUBSET Tokens /\ expired' \in SUBSET Tokens
  BY NextTokens DEF TokenStep
<1>4. /\ local' \in [Handlers -> Local] /\ \A h \in Handlers : LocalOK(local'[h])
      /\ calls' \in Nat
  <2>1. ASSUME NEW h \in Handlers, Call(h)
        PROVE  /\ local' \in [Handlers -> Local] /\ \A k \in Handlers : LocalOK(local'[k])
               /\ calls' \in Nat
    BY <2>1, CallStarts, LocalMove DEF Begin, PartnersTypeOK
  <2>2. ASSUME NEW h \in Handlers, Finish(h)
        PROVE  /\ local' \in [Handlers -> Local] /\ \A k \in Handlers : LocalOK(local'[k])
               /\ calls' \in Nat
    BY <2>2, ContinueEnds, IdleOK, LocalMove DEF PartnersTypeOK
  <2>3. CASE PartnersRestart
    BY <2>3, IdleOK DEF PartnersRestart, PartnersTypeOK
  <2>4. CASE (\E t \in Tokens : Expire(t) \/ Prune(t)) \/ UNCHANGED partnersVars
    BY <2>4 DEF Expire, Prune, PartnersTypeOK, partnersVars
  <2> QED BY <2>1, <2>2, <2>3, <2>4 DEF PartnersNext
<1> QED BY <1>1, <1>2, <1>3, <1>4 DEF PartnersTypeOK, LocalOK

LEMMA BehindStep ==
    ASSUME PartnersTypeOK, CallsOK, VersionsBehind, [PartnersNext]_partnersVars
    PROVE  VersionsBehind'
<1> SUFFICES ASSUME NEW s \in sessions'
             PROVE  partner'[s.sub].state # "unused" /\ s.ver <= partner'[s.sub].version
  BY DEF VersionsBehind
<1>1. CASE s \in sessions
  <2>1. /\ s.sub \in Ids /\ s.ver \in Nat /\ partner[s.sub].state # "unused"
        /\ s.ver <= partner[s.sub].version /\ partner[s.sub].version \in Nat
    BY <1>1 DEF VersionsBehind, PartnersTypeOK, Session, Partner
  <2>2. RowStep(partner[s.sub], partner'[s.sub]) /\ partner'[s.sub].version \in Nat
    BY <2>1, NextTable DEF TableStep, Partner
  <2> QED BY <2>1, <2>2 DEF RowStep
<1>2. CASE s \notin sessions
  <2>1. /\ s \in Session /\ partner'[s.sub].state # "unused"
        /\ s.ver = partner'[s.sub].version
    BY <1>2, NextSessions DEF SessionStep
  <2> QED BY <2>1 DEF Session
<1> QED BY <1>1, <1>2

LEMMA LateStep ==
    ASSUME PartnersTypeOK, CallsOK, VersionsBehind, OnlyLateLoginOutlives, [PartnersNext]_partnersVars
    PROVE  OnlyLateLoginOutlives'
<1> SUFFICES ASSUME NEW s \in sessions', Usable(s)'
             PROVE  s.late \/ s.password = partner'[s.sub].password
  BY DEF OnlyLateLoginOutlives
<1>1. CASE s \in sessions
  <2>1. /\ s.sub \in Ids /\ s.ver \in Nat /\ partner[s.sub].state # "unused"
        /\ s.ver <= partner[s.sub].version /\ partner[s.sub].version \in Nat
    BY <1>1 DEF VersionsBehind, PartnersTypeOK, Session, Partner
  <2>2. RowStep(partner[s.sub], partner'[s.sub]) /\ partner'[s.sub].version \in Nat
    BY <2>1, NextTable DEF TableStep, Partner
  <2>3. Live(s.sub)' /\ partner'[s.sub].version = s.ver
    BY DEF Usable
  <2>4. Usable(s) /\ partner'[s.sub].password = partner[s.sub].password
    BY <2>1, <2>2, <2>3 DEF Usable, Live, RowStep
  <2> QED BY <1>1, <2>4 DEF OnlyLateLoginOutlives
<1>2. CASE s \notin sessions
  BY <1>2, NextSessions DEF SessionStep
<1> QED BY <1>1, <1>2

LEMMA KeptStep == ASSUME PartnersTypeOK, CallsOK, ProofsKept, [PartnersNext]_partnersVars PROVE ProofsKept'
<1> SUFFICES ASSUME NEW i \in Ids, partner'[i].proof # Null
             PROVE  partner'[i].proof \in used' \cup expired'
  BY DEF ProofsKept
<1>1. CASE RowStep(partner[i], partner'[i])
  BY <1>1, NextTokens DEF RowStep, ProofsKept, TokenStep
<1>2. CASE NewPartner(partner'[i])
  BY <1>2 DEF NewPartner
<1> QED BY <1>1, <1>2, NextTable DEF TableStep

LEMMA OneStep ==
    ASSUME PartnersTypeOK, CallsOK, ProofsKept, OneAccountPerProof, [PartnersNext]_partnersVars
    PROVE  OneAccountPerProof'
<1>1. ASSUME NEW i \in Ids, NEW j \in Ids, i # j, partner'[i].proof = partner'[j].proof,
             partner'[i].proof # Null, RowStep(partner[j], partner'[j])
      PROVE  partner'[i].late \/ partner'[j].late
  <2>1. CASE RowStep(partner[i], partner'[i])
    BY <1>1, <2>1 DEF RowStep, OneAccountPerProof
  <2>2. CASE NewPartner(partner'[i])
    BY <1>1, <2>2 DEF RowStep, NewPartner, ProofsKept
  <2> QED BY <2>1, <2>2, NextTable DEF TableStep
<1>2. ASSUME NEW i \in Ids, NEW j \in Ids, i # j
      PROVE  RowStep(partner[i], partner'[i]) \/ RowStep(partner[j], partner'[j])
  <2>1. partner'[i] = partner[i] \/ partner'[j] = partner[j]
    BY <1>2, NextTable DEF TableStep
  <2> QED BY <2>1, SameRow DEF PartnersTypeOK
<1> QED BY <1>1, <1>2 DEF OneAccountPerProof

LEMMA VerifiedStep ==
    ASSUME PartnersTypeOK, CallsOK, VerifiedWasProven, [PartnersNext]_partnersVars PROVE VerifiedWasProven'
<1> SUFFICES ASSUME NEW i \in Ids, Live(i)', partner'[i].verified
             PROVE  /\ partner'[i].proof # Null
                    /\ partner'[i].phone = ContactOf[partner'[i].proof]
  BY DEF VerifiedWasProven
<1>1. CASE RowStep(partner[i], partner'[i])
  BY <1>1 DEF RowStep, VerifiedWasProven, Live
<1>2. CASE NewPartner(partner'[i])
  BY <1>2 DEF NewPartner
<1> QED BY <1>1, <1>2, NextTable DEF TableStep

\* What a call has read stays as good when other calls write.
LEMMA CallKept ==
    ASSUME PartnersTypeOK, TableStep, NEW l \in Local, LocalOK(l), CallOK(l)
    PROVE  CallOK(l)'
<1>1. CASE l.pc \in {"idle", "register"}
  BY <1>1 DEF CallOK
<1>2. CASE l.pc \notin {"idle", "register"}
  <2>1. l.id \in Ids /\ partner[l.id].state # "unused" /\ l.ver \in Nat
    BY <1>2 DEF LocalOK, CallOK, Local
  <2>2. /\ RowStep(partner[l.id], partner'[l.id])
        /\ partner[l.id].version \in Nat /\ partner'[l.id].version \in Nat
    BY <2>1 DEF TableStep, PartnersTypeOK, Partner
  <2>3. partner'[l.id].state # "unused"
    BY <2>1, <2>2 DEF RowStep
  <2>4. l.pc = "phone" /\ partner'[l.id].verified => l.seen = partner'[l.id].phone
    BY <2>2 DEF RowStep, CallOK
  <2>5. l.pc = "login" => /\ l.ver <= partner'[l.id].version
                          /\ l.ver = partner'[l.id].version => l.password = partner'[l.id].password
    BY <2>1, <2>2 DEF RowStep, CallOK
  <2> QED BY <1>2, <2>3, <2>4, <2>5 DEF CallOK
<1> QED BY <1>1, <1>2

LEMMA PartnersCallsStep == ASSUME PartnersTypeOK, CallsOK, [PartnersNext]_partnersVars PROVE CallsOK'
<1>1. CallOK(Idle)'
  BY DEF CallOK, Idle
<1>2. ASSUME NEW h \in Handlers PROVE CallOK(local[h]) /\ \A l : l = local[h] => CallOK(l)'
  BY CallKept, NextTable DEF PartnersTypeOK, CallsOK
<1> DEFINE Good(h) == \E l : local'[h] = l /\ CallOK(l)'
<1>3. ASSUME \A h \in Handlers : Good(h) PROVE CallsOK'
  BY <1>3 DEF CallsOK, CallOK
<1>4. ASSUME NEW h \in Handlers, Call(h) PROVE CallsOK'
  <2>1. PICK l \in Local :
              /\ Begin(h, l) /\ LocalOK(l)
              /\ l.pc \notin {"idle", "register"} => Live(l.id)
              /\ l.pc = "register" /\ l.token # Null => ContactOf[l.token] = l.new
              /\ l.pc = "phone" => l.seen = partner[l.id].phone
              /\ l.pc = "login" => /\ l.ver = partner[l.id].version
                                   /\ l.password = partner[l.id].password
    BY <1>4, CallStarts
  <2>2. UNCHANGED partner /\ local' = [local EXCEPT ![h] = l]
    BY <2>1 DEF Begin
  <2>3. CallOK(l)'
    BY <2>1, <2>2 DEF CallOK, Live, Local
  <2>4. ASSUME NEW k \in Handlers PROVE Good(k)
    BY <1>2, <2>2, <2>3 DEF PartnersTypeOK
  <2> QED BY <1>3, <2>4
<1>5. ASSUME NEW h \in Handlers, Finish(h) PROVE CallsOK'
  <2>1. ASSUME NEW k \in Handlers PROVE Good(k)
    BY <1>1, <1>2, <1>5, ContinueEnds DEF PartnersTypeOK
  <2> QED BY <1>3, <2>1
<1>6. CASE PartnersRestart
  BY <1>1, <1>6, <1>3 DEF PartnersRestart
<1>7. CASE (\E t \in Tokens : Expire(t) \/ Prune(t)) \/ UNCHANGED partnersVars
  BY <1>2, <1>7, <1>3 DEF Expire, Prune, partnersVars
<1> QED BY <1>4, <1>5, <1>6, <1>7 DEF PartnersNext

LEMMA PartnersInvInit == PartnersInit => IInv
<1> SUFFICES ASSUME PartnersInit PROVE IInv
  OBVIOUS
<1>1. PartnersTypeOK
  <2>1. Unused \in Partner
    BY DEF Unused, Partner
  <2> QED BY <2>1, IdleOK DEF PartnersInit, PartnersTypeOK
<1>2. VersionsBehind /\ OnlyLateLoginOutlives
  BY DEF PartnersInit, VersionsBehind, OnlyLateLoginOutlives
<1>3. ProofsKept /\ OneAccountPerProof /\ VerifiedWasProven
  BY DEF PartnersInit, ProofsKept, OneAccountPerProof, VerifiedWasProven, Unused, Live
<1>4. CallsOK
  BY DEF PartnersInit, CallsOK, CallOK, Idle
<1> QED BY <1>1, <1>2, <1>3, <1>4 DEF IInv

LEMMA PartnersInvariance == PartnersSpec => []IInv
<1>1. IInv /\ [PartnersNext]_partnersVars => IInv'
  BY PartnersTypeStep, BehindStep, LateStep, KeptStep, OneStep, VerifiedStep, PartnersCallsStep
     DEF IInv
<1> QED BY PartnersInvInit, <1>1, PTL DEF PartnersSpec

\* The tables, the access tokens and the calls under way are well-formed.
THEOREM PartnersTypeCorrect == PartnersSpec => []PartnersTypeOK
<1>1. IInv => PartnersTypeOK
  BY DEF IInv
<1> QED BY PartnersInvariance, <1>1, PTL

\* A number shown as verified was proved at registration, however profile changes overlap.
THEOREM VerifiedIsProven == PartnersSpec => []VerifiedWasProven
<1>1. IInv => VerifiedWasProven
  BY DEF IInv
<1> QED BY PartnersInvariance, <1>1, PTL

\* One SMS check makes a second partner only when committed after the check had expired.
THEOREM OneCheckOnePartner == PartnersSpec => []OneAccountPerProof
<1>1. IInv => OneAccountPerProof
  BY DEF IInv
<1> QED BY PartnersInvariance, <1>1, PTL

\* A session opened with an old password works only if its login overlapped the change.
THEOREM OldPasswordNeedsOverlap == PartnersSpec => []OnlyLateLoginOutlives
<1>1. IInv => OnlyLateLoginOutlives
  BY DEF IInv
<1> QED BY PartnersInvariance, <1>1, PTL

-----------------------------------------------------------------------------
(* Referrals: rows *)

LEMMA RowTypes ==
    /\ NoRow \in Row /\ \A p \in Partners : NewRow(p) \in Row
    /\ IdleCall \in CallState
BY DEF NoRow, NewRow, Row, IdleCall, CallState, Status

\* What a write makes of a row: the status that was asked for, with its stamps.
LEMMA WrittenRow ==
    ASSUME NEW h \in Calls, call[h] \in CallState, NEW row \in Row
    PROVE  /\ Written(h, row) \in Row
           /\ Written(h, row).status = call[h].to
           /\ Written(h, row).partner = row.partner
           /\ call[h].to \in {"PLACED", "PAID"} => Written(h, row).placed = TRUE
           /\ call[h].to = "PAID" => Written(h, row).paid = TRUE
<1> DEFINE c == call[h]
<1>1. c.to \in Status /\ c.cents \in Nat /\ c.seen.reward \in Nat
  BY DEF CallState, Row
<1>2. CASE c.to = "PLACED"
  BY <1>1, <1>2 DEF Written, Row
<1>3. CASE c.to = "PAID"
  BY <1>1, <1>3 DEF Written, Row
<1>4. CASE c.to \in {"REGISTERED", "IN_PLACEMENT"} /\ c.by = "admin"
  BY <1>1, <1>4 DEF Written, Row
<1>5. CASE c.to \in {"REGISTERED", "IN_PLACEMENT"} /\ c.by # "admin"
  BY <1>1, <1>5 DEF Written, Row
<1> QED BY <1>1, <1>2, <1>3, <1>4, <1>5 DEF Status

\* Every event is a call of fortschreiben.
Steps ==
    \/ \E u \in Users : (\E p \in Partners : LinkStart(u, p)) \/ LinkUpsert(u) \/ LinkStamp(u)
    \/ \E h \in Calls :
           \/ \E u \in Users, to \in Status : Progress(h, u, to) \/ SetReferralStatus(h, u, to)
           \/ PriceCached(h) \/ PriceQuery(h) \/ Write(h) \/ CallFails(h)
    \/ \E p \in Partners : DeletePartner(p)
    \/ \E c \in Prices \cup {None} : PriceChange(c)
    \/ CacheExpires
    \/ Restart

LEMMA NextSteps == Next => Steps
<1>1. ASSUME NEW h \in Calls, NEW u \in Users, Event(h, u)
      PROVE  \E to \in Status : Progress(h, u, to)
  BY <1>1 DEF Event, Apply, AcceptOffer, SetApplicationStatus, Status
<1> QED BY <1>1 DEF Next, Steps, Continue

\* A step of the referral table: nothing, a row that is dropped with its partner,
\* a row that is created, or a row that one call writes.
Created(u) == LinkUpsert(u) /\ Creditable(u) /\ ~Present(u) /\ ref'[u] = NewRow(link[u].p)
WrittenBy(h, u) ==
    Write(h) /\ call[h].u = u /\ Present(u) /\ ref'[u] = Written(h, ref[u])
Dropped(u) == \E p \in partners : DeletePartner(p) /\ ref[u].partner = p /\ ref'[u] = NoRow

LEMMA RefStep ==
    ASSUME TypeOK, [Next]_vars
    PROVE  /\ ref' \in [Users -> Row]
           /\ \A u \in Users : \/ ref'[u] = ref[u] \/ Created(u) \/ Dropped(u)
                               \/ \E h \in Calls : WrittenBy(h, u)
<1> USE DEF TypeOK
<1>1. CASE UNCHANGED ref
  BY <1>1
<1>2. ASSUME NEW w \in Users, LinkUpsert(w)
      PROVE  ref' \in [Users -> Row] /\ \A u \in Users : ref'[u] = ref[u] \/ Created(u)
  <2>1. CASE UNCHANGED ref
    BY <2>1
  <2>2. CASE Creditable(w) /\ ~Present(w) /\ ref' = [ref EXCEPT ![w] = NewRow(link[w].p)]
    <3>1. link[w].p \in Partners
      BY <2>2 DEF Creditable
    <3> QED BY <1>2, <2>2, <3>1, RowTypes DEF Created
  <2> QED BY <1>2, <2>1, <2>2 DEF LinkUpsert
<1>3. ASSUME NEW h \in Calls, Write(h)
      PROVE  ref' \in [Users -> Row] /\ \A u \in Users : ref'[u] = ref[u] \/ WrittenBy(h, u)
  <2> DEFINE w == call[h].u
  <2>1. w \in Users
    BY <1>3 DEF Write
  <2>2. CASE UNCHANGED ref
    BY <2>2
  <2>3. CASE Present(w) /\ ref' = [ref EXCEPT ![w] = Written(h, ref[w])]
    <3>1. Written(h, ref[w]) \in Row
      BY <2>1, WrittenRow
    <3> QED BY <1>3, <2>1, <2>3, <3>1 DEF WrittenBy
  <2>4. ref' = IF Present(w) THEN [ref EXCEPT ![w] = Written(h, ref[w])] ELSE ref
    BY <1>3, <2>1 DEF Write
  <2> QED BY <2>2, <2>3, <2>4
<1>4. ASSUME NEW p \in Partners, DeletePartner(p)
      PROVE  ref' \in [Users -> Row] /\ \A u \in Users : ref'[u] = ref[u] \/ Dropped(u)
  BY <1>4, RowTypes DEF DeletePartner, Dropped
<1>5. ASSUME NEW u \in Users, (\E p \in Partners : LinkStart(u, p)) \/ LinkStamp(u)
      PROVE  UNCHANGED ref
  BY <1>5 DEF LinkStart, LinkStamp
<1>6. ASSUME NEW h \in Calls,
             \/ \E u \in Users, to \in Status : Progress(h, u, to) \/ SetReferralStatus(h, u, to)
             \/ PriceCached(h) \/ PriceQuery(h) \/ CallFails(h)
      PROVE  UNCHANGED ref
  BY <1>6 DEF Progress, SetReferralStatus, Read, PriceCached, PriceQuery, CallFails
<1>7. \/ (\E c \in Prices \cup {None} : PriceChange(c)) \/ CacheExpires \/ Restart
      \/ UNCHANGED vars
      => UNCHANGED ref
  BY DEF PriceChange, CacheExpires, Restart, vars
<1> QED BY <1>1, <1>2, <1>3, <1>4, <1>5, <1>6, <1>7, NextSteps DEF Steps

-----------------------------------------------------------------------------
(* Referrals: the type invariant *)

StatusCallsOK == /\ call \in [Calls -> CallState]
           /\ \A h \in Calls : call[h].pc # "idle" => call[h].u \in Users

LEMMA CallMove ==
    ASSUME StatusCallsOK, NEW h \in Calls, NEW s \in CallState, s.pc # "idle" => s.u \in Users,
           call' = [call EXCEPT ![h] = s]
    PROVE  StatusCallsOK'
<1>1. call' \in [Calls -> CallState]
  BY DEF StatusCallsOK
<1>2. ASSUME NEW g \in Calls, call'[g].pc # "idle" PROVE call'[g].u \in Users
  <2>1. CASE g = h
    BY <1>2, <2>1 DEF StatusCallsOK
  <2>2. CASE g # h
    BY <1>2, <2>2 DEF StatusCallsOK
  <2> QED BY <2>1, <2>2
<1> QED BY <1>1, <1>2 DEF StatusCallsOK

LEMMA PriceIsNat == TypeOK => PriceOrFallback \in Prices \cup {Fallback} /\ PriceOrFallback \in Nat
BY ReferralAssumption DEF TypeOK, PriceOrFallback

LEMMA StatusCallsStep == ASSUME TypeOK, [Next]_vars PROVE StatusCallsOK'
<1> USE DEF TypeOK
<1>0. StatusCallsOK
  BY DEF StatusCallsOK
<1>1. CASE UNCHANGED call
  BY <1>0, <1>1 DEF StatusCallsOK
<1>2. ASSUME NEW h \in Calls, NEW u \in Users, NEW to \in Status, NEW by \in {"event", "admin"},
             Read(h, u, by, to)
      PROVE  StatusCallsOK'
  <2> DEFINE s == [pc |-> IF NeedsPrice(ref[u], to) THEN "price" ELSE "write",
                   by |-> by, u |-> u, to |-> to, seen |-> ref[u], cents |-> 0]
  <2>1. s \in CallState /\ s.u \in Users
    BY DEF CallState
  <2> QED BY <1>0, <1>2, <2>1, CallMove DEF Read
<1>3. ASSUME NEW h \in Calls, PriceCached(h) \/ PriceQuery(h) PROVE StatusCallsOK'
  <2>1. PICK cents \in Nat : call' = [call EXCEPT ![h] = [call[h] EXCEPT !.pc = "write", !.cents = cents]]
    <3>1. CASE PriceCached(h)
      BY <3>1, ReferralAssumption DEF PriceCached
    <3>2. CASE PriceQuery(h)
      BY <3>2, PriceIsNat DEF PriceQuery
    <3> QED BY <1>3, <3>1, <3>2
  <2> DEFINE s == [call[h] EXCEPT !.pc = "write", !.cents = cents]
  <2>2. call[h].pc = "price"
    BY <1>3 DEF PriceCached, PriceQuery
  <2>3. s \in CallState /\ s.u \in Users
    BY <2>2 DEF CallState
  <2> QED BY <1>0, <2>1, <2>3, CallMove
<1>4. ASSUME NEW h \in Calls, Write(h) \/ CallFails(h) PROVE StatusCallsOK'
  BY <1>0, <1>4, CallMove, RowTypes DEF Write, CallFails, IdleCall
<1>5. Restart => StatusCallsOK'
  BY RowTypes DEF Restart, StatusCallsOK, IdleCall
<1>6. ASSUME NEW u \in Users,
             (\E p \in Partners : LinkStart(u, p)) \/ LinkUpsert(u) \/ LinkStamp(u)
      PROVE  UNCHANGED call
  BY <1>6 DEF LinkStart, LinkUpsert, LinkStamp
<1>7. \/ (\E p \in Partners : DeletePartner(p)) \/ (\E c \in Prices \cup {None} : PriceChange(c))
      \/ CacheExpires \/ UNCHANGED vars
      => UNCHANGED call
  BY DEF DeletePartner, PriceChange, CacheExpires, vars
<1>8. ASSUME NEW h \in Calls, NEW u \in Users, NEW to \in Status,
             Progress(h, u, to) \/ SetReferralStatus(h, u, to)
      PROVE  StatusCallsOK'
  BY <1>1, <1>2, <1>8 DEF Progress, SetReferralStatus
<1> QED BY <1>1, <1>3, <1>4, <1>5, <1>6, <1>7, <1>8, NextSteps DEF Steps

LEMMA LinksStep ==
    ASSUME TypeOK, [Next]_vars
    PROVE  link' \in [Users -> Link] /\ referredBy' \in [Users -> Partners \cup {None}]
<1> USE DEF TypeOK, Link
<1>1. ASSUME NEW u \in Users, NEW p \in Partners, LinkStart(u, p)
      PROVE  link' \in [Users -> Link] /\ UNCHANGED referredBy
  BY <1>1 DEF LinkStart
<1>2. ASSUME NEW u \in Users, LinkUpsert(u) PROVE link' \in [Users -> Link] /\ UNCHANGED referredBy
  BY <1>2 DEF LinkUpsert
<1>3. ASSUME NEW u \in Users, LinkStamp(u)
      PROVE  link' \in [Users -> Link] /\ referredBy' \in [Users -> Partners \cup {None}]
  BY <1>3 DEF LinkStamp
<1>4. Restart => link' \in [Users -> Link] /\ UNCHANGED referredBy
  BY DEF Restart
<1>5. ASSUME NEW h \in Calls,
             \/ \E u \in Users, to \in Status : Progress(h, u, to) \/ SetReferralStatus(h, u, to)
             \/ PriceCached(h) \/ PriceQuery(h) \/ Write(h) \/ CallFails(h)
      PROVE  UNCHANGED <<link, referredBy>>
  BY <1>5 DEF Progress, SetReferralStatus, Read, PriceCached, PriceQuery, Write, CallFails
<1>6. \/ (\E p \in Partners : DeletePartner(p)) \/ (\E c \in Prices \cup {None} : PriceChange(c))
      \/ CacheExpires \/ UNCHANGED vars
      => UNCHANGED <<link, referredBy>>
  BY DEF DeletePartner, PriceChange, CacheExpires, vars
<1> QED BY <1>1, <1>2, <1>3, <1>4, <1>5, <1>6, NextSteps DEF Steps

LEMMA SettingsStep ==
    ASSUME TypeOK, [Next]_vars
    PROVE  /\ partners' \in SUBSET Partners
           /\ price' \in Prices \cup {None} /\ cache' \in Prices \cup {Fallback, None}
<1> USE DEF TypeOK
<1>1. ASSUME NEW h \in Calls, PriceQuery(h)
      PROVE  UNCHANGED <<partners, price>> /\ cache' \in Prices \cup {Fallback, None}
  BY <1>1, PriceIsNat DEF PriceQuery
<1>2. ASSUME NEW h \in Calls,
             \/ \E u \in Users, to \in Status : Progress(h, u, to) \/ SetReferralStatus(h, u, to)
             \/ PriceCached(h) \/ Write(h) \/ CallFails(h)
      PROVE  UNCHANGED <<partners, price, cache>>
  BY <1>2 DEF Progress, SetReferralStatus, Read, PriceCached, Write, CallFails
<1>3. ASSUME NEW u \in Users,
             (\E p \in Partners : LinkStart(u, p)) \/ LinkUpsert(u) \/ LinkStamp(u)
      PROVE  UNCHANGED <<partners, price, cache>>
  BY <1>3 DEF LinkStart, LinkUpsert, LinkStamp
<1>4. (\E p \in Partners : DeletePartner(p))
      => partners' \in SUBSET Partners /\ UNCHANGED <<price, cache>>
  BY DEF DeletePartner
<1>5. (\E c \in Prices \cup {None} : PriceChange(c))
      => price' \in Prices \cup {None} /\ UNCHANGED <<partners, cache>>
  BY DEF PriceChange
<1>6. CacheExpires \/ Restart => cache' = None /\ UNCHANGED <<partners, price>>
  BY DEF CacheExpires, Restart
<1>7. UNCHANGED vars => UNCHANGED <<partners, price, cache>>
  BY DEF vars
<1> QED BY <1>1, <1>2, <1>3, <1>4, <1>5, <1>6, <1>7, NextSteps DEF Steps

LEMMA DueStep == ASSUME TypeOK, [Next]_vars PROVE due' \subseteq Users
<1> USE DEF TypeOK, Behind
<1>1. ASSUME NEW h \in Calls, NEW u \in Users, NEW to \in Status,
             Progress(h, u, to) \/ SetReferralStatus(h, u, to)
      PROVE  due' \subseteq Users
  BY <1>1 DEF Progress, SetReferralStatus
<1>2. ASSUME NEW h \in Calls, PriceCached(h) \/ PriceQuery(h) \/ Write(h) \/ CallFails(h)
      PROVE  due' \subseteq Users
  BY <1>2 DEF PriceCached, PriceQuery, Write, CallFails
<1>3. ASSUME NEW u \in Users,
             (\E p \in Partners : LinkStart(u, p)) \/ LinkUpsert(u) \/ LinkStamp(u)
      PROVE  UNCHANGED due
  BY <1>3 DEF LinkStart, LinkUpsert, LinkStamp
<1>4. \/ (\E p \in Partners : DeletePartner(p)) \/ (\E c \in Prices \cup {None} : PriceChange(c))
      \/ CacheExpires \/ Restart \/ UNCHANGED vars
      => due' \subseteq Users
  BY DEF DeletePartner, PriceChange, CacheExpires, Restart, vars
<1> QED BY <1>1, <1>2, <1>3, <1>4, NextSteps DEF Steps

LEMMA TypeStep == TypeOK /\ [Next]_vars => TypeOK'
BY RefStep, StatusCallsStep, LinksStep, SettingsStep, DueStep DEF TypeOK, StatusCallsOK

LEMMA TypeInit == Init => TypeOK
BY RowTypes DEF Init, TypeOK, Link, IdleCall

\* Every referral, price and call under way is well formed in every reachable
\* state of PartnerService; a call about to write knows the reward it writes.
THEOREM TypeCorrect == Spec => []TypeOK
BY TypeInit, TypeStep, PTL DEF Spec

-----------------------------------------------------------------------------
(* Referrals: status and stamps *)

LEMMA StampsStep == ASSUME TypeOK, StampsMatchStatus, [Next]_vars PROVE StampsMatchStatus'
<1> SUFFICES ASSUME NEW u \in Users
             PROVE  /\ ref'[u].status \in {"PLACED", "PAID"} => ref'[u].placed
                    /\ ref'[u].status = "PAID" => ref'[u].paid
  BY DEF StampsMatchStatus
<1>1. CASE ref'[u] = ref[u]
  BY <1>1 DEF StampsMatchStatus
<1>2. CASE Created(u)
  BY <1>2 DEF Created, NewRow, NoRow
<1>3. CASE Dropped(u)
  BY <1>3 DEF Dropped, NoRow
<1>4. ASSUME NEW h \in Calls, WrittenBy(h, u)
      PROVE  /\ ref'[u].status \in {"PLACED", "PAID"} => ref'[u].placed
             /\ ref'[u].status = "PAID" => ref'[u].paid
  <2>1. ref[u] \in Row /\ call[h] \in CallState
    BY DEF TypeOK
  <2>2. /\ ref'[u].status = call[h].to
        /\ call[h].to \in {"PLACED", "PAID"} => ref'[u].placed = TRUE
        /\ call[h].to = "PAID" => ref'[u].paid = TRUE
    <3> DEFINE w == Written(h, ref[u])
    <3>1. /\ w.status = call[h].to
          /\ call[h].to \in {"PLACED", "PAID"} => w.placed = TRUE
          /\ call[h].to = "PAID" => w.paid = TRUE
      BY <2>1, WrittenRow
    <3>2. ref'[u] = w
      BY <1>4 DEF WrittenBy
    <3> HIDE DEF w
    <3> QED BY <3>1, <3>2
  <2>3. ASSUME ref'[u].status \in {"PLACED", "PAID"} PROVE ref'[u].placed
    <3>1. ref'[u].placed = TRUE
      BY <2>2, <2>3
    <3> QED BY <3>1
  <2>4. ASSUME ref'[u].status = "PAID" PROVE ref'[u].paid
    <3>1. ref'[u].paid = TRUE
      BY <2>2, <2>4
    <3> QED BY <3>1
  <2> QED BY <2>3, <2>4
<1> QED BY <1>1, <1>2, <1>3, <1>4, RefStep

\* However events, administrators, deletions and restarts overlap, a row counted
\* as placed has its date, and a paid one the date of its payment.
THEOREM StampsAreRight == Spec => []StampsMatchStatus
<1>1. Init => StampsMatchStatus
  <2> SUFFICES ASSUME Init, NEW u \in Users PROVE ref[u].status = "REGISTERED"
    BY DEF StampsMatchStatus
  <2> QED BY DEF Init, NoRow
<1>2. TypeOK /\ StampsMatchStatus /\ [Next]_vars => StampsMatchStatus'
  BY StampsStep
<1> QED BY <1>1, <1>2, TypeCorrect, PTL DEF Spec

-----------------------------------------------------------------------------
(* Referrals: whose it is *)

\* What a step does to a registration in its last part.
LEMMA LinkStep ==
    ASSUME TypeOK, [Next]_vars, NEW u \in Users
    PROVE  \/ link'[u] = link[u] /\ referredBy'[u] = referredBy[u]
           \/ /\ \E p \in Partners : LinkStart(u, p)
              /\ link[u].pc = "new" /\ link'[u].pc \in {"upsert", "done"}
              /\ referredBy'[u] = referredBy[u] /\ UNCHANGED ref
           \/ /\ LinkUpsert(u) /\ link[u].pc = "upsert" /\ link'[u].p = link[u].p
              /\ link'[u].pc \in {"stamp", "done"} /\ referredBy'[u] = referredBy[u]
           \/ /\ LinkStamp(u) /\ link[u].pc = "stamp" /\ link'[u].pc = "done"
              /\ referredBy'[u] = link[u].p /\ UNCHANGED ref
           \/ /\ Restart /\ referredBy'[u] = referredBy[u]
              /\ link'[u] = link[u] \/ link'[u].pc = "done"
<1> USE DEF TypeOK, Link
<1>1. ASSUME NEW w \in Users, NEW p \in Partners, LinkStart(w, p)
      PROVE  \/ link'[u] = link[u] /\ referredBy'[u] = referredBy[u]
             \/ /\ w = u /\ link[u].pc = "new" /\ link'[u].pc \in {"upsert", "done"}
                /\ referredBy'[u] = referredBy[u] /\ UNCHANGED ref
  BY <1>1 DEF LinkStart
<1>2. ASSUME NEW w \in Users, LinkUpsert(w)
      PROVE  \/ link'[u] = link[u] /\ referredBy'[u] = referredBy[u]
             \/ /\ w = u /\ link[u].pc = "upsert" /\ link'[u].p = link[u].p
                /\ link'[u].pc \in {"stamp", "done"} /\ referredBy'[u] = referredBy[u]
  BY <1>2 DEF LinkUpsert
<1>3. ASSUME NEW w \in Users, LinkStamp(w)
      PROVE  \/ link'[u] = link[u] /\ referredBy'[u] = referredBy[u]
             \/ /\ w = u /\ link[u].pc = "stamp" /\ link'[u].pc = "done"
                /\ referredBy'[u] = link[u].p /\ UNCHANGED ref
  BY <1>3 DEF LinkStamp
<1>4. Restart => /\ referredBy'[u] = referredBy[u]
                 /\ link'[u] = link[u] \/ link'[u].pc = "done"
  BY DEF Restart
<1>5. ASSUME NEW h \in Calls,
             \/ \E w \in Users, to \in Status : Progress(h, w, to) \/ SetReferralStatus(h, w, to)
             \/ PriceCached(h) \/ PriceQuery(h) \/ Write(h) \/ CallFails(h)
      PROVE  UNCHANGED <<link, referredBy>>
  BY <1>5 DEF Progress, SetReferralStatus, Read, PriceCached, PriceQuery, Write, CallFails
<1>6. \/ (\E p \in Partners : DeletePartner(p)) \/ (\E c \in Prices \cup {None} : PriceChange(c))
      \/ CacheExpires \/ UNCHANGED vars
      => UNCHANGED <<link, referredBy>>
  BY DEF DeletePartner, PriceChange, CacheExpires, vars
<1> QED BY <1>1, <1>2, <1>3, <1>4, <1>5, <1>6, NextSteps DEF Steps

\* A row that appears is the registration's own; one that stays keeps its partner.
LEMMA PartnerStep ==
    ASSUME TypeOK, [Next]_vars, NEW u \in Users, Present(u)'
    PROVE  \/ Present(u) /\ ref'[u].partner = ref[u].partner
           \/ LinkUpsert(u) /\ Creditable(u) /\ ref'[u].partner = link[u].p
<1>1. CASE ref'[u] = ref[u]
  BY <1>1 DEF Present
<1>2. CASE Created(u)
  BY <1>2 DEF Created, NewRow, NoRow
<1>3. ~Dropped(u)
  BY DEF Dropped, NoRow, Present
<1>4. ASSUME NEW h \in Calls, WrittenBy(h, u) PROVE Present(u) /\ ref'[u].partner = ref[u].partner
  <2>1. ref[u] \in Row /\ call[h] \in CallState
    BY DEF TypeOK
  <2>2. Written(h, ref[u]).partner = ref[u].partner
    BY <2>1, WrittenRow
  <2> QED BY <1>4, <2>2 DEF WrittenBy
<1> QED BY <1>1, <1>2, <1>3, <1>4, RefStep

\* Partners only go by deleting their account, and their rows go with them.
LEMMA CascadeStep ==
    ASSUME TypeOK, [Next]_vars, NEW u \in Users, Present(u)', ref[u].partner \in partners,
           ref'[u].partner = ref[u].partner
    PROVE  ref'[u].partner \in partners'
<1>1. CASE UNCHANGED partners
  BY <1>1
<1>2. ASSUME NEW p \in Partners, DeletePartner(p) PROVE ref'[u].partner \in partners'
  <2>1. ref[u].partner # p
    BY <1>2 DEF DeletePartner, Present, NoRow, TypeOK
  <2> QED BY <1>2, <2>1 DEF DeletePartner
<1>3. ASSUME NEW h \in Calls,
             \/ \E w \in Users, to \in Status : Progress(h, w, to) \/ SetReferralStatus(h, w, to)
             \/ PriceCached(h) \/ PriceQuery(h) \/ Write(h) \/ CallFails(h)
      PROVE  UNCHANGED partners
  BY <1>3 DEF Progress, SetReferralStatus, Read, PriceCached, PriceQuery, Write, CallFails
<1>4. ASSUME NEW w \in Users,
             (\E p \in Partners : LinkStart(w, p)) \/ LinkUpsert(w) \/ LinkStamp(w)
      PROVE  UNCHANGED partners
  BY <1>4 DEF LinkStart, LinkUpsert, LinkStamp
<1>5. \/ (\E c \in Prices \cup {None} : PriceChange(c)) \/ CacheExpires \/ Restart
      \/ UNCHANGED vars
      => UNCHANGED partners
  BY DEF PriceChange, CacheExpires, Restart, vars
<1> QED BY <1>1, <1>2, <1>3, <1>4, <1>5, NextSteps DEF Steps

CreditInv == TypeOK /\ LinkInv /\ CreditKnown

LEMMA LinkInvStep == ASSUME CreditInv, [Next]_vars PROVE LinkInv'
<1> SUFFICES ASSUME NEW u \in Users
             PROVE  /\ link'[u].pc \in {"new", "upsert"} => ~Present(u)'
                    /\ link'[u].pc # "done" => referredBy'[u] = None
                    /\ link'[u].pc = "stamp" /\ Present(u)' => ref'[u].partner = link'[u].p
  BY DEF LinkInv
<1>1. /\ link[u].pc \in {"new", "upsert"} => ~Present(u)
      /\ link[u].pc # "done" => referredBy[u] = None
      /\ link[u].pc = "stamp" /\ Present(u) => ref[u].partner = link[u].p
  BY DEF CreditInv, LinkInv
<1>2. ASSUME Present(u)'
      PROVE  \/ Present(u) /\ ref'[u].partner = ref[u].partner
             \/ LinkUpsert(u) /\ link[u].pc = "upsert" /\ ref'[u].partner = link[u].p
  BY <1>2, PartnerStep DEF CreditInv, LinkUpsert
<1>3. CASE LinkUpsert(u)
  <2>1. link'[u].p = link[u].p /\ link'[u].pc \in {"stamp", "done"} /\ referredBy'[u] = referredBy[u]
    BY <1>3 DEF LinkUpsert, CreditInv, TypeOK, Link
  <2>2. link[u].pc = "upsert"
    BY <1>3 DEF LinkUpsert
  <2> QED BY <1>1, <1>2, <2>1, <2>2
<1>4. CASE ~LinkUpsert(u)
  <2>1. Present(u)' => Present(u) /\ ref'[u].partner = ref[u].partner
    BY <1>2, <1>4
  <2>2. CASE link'[u] = link[u] /\ referredBy'[u] = referredBy[u]
    BY <1>1, <2>1, <2>2
  <2>3. CASE link[u].pc = "new" /\ link'[u].pc \in {"upsert", "done"} /\ referredBy'[u] = referredBy[u]
    BY <1>1, <2>1, <2>3
  <2>4. CASE link'[u].pc = "done"
    BY <2>4
  <2>5. TypeOK
    BY DEF CreditInv
  <2> QED BY <1>4, <2>2, <2>3, <2>4, <2>5, LinkStep
<1> QED BY <1>3, <1>4

LEMMA CreditStep == ASSUME CreditInv, [Next]_vars PROVE CreditKnown'
<1> SUFFICES ASSUME NEW u \in Users, Present(u)'
             PROVE  ref'[u].partner \in partners' /\ referredBy'[u] \in {None, ref'[u].partner}
  BY DEF CreditKnown
<1>1. TypeOK
  BY DEF CreditInv
<1>2. CASE LinkUpsert(u) /\ Creditable(u) /\ ref'[u].partner = link[u].p
  <2>1. UNCHANGED <<partners, referredBy>> /\ link[u].pc = "upsert"
    BY <1>2 DEF LinkUpsert
  <2>2. referredBy[u] = None
    BY <2>1 DEF CreditInv, LinkInv
  <2> QED BY <1>2, <2>1, <2>2 DEF Creditable
<1>3. CASE Present(u) /\ ref'[u].partner = ref[u].partner
  <2>1. ref[u].partner \in partners /\ referredBy[u] \in {None, ref[u].partner}
    BY <1>3 DEF CreditInv, CreditKnown
  <2>2. ref'[u].partner \in partners'
    BY <1>1, <1>3, <2>1, CascadeStep
  <2>3. referredBy'[u] = referredBy[u] \/ (link[u].pc = "stamp" /\ referredBy'[u] = link[u].p)
    BY <1>1, LinkStep
  <2>4. link[u].pc = "stamp" => ref[u].partner = link[u].p
    BY <1>3 DEF CreditInv, LinkInv
  <2> QED BY <1>3, <2>1, <2>2, <2>3, <2>4
<1> QED BY <1>1, <1>2, <1>3, PartnerStep

\* A referral is credited to the partner the user names, who still has an account,
\* whatever deletions and restarts fall between the steps of a registration.
THEOREM CreditIsKnown == Spec => []CreditKnown
<1>1. Init => CreditInv
  <2> SUFFICES ASSUME Init PROVE LinkInv /\ CreditKnown
    BY TypeInit DEF CreditInv
  <2>1. ASSUME NEW u \in Users PROVE ~Present(u) /\ referredBy[u] = None
    BY DEF Init, Present, NoRow
  <2> QED BY <2>1 DEF LinkInv, CreditKnown
<1>2. CreditInv /\ [Next]_vars => CreditInv'
  BY TypeStep, LinkInvStep, CreditStep DEF CreditInv
<1>3. CreditInv => CreditKnown
  BY DEF CreditInv
<1> QED BY <1>1, <1>2, <1>3, PTL DEF Spec

-----------------------------------------------------------------------------
(* Referrals: forwards only *)

LEMMA DecidedStep == ASSUME TypeOK, Decided, [Next]_vars PROVE Decided'
<1> DEFINE D(c) == c.pc # "idle" => IF c.by = "event" THEN Raises(c.seen, c.to)
                                                      ELSE Allowed(c.seen, c.to)
<1> SUFFICES ASSUME NEW g \in Calls PROVE D(call'[g])
  BY DEF Decided, Raises, Allowed
<1>0. D(call[g]) /\ call \in [Calls -> CallState]
  BY DEF Decided, TypeOK
<1>1. CASE call'[g] = call[g]
  BY <1>0, <1>1
<1>2. ASSUME NEW h \in Calls, NEW u \in Users, NEW to \in Status,
             Progress(h, u, to) \/ SetReferralStatus(h, u, to)
      PROVE  D(call'[g])
  <2>0. CASE UNCHANGED call
    BY <1>1, <2>0
  <2>1. CASE g = h /\ Progress(h, u, to) /\ call' # call
    <3>1. /\ call'[h].by = "event" /\ call'[h].seen = ref[u] /\ call'[h].to = to
          /\ Raises(ref[u], to)
      BY <1>0, <2>1 DEF Progress, Read
    <3> QED BY <2>1, <3>1
  <2>2. CASE g = h /\ SetReferralStatus(h, u, to)
    <3>1. /\ call'[h].by = "admin" /\ call'[h].seen = ref[u] /\ call'[h].to = to
          /\ Allowed(ref[u], to)
      BY <1>0, <2>2 DEF SetReferralStatus, Read
    <3> QED BY <2>2, <3>1
  <2>3. CASE g # h
    <3>1. call'[g] = call[g]
      BY <1>0, <1>2, <2>3 DEF Progress, SetReferralStatus, Read
    <3> QED BY <1>1, <3>1
  <2> QED BY <1>2, <2>0, <2>1, <2>2, <2>3
<1>3. ASSUME NEW h \in Calls, PriceCached(h) \/ PriceQuery(h) PROVE D(call'[g])
  <2>1. CASE g # h
    <3>1. call'[g] = call[g]
      BY <1>0, <1>3, <2>1 DEF PriceCached, PriceQuery
    <3> QED BY <1>1, <3>1
  <2>2. CASE g = h
    <3>1. /\ call'[g].by = call[g].by /\ call'[g].seen = call[g].seen /\ call'[g].to = call[g].to
          /\ call[g].pc # "idle"
      BY <1>0, <1>3, <2>2 DEF PriceCached, PriceQuery, CallState
    <3> QED BY <1>0, <3>1
  <2> QED BY <2>1, <2>2
<1>4. ASSUME NEW h \in Calls, Write(h) \/ CallFails(h) PROVE D(call'[g])
  <2>1. call'[g] = call[g] \/ call'[g].pc = "idle"
    BY <1>0, <1>4 DEF Write, CallFails, IdleCall
  <2> QED BY <1>1, <2>1
<1>5. ASSUME Restart PROVE D(call'[g])
  BY <1>5 DEF Restart, IdleCall
<1>6. ASSUME NEW u \in Users,
             (\E p \in Partners : LinkStart(u, p)) \/ LinkUpsert(u) \/ LinkStamp(u)
      PROVE  call'[g] = call[g]
  BY <1>6 DEF LinkStart, LinkUpsert, LinkStamp
<1>7. \/ (\E p \in Partners : DeletePartner(p)) \/ (\E c \in Prices \cup {None} : PriceChange(c))
      \/ CacheExpires \/ UNCHANGED vars
      => call'[g] = call[g]
  BY DEF DeletePartner, PriceChange, CacheExpires, vars
<1> HIDE DEF D
<1> QED BY <1>1, <1>2, <1>3, <1>4, <1>5, <1>6, <1>7, NextSteps DEF Steps

LEMMA Forwards ==
    ASSUME TypeOK, Decided, StampsMatchStatus, [Next]_vars, NEW u \in Users,
           Present(u), Present(u)', ~ReadStale(u), rang[ref'[u].status] < rang[ref[u].status]
    PROVE  /\ ref[u].status # "PAID"
           /\ \E h \in Calls : call[h].by = "admin" /\ call[h].u = u /\ call'[h].pc = "idle"
<1>1. ref[u] \in Row /\ ref'[u] \in Row /\ \A s \in Status : rang[s] \in Nat
  BY RefStep DEF TypeOK, rang, Status
<1>2. ref'[u].status # ref[u].status
  <2>1. ref[u].status \in Status /\ ref'[u].status \in Status
    BY <1>1 DEF Row
  <2> QED BY <1>1, <2>1
<1>3. ~Created(u) /\ ~Dropped(u)
  BY DEF Created, Dropped, NoRow, Present
<1>4. PICK h \in Calls : WrittenBy(h, u)
  BY <1>2, <1>3, RefStep
<1>5. call[h].pc = "write" /\ call[h].u = u /\ call'[h].pc = "idle" /\ call[h] \in CallState
  BY <1>4 DEF WrittenBy, Write, IdleCall, TypeOK
<1>6. call[h].seen = ref[u]
  BY <1>5 DEF ReadStale
<1>7. ref'[u].status = call[h].to
  <2>1. Written(h, ref[u]).status = call[h].to
    BY <1>1, <1>5, WrittenRow
  <2> QED BY <1>4, <2>1 DEF WrittenBy
<1>8. call[h].by = "admin"
  <2> SUFFICES ASSUME call[h].by = "event" PROVE FALSE
    BY <1>5 DEF CallState
  <2>1. Raises(ref[u], call[h].to)
    BY <1>5, <1>6 DEF Decided
  <2>2. rang[ref[u].status] < rang[ref'[u].status]
    BY <1>7, <2>1 DEF Raises
  <2>3. rang[ref[u].status] \in Nat /\ rang[ref'[u].status] \in Nat
    BY <1>1 DEF Row
  <2> QED BY <2>2, <2>3
<1>9. ref[u].status # "PAID"
  <2> SUFFICES ASSUME ref[u].status = "PAID" PROVE FALSE
    OBVIOUS
  <2>1. ref[u].paid
    BY DEF StampsMatchStatus
  <2>2. Allowed(ref[u], call[h].to)
    BY <1>5, <1>6, <1>8 DEF Decided
  <2>3. call[h].to = "PAID"
    BY <2>1, <2>2 DEF Allowed
  <2> QED BY <1>2, <1>7, <2>3
<1> QED BY <1>5, <1>8, <1>9

\* fortschreiben and setReferralStatus lower a referral only where an administrator
\* asks for it, never a paid one, unless two calls on the same referral overlap.
THEOREM ForwardsOnly == Spec => OnlyOverlapDemotes
<1> DEFINE I == TypeOK /\ Decided /\ StampsMatchStatus
<1>1. Init => Decided
  <2> SUFFICES ASSUME Init, NEW h \in Calls PROVE call[h].pc = "idle"
    BY DEF Decided
  <2> QED BY DEF Init, IdleCall
<1>2. TypeOK /\ Decided /\ [Next]_vars => Decided'
  BY DecidedStep
<1>3. I /\ [Next]_vars
      => [\A u \in Users :
             /\ Present(u) /\ Present(u)' /\ ~ReadStale(u)
             /\ rang[ref'[u].status] < rang[ref[u].status]
             => /\ ref[u].status # "PAID"
                /\ \E h \in Calls : call[h].by = "admin" /\ call[h].u = u /\ call'[h].pc = "idle"]_vars
  BY Forwards
<1> QED BY <1>1, <1>2, <1>3, TypeCorrect, StampsAreRight, PTL DEF Spec, OnlyOverlapDemotes
-----------------------------------------------------------------------------
(* Referrals: no placement is forgotten *)

Placing(c, u) == c.pc # "idle" /\ c.u = u /\ c.to = "PLACED"

LEMMA SettledByWrite ==
    ASSUME TypeOK, NEW h \in Calls, Write(h), call[h].to = "PLACED"
    PROVE  Settled(ref'[call[h].u])
<1> DEFINE u == call[h].u
           w == Written(h, ref[u])
<1>1. u \in Users /\ call[h] \in CallState /\ ref \in [Users -> Row]
  BY DEF Write, TypeOK
<1>2. w.status = "PLACED"
  BY <1>1, WrittenRow
<1>3. CASE Present(u)
  <2>1. ref'[u] = w
    BY <1>1, <1>3 DEF Write
  <2> HIDE DEF w
  <2> QED BY <1>2, <2>1 DEF Settled, rang
<1>4. CASE ~Present(u)
  BY <1>4 DEF Write, Present, Settled
<1> QED BY <1>3, <1>4

LEMMA DueCallStep == ASSUME TypeOK, DueHasCall, [Next]_vars PROVE DueHasCall'
<1> SUFFICES ASSUME NEW u \in due' PROVE \E g \in Calls : Placing(call'[g], u)
  BY DEF DueHasCall, Placing
<1>0. call \in [Calls -> CallState] /\ (u \in due => \E g \in Calls : Placing(call[g], u))
  BY DEF DueHasCall, Placing, TypeOK
<1>1. CASE u \in due /\ UNCHANGED call
  BY <1>0, <1>1
<1>2. ASSUME NEW h \in Calls, NEW w \in Users, NEW to \in Status, Progress(h, w, to)
      PROVE  \E g \in Calls : Placing(call'[g], u)
  <2>1. CASE u \in due
    <3>1. PICK g \in Calls : Placing(call[g], u)
      BY <1>0, <2>1
    <3>2. call'[g] = call[g]
      BY <1>0, <1>2, <3>1 DEF Progress, Read, Placing
    <3> QED BY <3>1, <3>2
  <2>2. CASE u \notin due
    <3>1. to = "PLACED" /\ u = w /\ ~Settled(ref[w])
      BY <1>2, <2>2 DEF Progress, Behind
    <3>2. Present(w) /\ Raises(ref[w], to)
      <4>1. ref[w].status \in Status
        BY DEF TypeOK, Row
      <4> QED BY <3>1, <4>1 DEF Settled, Present, Raises, rang, Status
    <3>3. Read(h, w, "event", to)
      BY <1>2, <3>2 DEF Progress
    <3>4. call'[h].u = w /\ call'[h].to = to /\ call'[h].pc \in {"price", "write"}
      BY <1>0, <3>3 DEF Read
    <3> QED BY <3>1, <3>4 DEF Placing
  <2> QED BY <2>1, <2>2
<1>3. ASSUME NEW h \in Calls, NEW w \in Users, NEW to \in Status, SetReferralStatus(h, w, to)
      PROVE  \E g \in Calls : Placing(call'[g], u)
  <2>1. PICK g \in Calls : Placing(call[g], u)
    BY <1>0, <1>3 DEF SetReferralStatus
  <2>2. call'[g] = call[g]
    BY <1>0, <1>3, <2>1 DEF SetReferralStatus, Read, Placing
  <2> QED BY <2>1, <2>2
<1>4. ASSUME NEW h \in Calls, PriceCached(h) \/ PriceQuery(h)
      PROVE  \E g \in Calls : Placing(call'[g], u)
  <2>1. PICK g \in Calls : Placing(call[g], u)
    BY <1>0, <1>4 DEF PriceCached, PriceQuery
  <2>2. CASE g # h
    <3>1. call'[g] = call[g]
      BY <1>0, <1>4, <2>2 DEF PriceCached, PriceQuery
    <3> QED BY <2>1, <3>1
  <2>3. CASE g = h
    <3>1. call'[g].u = call[g].u /\ call'[g].to = call[g].to /\ call'[g].pc = "write"
      BY <1>0, <1>4, <2>3 DEF PriceCached, PriceQuery, CallState
    <3> QED BY <2>1, <3>1 DEF Placing
  <2> QED BY <2>2, <2>3
<1>5. ASSUME NEW h \in Calls, Write(h) \/ CallFails(h)
      PROVE  \E g \in Calls : Placing(call'[g], u)
  <2>1. u \in due /\ (CallFails(h) => u # call[h].u) /\ (Write(h) => ~Settled(ref'[u]))
    BY <1>5 DEF Write, CallFails, Behind
  <2>2. PICK g \in Calls : Placing(call[g], u)
    BY <1>0, <2>1
  <2>3. g # h
    BY <1>5, <2>1, <2>2, SettledByWrite DEF Placing
  <2>4. call'[g] = call[g]
    BY <1>0, <1>5, <2>3 DEF Write, CallFails
  <2> QED BY <2>2, <2>4
<1>6. ASSUME NEW w \in Users,
             (\E p \in Partners : LinkStart(w, p)) \/ LinkUpsert(w) \/ LinkStamp(w)
      PROVE  UNCHANGED <<call, due>>
  BY <1>6 DEF LinkStart, LinkUpsert, LinkStamp
<1>7. \/ (\E p \in Partners : DeletePartner(p)) \/ (\E c \in Prices \cup {None} : PriceChange(c))
      \/ CacheExpires \/ UNCHANGED vars
      => UNCHANGED call /\ due' \subseteq due
  BY DEF DeletePartner, PriceChange, CacheExpires, Behind, vars
<1>8. ~Restart
  BY DEF Restart
<1> QED BY <1>1, <1>2, <1>3, <1>4, <1>5, <1>6, <1>7, <1>8, NextSteps DEF Steps

\* An accepted offer or application is never forgotten: as long as the referral is behind,
\* the call of fortschreiben it started is under way; only a failure, a restart or the
\* partner's leaving ends it otherwise.
THEOREM PlacementUnderWay == Spec => []DueHasCall
<1>1. Init => DueHasCall
  BY DEF Init, DueHasCall
<1>2. TypeOK /\ DueHasCall /\ [Next]_vars => DueHasCall'
  BY DueCallStep
<1> QED BY <1>1, <1>2, TypeCorrect, PTL DEF Spec
=============================================================================
