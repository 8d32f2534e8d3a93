--------------------------- MODULE AccountsProofs ---------------------------
(* Proofs about Accounts, for any number of users, calls and reset tokens. *)
EXTENDS Accounts, TLAPS

-----------------------------------------------------------------------------
(* Typing *)

\* A call that moves to a well-formed local state keeps all of them so.
LEMMA LocalMove ==
    ASSUME LocalsOK, NEW h \in Handlers, NEW l \in Local, LocalOK(l),
           local' = [local EXCEPT ![h] = l]
    PROVE  LocalsOK'
<1>1. local' \in [Handlers -> Local]
  BY DEF LocalsOK
<1>2. ASSUME NEW k \in Handlers PROVE LocalOK(local'[k])
  <2>1. CASE k = h
    BY <2>1 DEF LocalsOK
  <2>2. CASE k # h
    BY <2>2 DEF LocalsOK
  <2> QED BY <2>1, <2>2
<1> QED BY <1>1, <1>2 DEF LocalsOK, LocalOK

LEMMA IdleOK == Idle \in Local /\ LocalOK(Idle)
BY DEF Idle, Local, LocalOK

LEMMA EndOK == ASSUME LocalsOK, NEW h \in Handlers, End(h) PROVE LocalsOK'
BY IdleOK, LocalMove DEF End

\* The first step of a call that carries an access token.
LEMMA BeginAsOK ==
    ASSUME TypeOK, NEW h \in Handlers, NEW s \in sessions,
           NEW ch \in Channels \cup {None}, NEW new \in Contacts \cup Passwords \cup {None},
           NEW pc \in {"logout", "password", "contact", "delete", "otp"},
           pc = "password" => new \in Passwords,
           pc \in {"contact", "otp"} => ch \in Channels,
           pc = "contact" => new \in Contacts,
           BeginAs(h, pc, s, ch, new)
    PROVE  LocalsOK'
<1> DEFINE l == [Idle EXCEPT !.pc = pc, !.u = s.sub, !.ver = s.ver, !.ch = ch, !.new = new,
                             !.seen = SeenBy(s, ch)]
<1>1. s.sub \in Users /\ s.ver \in Nat
  BY DEF TypeOK, UsersOK, Session
<1>2. SeenBy(s, ch) \in Contacts \cup {None} /\ (ch \in Channels => SeenBy(s, ch) \in Contacts)
  BY <1>1, AccountsAssumption DEF SeenBy, TypeOK, UsersOK, User
<1>3. l \in Local
  BY <1>1, <1>2 DEF Idle, Local
<1>4. LocalOK(l)
  BY <1>1, <1>2 DEF LocalOK, Idle
<1> QED BY <1>3, <1>4, LocalMove DEF BeginAs, Begin, TypeOK

\* The first step of any call.
LEMMA CallOK == ASSUME TypeOK, NEW h \in Handlers, Call(h) PROVE LocalsOK'
<1>1. ASSUME NEW e \in Contacts, NEW p \in Passwords, LoginRead(h, e, p) PROVE LocalsOK'
  <2>1. PICK u \in Users : local' = [local EXCEPT ![h] = [Idle EXCEPT !.pc = "login", !.u = u]]
    BY <1>1 DEF LoginRead, Begin
  <2> DEFINE l == [Idle EXCEPT !.pc = "login", !.u = u]
  <2>2. l \in Local /\ LocalOK(l)
    BY DEF Idle, Local, LocalOK
  <2> QED BY <2>1, <2>2, LocalMove DEF TypeOK
<1>2. ASSUME NEW e \in Contacts, ForgotRead(h, e) PROVE LocalsOK'
  <2>1. PICK u \in Users : local' = [local EXCEPT ![h] = [Idle EXCEPT !.pc = "forgot", !.u = u]]
    BY <1>2 DEF ForgotRead, Begin
  <2> DEFINE l == [Idle EXCEPT !.pc = "forgot", !.u = u]
  <2>2. l \in Local /\ LocalOK(l)
    BY DEF Idle, Local, LocalOK
  <2> QED BY <2>1, <2>2, LocalMove DEF TypeOK
<1>3. ASSUME NEW i \in Resets, NEW p \in Passwords, ResetRead(h, i, p) PROVE LocalsOK'
  <2> DEFINE l == [Idle EXCEPT !.pc = "reset", !.u = reset[i].owner, !.id = i, !.new = p]
  <2>1. reset[i].owner \in Users
    BY <1>3 DEF ResetRead, TypeOK, ResetsOK, Stored
  <2>2. l \in Local /\ LocalOK(l)
    BY <2>1 DEF Idle, Local, LocalOK
  <2> QED BY <1>3, <2>2, LocalMove DEF TypeOK, ResetRead, Begin
<1>4. ASSUME NEW s \in sessions, LogoutRead(h, s) PROVE LocalsOK'
  BY <1>4, BeginAsOK DEF LogoutRead
<1>5. ASSUME NEW s \in sessions, NEW p \in Passwords, DeleteRead(h, s, p) PROVE LocalsOK'
  BY <1>5, BeginAsOK DEF DeleteRead
<1>6. ASSUME NEW s \in sessions, NEW p \in Passwords, NEW new \in Passwords,
             ChangePasswordRead(h, s, p, new)
      PROVE  LocalsOK'
  BY <1>6, BeginAsOK DEF ChangePasswordRead
<1>7. ASSUME NEW s \in sessions, NEW p \in Passwords, NEW new \in Contacts,
             ChangeEmailRead(h, s, p, new)
      PROVE  LocalsOK'
  BY <1>7, BeginAsOK, AccountsAssumption DEF ChangeEmailRead
<1>8. ASSUME NEW s \in sessions, NEW new \in Contacts, UpdateProfileRead(h, s, new)
      PROVE  LocalsOK'
  BY <1>8, BeginAsOK, AccountsAssumption DEF UpdateProfileRead
<1>9. ASSUME NEW s \in sessions, NEW ch \in Channels, VerifyContactRead(h, s, ch)
      PROVE  LocalsOK'
  BY <1>9, BeginAsOK DEF VerifyContactRead
<1> QED BY <1>1, <1>2, <1>3, <1>4, <1>5, <1>6, <1>7, <1>8, <1>9 DEF Call

LEMMA CallFrame ==
    ASSUME NEW h \in Handlers, Call(h)
    PROVE  UNCHANGED <<user, sessions, reset, proven, resetUses>>
BY DEF Call, LoginRead, ForgotRead, ResetRead, LogoutRead, DeleteRead, ChangePasswordRead,
       ChangeEmailRead, UpdateProfileRead, VerifyContactRead, BeginAs

\* A later step of a call either ends it or moves it on with what it has read.
LEMMA ContinueOK == ASSUME TypeOK, NEW h \in Handlers, Continue(h) PROVE LocalsOK'
<1>1. CASE End(h)
  BY <1>1, EndOK DEF TypeOK
<1>2. ASSUME NEW pc \in {"reread", "flag"}, local[h].pc \in {"otp", "reread"}, Goto(h, pc)
      PROVE  LocalsOK'
  <2> DEFINE l == [local[h] EXCEPT !.pc = pc]
  <2>1. local[h] \in Local /\ LocalOK(local[h])
    BY DEF TypeOK, LocalsOK
  <2>2. l \in Local /\ LocalOK(l)
    BY <1>2, <2>1 DEF Local, LocalOK
  <2>3. local' = [local EXCEPT ![h] = l]
    BY <1>2 DEF Goto
  <2> QED BY <2>2, <2>3, LocalMove DEF TypeOK
<1>3. End(h) \/ \E pc \in {"reread", "flag"} : local[h].pc \in {"otp", "reread"} /\ Goto(h, pc)
  BY DEF Continue, LoginWrite, LogoutWrite, ChangePasswordWrite, ContactWrite, DeleteWrite,
         VerifyContactCode, VerifyContactRefused, SetVerifiedRead, SetVerifiedWrite,
         ForgotWrite, ResetWrite
<1> QED BY <1>1, <1>2, <1>3

-----------------------------------------------------------------------------
(* What a step does to the user table *)

\* A row may die but not come back, its version only grows, and a new password
\* comes with a new version.
RowStep(r, q) ==
    /\ q.live => r.live
    /\ q.version >= r.version
    /\ q.password # r.password => q.version > r.version

TableStep ==
    /\ user' \in [Users -> User]
    /\ \A u \in Users : RowStep(user[u], user'[u])

\* Each row a handler writes is a row, and a step of the row it replaces.
LEMMA SameVersion ==
    ASSUME NEW r \in User, NEW q, q.version = r.version, q.password = r.password,
           q.live => r.live
    PROVE  RowStep(r, q)
<1>1. r.version \in Nat
  BY DEF User
<1> QED BY <1>1 DEF RowStep

LEMMA NewVersion ==
    ASSUME NEW r \in User
    PROVE  LET q == [r EXCEPT !.version = r.version + 1] IN q \in User /\ RowStep(r, q)
<1> DEFINE q == [r EXCEPT !.version = r.version + 1]
<1>1. q \in User /\ q.version = r.version + 1 /\ q.live = r.live /\ r.version \in Nat
  BY DEF User
<1>2. RowStep(r, q)
  BY <1>1 DEF RowStep
<1> QED BY <1>1, <1>2

LEMMA NewPassword ==
    ASSUME NEW r \in User, NEW p \in Passwords
    PROVE  LET q == [r EXCEPT !.password = p, !.version = r.version + 1]
           IN  q \in User /\ RowStep(r, q)
<1> DEFINE n == r.version + 1
           q == [r EXCEPT !.password = p, !.version = n]
<1>1. r.version \in Nat /\ n \in Nat /\ n > r.version
  BY DEF User
<1>2. q = [r EXCEPT !.password = p, !.version = r.version + 1]
  OBVIOUS
<1> HIDE DEF n
<1>3. q \in User /\ q.version = n /\ q.live = r.live
  BY <1>1 DEF User
<1> HIDE DEF q
<1>4. RowStep(r, q)
  BY <1>1, <1>3 DEF RowStep
<1> QED BY <1>2, <1>3, <1>4

LEMMA Dead ==
    ASSUME NEW r \in User
    PROVE  LET q == [r EXCEPT !.live = FALSE] IN q \in User /\ RowStep(r, q)
<1> DEFINE q == [r EXCEPT !.live = FALSE]
<1>1. q \in User /\ q.version = r.version /\ q.password = r.password
  BY DEF User
<1>2. ~q.live
  BY DEF User
<1> HIDE DEF q
<1>3. RowStep(r, q)
  BY <1>1, <1>2, SameVersion
<1> QED BY <1>1, <1>3 DEF q

LEMMA NewContact ==
    ASSUME NEW r \in User, NEW ch \in Channels, NEW c \in Contacts, NEW b \in BOOLEAN
    PROVE  LET q == [r EXCEPT !.contact[ch] = c, !.verified[ch] = b]
           IN  q \in User /\ RowStep(r, q)
<1> DEFINE con == [r.contact EXCEPT ![ch] = c]
           flags == [r.verified EXCEPT ![ch] = b]
           q == [r EXCEPT !.contact = con, !.verified = flags]
<1>1. con \in [Channels -> Contacts] /\ flags \in [Channels -> BOOLEAN]
  BY DEF User
<1>2. q = [r EXCEPT !.contact[ch] = c, !.verified[ch] = b]
  BY DEF User
<1> HIDE DEF con, flags
<1>3. q \in User /\ q.version = r.version /\ q.password = r.password /\ q.live = r.live
  BY <1>1 DEF User
<1> HIDE DEF q
<1>4. RowStep(r, q)
  BY <1>3, SameVersion
<1> QED BY <1>2, <1>3, <1>4

LEMMA Flagged ==
    ASSUME NEW r \in User, NEW ch \in Channels
    PROVE  LET q == [r EXCEPT !.verified[ch] = TRUE] IN q \in User /\ RowStep(r, q)
<1> DEFINE flags == [r.verified EXCEPT ![ch] = TRUE]
           q == [r EXCEPT !.verified = flags]
<1>1. flags \in [Channels -> BOOLEAN]
  BY DEF User
<1>2. q = [r EXCEPT !.verified[ch] = TRUE]
  BY DEF User
<1> HIDE DEF flags
<1>3. q \in User /\ q.version = r.version /\ q.password = r.password /\ q.live = r.live
  BY <1>1 DEF User
<1> HIDE DEF q
<1>4. RowStep(r, q)
  BY <1>3, SameVersion
<1> QED BY <1>2, <1>3, <1>4

LEMMA Untouched == ASSUME TypeOK, UNCHANGED user PROVE TableStep
<1>1. ASSUME NEW u \in Users PROVE RowStep(user[u], user'[u])
  <2>1. user[u].version \in Nat
    BY DEF TypeOK, UsersOK, User
  <2> QED BY <2>1 DEF RowStep
<1> QED BY <1>1 DEF TableStep, TypeOK, UsersOK

LEMMA WriteStep ==
    ASSUME TypeOK, NEW h \in Handlers, local[h].u \in Users, NEW row \in User,
           RowStep(user[local[h].u], row), Write(h, row)
    PROVE  TableStep
<1>1. CASE ~user[local[h].u].live
  BY <1>1, Untouched DEF Write
<1>2. CASE user[local[h].u].live
  <2>1. user' = [user EXCEPT ![local[h].u] = row]
    BY <1>2 DEF Write
  <2>2. user' \in [Users -> User]
    BY <2>1 DEF TypeOK, UsersOK
  <2>3. ASSUME NEW u \in Users PROVE RowStep(user[u], user'[u])
    <3>1. CASE u = local[h].u
      BY <2>1, <3>1 DEF TypeOK, UsersOK
    <3>2. CASE u # local[h].u
      <4>1. user'[u] = user[u]
        BY <2>1, <3>2 DEF TypeOK, UsersOK
      <4>2. user[u].version \in Nat
        BY DEF TypeOK, UsersOK, User
      <4> QED BY <4>1, <4>2 DEF RowStep
    <3> QED BY <3>1, <3>2
  <2> QED BY <2>2, <2>3 DEF TableStep
<1> QED BY <1>1, <1>2

LEMMA ContinueTable == ASSUME TypeOK, NEW h \in Handlers, Continue(h) PROVE TableStep
<1> DEFINE u == local[h].u
           old == user[u]
<1>1. local[h].pc # "idle" => u \in Users /\ old \in User /\ old.version \in Nat
  BY DEF TypeOK, LocalsOK, LocalOK, UsersOK, User
<1>2. CASE LogoutWrite(h)
  <2> DEFINE row == [old EXCEPT !.version = old.version + 1]
  <2>1. Write(h, row) /\ u \in Users /\ old \in User
    BY <1>1, <1>2 DEF LogoutWrite, NextVersion
  <2>2. row \in User /\ RowStep(old, row)
    BY <2>1, NewVersion
  <2> QED BY <2>1, <2>2, WriteStep
<1>3. CASE ChangePasswordWrite(h) \/ ResetWrite(h)
  <2> DEFINE row == [old EXCEPT !.password = local[h].new, !.version = old.version + 1]
  <2>1. u \in Users /\ old \in User /\ local[h].new \in Passwords
    BY <1>1, <1>3 DEF ChangePasswordWrite, ResetWrite, TypeOK, LocalsOK, LocalOK
  <2>2. Write(h, row) \/ UNCHANGED user
    BY <1>3 DEF ChangePasswordWrite, ResetWrite, NextVersion
  <2>3. row \in User /\ RowStep(old, row)
    BY <2>1, NewPassword
  <2> QED BY <2>1, <2>2, <2>3, WriteStep, Untouched
<1>4. CASE ContactWrite(h)
  <2>1. /\ u \in Users /\ old \in User
        /\ local[h].new \in Contacts /\ local[h].ch \in Channels
    BY <1>1, <1>4 DEF ContactWrite, TypeOK, LocalsOK, LocalOK
  <2>2. PICK b \in BOOLEAN :
          \/ Write(h, [old EXCEPT !.contact[local[h].ch] = local[h].new,
                                  !.verified[local[h].ch] = b])
          \/ UNCHANGED user
    <3> DEFINE b == old.verified[local[h].ch] /\ Unchanged(h)
    <3>1. \/ Write(h, [old EXCEPT !.contact[local[h].ch] = local[h].new,
                                  !.verified[local[h].ch] = b])
          \/ UNCHANGED user
      BY <1>4, <2>1 DEF ContactWrite, User
    <3>2. b \in BOOLEAN
      BY <2>1 DEF Unchanged, User
    <3> QED BY <3>1, <3>2
  <2> DEFINE row == [old EXCEPT !.contact[local[h].ch] = local[h].new,
                                !.verified[local[h].ch] = b]
  <2>3. row \in User /\ RowStep(old, row)
    BY <2>1, NewContact
  <2> QED BY <2>1, <2>2, <2>3, WriteStep, Untouched
<1>5. CASE DeleteWrite(h)
  <2> DEFINE row == [old EXCEPT !.live = FALSE]
  <2>1. Write(h, row) /\ u \in Users /\ old \in User
    BY <1>1, <1>5 DEF DeleteWrite
  <2>2. row \in User /\ RowStep(old, row)
    BY <2>1, Dead
  <2> QED BY <2>1, <2>2, WriteStep
<1>6. CASE SetVerifiedWrite(h)
  <2> DEFINE row == [old EXCEPT !.verified[local[h].ch] = TRUE]
  <2>1. Write(h, row) /\ u \in Users /\ old \in User /\ local[h].ch \in Channels
    BY <1>1, <1>6 DEF SetVerifiedWrite, TypeOK, LocalsOK, LocalOK
  <2>2. row \in User /\ RowStep(old, row)
    BY <2>1, Flagged
  <2> QED BY <2>1, <2>2, WriteStep
<1>7. \/ LoginWrite(h) \/ VerifyContactCode(h) \/ VerifyContactRefused(h)
      \/ SetVerifiedRead(h) \/ \E i \in Resets : ForgotWrite(h, i)
      => UNCHANGED user
  BY DEF LoginWrite, VerifyContactCode, VerifyContactRefused, SetVerifiedRead, ForgotWrite
<1> QED BY <1>2, <1>3, <1>4, <1>5, <1>6, <1>7, Untouched DEF Continue

LEMMA NextTable == ASSUME TypeOK, [Next]_vars PROVE TableStep
<1>1. ASSUME NEW h \in Handlers, Call(h) PROVE UNCHANGED user
  BY <1>1, CallFrame
<1>2. Restart \/ (\E i \in Resets : PruneReset(i)) \/ UNCHANGED vars => UNCHANGED user
  BY DEF Restart, PruneReset, vars
<1> QED BY <1>1, <1>2, ContinueTable, Untouched DEF Next

-----------------------------------------------------------------------------
(* The access tokens *)

\* A step hands out at most one token, with the version its user has after it.
SessionStep ==
    \A s \in sessions' \ sessions : \E u \in Users : s = [sub |-> u, ver |-> user'[u].version]

LEMMA NextSessions == ASSUME TypeOK, [Next]_vars PROVE SessionStep /\ sessions \subseteq sessions'
<1>1. CASE UNCHANGED sessions
  BY <1>1 DEF SessionStep
<1>2. ASSUME NEW h \in Handlers, LoginWrite(h) PROVE SessionStep /\ sessions \subseteq sessions'
  <2>1. local[h].u \in Users
    BY <1>2 DEF LoginWrite, TypeOK, LocalsOK, LocalOK
  <2>2. UNCHANGED user
    BY <1>2 DEF LoginWrite
  <2> QED BY <1>2, <2>1, <2>2 DEF LoginWrite, Issue, SessionStep
<1>3. ASSUME NEW h \in Handlers, ChangePasswordWrite(h)
      PROVE  SessionStep /\ sessions \subseteq sessions'
  <2> DEFINE u == local[h].u
  <2>1. u \in Users /\ user[u] \in User
    BY <1>3 DEF ChangePasswordWrite, TypeOK, LocalsOK, LocalOK, UsersOK
  <2>2. CASE ~user[u].live
    BY <1>3, <2>2 DEF ChangePasswordWrite, Issue, SessionStep
  <2>3. CASE user[u].live
    <3>1. user' = [user EXCEPT ![u] = [user[u] EXCEPT !.password = local[h].new,
                                                      !.version = NextVersion(h)]]
      BY <1>3, <2>3 DEF ChangePasswordWrite, Write
    <3>2. user'[u].version = NextVersion(h)
      BY <2>1, <3>1 DEF TypeOK, UsersOK, User
    <3>3. sessions' = sessions \cup {[sub |-> u, ver |-> NextVersion(h)]}
      BY <1>3, <2>3 DEF ChangePasswordWrite, Issue
    <3> QED BY <2>1, <3>2, <3>3 DEF SessionStep
  <2> QED BY <2>2, <2>3
<1>4. ASSUME NEW h \in Handlers, Call(h) PROVE UNCHANGED sessions
  BY <1>4, CallFrame
<1>5. ASSUME NEW h \in Handlers, Continue(h), ~LoginWrite(h), ~ChangePasswordWrite(h)
      PROVE  UNCHANGED sessions
  BY <1>5 DEF Continue, LogoutWrite, ContactWrite, DeleteWrite, VerifyContactCode,
              VerifyContactRefused, SetVerifiedRead, SetVerifiedWrite, ForgotWrite, ResetWrite
<1>6. Restart \/ (\E i \in Resets : PruneReset(i)) \/ UNCHANGED vars => UNCHANGED sessions
  BY DEF Restart, PruneReset, vars
<1> QED BY <1>1, <1>2, <1>3, <1>4, <1>5, <1>6 DEF Next

-----------------------------------------------------------------------------
(* The type invariant *)

LEMMA ResetsStep == ASSUME TypeOK, [Next]_vars PROVE ResetsOK'
<1> USE DEF TypeOK, ResetsOK, Stored, Reset
<1>1. CASE UNCHANGED reset
  BY <1>1
<1>2. ASSUME NEW h \in Handlers, DeleteWrite(h) PROVE ResetsOK'
  BY <1>2, AccountsAssumption DEF DeleteWrite, Deleted
<1>3. ASSUME NEW h \in Handlers, NEW i \in Resets, ForgotWrite(h, i) PROVE ResetsOK'
  <2>1. local[h].u \in Users
    BY <1>3 DEF ForgotWrite, LocalsOK, LocalOK
  <2> QED BY <1>3, <2>1 DEF ForgotWrite
<1>4. ASSUME NEW h \in Handlers, ResetWrite(h) PROVE ResetsOK'
  <2>1. local[h].u \in Users
    BY <1>4 DEF ResetWrite, LocalsOK, LocalOK
  <2>2. CASE UNCHANGED reset
    BY <2>2
  <2>3. CASE reset' = [j \in Resets |-> IF reset[j].owner = local[h].u
                                        THEN [reset[j] EXCEPT !.state = "consumed"] ELSE reset[j]]
    BY <2>1, <2>3
  <2> QED BY <1>4, <2>2, <2>3 DEF ResetWrite
<1>5. ASSUME NEW i \in Resets, PruneReset(i) PROVE ResetsOK'
  BY <1>5, AccountsAssumption DEF PruneReset, Deleted
<1>6. ASSUME NEW h \in Handlers, Call(h) PROVE UNCHANGED reset
  BY <1>6, CallFrame
<1>7. Restart \/ UNCHANGED vars => UNCHANGED reset
  BY DEF Restart, vars
<1>8. ASSUME NEW h \in Handlers, Continue(h), ~DeleteWrite(h), ~ResetWrite(h),
             ~\E i \in Resets : ForgotWrite(h, i)
      PROVE  UNCHANGED reset
  BY <1>8 DEF Continue, LoginWrite, LogoutWrite, ChangePasswordWrite, ContactWrite,
              VerifyContactCode, VerifyContactRefused, SetVerifiedRead, SetVerifiedWrite
<1> QED BY <1>1, <1>2, <1>3, <1>4, <1>5, <1>6, <1>7, <1>8 DEF Next

LEMMA HistoryStep == ASSUME TypeOK, [Next]_vars PROVE HistoryOK'
<1> USE DEF TypeOK, HistoryOK
<1>1. ASSUME NEW h \in Handlers, VerifyContactCode(h) PROVE HistoryOK'
  <2>1. local[h].u \in Users /\ local[h].ch \in Channels /\ local[h].seen \in Contacts
    BY <1>1 DEF VerifyContactCode, LocalsOK, LocalOK
  <2> QED BY <1>1, <2>1 DEF VerifyContactCode
<1>2. ASSUME NEW h \in Handlers, ResetWrite(h) PROVE HistoryOK'
  BY <1>2 DEF ResetWrite
<1>3. CASE UNCHANGED <<proven, resetUses>>
  BY <1>3
<1>4. ASSUME NEW h \in Handlers, Call(h) PROVE UNCHANGED <<proven, resetUses>>
  BY <1>4, CallFrame
<1>5. Restart \/ (\E i \in Resets : PruneReset(i)) \/ UNCHANGED vars
      => UNCHANGED <<proven, resetUses>>
  BY DEF Restart, PruneReset, vars
<1>6. ASSUME NEW h \in Handlers, Continue(h), ~VerifyContactCode(h), ~ResetWrite(h)
      PROVE  UNCHANGED <<proven, resetUses>>
  BY <1>6 DEF Continue, LoginWrite, LogoutWrite, ChangePasswordWrite, ContactWrite, DeleteWrite,
              VerifyContactRefused, SetVerifiedRead, SetVerifiedWrite, ForgotWrite
<1> QED BY <1>1, <1>2, <1>3, <1>4, <1>5, <1>6 DEF Next

LEMMA TypeStep == ASSUME TypeOK, [Next]_vars PROVE TypeOK'
<1>1. UsersOK'
  <2>1. user' \in [Users -> User]
    BY NextTable DEF TableStep
  <2>2. ASSUME NEW s \in sessions' \ sessions PROVE s \in Session
    <3>1. PICK u \in Users : s = [sub |-> u, ver |-> user'[u].version]
      BY NextSessions DEF SessionStep
    <3>2. user'[u].version \in Nat
      BY <2>1 DEF User
    <3> QED BY <3>1, <3>2 DEF Session
  <2> QED BY <2>1, <2>2 DEF UsersOK, TypeOK
<1>2. LocalsOK'
  <2>1. ASSUME Restart PROVE LocalsOK'
    BY <2>1, IdleOK DEF Restart, LocalsOK
  <2>2. (\E i \in Resets : PruneReset(i)) \/ UNCHANGED vars => LocalsOK'
    BY DEF PruneReset, vars, TypeOK, LocalsOK, LocalOK
  <2> QED BY <2>1, <2>2, CallOK, ContinueOK DEF Next
<1> QED BY <1>1, <1>2, ResetsStep, HistoryStep DEF TypeOK

LEMMA TypeInit == Init => TypeOK
<1> SUFFICES ASSUME Init PROVE TypeOK
  OBVIOUS
<1>1. UsersOK
  <2> DEFINE none == [ch \in Channels |-> FALSE]
  <2>1. none \in [Channels -> BOOLEAN]
    OBVIOUS
  <2>2. user \in [Users -> [live: {TRUE}, password: Passwords, version: {0},
                           contact: [Channels -> Contacts], verified: {none}]]
    BY DEF Init
  <2> HIDE DEF none
  <2>3. ASSUME NEW u \in Users PROVE user[u] \in User
    <3>1. user[u] \in [live: {TRUE}, password: Passwords, version: {0},
                       contact: [Channels -> Contacts], verified: {none}]
      BY <2>2
    <3>2. {TRUE} \subseteq BOOLEAN /\ {0} \subseteq Nat /\ {none} \subseteq [Channels -> BOOLEAN]
      BY <2>1
    <3>3. PICK t \in {TRUE}, p \in Passwords, n \in {0}, c \in [Channels -> Contacts], f \in {none} :
            user[u] = [live |-> t, password |-> p, version |-> n, contact |-> c, verified |-> f]
      BY <3>1
    <3>4. t \in BOOLEAN /\ n \in Nat /\ f \in [Channels -> BOOLEAN]
      BY <3>2
    <3> QED BY <3>3, <3>4 DEF User
  <2>4. sessions = {}
    BY DEF Init
  <2> QED BY <2>2, <2>3, <2>4 DEF UsersOK
<1>2. ResetsOK
  BY AccountsAssumption DEF Init, ResetsOK, Reset, NoReset, Stored
<1>3. LocalsOK
  BY IdleOK DEF Init, LocalsOK
<1>4. HistoryOK
  BY DEF Init, HistoryOK
<1> QED BY <1>1, <1>2, <1>3, <1>4 DEF TypeOK

\* Every table, token and call under way is well formed in every reachable state
\* of AuthService: in particular a call that is to write knows its user, contact
\* and reset token.
THEOREM TypeCorrect == Spec => []TypeOK
BY TypeInit, TypeStep, PTL DEF Spec

-----------------------------------------------------------------------------
(* Revocation: no token is ahead of its user, and versions only grow *)

LEMMA BehindStep == ASSUME TypeOK, VersionsBehind, [Next]_vars PROVE VersionsBehind'
<1> SUFFICES ASSUME NEW s \in sessions' PROVE s.ver <= user'[s.sub].version
  BY DEF VersionsBehind
<1>1. user' \in [Users -> User] /\ \A u \in Users : RowStep(user[u], user'[u])
  BY NextTable DEF TableStep
<1>2. CASE s \in sessions
  <2>1. s.sub \in Users /\ s.ver \in Nat /\ s.ver <= user[s.sub].version
    BY <1>2 DEF TypeOK, UsersOK, Session, VersionsBehind
  <2>2. user[s.sub].version \in Nat /\ user'[s.sub].version \in Nat
    BY <1>1, <2>1 DEF TypeOK, UsersOK, User
  <2>3. user'[s.sub].version >= user[s.sub].version
    BY <1>1, <2>1 DEF RowStep
  <2> QED BY <2>1, <2>2, <2>3
<1>3. CASE s \notin sessions
  <2>1. PICK u \in Users : s = [sub |-> u, ver |-> user'[u].version]
    BY <1>3, NextSessions DEF SessionStep
  <2>2. user'[u].version \in Nat
    BY <1>1 DEF User
  <2> QED BY <2>1, <2>2
<1> QED BY <1>2, <1>3

LEMMA TokenStep ==
    ASSUME TypeOK, VersionsBehind, [Next]_vars, NEW s \in sessions
    PROVE  /\ ~Usable(s) => ~Usable(s)'
           /\ user'[s.sub].password # user[s.sub].password => ~Usable(s)'
<1> DEFINE r == user[s.sub]
           q == user'[s.sub]
<1>1. s.sub \in Users /\ s.ver \in Nat /\ s.ver <= r.version
  BY DEF TypeOK, UsersOK, Session, VersionsBehind
<1>2. RowStep(r, q) /\ r.version \in Nat /\ q.version \in Nat
  BY <1>1, NextTable DEF TableStep, TypeOK, UsersOK, User
<1>3. ASSUME ~Usable(s) PROVE ~Usable(s)'
  <2>1. CASE ~r.live
    <3>1. ~q.live
      BY <1>2, <2>1 DEF RowStep
    <3> QED BY <3>1 DEF Usable
  <2>2. CASE r.version # s.ver
    <3>1. q.version >= r.version
      BY <1>2 DEF RowStep
    <3>2. q.version # s.ver
      <4> HIDE DEF q, r
      <4> QED BY <1>1, <1>2, <2>2, <3>1
    <3> QED BY <3>2 DEF Usable
  <2> QED BY <1>3, <2>1, <2>2 DEF Usable
<1>4. ASSUME q.password # r.password PROVE ~Usable(s)'
  <2>1. q.version > r.version
    BY <1>2, <1>4 DEF RowStep
  <2>2. q.version # s.ver
    <3> HIDE DEF q, r
    <3> QED BY <1>1, <1>2, <2>1
  <2> QED BY <2>2 DEF Usable
<1> QED BY <1>3, <1>4

LEMMA Behind == Spec => [](TypeOK /\ VersionsBehind)
<1>1. Init => TypeOK /\ VersionsBehind
  BY TypeInit DEF Init, VersionsBehind
<1>2. TypeOK /\ VersionsBehind /\ [Next]_vars => (TypeOK /\ VersionsBehind)'
  BY TypeStep, BehindStep
<1> QED BY <1>1, <1>2, PTL DEF Spec

\* An access token that assertUsable refuses is refused for ever, whatever
\* handlers are between their read and their write of the user.
THEOREM RevocationIsFinal == Spec => RevokedStaysRevoked
<1>1. TypeOK /\ VersionsBehind /\ [Next]_vars
      => [\A s \in sessions : ~Usable(s) => ~Usable(s)']_vars
  BY TokenStep
<1> QED BY <1>1, Behind, PTL DEF Spec, RevokedStaysRevoked

\* changePassword and resetPassword leave no earlier access token usable,
\* however their steps interleave with logins and logouts.
THEOREM NewPasswordRevokes == Spec => RevocationIsTotal
<1>1. TypeOK /\ VersionsBehind /\ [Next]_vars
      => [\A s \in sessions : user'[s.sub].password # user[s.sub].password
                              => ~Usable(s)']_vars
  BY TokenStep
<1> QED BY <1>1, Behind, PTL DEF Spec, RevocationIsTotal

-----------------------------------------------------------------------------
(* Reset tokens and their users *)

\* Only deleteAccount ends a life, and it takes the user's tokens with it.
LEMMA LifeStep ==
    ASSUME TypeOK, [Next]_vars, NEW u \in Users, user[u].live, ~user'[u].live
    PROVE  \E h \in Handlers : DeleteWrite(h) /\ local[h].u = u
<1>1. PICK h \in Handlers : Continue(h)
  <2>1. ASSUME NEW h \in Handlers, Call(h) PROVE UNCHANGED user
    BY <2>1, CallFrame
  <2>2. Restart \/ (\E i \in Resets : PruneReset(i)) \/ UNCHANGED vars => UNCHANGED user
    BY DEF Restart, PruneReset, vars
  <2> QED BY <2>1, <2>2 DEF Next
<1>2. local[h].pc # "idle" => local[h].u \in Users /\ user \in [Users -> User]
  BY DEF TypeOK, LocalsOK, LocalOK, UsersOK
<1>3. ASSUME NEW row, Write(h, row), local[h].u \in Users
      PROVE  u = local[h].u /\ ~row.live
  BY <1>3 DEF Write, TypeOK, UsersOK
<1>4. CASE DeleteWrite(h)
  BY <1>2, <1>3, <1>4 DEF DeleteWrite
<1>5. ~LogoutWrite(h)
  <2> SUFFICES ASSUME LogoutWrite(h) PROVE FALSE
    OBVIOUS
  <2> DEFINE row == [user[local[h].u] EXCEPT !.version = NextVersion(h)]
  <2>1. Write(h, row) /\ local[h].u \in Users
    BY <1>2 DEF LogoutWrite
  <2>2. row.live = user[local[h].u].live
    BY <1>2, <2>1 DEF User
  <2> QED BY <1>3, <2>1, <2>2
<1>6. ~ChangePasswordWrite(h) /\ ~ResetWrite(h)
  <2> SUFFICES ASSUME ChangePasswordWrite(h) \/ ResetWrite(h) PROVE FALSE
    OBVIOUS
  <2> DEFINE row == [user[local[h].u] EXCEPT !.password = local[h].new,
                                             !.version = NextVersion(h)]
  <2>1. Write(h, row) /\ local[h].u \in Users
    BY <1>2 DEF ChangePasswordWrite, ResetWrite
  <2>2. row.live = user[local[h].u].live
    BY <1>2, <2>1 DEF User
  <2> QED BY <1>3, <2>1, <2>2
<1>7. ~ContactWrite(h)
  <2> SUFFICES ASSUME ContactWrite(h) PROVE FALSE
    OBVIOUS
  <2> DEFINE c == local[h].ch
             row == [user[local[h].u] EXCEPT !.contact[c] = local[h].new,
                                             !.verified[c] = @ /\ Unchanged(h)]
  <2>1. Write(h, row) /\ local[h].u \in Users
    BY <1>2 DEF ContactWrite
  <2>2. row.live = user[local[h].u].live
    BY <1>2, <2>1 DEF User
  <2> QED BY <1>3, <2>1, <2>2
<1>8. ~SetVerifiedWrite(h)
  <2> SUFFICES ASSUME SetVerifiedWrite(h) PROVE FALSE
    OBVIOUS
  <2> DEFINE row == [user[local[h].u] EXCEPT !.verified[local[h].ch] = TRUE]
  <2>1. Write(h, row) /\ local[h].u \in Users
    BY <1>2 DEF SetVerifiedWrite
  <2>2. row.live = user[local[h].u].live
    BY <1>2, <2>1 DEF User
  <2> QED BY <1>3, <2>1, <2>2
<1>9. \/ LoginWrite(h) \/ VerifyContactCode(h) \/ VerifyContactRefused(h)
      \/ SetVerifiedRead(h) \/ \E i \in Resets : ForgotWrite(h, i)
      => UNCHANGED user
  BY DEF LoginWrite, VerifyContactCode, VerifyContactRefused, SetVerifiedRead, ForgotWrite
<1> QED BY <1>1, <1>4, <1>5, <1>6, <1>7, <1>8, <1>9 DEF Continue

\* A step stores a reset token only for a user who exists.
LEMMA OwnerStep ==
    ASSUME TypeOK, [Next]_vars, NEW i \in Resets, Stored(i)'
    PROVE  \/ Stored(i) /\ reset'[i].owner = reset[i].owner
           \/ UNCHANGED user /\ reset'[i].owner \in Users /\ user[reset'[i].owner].live
<1> USE DEF TypeOK, ResetsOK, Stored, Reset
<1>1. CASE UNCHANGED reset
  BY <1>1
<1>2. ASSUME NEW h \in Handlers, DeleteWrite(h) PROVE Stored(i) /\ reset'[i].owner = reset[i].owner
  BY <1>2 DEF DeleteWrite, Deleted
<1>3. ASSUME NEW h \in Handlers, NEW j \in Resets, ForgotWrite(h, j)
      PROVE  \/ Stored(i) /\ reset'[i].owner = reset[i].owner
             \/ UNCHANGED user /\ reset'[i].owner \in Users /\ user[reset'[i].owner].live
  <2>1. local[h].u \in Users /\ UNCHANGED user
    BY <1>3 DEF ForgotWrite, LocalsOK, LocalOK
  <2> QED BY <1>3, <2>1 DEF ForgotWrite, Referable
<1>4. ASSUME NEW h \in Handlers, ResetWrite(h) PROVE Stored(i) /\ reset'[i].owner = reset[i].owner
  <2>1. local[h].u \in Users
    BY <1>4 DEF ResetWrite, LocalsOK, LocalOK
  <2>2. CASE UNCHANGED reset
    BY <2>2
  <2>3. CASE reset' = [j \in Resets |-> IF reset[j].owner = local[h].u
                                        THEN [reset[j] EXCEPT !.state = "consumed"] ELSE reset[j]]
    BY <2>1, <2>3
  <2> QED BY <1>4, <2>2, <2>3 DEF ResetWrite
<1>5. ASSUME NEW j \in Resets, PruneReset(j) PROVE Stored(i) /\ reset'[i].owner = reset[i].owner
  BY <1>5 DEF PruneReset, Deleted
<1>6. ASSUME NEW h \in Handlers, Call(h) PROVE UNCHANGED reset
  BY <1>6, CallFrame
<1>7. Restart \/ UNCHANGED vars => UNCHANGED reset
  BY DEF Restart, vars
<1>8. ASSUME NEW h \in Handlers, Continue(h), ~DeleteWrite(h), ~ResetWrite(h),
             ~\E j \in Resets : ForgotWrite(h, j)
      PROVE  UNCHANGED reset
  BY <1>8 DEF Continue, LoginWrite, LogoutWrite, ChangePasswordWrite, ContactWrite,
              VerifyContactCode, VerifyContactRefused, SetVerifiedRead, SetVerifiedWrite
<1> QED BY <1>1, <1>2, <1>3, <1>4, <1>5, <1>6, <1>7, <1>8 DEF Next

LEMMA ResetHasUserStep == ASSUME TypeOK, ResetHasUser, [Next]_vars PROVE ResetHasUser'
<1> SUFFICES ASSUME NEW i \in Resets, Stored(i)' PROVE user'[reset'[i].owner].live
  BY DEF ResetHasUser
<1>1. CASE UNCHANGED user /\ reset'[i].owner \in Users /\ user[reset'[i].owner].live
  BY <1>1
<1>2. CASE Stored(i) /\ reset'[i].owner = reset[i].owner
  <2> DEFINE u == reset[i].owner
  <2>1. u \in Users /\ user[u].live
    BY <1>2 DEF TypeOK, ResetsOK, ResetHasUser
  <2>2. ASSUME ~user'[u].live PROVE FALSE
    <3>1. PICK h \in Handlers : DeleteWrite(h) /\ local[h].u = u
      BY <2>1, <2>2, LifeStep
    <3>2. reset'[i] = Deleted
      BY <3>1 DEF DeleteWrite
    <3> QED BY <3>2 DEF Deleted, Stored
  <2> QED BY <1>2, <2>2
<1> QED BY <1>1, <1>2, OwnerStep

\* However a deletion overlaps with requests for reset tokens, no token is left
\* whose account is gone.
THEOREM NoOrphanReset == Spec => []ResetHasUser
<1>1. Init => TypeOK /\ ResetHasUser
  <2> SUFFICES ASSUME Init PROVE ResetHasUser
    BY TypeInit
  <2>1. ASSUME NEW i \in Resets PROVE ~Stored(i)
    BY DEF Init, Stored, NoReset
  <2> QED BY <2>1 DEF ResetHasUser
<1>2. TypeOK /\ ResetHasUser /\ [Next]_vars => (TypeOK /\ ResetHasUser)'
  BY TypeStep, ResetHasUserStep
<1> QED BY <1>1, <1>2, PTL DEF Spec

-----------------------------------------------------------------------------
(* Verified flags *)

LEMMA ProvenGrows == ASSUME TypeOK, [Next]_vars PROVE proven \subseteq proven'
<1>1. ASSUME NEW h \in Handlers, Call(h) PROVE UNCHANGED proven
  BY <1>1, CallFrame
<1>2. Restart \/ (\E i \in Resets : PruneReset(i)) \/ UNCHANGED vars => UNCHANGED proven
  BY DEF Restart, PruneReset, vars
<1>3. ASSUME NEW h \in Handlers, Continue(h) PROVE proven \subseteq proven'
  BY <1>3 DEF Continue, LoginWrite, LogoutWrite, ChangePasswordWrite, ContactWrite, DeleteWrite,
              VerifyContactCode, VerifyContactRefused, SetVerifiedRead, SetVerifiedWrite,
              ForgotWrite, ResetWrite
<1> QED BY <1>1, <1>2, <1>3 DEF Next

\* A call that begins has no code accepted yet.
LEMMA CallPc ==
    ASSUME TypeOK, NEW h \in Handlers, Call(h)
    PROVE  /\ \A g \in Handlers \ {h} : local'[g] = local[g]
           /\ local'[h].pc \notin {"reread", "flag"}
<1>1. local \in [Handlers -> Local]
  BY DEF TypeOK, LocalsOK
<1>2. ASSUME NEW l, Begin(h, l), l.pc \notin {"reread", "flag"}
      PROVE  /\ \A g \in Handlers \ {h} : local'[g] = local[g]
             /\ local'[h].pc \notin {"reread", "flag"}
  BY <1>1, <1>2 DEF Begin
<1>3. ASSUME NEW s, NEW ch, NEW new, NEW pc, pc \notin {"reread", "flag"},
             BeginAs(h, pc, s, ch, new)
      PROVE  /\ \A g \in Handlers \ {h} : local'[g] = local[g]
             /\ local'[h].pc \notin {"reread", "flag"}
  <2> DEFINE l == [Idle EXCEPT !.pc = pc, !.u = s.sub, !.ver = s.ver, !.ch = ch, !.new = new,
                               !.seen = SeenBy(s, ch)]
  <2>1. l.pc = pc
    BY DEF Idle
  <2>2. Begin(h, l)
    BY <1>3 DEF BeginAs
  <2> QED BY <1>2, <1>3, <2>1, <2>2
<1>4. CASE \E e \in Contacts, p \in Passwords : LoginRead(h, e, p)
  BY <1>2, <1>4 DEF LoginRead, Idle
<1>5. CASE \E e \in Contacts : ForgotRead(h, e)
  BY <1>2, <1>5 DEF ForgotRead, Idle
<1>6. CASE \E i \in Resets, p \in Passwords : ResetRead(h, i, p)
  BY <1>2, <1>6 DEF ResetRead, Idle
<1> QED
  BY <1>3, <1>4, <1>5, <1>6
     DEF Call, LogoutRead, DeleteRead, ChangePasswordRead, ChangeEmailRead, UpdateProfileRead,
         VerifyContactRead

LEMMA AcceptedStep == ASSUME TypeOK, CodeWasAccepted, [Next]_vars PROVE CodeWasAccepted'
<1> DEFINE Claim(k) == [sub |-> local[k].u, ch |-> local[k].ch, contact |-> local[k].seen]
<1> SUFFICES ASSUME NEW k \in Handlers, local'[k].pc \in {"reread", "flag"}
             PROVE  [sub |-> local'[k].u, ch |-> local'[k].ch, contact |-> local'[k].seen] \in proven'
  BY DEF CodeWasAccepted
<1>1. local \in [Handlers -> Local] /\ proven \subseteq proven'
  BY ProvenGrows DEF TypeOK, LocalsOK
<1>2. CASE local'[k] = local[k]
  BY <1>1, <1>2 DEF CodeWasAccepted
<1>3. CASE local[k].pc \in {"reread", "flag"} /\ Goto(k, "flag")
  BY <1>1, <1>3 DEF CodeWasAccepted, Goto, Local
<1>4. CASE VerifyContactCode(k)
  <2>1. /\ local'[k].u = local[k].u /\ local'[k].ch = local[k].ch
        /\ local'[k].seen = local[k].seen
    BY <1>1, <1>4 DEF VerifyContactCode, Goto, Local
  <2>2. Claim(k) \in proven'
    BY <1>4 DEF VerifyContactCode
  <2> QED BY <2>1, <2>2
<1>5. ASSUME NEW h \in Handlers, Call(h) PROVE local'[k] = local[k]
  <2>1. /\ \A g \in Handlers \ {h} : local'[g] = local[g]
        /\ local'[h].pc \notin {"reread", "flag"}
    BY <1>5, CallPc
  <2> QED BY <2>1
<1>6. ASSUME NEW h \in Handlers, Continue(h)
      PROVE  \/ local'[k] = local[k] \/ VerifyContactCode(k)
             \/ local[k].pc \in {"reread", "flag"} /\ Goto(k, "flag")
  <2>1. CASE End(h)
    BY <1>1, <2>1 DEF End, Idle
  <2>2. CASE VerifyContactCode(h)
    BY <1>1, <2>2 DEF VerifyContactCode, Goto
  <2>3. CASE SetVerifiedRead(h)
    BY <1>1, <2>1, <2>3 DEF SetVerifiedRead, Goto
  <2>4. End(h) \/ VerifyContactCode(h) \/ SetVerifiedRead(h)
    BY <1>6 DEF Continue, LoginWrite, LogoutWrite, ChangePasswordWrite, ContactWrite,
                DeleteWrite, VerifyContactRefused, SetVerifiedWrite, ForgotWrite, ResetWrite
  <2> QED BY <2>1, <2>2, <2>3, <2>4
<1>7. ~Restart
  BY DEF Restart, Idle
<1>8. (\E i \in Resets : PruneReset(i)) \/ UNCHANGED vars => local'[k] = local[k]
  BY DEF PruneReset, vars
<1> QED BY <1>2, <1>3, <1>4, <1>5, <1>6, <1>7, <1>8 DEF Next

\* What a write leaves of the contact and the flag of u: the same, or new values
\* that the handler vouches for.
LEMMA FlagStep ==
    ASSUME TypeOK, CodeWasAccepted, NEW h \in Handlers, Continue(h),
           NEW u \in Users, NEW ch \in Channels, ~ReadStale(u, ch)
    PROVE  \/ /\ user'[u].contact[ch] = user[u].contact[ch]
              /\ user'[u].verified[ch] => user[u].verified[ch]
           \/ ~user'[u].verified[ch]
           \/ user'[u].contact[ch] = user[u].contact[ch] /\ Proved(u, ch)
<1> DEFINE w == local[h].u
           Same == /\ user'[u].contact[ch] = user[u].contact[ch]
                   /\ user'[u].verified[ch] => user[u].verified[ch]
<1>1. user \in [Users -> User] /\ user[u] \in User
  BY DEF TypeOK, UsersOK
<1>2. ASSUME NEW row, Write(h, row), w = u => row.contact = user[u].contact
                                              /\ row.verified = user[u].verified
      PROVE  Same
  <2>1. user'[u] = user[u] \/ (w = u /\ user'[u] = row)
    BY <1>1, <1>2 DEF Write
  <2> QED BY <1>2, <2>1
<1>3. CASE LogoutWrite(h)
  BY <1>1, <1>2, <1>3 DEF LogoutWrite, User
<1>4. CASE ChangePasswordWrite(h)
  BY <1>1, <1>2, <1>4 DEF ChangePasswordWrite, User
<1>5. CASE ResetWrite(h)
  <2>1. CASE UNCHANGED user
    BY <2>1
  <2>2. CASE ~UNCHANGED user
    BY <1>1, <1>2, <1>5, <2>2 DEF ResetWrite, User
  <2> QED BY <2>1, <2>2
<1>6. CASE DeleteWrite(h)
  BY <1>1, <1>2, <1>6 DEF DeleteWrite, User
<1>7. CASE ContactWrite(h)
  <2>1. CASE user'[u] = user[u]
    BY <2>1
  <2>2. CASE user'[u] # user[u]
    <3> DEFINE c == local[h].ch
               con == [user[u].contact EXCEPT ![c] = local[h].new]
               flags == [user[u].verified EXCEPT ![c] = @ /\ Unchanged(h)]
    <3>1. /\ w = u
          /\ user'[u] = [user[u] EXCEPT !.contact[c] = local[h].new,
                                        !.verified[c] = @ /\ Unchanged(h)]
      BY <1>1, <1>7, <2>2 DEF ContactWrite, Write
    <3>2. user'[u].contact = con /\ user'[u].verified = flags
      BY <1>1, <3>1 DEF User
    <3>3. user[u].contact \in [Channels -> Contacts] /\ user[u].verified \in [Channels -> BOOLEAN]
      BY <1>1 DEF User
    <3>4. CASE ch # c
      BY <3>2, <3>3, <3>4
    <3>5. CASE ch = c
      <4>1. user'[u].contact[ch] = local[h].new
        BY <3>2, <3>3, <3>5
      <4>2. user'[u].verified[ch] = (user[u].verified[ch] /\ Unchanged(h))
        BY <3>2, <3>3, <3>5
      <4>3. local[h].seen = user[u].contact[ch]
        BY <3>1, <3>5 DEF ReadStale
      <4> QED BY <4>1, <4>2, <4>3 DEF Unchanged
    <3> QED BY <3>4, <3>5
  <2> QED BY <2>1, <2>2
<1>8. CASE SetVerifiedWrite(h)
  <2>1. CASE user'[u] = user[u]
    BY <2>1
  <2>2. CASE user'[u] # user[u]
    <3> DEFINE c == local[h].ch
               flags == [user[u].verified EXCEPT ![c] = TRUE]
    <3>1. w = u /\ user'[u] = [user[u] EXCEPT !.verified[c] = TRUE]
      BY <1>1, <1>8, <2>2 DEF SetVerifiedWrite, Write
    <3>2. user'[u].contact = user[u].contact /\ user'[u].verified = flags
      BY <1>1, <3>1 DEF User
    <3>3. CASE ch # c
      BY <1>1, <3>2, <3>3 DEF User
    <3>4. CASE ch = c
      <4>1. local[h].seen = user[u].contact[ch]
        BY <3>1, <3>4 DEF ReadStale
      <4>2. [sub |-> w, ch |-> c, contact |-> local[h].seen] \in proven
        BY <1>8 DEF CodeWasAccepted, SetVerifiedWrite
      <4> QED BY <3>1, <3>2, <3>4, <4>1, <4>2 DEF Proved
    <3> QED BY <3>3, <3>4
  <2> QED BY <2>1, <2>2
<1>9. \/ LoginWrite(h) \/ VerifyContactCode(h) \/ VerifyContactRefused(h)
      \/ SetVerifiedRead(h) \/ \E i \in Resets : ForgotWrite(h, i)
      => UNCHANGED user
  BY DEF LoginWrite, VerifyContactCode, VerifyContactRefused, SetVerifiedRead, ForgotWrite
<1> QED BY <1>3, <1>4, <1>5, <1>6, <1>7, <1>8, <1>9 DEF Continue

LEMMA HonestStep ==
    ASSUME TypeOK, CodeWasAccepted, [Next]_vars, NEW u \in Users, NEW ch \in Channels,
           user[u].verified[ch] => Proved(u, ch), ~ReadStale(u, ch)
    PROVE  (user[u].verified[ch] => Proved(u, ch))'
<1>1. proven \subseteq proven'
  BY ProvenGrows
<1>2. CASE UNCHANGED user
  BY <1>1, <1>2 DEF Proved
<1>3. ASSUME NEW h \in Handlers, Continue(h) PROVE (user[u].verified[ch] => Proved(u, ch))'
  BY <1>1, <1>3, FlagStep DEF Proved
<1>4. ASSUME NEW h \in Handlers, Call(h) PROVE UNCHANGED user
  BY <1>4, CallFrame
<1>5. Restart \/ (\E i \in Resets : PruneReset(i)) \/ UNCHANGED vars => UNCHANGED user
  BY DEF Restart, PruneReset, vars
<1> QED BY <1>2, <1>3, <1>4, <1>5 DEF Next

\* emailVerified and phoneVerified only become untrue through a call that read the
\* contact before another call changed it: serial calls never misreport.
THEOREM MisreportNeedsOverlap == Spec => OnlyStaleReadsMisreport
<1> DEFINE I == TypeOK /\ CodeWasAccepted
<1>1. Init => I
  <2> SUFFICES ASSUME Init PROVE CodeWasAccepted
    BY TypeInit
  <2>1. ASSUME NEW h \in Handlers PROVE local[h].pc = "idle"
    BY DEF Init, Idle
  <2> QED BY <2>1 DEF CodeWasAccepted
<1>2. I /\ [Next]_vars => I'
  BY TypeStep, AcceptedStep
<1>3. I /\ [Next]_vars
      => [\A u \in Users, ch \in Channels :
             /\ user[u].verified[ch] => Proved(u, ch)
             /\ ~ReadStale(u, ch)
             => (user[u].verified[ch] => Proved(u, ch))']_vars
  BY HonestStep
<1> QED BY <1>1, <1>2, <1>3, PTL DEF Spec, OnlyStaleReadsMisreport
=============================================================================
