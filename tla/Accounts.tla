------------------------------ MODULE Accounts ------------------------------
(***************************************************************************)
(* Worker accounts: the session and self-service handlers of AuthService.  *)
(*                                                                         *)
(* A handler reads its rows, awaits (a password hash, the OTP service,     *)
(* another query), and then writes by primary key: between the two every   *)
(* other handler may run.  The write itself is one database statement, and *)
(* "increment" is evaluated by the database.                               *)
(***************************************************************************)
EXTENDS Naturals, FiniteSets

CONSTANTS
    Users,          \* primary keys; never used twice
    Channels,       \* "email" and "sms"
    Contacts,       \* normalised addresses and phone numbers
    Passwords,
    Resets,         \* primary keys of PasswordReset
    Handlers,       \* slots of concurrent calls
    None,           \* the null value
    MaxVersion      \* bound: token version from which no more bumps are started

ASSUME AccountsAssumption ==
    /\ None \notin Contacts \cup Passwords \cup Users \cup Resets \cup Channels
    /\ {"email", "sms"} \subseteq Channels
    /\ MaxVersion \in Nat

VARIABLES
    user,           \* table User
    sessions,       \* access tokens handed out
    reset,          \* table PasswordReset
    local,          \* local state of each call
    proven,         \* history: contacts each user proved with a code
    resetUses       \* history: resets of the password made with each token

vars == <<user, sessions, reset, local, proven, resetUses>>

User == [live: BOOLEAN, password: Passwords, version: Nat,
         contact: [Channels -> Contacts], verified: [Channels -> BOOLEAN]]

Session == [sub: Users, ver: Nat]

\* Keys are random: the key of a deleted row is not handed out again.
Reset == [owner: Users \cup {None}, state: {"unused", "open", "consumed", "deleted"}]

Local == [pc: {"idle", "login", "logout", "password", "contact", "delete", "otp",
               "reread", "flag", "forgot", "reset"},
          u: Users \cup {None}, ver: Nat, ch: Channels \cup {None},
          new: Contacts \cup Passwords \cup {None},
          seen: Contacts \cup {None}, id: Resets \cup {None}]

\* What a call under way has read: its user, and what it needs of the row.
LocalOK(l) ==
    /\ l.pc # "idle" => l.u \in Users
    /\ l.pc \in {"password", "reset"} => l.new \in Passwords
    /\ l.pc \in {"contact", "otp", "reread", "flag"} => l.ch \in Channels /\ l.seen \in Contacts
    /\ l.pc = "contact" => l.new \in Contacts
    /\ l.pc = "reset" => l.id \in Resets

Idle == [pc |-> "idle", u |-> None, ver |-> 0, ch |-> None, new |-> None,
         seen |-> None, id |-> None]

NoReset == [owner |-> None, state |-> "unused"]
Deleted == [owner |-> None, state |-> "deleted"]

Stored(i) == reset[i].state \in {"open", "consumed"}

\* Registration has created the accounts; nobody is logged in.
Init ==
    /\ user \in [Users -> [live: {TRUE}, password: Passwords, version: {0},
                           contact: [Channels -> Contacts],
                           verified: {[ch \in Channels |-> FALSE]}]]
    /\ \A u, w \in Users : user[u].contact["email"] = user[w].contact["email"] => u = w
    /\ sessions = {}
    /\ reset = [i \in Resets |-> NoReset]
    /\ local = [h \in Handlers |-> Idle]
    /\ proven = {}
    /\ resetUses = [i \in Resets |-> 0]

-----------------------------------------------------------------------------
(* Rows and tokens *)

\* AuthService.assertUsable; the guard has checked signature and expiry.
Usable(s) == user[s.sub].live /\ user[s.sub].version = s.ver

Begin(h, l) == local[h].pc = "idle" /\ local' = [local EXCEPT ![h] = l]
Goto(h, pc) == local' = [local EXCEPT ![h].pc = pc]
End(h) == local' = [local EXCEPT ![h] = Idle]

\* Mutant: the contact the code is for is not kept.
SeenNothing(s, ch) == None

SeenBy(s, ch) == IF ch = None THEN None ELSE user[s.sub].contact[ch]

\* A call that carries an access token starts by loading its user.
BeginAs(h, pc, s, ch, new) ==
    /\ Usable(s)
    /\ Begin(h, [Idle EXCEPT !.pc = pc, !.u = s.sub, !.ver = s.ver, !.ch = ch, !.new = new,
                             !.seen = SeenBy(s, ch)])
    /\ UNCHANGED <<user, sessions, reset, proven, resetUses>>

\* Mutant: upsert instead of update, the row comes back.
WriteUpsert(h, row) == user' = [user EXCEPT ![local[h].u] = [row EXCEPT !.live = local[h].pc # "delete"]]

\* update by primary key; a row deleted meanwhile fails the call (P2025).
Write(h, row) ==
    LET u == local[h].u IN
    user' = IF user[u].live THEN [user EXCEPT ![u] = row] ELSE user

Issue(h, ver) ==
    LET u == local[h].u IN
    sessions' = IF user[u].live THEN sessions \cup {[sub |-> u, ver |-> ver]} ELSE sessions

\* Mutant: the version is computed from the one the handler read.
NextVersionRead(h) == local[h].ver + 1

\* { increment: 1 }
NextVersion(h) == user[local[h].u].version + 1

\* Bound: no call that would bump a version starts beyond MaxVersion.
CanBump(u) == user[u].version < MaxVersion

-----------------------------------------------------------------------------
(* login, logout *)

\* The password is compared while other calls run.
LoginRead(h, e, p) ==
    \E u \in Users :
        /\ user[u].live /\ user[u].contact["email"] = e /\ user[u].password = p
        /\ Begin(h, [Idle EXCEPT !.pc = "login", !.u = u])
        /\ UNCHANGED <<user, sessions, reset, proven, resetUses>>

\* Writing lastLoginAt returns the row as it is by now: its version is signed.
LoginWrite(h) ==
    /\ local[h].pc = "login"
    /\ Issue(h, user[local[h].u].version)
    /\ End(h)
    /\ UNCHANGED <<user, reset, proven, resetUses>>

LogoutRead(h, s) == CanBump(s.sub) /\ BeginAs(h, "logout", s, None, None)

LogoutWrite(h) ==
    /\ local[h].pc = "logout"
    /\ Write(h, [user[local[h].u] EXCEPT !.version = NextVersion(h)])
    /\ End(h)
    /\ UNCHANGED <<sessions, reset, proven, resetUses>>

-----------------------------------------------------------------------------
(* changePassword, changeEmail, updateProfile, deleteAccount *)

ChangePasswordRead(h, s, old, new) ==
    /\ user[s.sub].password = old /\ CanBump(s.sub)
    /\ BeginAs(h, "password", s, None, new)

ChangePasswordWrite(h) ==
    /\ local[h].pc = "password"
    /\ Write(h, [user[local[h].u] EXCEPT !.password = local[h].new, !.version = NextVersion(h)])
    /\ Issue(h, NextVersion(h))
    /\ End(h)
    /\ UNCHANGED <<reset, proven, resetUses>>

ChangeEmailRead(h, s, p, new) ==
    /\ user[s.sub].password = p
    /\ BeginAs(h, "contact", s, "email", new)

\* updateProfile changes the phone number without asking for the password.
UpdateProfileRead(h, s, new) == BeginAs(h, "contact", s, "sms", new)

\* User.email is unique: a taken address fails the call, at the check or later.
Taken(u, ch, new) ==
    ch = "email" /\ \E w \in Users \ {u} : user[w].live /\ user[w].contact[ch] = new

\* Mutant: the flag survives the change.
StillVerified(h) == TRUE

\* Whether the address changes is decided against the row read at the start.
Unchanged(h) == local[h].new = local[h].seen

ContactWrite(h) ==
    LET u == local[h].u
        ch == local[h].ch IN
    /\ local[h].pc = "contact"
    /\ IF Taken(u, ch, local[h].new) THEN UNCHANGED user
       ELSE Write(h, [user[u] EXCEPT !.contact[ch] = local[h].new,
                                     !.verified[ch] = @ /\ Unchanged(h)])
    /\ End(h)
    /\ UNCHANGED <<sessions, reset, proven, resetUses>>

DeleteRead(h, s, p) ==
    /\ user[s.sub].password = p
    /\ BeginAs(h, "delete", s, None, None)

\* PasswordReset rows go with their user (onDelete: Cascade).
DeleteWrite(h) ==
    /\ local[h].pc = "delete"
    /\ Write(h, [user[local[h].u] EXCEPT !.live = FALSE])
    /\ reset' = [i \in Resets |-> IF reset[i].owner = local[h].u THEN Deleted ELSE reset[i]]
    /\ End(h)
    /\ UNCHANGED <<sessions, proven, resetUses>>

-----------------------------------------------------------------------------
(* verifyContact, setContactVerified *)

VerifyContactRead(h, s, ch) == BeginAs(h, "otp", s, ch, None)

\* OtpService.verify accepts the code for the address read at the start.
VerifyContactCode(h) ==
    /\ local[h].pc = "otp"
    /\ proven' = proven \cup {[sub |-> local[h].u, ch |-> local[h].ch, contact |-> local[h].seen]}
    /\ Goto(h, "reread")
    /\ UNCHANGED <<user, sessions, reset, resetUses>>

VerifyContactRefused(h) ==
    /\ local[h].pc = "otp"
    /\ End(h)
    /\ UNCHANGED <<user, sessions, reset, proven, resetUses>>

SetVerifiedRead(h) ==
    /\ local[h].pc = "reread"
    /\ IF Usable([sub |-> local[h].u, ver |-> local[h].ver]) THEN Goto(h, "flag") ELSE End(h)
    /\ UNCHANGED <<user, sessions, reset, proven, resetUses>>

SetVerifiedWrite(h) ==
    /\ local[h].pc = "flag"
    /\ Write(h, [user[local[h].u] EXCEPT !.verified[local[h].ch] = TRUE])
    /\ End(h)
    /\ UNCHANGED <<sessions, reset, proven, resetUses>>

-----------------------------------------------------------------------------
(* forgotPassword, resetPassword, pruneAuthArtifacts *)

ForgotRead(h, e) ==
    \E u \in Users :
        /\ user[u].live /\ user[u].contact["email"] = e
        /\ Begin(h, [Idle EXCEPT !.pc = "forgot", !.u = u])
        /\ UNCHANGED <<user, sessions, reset, proven, resetUses>>

\* The foreign key: a deleted user has no row to refer to.
Referable(h) == user[local[h].u].live

ForgotWrite(h, i) ==
    /\ local[h].pc = "forgot"
    /\ reset[i].state = "unused"
    /\ reset' = IF Referable(h)
                THEN [reset EXCEPT ![i] = [owner |-> local[h].u, state |-> "open"]] ELSE reset
    /\ End(h)
    /\ UNCHANGED <<user, sessions, proven, resetUses>>

ResetRead(h, i, new) ==
    /\ reset[i].state = "open" /\ CanBump(reset[i].owner)
    /\ Begin(h, [Idle EXCEPT !.pc = "reset", !.u = reset[i].owner, !.id = i, !.new = new])
    /\ UNCHANGED <<user, sessions, reset, proven, resetUses>>

\* One transaction: a missing user or token row rolls all of it back.
ResetWrite(h) ==
    LET u == local[h].u
        i == local[h].id IN
    /\ local[h].pc = "reset"
    /\ IF user[u].live /\ Stored(i)
       THEN /\ Write(h, [user[u] EXCEPT !.password = local[h].new, !.version = NextVersion(h)])
            /\ reset' = [j \in Resets |-> IF reset[j].owner = u
                                          THEN [reset[j] EXCEPT !.state = "consumed"] ELSE reset[j]]
            /\ resetUses' = [resetUses EXCEPT ![i] = @ + 1]
       ELSE UNCHANGED <<user, reset, resetUses>>
    /\ End(h)
    /\ UNCHANGED <<sessions, proven>>

\* Consumed tokens go every hour, and so does any token that has expired.
PruneReset(i) ==
    /\ Stored(i)
    /\ reset' = [reset EXCEPT ![i] = Deleted]
    /\ UNCHANGED <<user, sessions, local, proven, resetUses>>

Restart ==
    /\ local' = [h \in Handlers |-> Idle]
    /\ UNCHANGED <<user, sessions, reset, proven, resetUses>>

-----------------------------------------------------------------------------
Call(h) ==
    \/ \E e \in Contacts, p \in Passwords : LoginRead(h, e, p)
    \/ \E e \in Contacts : ForgotRead(h, e)
    \/ \E i \in Resets, p \in Passwords : ResetRead(h, i, p)
    \/ \E s \in sessions :
          \/ LogoutRead(h, s)
          \/ \E p \in Passwords : DeleteRead(h, s, p)
          \/ \E p, new \in Passwords : ChangePasswordRead(h, s, p, new)
          \/ \E p \in Passwords, new \in Contacts : ChangeEmailRead(h, s, p, new)
          \/ \E new \in Contacts : UpdateProfileRead(h, s, new)
          \/ \E ch \in Channels : VerifyContactRead(h, s, ch)

Continue(h) ==
    \/ LoginWrite(h) \/ LogoutWrite(h) \/ ChangePasswordWrite(h) \/ ContactWrite(h)
    \/ DeleteWrite(h) \/ VerifyContactCode(h) \/ VerifyContactRefused(h)
    \/ SetVerifiedRead(h) \/ SetVerifiedWrite(h)
    \/ \E i \in Resets : ForgotWrite(h, i)
    \/ ResetWrite(h)

Next ==
    \/ \E h \in Handlers : Call(h) \/ Continue(h)
    \/ \E i \in Resets : PruneReset(i)
    \/ Restart

Spec == Init /\ [][Next]_vars

UsersOK == user \in [Users -> User] /\ sessions \in SUBSET Session

ResetsOK ==
    /\ reset \in [Resets -> Reset]
    /\ \A i \in Resets : Stored(i) <=> reset[i].owner \in Users

LocalsOK ==
    /\ local \in [Handlers -> Local]
    /\ \A h \in Handlers : LocalOK(local[h])

HistoryOK ==
    /\ proven \in SUBSET [sub: Users, ch: Channels, contact: Contacts]
    /\ resetUses \in [Resets -> Nat]

TypeOK == UsersOK /\ ResetsOK /\ LocalsOK /\ HistoryOK

-----------------------------------------------------------------------------
(* What the accounts promise *)

\* No token was signed with a version its user has yet to reach: a bump makes
\* a number no token carries.
VersionsBehind == \A s \in sessions : s.ver <= user[s.sub].version

\* Revocation is final: no later write, of whatever handler was under way,
\* makes an access token usable again.
RevokedStaysRevoked == [][\A s \in sessions : ~Usable(s) => ~Usable(s)']_vars

\* "Bumping tokenVersion invalidates every existing session": when a password
\* changes, no token handed out before survives, not even one of a login or a
\* logout that overlaps the change.
RevocationIsTotal ==
    [][\A s \in sessions : user'[s.sub].password # user[s.sub].password => ~Usable(s)']_vars

\* A reset token in the table belongs to an account that exists, although an
\* account can go while a request for its token is under way.
ResetHasUser == \A i \in Resets : Stored(i) => user[reset[i].owner].live

Proved(u, ch) == [sub |-> u, ch |-> ch, contact |-> user[u].contact[ch]] \in proven

\* A handler that read the contact of u before it was last changed.
ReadStale(u, ch) ==
    \E h \in Handlers : /\ local[h].u = u /\ local[h].ch = ch
                        /\ local[h].seen # user[u].contact[ch]

\* "the account can't claim verified for an unproven mailbox" (or number) is not kept: a
\* change of the contact between the code and the flag breaks it.  But the flag only ever
\* becomes wrong through a call that read an older contact: calls that do not overlap a
\* change of the contact keep the flag truthful.
OnlyStaleReadsMisreport ==
    [][\A u \in Users, ch \in Channels :
          /\ user[u].verified[ch] => Proved(u, ch)
          /\ ~ReadStale(u, ch)
          => (user[u].verified[ch] => Proved(u, ch))']_vars

\* Why: a call about to set the flag has proved the contact it read.
CodeWasAccepted ==
    \A h \in Handlers : local[h].pc \in {"reread", "flag"} =>
        [sub |-> local[h].u, ch |-> local[h].ch, contact |-> local[h].seen] \in proven

\* "A reset request mints a single-use token": it sets one password.
ResetUsedOnce == \A i \in Resets : resetUses[i] <= 1
=============================================================================
