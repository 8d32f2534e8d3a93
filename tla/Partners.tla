------------------------------ MODULE Partners ------------------------------
(***************************************************************************)
(* Partner accounts: registration with an SMS check, sessions and          *)
(* self-service of PartnerService.                                         *)
(*                                                                         *)
(* A call reads, awaits (a password hash, another query) and then writes   *)
(* by primary key; the calls interleave between the two.  Every partner is *)
(* ACTIVE: nothing in the code sets another status.  Names, addresses and  *)
(* the audit log are left out; the referrals of a partner and their        *)
(* cascade are those of Referral.                                          *)
(***************************************************************************)
EXTENDS Naturals, FiniteSets

CONSTANTS
    Ids,            \* primary keys; never used twice
    Slugs,          \* well-formed links that are not reserved
    Phones,         \* valid normalised numbers
    Passwords, Ibans,
    Tokens,         \* verification tokens: their jtis
    ContactOf,      \* the number each token proves
    Handlers,       \* slots of concurrent calls
    Null,           \* the null value
    MaxCalls        \* bound: calls started in a behaviour

ASSUME PartnersAssumption ==
    /\ Null \notin Ids \cup Slugs \cup Phones \cup Passwords \cup Ibans \cup Tokens
    /\ ContactOf \in [Tokens -> Phones]
    /\ MaxCalls \in Nat

VARIABLES
    partner,        \* table Partner
    sessions,       \* access tokens handed out
    used,           \* table UsedVerificationToken
    expired,        \* verification tokens whose time is over
    local,          \* local state of each call
    calls           \* bound: calls started so far

partnersVars == <<partner, sessions, used, expired, local, calls>>

\* History fields of a row: the token it was registered with, and whether that
\* token had expired by the time the row was written.
Partner == [state: {"unused", "live", "deleted"}, slug: Slugs \cup {Null},
            phone: Phones \cup {Null}, password: Passwords \cup {Null}, verified: BOOLEAN,
            payout: Ibans \cup {Null}, version: Nat, proof: Tokens \cup {Null}, late: BOOLEAN]

\* History fields of a session: the password it was opened with, and whether the
\* login that opened it had read an older row.
Session == [sub: Ids, ver: Nat, password: Passwords, late: BOOLEAN]

Local == [pc: {"idle", "register", "login", "logout", "payout", "phone", "password", "delete"},
          id: Ids \cup {Null}, ver: Nat, seen: Phones \cup {Null}, slug: Slugs \cup {Null},
          new: Phones \cup Passwords \cup Ibans \cup {Null}, password: Passwords \cup {Null},
          token: Tokens \cup {Null}]

Unused == [state |-> "unused", slug |-> Null, phone |-> Null, password |-> Null,
           verified |-> FALSE, payout |-> Null, version |-> 0, proof |-> Null, late |-> FALSE]

Idle == [pc |-> "idle", id |-> Null, ver |-> 0, seen |-> Null, slug |-> Null, new |-> Null,
         password |-> Null, token |-> Null]

PartnersInit ==
    /\ partner = [i \in Ids |-> Unused]
    /\ sessions = {} /\ used = {} /\ expired = {}
    /\ local = [h \in Handlers |-> Idle]
    /\ calls = 0

-----------------------------------------------------------------------------
(* Rows and tokens *)

Live(i) == partner[i].state = "live"

\* getActivePartner; the guard has checked signature, purpose and expiry.
Usable(s) == Live(s.sub) /\ partner[s.sub].version = s.ver

Begin(h, l) ==
    /\ local[h].pc = "idle" /\ calls < MaxCalls
    /\ local' = [local EXCEPT ![h] = l]
    /\ calls' = calls + 1
    /\ UNCHANGED <<partner, sessions, used, expired>>

End(h) == local' = [local EXCEPT ![h] = Idle] /\ UNCHANGED <<used, expired, calls>>

\* update by primary key; a row deleted meanwhile fails the call (P2025).
UpdateRow(h, row) ==
    LET i == local[h].id IN
    partner' = IF Live(i) THEN [partner EXCEPT ![i] = row] ELSE partner

\* Mutant: the version is computed from the row the handler read.
NextVersionRead(h) == local[h].ver + 1

\* { increment: 1 }
NextVersion(h) == partner[local[h].id].version + 1

\* issueSession, for the row the preceding update returned.
Issue(h, ver, password, late) ==
    LET i == local[h].id IN
    sessions' = IF Live(i) THEN sessions \cup {[sub |-> i, ver |-> ver, password |-> password,
                                                late |-> late]}
                ELSE sessions

-----------------------------------------------------------------------------
(* register *)

\* A token is optional; one that is given has to be valid and of this number.
Accepted(t, phone) == t # Null => t \notin expired /\ ContactOf[t] = phone

\* Slug and phone are unique indexes.
Clash(slug, phone) == \E i \in Ids : Live(i) /\ (partner[i].slug = slug \/ partner[i].phone = phone)

\* Token and clash are checked before the password is hashed ...
RegisterRead(h, slug, phone, password, t) ==
    /\ Accepted(t, phone)
    /\ ~Clash(slug, phone)
    /\ Begin(h, [Idle EXCEPT !.pc = "register", !.slug = slug, !.new = phone,
                             !.password = password, !.token = t])

\* Mutant: the jti is recorded but not required to be new.
FreshAnyway(t) == TRUE

\* ... and by then another call may have spent the jti, or taken slug or phone.
Fresh(t) == t \notin used

Spent(t) == {t} \ {Null}

\* One transaction: the jti and the row, or neither.
RegisterWrite(h, i) ==
    LET l == local[h]
        row == [state |-> "live", slug |-> l.slug, phone |-> l.new, password |-> l.password,
                verified |-> l.token # Null, payout |-> Null, version |-> 0,
                proof |-> l.token, late |-> l.token \in expired] IN
    /\ l.pc = "register" /\ partner[i].state = "unused"
    /\ IF Fresh(l.token) /\ ~Clash(l.slug, l.new)
       THEN /\ partner' = [partner EXCEPT ![i] = row]
            /\ used' = used \cup Spent(l.token)
            /\ sessions' = sessions \cup {[sub |-> i, ver |-> 0, password |-> l.password,
                                           late |-> FALSE]}
       ELSE UNCHANGED <<partner, used, sessions>>
    /\ local' = [local EXCEPT ![h] = Idle]
    /\ UNCHANGED <<expired, calls>>

-----------------------------------------------------------------------------
(* login, logout *)

\* The identifier, a number or a link, may match two partners; findFirst takes either.
LoginRead(h, i, password) ==
    /\ Live(i) /\ partner[i].password = password
    /\ Begin(h, [Idle EXCEPT !.pc = "login", !.id = i, !.ver = partner[i].version,
                             !.password = password])

\* Writing lastLoginAt returns the row as it is by now: its version is signed.
LoginWrite(h) ==
    /\ local[h].pc = "login"
    /\ LET version == partner[local[h].id].version IN
       Issue(h, version, local[h].password, local[h].ver # version)
    /\ End(h)
    /\ UNCHANGED partner

\* A call that carries an access token starts by loading its partner.
BeginAs(h, s, pc, new) ==
    /\ Usable(s)
    /\ Begin(h, [Idle EXCEPT !.pc = pc, !.id = s.sub, !.ver = s.ver,
                             !.seen = IF pc = "phone" THEN partner[s.sub].phone ELSE Null,
                             !.new = new])

LogoutWrite(h) ==
    /\ local[h].pc = "logout"
    /\ UpdateRow(h, [partner[local[h].id] EXCEPT !.version = NextVersion(h)])
    /\ End(h)
    /\ UNCHANGED sessions

-----------------------------------------------------------------------------
(* updatePayout, updateProfile, changePassword, deleteAccount *)

\* An account number that is not given is left as it is.
PayoutWrite(h) ==
    /\ local[h].pc = "payout"
    /\ UpdateRow(h, [partner[local[h].id] EXCEPT !.payout = IF local[h].new = Null THEN @
                                                            ELSE local[h].new])
    /\ End(h)
    /\ UNCHANGED sessions

\* Mutant: the flag survives a new number.
SamePhoneAlways(h) == TRUE

\* Whether the number changes is decided against the row read at the start.
SamePhone(h) == local[h].new = local[h].seen

\* The unique index refuses the number of another partner (P2002).
PhoneTaken(h) == \E i \in Ids \ {local[h].id} : Live(i) /\ partner[i].phone = local[h].new

PhoneWrite(h) ==
    /\ local[h].pc = "phone"
    /\ IF PhoneTaken(h) THEN UNCHANGED partner
       ELSE UpdateRow(h, [partner[local[h].id] EXCEPT !.phone = local[h].new,
                                                      !.verified = @ /\ SamePhone(h)])
    /\ End(h)
    /\ UNCHANGED sessions

PasswordWrite(h) ==
    /\ local[h].pc = "password"
    /\ UpdateRow(h, [partner[local[h].id] EXCEPT !.password = local[h].new,
                                                 !.version = NextVersion(h)])
    /\ Issue(h, NextVersion(h), local[h].new, FALSE)
    /\ End(h)

DeleteWrite(h) ==
    /\ local[h].pc = "delete"
    /\ UpdateRow(h, [partner[local[h].id] EXCEPT !.state = "deleted"])
    /\ End(h)
    /\ UNCHANGED sessions

-----------------------------------------------------------------------------
(* Time, pruneOtpArtifacts, restarts *)

Expire(t) == expired' = expired \cup {t} /\ UNCHANGED <<partner, sessions, used, local, calls>>

\* Mutant: a used token is forgotten while it is still valid.
PrunableAny(t) == TRUE

\* expiresAt < now: later than the moment from which the token is refused.
Prunable(t) == t \in expired

Prune(t) ==
    /\ Prunable(t) /\ t \in used
    /\ used' = used \ {t}
    /\ UNCHANGED <<partner, sessions, expired, local, calls>>

PartnersRestart ==
    /\ local' = [h \in Handlers |-> Idle]
    /\ UNCHANGED <<partner, sessions, used, expired, calls>>

-----------------------------------------------------------------------------
Call(h) ==
    \/ \E slug \in Slugs, phone \in Phones, p \in Passwords, t \in Tokens \cup {Null} :
          RegisterRead(h, slug, phone, p, t)
    \/ \E i \in Ids, p \in Passwords : LoginRead(h, i, p)
    \/ \E s \in sessions :
          \/ BeginAs(h, s, "logout", Null)
          \/ \E iban \in Ibans \cup {Null} : BeginAs(h, s, "payout", iban)
          \/ \E phone \in Phones : BeginAs(h, s, "phone", phone)
          \/ \E old, p \in Passwords :
                partner[s.sub].password = old /\ BeginAs(h, s, "password", p)
          \/ \E p \in Passwords : partner[s.sub].password = p /\ BeginAs(h, s, "delete", Null)

Finish(h) ==
    \/ \E i \in Ids : RegisterWrite(h, i)
    \/ LoginWrite(h) \/ LogoutWrite(h) \/ PayoutWrite(h) \/ PhoneWrite(h)
    \/ PasswordWrite(h) \/ DeleteWrite(h)

PartnersNext ==
    \/ \E h \in Handlers : Call(h) \/ Finish(h)
    \/ \E t \in Tokens : Expire(t) \/ Prune(t)
    \/ PartnersRestart

PartnersSpec == PartnersInit /\ [][PartnersNext]_partnersVars

-----------------------------------------------------------------------------
\* What a call under way has read.
LocalOK(l) ==
    /\ l.pc \notin {"idle", "register"} => l.id \in Ids
    /\ l.pc = "register" => l.slug \in Slugs /\ l.new \in Phones
    /\ l.pc \in {"register", "login"} => l.password \in Passwords
    /\ l.pc = "payout" => l.new \in Ibans \cup {Null}
    /\ l.pc = "phone" => l.new \in Phones
    /\ l.pc = "password" => l.new \in Passwords

PartnersTypeOK ==
    /\ partner \in [Ids -> Partner]
    /\ sessions \in SUBSET Session
    /\ used \in SUBSET Tokens /\ expired \in SUBSET Tokens
    /\ local \in [Handlers -> Local]
    /\ \A h \in Handlers : LocalOK(local[h])
    /\ calls \in Nat

-----------------------------------------------------------------------------
(* What the accounts promise *)

\* "A changed number is no longer proven": a number shown as verified is the one the
\* partner proved at registration, although updateProfile compares with a row it read earlier.
VerifiedWasProven ==
    \A i \in Ids : Live(i) /\ partner[i].verified =>
        /\ partner[i].proof # Null
        /\ partner[i].phone = ContactOf[partner[i].proof]

\* "One SMS check can create at most one partner", as long as the jti is kept: a second
\* partner of one check was committed after the check had expired, its registration
\* having passed the early test before.
OneAccountPerProof ==
    \A i, j \in Ids : /\ i # j
                      /\ partner[i].proof = partner[j].proof /\ partner[i].proof # Null
                      => partner[i].late \/ partner[j].late

\* "Bumping tokenVersion revokes every OTHER session": a session that still works was
\* opened with the password the account has now, unless by a login that had compared the
\* old one and signed the version it found after the change.
OnlyLateLoginOutlives ==
    \A s \in sessions : Usable(s) => s.late \/ s.password = partner[s.sub].password

\* Why they hold.  No token was signed with a version its partner has yet to reach ...
VersionsBehind ==
    \A s \in sessions : partner[s.sub].state # "unused" /\ s.ver <= partner[s.sub].version

\* ... a token that made a partner is on record for as long as it is valid ...
ProofsKept == \A i \in Ids : partner[i].proof # Null => partner[i].proof \in used \cup expired

\* ... and what a call has read is old only if its partner has lost the flag, or has
\* had its version bumped, since.
CallOK(l) ==
    /\ l.pc \notin {"idle", "register"} => partner[l.id].state # "unused"
    /\ l.pc = "register" /\ l.token # Null => ContactOf[l.token] = l.new
    /\ l.pc = "phone" /\ partner[l.id].verified => l.seen = partner[l.id].phone
    /\ l.pc = "login" => /\ l.ver <= partner[l.id].version
                         /\ l.ver = partner[l.id].version => l.password = partner[l.id].password

CallsOK == \A h \in Handlers : CallOK(local[h])

IInv == /\ PartnersTypeOK /\ VersionsBehind /\ ProofsKept /\ CallsOK
        /\ VerifiedWasProven /\ OneAccountPerProof /\ OnlyLateLoginOutlives
=============================================================================
