------------------------------ MODULE Referral ------------------------------
(***************************************************************************)
(* Referrals of recruited workers and the rewards partners earn with them: *)
(* PartnerService.linkReferral, fortschreiben, praemieCents,               *)
(* setReferralStatus and deleteAccount.                                    *)
(*                                                                         *)
(* fortschreiben is started and not awaited when an application or an      *)
(* offer changes; an administrator moves referrals by hand.  Both read the *)
(* row, decide, perhaps ask for the price, and then write by primary key.  *)
(***************************************************************************)
EXTENDS Naturals

CONSTANTS
    Users,          \* registered workers; at most one referral each
    Partners,       \* primary keys of partners
    Self,           \* pairs <<u, p>> of a user and a partner with one phone or e-mail
    Calls,          \* slots of concurrent fortschreiben and setReferralStatus calls
    Prices,         \* rewards in cents that admin.setting can hold
    Fallback,       \* REWARD_CENTS_FALLBACK
    None            \* the null value

ASSUME ReferralAssumption ==
    /\ Prices \subseteq Nat /\ Fallback \in Nat
    /\ None \notin Partners \cup Nat

VARIABLES
    partners,       \* partners with an account
    ref,            \* table Referral, unique on referredUserId
    referredBy,     \* User.referredBy
    link,           \* local state of linkReferral, one call per registration
    call,           \* local state of the status calls
    price,          \* admin.setting; None where the schema does not exist
    cache,          \* praemieCache
    due             \* history: users who were placed while their referral is behind

vars == <<partners, ref, referredBy, link, call, price, cache, due>>

Status == {"REGISTERED", "IN_PLACEMENT", "PLACED", "PAID"}

rang == [REGISTERED |-> 0, IN_PLACEMENT |-> 1, PLACED |-> 2, PAID |-> 3]

\* placed and paid: whether placedAt and paidAt are set.
Row == [partner: Partners \cup {None}, status: Status, reward: Nat,
        placed: BOOLEAN, paid: BOOLEAN]

NoRow == [partner |-> None, status |-> "REGISTERED", reward |-> 0,
          placed |-> FALSE, paid |-> FALSE]

NewRow(p) == [NoRow EXCEPT !.partner = p]

Present(u) == ref[u].partner # None

Link == [pc: {"new", "upsert", "stamp", "done"}, p: Partners \cup {None}]

\* seen: the row as it was read; cents: the answer of praemieCents.
CallState == [pc: {"idle", "price", "write"}, by: {"event", "admin"}, u: Users \cup {None},
              to: Status, seen: Row, cents: Nat]

IdleCall == [pc |-> "idle", by |-> "event", u |-> None, to |-> "REGISTERED",
             seen |-> NoRow, cents |-> 0]

TypeOK ==
    /\ partners \in SUBSET Partners
    /\ ref \in [Users -> Row]
    /\ referredBy \in [Users -> Partners \cup {None}]
    /\ link \in [Users -> Link]
    /\ call \in [Calls -> CallState]
    /\ \A h \in Calls : call[h].pc # "idle" => call[h].u \in Users
    /\ price \in Prices \cup {None}
    /\ cache \in Prices \cup {Fallback, None}
    /\ due \subseteq Users

Init ==
    /\ partners = Partners
    /\ ref = [u \in Users |-> NoRow]
    /\ referredBy = [u \in Users |-> None]
    /\ link = [u \in Users |-> [pc |-> "new", p |-> None]]
    /\ call = [h \in Calls |-> IdleCall]
    /\ price \in Prices \cup {None}
    /\ cache = None
    /\ due = {}

-----------------------------------------------------------------------------
(* linkReferral: the last part of a registration *)

\* Nobody recruits himself.
LinkStart(u, p) ==
    /\ link[u].pc = "new"
    /\ link' = [link EXCEPT ![u] = [pc |-> IF p \in partners /\ <<u, p>> \notin Self
                                           THEN "upsert" ELSE "done",
                                    p  |-> p]]
    /\ UNCHANGED <<partners, ref, referredBy, call, price, cache, due>>

\* The foreign key: a partner deleted meanwhile gets no referral.
Creditable(u) == link[u].p \in partners

\* The update path of the upsert changes display data only.
LinkUpsert(u) ==
    /\ link[u].pc = "upsert"
    /\ ref' = IF Creditable(u) /\ ~Present(u) THEN [ref EXCEPT ![u] = NewRow(link[u].p)] ELSE ref
    /\ link' = [link EXCEPT ![u].pc = IF Creditable(u) THEN "stamp" ELSE "done"]
    /\ UNCHANGED <<partners, referredBy, call, price, cache, due>>

LinkStamp(u) ==
    /\ link[u].pc = "stamp"
    /\ referredBy' = [referredBy EXCEPT ![u] = link[u].p]
    /\ link' = [link EXCEPT ![u].pc = "done"]
    /\ UNCHANGED <<partners, ref, call, price, cache, due>>

-----------------------------------------------------------------------------
(* fortschreiben and setReferralStatus: read, price, write *)

\* Mutant: one stage at a time.
RaisesOneStage(row, to) == ~row.paid /\ rang[to] = rang[row.status] + 1

\* Mutant: a later event may lower the stage again.
RaisesAlways(row, to) == ~row.paid

\* Forwards only, and a paid row is left alone.
Raises(row, to) == ~row.paid /\ rang[row.status] < rang[to]

\* "Never destroy the record of a reward that was already paid out."
Allowed(row, to) == row.paid => to = "PAID"

NeedsPrice(row, to) == to = "PLACED" \/ (to = "PAID" /\ row.reward = 0)

Read(h, u, by, to) ==
    /\ call[h].pc = "idle"
    /\ Present(u)
    /\ call' = [call EXCEPT ![h] = [pc |-> IF NeedsPrice(ref[u], to) THEN "price" ELSE "write",
                                    by |-> by, u |-> u, to |-> to, seen |-> ref[u], cents |-> 0]]
    /\ UNCHANGED <<partners, ref, referredBy, link, price, cache>>

\* There is nothing to place, or it has been placed.
Settled(row) == row.partner = None \/ row.paid \/ rang[row.status] >= rang["PLACED"]

Behind(rows, d) == {u \in d : ~Settled(rows[u])}

\* fortschreiben up to its early returns.  The account exists before linkReferral is called.
Progress(h, u, to) ==
    /\ to \in {"IN_PLACEMENT", "PLACED"}
    /\ due' = IF to = "PLACED" THEN due \cup Behind(ref, {u}) ELSE due
    /\ IF Present(u) /\ Raises(ref[u], to) THEN Read(h, u, "event", to)
       ELSE UNCHANGED <<partners, ref, referredBy, link, call, price, cache>>

\* The three that start it and do not wait: apply, the employer's setApplicationStatus, ...
Apply(h, u) == Progress(h, u, "IN_PLACEMENT")

SetApplicationStatus(h, u, status) ==
    /\ status \in {"SEEN", "INTERVIEW", "ACCEPTED"}
    /\ Progress(h, u, IF status = "ACCEPTED" THEN "PLACED" ELSE "IN_PLACEMENT")

\* ... and respondOffer: "an accepted offer is the placement".
AcceptOffer(h, u) == Progress(h, u, "PLACED")

SetReferralStatus(h, u, to) ==
    /\ Allowed(ref[u], to)
    /\ Read(h, u, "admin", to)
    /\ UNCHANGED due

\* praemieCents: the cached price, or a fresh one that is cached for a minute.
PriceCached(h) ==
    /\ call[h].pc = "price"
    /\ cache # None
    /\ call' = [call EXCEPT ![h].pc = "write", ![h].cents = cache]
    /\ UNCHANGED <<partners, ref, referredBy, link, price, cache, due>>

\* Mutant: no fallback where the schema of the dashboard does not exist.
PriceUnchecked == price

PriceOrFallback == IF price = None THEN Fallback ELSE price

PriceQuery(h) ==
    /\ call[h].pc = "price"
    /\ cache = None
    /\ cache' = PriceOrFallback
    /\ call' = [call EXCEPT ![h].pc = "write", ![h].cents = PriceOrFallback]
    /\ UNCHANGED <<partners, ref, referredBy, link, price, due>>

\* The row after the write; what the call does not set stays as it is by now.
Written(h, row) ==
    LET c == call[h] IN
    CASE c.to = "PLACED" ->
             [row EXCEPT !.status = c.to, !.reward = c.cents, !.placed = TRUE]
      [] c.to = "PAID" ->
             [row EXCEPT !.status = c.to, !.placed = TRUE, !.paid = TRUE,
                         !.reward = IF c.seen.reward = 0 THEN c.cents ELSE c.seen.reward]
      [] c.by = "admin" /\ c.to \in {"REGISTERED", "IN_PLACEMENT"} ->
             [row EXCEPT !.status = c.to, !.reward = 0, !.placed = FALSE, !.paid = FALSE]
      [] OTHER ->
             [row EXCEPT !.status = c.to]

\* update by primary key; a row deleted meanwhile fails the call.
Write(h) ==
    LET u == call[h].u IN
    /\ call[h].pc = "write"
    /\ ref' = IF Present(u) THEN [ref EXCEPT ![u] = Written(h, @)] ELSE ref
    /\ call' = [call EXCEPT ![h] = IdleCall]
    /\ due' = Behind(ref', due)
    /\ UNCHANGED <<partners, referredBy, link, price, cache>>

\* fortschreiben logs an error and forgets it; an administrator sees his.
CallFails(h) ==
    /\ call[h].pc # "idle"
    /\ call' = [call EXCEPT ![h] = IdleCall]
    /\ due' = due \ {call[h].u}
    /\ UNCHANGED <<partners, ref, referredBy, link, price, cache>>

-----------------------------------------------------------------------------
(* deleteAccount, prices and restarts *)

\* Referral rows go with their partner (onDelete: Cascade); referredBy stays.
DeletePartner(p) ==
    /\ p \in partners
    /\ partners' = partners \ {p}
    /\ ref' = [u \in Users |-> IF ref[u].partner = p THEN NoRow ELSE ref[u]]
    /\ due' = Behind(ref', due)
    /\ UNCHANGED <<referredBy, link, call, price, cache>>

PriceChange(c) ==
    /\ price' = c
    /\ UNCHANGED <<partners, ref, referredBy, link, call, cache, due>>

CacheExpires ==
    /\ cache' = None
    /\ UNCHANGED <<partners, ref, referredBy, link, call, price, due>>

\* Every call and the cache are lost; an interrupted registration is not redone.
Restart ==
    /\ call' = [h \in Calls |-> IdleCall]
    /\ link' = [u \in Users |->
           IF link[u].pc = "new" THEN link[u] ELSE [link[u] EXCEPT !.pc = "done"]]
    /\ cache' = None
    /\ due' = {}
    /\ UNCHANGED <<partners, ref, referredBy, price>>

Event(h, u) ==
    \/ Apply(h, u) \/ AcceptOffer(h, u)
    \/ \E status \in {"SEEN", "INTERVIEW", "ACCEPTED"} : SetApplicationStatus(h, u, status)

Continue(h) == PriceCached(h) \/ PriceQuery(h) \/ Write(h)

Next ==
    \/ \E u \in Users : \/ \E p \in Partners : LinkStart(u, p)
                        \/ LinkUpsert(u) \/ LinkStamp(u)
    \/ \E h \in Calls : \/ \E u \in Users : Event(h, u)
                        \/ \E u \in Users, to \in Status : SetReferralStatus(h, u, to)
                        \/ Continue(h) \/ CallFails(h)
    \/ \E p \in Partners : DeletePartner(p)
    \/ \E c \in Prices \cup {None} : PriceChange(c)
    \/ CacheExpires
    \/ Restart

Spec == Init /\ [][Next]_vars

\* The event loop goes on with a handler whose promise has settled.
FairSpec == Spec /\ \A h \in Calls : WF_vars(Continue(h))

-----------------------------------------------------------------------------
(* What the rewards promise *)

\* The dashboard adds up the rewards of placed and paid rows by placedAt: such a
\* row has been placed, and a paid one has been paid, however calls overlap.
StampsMatchStatus ==
    \A u \in Users :
        /\ ref[u].status \in {"PLACED", "PAID"} => ref[u].placed
        /\ ref[u].status = "PAID" => ref[u].paid

\* A referral belongs to a partner who exists, and the user names that partner.
CreditKnown ==
    \A u \in Users : Present(u) =>
        /\ ref[u].partner \in partners
        /\ referredBy[u] \in {None, ref[u].partner}

\* A call about to write that did not read the row as it is now.
ReadStale(u) == \E h \in Calls : call[h].pc # "idle" /\ call[h].u = u /\ call[h].seen # ref[u]

\* "Forwards only": without an overlapping call, no event lowers a referral, and
\* nothing but the deletion of its partner touches the status of a paid one.
OnlyOverlapDemotes ==
    [][\A u \in Users :
          /\ Present(u) /\ Present(u)' /\ ~ReadStale(u)
          /\ rang[ref'[u].status] < rang[ref[u].status]
          => /\ ref[u].status # "PAID"
             /\ \E h \in Calls : call[h].by = "admin" /\ call[h].u = u /\ call'[h].pc = "idle"]_vars

\* "a paid-out referral is left alone in any case" by the automatic progress.
PaidLeftAlone ==
    [][\A h \in Calls :
          /\ call[h].by = "event" /\ call[h].pc = "write" /\ call'[h].pc = "idle"
          /\ ref[call[h].u].paid
          => UNCHANGED ref]_vars

\* "An accepted offer is the placement; from here on the reward is due": although nobody
\* waits for fortschreiben, a referral that is behind is placed or paid in the end, from
\* whatever stage, unless the call fails, the process restarts or the partner leaves.
PlacementArrives == \A u \in Users : u \in due ~> u \notin due

\* Why it does: whoever is due has a call under way that will place the referral.
DueHasCall ==
    \A u \in due : \E h \in Calls :
        call[h].pc # "idle" /\ call[h].u = u /\ call[h].to = "PLACED"

\* Why a referral only moves forwards: every call decided on the row it read.
Decided ==
    \A h \in Calls : call[h].pc # "idle" =>
        IF call[h].by = "event" THEN Raises(call[h].seen, call[h].to)
                                ELSE Allowed(call[h].seen, call[h].to)

\* Why the credit is right: a registration credits one partner, once.
LinkInv ==
    \A u \in Users :
        /\ link[u].pc \in {"new", "upsert"} => ~Present(u)
        /\ link[u].pc # "done" => referredBy[u] = None
        /\ link[u].pc = "stamp" /\ Present(u) => ref[u].partner = link[u].p
=============================================================================
