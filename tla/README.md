# A verification project for the PortaWerk backend

The backend is a NestJS service over PostgreSQL (Prisma) and an S3 bucket. It
registers craftsmen, lets people apply with their documents, brings craftsmen
and companies together, and pays partners for the people they recruit. This
directory holds TLA+ models of its stateful parts, TLC runs that check them on
small instances, and TLAPS proofs for all values of the constants. Paths below
are relative to the repository.

## 1. The system and its parts

One Node process serves requests; several may run at once. A handler runs until
an `await`, then any other handler may run. Hence every handler is a sequence of
steps, one per database statement (or transaction), request to the bucket, or
call of a provider. PostgreSQL runs at its default level, Read Committed: one
statement is atomic, two are not, and a transaction that only reads and then
writes by primary key is no lock. Nearly everything that is hard in this code has
one shape: *read a row, decide, await something, write by primary key*.

| Component | State | Operations | What makes it correct |
|---|---|---|---|
| One-time codes (`src/otp`) | `OtpChallenge` (unique per contact), `OtpIssuance` | `request`, `verify`, pruning | an issue yields one token, its code is compared at most `maxAttempts` times and once more per call overtaken by a re-issue, and it is counted for as long as the caps look back |
| Verification tokens (`src/otp/verification-token.ts`) | `UsedVerificationToken` | mint, check, consume, pruning | one token, one application or partner |
| Accounts and sessions (`src/auth`) | `User`, `PasswordReset`, access tokens | `login`, `logout`, change of password, address and number, `verifyContact`, `deleteAccount`, `forgotPassword`, `resetPassword` | revocation is final and total; "verified" means proven; a reset works once |
| Registration wizard (`src/auth`) | `RegistrationDraft` | `startRegistration`, `saveStep`, `completeRegistration`, pruning | no acknowledged answer is lost, in the draft or in the profile made of it, and a draft is promoted once |
| Referrals (`src/partner`) | `Referral`, `User.referredBy`, price cache | `linkReferral`, `fortschreiben`, `setReferralStatus`, partner `deleteAccount` | credit to the right partner, status moves forwards, a placement arrives, a paid reward stays |
| Partner accounts (`src/partner`) | `Partner`, access tokens, `ReferralClick` | `register`, `login`, self-service, click counting | one SMS check, one partner; a verified number was proved; an old password opens nothing |
| Applications (`src/applications`) | `Application`, `Document`, the bucket | `create`, `erase` | files and rows agree; erased means gone; a legal hold holds |
| Retention (`src/retention`) | none | daily and hourly jobs | what must go goes in the end |
| Storage (`src/storage`) | the bucket | `upload`, `delete`, signed URLs | idempotent deletion |
| Worker marketplace (`src/jobs`) | `JobApplication`, `JobOffer`, `ContactRequest`, `Favorite`, `User.profileData` | `apply`, `respondOffer`, `respondContactRequest`, lists, favourites, work locations | contact data only while released; work locations saved lose no answer |
| Employer side (`src/employer`) | `Company`, `JobPosting`, `ContactRequest`, `JobOffer` | profile, postings, search, `requestContact`, `sendOffer`, application status, intake by an administrator | a refusal holds for 90 days; only published postings are offered or applied for; a company is where its postal code is |
| Matching (`src/matching`) | `JobPosting`, `User.profileData`, `JobOffer` as read | `bewerte`, exclusion criteria, deductions, reading of stored profiles | the score is the mean it claims to be, every stored posting can be fulfilled, better answers cost nothing |
| Routing, geocoding (`src/matching`) | in-memory caches | `drivingMinutes`, `resolve` | an outage degrades only what it hit; a known time is given |
| Audit, notifications, guards, health, configuration, helpers | audit rows | | `record` never throws |

How they interact: `verifyContact` calls the OTP service; `create` and the partners'
`register` consume a token the OTP service minted; `completeRegistration` calls
`linkReferral`; `apply`, `respondOffer` and `setApplicationStatus` start
`fortschreiben` without awaiting it; profiles, postings and intakes await the geocoding;
the lists score with the matching; retention calls `erase` and deletes from the tables
of the OTP service, the accounts and the wizard; foreign keys with `onDelete: Cascade`
tie resets to users and referrals to partners.

What is hard: overlapping handlers on one row (all components), rows that are
re-issued under the same primary key (codes), a JSON object that is read, merged
and written whole (drafts, profiles), writes in two stores without a common transaction
(applications), failures with unknown effect (bucket), restarts between two
statements, jobs that delete rows others still rely on (codes, tokens, drafts),
calls that are started and not awaited (referrals), caches that are cleared or
filled by another call during an await (routing, geocoding, price), and scores
computed from unchecked JSON with rounding at every stage (matching).

## 2. Modules

| Module | Models | Proofs | TLC |
|---|---|---|---|
| `Otp` | codes, caps, attempts, tokens | `OtpProofs` | `MCOtp` |
| `Accounts` | sessions, self-service, resets | `AccountsProofs` | `MCAccounts` |
| `Registration` | drafts, steps, promotion to a user, later changes of his profile | `RegistrationProofs` | `MCRegistration` |
| `Partners` | partner accounts, their sessions and the SMS check | `PartnerServiceProofs` | `MCPartners` |
| `Referral` | referrals with the events that move them, rewards, price cache | `PartnerServiceProofs` | `MCReferral` |
| `Applications` | create, erase, jobs, hold | `ApplicationsProofs` | `MCApplications` |
| `Erasure` | abstract: what an applicant is promised about files | refined by `Applications` | |
| `Marketplace` | companies, postings, release of contact data, offers, applications of craftsmen | `MarketplaceProofs` | `MCMarketplace` |
| `Scoring` | exclusion, points and deductions as pure operators | `MatchingProofs` | through `Matching` |
| `Matching` | one posting, one profile, its offers: what is stored and how it is read back | `MatchingProofs` | `MCMatching` |
| `Locations` | geocoding, the place of companies and postings, intake, travel times | `LocationsProofs` | `MCLocations` |

Common conventions. A concurrent call is a *slot* of a constant set with a program
counter `pc` and the locals it keeps across an `await`; a slot is `idle` before
and after. Actions are named after the handler and the step: `ChangePasswordRead`,
`ChangePasswordWrite`. An action reads rows as they are now; what a handler
remembers is a field of its slot. `Restart` loses all slots and in-memory caches
and no table. Variables and fields marked *history* are observations no handler
reads. Unique indexes and foreign keys are conditions of the writing action.
Audit rows are left out, and with them the awaits that only write one: `record`
catches all errors, so it adds neither a failure nor a state others read.

**Otp.** `request` is `RequestStart` (clock read), `RequestCount` (both counts in one
transaction), `RequestCooldown`, `RequestUpsert` or `RequestConflict` (P2002),
`RequestLog`, `RequestDeliver` or `RequestDeliveryFails` and `RequestRollback`.
`verify` is `VerifyRead`, `VerifyCharge`, then `VerifyLock`, or the comparison with
`VerifyWrongCode` or `VerifyConsume`, `VerifyPurge`, `VerifyMint`. The upsert's
update path keeps the primary key: a row has an `id` and, as history, the number
of the `issue` that wrote it. `guesses` (history) counts the comparisons with the code of an
issue, whichever row they were charged to; `overtaken` the calls that had read it when its
row was re-issued. Codes stand for their hashes; the channel belongs
to the contact. Nothing refers to the purpose (there is one).

**Accounts.** A session is a pair of subject and version. `Usable` is `assertUsable`. `login`
signs the version of the row its update returns, so `LoginWrite` uses the version as it is by
then. `changeEmail` and the phone part of `updateProfile` share `ContactWrite`; the uniqueness
of the address is checked there, since the early check adds no behaviour to the unique index.
Names, avatars and profile data are left out here (the latter are in `Registration`). An expired
token or reset is one that may not be used from some moment on: calls may simply not come, and
`PruneReset` may delete a reset at any time. Accounts all exist at the start, unverified; keys
of deleted rows are not reused.

**Registration.** `saveStep` is `SaveRead` and `SaveWrite`, which writes the object it merged
from what it read; `SaveRefused` is the cap on its size. `completeRegistration` is
`CompleteRead`, `CompleteCheck` (address, password hash), `CompleteRecheck` and
`CompleteCommit` or `CompleteFails` in the transaction, and `CompleteLink` after it. The
transaction locks nothing it reads; its two writes and its commit are one step,
since nothing is read between them. A draft that is pruned or a user who is deleted
keeps its key: keys are not reused. `acked` remembers the last answer acknowledged
per step, `lossy` the drafts some call has written with an outdated snapshot. The profile of
the user lives on: `UpdateProfile` replaces it in one statement, `saveWorkLocations` is
`PlacesRead` and `PlacesWrite`, which writes back all of the profile it read with the step of
the places changed. Here a step is one value: what else the code keeps beside the places in
that step is kept as the other steps are. `promised` and `sound` (history) are to the profile
what `acked` and `lossy` are to the draft.

**Partners.** Each call reads, awaits and writes, as in `Accounts`; `LoginWrite` signs the
version of the row its update returns. The token of `register` is optional, as in the
code. `Expire` ends a token at any time, and only an expired jti is pruned. A row
remembers the check it was made of (`proof`) and whether that was over by then
(`late`); a session, the password it was opened with and whether its login had read
an older version. What it shares a name with in `Referral` carries the prefix `Partners`, since
one module holds the proofs about both.

**Referral.** `fortschreiben` and `setReferralStatus` share `Read`, the price steps and
`Write`; `by` tells them apart. `Apply`, `SetApplicationStatus` and `AcceptOffer` are the
handlers of the two marketplaces that start `fortschreiben`: the part of each that
this module sees is that call, `Progress`, with its early returns. Nobody awaits it,
so it takes a slot of its own, and the caller is done. `CallFails` is the `catch` that
logs and forgets. `Written` is what the `data` object of the call makes of the row:
fields it does not name keep their value as of now. `due` (history) holds the users
who were placed while their referral was behind. `PriceChange` is the dashboard,
another program, that owns `admin.setting`. Partners who are disabled rather than
deleted are left out.

**Applications.** `create` is `Submit` (token check), `Upload` per file, `Commit`, or a
failure followed by `Cleanup`. `erase` is `Erase` (read and guard), `EraseFlag`,
`EraseDelete` or `EraseDeleteFails`, `EraseRows`, `EraseFinish`, with `EraseAborts` for a
statement that fails. The job is `JobStart` (query with limit, no order) and
`JobNext`, one application after the other in the slot `Job`. The deletions of one erasure
run concurrently and are awaited together (`Promise.allSettled`): they are one
action, since nothing else writes these keys and no other call reads the bucket.
A request to the bucket that fails may have had its effect. `Hold` belongs to
staff working on the database: no code sets it, and the model does not lift it.

**Marketplace.** Every call of an employer is `Enter`, or `Enter`, `Found`, `Attach` where the
company is missing, and then one operation: `CreateJob`, `UpdateJob`, `ArchiveJob`,
`View` (one of the three lists that show candidates),
`AskRead` and `AskWrite`, `OfferRead` and `OfferWrite`; `Refuse` ends it with an error.
Craftsmen act by `ApplyRead` and `ApplyWrite`, `Respond`, and `DeleteWorker`, which cascades.
Checks of the owner of a posting, or of the addressee of a request, are one step with
the write that follows: neither ever changes. `SearchCandidates`, `ListRequests` and
`ListApplications` share `Show`, which is `toCandidateDto` for everybody listed; the search may
list anybody, since who is found is the matter of `Matching`. `Init` knows companies an
administrator has set up with their account. `agreed` and `shown` are history; a refusal
takes the pair out of both. Answers to offers and the status of
applications are in `Referral`, which is all they move. Suspended accounts and the
deletion of employers are left out.

**Scoring and Matching.** `Scoring` has one operator per criterion of `scoring.ts`, counts
penalties in hundredths as the code rounds them, and lets `down` choose where the exact
score lies half way between two points: the code computes in doubles, and which way such a
tie falls is not decided here. Answers on a scale of the catalogue stand for their rank,
places lie on a line, lists without order or repetition are sets. `Matching` stores:
`SaveJob` with the checks of `anforderungsDaten` (the catalogue, the range the wrong way
round, too many mandatory kinds of work), `UpdateProfile`, `SaveWorkLocations`,
`RespondOffer`. Rows of the seed, which checks nothing, are initial states. `ExtractProfile`
reads the three generations of `profileData`. Stored weights are counted in tenths, so that
the rounding of `pruefeGewichte` has something to round. `Found` is the search against a posting:
its centre and radius, its mask (`Masked`), and the exclusion. Each handler is one step: none
awaits between a read and a write that depends on it, but `saveWorkLocations`, whose step takes
any profile for the one it read; the two statements are in `Registration`.

**Locations.** `Resolve` is the part of `resolve` before its request, `FetchAnswered` and
`FetchFails` are the rest. `updateProfile`, `createJob` with `updateJob`, and
`adminCreateCompany` call it and then write: `UpdateProfileRead` and `UpdateProfileWrite`,
`SaveJobRead` and `SaveJobWrite`, and `IntakeRead`, `IntakeCompany`, `IntakeAccount`,
`IntakeJob`, with `IntakeEnds` for the end and for a statement that fails: what was written
stays. A place given in the posting itself comes before all others (`Posting`), in an intake
as well. `travelTime` is `TravelRead`, `RouteAnswered` or `RouteFails`, and `TravelAnswer`,
which reads the cache again. A place is the centre of a postal code or the coarse one of its
region. `of`, `outage`, `timed` and `cleared` are history.

## 3. Runs

| Run | Instance | Question |
|---|---|---|
| `otp` | 1 contact, 2 codes, 1 request and 2 verify slots, 2 issues, clock 0..3 | do token and budget of comparisons hold, and is every delivered code counted, under overlap, failed delivery, pruning, restart |
| `otp_rollback` | 2 request slots | does a failed delivery roll back only its own challenge: **no** |
| `accounts` | 1 user, 2 contacts, 2 passwords, 1 reset, 2 calls, bumps up to version 1 | do revocation and flags hold under overlap |
| `accounts_reset` | 1 contact | does a reset token work once: **no** |
| `registration` | 1 draft of 2 steps, the second with the work locations, 2 answers, 2 addresses, 2 users, 2 calls, an empty profile sent, any number of restarts | are answers kept through wizard, promotion and changes of the profile, is a draft promoted once |
| `partners` | 2 keys, 2 links, 2 numbers, 2 passwords, 1 check of the first number, 2 slots, 5 calls | do proof, uniqueness of the check and change of password hold under overlap |
| `referral` | 1 user, 2 partners (one the user himself), 2 calls, price 0 or none, fallback 1 | does a referral only move forwards, and does a placement arrive |
| `referral_paid` | 1 partner | does automatic progress leave a paid referral alone: **no** |
| `applications` | 2 applications, 2 files, 1 token, the job and one administrator, 1 failure, clock 0..1, batch 1 | refinement of `Erasure`, rows and objects, hold, replay, eventual erasure |
| `marketplace` | 1 employer, 2 companies, 1 craftsman, 1 posting, 2 calls, clock 0..3, lock of 2 | do consent, publication, deletion and refusal hold under overlap |
| `matching` | 3 inputs for the posting and a seeded one, 15 stored profiles, 3 lists of work locations, 2 searches, 3 offers with every answer | can postings be fulfilled, is the score explained, do better answers and refusals move scores and searches the right way |
| `locations` | 2 postal codes of one region (1 known to the service) and a malformed one, 3 companies, 1 posting, 1 account, 2 starting points, 2 calls, 3 beginnings, cache of 0, 1 restart | do places follow codes, do outages stay local, is an intake repeatable, is a known time given |

What the properties say:

- `OneTokenPerIssue`: one issue, one token, whatever overlaps, although the code is compared
  with a row that may have been re-issued since (`otp.service.ts:268`).
- `GuessBudget`: the code of an issue is compared at most `maxAttempts` times, and once more
  for every call that had read it when a re-issue under the same key replaced it: such a
  call is charged to the new issue (`otp.service.ts:247`) and compares with the old code
  (`otp.service.ts:268`). Each such comparison uses up an attempt of
  the new issue.
- `DeliveryIsCounted`: no code that reached somebody escapes the log the caps count, for as
  long as they count it.
- `RevokedStaysRevoked`, `RevocationIsTotal`: across overlapping bumps, deletions and writes
  of stale handlers. `OnlyStaleReadsMisreport`: if a flag is truthful before a step and no
  call has an older contact in hand, it is truthful after it.
- `NoAnswerLost`: what `saveStep` acknowledged last is in the draft, and in the profile of
  the user made of it, although the draft is first read long before the transaction, and stays
  there through later changes; only two overlapping steps lose one, and work locations saved
  while the profile changes. `PromotedOnce`: once a user has been made of a draft, no
  further transaction passes its check. Those that had passed before may still make another
  user, of another address: nothing locks the draft.
- `VerifiedWasProven`, `OneAccountPerProof`, `OnlyLateLoginOutlives`: see the limits below.
- `OnlyOverlapDemotes`: a status is lowered only by an administrator, and never from PAID,
  unless a call acts on a row that changed after it was read. `PlacementArrives` (liveness):
  the call nobody awaits places the referral, from any stage, whatever else moves it, unless
  it fails, the process restarts, or the partner leaves.
- `RowsTellObjects`, `ErasureIsReal` (refinement of `Erasure`), `HeldIsKept`,
  `RequestedIsErased` (liveness): no object without a row that tells of it, erased means no
  object, a held record is untouched, a requested erasure is completed in the end.
- `DataNeedsConsent`: through any sequence of requests, answers, renewed requests and two
  companies of one employer, data go only where they were released to and not refused since.
  `ReachedWasPublished`: whatever the employer changes between the check of a posting and the
  insert, offers and applications concern postings that were published.
- `NothingOfTheGone`: a craftsman may delete his account between the check and the insert;
  no row comes back. `StrayNeedsRace`: what a company did is out of its employer's reach
  only if two first calls of that employer overlapped.
- `SomebodyFits`: no input, however contradictory, stores a posting nobody can fulfil. The
  trade of that somebody need not belong to his field: neither the questionnaire's data nor a
  posting ties the two. `ScoreExplained`: the score is the weighted mean of what applies, to
  within a point, for any stored weights; everybody reaches 100 without a reason compared only
  where a number below a half was stored, which `pruefeGewichte` rounds to 0.
  `MoreNeverHurts`: saying less about oneself, one more place, or a better answer never
  costs a posting that was shown; the latter two never cost a search, whatever its mask; a better
  answer never lowers a score. To say less does cost searches: the mask takes no answer for
  less than the lowest (`employer.service.ts:573-588`), while a requirement takes it for none.
  `RefusalsNeverHelp`:
  a refused offer never raises a score, except where the first known travel time replaces
  the assumed limit of 45 minutes by a larger one.
- `PlaceFollowsCode`: a company with a valid code is in it, a posting where its company was;
  a malformed code leaves the older place behind. `OutageStaysLocal`: an outage degrades
  what was resolved for a code while the service failed for that code. `IntakeOnce`: the
  postings of an intake with an account go to the company of that account, although the
  account is created last. `EstimateOnlyIfNeeded`: a time that was known is given as exact,
  unless another call cleared the cache in between.

### Disagreements between code and comments

Each is shown by a run of its own that ends in a counterexample; PROJECT.json
quotes the lines.

1. `otp.service.ts:198`: the rollback deletes by an id that a re-issue keeps.
2. `auth.service.ts:822`: two overlapping resets both use one token.
3. `partner.service.ts:673`: progress rewrites a referral paid while the price was asked.

### Limits the passing properties mark

These are places where the code is weaker than a reader might expect; the property
named says exactly how far it goes.

- A verify call that compared an older code may consume the newer issue of the row
  (`otp.service.ts:280`): the issue still yields one token (`OneTokenPerIssue`).
- A contact is marked as verified that was entered while `verifyContact` was under way
  (`auth.service.ts:485`): `OnlyStaleReadsMisreport`.
- A token is used twice if a late commit finds its jti pruned (`applications.service.ts:203`,
  `partner.service.ts:148`): `ReplayOnlyWhenLate`, `OneAccountPerProof`.
- A refusal, or a release, is overridden by a request that had read it before the answer
  (`employer.service.ts:673`): `OnlyLateAnswersOverridden`.
- The old code of a re-issued challenge is compared once more by each call that had read it
  (`otp.service.ts:268`): `GuessBudget`.
- Work locations saved while the profile changes undo that change (`jobs.service.ts:682`):
  `NoAnswerLost`.
- A login that overlaps a change of the password may get a session of the new version with the
  old password (`partner.service.ts:233`, `auth.service.ts:308`): `OnlyLateLoginOutlives`.
- The caps and the cooldown of codes hold for requests that do not overlap: counting and
  inserting are two statements (`otp.service.ts:121`). The code calls the cooldown
  "best-effort"; no property is stated.
- A partner may register without an SMS check and is then unverified, while
  `src/prisma/schema.prisma:516` says that partners are provisioned only after one.
- A posting with a lower salary and no upper one meets no limit on the salary
  (`jobs.service.ts:431`, `Listed`).

### Bounds, and why they suffice

- Two overlapping calls on one row, with a third party (a job, a restart, a request) beside
  them: all hazards listed are of two actors on one record. For the safety theorems the
  number is arbitrary.
- `MaxTime`, `MaxIssues`, `MaxVersion`: the clock runs past every period of its instance
  (code, cooldown, windows, retention), so that each boundary is met from both sides; two
  issues are a challenge and its re-issue; with `MaxVersion` 1, two overlapping calls bump a
  version to 2 at least. `MaxVersion` keeps calls from starting, it does not stop one under
  way.
- `Lock` 2 and the clock up to 3: a refusal is met before, at and after the end of its
  period. Two companies are one employer's two first calls; a pool of ids that runs out only
  stops new companies.
- One user and one contact in most runs: no handler but the uniqueness check of an address,
  a number or a link relates two users. `registration` and `partners` have two.
- `MaxFaults` 1: one restart, or one failing request to bucket or database, at any point. A
  restart in the middle of `EraseDelete` is `EraseDeleteFails` followed by `Restart`, two
  faults; the theorems hold for any number.
- `LastStep` 2 of the wizard: two steps are what can overlap or be overtaken. `MaxRestarts`
  1 in `locations`: a restart loses calls and caches; a second loses nothing more.
- `MaxCalls` 5 of `partners`: two registrations, a login, a change and one more call; 3 of
  `locations`: two calls that overlap and one that finds what they left.
- `CacheMax` 0: the second travel time already clears the cache, which takes 10,000 in the
  code. The limit does not enter into anything else; the theorems hold for any.
- Price 0 or none with fallback 1 in the referral runs: a reward of 0 cents is the one value
  the code confuses with "no reward" (`partner.service.ts:807`).
- `matching`: the posting and the profiles are chosen, not enumerated. One posting uses every
  criterion with range and salary the wrong way round, one has weights of its own with a 0 and
  too many mandatory kinds of work, one is refused, one is seeded with weights that are no
  numbers, fractions on either side of a half, or far out of range. The profiles differ from a
  full one in one or a few answers, among them each exclusion; two are of older generations.
  Every sequence of saving, changing and answering is explored. The distances are such that the
  closest work location does not cover the posting and another one does, and that refused offers
  are nearer and farther than 45 minutes. One search has no mask, one a value in each field of
  it.
- Symmetry is used in safety runs over interchangeable slots and values, never in
  `applications` and `referral`, which check liveness.
- Every run checks for deadlock. Some step is always possible.

### Fairness

`FairSpec` of `Applications` and `FairSpec` of `Referral` state some. In `Applications`, weak
fairness of `Tick`: clocks run. Of `JobStep`: `@Cron(EVERY_DAY_AT_3AM)` starts the job, its
loop goes on after each application because the error is caught. Of `EraseStep(e)` for each
slot: the event loop continues a handler whose awaited promise settles; the storage client
and the database client settle, with success or failure. Nothing is assumed of
applicants, administrators, holds or failures; failures are bounded by `MaxFaults`, the
assumption "the bucket does not fail for ever" without which no erasure can be promised.

In `Referral`, weak fairness of `Continue(h)` for each slot, for the same reason, and nothing
else: no event, administrator, price or cache need ever move. A call may fail and the
process may restart at any time, any number of times; `PlacementArrives` promises nothing to
those it hits, since the code does not retry.

## 4. Proofs

Every invariant and every action property of the passing runs is proved for every value of the
constants; the two liveness properties are not. The only assumptions are those of
`OtpAssumption`, `AccountsAssumption`, `RegistrationAssumption`, `PartnersAssumption`,
`ReferralAssumption`, `MarketplaceAssumption`, `LocationsAssumption`, `ApplicationsAssumption`,
`ScoringAssumption` and `MatchingAssumption`: numbers are naturals, the null value is not a
value, the windows of the caps are ordered, the job is an eraser, the CV is a file, a postal
code is not malformed, a check proves one number, slots of `verify` are finite. Of the matching:
the catalogue is finite, as are the offers of a craftsman; numbers in a request are integers,
which the DTO checks; a row of the seed asks for no more kinds of work than it lists and names
ranges the right way round, which is true of the rows the seed writes; a profile has answers of
the catalogue. The last is the one assumption the code does not enforce: the questionnaires
offer nothing else, but `extractProfile` takes any string. Nothing is assumed of weights, of the
combination of answers, of radii or of places.

- **Otp.** `SingleToken` and `SpentStaysGone` need `SpendInv`: issue numbers in use are below
  the next one; no two rows, and no two handlers between consume and mint, share an issue; a
  handler that won a row either still has it, consumed and under the id it read, or the row is
  gone. The last part is what a re-issue could break: it changes the issue of the row, so that
  the purge that follows may remove another's challenge but cannot give a second token to the
  issue. `BudgetHolds` needs `BudgetInv`: while an issue is in the table, its row has counted
  every comparison with its code, so the database's condition on `attempts` bounds them;
  afterwards the comparisons made and the calls that can still make one (`Waiting`: they hold
  the code, and the key they read is still in the table) stay within the budget and the calls
  the re-issue overtook. Each of those is charged once, and a key that has left the table never
  comes back. `DeliveriesCounted` needs `CountedInv`: a request that has passed the log has its
  entry there, no older than the moment it asked, for a day from then; pruning goes by the time
  of the entry and removes only what is older than that.
- **Accounts.** `RevocationIsFinal` and `NewPasswordRevokes` rest on `VersionsBehind`: no
  token carries a version its user has yet to reach. Versions only grow (`TableStep`), so a
  mismatch is for ever. `NoOrphanReset` follows each deletion with its cascade.
  `MisreportNeedsOverlap` uses `CodeWasAccepted`: a call about to set a flag has proved the
  contact it read.
- **Registration.** `AnswersReachProfile` needs, beside the two parts of `NoAnswerLost`,
  that a draft not yet started has no answers and that a call inside the transaction holds
  the answers acknowledged by its check. `PromotionIsFinal` follows from `MadeClosed`: a
  draft a user was made of is completed or pruned. The
  same two parts carry the later changes of the profile: a call about to write the places
  holds the profile as it is, or the write marks the user.
- **Partners.** `IInv` is typing, `VersionsBehind` (no token was signed with a version its
  partner has yet to reach), `ProofsKept` (the jti a partner was made of is on record while
  it is valid), `CallsOK` (what a call has read is outdated only if the flag is gone or the
  version was bumped since), and the three properties themselves, each of which rests on the
  others.
- **Referral.** `StampsAreRight` needs only typing, since `Written` sets a status together
  with its stamps. `CreditIsKnown` needs `LinkInv`: a registration that has not upserted has
  no row yet. `ForwardsOnly` needs `Decided`: each call under way was right about the row it
  read. `PlacementUnderWay` is the safety core of `PlacementArrives`: whoever is due has a
  call under way that will place him, because only the write of such a call, a failure, a
  restart or the cascade ends one.
- **Applications.** `IInv` collects typing and three invariants: of the create calls (what
  is uploaded is what the call holds a receipt for, before the commit), of the records
  (documents cover the objects; an erased record has none) and of the erase calls (what a
  call takes for gone is gone; what it read covers what exists). `NothingUntold`,
  `Implements` and `HoldProtects` follow from it. `Implements` maps `phase` and the objects
  in the bucket to `Erasure`: commit is `Accept`, deletions are `Shred`, the final update is
  `Finish`, everything else stutters. `NoEarlyReplay` rests on `TokenInv`: a jti of a
  committed application is in the table, or the token has expired.
- **Marketplace.** `ConsentFirst` follows each change of a request to its cause
  (`ContactStep`): only an answer makes it APPROVED, and a refusal takes it back together
  with what was shown. `GoneForGood` is the foreign key
  against every call under way. `OnlyPublished` needs `ReachInv`: a call about to insert has
  seen its posting published. `AnswersStand` needs `AskInv`: every call was allowed to ask
  when it read, and time does not take that back. `StrayExplained` needs `CompanyInv`: a
  call acts for a company its employer founded, which he is linked to or has founded another
  beside.

- **Locations.** `IInv` is typing, the finiteness of the cache of travel times, `GoodCalls`
  (what a call resolved is at its code, exact unless a request for it failed), `CacheOK` (no
  coarse place is cached for a code the service knows), `CallsOK` (what a call knows of the
  tables and the cache), and the two parts of `PlaceFollowsCode` with `ExactWithoutOutage`.
  `GoodCalls` is what makes the writes right although the tables changed during the request.
- **Matching.** `StoredOK` is inductive: a stored posting asks for what it lists, profiles and
  work locations have their types. Everything else is about what the reading of such rows and
  the scoring make of them, by lemmas about the operators of `Scoring`. `SomebodyCanFit` goes
  criterion by criterion: `Ideal` is a profile, nothing excludes him, no penalty is taken.
  `ScoreIsExplained`: on the common denominator `Nenner`, each rounded penalty is off by half a
  hundredth at most; every criterion counted has a weight of at least 1, so that the errors
  add up to half a point of the total weight at most; the points add another half; and the
  total penalty never exceeds the total weight, so that the score is not clamped.
  `RefusalsCannotHelp` treats the three parts of a deduction one
  by one: the count by company, the limit of the distance, which a further refusal only lowers
  once there is one (`GrenzeShrinks`), and the highest refused salary; minima and maxima exist
  since offers are finite. `MoreCannotHurt` uses one lemma for each of its cases: answers
  missing (`GapsKeep`), one more place (`PlacesKeep`), a better answer (`BetterKeeps`).

Only model-checked: the liveness properties `RequestedIsErased` and `PlacementArrives`, since
temporal reasoning with fairness and `ENABLED` is out of the prover's reach. Their safety
cores are proved: `PlacementUnderWay`, and for erasures `Implements` with the invariant of the
erase calls. Facts by induction over data, and anything about RECURSIVE operators, would be
out of reach too; no module needs either, since the sums of the scoring are over six
criteria and written out (`Summe`).

## 5. What is left

Planned, in this order:

1. `Applications` extended by a commit of unknown outcome: today `CommitFails` is a transaction
   that was not written.
2. Clicks on referral links: counting them, their pruning, and that a later owner of a link
   inherits the clicks of a deleted partner.

Not modelled, and why:

- Dashboard, ranking, export, `slugAvailable`, `stats`, `profileScore`, the list of companies,
  favourites, the order of the lists and of the search, the filters of the craftsman's list
  beyond travel time and salary: they only read, or keep a set nothing else looks at.
- The approximate score the search gives without a posting: it excludes nobody.
- Audit, the HTTP surface with guards, filters and throttling, health and keep-alive,
  configuration, the providers of e-mail and SMS beyond delivery in `Otp`, signed URLs, file
  sniffing: no state of their own that other steps rely on.
- Hashes, encodings, normalisation: modelled by what they do, equality.
- Migrations and scripts: run by hand, beside the program.
