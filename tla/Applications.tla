---------------------------- MODULE Applications ----------------------------
(***************************************************************************)
(* Applications of people without an account: ApplicationsService.create   *)
(* and erase, the daily RetentionService.eraseExpiredApplications and the  *)
(* hourly pruning of used verification tokens.                             *)
(*                                                                         *)
(* Rows live in PostgreSQL, files in an S3 bucket; no transaction spans    *)
(* both.  Every request to the bucket may fail, with or without effect.    *)
(***************************************************************************)
EXTENDS Naturals, FiniteSets

CONSTANTS
    Apps,           \* primary keys of applications: one per create call
    Files,          \* files an application can come with
    Cv,             \* the one that is mandatory
    Tokens,         \* jtis of verification tokens
    Erasers,        \* slots of concurrent erase calls
    Job,            \* the slot of the daily job
    None,           \* the null value
    TokenExp,       \* the tick at which every token expires
    Retention,      \* applicationRetentionDays, in clock ticks
    Batch,          \* BATCH
    MaxTime,        \* bound: the last tick of the clock
    MaxFaults       \* bound: restarts, failed requests to the bucket and the database

ASSUME ApplicationsAssumption ==
    /\ Job \in Erasers /\ Cv \in Files
    /\ None \notin Apps \cup Tokens
    /\ TokenExp \in Nat /\ Retention \in Nat /\ Batch \in Nat \ {0}
    /\ MaxTime \in Nat /\ MaxFaults \in Nat

VARIABLES
    now,            \* the wall clock
    app,            \* table Application
    docs,           \* table Document: pairs <<application, file>>
    bucket,         \* objects: pairs <<application, file>>
    used,           \* table UsedVerificationToken
    sub,            \* local state of each create call
    er,             \* local state of each erase call
    todo,           \* applications the job has still to erase
    faults

vars == <<now, app, docs, bucket, used, sub, er, todo, faults>>

\* hold: "overlapped" when it was placed while an erase call was under way.
\* Bound: a hold is not lifted again.
App == [phase: {"none", "live", "erased"}, requested: BOOLEAN,
        hold: {"none", "clean", "overlapped"}, until: Nat,
        token: Tokens \cup {None}, at: Nat]

NoApp == [phase |-> "none", requested |-> FALSE, hold |-> "none", until |-> 0,
          token |-> None, at |-> 0]

\* A create call: files still to upload, keys it has a receipt for.
Submission == [pc: {"new", "upload", "cleanup", "done"}, token: Tokens \cup {None},
               todo: SUBSET Files, files: SUBSET Files]

\* An erase call: the documents it read, those whose objects it deleted.
Eraser == [pc: {"idle", "flag", "delete", "rows", "finish"}, a: Apps \cup {None},
           seen: SUBSET Files, gone: SUBSET Files]

IdleEraser == [pc |-> "idle", a |-> None, seen |-> {}, gone |-> {}]

TypeOK ==
    /\ now \in Nat
    /\ app \in [Apps -> App]
    /\ docs \in SUBSET (Apps \X Files) /\ bucket \in SUBSET (Apps \X Files)
    /\ used \in SUBSET Tokens
    /\ sub \in [Apps -> Submission]
    /\ \A a \in Apps : sub[a].pc = "upload" => sub[a].token \in Tokens
    /\ er \in [Erasers -> Eraser]
    /\ \A e \in Erasers : er[e].pc # "idle" => er[e].a \in Apps
    /\ todo \in SUBSET Apps
    /\ faults \in Nat

Init ==
    /\ now = 0
    /\ app = [a \in Apps |-> NoApp]
    /\ docs = {} /\ bucket = {} /\ used = {}
    /\ sub = [a \in Apps |-> [pc |-> "new", token |-> None, todo |-> {}, files |-> {}]]
    /\ er = [e \in Erasers |-> IdleEraser]
    /\ todo = {} /\ faults = 0

Fault == faults < MaxFaults /\ faults' = faults + 1

FilesOf(a, table) == {f \in Files : <<a, f>> \in table}

\* Mutant: parts of the key swapped.
KeysSwapped(a, files) == files \X {a}

Keys(a, files) == {a} \X files

-----------------------------------------------------------------------------
(* create *)

\* The token is checked here; its jti is only taken at the end.
Submit(a, t, files) ==
    /\ sub[a].pc = "new"
    /\ Cv \in files
    /\ now <= TokenExp
    /\ sub' = [sub EXCEPT ![a] = [pc |-> "upload", token |-> t, todo |-> files, files |-> {}]]
    /\ UNCHANGED <<now, app, docs, bucket, used, er, todo, faults>>

\* Files are uploaded one by one, the mandatory one first.
NextFile(a, f) == sub[a].pc = "upload" /\ f \in sub[a].todo /\ (Cv \in sub[a].todo => f = Cv)

Upload(a, f) ==
    /\ NextFile(a, f)
    /\ bucket' = bucket \cup {<<a, f>>}
    /\ sub' = [sub EXCEPT ![a].todo = @ \ {f}, ![a].files = @ \cup {f}]
    /\ UNCHANGED <<now, app, docs, used, er, todo, faults>>

\* The contents are refused, or the request fails: it may have stored the object
\* all the same, and its key is not on the list.
UploadFails(a, f) ==
    /\ NextFile(a, f)
    /\ \/ UNCHANGED <<bucket, faults>>
       \/ Fault /\ bucket' \in {bucket, bucket \cup {<<a, f>>}}
    /\ sub' = [sub EXCEPT ![a].pc = "cleanup"]
    /\ UNCHANGED <<now, app, docs, used, er, todo>>

\* Mutant: the jti is not recorded.
FreshAnyway(t) == TRUE

\* The primary key of UsedVerificationToken.
Fresh(t) == t \notin used

Uploaded(a) == sub[a].pc = "upload" /\ sub[a].todo = {}

\* One transaction: the token, the application and its documents.
Commit(a) ==
    LET t == sub[a].token IN
    /\ Uploaded(a) /\ Fresh(t)
    /\ used' = used \cup {t}
    /\ app' = [app EXCEPT ![a] = [NoApp EXCEPT !.phase = "live", !.until = now + Retention,
                                               !.token = t, !.at = now]]
    /\ docs' = docs \cup Keys(a, sub[a].files)
    /\ sub' = [sub EXCEPT ![a].pc = "done"]
    /\ UNCHANGED <<now, bucket, er, todo, faults>>

\* The token has been used, or the database fails: nothing is written.
CommitFails(a) ==
    /\ Uploaded(a)
    /\ (~Fresh(sub[a].token) /\ UNCHANGED faults) \/ Fault
    /\ sub' = [sub EXCEPT ![a].pc = "cleanup"]
    /\ UNCHANGED <<now, app, docs, bucket, used, er, todo>>

\* Best effort: objects whose deletion fails stay behind.
Cleanup(a) ==
    /\ sub[a].pc = "cleanup"
    /\ \/ bucket' = bucket \ Keys(a, sub[a].files) /\ UNCHANGED faults
       \/ /\ Fault
          /\ \E files \in SUBSET sub[a].files : bucket' = bucket \ Keys(a, files)
    /\ sub' = [sub EXCEPT ![a].pc = "done"]
    /\ UNCHANGED <<now, app, docs, used, er, todo>>

-----------------------------------------------------------------------------
(* erase, called by an administrator or by the daily job *)

\* Mutant: no guard for records under legal hold.
ErasableIfHeld(a) == app[a].phase = "live"

Held(a) == app[a].hold # "none"

Erasable(a) == app[a].phase = "live" /\ ~Held(a)

Erase(e, a) ==
    /\ er[e].pc = "idle"
    /\ Erasable(a)
    /\ er' = [er EXCEPT ![e] = [pc |-> IF app[a].requested THEN "delete" ELSE "flag", a |-> a,
                                seen |-> FilesOf(a, docs), gone |-> {}]]
    /\ UNCHANGED <<now, app, docs, bucket, used, sub, faults>>

EraseRequest(e, a) == e # Job /\ Erase(e, a) /\ UNCHANGED todo

EraseFlag(e) ==
    /\ er[e].pc = "flag"
    /\ app' = [app EXCEPT ![er[e].a].requested = TRUE]
    /\ er' = [er EXCEPT ![e].pc = "delete"]
    /\ UNCHANGED <<now, docs, bucket, used, sub, todo, faults>>

\* All deletions are awaited; the keys are never written again.
EraseDelete(e) ==
    /\ er[e].pc = "delete"
    /\ bucket' = bucket \ Keys(er[e].a, er[e].seen)
    /\ er' = [er EXCEPT ![e].pc = "rows", ![e].gone = er[e].seen]
    /\ UNCHANGED <<now, app, docs, used, sub, todo, faults>>

\* Some deletions fail; their objects may be gone nevertheless.
EraseDeleteFails(e) ==
    /\ er[e].pc = "delete"
    /\ Fault
    /\ \E gone \in (SUBSET er[e].seen) \ {er[e].seen} :
          /\ er' = [er EXCEPT ![e].pc = "rows", ![e].gone = gone]
          /\ \E lost \in SUBSET (er[e].seen \ gone) :
                bucket' = bucket \ Keys(er[e].a, gone \cup lost)
    /\ UNCHANGED <<now, app, docs, used, sub, todo>>

\* Mutant: the rows of all documents go, also of those whose object remains.
ConfirmedAll(e) == er[e].seen

Confirmed(e) == er[e].gone

\* Mutant: finalized although objects remain.
CompleteAnyway(e) == TRUE

Complete(e) == er[e].gone = er[e].seen

EraseRows(e) ==
    /\ er[e].pc = "rows"
    /\ docs' = docs \ Keys(er[e].a, Confirmed(e))
    /\ er' = [er EXCEPT ![e] = IF Complete(e) THEN [@ EXCEPT !.pc = "finish"]
                               ELSE IdleEraser]
    /\ UNCHANGED <<now, app, bucket, used, sub, todo, faults>>

EraseFinish(e) ==
    /\ er[e].pc = "finish"
    /\ app' = [app EXCEPT ![er[e].a].phase = "erased"]
    /\ er' = [er EXCEPT ![e] = IdleEraser]
    /\ UNCHANGED <<now, docs, bucket, used, sub, todo, faults>>

\* An update or a deletion of rows fails.
EraseAborts(e) ==
    /\ er[e].pc \in {"flag", "rows", "finish"}
    /\ Fault
    /\ er' = [er EXCEPT ![e] = IdleEraser]
    /\ UNCHANGED <<now, app, docs, bucket, used, sub, todo>>

-----------------------------------------------------------------------------
(* eraseExpiredApplications, pruneOtpArtifacts *)

\* Mutant: only what is past its retention is picked up, no retries.
DueByAgeOnly(a) == Erasable(a) /\ app[a].until <= now

Due(a) == Erasable(a) /\ (app[a].until <= now \/ app[a].requested)

\* The query has a limit and no order.
JobStart ==
    LET due == {a \in Apps : Due(a)} IN
    /\ er[Job].pc = "idle" /\ todo = {} /\ due # {}
    /\ \E batch \in SUBSET due :
          /\ Cardinality(batch) = IF Cardinality(due) < Batch THEN Cardinality(due) ELSE Batch
          /\ todo' = batch
    /\ UNCHANGED <<now, app, docs, bucket, used, sub, er, faults>>

\* A record erased or put under hold since is skipped: the error is logged.
JobNext(a) ==
    /\ a \in todo /\ er[Job].pc = "idle"
    /\ todo' = todo \ {a}
    /\ IF Erasable(a) THEN Erase(Job, a)
       ELSE UNCHANGED <<now, app, docs, bucket, used, sub, er, faults>>

Prune ==
    /\ now > TokenExp
    /\ used' = {}
    /\ UNCHANGED <<now, app, docs, bucket, sub, er, todo, faults>>

\* Outside this code: an official places a legal hold.
Hold(a) ==
    /\ app[a].phase = "live" /\ ~Held(a)
    /\ app' = [app EXCEPT ![a].hold =
                  IF \E e \in Erasers : er[e].pc # "idle" /\ er[e].a = a
                  THEN "overlapped" ELSE "clean"]
    /\ UNCHANGED <<now, docs, bucket, used, sub, er, todo, faults>>

Restart ==
    /\ Fault
    /\ sub' = [a \in Apps |-> IF sub[a].pc = "new" THEN sub[a] ELSE [sub[a] EXCEPT !.pc = "done"]]
    /\ er' = [e \in Erasers |-> IdleEraser]
    /\ todo' = {}
    /\ UNCHANGED <<now, app, docs, bucket, used>>

Tick ==
    /\ now < MaxTime
    /\ now' = now + 1
    /\ UNCHANGED <<app, docs, bucket, used, sub, er, todo, faults>>

CreateStep(a) ==
    \/ \E f \in Files : Upload(a, f) \/ UploadFails(a, f)
    \/ Commit(a) \/ CommitFails(a) \/ Cleanup(a)

EraseStep(e) ==
    \/ EraseFlag(e) \/ EraseDelete(e) \/ EraseDeleteFails(e)
    \/ EraseRows(e) \/ EraseFinish(e) \/ EraseAborts(e)

JobStep == JobStart \/ \E a \in Apps : JobNext(a)

Next ==
    \/ \E a \in Apps : \/ \E t \in Tokens, files \in SUBSET Files : Submit(a, t, files)
                       \/ CreateStep(a) \/ Hold(a)
    \/ \E e \in Erasers : EraseStep(e) \/ \E a \in Apps : EraseRequest(e, a)
    \/ JobStep \/ Prune \/ Restart \/ Tick

Spec == Init /\ [][Next]_vars

\* The clock runs, the job is started every day and the event loop goes on with
\* every call; a call that was made, a hold and a failure may never come.
Fairness ==
    /\ WF_vars(Tick) /\ WF_vars(JobStep)
    /\ \A e \in Erasers : WF_vars(EraseStep(e))

FairSpec == Spec /\ Fairness

-----------------------------------------------------------------------------
(* What the applications promise *)

Life == INSTANCE Erasure
        WITH phase <- [a \in Apps |-> app[a].phase],
             data  <- [a \in Apps |-> IF app[a].phase = "none" THEN {} ELSE FilesOf(a, bucket)]

\* "ONLY finalizes once every object is confirmed gone": the files of an
\* application only become fewer, and erased means that none is left.
ErasureIsReal == Life!Spec

\* "no PII is silently orphaned in the bucket": an object of an application has a
\* row that tells of it until the object is gone, however often an erasure fails.
RowsTellObjects ==
    \A a \in Apps : app[a].phase # "none" => FilesOf(a, bucket) \subseteq FilesOf(a, docs)

\* A record put under hold while nobody was erasing it is not touched.
HeldIsKept ==
    [][\A a \in Apps :
          app[a].hold = "clean"
          => /\ app'[a].phase = app[a].phase
             /\ FilesOf(a, bucket') = FilesOf(a, bucket) /\ FilesOf(a, docs') = FilesOf(a, docs)]_vars

\* "the unique PK makes replay attempts fail atomically", as long as the jti is kept: two
\* applications share a token only if the later one was committed after the token expired.
ReplayOnlyWhenLate ==
    \A a, b \in Apps :
        /\ a # b /\ app[a].phase # "none" /\ app[b].phase # "none"
        /\ app[a].token = app[b].token
        => app[a].at > TokenExp \/ app[b].at > TokenExp

\* "it will be retried automatically": an erasure once asked for is completed by
\* some later run of the job, unless the record is put under hold.
RequestedIsErased ==
    \A a \in Apps : app[a].requested ~> (app[a].phase = "erased" \/ Held(a))
=============================================================================
