------------------------- MODULE ApplicationsProofs -------------------------
(* Proofs about Applications, for any number of applications, files, tokens *)
(* and concurrent erasures, and any number of faults.                       *)
EXTENDS Applications, TLAPS

-----------------------------------------------------------------------------
(* Tables of pairs, read by their first component *)

LEMMA FilesPlus ==
    ASSUME NEW T, NEW a \in Apps, NEW b \in Apps, NEW files \in SUBSET Files
    PROVE  /\ FilesOf(a, T \cup Keys(a, files)) = FilesOf(a, T) \cup files
           /\ a # b => FilesOf(a, T \cup Keys(b, files)) = FilesOf(a, T)
BY DEF FilesOf, Keys

LEMMA FilesMinus ==
    ASSUME NEW T, NEW a \in Apps, NEW b \in Apps, NEW files \in SUBSET Files
    PROVE  /\ FilesOf(a, T \ Keys(a, files)) = FilesOf(a, T) \ files
           /\ a # b => FilesOf(a, T \ Keys(b, files)) = FilesOf(a, T)
BY DEF FilesOf, Keys

LEMMA FilesAdd ==
    ASSUME NEW T, NEW a \in Apps, NEW b \in Apps, NEW f \in Files
    PROVE  /\ FilesOf(a, T \cup {<<a, f>>}) = FilesOf(a, T) \cup {f}
           /\ a # b => FilesOf(a, T \cup {<<b, f>>}) = FilesOf(a, T)
BY DEF FilesOf

LEMMA FilesAre == \A a \in Apps : \A T : FilesOf(a, T) \in SUBSET Files
BY DEF FilesOf

LEMMA KeysAre ==
    \A a \in Apps : \A files \in SUBSET Files : Keys(a, files) \in SUBSET (Apps \X Files)
BY DEF Keys

Objects(a) == FilesOf(a, bucket)
Rows(a) == FilesOf(a, docs)

-----------------------------------------------------------------------------
(* The type invariant *)

AppsOK == app \in [Apps -> App]
TablesOK == docs \in SUBSET (Apps \X Files) /\ bucket \in SUBSET (Apps \X Files)
            /\ used \in SUBSET Tokens /\ todo \in SUBSET Apps
SubsOK == /\ sub \in [Apps -> Submission]
          /\ \A a \in Apps : sub[a].pc = "upload" => sub[a].token \in Tokens
ErasersOK == /\ er \in [Erasers -> Eraser]
             /\ \A e \in Erasers : er[e].pc # "idle" => er[e].a \in Apps
CountersOK == now \in Nat /\ faults \in Nat

LEMMA TypeParts == TypeOK <=> AppsOK /\ TablesOK /\ SubsOK /\ ErasersOK /\ CountersOK
BY DEF TypeOK, AppsOK, TablesOK, SubsOK, ErasersOK, CountersOK

LEMMA Constants == /\ NoApp \in App /\ IdleEraser \in Eraser /\ IdleEraser.pc = "idle"
                   /\ NoApp.phase = "none" /\ NoApp.hold = "none"
BY DEF NoApp, App, IdleEraser, Eraser

\* An erase call moves on, or ends.
LEMMA EraserMove ==
    ASSUME ErasersOK, NEW e \in Erasers, NEW s \in Eraser, s.pc # "idle" => s.a \in Apps,
           er' = [er EXCEPT ![e] = s]
    PROVE  ErasersOK'
<1>1. er' \in [Erasers -> Eraser]
  BY DEF ErasersOK
<1>2. ASSUME NEW g \in Erasers, er'[g].pc # "idle" PROVE er'[g].a \in Apps
  <2>1. CASE g = e
    BY <1>2, <2>1 DEF ErasersOK
  <2>2. CASE g # e
    BY <1>2, <2>2 DEF ErasersOK
  <2> QED BY <2>1, <2>2
<1> QED BY <1>1, <1>2 DEF ErasersOK

\* A create call moves on, or ends.
LEMMA SubMove ==
    ASSUME SubsOK, NEW a \in Apps, NEW s \in Submission, s.pc = "upload" => s.token \in Tokens,
           sub' = [sub EXCEPT ![a] = s]
    PROVE  SubsOK'
<1>1. sub' \in [Apps -> Submission]
  BY DEF SubsOK
<1>2. ASSUME NEW b \in Apps, sub'[b].pc = "upload" PROVE sub'[b].token \in Tokens
  <2>1. CASE b = a
    BY <1>2, <2>1 DEF SubsOK
  <2>2. CASE b # a
    BY <1>2, <2>2 DEF SubsOK
  <2> QED BY <2>1, <2>2
<1> QED BY <1>1, <1>2 DEF SubsOK

\* What the steps of an erase call do to its local state.
LEMMA EraserTypes ==
    ASSUME TypeOK, NEW e \in Erasers
    PROVE  /\ EraseStep(e) => ErasersOK'
           /\ \A a \in Apps : Erase(e, a) => ErasersOK'
<1>0. ErasersOK /\ er[e] \in Eraser /\ (er[e].pc # "idle" => er[e].a \in Apps)
  BY TypeParts DEF ErasersOK
<1>1. ASSUME NEW a \in Apps, Erase(e, a) PROVE ErasersOK'
  <2> DEFINE s == [pc |-> IF app[a].requested THEN "delete" ELSE "flag", a |-> a,
                   seen |-> FilesOf(a, docs), gone |-> {}]
  <2>1. s \in Eraser /\ s.a \in Apps
    BY FilesAre DEF Eraser
  <2>2. er' = [er EXCEPT ![e] = s]
    BY <1>1 DEF Erase
  <2> HIDE DEF s
  <2> QED BY <1>0, <2>1, <2>2, EraserMove
<1>2. CASE EraseFlag(e)
  <2> DEFINE s == [er[e] EXCEPT !.pc = "delete"]
  <2>1. s \in Eraser /\ s.a \in Apps
    BY <1>0, <1>2 DEF EraseFlag, Eraser
  <2>2. er' = [er EXCEPT ![e] = s]
    BY <1>2 DEF EraseFlag
  <2> HIDE DEF s
  <2> QED BY <1>0, <2>1, <2>2, EraserMove
<1>3. ASSUME NEW gone \in SUBSET er[e].seen, er[e].pc = "delete",
             er' = [er EXCEPT ![e].pc = "rows", ![e].gone = gone]
      PROVE  ErasersOK'
  <2> DEFINE s == [er[e] EXCEPT !.pc = "rows", !.gone = gone]
  <2>1. s \in Eraser /\ s.a \in Apps
    BY <1>0, <1>3 DEF Eraser
  <2>2. er' = [er EXCEPT ![e] = s]
    BY <1>0, <1>3 DEF ErasersOK
  <2> HIDE DEF s
  <2> QED BY <1>0, <2>1, <2>2, EraserMove
<1>4. CASE EraseDelete(e)
  BY <1>3, <1>4 DEF EraseDelete
<1>5. CASE EraseDeleteFails(e)
  BY <1>3, <1>5 DEF EraseDeleteFails
<1>6. CASE EraseRows(e)
  <2> DEFINE s == [er[e] EXCEPT !.pc = "finish"]
  <2>1. s \in Eraser /\ s.a \in Apps
    BY <1>0, <1>6 DEF EraseRows, Eraser
  <2>2. er' = [er EXCEPT ![e] = s] \/ er' = [er EXCEPT ![e] = IdleEraser]
    BY <1>6 DEF EraseRows
  <2> HIDE DEF s
  <2> QED BY <1>0, <2>1, <2>2, EraserMove, Constants
<1>7. CASE EraseFinish(e) \/ EraseAborts(e)
  BY <1>0, <1>7, EraserMove, Constants DEF EraseFinish, EraseAborts
<1> QED BY <1>1, <1>2, <1>4, <1>5, <1>6, <1>7 DEF EraseStep

\* What the steps of a create call do to its local state.
LEMMA SubTypes ==
    ASSUME TypeOK, NEW a \in Apps
    PROVE  /\ CreateStep(a) => SubsOK'
           /\ \A t \in Tokens, files \in SUBSET Files : Submit(a, t, files) => SubsOK'
<1>0. SubsOK /\ sub[a] \in Submission /\ (sub[a].pc = "upload" => sub[a].token \in Tokens)
  BY TypeParts DEF SubsOK
<1>1. ASSUME NEW t \in Tokens, NEW files \in SUBSET Files, Submit(a, t, files) PROVE SubsOK'
  <2> DEFINE s == [pc |-> "upload", token |-> t, todo |-> files, files |-> {}]
  <2>1. s \in Submission /\ s.token \in Tokens
    BY DEF Submission
  <2>2. sub' = [sub EXCEPT ![a] = s]
    BY <1>1 DEF Submit
  <2> HIDE DEF s
  <2> QED BY <1>0, <2>1, <2>2, SubMove
<1>2. ASSUME NEW f \in Files, Upload(a, f) PROVE SubsOK'
  <2> DEFINE s == [sub[a] EXCEPT !.todo = @ \ {f}, !.files = @ \cup {f}]
  <2>1. s \in Submission /\ s.token \in Tokens
    BY <1>0, <1>2 DEF Upload, NextFile, Submission
  <2>2. sub' = [sub EXCEPT ![a] = s]
    BY <1>0, <1>2 DEF Upload, SubsOK
  <2> HIDE DEF s
  <2> QED BY <1>0, <2>1, <2>2, SubMove
<1>3. ASSUME NEW pc \in {"cleanup", "done"}, sub' = [sub EXCEPT ![a].pc = pc] PROVE SubsOK'
  <2> DEFINE s == [sub[a] EXCEPT !.pc = pc]
  <2>1. s \in Submission /\ s.pc # "upload"
    BY <1>0 DEF Submission
  <2>2. sub' = [sub EXCEPT ![a] = s]
    BY <1>3
  <2> HIDE DEF s
  <2> QED BY <1>0, <2>1, <2>2, SubMove
<1>4. ASSUME NEW f \in Files, UploadFails(a, f) PROVE SubsOK'
  BY <1>3, <1>4 DEF UploadFails
<1>5. CASE Commit(a) \/ CommitFails(a) \/ Cleanup(a)
  BY <1>3, <1>5 DEF Commit, CommitFails, Cleanup
<1> QED BY <1>1, <1>2, <1>4, <1>5 DEF CreateStep

LEMMA AppsStep == ASSUME TypeOK, [Next]_vars PROVE AppsOK'
<1>0. AppsOK /\ now \in Nat
  BY TypeParts DEF CountersOK
<1>1. ASSUME NEW a \in Apps, Commit(a) PROVE AppsOK'
  <2> DEFINE t == sub[a].token
             row == [NoApp EXCEPT !.phase = "live", !.until = now + Retention,
                                  !.token = t, !.at = now]
  <2>1. t \in Tokens
    BY <1>1, TypeParts DEF Commit, Uploaded, SubsOK
  <2>2. now + Retention \in Nat
    BY <1>0, ApplicationsAssumption
  <2>3. row \in App
    BY <1>0, <2>1, <2>2 DEF NoApp, App
  <2>4. app' = [app EXCEPT ![a] = row]
    BY <1>1 DEF Commit
  <2> HIDE DEF row
  <2> QED BY <1>0, <2>3, <2>4 DEF AppsOK
<1>2. ASSUME NEW e \in Erasers, EraseFlag(e) PROVE AppsOK'
  <2>1. er[e].a \in Apps
    BY <1>2, TypeParts DEF EraseFlag, ErasersOK
  <2> QED BY <1>0, <1>2, <2>1 DEF EraseFlag, AppsOK, App
<1>3. ASSUME NEW e \in Erasers, EraseFinish(e) PROVE AppsOK'
  <2>1. er[e].a \in Apps
    BY <1>3, TypeParts DEF EraseFinish, ErasersOK
  <2> QED BY <1>0, <1>3, <2>1 DEF EraseFinish, AppsOK, App
<1>4. ASSUME NEW a \in Apps, Hold(a) PROVE AppsOK'
  BY <1>0, <1>4 DEF Hold, AppsOK, App
<1>5. CASE UNCHANGED app
  BY <1>0, <1>5 DEF AppsOK
<1>6. ASSUME NEW a \in Apps, CreateStep(a) \/ (\E t \in Tokens, files \in SUBSET Files : Submit(a, t, files))
      PROVE  Commit(a) \/ UNCHANGED app
  BY <1>6 DEF CreateStep, Submit, Upload, UploadFails, CommitFails, Cleanup
<1>7. ASSUME NEW e \in Erasers, EraseStep(e) \/ (\E a \in Apps : EraseRequest(e, a))
      PROVE  EraseFlag(e) \/ EraseFinish(e) \/ UNCHANGED app
  BY <1>7 DEF EraseStep, EraseDelete, EraseDeleteFails, EraseRows, EraseAborts, EraseRequest, Erase
<1>8. JobStep \/ Prune \/ Restart \/ Tick \/ UNCHANGED vars => UNCHANGED app
  BY DEF JobStep, JobStart, JobNext, Erase, Prune, Restart, Tick, vars
<1> QED BY <1>1, <1>2, <1>3, <1>4, <1>5, <1>6, <1>7, <1>8 DEF Next

LEMMA TablesStep == ASSUME TypeOK, [Next]_vars PROVE TablesOK'
<1>0. TablesOK
  BY TypeParts
<1>1. ASSUME NEW a \in Apps, CreateStep(a) \/ (\E t \in Tokens, files \in SUBSET Files : Submit(a, t, files))
      PROVE  TablesOK'
  <2>0. sub[a] \in Submission /\ sub[a].files \in SUBSET Files
    BY TypeParts DEF SubsOK, Submission
  <2>1. ASSUME NEW f \in Files, Upload(a, f) \/ UploadFails(a, f) PROVE TablesOK'
    <3>1. bucket' \in {bucket, bucket \cup {<<a, f>>}} /\ UNCHANGED <<docs, used, todo>>
      BY <2>1 DEF Upload, UploadFails
    <3> QED BY <1>0, <3>1 DEF TablesOK
  <2>2. CASE Commit(a)
    <3>1. sub[a].token \in Tokens
      BY <2>2, TypeParts DEF Commit, Uploaded, SubsOK
    <3>2. UNCHANGED <<bucket, todo>> /\ used' = used \cup {sub[a].token}
          /\ docs' = docs \cup Keys(a, sub[a].files)
      BY <2>2 DEF Commit
    <3> QED BY <1>0, <2>0, <3>1, <3>2, KeysAre DEF TablesOK
  <2>3. CASE CommitFails(a) \/ (\E t \in Tokens, files \in SUBSET Files : Submit(a, t, files))
    BY <1>0, <2>3 DEF CommitFails, Submit, TablesOK
  <2>4. CASE Cleanup(a)
    <3>1. bucket' \in SUBSET bucket /\ UNCHANGED <<docs, used, todo>>
      BY <2>4 DEF Cleanup
    <3> QED BY <1>0, <3>1 DEF TablesOK
  <2> QED BY <1>1, <2>1, <2>2, <2>3, <2>4 DEF CreateStep
<1>2. ASSUME NEW e \in Erasers, EraseStep(e) \/ (\E a \in Apps : EraseRequest(e, a)) PROVE TablesOK'
  <2>1. bucket' \in SUBSET bucket /\ docs' \in SUBSET docs /\ UNCHANGED <<used, todo>>
    BY <1>2 DEF EraseStep, EraseFlag, EraseDelete, EraseDeleteFails, EraseRows, EraseFinish,
                EraseAborts, EraseRequest, Erase
  <2> QED BY <1>0, <2>1 DEF TablesOK
<1>3. ASSUME NEW a \in Apps, Hold(a) PROVE TablesOK'
  BY <1>0, <1>3 DEF Hold, TablesOK
<1>4. CASE JobStep
  <2>1. todo' \in SUBSET Apps /\ UNCHANGED <<docs, bucket, used>>
    BY <1>0, <1>4 DEF JobStep, JobStart, JobNext, Erase, TablesOK
  <2> QED BY <1>0, <2>1 DEF TablesOK
<1>5. Prune \/ Restart \/ Tick \/ UNCHANGED vars => TablesOK'
  BY <1>0 DEF Prune, Restart, Tick, vars, TablesOK
<1> QED BY <1>1, <1>2, <1>3, <1>4, <1>5 DEF Next

LEMMA CallsStep == ASSUME TypeOK, [Next]_vars PROVE SubsOK' /\ ErasersOK'
<1>0. SubsOK /\ ErasersOK
  BY TypeParts
<1>1. ASSUME NEW a \in Apps, CreateStep(a) \/ (\E t \in Tokens, files \in SUBSET Files : Submit(a, t, files))
      PROVE  SubsOK' /\ ErasersOK'
  <2>1. UNCHANGED er
    BY <1>1 DEF CreateStep, Submit, Upload, UploadFails, Commit, CommitFails, Cleanup
  <2> QED BY <1>0, <1>1, <2>1, SubTypes DEF ErasersOK
<1>2. ASSUME NEW e \in Erasers, EraseStep(e) \/ (\E a \in Apps : Erase(e, a))
      PROVE  SubsOK' /\ ErasersOK'
  <2>1. UNCHANGED sub
    BY <1>2 DEF EraseStep, EraseFlag, EraseDelete, EraseDeleteFails, EraseRows, EraseFinish,
                EraseAborts, Erase
  <2> QED BY <1>0, <1>2, <2>1, EraserTypes DEF SubsOK
<1>3. CASE UNCHANGED <<sub, er>>
  BY <1>0, <1>3 DEF SubsOK, ErasersOK
<1>4. CASE Restart
  <2>1. SubsOK'
    BY <1>0, <1>4 DEF Restart, SubsOK, Submission
  <2>2. ErasersOK'
    BY <1>4, Constants DEF Restart, ErasersOK
  <2> QED BY <2>1, <2>2
<1>5. JobStep => (\E a \in Apps : Erase(Job, a)) \/ UNCHANGED <<sub, er>>
  BY DEF JobStep, JobStart, JobNext
<1>6. (\E a \in Apps : Hold(a)) \/ Prune \/ Tick \/ UNCHANGED vars => UNCHANGED <<sub, er>>
  BY DEF Hold, Prune, Tick, vars
<1> QED BY <1>1, <1>2, <1>3, <1>4, <1>5, <1>6, ApplicationsAssumption DEF Next, EraseRequest

LEMMA CountersStep == ASSUME TypeOK, [Next]_vars PROVE CountersOK'
<1>0. CountersOK
  BY TypeParts
<1>1. (now' = now \/ now' = now + 1) /\ (faults' = faults \/ faults' = faults + 1)
  BY DEF Next, CreateStep, EraseStep, JobStep, Submit, Upload, UploadFails, Commit, CommitFails,
         Cleanup, Erase, EraseRequest, EraseFlag, EraseDelete, EraseDeleteFails, EraseRows,
         EraseFinish, EraseAborts, JobStart, JobNext, Prune, Hold, Restart, Tick, Fault, vars
<1> QED BY <1>0, <1>1 DEF CountersOK

LEMMA TypeStep == TypeOK /\ [Next]_vars => TypeOK'
<1> SUFFICES ASSUME TypeOK, [Next]_vars PROVE TypeOK'
  OBVIOUS
<1>1. AppsOK' /\ TablesOK' /\ SubsOK' /\ ErasersOK' /\ CountersOK'
  BY AppsStep, TablesStep, CallsStep, CountersStep
<1> QED BY <1>1 DEF TypeOK, AppsOK, TablesOK, SubsOK, ErasersOK, CountersOK

LEMMA TypeInit == Init => TypeOK
BY Constants DEF Init, TypeOK, Submission

\* Every reachable state of the records, the bucket and the calls is well formed;
\* in particular a create call that uploads holds a token, and an erase call that
\* is under way knows its application (ApplicationsService.create, erase).
THEOREM TypeCorrect == Spec => []TypeOK
BY TypeInit, TypeStep, PTL DEF Spec

-----------------------------------------------------------------------------
(* What one step can do to one application *)

SamePhase(a) == app'[a].phase = app[a].phase
SameHold(a) == app'[a].hold = app[a].hold
SameRows(a) == FilesOf(a, docs') = Rows(a)
SameObjects(a) == FilesOf(a, bucket') = Objects(a)

\* Its create call rests, ends, gives up or begins.
OtherCall(a) ==
    \/ sub'[a] = sub[a] \/ sub'[a].pc = "done"
    \/ sub[a].pc = "upload" /\ sub'[a].pc = "cleanup"
    \/ /\ sub[a].pc = "new" /\ sub'[a].pc = "upload"
       /\ sub'[a].files = {} /\ Cv \in sub'[a].todo

Same(a) == OtherCall(a) /\ SamePhase(a) /\ SameHold(a) /\ SameRows(a) /\ SameObjects(a)

\* Its create call uploads or cleans up.
Filled(a) ==
    /\ sub[a].pc \in {"upload", "cleanup"} /\ sub'[a].pc \in {"upload", "cleanup", "done"}
    /\ sub'[a].pc = "upload" =>
          /\ sub[a].pc = "upload"
          /\ \E f \in Files : /\ FilesOf(a, bucket') = Objects(a) \cup {f}
                             /\ sub'[a].files = sub[a].files \cup {f}
                             /\ sub'[a].todo = sub[a].todo \ {f}
    /\ SamePhase(a) /\ SameHold(a) /\ SameRows(a)

Committed(a) ==
    /\ Uploaded(a) /\ sub'[a].pc = "done"
    /\ app'[a].phase = "live" /\ app'[a].hold = "none"
    /\ FilesOf(a, docs') = Rows(a) \cup sub[a].files
    /\ SameObjects(a)

\* An erase call deletes objects, rows, or finalizes.
Emptied(e, a) ==
    /\ er[e].pc = "delete" /\ er[e].a = a /\ OtherCall(a)
    /\ FilesOf(a, bucket') \subseteq Objects(a)
    /\ SamePhase(a) /\ SameHold(a) /\ SameRows(a)

Forgotten(e, a) ==
    /\ er[e].pc = "rows" /\ er[e].a = a /\ OtherCall(a)
    /\ FilesOf(a, docs') = Rows(a) \ er[e].gone
    /\ SamePhase(a) /\ SameHold(a) /\ SameObjects(a)

Closed(e, a) ==
    /\ er[e].pc = "finish" /\ er[e].a = a /\ OtherCall(a)
    /\ app'[a].phase = "erased"
    /\ SameHold(a) /\ SameRows(a) /\ SameObjects(a)

Frozen(a) ==
    /\ OtherCall(a)
    /\ app[a].phase = "live" /\ app[a].hold = "none" /\ app'[a].hold # "none"
    /\ app'[a].hold = "clean" => \A e \in Erasers : er[e].pc # "idle" => er[e].a # a
    /\ SamePhase(a) /\ SameRows(a) /\ SameObjects(a)

RecordStep(a) ==
    \/ Same(a) \/ Filled(a) \/ Committed(a) \/ Frozen(a)
    \/ \E e \in Erasers : Emptied(e, a) \/ Forgotten(e, a) \/ Closed(e, a)

LEMMA CreateRecord ==
    ASSUME TypeOK, NEW a \in Apps, NEW b \in Apps, CreateStep(b)
    PROVE  RecordStep(a)
<1>0. /\ app \in [Apps -> App] /\ sub[b] \in Submission /\ sub[b].files \in SUBSET Files
  BY TypeParts DEF SubsOK, AppsOK, Submission
<1>a. sub \in [Apps -> Submission]
  BY TypeParts DEF SubsOK
<1>b. a # b => OtherCall(a)
  BY <1>a DEF CreateStep, Upload, UploadFails, Commit, CommitFails, Cleanup, OtherCall
<1>1. ASSUME NEW f \in Files, Upload(b, f) \/ UploadFails(b, f) PROVE Same(a) \/ Filled(a)
  <2>1. /\ sub[b].pc = "upload" /\ UNCHANGED <<app, docs>>
        /\ bucket' = bucket \/ bucket' = bucket \cup {<<b, f>>}
    BY <1>1 DEF Upload, UploadFails, NextFile
  <2>2. CASE a = b
    <3>1. CASE Upload(b, f)
      <4>1. /\ sub'[b].pc = "upload" /\ sub'[b].files = sub[b].files \cup {f}
            /\ sub'[b].todo = sub[b].todo \ {f} /\ bucket' = bucket \cup {<<b, f>>}
        BY <1>a, <2>1, <3>1 DEF Upload, Submission
      <4>2. FilesOf(a, bucket') = Objects(a) \cup {f}
        BY <2>2, <4>1 DEF Objects, FilesOf
      <4> QED BY <2>1, <2>2, <4>1, <4>2 DEF Filled, SamePhase, SameHold, SameRows, Rows
    <3>2. CASE UploadFails(b, f)
      <4>1. sub'[b].pc = "cleanup"
        BY <1>a, <3>2 DEF UploadFails, Submission
      <4> QED BY <2>1, <2>2, <4>1 DEF Filled, SamePhase, SameHold, SameRows, Rows
    <3> QED BY <1>1, <3>1, <3>2
  <2>3. CASE a # b
    <3>1. SameObjects(a)
      BY <2>1, <2>3 DEF SameObjects, Objects, FilesOf
    <3> QED BY <1>b, <2>1, <2>3, <3>1 DEF Same, SamePhase, SameHold, SameRows, Rows
  <2> QED BY <2>2, <2>3
<1>2. CASE Commit(b)
  <2>1. /\ Uploaded(b) /\ sub'[b].pc = "done" /\ UNCHANGED bucket
        /\ docs' = docs \cup Keys(b, sub[b].files)
        /\ a # b => app'[a] = app[a]
        /\ app'[b].phase = "live" /\ app'[b].hold = "none"
    BY <1>0, <1>a, <1>2 DEF Commit, NoApp, Submission
  <2>2. CASE a = b
    <3>1. FilesOf(a, docs') = Rows(a) \cup sub[a].files
      BY <1>0, <2>1, <2>2 DEF Rows, FilesOf, Keys
    <3> QED BY <2>1, <2>2, <3>1 DEF RecordStep, Committed, SameObjects, Objects
  <2>3. CASE a # b
    <3>1. SameRows(a)
      BY <2>1, <2>3 DEF SameRows, Rows, FilesOf, Keys
    <3> QED BY <1>b, <2>1, <2>3, <3>1 DEF RecordStep, Same, SamePhase, SameHold, SameObjects, Objects
  <2> QED BY <2>2, <2>3
<1>3. CASE CommitFails(b)
  <2>1. a = b => sub[a].pc = "upload" /\ sub'[a].pc = "cleanup"
    BY <1>a, <1>3 DEF CommitFails, Uploaded, Submission
  <2>2. OtherCall(a)
    BY <1>b, <2>1 DEF OtherCall
  <2> QED
  BY <1>3, <2>2 DEF CommitFails, RecordStep, Same, SamePhase, SameHold, SameRows, SameObjects, Rows, Objects
<1>4. CASE Cleanup(b)
  <2>1. /\ sub[b].pc = "cleanup" /\ sub'[b].pc = "done" /\ UNCHANGED <<app, docs>>
        /\ \E files \in SUBSET sub[b].files : bucket' = bucket \ Keys(b, files)
    BY <1>a, <1>4 DEF Cleanup, Submission
  <2>2. CASE a = b
    BY <2>1, <2>2 DEF RecordStep, Filled, SamePhase, SameHold, SameRows, Rows
  <2>3. CASE a # b
    <3>1. PICK files \in SUBSET Files : bucket' = bucket \ Keys(b, files)
      BY <1>0, <2>1
    <3>2. SameObjects(a)
      BY <2>3, <3>1 DEF SameObjects, Objects, FilesOf, Keys
    <3> QED BY <1>b, <2>1, <2>3, <3>2 DEF RecordStep, Same, SamePhase, SameHold, SameRows, Rows
  <2> QED BY <2>2, <2>3
<1> QED BY <1>1, <1>2, <1>3, <1>4 DEF CreateStep, RecordStep

LEMMA EraseRecord ==
    ASSUME TypeOK, NEW a \in Apps, NEW e \in Erasers, EraseStep(e)
    PROVE  RecordStep(a)
<1>0. /\ app \in [Apps -> App] /\ er[e] \in Eraser /\ (er[e].pc # "idle" => er[e].a \in Apps)
      /\ er[e].seen \in SUBSET Files /\ er[e].gone \in SUBSET Files
  BY TypeParts DEF ErasersOK, AppsOK, Eraser
<1>a. OtherCall(a)
  BY DEF EraseStep, EraseFlag, EraseDelete, EraseDeleteFails, EraseRows, EraseFinish,
         EraseAborts, OtherCall
<1> DEFINE b == er[e].a
<1>1. CASE EraseFlag(e)
  <2>1. app'[a].phase = app[a].phase /\ app'[a].hold = app[a].hold
    BY <1>0, <1>1 DEF EraseFlag, App
  <2> QED BY <1>a, <1>1, <2>1 DEF EraseFlag, RecordStep, Same, SamePhase, SameHold, SameRows,
                            SameObjects, Rows, Objects
<1>2. CASE EraseDelete(e) \/ EraseDeleteFails(e)
  <2>1. PICK files \in SUBSET Files : bucket' = bucket \ Keys(b, files)
    <3>1. CASE EraseDelete(e)
      BY <1>0, <3>1 DEF EraseDelete
    <3>2. CASE EraseDeleteFails(e)
      <4>1. PICK gone \in SUBSET er[e].seen, lost \in SUBSET er[e].seen :
                 bucket' = bucket \ Keys(b, gone \cup lost)
        BY <3>2 DEF EraseDeleteFails
      <4>2. gone \cup lost \in SUBSET Files
        BY <1>0
      <4> QED BY <4>1, <4>2
    <3> QED BY <1>2, <3>1, <3>2
  <2>2. /\ er[e].pc = "delete" /\ b \in Apps /\ UNCHANGED <<app, docs>>
    BY <1>0, <1>2 DEF EraseDelete, EraseDeleteFails
  <2>3. CASE a = b
    <3>1. FilesOf(a, bucket') \subseteq Objects(a)
      BY <2>1, <2>3, FilesMinus DEF Objects
    <3> QED BY <1>a, <2>2, <2>3, <3>1 DEF RecordStep, Emptied, SamePhase, SameHold, SameRows, Rows
  <2>4. CASE a # b
    <3>1. SameObjects(a)
      BY <2>1, <2>4 DEF SameObjects, Objects, FilesOf, Keys
    <3> QED BY <1>a, <2>2, <3>1 DEF RecordStep, Same, SamePhase, SameHold, SameRows, Rows
  <2> QED BY <2>3, <2>4
<1>3. CASE EraseRows(e)
  <2>1. /\ er[e].pc = "rows" /\ b \in Apps /\ UNCHANGED <<app, bucket>>
        /\ docs' = docs \ Keys(b, er[e].gone)
    BY <1>0, <1>3 DEF EraseRows, Confirmed
  <2>2. CASE a = b
    <3>1. FilesOf(a, docs') = Rows(a) \ er[e].gone
      BY <1>0, <2>1, <2>2, FilesMinus DEF Rows
    <3> QED BY <1>a, <2>1, <2>2, <3>1 DEF RecordStep, Forgotten, SamePhase, SameHold, SameObjects, Objects
  <2>3. CASE a # b
    <3>1. SameRows(a)
      BY <2>1, <2>3 DEF SameRows, Rows, FilesOf, Keys
    <3> QED BY <1>a, <2>1, <3>1 DEF RecordStep, Same, SamePhase, SameHold, SameObjects, Objects
  <2> QED BY <2>2, <2>3
<1>4. CASE EraseFinish(e)
  <2>1. /\ er[e].pc = "finish" /\ b \in Apps /\ UNCHANGED <<docs, bucket>>
        /\ app' = [app EXCEPT ![b].phase = "erased"]
    BY <1>0, <1>4 DEF EraseFinish
  <2>2. SameHold(a) /\ SameRows(a) /\ SameObjects(a)
    BY <1>0, <2>1 DEF SameHold, SameRows, SameObjects, Rows, Objects, App
  <2>3. CASE a = b
    BY <1>a, <1>0, <2>1, <2>2, <2>3 DEF RecordStep, Closed, App
  <2>4. CASE a # b
    BY <1>a, <1>0, <2>1, <2>2, <2>4 DEF RecordStep, Same, SamePhase
  <2> QED BY <2>3, <2>4
<1>5. CASE EraseAborts(e)
  BY <1>a, <1>5 DEF EraseAborts, RecordStep, Same, SamePhase, SameHold, SameRows, SameObjects, Rows, Objects
<1> QED BY <1>1, <1>2, <1>3, <1>4, <1>5 DEF EraseStep

LEMMA NextRecord == ASSUME TypeOK, [Next]_vars, NEW a \in Apps PROVE RecordStep(a)
<1>0. sub \in [Apps -> Submission]
  BY TypeParts DEF SubsOK
<1>1. ASSUME NEW b \in Apps, Hold(b) PROVE RecordStep(a)
  <2>0. app \in [Apps -> App]
    BY TypeParts DEF AppsOK
  <2>1. UNCHANGED <<docs, bucket>> /\ OtherCall(a) /\ app'[a].phase = app[a].phase
        /\ (a # b => app'[a].hold = app[a].hold)
    BY <1>1, <2>0 DEF Hold, App, OtherCall
  <2>2. CASE a # b
    BY <2>1, <2>2 DEF RecordStep, Same, SamePhase, SameHold, SameRows, SameObjects, Rows, Objects
  <2>3. CASE a = b
    <3>1. /\ app[a].phase = "live" /\ app[a].hold = "none" /\ app'[a].hold # "none"
          /\ app'[a].hold = "clean" => ~\E e \in Erasers : er[e].pc # "idle" /\ er[e].a = a
      BY <1>1, <2>0, <2>3 DEF Hold, Held, App
    <3> QED BY <2>1, <3>1 DEF RecordStep, Frozen, SamePhase, SameRows, SameObjects, Rows, Objects
  <2> QED BY <2>2, <2>3
<1>2. CASE OtherCall(a) /\ UNCHANGED <<app, docs, bucket>>
  BY <1>2 DEF RecordStep, Same, SamePhase, SameHold, SameRows, SameObjects, Rows, Objects
<1>3. ASSUME NEW b \in Apps, NEW t \in Tokens, NEW files \in SUBSET Files, Submit(b, t, files)
      PROVE  OtherCall(a) /\ UNCHANGED <<app, docs, bucket>>
  BY <1>0, <1>3 DEF Submit, OtherCall, Submission
<1>4. ASSUME NEW e \in Erasers, NEW b \in Apps, EraseRequest(e, b)
      PROVE  OtherCall(a) /\ UNCHANGED <<app, docs, bucket>>
  BY <1>4 DEF EraseRequest, Erase, OtherCall
<1>5. JobStep \/ Prune \/ Restart \/ Tick \/ UNCHANGED vars
      => OtherCall(a) /\ UNCHANGED <<app, docs, bucket>>
  BY <1>0 DEF JobStep, JobStart, JobNext, Erase, Prune, Restart, Tick, vars, OtherCall, Submission
<1> QED BY <1>1, <1>2, <1>3, <1>4, <1>5, CreateRecord, EraseRecord DEF Next

-----------------------------------------------------------------------------
(* The inductive invariant *)

\* Nothing is accepted before its create call is done, and what an uploading call
\* has receipts for is what is in the bucket; the mandatory file is among it or
\* among what it has still to upload.
CreateInv ==
    \A a \in Apps :
        /\ sub[a].pc # "done" => app[a].phase = "none"
        /\ sub[a].pc = "new" => Objects(a) = {}
        /\ sub[a].pc = "upload" => Objects(a) = sub[a].files /\ Cv \in sub[a].files \cup sub[a].todo

RecordInv ==
    \A a \in Apps :
        /\ app[a].phase = "none" => app[a].hold = "none" /\ Rows(a) = {}
        /\ app[a].phase # "none" => Objects(a) \subseteq Rows(a)
        /\ app[a].phase = "erased" => Objects(a) = {}

\* An erase call has read every row there is, and what it takes for deleted is.
EraseInv ==
    \A e \in Erasers : er[e].pc # "idle" =>
        /\ app[er[e].a].phase # "none" /\ app[er[e].a].hold # "clean"
        /\ Rows(er[e].a) \subseteq er[e].seen
        /\ er[e].pc = "rows" => Objects(er[e].a) \cap er[e].gone = {}
        /\ er[e].pc = "finish" => Objects(er[e].a) = {}

IInv == TypeOK /\ CreateInv /\ RecordInv /\ EraseInv

\* An application that exists stays, nothing is added to it, and a hold that counts
\* is placed only while no erase call has it.
LEMMA Monotone ==
    ASSUME IInv, [Next]_vars, NEW a \in Apps, app[a].phase # "none"
    PROVE  /\ app'[a].phase # "none"
           /\ FilesOf(a, docs') \subseteq Rows(a) /\ FilesOf(a, bucket') \subseteq Objects(a)
           /\ app'[a].hold = "clean"
              => app[a].hold = "clean" \/ \A e \in Erasers : er[e].pc # "idle" => er[e].a # a
<1>1. RecordStep(a)
  BY NextRecord DEF IInv
<1>2. ~Filled(a) /\ ~Committed(a)
  BY DEF IInv, CreateInv, Filled, Committed, Uploaded
<1>3. CASE Same(a)
  BY <1>3 DEF Same, SamePhase, SameHold, SameRows, SameObjects
<1>4. CASE Frozen(a)
  BY <1>4 DEF Frozen, SamePhase, SameRows, SameObjects
<1>5. ASSUME NEW e \in Erasers, Emptied(e, a) \/ Forgotten(e, a) \/ Closed(e, a)
      PROVE  /\ app'[a].phase # "none" /\ SameHold(a)
             /\ FilesOf(a, docs') \subseteq Rows(a) /\ FilesOf(a, bucket') \subseteq Objects(a)
  BY <1>5 DEF Emptied, Forgotten, Closed, SamePhase, SameHold, SameRows, SameObjects
<1> QED BY <1>1, <1>2, <1>3, <1>4, <1>5 DEF RecordStep, SameHold

LEMMA RecordInvStep == ASSUME IInv, [Next]_vars PROVE RecordInv'
<1> SUFFICES ASSUME NEW a \in Apps
             PROVE  /\ app'[a].phase = "none" => app'[a].hold = "none" /\ FilesOf(a, docs') = {}
                    /\ app'[a].phase # "none" => FilesOf(a, bucket') \subseteq FilesOf(a, docs')
                    /\ app'[a].phase = "erased" => FilesOf(a, bucket') = {}
  BY DEF RecordInv, Rows, Objects
<1>0. /\ app[a].phase = "none" => app[a].hold = "none" /\ Rows(a) = {}
      /\ app[a].phase # "none" => Objects(a) \subseteq Rows(a)
      /\ app[a].phase = "erased" => Objects(a) = {}
  BY DEF IInv, RecordInv
<1>1. RecordStep(a)
  BY NextRecord DEF IInv
<1>2. CASE Same(a)
  BY <1>0, <1>2 DEF Same, SamePhase, SameHold, SameRows, SameObjects
<1>3. CASE Filled(a)
  <2>1. app[a].phase = "none"
    BY <1>3 DEF IInv, CreateInv, Filled
  <2> QED BY <1>0, <1>3, <2>1 DEF Filled, SamePhase, SameHold, SameRows
<1>4. CASE Committed(a)
  <2>1. Objects(a) = sub[a].files
    BY <1>4 DEF IInv, CreateInv, Committed, Uploaded
  <2> QED BY <1>4, <2>1 DEF Committed, SameObjects
<1>5. CASE Frozen(a)
  BY <1>0, <1>5 DEF Frozen, SamePhase, SameRows, SameObjects
<1>6. ASSUME NEW e \in Erasers, Emptied(e, a)
      PROVE  /\ SamePhase(a) /\ SameHold(a) /\ SameRows(a) /\ FilesOf(a, bucket') \subseteq Objects(a)
  BY <1>6 DEF Emptied
<1>7. ASSUME NEW e \in Erasers, Forgotten(e, a)
      PROVE  /\ app'[a].phase # "none" /\ FilesOf(a, bucket') \subseteq FilesOf(a, docs')
             /\ app'[a].phase = "erased" => FilesOf(a, bucket') = {}
  <2>1. app[a].phase # "none" /\ Objects(a) \cap er[e].gone = {}
    BY <1>7 DEF IInv, EraseInv, Forgotten
  <2> QED BY <1>0, <1>7, <2>1 DEF Forgotten, SamePhase, SameObjects
<1>8. ASSUME NEW e \in Erasers, Closed(e, a)
      PROVE  app'[a].phase = "erased" /\ FilesOf(a, bucket') = {}
  <2>1. Objects(a) = {}
    BY <1>8 DEF IInv, EraseInv, Closed
  <2> QED BY <1>8, <2>1 DEF Closed, SameObjects
<1>9. ASSUME NEW e \in Erasers, Emptied(e, a) \/ Forgotten(e, a) \/ Closed(e, a)
      PROVE  /\ app'[a].phase = "none" => app'[a].hold = "none" /\ FilesOf(a, docs') = {}
             /\ app'[a].phase # "none" => FilesOf(a, bucket') \subseteq FilesOf(a, docs')
             /\ app'[a].phase = "erased" => FilesOf(a, bucket') = {}
  BY <1>0, <1>6, <1>7, <1>8, <1>9 DEF SamePhase, SameHold, SameRows
<1> QED BY <1>1, <1>2, <1>3, <1>4, <1>5, <1>9 DEF RecordStep

LEMMA CreateInvStep == ASSUME IInv, [Next]_vars PROVE CreateInv'
<1> SUFFICES ASSUME NEW a \in Apps
             PROVE  /\ sub'[a].pc # "done" => app'[a].phase = "none"
                    /\ sub'[a].pc = "new" => FilesOf(a, bucket') = {}
                    /\ sub'[a].pc = "upload" => /\ FilesOf(a, bucket') = sub'[a].files
                                                /\ Cv \in sub'[a].files \cup sub'[a].todo
  BY DEF CreateInv, Objects
<1>0. /\ sub[a].pc # "done" => app[a].phase = "none"
      /\ sub[a].pc = "new" => Objects(a) = {}
      /\ sub[a].pc = "upload" => Objects(a) = sub[a].files /\ Cv \in sub[a].files \cup sub[a].todo
  BY DEF IInv, CreateInv
<1>1. RecordStep(a)
  BY NextRecord DEF IInv
<1>2. CASE Same(a)
  BY <1>0, <1>2 DEF Same, OtherCall, SamePhase, SameObjects
<1>3. CASE Filled(a)
  <2>1. app'[a].phase = "none" /\ sub'[a].pc # "new"
    BY <1>0, <1>3 DEF Filled, SamePhase
  <2>2. CASE sub'[a].pc = "upload"
    <3>1. PICK f \in Files : /\ FilesOf(a, bucket') = Objects(a) \cup {f}
                             /\ sub'[a].files = sub[a].files \cup {f}
                             /\ sub'[a].todo = sub[a].todo \ {f}
      BY <1>3, <2>2 DEF Filled
    <3>2. Objects(a) = sub[a].files /\ Cv \in sub[a].files \cup sub[a].todo
      BY <1>0, <1>3, <2>2 DEF Filled
    <3> QED BY <2>1, <3>1, <3>2
  <2> QED BY <2>1, <2>2
<1>4. CASE Committed(a)
  BY <1>4 DEF Committed
<1>5. ASSUME OtherCall(a), app[a].phase # "none" PROVE sub'[a].pc = "done"
  BY <1>0, <1>5 DEF OtherCall
<1>6. Frozen(a) => OtherCall(a) /\ app[a].phase # "none"
  BY DEF Frozen
<1>7. ASSUME NEW e \in Erasers, Emptied(e, a) \/ Forgotten(e, a) \/ Closed(e, a)
      PROVE  OtherCall(a) /\ app[a].phase # "none"
  BY <1>7 DEF Emptied, Forgotten, Closed, IInv, EraseInv
<1> QED BY <1>1, <1>2, <1>3, <1>4, <1>5, <1>6, <1>7 DEF RecordStep

\* What one step can do to one erase call.
CallKeeps(e) == er'[e].a = er[e].a /\ er'[e].seen = er[e].seen

EraserStep(e) ==
    \/ er'[e] = er[e] \/ er'[e].pc = "idle"
    \/ \E a \in Apps : /\ Erasable(a) /\ er'[e].a = a /\ er'[e].seen = Rows(a)
                       /\ er'[e].pc \in {"flag", "delete"} /\ UNCHANGED <<app, docs>>
    \/ er[e].pc = "flag" /\ er'[e].pc = "delete" /\ CallKeeps(e)
    \/ /\ er[e].pc = "delete" /\ er'[e].pc = "rows" /\ CallKeeps(e)
       /\ FilesOf(er[e].a, bucket') \cap er'[e].gone = {}
    \/ /\ er[e].pc = "rows" /\ er'[e].pc = "finish" /\ CallKeeps(e)
       /\ er[e].gone = er[e].seen /\ SameObjects(er[e].a)

LEMMA NextEraser == ASSUME TypeOK, [Next]_vars, NEW e \in Erasers PROVE EraserStep(e)
<1>0. /\ er \in [Erasers -> Eraser]
      /\ \A g \in Erasers : /\ er[g].seen \in SUBSET Files
                            /\ er[g].pc # "idle" => er[g].a \in Apps
  BY TypeParts DEF ErasersOK, Eraser
<1>1. ASSUME NEW g \in Erasers, NEW a \in Apps, Erase(g, a) PROVE EraserStep(e)
  BY <1>0, <1>1 DEF Erase, EraserStep, Rows, Eraser
<1>2. ASSUME NEW g \in Erasers, EraseStep(g) PROVE EraserStep(e)
  <2>1. CASE e # g
    BY <1>0, <1>2, <2>1 DEF EraseStep, EraseFlag, EraseDelete, EraseDeleteFails, EraseRows,
                            EraseFinish, EraseAborts, EraserStep
  <2>2. CASE e = g /\ EraseFlag(g)
    BY <1>0, <2>2 DEF EraseFlag, EraserStep, CallKeeps, Eraser
  <2>3. CASE e = g /\ EraseDelete(g)
    <3>1. FilesOf(er[e].a, bucket') \cap er[e].seen = {}
      BY <2>3 DEF EraseDelete, FilesOf, Keys
    <3>2. /\ er[e].pc = "delete" /\ er'[e].pc = "rows" /\ CallKeeps(e)
          /\ er'[e].gone = er[e].seen
      BY <1>0, <2>3 DEF EraseDelete, CallKeeps, Eraser
    <3> QED BY <3>1, <3>2 DEF EraserStep
  <2>4. CASE e = g /\ EraseDeleteFails(g)
    <3>1. PICK gone \in SUBSET er[e].seen, lost \in SUBSET er[e].seen :
               /\ er' = [er EXCEPT ![e].pc = "rows", ![e].gone = gone]
               /\ bucket' = bucket \ Keys(er[e].a, gone \cup lost)
      BY <2>4 DEF EraseDeleteFails
    <3>2. FilesOf(er[e].a, bucket') \cap gone = {}
      BY <3>1 DEF FilesOf, Keys
    <3>3. /\ er[e].pc = "delete" /\ er'[e].pc = "rows" /\ CallKeeps(e) /\ er'[e].gone = gone
      BY <1>0, <2>4, <3>1 DEF EraseDeleteFails, CallKeeps, Eraser
    <3> QED BY <3>2, <3>3 DEF EraserStep
  <2>5. CASE e = g /\ EraseRows(g)
    <3>1. CASE Complete(e)
      BY <1>0, <2>5, <3>1 DEF EraseRows, Complete, EraserStep, CallKeeps, SameObjects, Objects, Eraser
    <3>2. CASE ~Complete(e)
      BY <1>0, <2>5, <3>2, Constants DEF EraseRows, EraserStep
    <3> QED BY <3>1, <3>2
  <2>6. CASE e = g /\ (EraseFinish(g) \/ EraseAborts(g))
    BY <1>0, <2>6, Constants DEF EraseFinish, EraseAborts, EraserStep
  <2> QED BY <1>2, <2>1, <2>2, <2>3, <2>4, <2>5, <2>6 DEF EraseStep
<1>3. CASE UNCHANGED er
  BY <1>3 DEF EraserStep
<1>4. Restart => EraserStep(e)
  BY Constants DEF Restart, EraserStep
<1>5. ASSUME NEW a \in Apps,
             CreateStep(a) \/ Hold(a) \/ (\E t \in Tokens, files \in SUBSET Files : Submit(a, t, files))
      PROVE  UNCHANGED er
  BY <1>5 DEF CreateStep, Submit, Upload, UploadFails, Commit, CommitFails, Cleanup, Hold
<1>6. JobStep => (\E a \in Apps : Erase(Job, a)) \/ UNCHANGED er
  BY DEF JobStep, JobStart, JobNext
<1>7. Prune \/ Tick \/ UNCHANGED vars => UNCHANGED er
  BY DEF Prune, Tick, vars
<1> QED BY <1>1, <1>2, <1>3, <1>4, <1>5, <1>6, <1>7, ApplicationsAssumption DEF Next, EraseRequest

LEMMA EraseInvStep == ASSUME IInv, [Next]_vars PROVE EraseInv'
<1> SUFFICES ASSUME NEW e \in Erasers, er'[e].pc # "idle"
             PROVE  LET a == er'[e].a IN
                    /\ app'[a].phase # "none" /\ app'[a].hold # "clean"
                    /\ FilesOf(a, docs') \subseteq er'[e].seen
                    /\ er'[e].pc = "rows" => FilesOf(a, bucket') \cap er'[e].gone = {}
                    /\ er'[e].pc = "finish" => FilesOf(a, bucket') = {}
  BY DEF EraseInv, Rows, Objects
<1> DEFINE a == er[e].a
<1>1. EraserStep(e)
  BY NextEraser DEF IInv
<1>2. CASE er[e].pc # "idle" /\ CallKeeps(e)
  <2>0. /\ a \in Apps /\ app[a].phase # "none" /\ app[a].hold # "clean"
        /\ Rows(a) \subseteq er[e].seen
        /\ er[e].pc = "rows" => Objects(a) \cap er[e].gone = {}
        /\ er[e].pc = "finish" => Objects(a) = {}
    BY <1>2, TypeParts DEF IInv, EraseInv, ErasersOK
  <2>1. /\ app'[a].phase # "none" /\ app'[a].hold # "clean"
        /\ FilesOf(a, docs') \subseteq er[e].seen /\ FilesOf(a, bucket') \subseteq Objects(a)
    BY <1>2, <2>0, Monotone
  <2>2. CASE er'[e] = er[e]
    BY <2>0, <2>1, <2>2
  <2>3. CASE er[e].pc = "flag" /\ er'[e].pc = "delete"
    BY <1>2, <2>1, <2>3 DEF CallKeeps
  <2>4. CASE er'[e].pc = "rows" /\ FilesOf(a, bucket') \cap er'[e].gone = {}
    BY <1>2, <2>1, <2>4 DEF CallKeeps
  <2>5. CASE /\ er[e].pc = "rows" /\ er'[e].pc = "finish"
             /\ er[e].gone = er[e].seen /\ SameObjects(a)
    <3>1. Objects(a) \subseteq Rows(a)
      BY <2>0 DEF IInv, RecordInv
    <3>2. Objects(a) = {}
      BY <2>0, <2>5, <3>1
    <3> QED BY <1>2, <2>1, <2>5, <3>2 DEF CallKeeps, SameObjects
  <2>6. CASE \E b \in Apps : /\ Erasable(b) /\ er'[e].a = b /\ er'[e].seen = Rows(b)
                             /\ er'[e].pc \in {"flag", "delete"} /\ UNCHANGED <<app, docs>>
    BY <2>6 DEF Erasable, Held, Rows
  <2> QED BY <1>1, <2>2, <2>3, <2>4, <2>5, <2>6 DEF EraserStep
<1>3. CASE \E b \in Apps : /\ Erasable(b) /\ er'[e].a = b /\ er'[e].seen = Rows(b)
                           /\ er'[e].pc \in {"flag", "delete"} /\ UNCHANGED <<app, docs>>
  BY <1>3 DEF Erasable, Held, Rows
<1> QED BY <1>1, <1>2, <1>3 DEF EraserStep, CallKeeps

LEMMA Invariant == Spec => []IInv
<1>1. Init => IInv
  <2> SUFFICES ASSUME Init PROVE IInv
    OBVIOUS
  <2>1. /\ \A a \in Apps : app[a] = NoApp /\ sub[a].pc = "new" /\ Objects(a) = {} /\ Rows(a) = {}
        /\ \A e \in Erasers : er[e].pc = "idle"
    BY Constants DEF Init, Objects, Rows, FilesOf
  <2>2. CreateInv /\ RecordInv /\ EraseInv
    BY <2>1, Constants DEF CreateInv, RecordInv, EraseInv
  <2> QED BY <2>2, TypeInit DEF IInv
<1>2. IInv /\ [Next]_vars => IInv'
  BY TypeStep, CreateInvStep, RecordInvStep, EraseInvStep DEF IInv
<1> QED BY <1>1, <1>2, PTL DEF Spec

-----------------------------------------------------------------------------
(* Theorems *)

\* As long as an application has objects in the bucket, its documents tell of them,
\* whatever deletions fail and wherever the process stops: the rows go only after
\* their objects, and each erase call read all of them (ApplicationsService.erase).
THEOREM NothingUntold == Spec => []RowsTellObjects
<1>1. IInv => RowsTellObjects
  BY DEF IInv, RecordInv, RowsTellObjects, Objects, Rows
<1> QED BY <1>1, Invariant, PTL

-----------------------------------------------------------------------------
(* Refinement *)

\* A step is about one application: the others keep status and objects.
Others(a) == \A b \in Apps \ {a} : SamePhase(b) /\ SameObjects(b)
NoneChanges == \A b \in Apps : SamePhase(b) /\ SameObjects(b)

LEMMA OneRecord == ASSUME TypeOK, [Next]_vars PROVE NoneChanges \/ \E a \in Apps : Others(a)
<1>0. app \in [Apps -> App] /\ \A e \in Erasers : er[e].pc # "idle" => er[e].a \in Apps
  BY TypeParts DEF AppsOK, ErasersOK
<1>1. ASSUME NEW a \in Apps, CreateStep(a) PROVE Others(a)
  <2> SUFFICES ASSUME NEW b \in Apps, b # a PROVE SamePhase(b) /\ SameObjects(b)
    BY DEF Others
  <2>1. SamePhase(b)
    BY <1>0, <1>1 DEF CreateStep, Upload, UploadFails, Commit, CommitFails, Cleanup, SamePhase
  <2>2. \/ bucket' = bucket \/ \E f \in Files : bucket' = bucket \cup {<<a, f>>}
        \/ \E files : bucket' = bucket \ Keys(a, files)
    BY <1>1 DEF CreateStep, Upload, UploadFails, Commit, CommitFails, Cleanup
  <2>3. SameObjects(b)
    BY <2>2 DEF SameObjects, Objects, FilesOf, Keys
  <2> QED BY <2>1, <2>3
<1>2. ASSUME NEW e \in Erasers, EraseStep(e) PROVE \E a \in Apps : Others(a)
  <2> DEFINE a == er[e].a
  <2>1. a \in Apps
    BY <1>0, <1>2 DEF EraseStep, EraseFlag, EraseDelete, EraseDeleteFails, EraseRows,
                      EraseFinish, EraseAborts
  <2> SUFFICES ASSUME NEW b \in Apps, b # a PROVE SamePhase(b) /\ SameObjects(b)
    BY <2>1 DEF Others
  <2>2. app' = app \/ app'[b] = app[b]
    BY <1>0, <1>2 DEF EraseStep, EraseFlag, EraseDelete, EraseDeleteFails, EraseRows,
                      EraseFinish, EraseAborts
  <2>3. bucket' = bucket \/ \E files : bucket' = bucket \ Keys(a, files)
    BY <1>2 DEF EraseStep, EraseFlag, EraseDelete, EraseDeleteFails, EraseRows,
                EraseFinish, EraseAborts
  <2> QED BY <2>2, <2>3 DEF SamePhase, SameObjects, Objects, FilesOf, Keys
<1>3. CASE UNCHANGED <<app, bucket>>
  BY <1>3 DEF NoneChanges, SamePhase, SameObjects, Objects
<1>4. ASSUME NEW a \in Apps, Hold(a) PROVE NoneChanges
  BY <1>0, <1>4 DEF Hold, NoneChanges, SamePhase, SameObjects, Objects, App
<1>5. ASSUME NEW a \in Apps, NEW t \in Tokens, NEW files \in SUBSET Files, Submit(a, t, files)
      PROVE  UNCHANGED <<app, bucket>>
  BY <1>5 DEF Submit
<1>6. ASSUME NEW e \in Erasers, NEW a \in Apps, EraseRequest(e, a) PROVE UNCHANGED <<app, bucket>>
  BY <1>6 DEF EraseRequest, Erase
<1>7. JobStep \/ Prune \/ Restart \/ Tick \/ UNCHANGED vars => UNCHANGED <<app, bucket>>
  BY DEF JobStep, JobStart, JobNext, Erase, Prune, Restart, Tick, vars
<1> QED BY <1>1, <1>2, <1>3, <1>4, <1>5, <1>6, <1>7 DEF Next

\* The refinement mapping.
Phase == [a \in Apps |-> app[a].phase]
Data == [a \in Apps |-> IF app[a].phase = "none" THEN {} ELSE FilesOf(a, bucket)]

LEMMA LifeStep == ASSUME IInv, [Next]_vars PROVE [Life!Next]_(Life!vars)
<1> SUFFICES Life!Next \/ (Phase' = Phase /\ Data' = Data)
  BY DEF Life!vars, Phase, Data
<1>1. CASE NoneChanges
  BY <1>1 DEF NoneChanges, SamePhase, SameObjects, Objects, Phase, Data
<1>2. ASSUME NEW a \in Apps, Others(a) PROVE Life!Next \/ (Phase' = Phase /\ Data' = Data)
  <2>0. \A b \in Apps : b # a => Phase'[b] = Phase[b] /\ Data'[b] = Data[b]
    BY <1>2 DEF Others, SamePhase, SameObjects, Objects, Phase, Data
  <2>a. ASSUME Phase'[a] = Phase[a], Data'[a] = Data[a] PROVE Phase' = Phase /\ Data' = Data
    BY <2>0, <2>a DEF Phase, Data
  <2>b. /\ Phase' = [Phase EXCEPT ![a] = Phase'[a]]
        /\ Data' = [Data EXCEPT ![a] = Data'[a]]
    BY <2>0 DEF Phase, Data
  <2>c. /\ Phase[a] = app[a].phase /\ Phase'[a] = app'[a].phase
        /\ Data[a] = IF app[a].phase = "none" THEN {} ELSE Objects(a)
        /\ Data'[a] = IF app'[a].phase = "none" THEN {} ELSE FilesOf(a, bucket')
    BY DEF Phase, Data, Objects
  <2>1. CASE SamePhase(a) /\ SameObjects(a)
    BY <2>1, <2>a, <2>c DEF SamePhase, SameObjects
  <2>2. CASE Filled(a)
    <3>1. app[a].phase = "none" /\ app'[a].phase = "none"
      BY <2>2 DEF IInv, CreateInv, Filled, SamePhase
    <3> QED BY <2>a, <2>c, <3>1
  <2>3. CASE Committed(a)
    <3>1. /\ Phase[a] = "none" /\ Phase'[a] = "live"
          /\ Data'[a] = sub[a].files /\ Cv \in sub[a].files
      BY <2>3, <2>c DEF IInv, CreateInv, Committed, Uploaded, SameObjects
    <3>2. sub[a].files \in SUBSET Files
      BY TypeParts DEF IInv, SubsOK, Submission
    <3>3. sub[a].files \in (SUBSET Files) \ {{}}
      BY <3>1, <3>2
    <3>4. Life!Accept(a)
      BY <2>b, <3>1, <3>3 DEF Life!Accept, Phase, Data
    <3> QED BY <3>4 DEF Life!Next
  <2>4. ASSUME NEW e \in Erasers, Emptied(e, a)
        PROVE  Life!Next \/ (Phase' = Phase /\ Data' = Data)
    <3>1. /\ Phase'[a] = Phase[a] /\ Phase[a] # "none"
          /\ Data'[a] \in SUBSET Data[a]
      BY <2>4, <2>c DEF IInv, EraseInv, Emptied, SamePhase
    <3>2. CASE Phase[a] = "live"
      <4>1. Life!Shred(a)
        BY <2>b, <3>1, <3>2 DEF Life!Shred, Phase, Data
      <4> QED BY <4>1 DEF Life!Next
    <3>3. CASE Phase[a] = "erased"
      <4>1. Data[a] = {}
        BY <2>c, <3>3 DEF IInv, RecordInv
      <4> QED BY <2>a, <3>1, <4>1
    <3>4. app[a].phase \in {"none", "live", "erased"}
      BY TypeParts DEF IInv, AppsOK, App
    <3> QED BY <2>c, <3>1, <3>2, <3>3, <3>4
  <2>5. ASSUME NEW e \in Erasers, Closed(e, a)
        PROVE  Life!Next \/ (Phase' = Phase /\ Data' = Data)
    <3>1. /\ Phase'[a] = "erased" /\ Phase[a] # "none" /\ Data[a] = {} /\ Data'[a] = {}
      BY <2>5, <2>c DEF IInv, EraseInv, Closed, SameObjects
    <3>2. CASE Phase[a] = "live"
      <4>1. Data' = Data
        BY <2>0, <3>1 DEF Data
      <4>2. Life!Finish(a)
        BY <2>b, <3>1, <3>2, <4>1 DEF Life!Finish, Phase, Data
      <4> QED BY <4>2 DEF Life!Next
    <3>3. CASE Phase[a] = "erased"
      BY <2>a, <3>1, <3>3
    <3>4. app[a].phase \in {"none", "live", "erased"}
      BY TypeParts DEF IInv, AppsOK, App
    <3> QED BY <2>c, <3>1, <3>2, <3>3, <3>4
  <2>6. RecordStep(a)
    BY NextRecord DEF IInv
  <2> QED BY <2>1, <2>2, <2>3, <2>4, <2>5, <2>6 DEF RecordStep, Same, Frozen, Forgotten
<1> QED BY <1>1, <1>2, OneRecord DEF IInv

LEMMA LifeInit == Init => Life!Init
<1> SUFFICES ASSUME Init PROVE Life!Init
  OBVIOUS
<1>1. \A a \in Apps : app[a].phase = "none"
  BY Constants DEF Init
<1> QED BY <1>1 DEF Life!Init

\* Create, erase and the daily job implement the abstract life of an application:
\* files are accepted with it, only become fewer, and erased means none is left.
THEOREM Implements == Spec => ErasureIsReal
BY LifeInit, LifeStep, Invariant, PTL DEF Spec, ErasureIsReal, Life!Spec

\* A record put under hold while no erase call had it keeps its files, its rows
\* and its status (the guard of ApplicationsService.erase and of the job's query).
THEOREM HoldProtects == Spec => HeldIsKept
<1>1. ASSUME IInv, [Next]_vars, NEW a \in Apps, app[a].hold = "clean"
      PROVE  SamePhase(a) /\ SameRows(a) /\ SameObjects(a)
  <2>1. RecordStep(a)
    BY <1>1, NextRecord DEF IInv
  <2>2. app[a].phase # "none"
    BY <1>1 DEF IInv, RecordInv
  <2>3. ~Filled(a) /\ ~Committed(a)
    <3>1. sub[a].pc = "done"
      BY <1>1, <2>2 DEF IInv, CreateInv
    <3> QED BY <3>1 DEF Filled, Committed, Uploaded
  <2>4. ~\E e \in Erasers : Emptied(e, a) \/ Forgotten(e, a) \/ Closed(e, a)
    BY <1>1 DEF IInv, EraseInv, Emptied, Forgotten, Closed
  <2> QED BY <1>1, <2>1, <2>3, <2>4 DEF RecordStep, Same, Frozen
<1>2. IInv /\ [Next]_vars
      => [\A a \in Apps :
            app[a].hold = "clean"
            => /\ app'[a].phase = app[a].phase
               /\ FilesOf(a, bucket') = FilesOf(a, bucket) /\ FilesOf(a, docs') = FilesOf(a, docs)]_vars
  BY <1>1 DEF SamePhase, SameRows, SameObjects, Rows, Objects
<1> QED BY <1>2, Invariant, PTL DEF Spec, HeldIsKept

-----------------------------------------------------------------------------
(* Tokens *)

\* While tokens are valid, the tokens of all applications are recorded.
TokenInv ==
    \A a \in Apps : app[a].phase # "none" => /\ app[a].at <= now
                                             /\ now <= TokenExp => app[a].token \in used

\* An application keeps its token and the time it was accepted.
SameToken(a) == app'[a].token = app[a].token /\ app'[a].at = app[a].at

LEMMA TokenStep ==
    ASSUME IInv, [Next]_vars
    PROVE  \/ \E a \in Apps : Commit(a)
           \/ /\ \A a \in Apps : SameToken(a) /\ (app'[a].phase = "none" <=> app[a].phase = "none")
              /\ used' = used \/ (now > TokenExp /\ used' = {})
              /\ now' = now \/ now' = now + 1
<1> DEFINE Keeps ==
              /\ \A a \in Apps : SameToken(a) /\ (app'[a].phase = "none" <=> app[a].phase = "none")
              /\ used' = used \/ (now > TokenExp /\ used' = {})
              /\ now' = now \/ now' = now + 1
<1>0. app \in [Apps -> App]
  BY TypeParts DEF IInv, AppsOK
<1>1. ASSUME NEW b \in Apps, Hold(b) PROVE Keeps
  BY <1>0, <1>1 DEF Hold, SameToken, App
<1>2. ASSUME NEW e \in Erasers, EraseFlag(e) PROVE Keeps
  BY <1>0, <1>2 DEF EraseFlag, SameToken, App
<1>3. ASSUME NEW e \in Erasers, EraseFinish(e) PROVE Keeps
  <2>1. /\ app' = [app EXCEPT ![er[e].a].phase = "erased"] /\ UNCHANGED <<now, used>>
        /\ app[er[e].a].phase # "none"
    BY <1>3 DEF EraseFinish, IInv, EraseInv
  <2> QED BY <1>0, <2>1 DEF SameToken, App
<1>4. CASE UNCHANGED app /\ (used' = used \/ (now > TokenExp /\ used' = {}))
           /\ (now' = now \/ now' = now + 1)
  BY <1>4 DEF SameToken
<1>5. ASSUME NEW a \in Apps, CreateStep(a) PROVE Commit(a) \/ UNCHANGED <<app, used, now>>
  BY <1>5 DEF CreateStep, Upload, UploadFails, CommitFails, Cleanup
<1>6. ASSUME NEW e \in Erasers, EraseStep(e)
      PROVE  EraseFlag(e) \/ EraseFinish(e) \/ UNCHANGED <<app, used, now>>
  BY <1>6 DEF EraseStep, EraseDelete, EraseDeleteFails, EraseRows, EraseAborts
<1>7. ASSUME NEW a \in Apps, NEW t \in Tokens, NEW files \in SUBSET Files, Submit(a, t, files)
      PROVE  UNCHANGED <<app, used, now>>
  BY <1>7 DEF Submit
<1>8. ASSUME NEW e \in Erasers, NEW a \in Apps, EraseRequest(e, a) PROVE UNCHANGED <<app, used, now>>
  BY <1>8 DEF EraseRequest, Erase
<1>9. JobStep \/ Restart \/ UNCHANGED vars => UNCHANGED <<app, used, now>>
  BY DEF JobStep, JobStart, JobNext, Erase, Restart, vars
<1>10. /\ Prune => UNCHANGED <<app, now>> /\ now > TokenExp /\ used' = {}
       /\ Tick => UNCHANGED <<app, used>> /\ now' = now + 1
  BY DEF Prune, Tick
<1> QED BY <1>1, <1>2, <1>3, <1>4, <1>5, <1>6, <1>7, <1>8, <1>9, <1>10 DEF Next

LEMMA LateStep ==
    ASSUME IInv, TokenInv, ReplayOnlyWhenLate, [Next]_vars
    PROVE  TokenInv' /\ ReplayOnlyWhenLate'
<1>0. /\ app \in [Apps -> App] /\ now \in Nat /\ TokenExp \in Nat
      /\ \A a \in Apps : app[a].at \in Nat
  BY TypeParts, ApplicationsAssumption DEF IInv, AppsOK, CountersOK, App
<1>1. ASSUME NEW c \in Apps, Commit(c) PROVE TokenInv' /\ ReplayOnlyWhenLate'
  <2>1. /\ app'[c].token \notin used /\ used' = used \cup {app'[c].token}
        /\ app'[c].at = now /\ UNCHANGED now
        /\ \A a \in Apps : a # c => app'[a] = app[a]
    BY <1>0, <1>1 DEF Commit, Fresh, NoApp
  <2>2. TokenInv'
    BY <1>0, <2>1 DEF TokenInv
  <2>3. ASSUME NEW a \in Apps, a # c, app[a].phase # "none", app[a].token = app'[c].token
        PROVE  app'[c].at > TokenExp
    <3>1. ~(now <= TokenExp)
      BY <2>1, <2>3 DEF TokenInv
    <3> QED BY <1>0, <2>1, <3>1
  <2>4. ReplayOnlyWhenLate'
    BY <2>1, <2>3 DEF ReplayOnlyWhenLate
  <2> QED BY <2>2, <2>4
<1>2. CASE /\ \A a \in Apps : SameToken(a) /\ (app'[a].phase = "none" <=> app[a].phase = "none")
           /\ used' = used \/ (now > TokenExp /\ used' = {})
           /\ now' = now \/ now' = now + 1
  <2>1. ReplayOnlyWhenLate'
    BY <1>2 DEF ReplayOnlyWhenLate, SameToken
  <2>2. ASSUME NEW a \in Apps, app'[a].phase # "none"
        PROVE  app'[a].at <= now' /\ (now' <= TokenExp => app'[a].token \in used')
    <3>1. /\ app[a].at <= now /\ (now <= TokenExp => app[a].token \in used)
          /\ app'[a].at = app[a].at /\ app'[a].token = app[a].token
      BY <1>2, <2>2 DEF TokenInv, SameToken
    <3> QED BY <1>0, <1>2, <3>1
  <2> QED BY <2>1, <2>2 DEF TokenInv
<1> QED BY <1>1, <1>2, TokenStep

\* Two applications share a token only if the later was committed after the token
\* had expired, when its record may have been pruned: the transaction of
\* ApplicationsService.create takes the jti while it is still known.
THEOREM NoEarlyReplay == Spec => []ReplayOnlyWhenLate
<1>1. Init => TokenInv /\ ReplayOnlyWhenLate
  BY Constants DEF Init, TokenInv, ReplayOnlyWhenLate
<1>2. IInv /\ TokenInv /\ ReplayOnlyWhenLate /\ [Next]_vars => TokenInv' /\ ReplayOnlyWhenLate'
  BY LateStep
<1> QED BY <1>1, <1>2, Invariant, PTL DEF Spec
=============================================================================
