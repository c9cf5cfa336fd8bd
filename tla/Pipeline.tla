------------------------------ MODULE Pipeline ------------------------------
(***************************************************************************)
(* process_remediation (remediation/tasks.py) and the step services it     *)
(* runs (remediation/services.py), for one attempt.  The task of an        *)
(* attempt can be delivered more than once: a worker dies and a resubmit   *)
(* queues the attempt again (claim_enqueue), or a resubmit takes a slow    *)
(* run for a dead one.  Each element of Runs is one delivery.              *)
(*                                                                         *)
(* A file is abstracted to the set of transform steps whose work it        *)
(* contains; its storage key to the step that wrote it, since every step   *)
(* keeps the file name of its input and writes under a directory of its    *)
(* own (construct_output_dir).                                             *)
(***************************************************************************)
EXTENDS Integers, Sequences, FiniteSets

CONSTANTS
    Runs,        \* deliveries of the attempt's task, numbered as they are taken
    Transforms,  \* the transform steps of the pipeline, in order
    Settings,    \* the sets of steps that a process may have switched on
    Overlap,     \* whether a delivery may start while another still runs
    MaxCrashes,  \* workers killed (a bound)
    MaxFaults,   \* database statements that fail for good (a bound)
    MaxFailures  \* both together (a bound)

TransformSteps ==
    {"ocr", "font_repair", "finalize_metadata", "link_tag", "alt_text"}
VerifySteps == {"precheck", "postcheck"}
Steps == VerifySteps \cup TransformSteps \cup {"scoring"}

ASSUME PipelineAssumption ==
    /\ Transforms \in Seq(TransformSteps)
    /\ \A i, j \in 1..Len(Transforms) : Transforms[i] = Transforms[j] => i = j
    /\ Runs \subseteq Nat
    /\ Settings \subseteq SUBSET Steps
    /\ Overlap \in BOOLEAN
    /\ MaxCrashes \in Nat
    /\ MaxFaults \in Nat
    /\ MaxFailures \in Nat

\* Mutant: the score is computed before the transforms.
ScoringFirst == <<"precheck", "scoring">> \o Transforms \o <<"postcheck">>

PIPELINE_STEPS == <<"precheck">> \o Transforms \o <<"scoring", "postcheck">>

FINISHED_STATUSES == {"compliant", "noncompliant", "error", "skipped"}
JobStatus == {"queued", "running"} \cup FINISHED_STATUSES
StepStatus == {"none", "completed", "skipped", "failed"}

\* Storage keys: the uploaded original and one output per transform step.
Uris == {"source"} \cup TransformSteps
Content == SUBSET TransformSteps

VARIABLES
    status,    \* Remediation.status
    final,     \* Remediation.final_output_uri
    artifact,  \* RemediationArtifact rows, status "none" when there is none
    verdict,   \* VerificationResult rows: "none", "pass" or "fail"
    judged,    \* history: the content each verdict is about
    scored,    \* whether the RemediationScore row exists
    scoredOn,  \* history: the content the score is about
    enabled,   \* the steps whose RUN_<STEP> setting is on in the process that takes
               \* each delivery
    stored,    \* keys present in default_storage
    content,   \* what the file at each key contains
    run,       \* state of each delivery
    notified,  \* rounds of webhook notifications enqueued
    late,      \* history: steps completed when a later one had a result
    undone,    \* history: completed steps that were then switched off
    crashes,
    faults

dbVars == <<status, final, artifact, verdict, judged, scored, scoredOn>>
storageVars == <<stored, content>>
otherVars == <<enabled, late, undone>>
vars == <<status, final, artifact, verdict, judged, scored, scoredOn, enabled,
          stored, content, run, notified, late, undone, crashes, faults>>

Outcomes == {"none", "already", "noncompliant", "error", "end"}
RunState == [pc: {"idle", "mark", "begin", "execute", "clear", "save", "row",
                  "complete", "finish", "notify", "done", "dead"},
             i: 1..(Len(PIPELINE_STEPS) + 1),
             uri: Uris, work: Content, pass: BOOLEAN, outcome: Outcomes]

\* Type invariant.
TypeOK ==
    /\ status \in JobStatus
    /\ final \in Uris \cup {""}
    /\ artifact \in [Steps -> [status: StepStatus, out: Uris \cup {""}]]
    /\ verdict \in [VerifySteps -> {"none", "pass", "fail"}]
    /\ judged \in [VerifySteps -> Content]
    /\ scored \in BOOLEAN
    /\ scoredOn \in Content
    /\ enabled \in [Runs -> SUBSET Steps]
    /\ stored \subseteq Uris
    /\ content \in [Uris -> Content]
    /\ run \in [Runs -> RunState]
    /\ notified \in Nat
    /\ late \subseteq Steps /\ undone \subseteq Steps
    /\ crashes \in Nat
    /\ faults \in Nat

Alive(w) == run[w].pc \notin {"idle", "done", "dead"}
Step(w) == PIPELINE_STEPS[run[w].i]

\* Some step after the i-th already has a result: it is COMPLETED, or its
\* verdict or score row exists.
LaterHasResult(i) ==
    \E j \in (i + 1)..Len(PIPELINE_STEPS) :
        LET s == PIPELINE_STEPS[j] IN
        \/ artifact[s].status = "completed"
        \/ s = "scoring" /\ scored
        \/ s \in VerifySteps /\ verdict[s] # "none"

-----------------------------------------------------------------------------
\* Ways a step of the loop goes on.

Goto(w, label) == run' = [run EXCEPT ![w].pc = label]

\* The step returned u: the loop takes the next one.
NextStep(w, u) ==
    run' = [run EXCEPT ![w] = [@ EXCEPT !.pc = "begin", !.i = run[w].i + 1,
                                        !.uri = u, !.work = {},
                                        !.pass = FALSE]]

\* An exception left the loop, or the loop ended: one of the except clauses
\* or the else clause comes next.  pdf_uri keeps its last value.
LeaveLoop(w, outcome) ==
    run' = [run EXCEPT ![w] = [@ EXCEPT !.pc = "finish", !.work = {},
                                        !.pass = FALSE, !.outcome = outcome]]

\* handle_result of PrecheckService and PostCheckService, then return u.
HandleResult(w, s, pass, u) ==
    \/ /\ s = "precheck" /\ pass
       /\ LeaveLoop(w, "already")
    \/ /\ s = "postcheck" /\ ~pass
       /\ LeaveLoop(w, "noncompliant")
    \/ /\ ~(s = "precheck" /\ pass)
       /\ ~(s = "postcheck" /\ ~pass)
       /\ NextStep(w, u)

\* _mark_status: update_or_create of the step's one row.
MarkStatus(s, st, u) ==
    artifact' = [artifact EXCEPT ![s] = [status |-> st, out |-> u]]

-----------------------------------------------------------------------------
\* A delivery of process_remediation.

\* Mutant: a redelivered task of a finished attempt is run again.
FetchIgnoresFinished(w) ==
    /\ run[w].pc = "idle"
    /\ \A v \in Runs : /\ v < w => run[v].pc # "idle"
                       /\ Overlap \/ ~Alive(v)
    /\ Goto(w, "mark")
    /\ \E on \in Settings : enabled' = [enabled EXCEPT ![w] = on]
    /\ UNCHANGED <<dbVars, storageVars, late, undone, notified, crashes, faults>>

\* Mutant: an attempt that is running is left to the delivery that runs it.
FetchTrustsRunning(w) ==
    /\ run[w].pc = "idle"
    /\ \A v \in Runs : /\ v < w => run[v].pc # "idle"
                       /\ Overlap \/ ~Alive(v)
    /\ \/ status # "queued" /\ Goto(w, "done") /\ UNCHANGED enabled
       \/ /\ status = "queued" /\ Goto(w, "mark")
          /\ \E on \in Settings : enabled' = [enabled EXCEPT ![w] = on]
    /\ UNCHANGED <<dbVars, storageVars, late, undone, notified, crashes, faults>>

\* A process with some settings takes the task and reads the row; a finished
\* attempt ends it.
Fetch(w) ==
    /\ run[w].pc = "idle"
    /\ \A v \in Runs : /\ v < w => run[v].pc # "idle"
                       /\ Overlap \/ ~Alive(v)
    /\ \/ status \in FINISHED_STATUSES /\ Goto(w, "done") /\ UNCHANGED enabled
       \/ /\ status \notin FINISHED_STATUSES /\ Goto(w, "mark")
          /\ \E on \in Settings : enabled' = [enabled EXCEPT ![w] = on]
    /\ UNCHANGED <<dbVars, storageVars, late, undone, notified, crashes, faults>>

\* mark_running: saves the status without looking at it again.
MarkRunning(w) ==
    /\ run[w].pc = "mark"
    /\ status' = "running"
    /\ Goto(w, "begin")
    /\ UNCHANGED <<final, artifact, verdict, judged, scored, scoredOn,
                   storageVars, otherVars, notified, crashes, faults>>

\* record_skip of a step that is switched off.
SkipStep(w) ==
    LET s == Step(w) IN
    /\ run[w].pc = "begin"
    /\ run[w].i <= Len(PIPELINE_STEPS)
    /\ s \notin enabled[w]
    /\ MarkStatus(s, "skipped", "")
    /\ undone' = undone \cup IF artifact[s].status = "completed" THEN {s} ELSE {}
    /\ NextStep(w, run[w].uri)
    /\ UNCHANGED <<status, final, verdict, judged, scored, scoredOn,
                   enabled, storageVars, late, notified, crashes, faults>>

\* Mutant: a completed precheck or postcheck is skipped without its verdict.
ResumeDropsVerdict(w) ==
    /\ run[w].pc = "begin"
    /\ run[w].i <= Len(PIPELINE_STEPS)
    /\ Step(w) \in enabled[w]
    /\ artifact[Step(w)].status = "completed"
    /\ NextStep(w, artifact[Step(w)].out)
    /\ UNCHANGED <<dbVars, storageVars, otherVars, notified, crashes, faults>>

\* run() finds the step COMPLETED: resume_completed returns its stored output;
\* a verification step reads its verdict row (DoesNotExist if it is missing)
\* and raises again what the verdict raised.
ResumeStep(w) ==
    LET s == Step(w)
        u == artifact[s].out IN
    /\ run[w].pc = "begin"
    /\ run[w].i <= Len(PIPELINE_STEPS)
    /\ s \in enabled[w]
    /\ artifact[s].status = "completed"
    /\ \/ s \notin VerifySteps /\ NextStep(w, u)
       \/ /\ s \in VerifySteps
          /\ IF verdict[s] = "none" THEN LeaveLoop(w, "error")
             ELSE HandleResult(w, s, verdict[s] = "pass", u)
    /\ UNCHANGED <<dbVars, storageVars, otherVars, notified, crashes, faults>>

\* Mutant: finished work is not looked for.
StartAlways(w) ==
    /\ run[w].pc = "begin"
    /\ run[w].i <= Len(PIPELINE_STEPS)
    /\ Step(w) \in enabled[w]
    /\ Goto(w, "execute")
    /\ UNCHANGED <<dbVars, storageVars, otherVars, notified, crashes, faults>>

\* run() finds no COMPLETED row and calls _run.
StartStep(w) ==
    /\ run[w].pc = "begin"
    /\ run[w].i <= Len(PIPELINE_STEPS)
    /\ Step(w) \in enabled[w]
    /\ artifact[Step(w)].status # "completed"
    /\ Goto(w, "execute")
    /\ UNCHANGED <<dbVars, storageVars, otherVars, notified, crashes, faults>>

\* local_input_copy: what the step's copy of the file at pdf_uri contains.
LocalInput(w) == content[run[w].uri]

\* Mutant: a verification step is marked completed before its row exists.
CompleteBeforeRow(w) ==
    /\ run[w].pc = "execute"
    /\ run[w].uri \in stored
    /\ \E b \in BOOLEAN :
          run' = [run EXCEPT ![w] =
              [@ EXCEPT !.pc = IF Step(w) \in TransformSteps THEN "clear"
                               ELSE "complete",
                        !.work = content[run[w].uri]
                                     \cup ({Step(w)} \cap TransformSteps),
                        !.pass = b /\ Step(w) \in VerifySteps]]
    /\ UNCHANGED <<dbVars, storageVars, otherVars, notified, crashes, faults>>

\* The adapter read the file at pdf_uri and produced a result from it.
ExecuteStep(w) ==
    LET s == Step(w) IN
    /\ run[w].pc = "execute"
    /\ run[w].uri \in stored
    /\ \/ /\ s \in TransformSteps
          /\ run' = [run EXCEPT ![w] = [@ EXCEPT !.pc = "clear",
                                                 !.work = LocalInput(w) \cup {s}]]
       \/ /\ s = "scoring"
          /\ run' = [run EXCEPT ![w] = [@ EXCEPT !.pc = "row",
                                                 !.work = LocalInput(w)]]
       \/ /\ s \in VerifySteps
          /\ \E b \in BOOLEAN :
                run' = [run EXCEPT ![w] = [@ EXCEPT !.pc = "row",
                                                    !.work = LocalInput(w),
                                                    !.pass = b]]
    /\ UNCHANGED <<dbVars, storageVars, otherVars, notified, crashes, faults>>

\* The copy, the adapter or (for a transform) the upload raised: the artifact
\* is marked failed and pdf_uri returned unchanged, except that a postcheck
\* that could not run raises PostCheckUnavailable.
StepFails(w) ==
    /\ run[w].pc \in {"execute", "clear", "save"}
    /\ MarkStatus(Step(w), "failed", "")
    /\ \/ Step(w) = "postcheck" /\ LeaveLoop(w, "error")
       \/ Step(w) # "postcheck" /\ NextStep(w, run[w].uri)
    /\ UNCHANGED <<status, final, verdict, judged, scored, scoredOn,
                   storageVars, otherVars, notified, crashes, faults>>

\* persist_output, first half: whatever is at the key is deleted.
ClearOutput(w) ==
    /\ run[w].pc = "clear"
    /\ stored' = stored \ {Step(w)}
    /\ Goto(w, "save")
    /\ UNCHANGED <<dbVars, content, otherVars, notified, crashes, faults>>

\* persist_output, second half: the new file is uploaded to the key.
SaveOutput(w) ==
    /\ run[w].pc = "save"
    /\ stored' = stored \cup {Step(w)}
    /\ content' = [content EXCEPT ![Step(w)] = run[w].work]
    /\ Goto(w, "complete")
    /\ UNCHANGED <<dbVars, otherVars, notified, crashes, faults>>

\* VerificationResult.objects.create or RemediationScore.objects.create.  The
\* row is unique per attempt and step: a second one is an IntegrityError that
\* the step does not catch.
CreateRow(w) ==
    LET s == Step(w) IN
    /\ run[w].pc = "row"
    /\ \/ /\ s = "scoring" /\ ~scored
          /\ scored' = TRUE
          /\ scoredOn' = run[w].work
          /\ Goto(w, "complete")
          /\ UNCHANGED <<verdict, judged>>
       \/ /\ s \in VerifySteps
          /\ verdict[s] = "none"
          /\ verdict' = [verdict EXCEPT ![s] =
                 IF run[w].pass THEN "pass" ELSE "fail"]
          /\ judged' = [judged EXCEPT ![s] = run[w].work]
          /\ Goto(w, "complete")
          /\ UNCHANGED <<scored, scoredOn>>
       \/ /\ \/ s = "scoring" /\ scored
             \/ s \in VerifySteps /\ verdict[s] # "none"
          /\ LeaveLoop(w, "error")
          /\ UNCHANGED <<verdict, judged, scored, scoredOn>>
    /\ UNCHANGED <<status, final, artifact, storageVars, otherVars, notified,
                   crashes, faults>>

\* Mutant: the loop goes on with the step's input instead of its output.
CompleteHandsOnInput(w) ==
    LET s == Step(w)
        u == run[w].uri IN
    /\ run[w].pc = "complete"
    /\ MarkStatus(s, "completed", u)
    /\ UNCHANGED late
    /\ \/ s \notin VerifySteps /\ NextStep(w, u)
       \/ s \in VerifySteps /\ HandleResult(w, s, run[w].pass, u)
    /\ UNCHANGED <<status, final, verdict, judged, scored, scoredOn,
                   enabled, storageVars, undone, notified, crashes, faults>>

\* mark_completed, then the rest of _run.
CompleteStep(w) ==
    LET s == Step(w)
        u == IF s \in TransformSteps THEN s ELSE run[w].uri IN
    /\ run[w].pc = "complete"
    /\ MarkStatus(s, "completed", u)
    /\ late' = late \cup IF LaterHasResult(run[w].i) THEN {s} ELSE {}
    /\ \/ s \notin VerifySteps /\ NextStep(w, u)
       \/ s \in VerifySteps /\ HandleResult(w, s, run[w].pass, u)
    /\ UNCHANGED <<status, final, verdict, judged, scored, scoredOn,
                   enabled, storageVars, undone, notified, crashes, faults>>

\* The for loop is exhausted: the else clause.
EndLoop(w) ==
    /\ run[w].pc = "begin"
    /\ run[w].i > Len(PIPELINE_STEPS)
    /\ LeaveLoop(w, "end")
    /\ UNCHANGED <<dbVars, storageVars, otherVars, notified, crashes, faults>>

\* A database statement of the loop fails, on its second try where
\* retry_on_lost_connection gives it one: "except Exception".  During an upload it
\* is the mark_failed of a copy that raised.
DatabaseFault(w) ==
    /\ faults < MaxFaults /\ crashes + faults < MaxFailures
    /\ run[w].pc \in {"begin", "execute", "clear", "save", "row", "complete"}
    /\ faults' = faults + 1
    /\ LeaveLoop(w, "error")
    /\ UNCHANGED <<dbVars, storageVars, otherVars, notified, crashes>>

\* Mutant: the verdict of a disabled postcheck is taken to be a pass.
FinalStatusIgnoresSetting(outcome, on) ==
    CASE outcome = "already" -> "compliant"
      [] outcome = "noncompliant" -> "noncompliant"
      [] outcome = "error" -> "error"
      [] OTHER -> "compliant"

\* is_disabled() of PostCheckService in a process with the steps of on.
FinalStatus(outcome, on) ==
    CASE outcome = "already" -> "compliant"
      [] outcome = "noncompliant" -> "noncompliant"
      [] outcome = "error" -> "error"
      [] OTHER -> IF "postcheck" \in on THEN "compliant" ELSE "skipped"

\* _mark_finished from one of the except clauses or the else clause.
MarkFinished(w) ==
    /\ run[w].pc = "finish"
    /\ status' = FinalStatus(run[w].outcome, enabled[w])
    /\ final' = IF run[w].outcome = "already" THEN "source" ELSE run[w].uri
    /\ Goto(w, "notify")
    /\ UNCHANGED <<artifact, verdict, judged, scored, scoredOn, storageVars,
                   otherVars, notified, crashes, faults>>

\* _mark_finished fails twice: the exception leaves the except or else clause
\* and finally still runs, with the row as it was.
FinishFault(w) ==
    /\ faults < MaxFaults /\ crashes + faults < MaxFailures
    /\ run[w].pc = "finish"
    /\ faults' = faults + 1
    /\ Goto(w, "notify")
    /\ UNCHANGED <<dbVars, storageVars, otherVars, notified, crashes>>

\* mark_running, or reading the callbacks in finally, fails for good: outside
\* the try, so the task just ends.
TaskFault(w) ==
    /\ faults < MaxFaults /\ crashes + faults < MaxFailures
    /\ run[w].pc \in {"mark", "notify"}
    /\ faults' = faults + 1
    /\ Goto(w, "done")
    /\ UNCHANGED <<dbVars, storageVars, otherVars, notified, crashes>>

\* finally: a send_webhook_notification task for every callback.
Notify(w) ==
    /\ run[w].pc = "notify"
    /\ notified' = notified + 1
    /\ Goto(w, "done")
    /\ UNCHANGED <<dbVars, storageVars, otherVars, crashes, faults>>

\* The worker process is killed.
Crash(w) ==
    /\ crashes < MaxCrashes /\ crashes + faults < MaxFailures
    /\ Alive(w)
    /\ crashes' = crashes + 1
    /\ Goto(w, "dead")
    /\ UNCHANGED <<dbVars, storageVars, otherVars, notified, faults>>

-----------------------------------------------------------------------------
Init ==
    /\ status = "queued"
    /\ final = ""
    /\ artifact = [s \in Steps |-> [status |-> "none", out |-> ""]]
    /\ verdict = [s \in VerifySteps |-> "none"]
    /\ judged = [s \in VerifySteps |-> {}]
    /\ scored = FALSE
    /\ scoredOn = {}
    /\ enabled = [w \in Runs |-> {}]
    /\ stored = {"source"}
    /\ content = [u \in Uris |-> {}]
    /\ run = [w \in Runs |-> [pc |-> "idle", i |-> 1, uri |-> "source",
                              work |-> {}, pass |-> FALSE,
                              outcome |-> "none"]]
    /\ notified = 0
    /\ late = {} /\ undone = {}
    /\ crashes = 0
    /\ faults = 0

\* What a live worker does next.
RunStep(w) ==
    \/ MarkRunning(w)
    \/ SkipStep(w)
    \/ ResumeStep(w)
    \/ StartStep(w)
    \/ ExecuteStep(w)
    \/ StepFails(w)
    \/ ClearOutput(w)
    \/ SaveOutput(w)
    \/ CreateRow(w)
    \/ CompleteStep(w)
    \/ EndLoop(w)
    \/ MarkFinished(w)
    \/ Notify(w)

Next ==
    \E w \in Runs :
        \/ Fetch(w)
        \/ RunStep(w)
        \/ DatabaseFault(w)
        \/ FinishFault(w)
        \/ TaskFault(w)
        \/ Crash(w)

Spec == Init /\ [][Next]_vars

\* The worker keeps running and the task is delivered again as long as some
\* delivery is left: somebody resubmits the document of an unfinished attempt.
LiveSpec ==
    /\ Spec
    /\ \A w \in Runs : WF_vars(RunStep(w)) /\ WF_vars(Fetch(w))

-----------------------------------------------------------------------------
\* What a caller is told, and what it rests on.

Finished == status \in FINISHED_STATUSES

\* A finished attempt keeps its status and its file for ever (process_remediation
\* returns at once for a finished row, so that a redelivered task changes
\* nothing).
FinishedIsFinal ==
    [][Finished => status' = status /\ final' = final]_vars

\* A verdict of the job rests on a stored verdict of veraPDF: compliant on a
\* passed check that is not contradicted by a postcheck, noncompliant on a
\* failed postcheck, skipped on a delivery that went through all its steps with
\* postcheck switched off; deliveries that do not overlap leave its row skipped too.
StatusHasEvidence ==
    /\ status = "compliant" =>
          \/ verdict["precheck"] = "pass" /\ final = "source"
          \/ verdict["postcheck"] = "pass"
    /\ status = "noncompliant" => verdict["postcheck"] = "fail"
    /\ status = "skipped" =>
          /\ \E w \in Runs : run[w].outcome = "end" /\ "postcheck" \notin enabled[w]
          /\ ~Overlap => artifact["postcheck"].status = "skipped"

\* The file a compliant attempt serves is in storage and is, content for
\* content, the file the verdict is about, whatever was redone in between,
\* unless a completed step was switched off and on again.
CompliantServesJudgedFile ==
    status = "compliant" /\ undone = {} =>
        /\ final \in stored
        /\ \/ verdict["precheck"] = "pass" /\ content[final] = judged["precheck"]
           \/ verdict["postcheck"] = "pass" /\ content[final] = judged["postcheck"]

\* Whatever happened, a finished attempt has a file to serve
\* ("every terminal branch records final_output_uri"), unless a step was switched
\* off after it completed: switched on again, it deletes the file that the rows
\* of later steps still name.
FinalIsServable == Finished /\ undone = {} => final \in stored

\* A finished attempt serves a file that is in storage, and a compliant one the
\* very file the verdict was given on, across kills, redeliveries and redone
\* steps (process_remediation's final_output_uri, run()'s resumption).
ServedFileIsSound == FinalIsServable /\ CompliantServesJudgedFile

\* A verification step that counts as completed has its verdict row, however
\* the worker died around the two saves: resume() reads it with get() and would
\* fail the job with DoesNotExist.
CompletedHasVerdict ==
    \A s \in VerifySteps : artifact[s].status = "completed" => verdict[s] # "none"

\* The rows have their types, and a completed step its verdict, between any two
\* statements of any worker (StepService.run, models.py).
RowsConsistent == TypeOK /\ CompletedHasVerdict

\* Callers are not notified twice while the database keeps answering
\* (tasks.py: a redelivered task "doesn't re-send every webhook").
OneRoundOfWebhooks == faults = 0 => notified <= 1

\* The attempt as its callers see it implements the job life cycle, including
\* that it finishes.
Lifecycle == INSTANCE JobLifecycle WITH Files <- Uris
ImplementsLifecycle == Lifecycle!Spec

\* A worker killed in the middle of a step costs nothing but a rerun: the job
\* ends in error only if its postcheck could not run or the database failed
\* (ADR 0019: a step that crashed mid-way "runs again from scratch").
CrashNeverFailsJob ==
    status = "error" => artifact["postcheck"].status = "failed" \/ faults > 0

\* A job that went through all its steps serves a file with the work of every
\* step recorded as completed, even across kills and redeliveries, except that
\* of a step that failed the first time and was completed behind a later one
\* (models.py: "each step's output_uri is the file it handed to the next step").
NoCompletedWorkDropped ==
    (status \in {"compliant", "noncompliant"} /\ verdict["precheck"] # "pass")
        => \A s \in TransformSteps \ late :
               artifact[s].status = "completed" => s \in content[final]

\* The score and the verdict of one attempt are about the same file (tasks.py:
\* scoring "scores the same file veraPDF is about to validate") unless the score
\* was completed when the verdict already existed, or a completed step was
\* switched off before a redelivery: switched on again, it rewrites the file
\* that the score was made of.
ScoreMatchesVerdict ==
    (/\ "scoring" \notin late /\ undone = {}
     /\ artifact["scoring"].status = "completed"
     /\ verdict["postcheck"] # "none")
        => scoredOn = judged["postcheck"]

\* No work a row calls completed is missing from the served file, and the score
\* was made of the file that was judged (StepArtifact.output_uri, tasks.py's
\* step order).
WorkIsAccountedFor == NoCompletedWorkDropped /\ ScoreMatchesVerdict
=============================================================================
