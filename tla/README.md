# TLA+ models of the DICE document pipeline API

The program is a Django service. A client uploads a PDF
(`POST /api/submit-document/`); the service stores it, makes an *attempt* (a
`Remediation` row), queues a background task, and a worker runs the PDF through
a fixed list of steps (veraPDF precheck, five transforms, scoring, veraPDF
postcheck). Clients poll the status, download the result, or register a webhook.
Web processes and workers share nothing but one Postgres database and one object
store, and any of them may be killed at any statement.

These modules model the parts where that matters, and the rules by which the
program repairs, scores and compares documents. TLC checks them on small
instances, and TLAPS proves the safety guarantees of the submit endpoint, the
pipeline task, the webhooks, the request counters, the accounts, the documents and
the rules for every instance.

## 1. Inventory

| Part (source) | State | Operations | What makes it hard | Correct when |
|---|---|---|---|---|
| Submit endpoint (`api/views.py`, `api/submission_limits.py`, `remediation/serializers.py`) | none of its own; an open transaction and in-memory copies of rows | `CreateRemediationView.post`, `SubmissionLimit.check` | concurrent requests, a row lock taken mid-transaction, copies that go stale, death between commit and enqueue | limit never exceeded, no stale decision, nobody waits for ever |
| Attempts (`remediation/services.py` `RemediationService`, `remediation/models.py`, `remediation/admin.py`) | `Remediation` rows, stored originals, `PipelineConfig.retry_floor_version` | `get_or_create_from_upload`, `_store_original`, `_create_or_reuse_unfinished`, `claim_enqueue`, `recent_submissions`, `mark_running`, `_mark_finished` | partial unique index, conditional update, retry floor, stuck attempts | one unfinished attempt per document, claims spaced, no attempt without a task |
| Pipeline task (`remediation/tasks.py`, the step services of `remediation/services.py`, `common/db.py`) | `RemediationArtifact`, `VerificationResult`, `RemediationScore` rows, stored outputs | `process_remediation`, `run`/`resume_completed`/`_run`, `persist_output`, `mark_completed` | redelivery after a kill anywhere, redoing failed steps, delete-then-upload, overlapping deliveries, database faults | verdict and served file agree, finished is final, a job finishes |
| Webhooks (`remediation/tasks.py`, `remediation/webhook_client.py`, `api/views.py`) | `RemediationCallback` rows, queued notices | `register_callback`, `finally` of the task, `send_webhook_notification` | registration racing the end of the run, retries of notices already received | notified if registered in time, notices bounded, only finished attempts reported |
| Status and download endpoints (`api/views.py`) | none | reads of the latest attempt | reading a row that changes | what `JobLifecycle` promises of the two columns they read |
| Throttle counters and lockout (`api/services.py`, `api/throttles.py`, `api/lockout.py`, `api/authentication.py`, `api/client_ip.py`) | `ThrottleCounter` rows | `hit`, `read`, `_remove_old_rows`, `check`, `record`, `client_ip` | update/restart/create races on one row, window ending mid-call, bounded rounds, failures checked before any is recorded | no hit lost in a live window, the rate holds, a lost round has a winner, the caller does not choose its counter |
| Scheduled worker (`run_queued_tasks`, `remediation/hybrid_client.py`) | the task queue | one batch run, waiting for the OCR server | giving up with tasks queued, retries that become due when no job is left | queued tasks are eventually taken |
| Accounts (`accounts/`) | organizations, service accounts, logins, tokens, webhook secrets | admin pages, `ServiceAccountService` | pages opened before and saved after somebody else's change, several tables per operation | limits never half-filled, every login and key listed, no replaced secret comes back |
| PDF adapters (`remediation/adapters/`) | the document | font repair, metadata, link tags, alt text, scoring, severity of a failed rule | several walks of one tree with different limits, references kept across two openings of the file | no step makes a document worse, every walk agrees on what is left to do |
| Quality and regression commands (`remediation/pdf_quality.py`, `ocr_truth.py`, `management/commands/`) | recorded reports and fingerprints | report, staged run, comparison, OCR scores, regression check | failed stages, rules seen on one side only, boundaries of tolerances | no change unreported, a missed step never passes |
| Database backup, origin lock, error reporting, settings, deployment | files, configuration | sequential tools, stateless checks | - | - |

The parts meet at: the `status` column (requests, runs and readers), the task
queue (a request or a claim puts a task in, a worker takes it), the object store
(an original is stored before its row exists; a step's output before its row),
the callbacks table (a request inserts, the run's `finally` reads), the counter
rows (every request of one caller), and the account rows (an admin may delete an
account under a request that was already let in).

`PROJECT.json` lists every part with its status and, under `hazards`, each place
where this code is exposed to an interleaving, a crash, a stale copy or a
boundary, with the properties that watch it.

## 2. Modules

| Module | Models | Extends / instantiates |
|---|---|---|
| `Submission` | the submit endpoint, attempts, and the outline of a worker's run that requests can observe | - |
| `MCSubmission` | finite instances | `Submission` |
| `SubmissionSafety` | theorems: type correctness, one unfinished attempt, the limit, current decisions | `Submission` |
| `SubmissionJobs` | theorems: originals, claims, lost jobs, clashes | `SubmissionSafety` |
| `JobLifecycle` | the abstract specification: queued, running, finished with a file, never changing again, and eventually finished | - |
| `Pipeline` | `process_remediation` and all step services for one attempt, several deliveries | instantiates `JobLifecycle` |
| `MCPipeline` | finite instances | `Pipeline` |
| `PipelineProofs` | theorems about rows and status, overlapping deliveries included; for deliveries one after another: life cycle, notices, files, work | `Pipeline` |
| `Notifications` | the webhooks of one attempt | - |
| `MCNotifications` | finite instances | `Notifications` |
| `NotificationsProofs` | the theorems about the webhooks | `Notifications` |
| `ThrottleCounter` | the two counter rows of one caller and the requests that count in them | - |
| `MCThrottle` | finite instances | `ThrottleCounter` |
| `ThrottleProofs` | the theorems about the counters | `ThrottleCounter` |
| `Accounts` | accounts, logins, tokens and secrets, with several admins and API requests | - |
| `MCAccounts` | finite instances | `Accounts` |
| `AccountsProofs` | the theorems about accounts, keys and secrets | `Accounts` |
| `StructTree` | a tagged PDF, the link and the alt text adapter | - |
| `FontRepair` | the font repair adapter | - |
| `Scoring` | the heuristic scorer | `StructTree` |
| `OcrTruth` | scores of OCR output against a transcription | - |
| `QualityReport` | the quality report and the comparison of two | `StructTree`, `OcrTruth` |
| `QualityCommands` | the staged run, the OCR regression check | `QualityReport` |
| `DocumentSteps` | a document going through the repair steps | `Scoring`, `FontRepair`, `QualityReport` |
| `DocumentProofs` | the theorems about the documents | `DocumentSteps` |
| `Severity`, `ClientIp` | the severity table, the address a request is counted under | - |
| `Rules` | the inputs of the comparison, regression, severity and address rules and what the rules promise | `QualityCommands`, `Severity`, `ClientIp` |
| `RulesProofs` | the theorems about the rules | `Rules` |
| `MCRules` | finite families of documents and rule inputs | `DocumentSteps`, `Rules` |

Definitions that begin with the comment "Mutant:" are wrong variants of the
definition that follows; no specification uses them. Each stands for a plausible
slip in the code, and the checked property named in `PROJECT.json` must fail when
it takes the place of the original: that is how each property is known to say
something about the code.

### Submission

| State | Code |
|---|---|
| `rows`, `remediation` | committed `Remediation` rows and their columns; an inserted, uncommitted row already has its columns in `remediation` |
| `locks` | requests holding `SELECT ... FOR UPDATE` on their account's row |
| `originals` | uploaded files, by the path `remediations/<account>/<hash>/<name>` |
| `pc`, `upload`, `att`, `seen` | a request's position, its validated input, the attempt it resolved to and its copy of that row |
| `basis` | history: the latest attempt at the second look |
| `ready`, `fetched`, `running` | queued tasks; runs between the read of the row and `mark_running`; runs after it |
| `claims`, `crashes` | history |

One action per statement that reads or writes shared state:
`FirstLook` → `Check` → `SecondLook` → `StoreOriginal` → `Create` →
(`HandleClash`) → `Commit` → `ClaimEnqueue` → `Enqueue`. `Check` takes the
account's lock and keeps it until the transaction ends, or answers 429.
`Create` waits while an uncommitted row holds the same unique key (Postgres does)
and clashes with a committed unfinished one. `WorkerMark` saves `running`
whatever the row says by then, unless the unique index refuses. `RequestCrash`
and `WorkerDie` kill a process anywhere, and a delivery whose own read or save of
the row fails for good ends like one that was killed (`Pipeline` tells the two
apart); `Deploy`, `SetRetryFloor`, `Tick` and `Resubmit` are the surroundings. Postgres is READ COMMITTED, so each
statement sees what is committed when it runs.

Abstractions: a document is its hash; the clock is an integer and an insert
takes one tick, because `created_at` has microseconds and two inserts do not
share one; the retry floor is compared as an integer (the code parses
semantic versions); validation of the upload is before the model; requests
leave `callback_url` blank (see `Notifications`).

### Pipeline and JobLifecycle

A *file* is the set of transforms whose work it contains, and its storage key
is the step that wrote it. `run[w]` is one delivery of the task: its position in
`process_remediation`, the index of the step, `pdf_uri`, and what the step has
produced so far. `Fetch` reads the row and returns at once for a finished one;
`SkipStep`, `ResumeStep`, `StartStep` are the three branches at the head of a
step; `ExecuteStep`/`StepFails` the adapter's result or exception;
`ClearOutput` and `SaveOutput` the two halves of `persist_output`;
`CreateRow` the verdict or score row (unique per attempt, so a second one is an
`IntegrityError`); `CompleteStep` the artifact row; `MarkFinished` the
`except`/`else` clauses, `Notify` the `finally`. `Crash` kills the worker
between any two of these; `DatabaseFault` (anywhere in a step, saving its output
and recording that it failed included), `FinishFault`, `TaskFault` are statements
that fail after their retry. `judged`, `scoredOn` and `late` are
history: which content a verdict or score is about, and which steps were
completed when a later step already had a result.

`enabled[w]` is the set of steps whose `RUN_<STEP>` setting is on in the process
that runs delivery `w`; `Fetch` chooses it, so that a run that was killed may be
taken up by a worker with other settings, and two deliveries that overlap may run
under different ones. `undone` is history: steps that were completed and then
recorded as skipped.

`Overlap` says whether a delivery may start while another still runs. It can in
the code once an attempt has run longer than `STUCK_RUNNING_MINUTES`.

`JobLifecycle` is what callers rely on; the refinement mapping is the identity
on `status` and `final`.

### Notifications

One attempt, its callbacks (a URL each), the submits that name them, the
deliveries of its task, and the notices: a bag of due tasks, a bag of retries that
wait for their time, a bag of those a worker has taken.

The first delivery is queued with the attempt. Every other one takes a resubmit
(`Resubmit`: `claim_enqueue` finds the attempt stuck), whether or not a delivery is
still at work, so deliveries overlap; nothing redelivers a task by itself. `RunFetch`
reads the row and returns for a finished attempt; `RunMark` marks it running
whatever it has become since, or the unique index refuses because a newer attempt
of the document is unfinished (`RunMarkRefused`). `RunFinish` saves, `RunRead` reads
the callbacks in `finally`, `RunEnqueue` queues one notice per turn;
`RunFinishFault` is a final save that fails for good, after which `finally` still
runs and the delivery ends. History: `overlapped` (a delivery began while another
had yet to end), `reopened` (one marked a finished attempt running again), `ends`
(deliveries that came to their `finally`). `DeliveryFails` covers a subscriber that
got the request and one that did not.

The scheduled worker is `worker`: `WorkerStarts` returns at once when no task is
ready, else it waits for the OCR server; `OcrTimeout` ends the run with the tasks
still queued, `OcrReady` begins the batch, and `BatchEnds` when nothing is ready.
Tasks are taken only in a batch. Backoff only delays a task, so time is left out
and `BecomesDue` makes a retry due. The history variable `tries` counts the
deliveries tried per URL and attempt number, so that `AttemptsBounded` says that a
series makes *each* attempt at most once, not only that there are
`MAX_WEBHOOK_ATTEMPTS` in all.

### ThrottleCounter

`row[s]` is the row of one caller in scope `client_ip` or `failed_auth`. A request
authenticates (`Authenticate`: the lockout's `check`, then the token) or pings
without a token (`Ping`), and the hits it makes run through `hit()` one statement
at a time: `StartHit` takes `now` and counts the round, `UpdateLive` is the
conditional update of a live window, `UpdateExpired` the restart of an expired
one, `Create` the insert that loses against a row made meanwhile, `RemoveOldRows`
the clean-up, `ReadBack` the read that decides. Each statement is one atomic
action and uses the `now` of its round, which may be long past. History: which
window a hit was counted in and with which rank, how many windows others began
during the hit, and the most wrong tokens under way at once.

### Accounts

An admin's page reads its object when the request arrives (`OpenAdd`, `OpenEdit`,
`OpenIssue`, `OpenOther`) and writes in a transaction of its own (`SaveAdd`,
`SaveEdit`, `SaveIssue`, `SaveRegenerate`, `SaveDelete`, `RevokeTokens`). The
change form edits the organization, the name and the limits. A save of an edit
writes the fields the form changed (`Edited`), and the constraints of
`accounts/models.py` decide whether it commits (`Saves`). `SaveDelete` deletes the
login of the account its page shows, also when the account has gone with its
organization meanwhile. `AddOrganization` and
`DeleteOrganization` are the organization's own pages. `Enter` and `Submit` are an
API request that authenticates and, later, makes a job for its account, whose
`PROTECT` then refuses a deletion. An account and its login share an id; the three
limit values are one field, blank or set.

### Documents and rules

A document is a record: its structure tree in document order (`nodes`), link
annotations, images per page, text as words, fonts and their descriptors, the
metadata that is set, and facts the scorer looks up (`FACTS`). The `/K` of a node
(`kids`) is one kid, an array of elements, or an array that holds page content
(a bare MCID) as well. A page names its fonts; two names may stand for one font, and
what is shown, read and mapped is per name, as in the code. `mended` is the text,
and the facts read from it, once fonts have got a character map. `DocumentSteps`
takes it through font repair, metadata, link tags, alt text and scoring in the
code's order; a step may fail, which hands its input on, and the result may go
through the steps again. What OpenDataLoader and Claude do is the input: a round
starts with the document the tagger left, and an answer is a description of the
image that was sent, empty, or no better than a placeholder ("Figure 2").

The walks keep what distinguishes them in the code: where each stops
(`MAX_STRUCT_TREE_DEPTH`, `SCORE_DEPTH`), whether a page is inherited, which figures
count as undescribed, where a header cell counts. `QualityReport`, `OcrTruth`,
`QualityCommands`, `Severity` and `ClientIp` are operators. `Rules` says what they
promise of one input, which the variable `sample` holds: its constants are the
inputs there are, and its assumptions say what the code makes of them (a report
measures numbers, a fingerprint is made by one of two functions, a clause is a
sequence of numbers). `MCRules` gives the constants every bounded input.

## 3. Runs

| Run | Instance | Shows |
|---|---|---|
| `submission_limit` | 3 requests, 1 account with limit 1 per 2 ticks, 2 documents, 1 kill | `LimitRespected`, `DecisionIsCurrent`, `SourceStored`, `LimitedNeverErrors`, `TypeOK` |
| `submission_requeue` | 3 requests, unlimited account, 1 document, waits of 1 and 2 ticks | `OneUnfinished`, `ClaimsAreSpaced`, `NoJobLost` |
| `submission_live` | 2 requests, limited account, 2 pipeline versions, retry floor, 1 kill | `EveryRequestAnswered`, `JobFinishes` |
| `submission_repeat` | 2 requests, limit 1 | violation of `RepeatNeverTurnedAway` |
| `pipeline_redelivery` | 3 deliveries one after another, 2 transforms, each delivery with all steps on or postcheck and one transform off, 1 kill and 1 database fault, fairness | `RowsConsistent`, `StatusHasEvidence`, `ServedFileIsSound`, `WorkIsAccountedFor`, `OneRoundOfWebhooks`, `ImplementsLifecycle` |
| `pipeline_crash_error` | 2 deliveries, 1 kill | violation of `CrashNeverFailsJob` |
| `pipeline_overlap` | 2 overlapping deliveries | violation of `FinishedIsFinal` |
| `notifications` | 2 requests, 1 URL, 2 deliveries that may overlap, 2 attempts per notice, 1 kill or failed final save, a scheduled worker, fairness | `NoticesBounded`, `ReportsFinished`, `InTimeIsNotified` |
| `notifications_lost` | 1 request, no kill | violation of `EveryCallerNotified` |
| `throttle` | 3 requests of one caller, rate 1, window 1, grace 1, 2 rounds, 3 ticks | `AllowedPerWindow`, `NeverFewer`, `RoundsArePaidFor`, `LockoutOvershoot`, `LiveWindowKept`, `TypeOK` |
| `accounts` | 2 admins, 2 organizations, 2 accounts, 1 name, 1 token name, 4 keys, 1 API request | `NeverHalfFilled`, `AccessIsListed`, `JobsKeepTheirAccount`, `SecretNeverReverts` |
| `rules` | families of small documents (links, figures, tables, fonts) through 2 rounds with 1 failed step each; all bounded inputs of the rules | see below |

The run `rules`:

| Property | Says |
|---|---|
| `TreeStaysSound` | the tree stays well-formed and refers to each link annotation exactly once, shared annotations and second rounds included |
| `DescribedFromOwnImage` | an answer is written only where no description was; a description is of the figure's page and its own image |
| `NoStepMakesItWorse` | the extracted text apart, no step lowers the score or worsens a total of the report, but for the placeholders that placeholder-like answers add |
| `WalksAgree` | what the alt text step collects the report counts on the same page; a table the report finds headerless the scorer deducts for, unless its first row holds page content of its own |
| `FontsAreRepaired` | a repaired CIDSet marks every glyph and none past the last; every code of a font shown under one name of one page is mapped, whatever other names and pages list the font |
| `TextMeasuresAgree` | the edit distance is the least over all ways to pair the words (the reference definition); rates, counts and repeated phrases do not contradict each other |
| `CompareMirrors` | worse one way is better the other way; a report against itself shows nothing |
| `MissedStepNeverPasses` | a PDF that missed a stage never compares clean with one that did not, and carries its own veraPDF verdict |
| `NoSilentChange` | a fixture is reported exactly when what the fingerprint's keys read as changed (a key that is missing reads as `None`), and the HTML report explains what the command prints |
| `OnlyReviewedRulesClassified` | the tables classify the whole profile and nothing outside it (7.10 is no part of 7.1) |
| `CallerCannotChooseKey` | what a caller writes into the address headers does not decide where it is counted |

Some properties are conjunctions of parts defined just before them
(`ServedFileIsSound`, `WorkIsAccountedFor`, `RowsConsistent`, `NoticesBounded`,
`AccessIsListed`, `TreeStaysSound`, `WalksAgree`, `FontsAreRepaired`,
`TextMeasuresAgree`); each part states its own claim and its source.

Why the bounds are enough. The races of the submit endpoint are between two
requests and a third that arrives after the first has finished; three requests
with limit one give every such order, a request that waits for the lock
and finds the limit used, and a retry behind a retry. The clock runs past
one period and past two waits. Two transforms are the least number with a
"later step" that is already completed when an earlier one is redone. With three
deliveries, a kill and a failing statement (which may be the final save) the first
two can both end without a final status, one of them in the middle of a step; and
settings that differ from delivery to delivery switch a completed step off and on
again. Two submits of one subscriber give an early and a late registration and one
made twice; subscribers meet only in the queue, which is a bag, so one suffices. Two
deliveries give the overlap that reopens a finished attempt. Three requests at one
counter give a hit that loses its round to a restart while a third one counts; time
runs past a window, its grace and a second window, so rows are cleaned up and made
anew under a request, and two rounds make the `RuntimeError` reachable. Two admins
give every race of two pages; two accounts one that is deleted and one that is added
after it; with one name and two organizations, whether a name is free depends on
where the account is moved to; with one token name, a second token is refused until
the first is revoked. Four keys (a secret and a token per account made) are two
accounts, or one with new secrets and tokens. The documents reach one level past
either depth limit, annotations shared by two pages, direct objects, figures nested,
side by side and on unknown pages, fonts listed under two names and on two pages, and
CIDSets on both sides of the byte boundary. For every
safety property but `TextMeasuresAgree`, the theorems below remove the bounds
altogether.

The instances stop when nobody submits any more and every delivery has ended, as
the system does, so deadlock is not checked; `EveryRequestAnswered`,
`JobFinishes`, `ImplementsLifecycle` and `InTimeIsNotified` say that nothing stops
before it should.

Symmetry (requests, admins, organizations) is used in runs without liveness only.

### Fairness

- A live process goes on: weak fairness of each request's and each run's next
  statement. Steps of a run end because the adapters have timeouts or return.
- `Check` is strongly fair: Postgres queues the waiters of a row lock, so a
  waiter is not passed over for ever although others take the lock in between.
- The scheduled worker is started every 20 minutes (`WorkerStarts`, weakly fair),
  its batch ends, a retry's time comes, and a due task is taken while a batch
  runs. `OcrReady` is strongly fair: a worker that asks again and again finds the
  OCR server ready some time. Without that nothing is processed and nothing can be
  claimed; the runs that give up before it are what `InTimeIsNotified` is about.
- A delivery of a notice ends: `WebhookClient` has a timeout.
- In `Pipeline`, an attempt left unfinished is delivered again as long as a
  delivery is left. In the code this needs somebody to resubmit the document
  (`claim_enqueue`); without a resubmit a killed worker's attempt stays as it
  is. `JobFinishes` therefore excuses behaviours with a kill, and
  `ImplementsLifecycle` speaks about an attempt that somebody still wants. With
  two failures in all, three deliveries always leave one undisturbed.
- In `Notifications` nobody has to resubmit. An attempt whose deliveries have all
  ended without a final status (a kill, or a final save that failed) stays
  unfinished, and `InTimeIsNotified` excepts it (`Waiting`).
- Beyond the resubmit in `Pipeline`, nothing is assumed of kills, faults, clients,
  clocks or administrators.

## 4. Proofs

Every invariant and action property of the passing runs except `TextMeasuresAgree`
is a theorem, without a bound on processes, kills, faults, time or the size of a
document (a bound such as `MaxCrashes` is a constant of the model, and the theorems
hold for each of its values). The assumptions are those the modules declare about their constants;
TLC evaluates them on every run.

### Submission

For every set of accounts, documents, names and requests, every limit and
period, every wait, and every number of kills:

| Theorem | States |
|---|---|
| `TypeCorrect` (`SubmissionSafety`) | `Spec => []TypeOK` |
| `AtMostOneUnfinished` | `Spec => []OneUnfinished` |
| `NeverOverTheLimit` | `Spec => []LimitRespected` |
| `DecisionsStayCurrent` | `Spec => []DecisionIsCurrent` |
| `OriginalsAreStored` (`SubmissionJobs`) | `Spec => []SourceStored` |
| `ClaimsStaySpaced` | `Spec => []ClaimsAreSpaced` |
| `NothingIsLost` | `Spec => []NoJobLost` |
| `LimitedRequestsDoNotClash` | `Spec => []LimitedNeverErrors` |

Assumptions: those declared in `Submission` (non-empty sets, limits that are
naturals or `Unlimited`, waits that are naturals with `StuckQueued <=
StuckRunning`, outcomes among the finished statuses). TLC evaluates them in every
submission run.

The inductive invariant is `IInv`: `TypeOK`, `OneUnfinished` and

- `Shape`: a committed attempt's request is past its transaction, and tasks and
  runs belong to committed attempts. Without it a task could be of a row that
  does not exist.
- `PendingIsAlone`: a row inserted but not committed has no unfinished rival,
  committed or not. `OneUnfinished` alone is not inductive: it says nothing of
  the row about to be committed. `WorkerMark` and `Create` both wait for
  pending rivals, which is what keeps this true.
- `LockHeld`: between the check and the commit, a request of a limited account
  holds that account's lock and nobody else does.
- `RoomLeft`: while it holds the lock, there is room for one more attempt in the
  period that ends now. Nobody else can commit for the account
  (`AccountStill`), and time only makes attempts drop out (`SinceShrinks`), so
  the room counted by `Check` is still there at the insert and the commit.
- `PeriodBounded`: every period ending at any time so far is within the limit.

`StepKinds` classifies the steps by what they do to the table (nothing that
matters, an insert, a commit, a mark), so that each part is proved against
four cases instead of all actions. `DecisionsStayCurrent` uses `LockHeld`: the
latest attempt can change only through a commit of the same account, which the
lock excludes from the second look to the insert.

`SubmissionJobs` adds to it, each part for one theorem:

- `Stored`: the original is there from before the insert on, and no step deletes
  one.
- `LastClaim`: `last_enqueued_at` is the time of the last claim, so the
  conditional update of `claim_enqueue` compares with the claim that came last,
  whatever copy the request decided on.
- `OwnAttempt`: the request that made an attempt answers for that attempt until
  it has queued it. This keeps `NoJobLost`: the holder of an unfinished attempt
  passes from the request to the task and from the task to a run, and only a kill
  takes it away.
- `Pending`, `QueuedOnce`, `OlderFinished`, `ClearToInsert`: a limited account's
  request that reaches the insert has no unfinished rival, because its second look
  was under the lock, and an attempt has one task in its life, so that no second
  run can make a finished one running again. The hypothesis of
  `LimitedNeverErrors`, that nothing was claimed, is what gives the one task.

### ThrottleCounter

For every finite set of requests of a caller, every rate, window, grace period and
number of rounds (`ThrottleProofs`):

| Theorem | States |
|---|---|
| `TypeInvariant` | `Spec => []TypeOK` |
| `ReadsItsOwnHit` | `Spec => []NeverFewer` |
| `RoundsPaid` | `Spec => []RoundsArePaidFor` |
| `RateHolds` | `Spec => []AllowedPerWindow` |
| `WindowsAreKept` | `Spec => LiveWindowKept` |
| `OvershootBounded` | `Spec => []LockoutOvershoot` |

The assumption is `ThrottleAssumption` (a finite set of requests, naturals, a
window and a number of rounds of at least one), evaluated by the run `throttle`.
The inductive invariant is `IInv`: `TypeOK` and

- `NowIsPast`: the time a round works with is not in the future. It is why a
  restart or a clean-up, which asks for rows that ended before *its* time, never
  touches a window that is live now.
- `RoundInv`: past each statement of the loop, either what the statement looked
  for is still not there, or another request began a window during this round. So
  a round that finds nothing three times has been overtaken.
- `HitInv`: a counted hit stays counted until its window ends; what was read back
  in time is at least its rank; and what got through read no more than the rate.
- `RankInv`: the hits of one window have different ranks, none above the count.

`AllowedPerWindow` then follows by counting: the requests let through in one window
have different ranks between 1 and `num_requests`, so the map from request to rank
is an injection into that interval.

`OvershootBounded` needs a second invariant, `GuessInv`: the failures a window has
counted, together with the wrong tokens that can still find that window live, are
at most `max_failures + peak - 1`. A wrong token is let in only by a check that
found room, so the sum is within the bound when it enters; from then on it moves
from the second number to the first.

### Pipeline

For every list of transforms, any settings of each delivery, and any number of
deliveries, kills and database faults:

| Theorem | States |
|---|---|
| `RowsStayConsistent` (`PipelineProofs`) | `Spec => []RowsConsistent` |
| `StatusRestsOnEvidence` | `Spec => []StatusHasEvidence` |
| `NotifiedOnce` | `Overlap = FALSE`: `Spec => []OneRoundOfWebhooks` |
| `PipelineImplementsLifecycle` | `Overlap = FALSE`: `Spec => Lifecycle!Init /\ [][Lifecycle!Next]_(Lifecycle!jobVars)` |
| `FinishedNeverChanges` | `Overlap = FALSE`: `Spec => FinishedIsFinal` |
| `ServedFileStaysSound` | `Overlap = FALSE`: `Spec => []ServedFileIsSound` |
| `CompletedWorkIsServed` | `Overlap = FALSE`: `Spec => []WorkIsAccountedFor` |

The first two hold however deliveries overlap. The others are about deliveries one
after another: `FinishedIsFinal` is false with overlap (the run
`pipeline_overlap`), and so is what rests on it. Besides typing, the assumption on
the constants is that no transform is listed twice, as in the code's fixed
`PIPELINE_STEPS`.

- `RowInv` is `TypeOK`, what a delivery in the middle of a step has already
  written (`StepInv`), that a completed step has its file and its verdict
  (`OutputInv`), and that whatever leaves the loop has its evidence in the rows
  (`EndInv`). `EvidenceInv` says the same of the status: a compliant or noncompliant
  one rests on a verdict row, and such a row is never changed once it is there; a
  skipped one on a delivery without postcheck that is through with all its steps. It
  speaks of the delivery's own settings and not of the rows, because a delivery with
  postcheck that overlaps may have left a verdict that the one without never looks
  at.
- `TurnInv` adds that one delivery is alive at a time, and is in the loop only
  while the attempt is running (`AloneInv`), and that after a round of notices
  nobody works on the attempt any more (`NotifyInv`).
- `FileInv` adds which keys are in storage (`KeyInv`: those of completed steps;
  `persist_output` deletes only the key of a step that is not completed), what
  the verdicts and the score are about (`VerdictInv`), and what a delivery holds
  in its hands (`HandInv`).
- `WorkInv` adds, for the file handed on at each place of the list, which steps'
  work it contains (`ContentInv`, `HandWorkInv`): that of every completed step
  before it that was completed in order.

The proof corrected a property. `ScoreMatchesVerdict` was stated for attempts with
`late = {}`; the induction did not go through, and TLC found the reason with one
delivery and one kill more than the run has: a completed step that is switched off
and on again (`undone`) rewrites the file the score was made of, and nothing is
`late` about it. Conversely a late transform does no harm; only a late scoring step
does. The property now says exactly that (`"scoring" \notin late /\ undone = {}`).

### Notifications

For any subscribers, submits and deliveries, overlapping or not, and any
`MAX_WEBHOOK_ATTEMPTS` (`NotificationsProofs`):

| Theorem | States |
|---|---|
| `OnlyFinishedIsReported` | `Spec => []ReportsFinished` |
| `NoticesStayBounded` | `Spec => []NoticesBounded` |

The inductive invariant is `NotifyInv`: `TypeOK` and

- `OneRun`: while deliveries have not overlapped, one at a time has begun and not
  come to its final save, the attempt is unfinished then, and each that came to its
  `finally` finished the attempt or failed to save.
- `OneNotifier`: while no finished attempt was marked running, a request's copy that
  says "finished" is right; of the requests for one URL only the one that made the
  callback row notifies it.
- `NothingEarly`: while no final save has failed and no finished attempt was marked
  running, whatever is queued, deferred or under way was enqueued after the attempt
  was finished.
- `SeriesInv`: the first attempts of a URL, enqueued or still owed by a delivery or
  a request, are no more than its callback row and the deliveries that came to their
  `finally` account for. `AtMostTwoSeries` alone is not inductive: it does not see
  what is still owed.
- `AttemptInv`: an attempt is open (queued, deferred or under way) or tried at
  most as often as the attempt before it was tried, and as there are series.

Queues are bags; the lemmas about adding and removing one copy are proved from
the definitions of `Bags`.

### Accounts

For any organizations, names, admins and API requests (`AccountsProofs`):

| Theorem | States |
|---|---|
| `AccessStaysListed` | `Spec => []AccessIsListed` |
| `LimitsStayFilled` | `Spec => []NeverHalfFilled` |
| `JobsAccountsStay` | `Spec => []JobsKeepTheirAccount` |
| `ReplacedSecretsStayReplaced` | `Spec => SecretNeverReverts` |

The inductive invariant is `AccountsInv`: the four properties' state parts,
`TypeOK`, that a key is minted once (`KeysUnique`), that every secret was made by
then (`SecretsMade`), and that an Add page under way is valid by itself
(`AddsValid`).

### Documents

For any documents, any depth limits, any answers and any number of rounds and of
failing steps (`DocumentProofs`):

| Theorem | States |
|---|---|
| `WalksAlwaysAgree` | `DocSpec => []WalksAgree` |
| `TreeAlwaysSound` | `DocSpec => []TreeStaysSound` |
| `AlwaysDescribedFromOwnImage` | `DocSpec => []DescribedFromOwnImage` |
| `StepsNeverMakeItWorse` | `DocSpec => NoStepMakesItWorse` |
| `FontsAlwaysRepaired` | `DocSpec => []FontsAreRepaired` |

Assumptions: every document is one the tagger can leave (`IsDocument`: a tree in
document order, annotations and fonts where the pages say, objects of their own with
different ids), and the limits are naturals. TLC evaluates them on the documents of
`rules`.

The walks of the code recurse over the tree; the model has the way from the root to
a node (`PathTo`), a recursive function. A recursive function is a `CHOOSE` of a
function that satisfies its equation, so the proofs begin by showing that there is
one: the way to `n` is what every set has that contains `n` and, of a node, the
parent (`PathsExist`). From there on only the equation is used (`PathUnfolds`).

The inductive invariant of the tree is `DocInv`:

- `Sound`, of the document and of the one the round started with: its fields and
  types, the document order, the pages.
- `Grown`: since the start of the round the tree gained only links behind its old
  nodes. So every old node keeps its way, its depth and its page (`GrownKeeps`),
  which is why a reference from one opening of the file still means the same figure
  in the next.
- Until the link step nothing is added, and until the answers are written no `/Alt`
  differs from the start of the round. Without it nothing relates the figures
  collected to the images sent.
- `AnswersHeld`: every answer held belongs to a figure of the document as it is, and
  is its image's description, empty, or like a placeholder.
- `LinkedOnce` and `Described`: the two properties, of any earlier and later
  document, so that they are carried over the steps after the one that brings them
  about.

`LinksTaggedOnce` has the link step: it visits a page's annotations in order, and of
several with one id only the first is tagged. `PlaceAmongAll` has the pairing of
figures and images: a figure's place among those that need a description is its
place among all of its page unless one of these has a description already, which
is the exception `DescribedFromOwnImage` makes. `StepsNeverMakeItWorse` rests on
`NoWorse`, which holds of every step once the text and the facts read from it are
put back (`TextApart`): the tree grows by links, and an `/Alt` that changes becomes
one that is not blank. Every deduction of the scorer is then shown to be no larger,
and every measure of the report but the placeholders, which grow only if a
placeholder was answered (`NoPlaceholders`).

`FontInv` adds the fonts: until the font step the document is the one the round
started with, and once it completed, its fonts and descriptors are those repaired
(`Repaired`). `FullCidset` does the byte arithmetic of a CIDSet for every number of
glyphs. The map a font gets is that of the last of its names on the first page that
reads, so a font shown under one name has the codes of that name mapped
(`CodesMapped`), whatever else lists it. `FontsAlwaysRepaired` also needs that a
descriptor with an id is the first with that id where it is first visited
(`FirstVisited`, `OwnDescRepaired`), because the code skips ids it has seen.

### Rules

A rule has no state, so its theorem has the form `sample \in Inputs => Property`,
for whatever reports, fingerprints, clauses and requests there are (`RulesProofs`):

| Theorem | States |
|---|---|
| `ComparisonMirrors` | `sample \in CompareSamples => CompareMirrors` |
| `MissedStepsShow` | `sample \in StageSamples => MissedStepNeverPasses` |
| `ChangesShow` | `sample \in FingerprintSamples => NoSilentChange` |
| `ReviewedRulesAreClassified` | `sample \in RuleSamples => OnlyReviewedRulesClassified` |
| `CallersKeepTheirKey` | `sample \in RequestSamples => CallerCannotChooseKey` |

For an input of another rule each property says nothing. Assumptions: those of
`Rules` (`ReportsAssumption`, `FingerprintsAssumption`, `FailedRulesAssumption`,
`RequestsAssumption`) and of `ClientIp` (`AddressAssumption`).

- `ComparisonMirrors`: a difference within the tolerance is noise from both sides
  (`ScoresMirror`), and a rule that only one side failed counts as zero on the other
  (`WorseMirrorsBetter`).
- `MissedStepsShow` unfolds the run over its stages (`StagesUnfold`), whichever of
  them fail; the PDFs they write are not assumed to be anything.
- `ChangesShow`: two fingerprints read differently exactly where the command prints
  something, a missing key reading as `None` (`DiffShowsChange`), and the fixtures it
  gets to are those before the first without a record (`ComparedFixtures`).
- `ReviewedRulesAreClassified`: of the clauses a clause lies under there is a longest
  one (`LongestMatch`), so a rule without an entry of its own goes unclassified
  exactly when its clause lies under none (`WhenUnclassified`).
- `CallersKeepTheirKey`: whatever the header's length, one proxy vouches for its last
  entry and none for no entry (`VouchedEntries`).

### Only model-checked

- Liveness: `EveryRequestAnswered`, `JobFinishes`, `InTimeIsNotified` and the
  fairness half of `ImplementsLifecycle`. Fairness is beyond this prover.
- `TextMeasuresAgree`: the edit distance is a recursion over two word sequences
  and the word counts are folds, and that they compute the least number of
  changes for every input takes an induction over data, which the installed
  provers do not do. `rules` compares them with their reference definitions.
- The four violations, which are counterexamples.

## 5. Where the code and its documentation disagree

Four runs end in a violation; each has a finding in `PROJECT.json` with the
quoted line.

1. `submission_repeat`: the limit is checked before the second look, so of two
   identical uploads at once the second may be answered 429 although its
   document has just been accepted.
2. `pipeline_crash_error`: the verdict and score rows are created in a statement
   of their own. A worker killed before `mark_completed` leaves them behind, and
   the rerun of the step ends the job in `error`.
3. `pipeline_overlap`: `mark_running` does not look at the status again, so a
   delivery that read the row before another finished it makes a finished
   attempt running.
4. `notifications_lost`: a callback registered while the run ends may be seen
   neither by the run nor by the request that registered it.

Smaller things the models show, visible in how the properties are stated:

- A step that failed before a kill and succeeds on redelivery is recorded as
  completed, but a later step that was already completed hands on the file
  without its work (`late` in `NoCompletedWorkDropped`; a score made late is about
  another file than the verdict, `ScoreMatchesVerdict`).
- A callback registered between the final save and the reading of the callbacks
  is notified by both sides (the two of `AtMostTwoSeries`).
- A delivery that overlaps another one sends its own series of notices, and when it
  marks the finished attempt running again (disagreement 3), a notice that is sent
  then reports a running attempt (`overlapped` and `reopened` in `AtMostTwoSeries`
  and `ReportsFinished`).
- A resubmit starts a delivery of an attempt that is still being worked on, once it
  has run for `STUCK_RUNNING_MINUTES`; without a resubmit the attempt of a killed
  worker, or of a failed final save, stays unfinished and its subscribers hear
  nothing (`Waiting` in `InTimeIsNotified`).
- If the final save fails for good, `finally` still enqueues the notices, which
  report a running attempt (`RunFinishFault`; `ReportsFinished` and
  `OneRoundOfWebhooks` except failed saves).
- A step that completed, was switched off before one delivery and on before the
  next, runs again and deletes the file that rows of later steps still name, or
  the one the score was made of (`undone`).
- `hit()` promises to return "never fewer" than the hits counted so far; when the
  window ends between the update and the reading it returns fewer, or 0, and the
  request gets through (`late`).
- Deleting an organization deletes its accounts and leaves their logins and knox
  tokens behind (`orphans`); such a token authenticates a user without an account.
- A font shown on two pages gets the character map of the first page's codes only,
  and a font shown under two names of one page the map of the last name's
  (`ShownOnlyUnder` in `ShownCodesAreMapped`).
- Page content of its own in a table's first row makes the scorer's look at that row
  raise, and it passes over the table, header cell or not
  (`HeaderlessTablesAreScored`).
- An answer of the vision service like "Figure 2" is written as it came, and the
  report then counts the figure as one with placeholder alt text
  (`NoStepMakesItWorse`).
- A fingerprint key that appears or disappears with the value `None` is not reported
  (`NoSilentChange`).
- Figures are paired with images by their place among the figures that still need
  a description, so a page with a figure described before shifts the others
  (`DescribedFromOwnImage`).
- An annotation referred to from deeper than the depth limit, and one that is a
  direct object, does not look tagged and is tagged again
  (`LinksReferencedOnce`).
- The HTML report of the regression check has no part for a changed page count.
- The path of an original ends in its file name, so a retry under another name
  stores the document a second time (`OriginalPath`).

## 6. Not modelled

- OpenDataLoader, veraPDF's command line and Claude: third-party; their result or
  exception is a choice or an input of the models.
- The search for a font's character offset (`_best_offset`: a score over English
  words) and `reading_order_score` (difflib's matcher): numeric heuristics without
  a statement of what they should return; their results are inputs.
- `extract_verapdf_profile` and `scoring_comparison_report`, which print what they
  read; the layout of every report.
- Parsing of a rate such as `100/hour`, the URL check of a callback, semantic
  versions (compared as integers): string handling.
- The database backup, the origin lock, error reporting and startup warnings,
  settings, URLs and deployment: sequential or stateless, with no state of the
  system behind them.
- Inside the modelled parts: response bodies and headers, the payload's other
  fields and its signature, backoff times, logging.

## 7. Plan

The composition the models leave open is deliberate: `Submission` and `Pipeline`
meet at the `status` column, where `Submission` has a worker's run in outline
(fetch, mark, finish) and `Pipeline` that run in full. The plan of the proofs is
done, for the state machines, the documents and the rules. What is left is
`TextMeasuresAgree`, for which a prover with induction is needed: that the table of
`edit_distance` yields the least number of changes, and that the word counts
account for every word.
