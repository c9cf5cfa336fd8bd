----------------------------- MODULE Submission -----------------------------
(***************************************************************************)
(* POST /api/submit-document/: CreateRemediationView.post (api/views.py)   *)
(* and the RemediationService methods it calls (remediation/services.py),  *)
(* run by concurrent requests against one Postgres database at READ        *)
(* COMMITTED: every statement sees what is committed when it runs.         *)
(*                                                                         *)
(* A request makes at most one attempt, so the id of the attempt request q *)
(* makes is q itself (the code draws a fresh UUID).                        *)
(*                                                                         *)
(* The worker's side is the outline of process_remediation that a request  *)
(* can observe: fetch the row, mark it running, finish it, or die.  The    *)
(* Pipeline module has what a run does in between.  Requests of this       *)
(* module leave callback_url blank; the Notifications module has the rest. *)
(***************************************************************************)
EXTENDS Integers, FiniteSets, Sequences

CONSTANTS
    Accounts,       \* service accounts
    Docs,           \* content hashes
    Names,          \* upload file names
    Requests,       \* requests, and the attempts they make
    Limit,          \* Limit[a]: num_requests of a's rate limit, or Unlimited
    Window,         \* the period of the rate limit
    StuckQueued,    \* settings.STUCK_QUEUED_MINUTES
    StuckRunning,   \* settings.STUCK_RUNNING_MINUTES
    Outcomes,       \* the finished statuses runs end in
    MaxVersion,     \* last pipeline version ever deployed
    MaxTime,        \* the clock stops ticking by itself here (a bound)
    MaxCrashes      \* processes killed in one behaviour (a bound)

\* ServiceAccount.rate_limit is None: the account has NoSubmissionLimit.
Unlimited == -1
\* SQL NULL in started_at and last_enqueued_at.
Null == -1

ASSUME NonEmptyAssumption == Accounts # {} /\ Docs # {} /\ Names # {}
ASSUME LimitAssumption == Limit \in [Accounts -> Nat \cup {Unlimited}]
ASSUME TimesAssumption ==
    /\ Window \in Nat
    /\ StuckQueued \in Nat
    /\ StuckRunning \in Nat
    /\ StuckQueued <= StuckRunning
    /\ MaxTime \in Nat
    /\ MaxCrashes \in Nat
    /\ MaxVersion \in Nat \ {0}

UNFINISHED_STATUSES == {"queued", "running"}
FINISHED_STATUSES == {"compliant", "noncompliant", "error", "skipped"}
ASSUME OutcomesAssumption == Outcomes \subseteq FINISHED_STATUSES

JobStatus == UNFINISHED_STATUSES \cup FINISHED_STATUSES

VARIABLES
    now,          \* the clock every timestamp is read from
    floor,        \* PipelineConfig.retry_floor_version, 0 when blank
    deployed,     \* settings.PIPELINE_VERSION of the newest revision
    rows,         \* committed Remediation rows
    remediation,  \* their columns
    originals,    \* uploaded originals in default_storage, by path
    locks,        \* requests holding their account's row lock
    pc,           \* where each request is
    upload,       \* its validated input
    att,          \* the attempt it resolved to (itself when it makes one)
    seen,         \* its in-memory copy of that attempt
    basis,        \* latest attempt when it decided to make one ({} for none)
    ready,        \* process_remediation tasks waiting, per attempt
    fetched,      \* runs that have read the row and not yet marked it
    running,      \* runs inside the pipeline
    claims,       \* history: when each attempt was claimed again as stuck
    crashes       \* history: how many web and worker processes were killed

requestVars == <<pc, upload, att, seen, basis, locks>>
jobVars == <<rows, remediation>>
workerVars == <<ready, fetched, running>>
configVars == <<floor, deployed>>
vars == <<now, floor, deployed, rows, remediation, originals, locks, pc,
          upload, att, seen, basis, ready, fetched, running, claims, crashes>>

Upload == [acct: Accounts, doc: Docs, name: Names, force: BOOLEAN,
           version: 1..MaxVersion]
Row == [acct: Accounts, doc: Docs, name: Names, status: JobStatus,
        version: 1..MaxVersion, createdAt: Int, startedAt: Int, lastEnq: Int]

InTransaction == {"check", "relook", "store", "create", "clash", "commit"}
Answered == {"done", "throttled", "error", "crashed"}
PCs == {"idle", "look", "claim", "enqueue"} \cup InTransaction \cup Answered

TypeOK ==
    /\ now \in Nat
    /\ floor \in 0..MaxVersion
    /\ deployed \in 1..MaxVersion
    /\ rows \subseteq Requests
    /\ remediation \in [Requests -> Row]
    /\ originals \subseteq Accounts \X Docs \X Names
    /\ locks \subseteq Requests
    /\ pc \in [Requests -> PCs]
    /\ upload \in [Requests -> Upload]
    /\ att \in [Requests -> Requests]
    /\ seen \in [Requests -> Row]
    /\ basis \in [Requests -> SUBSET Requests]
    /\ ready \in [Requests -> Nat]
    /\ fetched \in [Requests -> Nat]
    /\ running \in [Requests -> Nat]
    /\ claims \in [Requests -> Seq(Nat)]
    /\ crashes \in Nat

-----------------------------------------------------------------------------
\* Reading the Remediation table.

\* Placeholder values of columns and inputs nobody has written yet.
BlankUpload == [acct |-> CHOOSE a \in Accounts : TRUE,
                doc |-> CHOOSE d \in Docs : TRUE,
                name |-> CHOOSE n \in Names : TRUE,
                force |-> FALSE, version |-> 1]
\* RemediationService.create with the model's column defaults.
NewRow(u, t) == [acct |-> u.acct, doc |-> u.doc, name |-> u.name,
                 status |-> "queued", version |-> u.version,
                 createdAt |-> t, startedAt |-> Null, lastEnq |-> Null]
BlankRow == NewRow(BlankUpload, 0)
\* The columns saved by mark_running, _mark_finished and claim_enqueue.
mark_running(row, t) == [row EXCEPT !.status = "running", !.startedAt = t]
mark_finished(row, s) == [row EXCEPT !.status = s]
mark_enqueued(row, t) == [row EXCEPT !.lastEnq = t]

IsLimited(a) == Limit[a] # Unlimited

OfDocument(a, d) ==
    {r \in rows : remediation[r].acct = a /\ remediation[r].doc = d}

\* order_by("-created_at").first(): at most one attempt, {} for None.
latest_for_document(a, d) ==
    {r \in OfDocument(a, d) : \A s \in OfDocument(a, d) :
        remediation[s].createdAt <= remediation[r].createdAt}

should_retry(r, force) ==
    \/ force
    \/ /\ remediation[r].status \in {"noncompliant", "error"}
       /\ floor # 0
       /\ remediation[r].version < floor

reusable_attempt(u) ==
    {r \in latest_for_document(u.acct, u.doc) :
        \/ remediation[r].status \in UNFINISHED_STATUSES
        \/ ~should_retry(r, u.force)}

\* Mutant: only attempts strictly inside the window count.
CountsStrictlyInside(a) ==
    Cardinality({r \in rows : /\ remediation[r].acct = a
                              /\ remediation[r].createdAt > now - Window})

recent_submissions(a) ==
    Cardinality({r \in rows : /\ remediation[r].acct = a
                              /\ remediation[r].createdAt >= now - Window})

is_stuck(row) ==
    LET since(t) == IF row.lastEnq > t THEN row.lastEnq ELSE t IN
    \/ /\ row.status = "queued"
       /\ now - since(row.createdAt) > StuckQueued
    \/ /\ row.status = "running"
       /\ now - since(IF row.startedAt = Null THEN row.createdAt
                      ELSE row.startedAt) > StuckRunning

\* Mutant: the constraint covers queued attempts only.
QueuedRivals(r, a, d) ==
    {s \in OfDocument(a, d) \ {r} : remediation[s].status = "queued"}

\* The other rows the partial unique constraint
\* one_unfinished_attempt_per_document compares row r (of a and d) with.
UnfinishedRivals(r, a, d) ==
    {s \in OfDocument(a, d) \ {r} :
        remediation[s].status \in UNFINISHED_STATUSES}

\* Rows of a and d inserted by transactions that have not committed.
PendingRivals(r, a, d) ==
    {s \in Requests \ {r} :
        pc[s] = "commit" /\ upload[s].acct = a /\ upload[s].doc = d}

-----------------------------------------------------------------------------
\* The request.

Goto(q, label) == pc' = [pc EXCEPT ![q] = label]
Unlock(q) == locks' = locks \ {q}

\* Return r, as it is in the database now, from get_or_create_from_upload.
Reuse(q, r) ==
    /\ Goto(q, "claim")
    /\ att' = [att EXCEPT ![q] = r]
    /\ seen' = [seen EXCEPT ![q] = remediation[r]]
    /\ Unlock(q)
    /\ UNCHANGED <<upload, basis>>

\* A valid upload reaches post() on an instance of the deployed revision.
Arrive(q) ==
    /\ pc[q] = "idle"
    /\ \E a \in Accounts, d \in Docs, n \in Names, f \in BOOLEAN :
          upload' = [upload EXCEPT ![q] =
              [acct |-> a, doc |-> d, name |-> n, force |-> f,
               version |-> deployed]]
    /\ Goto(q, "look")
    /\ UNCHANGED <<now, att, seen, basis, locks, jobVars, workerVars,
                   configVars, originals, claims, crashes>>

\* The transaction begins with the first _reusable_attempt.
FirstLook(q) ==
    /\ pc[q] = "look"
    /\ \/ \E r \in reusable_attempt(upload[q]) : Reuse(q, r)
       \/ /\ reusable_attempt(upload[q]) = {}
          /\ Goto(q, "check")
          /\ UNCHANGED <<upload, att, seen, basis, locks>>
    /\ UNCHANGED <<now, jobVars, workerVars, configVars, originals, claims,
                   crashes>>

AccountFree(q) == \A p \in locks : upload[p].acct # upload[q].acct

\* Mutant: the limit is checked without locking the account's row.
CheckWithoutLock(q) ==
    /\ pc[q] = "check"
    /\ Goto(q, IF \/ ~IsLimited(upload[q].acct)
                  \/ recent_submissions(upload[q].acct) < Limit[upload[q].acct]
               THEN "relook" ELSE "throttled")
    /\ UNCHANGED <<now, upload, att, seen, basis, locks, jobVars, workerVars,
                   configVars, originals, claims, crashes>>

\* Mutant: turning a request away does not give the account's lock back.
KeepsLockWhenThrottled(q) ==
    /\ pc[q] = "check"
    /\ IsLimited(upload[q].acct) => AccountFree(q)
    /\ locks' = locks \cup IF IsLimited(upload[q].acct) THEN {q} ELSE {}
    /\ Goto(q, IF \/ ~IsLimited(upload[q].acct)
                  \/ recent_submissions(upload[q].acct) < Limit[upload[q].acct]
               THEN "relook" ELSE "throttled")
    /\ UNCHANGED <<now, upload, att, seen, basis, jobVars, workerVars,
                   configVars, originals, claims, crashes>>

\* before_create: SubmissionLimit.check waits for the account's row lock,
\* counts, and raises 429 (the rollback gives the lock back) or keeps the lock
\* until the transaction ends.  NoSubmissionLimit.check does nothing.
Check(q) ==
    /\ pc[q] = "check"
    /\ \/ /\ ~IsLimited(upload[q].acct)
          /\ Goto(q, "relook")
          /\ UNCHANGED locks
       \/ /\ IsLimited(upload[q].acct)
          /\ AccountFree(q)
          /\ recent_submissions(upload[q].acct) < Limit[upload[q].acct]
          /\ Goto(q, "relook")
          /\ locks' = locks \cup {q}
       \/ /\ IsLimited(upload[q].acct)
          /\ AccountFree(q)
          /\ recent_submissions(upload[q].acct) >= Limit[upload[q].acct]
          /\ Goto(q, "throttled")
          /\ UNCHANGED locks
    /\ UNCHANGED <<now, upload, att, seen, basis, jobVars, workerVars,
                   configVars, originals, claims, crashes>>

\* Mutant: no second look after waiting for the account's lock.
NoSecondLook(q) ==
    /\ pc[q] = "relook"
    /\ Goto(q, "store")
    /\ UNCHANGED <<now, upload, att, seen, basis, locks, jobVars, workerVars,
                   configVars, originals, claims, crashes>>

\* "look again before making a second one"
SecondLook(q) ==
    /\ pc[q] = "relook"
    /\ \/ \E r \in reusable_attempt(upload[q]) : Reuse(q, r)
       \/ /\ reusable_attempt(upload[q]) = {}
          /\ Goto(q, "store")
          /\ basis' = [basis EXCEPT ![q] =
                 latest_for_document(upload[q].acct, upload[q].doc)]
          /\ UNCHANGED <<upload, att, seen, locks>>
    /\ UNCHANGED <<now, jobVars, workerVars, configVars, originals, claims,
                   crashes>>

\* The path: remediations/<account>/<content hash>/<file name>.
OriginalPath(u) == <<u.acct, u.doc, u.name>>

\* Mutant: saved only if something is already at that path.
StoreOnlyAgain(q) ==
    /\ pc[q] = "store"
    /\ originals' = originals
    /\ Goto(q, "create")
    /\ UNCHANGED <<now, upload, att, seen, basis, locks, jobVars, workerVars,
                   configVars, claims, crashes>>

\* Saved unless something is already at that path.
StoreOriginal(q) ==
    /\ pc[q] = "store"
    /\ originals' = originals \cup {OriginalPath(upload[q])}
    /\ Goto(q, "create")
    /\ UNCHANGED <<now, upload, att, seen, basis, locks, jobVars, workerVars,
                   configVars, claims, crashes>>

\* INSERT.  Postgres makes it wait while an uncommitted row holds the same
\* key; a committed unfinished attempt is an IntegrityError.  created_at has
\* microseconds, so an insert takes one tick: no two share a timestamp.
Create(q) ==
    /\ pc[q] = "create"
    /\ PendingRivals(q, upload[q].acct, upload[q].doc) = {}
    /\ \/ /\ UnfinishedRivals(q, upload[q].acct, upload[q].doc) # {}
          /\ Goto(q, "clash")
          /\ UNCHANGED <<now, remediation>>
       \/ /\ UnfinishedRivals(q, upload[q].acct, upload[q].doc) = {}
          /\ remediation' = [remediation EXCEPT ![q] = NewRow(upload[q], now)]
          /\ now' = now + 1
          /\ Goto(q, "commit")
    /\ UNCHANGED <<upload, att, seen, basis, locks, rows, workerVars,
                   configVars, originals, claims, crashes>>

\* except IntegrityError: back to the savepoint, then the unfinished attempt
\* is returned, or the error re-raised (a 500; the transaction rolls back).
HandleClash(q) ==
    /\ pc[q] = "clash"
    /\ LET current == {r \in latest_for_document(upload[q].acct, upload[q].doc) :
                          remediation[r].status \in UNFINISHED_STATUSES} IN
       \/ \E r \in current : Reuse(q, r)
       \/ /\ current = {}
          /\ Goto(q, "error")
          /\ Unlock(q)
          /\ UNCHANGED <<upload, att, seen, basis>>
    /\ UNCHANGED <<now, jobVars, workerVars, configVars, originals, claims,
                   crashes>>

\* The transaction commits: the row is visible and the lock is given back.
Commit(q) ==
    /\ pc[q] = "commit"
    /\ rows' = rows \cup {q}
    /\ att' = [att EXCEPT ![q] = q]
    /\ seen' = [seen EXCEPT ![q] = remediation[q]]
    /\ Unlock(q)
    /\ Goto(q, "claim")
    /\ UNCHANGED <<now, upload, basis, remediation, workerVars, configVars,
                   originals, claims, crashes>>

\* Mutant: the claim does not compare last_enqueued_at with what was read.
ClaimWithoutCompare(q) ==
    LET r == att[q]
        claimed == /\ r # q /\ is_stuck(seen[q])
                   /\ remediation[r].status \in UNFINISHED_STATUSES IN
    /\ pc[q] = "claim"
    /\ IF claimed
       THEN /\ remediation' = [remediation EXCEPT ![r] = mark_enqueued(@, now)]
            /\ claims' = [claims EXCEPT ![r] = Append(@, now)]
       ELSE UNCHANGED <<remediation, claims>>
    /\ Goto(q, IF r = q \/ claimed THEN "enqueue" ELSE "done")
    /\ UNCHANGED <<now, upload, att, seen, basis, locks, rows, workerVars,
                   configVars, originals, crashes>>

\* Mutant: a new attempt is queued only once it looks stuck.
ClaimOnlyIfStuck(q) ==
    LET r == att[q]
        claimed == /\ is_stuck(seen[q])
                   /\ remediation[r].status \in UNFINISHED_STATUSES
                   /\ remediation[r].lastEnq = seen[q].lastEnq IN
    /\ pc[q] = "claim"
    /\ IF claimed
       THEN /\ remediation' = [remediation EXCEPT ![r] = mark_enqueued(@, now)]
            /\ claims' = [claims EXCEPT ![r] = Append(@, now)]
       ELSE UNCHANGED <<remediation, claims>>
    /\ Goto(q, IF claimed THEN "enqueue" ELSE "done")
    /\ UNCHANGED <<now, upload, att, seen, basis, locks, rows, workerVars,
                   configVars, originals, crashes>>

\* claim_enqueue: TRUE for a new attempt; for a reused one that looked stuck
\* when it was read, one conditional UPDATE decides.
ClaimEnqueue(q) ==
    LET r == att[q]
        claimed == /\ r # q
                   /\ is_stuck(seen[q])
                   /\ remediation[r].status \in UNFINISHED_STATUSES
                   /\ remediation[r].lastEnq = seen[q].lastEnq IN
    /\ pc[q] = "claim"
    /\ \/ /\ r = q
          /\ Goto(q, "enqueue")
          /\ UNCHANGED <<remediation, claims>>
       \/ /\ claimed
          /\ remediation' = [remediation EXCEPT ![r] = mark_enqueued(@, now)]
          /\ claims' = [claims EXCEPT ![r] = Append(@, now)]
          /\ Goto(q, "enqueue")
       \/ /\ r # q
          /\ ~claimed
          /\ Goto(q, "done")
          /\ UNCHANGED <<remediation, claims>>
    /\ UNCHANGED <<now, upload, att, seen, basis, locks, rows, workerVars,
                   configVars, originals, crashes>>

\* process_remediation.enqueue, then the 201 or 200.
Enqueue(q) ==
    /\ pc[q] = "enqueue"
    /\ ready' = [ready EXCEPT ![att[q]] = @ + 1]
    /\ Goto(q, "done")
    /\ UNCHANGED <<now, upload, att, seen, basis, locks, jobVars, fetched,
                   running, configVars, originals, claims, crashes>>

\* The web process is killed: an open transaction rolls back, which drops an
\* uncommitted row and gives the lock back.
RequestCrash(q) ==
    /\ crashes < MaxCrashes
    /\ crashes' = crashes + 1
    /\ pc[q] \notin Answered \cup {"idle"}
    /\ Goto(q, "crashed")
    /\ Unlock(q)
    /\ remediation' = IF pc[q] = "commit"
                      THEN [remediation EXCEPT ![q] = BlankRow]
                      ELSE remediation
    /\ UNCHANGED <<now, upload, att, seen, basis, rows, workerVars,
                   configVars, originals, claims>>

\* The client of an answered request that made no attempt sends another one.
Resubmit(q) ==
    /\ pc[q] \in Answered
    /\ q \notin rows
    /\ Goto(q, "idle")
    /\ upload' = [upload EXCEPT ![q] = BlankUpload]
    /\ att' = [att EXCEPT ![q] = q]
    /\ seen' = [seen EXCEPT ![q] = BlankRow]
    /\ basis' = [basis EXCEPT ![q] = {}]
    /\ UNCHANGED <<now, locks, jobVars, workerVars, configVars, originals,
                   claims, crashes>>

-----------------------------------------------------------------------------
\* The worker, as far as requests can tell.

\* A worker takes a task and reads the row; a finished attempt ends the task.
WorkerFetch(r) ==
    /\ ready[r] > 0
    /\ ready' = [ready EXCEPT ![r] = @ - 1]
    /\ \/ /\ remediation[r].status \in FINISHED_STATUSES
          /\ UNCHANGED fetched
       \/ /\ remediation[r].status \in UNFINISHED_STATUSES
          /\ fetched' = [fetched EXCEPT ![r] = @ + 1]
    /\ UNCHANGED <<now, requestVars, jobVars, running, configVars, originals,
                   claims, crashes>>

\* mark_running saves whatever the row's status is by now, unless the unique
\* constraint refuses it (the IntegrityError ends the task).
WorkerMark(r) ==
    LET rivals == UnfinishedRivals(r, remediation[r].acct, remediation[r].doc)
    IN
    /\ fetched[r] > 0
    /\ PendingRivals(r, remediation[r].acct, remediation[r].doc) = {}
    /\ fetched' = [fetched EXCEPT ![r] = @ - 1]
    /\ \/ /\ rivals = {}
          /\ remediation' = [remediation EXCEPT ![r] = mark_running(@, now)]
          /\ running' = [running EXCEPT ![r] = @ + 1]
       \/ /\ rivals # {}
          /\ UNCHANGED <<remediation, running>>
    /\ UNCHANGED <<now, requestVars, rows, ready, configVars, originals,
                   claims, crashes>>

\* The run ends in one of the finished statuses.
WorkerFinish(r) ==
    /\ running[r] > 0
    /\ running' = [running EXCEPT ![r] = @ - 1]
    /\ \E s \in Outcomes :
          remediation' = [remediation EXCEPT ![r] = mark_finished(@, s)]
    /\ UNCHANGED <<now, requestVars, rows, ready, fetched, configVars,
                   originals, claims, crashes>>

\* The worker is killed, its task RUNNING in the queue for good, or the task's own
\* read or save of the row fails for good (mark_running, or the final one): either
\* way the run is over and the row is as it was.
WorkerDie(r) ==
    /\ crashes < MaxCrashes
    /\ crashes' = crashes + 1
    /\ \/ /\ fetched[r] > 0
          /\ fetched' = [fetched EXCEPT ![r] = @ - 1]
          /\ UNCHANGED running
       \/ /\ running[r] > 0
          /\ running' = [running EXCEPT ![r] = @ - 1]
          /\ UNCHANGED fetched
    /\ UNCHANGED <<now, requestVars, jobVars, ready, configVars, originals,
                   claims>>

-----------------------------------------------------------------------------
\* The surroundings.

Tick ==
    /\ now < MaxTime
    /\ now' = now + 1
    /\ UNCHANGED <<requestVars, jobVars, workerVars, configVars, originals,
                   claims, crashes>>

\* A newer revision takes over new requests.
Deploy ==
    /\ deployed < MaxVersion
    /\ deployed' = deployed + 1
    /\ UNCHANGED <<now, floor, requestVars, jobVars, workerVars, originals,
                   claims, crashes>>

\* Mutant: the form also offers the version after the deployed one.
FloorAhead ==
    /\ floor # deployed + 1
    /\ floor' = deployed + 1
    /\ UNCHANGED <<now, deployed, requestVars, jobVars, workerVars, originals,
                   claims, crashes>>

\* PipelineConfigForm offers blank and the versions attempts have run under.
SetRetryFloor ==
    /\ \E v \in {0} \cup {remediation[r].version : r \in rows} :
          v # floor /\ floor' = v
    /\ UNCHANGED <<now, deployed, requestVars, jobVars, workerVars, originals,
                   claims, crashes>>

Init ==
    /\ now = 0
    /\ floor = 0
    /\ deployed = 1
    /\ rows = {}
    /\ remediation = [r \in Requests |-> BlankRow]
    /\ originals = {}
    /\ locks = {}
    /\ pc = [q \in Requests |-> "idle"]
    /\ upload = [q \in Requests |-> BlankUpload]
    /\ att = [q \in Requests |-> q]
    /\ seen = [q \in Requests |-> BlankRow]
    /\ basis = [q \in Requests |-> {}]
    /\ ready = [r \in Requests |-> 0]
    /\ fetched = [r \in Requests |-> 0]
    /\ running = [r \in Requests |-> 0]
    /\ claims = [r \in Requests |-> <<>>]
    /\ crashes = 0

\* A step of the code of post() for request q.
RequestStep(q) ==
    \/ FirstLook(q)
    \/ Check(q)
    \/ SecondLook(q)
    \/ StoreOriginal(q)
    \/ Create(q)
    \/ HandleClash(q)
    \/ Commit(q)
    \/ ClaimEnqueue(q)
    \/ Enqueue(q)

WorkerStep(r) ==
    \/ WorkerFetch(r)
    \/ WorkerMark(r)
    \/ WorkerFinish(r)
    \/ WorkerDie(r)

Next ==
    \/ \E q \in Requests :
          \/ Arrive(q)
          \/ RequestStep(q)
          \/ RequestCrash(q)
          \/ Resubmit(q)
          \/ WorkerStep(q)
    \/ Tick
    \/ Deploy
    \/ SetRetryFloor

Spec == Init /\ [][Next]_vars

\* A live process keeps executing; Postgres queues the waiters for a row lock,
\* so none is passed over for ever; the scheduled worker keeps taking tasks and
\* every pipeline step has a timeout or returns.
Fairness ==
    \A q \in Requests :
        /\ WF_vars(RequestStep(q))
        /\ SF_vars(Check(q))
        /\ WF_vars(WorkerFetch(q))
        /\ WF_vars(WorkerMark(q))
        /\ WF_vars(WorkerFinish(q))

LiveSpec == Spec /\ Fairness

-----------------------------------------------------------------------------
\* What the submit endpoint promises.

\* At most one attempt of an account and document is queued or running, even
\* when finished attempts are re-marked by stale runs (models.py, the constraint
\* one_unfinished_attempt_per_document, and _reusable_attempt before it).
OneUnfinished ==
    \A r, s \in rows :
        (/\ r # s
         /\ remediation[r].acct = remediation[s].acct
         /\ remediation[r].doc = remediation[s].doc)
        => \/ remediation[r].status \in FINISHED_STATUSES
           \/ remediation[s].status \in FINISHED_STATUSES

\* The attempts of account a made in the period that ends at time t.
MadeInPeriod(a, t) ==
    {r \in rows : /\ remediation[r].acct = a
                  /\ remediation[r].createdAt \in (t - Window)..t}

\* However requests interleave, no period holds more attempts of a limited
\* account than its limit (SubmissionLimit.check: two requests "can't both see
\* room for one more and both make a job").
LimitRespected ==
    \A a \in Accounts : IsLimited(a) =>
        \A t \in 0..now : Cardinality(MadeInPeriod(a, t)) <= Limit[a]

\* The decision to make an attempt for a limited account is never stale: from
\* the second look to the insert, the latest attempt is the one it was made on
\* (services.py: "look again before making a second one").
DecisionIsCurrent ==
    \A q \in Requests :
        (pc[q] \in {"store", "create"} /\ IsLimited(upload[q].acct))
        => basis[q] = latest_for_document(upload[q].acct, upload[q].doc)

\* Two claims of one attempt are a full wait apart (claim_enqueue: "a later
\* resubmit doesn't queue it again until another full wait has passed").
ClaimsAreSpaced ==
    \A r \in Requests : \A i \in 1..(Len(claims[r]) - 1) :
        claims[r][i + 1] - claims[r][i] > StuckQueued

\* A row never points at an original that was not stored before it was made.
SourceStored ==
    \A r \in rows :
        <<remediation[r].acct, remediation[r].doc, remediation[r].name>>
            \in originals

\* Unless a process was killed, an unfinished attempt has a task waiting, a run
\* working on it, or the request that made it still about to queue it.
NoJobLost ==
    crashes = 0 =>
        \A r \in rows : remediation[r].status \in UNFINISHED_STATUSES =>
            \/ ready[r] + fetched[r] + running[r] > 0
            \/ pc[r] \in {"claim", "enqueue"}

\* Every request is answered or killed: waiting for the account's lock, for an
\* uncommitted rival's insert and for nothing else, nobody waits for ever.
EveryRequestAnswered ==
    \A q \in Requests : pc[q] = "look" ~> pc[q] \in Answered

\* An attempt that was made is worked to a finished status, unless a process is
\* killed on the way (then a resubmit has to find it stuck).
JobFinishes ==
    \A r \in Requests :
        r \in rows ~> \/ remediation[r].status \in FINISHED_STATUSES
                      \/ crashes > 0

\* A request over the limit is turned away only when its document has no
\* attempt to give back (ADR 0031: a repeat of an already submitted file "is
\* never turned away even if the account is at its limit").
RepeatNeverTurnedAway ==
    [][\A q \in Requests :
          (pc[q] = "check" /\ pc'[q] = "throttled")
          => reusable_attempt(upload[q]) = {}]_vars

\* A submission, forced or not, never fails with the re-raised
\* IntegrityError while no attempt was queued a second time, if the account has
\* a limit: the account lock covers the decision and the insert.
LimitedNeverErrors ==
    \A q \in Requests :
        (/\ pc[q] = "error"
         /\ \A r \in Requests : claims[r] = <<>>)
        => ~IsLimited(upload[q].acct)
=============================================================================
