--------------------------- MODULE Notifications ---------------------------
(***************************************************************************)
(* Webhooks of one attempt: the callback half of                           *)
(* CreateRemediationView.post (api/views.py), register_callback            *)
(* (remediation/services.py), the finally clause of process_remediation    *)
(* and send_webhook_notification (remediation/tasks.py), run by the        *)
(* scheduled worker (run_queued_tasks.py), which waits for the OCR server. *)
(*                                                                         *)
(* A callback is identified by its URL: the pair (attempt, URL) is unique. *)
(* Time is left out: a deferred retry becomes due at some later time, and  *)
(* the wait for OCR ends with the server ready or with the timeout.        *)
(***************************************************************************)
EXTENDS Naturals, FiniteSets, Bags

CONSTANTS
    Urls,         \* callback URLs
    Requests,     \* submits that name a callback_url and reach this attempt,
                  \* numbered in the order they do
    Runs,         \* deliveries of the attempt's process_remediation task,
                  \* numbered in the order they are enqueued
    MaxAttempts,  \* settings.MAX_WEBHOOK_ATTEMPTS
    MaxCrashes    \* processes killed and final saves failed (a bound)

ASSUME NotificationsAssumption ==
    /\ Urls # {} /\ Requests \subseteq Nat
    /\ Runs \subseteq Nat /\ IsFiniteSet(Runs)
    /\ MaxAttempts \in Nat \ {0} /\ MaxCrashes \in Nat

VARIABLES
    status,     \* Remediation.status: "unfinished" or "finished"
    callbacks,  \* RemediationCallback rows
    pc,         \* where each request is
    url,        \* its callback_url
    seen,       \* the status in its copy of the attempt
    run,        \* where each delivery is
    todo,       \* callbacks the finally clause still has to enqueue
    worker,     \* the scheduled worker; overlapping runs of it count as one
    tasks,      \* send_webhook_notification tasks that are due, a bag
    deferred,   \* those whose run_after is still to come, a bag
    sending,    \* those a worker has taken, with the status they will report
    firsts,     \* history: first-attempt tasks enqueued per URL
    tries,      \* history: deliveries tried per URL and attempt
    acked,      \* history: URLs that answered 2xx to the finished status
    gaveUp,     \* history: URLs whose last attempt, to report it, failed
    told,       \* history: statuses reported
    lost,       \* history: URLs whose notice died with the process that had it
    ends,       \* history: deliveries that came to their finally clause
    overlapped, \* history: a delivery began while another had yet to end
    reopened,   \* history: a delivery marked a finished attempt running again
    crashes,    \* processes killed
    faults      \* final saves that failed for good

requestVars == <<pc, url, seen>>
runVars == <<run, todo, ends, overlapped, reopened>>
queueVars == <<worker, tasks, deferred>>
sendVars == <<sending, tries, acked, gaveUp, told>>
failVars == <<lost, crashes, faults>>
vars == <<status, callbacks, pc, url, seen, run, todo, ends, overlapped, reopened,
          worker, tasks, deferred, sending, firsts, tries, acked, gaveUp, told, lost,
          crashes, faults>>

Statuses == {"unfinished", "finished"}
Task == [url: Urls, attempt: 1..MaxAttempts]

\* Type invariant.
TypeOK ==
    /\ status \in Statuses
    /\ callbacks \subseteq Urls
    /\ pc \in [Requests -> {"idle", "register", "notify", "done", "crashed"}]
    /\ url \in [Requests -> Urls]
    /\ seen \in [Requests -> Statuses]
    /\ run \in [Runs -> {"absent", "idle", "fetched", "pipeline", "finally",
                         "enqueue", "done", "dead"}]
    /\ todo \in [Runs -> SUBSET Urls]
    /\ ends \in Nat /\ overlapped \in BOOLEAN /\ reopened \in BOOLEAN
    /\ worker \in {"off", "waiting", "batch"}
    /\ IsABag(tasks) /\ BagToSet(tasks) \subseteq Task
    /\ IsABag(deferred) /\ BagToSet(deferred) \subseteq Task
    /\ IsABag(sending)
    /\ BagToSet(sending) \subseteq [task: Task, reports: Statuses]
    /\ firsts \in [Urls -> Nat]
    /\ tries \in [Task -> Nat]
    /\ acked \subseteq Urls
    /\ gaveUp \subseteq Urls
    /\ told \subseteq Statuses
    /\ lost \subseteq Urls
    /\ crashes \in Nat /\ faults \in Nat

-----------------------------------------------------------------------------
One(x) == SetToBag({x})

\* send_webhook_notification.enqueue(callback): a first attempt.
EnqueueFirst(u) ==
    /\ tasks' = tasks (+) One([url |-> u, attempt |-> 1])
    /\ firsts' = [firsts EXCEPT ![u] = @ + 1]

\* The submit resolved to this attempt; its copy of the row is from now.
Look(q) ==
    /\ pc[q] = "idle" /\ \A p \in Requests : p < q => pc[p] # "idle"
    /\ \E u \in Urls : url' = [url EXCEPT ![q] = u]
    /\ seen' = [seen EXCEPT ![q] = status]
    /\ pc' = [pc EXCEPT ![q] = "register"]
    /\ UNCHANGED <<status, callbacks, runVars, queueVars, sendVars, firsts,
                   failVars>>

\* register_callback: get_or_create, decided by the unique constraint.
Register(q) ==
    /\ pc[q] = "register"
    /\ callbacks' = callbacks \cup {url[q]}
    /\ \/ /\ url[q] \notin callbacks /\ seen[q] = "finished"
          /\ pc' = [pc EXCEPT ![q] = "notify"]
       \/ /\ url[q] \in callbacks \/ seen[q] # "finished"
          /\ pc' = [pc EXCEPT ![q] = "done"]
    /\ UNCHANGED <<status, url, seen, runVars, queueVars, sendVars, firsts,
                   failVars>>

\* "If job is already completed, post to webhook now."
NotifyNow(q) ==
    /\ pc[q] = "notify"
    /\ EnqueueFirst(url[q])
    /\ pc' = [pc EXCEPT ![q] = "done"]
    /\ UNCHANGED <<status, callbacks, url, seen, runVars, worker, deferred,
                   sendVars, failVars>>

\* Something goes wrong, and the notices to these URLs with it.
Fail(urls) ==
    /\ crashes + faults < MaxCrashes
    /\ crashes' = crashes + 1
    /\ lost' = lost \cup urls
    /\ UNCHANGED faults

\* A web process is killed.
RequestCrash(q) ==
    /\ pc[q] \in {"register", "notify"}
    /\ Fail(IF pc[q] = "notify" THEN {url[q]} ELSE {})
    /\ pc' = [pc EXCEPT ![q] = "crashed"]
    /\ UNCHANGED <<status, callbacks, url, seen, runVars, queueVars, sendVars,
                   firsts>>

-----------------------------------------------------------------------------
\* run_queued_tasks, started every 20 minutes.

\* Mutant: only jobs count as work, not webhook notifications.
HasReadyJobs == \E w \in Runs : run[w] = "idle"

\* has_ready_tasks: a retry that is not due yet does not count.
HasReadyTasks == tasks # EmptyBag \/ \E w \in Runs : run[w] = "idle"

\* handle(): ends at once if nothing is queued.
WorkerStarts ==
    /\ worker = "off" /\ HasReadyTasks
    /\ worker' = "waiting"
    /\ UNCHANGED <<status, callbacks, requestVars, runVars, tasks, deferred,
                   sendVars, firsts, failVars>>

\* wait_until_ready: is_ready() got a 200 before the deadline.
OcrReady ==
    /\ worker = "waiting"
    /\ worker' = "batch"
    /\ UNCHANGED <<status, callbacks, requestVars, runVars, tasks, deferred,
                   sendVars, firsts, failVars>>

\* HybridServerNotReady: a CommandError, and everything stays queued.
OcrTimeout ==
    /\ worker = "waiting"
    /\ worker' = "off"
    /\ UNCHANGED <<status, callbacks, requestVars, runVars, tasks, deferred,
                   sendVars, firsts, failVars>>

\* db_worker --batch found nothing that is due, and exits.
BatchEnds ==
    /\ worker = "batch" /\ ~HasReadyTasks /\ sending = EmptyBag
    /\ \A w \in Runs : run[w] \in {"absent", "done", "dead"}
    /\ worker' = "off"
    /\ UNCHANGED <<status, callbacks, requestVars, runVars, tasks, deferred,
                   sendVars, firsts, failVars>>

\* The run_after of a retry has come.
BecomesDue ==
    /\ \E t \in BagToSet(deferred) :
          /\ deferred' = deferred (-) One(t)
          /\ tasks' = tasks (+) One(t)
    /\ UNCHANGED <<status, callbacks, requestVars, runVars, worker, sendVars,
                   firsts, failVars>>

\* A process of the worker is killed: it was the only one, or it was not.
WorkerKilled(urls) == Fail(urls) /\ worker' \in {"off", worker}

-----------------------------------------------------------------------------
\* process_remediation.  Nothing keeps two deliveries of it apart.

\* claim_enqueue and the enqueue after it: a submit found the attempt queued or
\* running for longer than STUCK_QUEUED_MINUTES or STUCK_RUNNING_MINUTES, whether
\* or not a delivery of it is still at work.
Resubmit(w) ==
    /\ run[w] = "absent" /\ \A v \in Runs : v < w => run[v] # "absent"
    /\ status # "finished"
    /\ run' = [run EXCEPT ![w] = "idle"]
    /\ UNCHANGED <<status, callbacks, requestVars, todo, ends, overlapped, reopened,
                   queueVars, sendVars, firsts, failVars>>

\* Deliveries that have begun and not come to their final save.
Trying == {w \in Runs : run[w] \in {"fetched", "pipeline"}}

\* service.get: a finished attempt is left alone.
RunFetch(w) ==
    /\ worker = "batch" /\ run[w] = "idle"
    /\ \/ status = "finished" /\ run' = [run EXCEPT ![w] = "done"]
          /\ UNCHANGED overlapped
       \/ status # "finished" /\ run' = [run EXCEPT ![w] = "fetched"]
          /\ overlapped' = (overlapped \/ Trying # {})
    /\ UNCHANGED <<status, callbacks, requestVars, todo, ends, reopened, queueVars,
                   sendVars, firsts, failVars>>

\* mark_running, by the copy of the row: whatever its status is by now.
RunMark(w) ==
    /\ run[w] = "fetched"
    /\ run' = [run EXCEPT ![w] = "pipeline"]
    /\ status' = "unfinished"
    /\ reopened' = (reopened \/ status = "finished")
    /\ UNCHANGED <<callbacks, requestVars, todo, ends, overlapped, queueVars, sendVars,
                   firsts, failVars>>

\* The attempt was finished meanwhile and a newer one of the document is
\* unfinished: the unique index refuses mark_running, outside the try.
RunMarkRefused(w) ==
    /\ run[w] = "fetched" /\ status = "finished"
    /\ run' = [run EXCEPT ![w] = "dead"]
    /\ UNCHANGED <<status, callbacks, requestVars, todo, ends, overlapped, reopened,
                   queueVars, sendVars, firsts, failVars>>

\* Mutant: the notices go out although the final status was not saved.
FinishWithoutSave(w) ==
    /\ run[w] = "pipeline"
    /\ run' = [run EXCEPT ![w] = "finally"]
    /\ ends' = ends + 1
    /\ UNCHANGED <<status, callbacks, requestVars, todo, overlapped, reopened,
                   queueVars, sendVars, firsts, failVars>>

\* One of the except clauses or the else clause has saved the final status.
RunFinish(w) ==
    /\ run[w] = "pipeline"
    /\ status' = "finished"
    /\ run' = [run EXCEPT ![w] = "finally"]
    /\ ends' = ends + 1
    /\ UNCHANGED <<callbacks, requestVars, todo, overlapped, reopened, queueVars,
                   sendVars, firsts, failVars>>

\* The final save fails for good: finally runs all the same, with the row as it
\* was.  Only a resubmit makes another delivery.
RunFinishFault(w) ==
    /\ crashes + faults < MaxCrashes
    /\ run[w] = "pipeline"
    /\ run' = [run EXCEPT ![w] = "finally"]
    /\ ends' = ends + 1
    /\ faults' = faults + 1
    /\ UNCHANGED <<status, callbacks, requestVars, todo, overlapped, reopened,
                   queueVars, sendVars, firsts, lost, crashes>>

\* finally: remediation.callbacks.values_list is one query.
RunRead(w) ==
    /\ run[w] = "finally"
    /\ todo' = [todo EXCEPT ![w] = callbacks]
    /\ run' = [run EXCEPT ![w] = "enqueue"]
    /\ UNCHANGED <<status, callbacks, requestVars, ends, overlapped, reopened,
                   queueVars, sendVars, firsts, failVars>>

\* One turn of the for loop of the finally clause, or its end.
RunEnqueue(w) ==
    /\ run[w] = "enqueue"
    /\ \/ \E u \in todo[w] :
             /\ EnqueueFirst(u)
             /\ todo' = [todo EXCEPT ![w] = @ \ {u}]
             /\ UNCHANGED run
       \/ /\ todo[w] = {}
          /\ run' = [run EXCEPT ![w] = "done"]
          /\ UNCHANGED <<todo, tasks, firsts>>
    /\ UNCHANGED <<status, callbacks, requestVars, ends, overlapped, reopened, worker,
                   deferred, sendVars, failVars>>

\* The worker is killed, or mark_running fails for good.  Once the final status is
\* saved the attempt is not tried again, and the callbacks not enqueued yet never
\* are.
RunCrash(w) ==
    /\ run[w] \in {"fetched", "pipeline", "finally", "enqueue"}
    /\ WorkerKilled(IF status # "finished" THEN {}
                    ELSE IF run[w] = "finally" THEN callbacks ELSE todo[w])
    /\ run' = [run EXCEPT ![w] = "dead"]
    /\ todo' = [todo EXCEPT ![w] = {}]
    /\ UNCHANGED <<status, callbacks, requestVars, ends, overlapped, reopened, tasks,
                   deferred, sendVars, firsts>>

-----------------------------------------------------------------------------
\* send_webhook_notification.

\* A worker takes the task and reads the attempt for the payload.
TakeTask ==
    /\ worker = "batch"
    /\ \E t \in BagToSet(tasks) :
          /\ tasks' = tasks (-) One(t)
          /\ sending' = sending (+) One([task |-> t, reports |-> status])
    /\ UNCHANGED <<status, callbacks, requestVars, runVars, worker, deferred,
                   firsts, tries, acked, gaveUp, told, failVars>>

\* The URL of s, if s reports the finished attempt.
Finishes(s) == IF s.reports = "finished" THEN {s.task.url} ELSE {}

\* notify posted the payload and the subscriber answered 2xx.
Deliver ==
    /\ \E s \in BagToSet(sending) :
          /\ sending' = sending (-) One(s)
          /\ tries' = [tries EXCEPT ![s.task] = @ + 1]
          /\ acked' = acked \cup Finishes(s)
          /\ told' = told \cup {s.reports}
    /\ UNCHANGED <<status, callbacks, requestVars, runVars, queueVars, firsts,
                   gaveUp, failVars>>

\* Mutant: one attempt too many.
IsLastLate(attempt) == attempt > MaxAttempts

IsLast(attempt) == attempt >= MaxAttempts

\* WebhookDeliveryError, whether or not the subscriber got the request: the
\* last attempt raises, any other one enqueues the next, to run later.
DeliveryFails ==
    /\ \E s \in BagToSet(sending) :
          /\ sending' = sending (-) One(s)
          /\ tries' = [tries EXCEPT ![s.task] = @ + 1]
          /\ told' \in {told, told \cup {s.reports}}
          /\ \/ /\ IsLast(s.task.attempt)
                /\ gaveUp' = gaveUp \cup Finishes(s)
                /\ UNCHANGED deferred
             \/ /\ ~IsLast(s.task.attempt)
                /\ deferred' = deferred (+) One([s.task EXCEPT !.attempt = @ + 1])
                /\ UNCHANGED gaveUp
    /\ UNCHANGED <<status, callbacks, requestVars, runVars, worker, tasks, firsts,
                   acked, failVars>>

\* The worker is killed, and its task is never run again.
SenderDies ==
    /\ \E s \in BagToSet(sending) :
          /\ sending' = sending (-) One(s)
          /\ WorkerKilled({s.task.url})
    /\ UNCHANGED <<status, callbacks, requestVars, runVars, tasks, deferred,
                   firsts, tries, acked, gaveUp, told>>

-----------------------------------------------------------------------------
Init ==
    /\ status = "unfinished"
    /\ callbacks = {}
    /\ pc = [q \in Requests |-> "idle"]
    /\ url = [q \in Requests |-> CHOOSE u \in Urls : TRUE]
    /\ seen = [q \in Requests |-> "unfinished"]
    /\ run = [w \in Runs |-> IF \A v \in Runs : w <= v THEN "idle" ELSE "absent"]
    /\ todo = [w \in Runs |-> {}]
    /\ ends = 0 /\ overlapped = FALSE /\ reopened = FALSE
    /\ worker = "off"
    /\ tasks = EmptyBag
    /\ deferred = EmptyBag
    /\ sending = EmptyBag
    /\ firsts = [u \in Urls |-> 0]
    /\ tries = [t \in Task |-> 0]
    /\ acked = {}
    /\ gaveUp = {}
    /\ told = {}
    /\ lost = {}
    /\ crashes = 0 /\ faults = 0

RequestStep(q) == Register(q) \/ NotifyNow(q)
RunStep(w) ==
    \/ RunFetch(w) \/ RunMark(w) \/ RunMarkRefused(w) \/ RunFinish(w) \/ RunRead(w)
    \/ RunEnqueue(w)
SendStep == Deliver \/ DeliveryFails

Next ==
    \/ \E q \in Requests : Look(q) \/ RequestStep(q) \/ RequestCrash(q)
    \/ \E w \in Runs : Resubmit(w) \/ RunStep(w) \/ RunFinishFault(w) \/ RunCrash(w)
    \/ WorkerStarts \/ OcrReady \/ OcrTimeout \/ BatchEnds
    \/ BecomesDue
    \/ TakeTask
    \/ SendStep
    \/ SenderDies

Spec == Init /\ [][Next]_vars

\* Live processes keep running, the worker is started again and again (Cloud
\* Scheduler), one that is started again and again finds the OCR server ready
\* some time, a due task is taken, and every delivery ends (WebhookClient's
\* timeout).  Nobody has to resubmit.
LiveSpec ==
    /\ Spec
    /\ \A q \in Requests : WF_vars(RequestStep(q))
    /\ \A w \in Runs : WF_vars(RunStep(w))
    /\ WF_vars(WorkerStarts) /\ SF_vars(OcrReady) /\ WF_vars(BatchEnds)
    /\ WF_vars(BecomesDue)
    /\ WF_vars(TakeTask)
    /\ WF_vars(SendStep)

-----------------------------------------------------------------------------
\* What subscribers can rely on.

\* A URL has been told the finished status, or was tried as often as the
\* settings say, or the process that held its notice was killed.
Settled(u) == u \in acked \cup gaveUp \cup lost

\* The attempt is unfinished and no delivery of it is queued or under way: it waits
\* for somebody to submit the document again.
Waiting ==
    /\ status # "finished"
    /\ \A w \in Runs : run[w] \in {"absent", "done", "dead"}

\* A subscriber that is registered before the attempt finishes is told the
\* finished status, whatever the worker's runs that find no OCR server, overlapping
\* deliveries and kills elsewhere do to the tasks (finally reads the callbacks
\* after the final save; "the tasks stay queued for the next scheduled run"), unless
\* the last delivery ends without a final status and the attempt waits for a
\* resubmit.
InTimeIsNotified ==
    \A u \in Urls :
        (u \in callbacks /\ status # "finished") ~> (Settled(u) \/ Waiting)

\* Every notice reports a finished attempt, however retries, late subscribers
\* and deliveries interleave ("once the row's final status is already
\* committed"), unless the final save failed, or an overlapping delivery marked the
\* finished attempt running again: then a notice reports a running one.
ReportsFinished == faults = 0 /\ ~reopened => told \subseteq {"finished"}

\* A URL is sent at most one series of notices by the request that registered it,
\* however often it is registered again (register_callback: "rather than erroring
\* or duplicating delivery"), and one by each delivery that came to its finally
\* clause.  Without overlapping deliveries one of these is the one that finished
\* the attempt, and the others are final saves that failed: a finished attempt is
\* not tried again.
AtMostTwoSeries ==
    \A u \in Urls : /\ firsts[u] <= 1 + ends
                    /\ ~overlapped => firsts[u] <= 2 + faults

\* A series makes each of the MAX_WEBHOOK_ATTEMPTS attempts at most once, and with
\* TypeOK no others.
AttemptsBounded == \A t \in Task : tries[t] <= firsts[t.url]

\* The notices of a URL are bounded in series and in attempts, whatever is
\* registered again, retried or delivered again (register_callback, the early
\* return of process_remediation, send_webhook_notification).
NoticesBounded == TypeOK /\ AtMostTwoSeries /\ AttemptsBounded

\* Everybody who registered a callback is notified (README: "When the job
\* finishes, we'll POST a small JSON notice to that URL").
EveryCallerNotified ==
    \A u \in Urls : u \in callbacks ~> Settled(u)
=============================================================================
