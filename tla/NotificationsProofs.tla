------------------------ MODULE NotificationsProofs ------------------------
(***************************************************************************)
(* Theorems about Notifications, for any number of subscribers, requests   *)
(* and deliveries of the task, overlapping or not, and any                 *)
(* MAX_WEBHOOK_ATTEMPTS.                                                   *)
(***************************************************************************)
EXTENDS Notifications, Integers, FiniteSetTheorems, TLAPS

-----------------------------------------------------------------------------
\* The inductive invariant.

\* 1 for TRUE.
Count(b) == IF b THEN 1 ELSE 0

\* While deliveries of the task have not overlapped, at most one has begun and not
\* come to its final save, the attempt is unfinished then, and each delivery that
\* came to its finally clause finished it or failed to save.
OneRun ==
    ~overlapped =>
        /\ \A v, w \in Runs : v \in Trying /\ w \in Trying => v = w
        /\ \A w \in Runs : w \in Trying => status = "unfinished"
        /\ ends <= faults + Count(status = "finished")

\* A copy of the row that says "finished" is wrong only once the attempt was marked
\* running again, and only the request that made the callback row notifies its URL
\* by itself.
OneNotifier ==
    /\ ~reopened => \A q \in Requests : seen[q] = "finished" => status = "finished"
    /\ \A q \in Requests : pc[q] = "notify" => seen[q] = "finished" /\ url[q] \in callbacks
    /\ \A p, q \in Requests :
          pc[p] = "notify" /\ pc[q] = "notify" /\ url[p] = url[q] => p = q

\* While no final save has failed and no finished attempt was marked running,
\* whatever is queued or under way was put there after the attempt was finished.
RunsAreLate == \A w \in Runs : run[w] \in {"finally", "enqueue"} => status = "finished"
QueueIsLate == tasks # EmptyBag \/ deferred # EmptyBag => status = "finished"
SendsAreLate == \A s \in BagToSet(sending) : s.reports = "finished" /\ status = "finished"
NothingEarly ==
    faults = 0 /\ ~reopened =>
        RunsAreLate /\ QueueIsLate /\ SendsAreLate /\ told \subseteq {"finished"}

\* The deliveries that still have to enqueue a first attempt of u, and whether a
\* request has.
Owing(u) == {w \in Runs : run[w] = "finally" \/ (run[w] = "enqueue" /\ u \in todo[w])}
RequestOwes(u) == \E q \in Requests : pc[q] = "notify" /\ url[q] = u

\* Each first attempt, enqueued or owed, is accounted for by the callback row or
\* a delivery that came to its finally clause.
SeriesInv ==
    \A u \in Urls :
        firsts[u] + Cardinality(Owing(u)) + Count(RequestOwes(u))
            <= Count(u \in callbacks) + ends

\* How often e is in the bag B.
Copies(e, B) == IF e \in DOMAIN B THEN B[e] ELSE 0

\* How often attempt t is under way, whatever it reports, in the bag B.
Notice(t, st) == [task |-> t, reports |-> st]
UnderWay(t, B) ==
    Copies(Notice(t, "finished"), B) + Copies(Notice(t, "unfinished"), B)

\* How often attempt t is waiting or under way.
Open(t) == Copies(t, tasks) + Copies(t, deferred) + UnderWay(t, sending)

\* A first attempt belongs to a series, any other one to a try of the attempt
\* before it that failed.
AttemptInv ==
    \A t \in Task :
        /\ Open(t) + tries[t] <= firsts[t.url]
        /\ t.attempt > 1 =>
              Open(t) + tries[t] <= tries[[url |-> t.url, attempt |-> t.attempt - 1]]

NotifyInv ==
    TypeOK /\ OneRun /\ OneNotifier /\ NothingEarly /\ SeriesInv /\ AttemptInv

-----------------------------------------------------------------------------
\* Bags.

\* The empty bag holds nothing.
LEMMA BagNone ==
    /\ IsABag(EmptyBag) /\ DOMAIN EmptyBag = {}
    /\ \A e : Copies(e, EmptyBag) = 0
BY DEF EmptyBag, SetToBag, IsABag, Copies

\* A bag is empty when its domain is, and holds natural numbers of copies.
LEMMA BagFacts ==
    ASSUME NEW B, IsABag(B)
    PROVE  /\ B = EmptyBag <=> DOMAIN B = {}
           /\ \A e : Copies(e, B) \in Nat /\ (e \in DOMAIN B <=> Copies(e, B) > 0)
BY DEF EmptyBag, SetToBag, IsABag, Copies

\* One more copy of x.
LEMMA BagAdd ==
    ASSUME NEW B, IsABag(B), NEW x
    PROVE  /\ IsABag(B (+) One(x))
           /\ DOMAIN (B (+) One(x)) = DOMAIN B \cup {x}
           /\ B (+) One(x) # EmptyBag
           /\ \A e : Copies(e, B (+) One(x)) =
                       IF e = x THEN Copies(e, B) + 1 ELSE Copies(e, B)
<1> DEFINE C == B (+) One(x)
<1>1. C = [e \in DOMAIN B \cup {x} |-> (IF e \in DOMAIN B THEN B[e] ELSE 0)
                                        + (IF e = x THEN 1 ELSE 0)]
  BY DEF (+), One, SetToBag
<1> HIDE DEF C
<1>2. DOMAIN C = DOMAIN B \cup {x}
  BY <1>1
<1>3. \A e \in DOMAIN C : C[e] \in Nat /\ C[e] > 0
  BY <1>1, <1>2 DEF IsABag
<1>4. IsABag(C)
  BY <1>1, <1>2, <1>3 DEF IsABag
<1>5. \A e : Copies(e, C) = IF e = x THEN Copies(e, B) + 1 ELSE Copies(e, B)
  BY <1>1, <1>2 DEF IsABag, Copies
<1> QED BY <1>2, <1>4, <1>5, BagNone DEF C

\* One copy of x less.
LEMMA BagDrop ==
    ASSUME NEW B, IsABag(B), NEW x \in DOMAIN B
    PROVE  /\ IsABag(B (-) One(x))
           /\ DOMAIN (B (-) One(x)) \subseteq DOMAIN B
           /\ \A e : Copies(e, B (-) One(x)) =
                       IF e = x THEN Copies(e, B) - 1 ELSE Copies(e, B)
<1> DEFINE C == B (-) One(x)
<1> DEFINE D == [e \in DOMAIN B |-> IF e = x THEN B[e] - 1 ELSE B[e]]
<1>1. C = [e \in {d \in DOMAIN D : D[d] > 0} |-> D[e]]
  BY DEF (-), One, SetToBag
<1> HIDE DEF C
<1>2. DOMAIN C = {d \in DOMAIN B : (IF d = x THEN B[d] - 1 ELSE B[d]) > 0}
  BY <1>1
<1>3. \A e \in DOMAIN C : C[e] = IF e = x THEN B[e] - 1 ELSE B[e]
  BY <1>1, <1>2
<1>4. \A e \in DOMAIN B : B[e] \in Nat /\ B[e] > 0
  BY DEF IsABag
<1>5. IsABag(C)
  <2>1. \A e \in DOMAIN C : C[e] \in {n \in Nat : n > 0}
    BY <1>2, <1>3, <1>4
  <2> QED BY <1>1, <2>1 DEF IsABag
<1>6. ASSUME NEW e
      PROVE  Copies(e, C) = IF e = x THEN Copies(e, B) - 1 ELSE Copies(e, B)
  BY <1>2, <1>3, <1>4 DEF Copies
<1> QED BY <1>2, <1>5, <1>6 DEF C

\* A bag of members of S stays one.
LEMMA BagGrows ==
    ASSUME NEW S, NEW x \in S, NEW B, IsABag(B), BagToSet(B) \subseteq S
    PROVE  IsABag(B (+) One(x)) /\ BagToSet(B (+) One(x)) \subseteq S
<1>1. IsABag(B (+) One(x)) /\ DOMAIN (B (+) One(x)) = DOMAIN B \cup {x}
  BY BagAdd
<1> QED BY <1>1 DEF BagToSet

LEMMA BagShrinks ==
    ASSUME NEW S, NEW B, IsABag(B), BagToSet(B) \subseteq S, NEW x \in BagToSet(B)
    PROVE  IsABag(B (-) One(x)) /\ BagToSet(B (-) One(x)) \subseteq S /\ x \in S
<1>1. IsABag(B (-) One(x)) /\ DOMAIN (B (-) One(x)) \subseteq DOMAIN B
  BY BagDrop DEF BagToSet
<1> QED BY <1>1 DEF BagToSet

\* A task that is taken is under way once more.
LEMMA NoticeAdd ==
    ASSUME NEW B, IsABag(B), NEW t \in Task, NEW st \in Statuses, NEW C,
           C = B (+) One(Notice(t, st))
    PROVE  \A n \in Task :
              UnderWay(n, C) = IF n = t THEN UnderWay(n, B) + 1 ELSE UnderWay(n, B)
<1> SUFFICES ASSUME NEW n \in Task
             PROVE  UnderWay(n, C) = IF n = t THEN UnderWay(n, B) + 1 ELSE UnderWay(n, B)
  OBVIOUS
<1>1. \A x \in Statuses : Notice(n, x) = Notice(t, st) <=> n = t /\ x = st
  BY DEF Notice
<1>2. \A e : Copies(e, C) = IF e = Notice(t, st) THEN Copies(e, B) + 1 ELSE Copies(e, B)
  BY BagAdd
<1>3. \A e : Copies(e, B) \in Nat
  BY BagFacts
<1>4. "finished" \in Statuses /\ "unfinished" \in Statuses
  BY DEF Statuses
<1>5. st = "finished" \/ st = "unfinished"
  BY DEF Statuses
<1> QED BY <1>1, <1>2, <1>3, <1>4, <1>5 DEF UnderWay

\* One that is answered, or dies with its worker, is under way once less.
LEMMA NoticeDrop ==
    ASSUME NEW B, IsABag(B), NEW s \in DOMAIN B, s \in [task: Task, reports: Statuses],
           NEW C, C = B (-) One(s)
    PROVE  /\ UnderWay(s.task, B) > 0
           /\ \A n \in Task : UnderWay(n, C) = IF n = s.task THEN UnderWay(n, B) - 1
                                                             ELSE UnderWay(n, B)
<1>1. s = Notice(s.task, s.reports) /\ s.task \in Task /\ s.reports \in Statuses
  BY DEF Notice
<1>2. s.reports = "finished" \/ s.reports = "unfinished"
  BY <1>1 DEF Statuses
<1>3. \A e : Copies(e, C) = IF e = s THEN Copies(e, B) - 1 ELSE Copies(e, B)
  BY BagDrop
<1>4. /\ \A e : Copies(e, B) \in Nat
      /\ Copies(s, B) > 0
  BY BagFacts
<1>5. UnderWay(s.task, B) > 0
  BY <1>1, <1>2, <1>4 DEF UnderWay
<1>6. ASSUME NEW n \in Task
      PROVE  UnderWay(n, C) = IF n = s.task THEN UnderWay(n, B) - 1 ELSE UnderWay(n, B)
  <2>1. \A x \in Statuses : Notice(n, x) = s <=> n = s.task /\ x = s.reports
    BY <1>1 DEF Notice
  <2>2. "finished" \in Statuses /\ "unfinished" \in Statuses
    BY DEF Statuses
  <2> QED BY <1>2, <1>3, <1>4, <2>1, <2>2 DEF UnderWay
<1> QED BY <1>5, <1>6

-----------------------------------------------------------------------------
\* What the queue and the deliveries do to a task.

LEMMA TypeInit == Init => TypeOK
<1> SUFFICES ASSUME Init
             PROVE  TypeOK
  OBVIOUS
<1>1. run \in [Runs -> {"absent", "idle", "fetched", "pipeline", "finally", "enqueue",
                        "done", "dead"}]
  <2>1. \A w \in Runs : (IF \A v \in Runs : w <= v THEN "idle" ELSE "absent")
                         \in {"absent", "idle"}
    OBVIOUS
  <2> QED BY <2>1, Zenon DEF Init
<1>2. overlapped \in BOOLEAN /\ reopened \in BOOLEAN
  BY DEF Init
<1> QED BY <1>1, <1>2, BagNone, NotificationsAssumption DEF Init, TypeOK, Statuses, BagToSet

\* A first attempt is queued.
LEMMA EnqueueType ==
    ASSUME TypeOK, NEW u \in Urls, EnqueueFirst(u)
    PROVE  /\ IsABag(tasks') /\ BagToSet(tasks') \subseteq Task
           /\ firsts' \in [Urls -> Nat]
<1>1. [url |-> u, attempt |-> 1] \in Task
  BY NotificationsAssumption DEF Task
<1>2. IsABag(tasks') /\ BagToSet(tasks') \subseteq Task
  BY <1>1, BagGrows DEF TypeOK, EnqueueFirst
<1> QED BY <1>2 DEF TypeOK, EnqueueFirst

\* The requests keep the type invariant.
LEMMA RequestType ==
    ASSUME TypeOK, NEW q \in Requests, Look(q) \/ RequestStep(q) \/ RequestCrash(q)
    PROVE  TypeOK'
<1>1. CASE Look(q)
  BY <1>1 DEF Look, TypeOK, runVars, queueVars, sendVars, failVars
<1>2. CASE Register(q)
  BY <1>2 DEF Register, TypeOK, runVars, queueVars, sendVars, failVars
<1>3. CASE NotifyNow(q)
  <2>1. url[q] \in Urls /\ EnqueueFirst(url[q])
    BY <1>3 DEF NotifyNow, TypeOK
  <2> QED BY <1>3, <2>1, EnqueueType DEF NotifyNow, TypeOK, runVars, sendVars, failVars
<1>4. CASE RequestCrash(q)
  BY <1>4 DEF RequestCrash, Fail, TypeOK, runVars, queueVars, sendVars
<1> QED BY <1>1, <1>2, <1>3, <1>4 DEF RequestStep

\* What a delivery of the task, or the submit that asks for one, does.
RunsStep(w) == Resubmit(w) \/ RunStep(w) \/ RunFinishFault(w) \/ RunCrash(w)

\* So do the runs of the pipeline.
LEMMA RunType ==
    ASSUME TypeOK, NEW w \in Runs, RunsStep(w)
    PROVE  TypeOK'
<1>1. CASE RunFetch(w)
  BY <1>1 DEF RunFetch, TypeOK, requestVars, queueVars, sendVars, failVars
<1>7. CASE Resubmit(w)
  BY <1>7 DEF Resubmit, TypeOK, requestVars, queueVars, sendVars, failVars
<1>8. CASE RunMark(w)
  BY <1>8 DEF RunMark, TypeOK, Statuses, requestVars, queueVars, sendVars, failVars
<1>9. CASE RunMarkRefused(w)
  BY <1>9 DEF RunMarkRefused, TypeOK, requestVars, queueVars, sendVars, failVars
<1>2. CASE RunFinish(w)
  BY <1>2 DEF RunFinish, TypeOK, Statuses, requestVars, queueVars, sendVars, failVars
<1>3. CASE RunRead(w)
  BY <1>3 DEF RunRead, TypeOK, requestVars, queueVars, sendVars, failVars
<1>4. CASE RunEnqueue(w)
  <2>1. CASE UNCHANGED <<tasks, firsts>> /\ todo' = todo
    BY <1>4, <2>1 DEF RunEnqueue, TypeOK, requestVars, sendVars, failVars
  <2>2. ASSUME NEW u \in todo[w], EnqueueFirst(u), todo' = [todo EXCEPT ![w] = @ \ {u}],
               UNCHANGED run
        PROVE  TypeOK'
    <3>1. u \in Urls
      BY DEF TypeOK
    <3> QED BY <1>4, <2>2, <3>1, EnqueueType DEF RunEnqueue, TypeOK, requestVars,
                                                sendVars, failVars
  <2> QED BY <1>4, <2>1, <2>2 DEF RunEnqueue
<1>5. CASE RunFinishFault(w)
  BY <1>5 DEF RunFinishFault, TypeOK, requestVars, queueVars, sendVars
<1>6. CASE RunCrash(w)
  BY <1>6 DEF RunCrash, WorkerKilled, Fail, TypeOK, requestVars, sendVars
<1> QED BY <1>1, <1>2, <1>3, <1>4, <1>5, <1>6, <1>7, <1>8, <1>9 DEF RunsStep, RunStep

\* The next attempt of one that is not the last.
LEMMA NextAttempt ==
    ASSUME NEW t \in Task, ~IsLast(t.attempt)
    PROVE  /\ [t EXCEPT !.attempt = @ + 1] \in Task
           /\ [t EXCEPT !.attempt = @ + 1] = [url |-> t.url, attempt |-> t.attempt + 1]
BY NotificationsAssumption DEF Task, IsLast

\* So do the worker and the deliveries.
LEMMA SendType ==
    ASSUME TypeOK, BecomesDue \/ TakeTask \/ SendStep \/ SenderDies
    PROVE  TypeOK'
<1>1. CASE BecomesDue
  <2>1. PICK t \in BagToSet(deferred) :
          deferred' = deferred (-) One(t) /\ tasks' = tasks (+) One(t)
    BY <1>1 DEF BecomesDue
  <2>2. t \in Task /\ IsABag(deferred') /\ BagToSet(deferred') \subseteq Task
    BY <2>1, BagShrinks DEF TypeOK
  <2>3. IsABag(tasks') /\ BagToSet(tasks') \subseteq Task
    BY <2>1, <2>2, BagGrows DEF TypeOK
  <2> QED BY <1>1, <2>2, <2>3 DEF BecomesDue, TypeOK, requestVars, runVars, sendVars, failVars
<1>2. CASE TakeTask
  <2>1. PICK t \in BagToSet(tasks) :
          /\ tasks' = tasks (-) One(t)
          /\ sending' = sending (+) One([task |-> t, reports |-> status])
    BY <1>2 DEF TakeTask
  <2>2. t \in Task /\ IsABag(tasks') /\ BagToSet(tasks') \subseteq Task
    BY <2>1, BagShrinks DEF TypeOK
  <2>3. [task |-> t, reports |-> status] \in [task: Task, reports: Statuses]
    BY <2>2 DEF TypeOK
  <2>4. /\ IsABag(sending')
        /\ BagToSet(sending') \subseteq [task: Task, reports: Statuses]
    BY <2>1, <2>3, BagGrows DEF TypeOK
  <2> QED BY <1>2, <2>2, <2>4 DEF TakeTask, TypeOK, requestVars, runVars, failVars
<1>3. ASSUME NEW s \in BagToSet(sending), sending' = sending (-) One(s)
      PROVE  /\ IsABag(sending')
             /\ BagToSet(sending') \subseteq [task: Task, reports: Statuses]
             /\ s.task \in Task /\ s.task.url \in Urls /\ s.reports \in Statuses
             /\ Finishes(s) \subseteq Urls
  <2>1. s \in [task: Task, reports: Statuses]
    BY DEF TypeOK
  <2>2. s.task \in Task /\ s.task.url \in Urls /\ s.reports \in Statuses
    BY <2>1 DEF Task
  <2>3. IsABag(sending') /\ BagToSet(sending') \subseteq [task: Task, reports: Statuses]
    BY <1>3, BagShrinks DEF TypeOK
  <2> QED BY <2>2, <2>3 DEF Finishes
<1>4. CASE Deliver
  BY <1>3, <1>4 DEF Deliver, TypeOK, requestVars, runVars, queueVars, failVars
<1>5. CASE DeliveryFails
  <2>1. PICK s \in BagToSet(sending) :
          /\ sending' = sending (-) One(s)
          /\ tries' = [tries EXCEPT ![s.task] = @ + 1]
          /\ told' \in {told, told \cup {s.reports}}
          /\ \/ /\ IsLast(s.task.attempt)
                /\ gaveUp' = gaveUp \cup Finishes(s)
                /\ UNCHANGED deferred
             \/ /\ ~IsLast(s.task.attempt)
                /\ deferred' = deferred (+) One([s.task EXCEPT !.attempt = @ + 1])
                /\ UNCHANGED gaveUp
    BY <1>5 DEF DeliveryFails
  <2>2. IsABag(deferred') /\ BagToSet(deferred') \subseteq Task
    <3>1. CASE UNCHANGED deferred
      BY <3>1 DEF TypeOK
    <3>2. CASE ~IsLast(s.task.attempt)
               /\ deferred' = deferred (+) One([s.task EXCEPT !.attempt = @ + 1])
      <4>1. s.task \in Task
        BY <1>3, <2>1
      <4>2. [s.task EXCEPT !.attempt = @ + 1] \in Task
        BY <3>2, <4>1, NextAttempt
      <4> QED BY <3>2, <4>2, BagGrows DEF TypeOK
    <3> QED BY <2>1, <3>1, <3>2
  <2> QED BY <1>3, <1>5, <2>1, <2>2 DEF DeliveryFails, TypeOK, requestVars, runVars, failVars
<1>6. CASE SenderDies
  BY <1>3, <1>6 DEF SenderDies, WorkerKilled, Fail, TypeOK, requestVars, runVars
<1> QED BY <1>1, <1>2, <1>4, <1>5, <1>6 DEF SendStep

\* The scheduled worker's own steps change nothing else.
WorkerStep == WorkerStarts \/ OcrReady \/ OcrTimeout \/ BatchEnds

LEMMA WorkerOnly ==
    ASSUME WorkerStep \/ UNCHANGED vars
    PROVE  /\ UNCHANGED <<status, callbacks, pc, url, seen, run, todo, ends, overlapped,
                          reopened, tasks, deferred, sending, firsts, tries, acked, gaveUp, told, lost, crashes, faults>>
           /\ TypeOK => TypeOK'
<1>1. UNCHANGED <<status, callbacks, pc, url, seen, run, todo, ends, overlapped,
                  reopened, tasks, deferred, sending, firsts, tries, acked, gaveUp, told, lost, crashes, faults>>
  BY DEF WorkerStep, WorkerStarts, OcrReady, OcrTimeout, BatchEnds, vars, requestVars,
         runVars, sendVars, failVars
<1>2. TypeOK => worker' \in {"off", "waiting", "batch"}
  BY DEF WorkerStep, WorkerStarts, OcrReady, OcrTimeout, BatchEnds, vars, TypeOK
<1> QED BY <1>1, <1>2 DEF TypeOK

-----------------------------------------------------------------------------
\* Runs and requests.

\* The kinds of step.
LEMMA Steps ==
    ASSUME [Next]_vars
    PROVE  \/ \E q \in Requests : Look(q) \/ RequestStep(q) \/ RequestCrash(q)
           \/ \E w \in Runs : RunsStep(w)
           \/ WorkerStep \/ UNCHANGED vars
           \/ BecomesDue \/ TakeTask \/ SendStep \/ SenderDies
BY DEF Next, WorkerStep, RunsStep

LEMMA TypeStep == TypeOK /\ [Next]_vars => TypeOK'
BY Steps, RequestType, RunType, SendType, WorkerOnly

\* Requests leave the status and the runs alone.
LEMMA RequestsLeave ==
    ASSUME NEW q \in Requests, Look(q) \/ RequestStep(q) \/ RequestCrash(q)
    PROVE  UNCHANGED <<status, run, todo, ends, overlapped, reopened, deferred, sending,
                       tries, told, faults>>
BY DEF Look, RequestStep, Register, NotifyNow, RequestCrash, Fail, runVars, queueVars,
       sendVars, failVars

\* Runs leave the requests, what is registered and what is sent alone.
LEMMA RunsLeave ==
    ASSUME NEW w \in Runs, RunsStep(w)
    PROVE  UNCHANGED <<callbacks, pc, url, seen, deferred, sending, tries, told>>
BY DEF RunsStep, RunStep, Resubmit, RunFetch, RunMark, RunMarkRefused, RunFinish, RunRead,
       RunEnqueue, RunFinishFault, RunCrash, WorkerKilled, Fail, requestVars, queueVars,
       sendVars, failVars

\* Deliveries of notices leave the status, the runs and the requests alone.
LEMMA SendsLeave ==
    ASSUME BecomesDue \/ TakeTask \/ SendStep \/ SenderDies
    PROVE  UNCHANGED <<status, callbacks, pc, url, seen, run, todo, ends, overlapped,
                       reopened, firsts, faults>>
BY DEF BecomesDue, TakeTask, SendStep, Deliver, DeliveryFails, SenderDies, WorkerKilled,
       Fail, requestVars, runVars, queueVars, sendVars, failVars

\* Only a run changes the status, and to "unfinished" only where it is on record;
\* failed saves add up.
LEMMA StatusStep ==
    ASSUME TypeOK, [Next]_vars
    PROVE  /\ ~reopened' => ~reopened /\ status' \in {status, "finished"}
           /\ faults' \in Nat /\ faults' >= faults
<1>1. ASSUME NEW w \in Runs, RunsStep(w)
      PROVE  /\ ~reopened' => ~reopened /\ status' \in {status, "finished"}
             /\ faults' = faults \/ faults' = faults + 1
  BY <1>1 DEF RunsStep, RunStep, Resubmit, RunFetch, RunMark, RunMarkRefused, RunFinish,
              RunRead, RunEnqueue, RunFinishFault, RunCrash, WorkerKilled, Fail, failVars,
              TypeOK, Statuses
<1>2. \/ faults' = faults \/ faults' = faults + 1
  BY <1>1, Steps, RequestsLeave, SendsLeave, WorkerOnly
<1>3. ~reopened' => ~reopened /\ status' \in {status, "finished"}
  BY <1>1, Steps, RequestsLeave, SendsLeave, WorkerOnly
<1>4. faults \in Nat
  BY DEF TypeOK
<1> QED BY <1>2, <1>3, <1>4

LEMMA OneRunStep == TypeOK /\ OneRun /\ [Next]_vars => OneRun'
<1> SUFFICES ASSUME TypeOK, OneRun, [Next]_vars
             PROVE  OneRun'
  OBVIOUS
<1> DEFINE Single == \A v, w \in Runs : v \in Trying /\ w \in Trying => v = w
           Late == \A w \in Runs : w \in Trying => status = "unfinished"
           Ended == ends <= faults + Count(status = "finished")
<1>0. ends \in Nat /\ faults \in Nat /\ status \in Statuses
  BY DEF TypeOK
<1>1. ASSUME NEW w \in Runs, RunFetch(w)
      PROVE  OneRun'
  <2>1. CASE status = "finished"
    <3>1. UNCHANGED <<status, ends, faults, overlapped>>
      BY <1>1, <2>1 DEF RunFetch, failVars
    <3>2. \A v \in Runs : v \in Trying' => v \in Trying
      BY <1>1, <2>1 DEF RunFetch, Trying, TypeOK
    <3> QED BY <3>1, <3>2 DEF OneRun
  <2>2. CASE status # "finished"
    <3>1. UNCHANGED <<status, ends, faults>> /\ overlapped' = (overlapped \/ Trying # {})
      BY <1>1, <2>2 DEF RunFetch, failVars
    <3>2. \A v \in Runs : v \in Trying' => v \in Trying \/ v = w
      BY <1>1, <2>2 DEF RunFetch, Trying, TypeOK
    <3>3. status = "unfinished"
      BY <1>0, <2>2 DEF Statuses
    <3>4. ~overlapped' => ~overlapped /\ Trying = {}
      BY <3>1
    <3> HIDE DEF Trying
    <3> QED BY <3>1, <3>2, <3>3, <3>4 DEF OneRun
  <2> QED BY <2>1, <2>2
<1>2. ASSUME NEW w \in Runs, RunMark(w)
      PROVE  OneRun'
  <2>1. UNCHANGED <<ends, faults, overlapped>> /\ status' = "unfinished"
    BY <1>2 DEF RunMark, failVars
  <2>2. w \in Trying /\ \A v \in Runs : v \in Trying' => v \in Trying
    BY <1>2 DEF RunMark, Trying, TypeOK
  <2>3. ~overlapped => status = "unfinished"
    BY <2>2 DEF OneRun
  <2> QED BY <2>1, <2>2, <2>3 DEF OneRun
<1>3. ASSUME NEW w \in Runs, RunFinish(w) \/ RunFinishFault(w)
      PROVE  OneRun'
  <2>1. /\ UNCHANGED overlapped /\ ends' = ends + 1
        /\ \/ status' = "finished" /\ faults' = faults
           \/ status' = status /\ faults' = faults + 1
    BY <1>3 DEF RunFinish, RunFinishFault, failVars
  <2>2. w \in Trying /\ \A v \in Runs : v \in Trying' <=> v \in Trying /\ v # w
    BY <1>3 DEF RunFinish, RunFinishFault, Trying, TypeOK
  <2> SUFFICES ASSUME ~overlapped
               PROVE  Single' /\ Late' /\ Ended'
    BY <2>1 DEF OneRun
  <2>3. status = "unfinished" /\ ends <= faults + Count(status = "finished")
    BY <2>2 DEF OneRun
  <2>4. \A v \in Runs : v \notin Trying'
    BY <2>2 DEF OneRun
  <2>5. Ended'
    BY <1>0, <2>1, <2>3 DEF Count
  <2> QED BY <2>4, <2>5
<1>4. ASSUME NEW w \in Runs,
             Resubmit(w) \/ RunMarkRefused(w) \/ RunRead(w) \/ RunEnqueue(w) \/ RunCrash(w)
      PROVE  OneRun'
  <2>1. UNCHANGED <<status, ends, faults, overlapped>>
    BY <1>4 DEF Resubmit, RunMarkRefused, RunRead, RunEnqueue, RunCrash, WorkerKilled, Fail,
                failVars
  <2>2. \A v \in Runs : v \in Trying' => v \in Trying
    BY <1>4 DEF Resubmit, RunMarkRefused, RunRead, RunEnqueue, RunCrash, Trying, TypeOK
  <2> QED BY <2>1, <2>2 DEF OneRun
<1>5. CASE UNCHANGED <<status, run, ends, faults, overlapped>>
  BY <1>5 DEF OneRun, Trying
<1>6. \/ UNCHANGED <<status, run, ends, faults, overlapped>>
      \/ \E w \in Runs : RunsStep(w)
  BY Steps, RequestsLeave, SendsLeave, WorkerOnly
<1> QED BY <1>1, <1>2, <1>3, <1>4, <1>5, <1>6 DEF RunsStep, RunStep

LEMMA OneNotifierStep == TypeOK /\ OneNotifier /\ [Next]_vars => OneNotifier'
<1> SUFFICES ASSUME TypeOK, OneNotifier, [Next]_vars
             PROVE  OneNotifier'
  OBVIOUS
<1>1. ASSUME NEW q \in Requests, Look(q)
      PROVE  OneNotifier'
  BY <1>1 DEF Look, OneNotifier, TypeOK, Statuses, runVars
<1>2. ASSUME NEW q \in Requests, Register(q)
      PROVE  OneNotifier'
  <2>1. UNCHANGED <<status, reopened, url, seen>> /\ callbacks' = callbacks \cup {url[q]}
    BY <1>2 DEF Register, runVars
  <2>2. \A p \in Requests : p # q => pc'[p] = pc[p]
    BY <1>2 DEF Register, TypeOK
  <2>3. pc'[q] = "notify" => url[q] \notin callbacks /\ seen[q] = "finished"
    BY <1>2 DEF Register, TypeOK
  <2> QED BY <2>1, <2>2, <2>3 DEF OneNotifier
<1>3. ASSUME NEW q \in Requests, NotifyNow(q) \/ RequestCrash(q)
      PROVE  OneNotifier'
  <2>1. UNCHANGED <<status, reopened, url, seen, callbacks>>
    BY <1>3 DEF NotifyNow, RequestCrash, runVars
  <2>2. \A p \in Requests : pc'[p] = "notify" => pc[p] = "notify"
    BY <1>3 DEF NotifyNow, RequestCrash, TypeOK
  <2> QED BY <2>1, <2>2 DEF OneNotifier
<1>4. CASE UNCHANGED <<callbacks, pc, url, seen>>
  BY <1>4, StatusStep DEF OneNotifier
<1>5. \/ UNCHANGED <<callbacks, pc, url, seen>>
      \/ \E q \in Requests : Look(q) \/ RequestStep(q) \/ RequestCrash(q)
  BY Steps, RunsLeave, SendsLeave, WorkerOnly
<1> QED BY <1>1, <1>2, <1>3, <1>4, <1>5 DEF RequestStep

-----------------------------------------------------------------------------
\* While every final save succeeds and no finished attempt is marked running, a
\* finished attempt is all that is reported.

LEMMA NothingEarlyStep ==
    ASSUME TypeOK, OneNotifier, NothingEarly, [Next]_vars
    PROVE  NothingEarly'
<1> SUFFICES ASSUME faults' = 0, ~reopened'
             PROVE  RunsAreLate' /\ QueueIsLate' /\ SendsAreLate' /\ told' \subseteq {"finished"}
  BY DEF NothingEarly
<1>1. faults = 0 /\ ~reopened /\ status' \in {status, "finished"}
  <2>1. faults \in Nat /\ faults' >= faults
    BY StatusStep DEF TypeOK
  <2>2. faults = 0
    BY <2>1
  <2> QED BY <2>2, StatusStep
<1>2. RunsAreLate /\ QueueIsLate /\ SendsAreLate /\ told \subseteq {"finished"}
  BY <1>1 DEF NothingEarly
<1>3. RunsAreLate'
  <2>1. ASSUME NEW w \in Runs, RunsStep(w)
        PROVE  RunsAreLate'
    <3>1. ~RunFinishFault(w)
      BY <1>1 DEF RunFinishFault
    <3>2. \A v \in Runs : v # w => run'[v] = run[v]
      BY <2>1, <3>1 DEF RunsStep, RunStep, Resubmit, RunFetch, RunMark, RunMarkRefused,
                        RunFinish, RunRead, RunEnqueue, RunCrash, TypeOK
    <3>3. run'[w] \in {"finally", "enqueue"} =>
            status' = "finished" \/ run[w] \in {"finally", "enqueue"}
      BY <2>1, <3>1 DEF RunsStep, RunStep, Resubmit, RunFetch, RunMark, RunMarkRefused,
                        RunFinish, RunRead, RunEnqueue, RunCrash, TypeOK
    <3> QED BY <1>1, <1>2, <3>2, <3>3 DEF RunsAreLate
  <2>2. CASE UNCHANGED <<run, status>>
    BY <1>2, <2>2 DEF RunsAreLate
  <2> QED BY <2>1, <2>2, Steps, RequestsLeave, SendsLeave, WorkerOnly
<1>4. QueueIsLate'
  <2>1. ASSUME NEW q \in Requests, NotifyNow(q)
        PROVE  status' = "finished"
    BY <1>1, <2>1 DEF NotifyNow, OneNotifier
  <2>2. ASSUME NEW w \in Runs, RunEnqueue(w)
        PROVE  status' = "finished"
    BY <1>1, <1>2, <2>2 DEF RunEnqueue, RunsAreLate
  <2>3. ASSUME BecomesDue
        PROVE  status' = "finished"
    <3>1. PICK t : t \in DOMAIN deferred
      BY <2>3 DEF BecomesDue, BagToSet
    <3>2. deferred # EmptyBag
      BY <3>1, BagNone
    <3> QED BY <1>1, <1>2, <3>2 DEF QueueIsLate
  <2>4. ASSUME TakeTask
        PROVE  status' = "finished"
    <3>1. PICK t : t \in DOMAIN tasks
      BY <2>4 DEF TakeTask, BagToSet
    <3>2. tasks # EmptyBag
      BY <3>1, BagNone
    <3> QED BY <1>1, <1>2, <3>2 DEF QueueIsLate
  <2>5. ASSUME DeliveryFails
        PROVE  status' = "finished"
    BY <1>1, <1>2, <2>5 DEF DeliveryFails, SendsAreLate
  <2>6. CASE UNCHANGED <<tasks, deferred>>
    BY <1>1, <1>2, <2>6 DEF QueueIsLate
  <2>7. \/ UNCHANGED <<tasks, deferred>>
        \/ \E q \in Requests : NotifyNow(q)
        \/ \E w \in Runs : RunEnqueue(w)
        \/ BecomesDue \/ TakeTask \/ DeliveryFails
    <3>1. ASSUME NEW q \in Requests, Look(q) \/ RequestStep(q) \/ RequestCrash(q)
          PROVE  UNCHANGED <<tasks, deferred>> \/ NotifyNow(q)
      BY <3>1 DEF Look, RequestStep, Register, RequestCrash, queueVars
    <3>2. ASSUME NEW w \in Runs, RunsStep(w)
          PROVE  UNCHANGED <<tasks, deferred>> \/ RunEnqueue(w)
      BY <3>2 DEF RunsStep, RunStep, Resubmit, RunFetch, RunMark, RunMarkRefused, RunFinish,
                  RunRead, RunFinishFault, RunCrash, queueVars
    <3>3. ASSUME SendStep \/ SenderDies
          PROVE  UNCHANGED <<tasks, deferred>> \/ DeliveryFails
      BY <3>3 DEF SendStep, Deliver, SenderDies, queueVars
    <3> QED BY <3>1, <3>2, <3>3, Steps, WorkerOnly
  <2> QED BY <2>1, <2>2, <2>3, <2>4, <2>5, <2>6, <2>7 DEF QueueIsLate
<1>5. SendsAreLate'
  <2>1. ASSUME TakeTask
        PROVE  SendsAreLate'
    <3>1. PICK t \in BagToSet(tasks) :
            sending' = sending (+) One([task |-> t, reports |-> status])
      BY <2>1 DEF TakeTask
    <3>2. status = "finished"
      <4>1. tasks # EmptyBag
        BY BagNone DEF BagToSet
      <4> QED BY <1>2, <4>1 DEF QueueIsLate
    <3>3. IsABag(sending)
      BY DEF TypeOK
    <3>4. DOMAIN sending' = DOMAIN sending \cup {[task |-> t, reports |-> status]}
      BY <3>1, <3>3, BagAdd
    <3> QED BY <1>1, <1>2, <3>2, <3>4 DEF SendsAreLate, BagToSet
  <2>2. ASSUME SendStep \/ SenderDies
        PROVE  SendsAreLate'
    <3>1. PICK s \in BagToSet(sending) : sending' = sending (-) One(s)
      BY <2>2 DEF SendStep, Deliver, DeliveryFails, SenderDies
    <3>2. IsABag(sending) /\ s \in DOMAIN sending
      BY DEF TypeOK, BagToSet
    <3>3. DOMAIN sending' \subseteq DOMAIN sending
      BY <3>1, <3>2, BagDrop
    <3> QED BY <1>1, <1>2, <3>3 DEF SendsAreLate, BagToSet
  <2>3. CASE UNCHANGED sending
    BY <1>1, <1>2, <2>3 DEF SendsAreLate
  <2>4. BecomesDue => UNCHANGED sending
    BY DEF BecomesDue, sendVars
  <2> QED BY <2>1, <2>2, <2>3, <2>4, Steps, RequestsLeave, RunsLeave, WorkerOnly
<1>6. told' \subseteq {"finished"}
  <2>1. ASSUME SendStep
        PROVE  told' \subseteq {"finished"}
    BY <1>2, <2>1 DEF SendStep, Deliver, DeliveryFails, SendsAreLate
  <2>2. BecomesDue \/ TakeTask \/ SenderDies => UNCHANGED told
    BY DEF BecomesDue, TakeTask, SenderDies, sendVars
  <2> QED BY <1>2, <2>1, <2>2, Steps, RequestsLeave, RunsLeave, WorkerOnly
<1> QED BY <1>3, <1>4, <1>5, <1>6

-----------------------------------------------------------------------------
\* The series of a URL.

\* What SeriesInv compares.
Enqueued(u) == firsts[u] + Cardinality(Owing(u)) + Count(RequestOwes(u))
Allowed(u) == Count(u \in callbacks) + ends

\* Sets of deliveries and their sizes.
LEMMA RunSets ==
    ASSUME NEW S, S \subseteq Runs
    PROVE  IsFiniteSet(S) /\ Cardinality(S) \in Nat
BY NotificationsAssumption, FS_Subset, FS_CardinalityType

LEMMA FewerRuns ==
    ASSUME NEW S, NEW T, T \subseteq Runs, S \subseteq T
    PROVE  Cardinality(S) <= Cardinality(T)
BY RunSets, FS_Subset

LEMMA OneMoreRun ==
    ASSUME NEW S, NEW T, T \subseteq Runs, NEW w \in Runs, S \subseteq T \cup {w}
    PROVE  Cardinality(S) <= Cardinality(T) + 1
<1>1. Cardinality(S) <= Cardinality(T \cup {w})
  BY FewerRuns
<1>2. Cardinality(T \cup {w}) \in {Cardinality(T), Cardinality(T) + 1}
  BY RunSets, FS_AddElement
<1>3. Cardinality(S) \in Nat /\ Cardinality(T) \in Nat
  BY RunSets
<1> QED BY <1>1, <1>2, <1>3

LEMMA OneRunLess ==
    ASSUME NEW T, T \subseteq Runs, NEW w \in T
    PROVE  Cardinality(T \ {w}) + 1 = Cardinality(T)
<1>1. Cardinality(T \ {w}) = Cardinality(T) - 1
  BY RunSets, FS_RemoveElement
<1> QED BY <1>1, RunSets

LEMMA OwingNat ==
    ASSUME NEW u
    PROVE  /\ Owing(u) \subseteq Runs /\ Owing(u)' \subseteq Runs
           /\ Cardinality(Owing(u)) \in Nat /\ Cardinality(Owing(u)') \in Nat
<1>1. Owing(u) \subseteq Runs /\ Owing(u)' \subseteq Runs
  BY DEF Owing
<1> QED BY <1>1, RunSets

\* Another first attempt of u is enqueued in place of one that was owed.
LEMMA EnqueueFirsts ==
    ASSUME TypeOK, NEW u \in Urls, EnqueueFirst(u)
    PROVE  \A v \in Urls : firsts'[v] = IF v = u THEN firsts[v] + 1 ELSE firsts[v]
BY DEF TypeOK, EnqueueFirst

\* Nothing that counts against the limit grows by itself.
LEMMA SeriesKept ==
    ASSUME TypeOK, SeriesInv,
           UNCHANGED <<firsts, ends>>, callbacks \subseteq callbacks',
           \A u \in Urls : /\ Owing(u)' \subseteq Owing(u)
                           /\ RequestOwes(u)' => RequestOwes(u)
    PROVE  SeriesInv'
<1> SUFFICES ASSUME NEW u \in Urls
             PROVE  Enqueued(u)' <= Allowed(u)'
  BY DEF SeriesInv, Enqueued, Allowed
<1>1. firsts[u] \in Nat /\ ends \in Nat
  BY DEF TypeOK
<1>2. /\ Cardinality(Owing(u)) \in Nat /\ Cardinality(Owing(u)') \in Nat
      /\ Cardinality(Owing(u)') <= Cardinality(Owing(u))
  BY OwingNat, FewerRuns
<1>3. /\ Count(RequestOwes(u)) \in 0..1 /\ Count(RequestOwes(u)') \in 0..1
      /\ Count(RequestOwes(u)') <= Count(RequestOwes(u))
  BY DEF Count
<1>4. /\ Count(u \in callbacks) \in 0..1 /\ Count(u \in callbacks') \in 0..1
      /\ Count(u \in callbacks) <= Count(u \in callbacks')
  BY DEF Count
<1>6. firsts[u] + Cardinality(Owing(u)) + Count(RequestOwes(u))
         <= Count(u \in callbacks) + ends
  BY DEF SeriesInv
<1>7. firsts[u] + Cardinality(Owing(u)') + Count(RequestOwes(u)')
         <= Count(u \in callbacks') + ends
  BY <1>1, <1>2, <1>3, <1>4, <1>6
<1> QED BY <1>7 DEF Enqueued, Allowed

\* A request that registers u first owes it at most one series.
LEMMA SeriesRequest ==
    ASSUME TypeOK, OneNotifier, SeriesInv, NEW q \in Requests,
           Look(q) \/ RequestStep(q) \/ RequestCrash(q)
    PROVE  SeriesInv'
<1>1. UNCHANGED <<run, todo, ends>>
  BY RequestsLeave
<1>2. \A u \in Urls : Owing(u)' = Owing(u)
  BY <1>1 DEF Owing
<1>3. CASE Look(q) \/ RequestCrash(q)
  <2>1. UNCHANGED firsts /\ callbacks \subseteq callbacks'
    BY <1>3 DEF Look, RequestCrash
  <2>2. \A p \in Requests : pc'[p] = "notify" => pc[p] = "notify" /\ url'[p] = url[p]
    BY <1>3 DEF Look, RequestCrash, TypeOK
  <2>3. \A u \in Urls : RequestOwes(u)' => RequestOwes(u)
    BY <2>2 DEF RequestOwes
  <2> QED BY <1>1, <1>2, <2>1, <2>3, SeriesKept
<1>4. CASE Register(q)
  <2>1. UNCHANGED <<firsts, url>> /\ callbacks' = callbacks \cup {url[q]}
    BY <1>4 DEF Register
  <2>2. \A p \in Requests : pc'[p] = "notify" =>
          pc[p] = "notify" \/ (p = q /\ url[q] \notin callbacks)
    BY <1>4 DEF Register, TypeOK
  <2>3. \A u \in Urls : RequestOwes(u)' =>
          RequestOwes(u) \/ (u = url[q] /\ url[q] \notin callbacks)
    BY <2>1, <2>2 DEF RequestOwes
  <2>4. ASSUME NEW u \in Urls
        PROVE  Enqueued(u)' <= Allowed(u)'
    <3>1. firsts[u] \in Nat /\ ends \in Nat
      BY DEF TypeOK
    <3>2. firsts[u] + Cardinality(Owing(u)) + Count(RequestOwes(u))
             <= Count(u \in callbacks) + ends
      BY DEF SeriesInv
    <3>3. Cardinality(Owing(u)) \in Nat /\ Cardinality(Owing(u)') = Cardinality(Owing(u))
      BY <1>2, OwingNat
    <3>5. /\ Count(RequestOwes(u)) \in 0..1 /\ Count(RequestOwes(u)') \in 0..1
          /\ Count(u \in callbacks) \in 0..1 /\ Count(u \in callbacks') \in 0..1
          /\ Count(RequestOwes(u)') + Count(u \in callbacks)
                <= Count(RequestOwes(u)) + Count(u \in callbacks')
      BY <2>1, <2>3 DEF Count
    <3>6. firsts[u] + Cardinality(Owing(u)') + Count(RequestOwes(u)')
             <= Count(u \in callbacks') + ends
      BY <3>1, <3>2, <3>3, <3>5
    <3> QED BY <1>1, <2>1, <3>6 DEF Enqueued, Allowed
  <2> QED BY <2>4 DEF SeriesInv, Enqueued, Allowed
<1>5. CASE NotifyNow(q)
  <2>1. UNCHANGED <<callbacks, url>> /\ url[q] \in Urls /\ EnqueueFirst(url[q])
    BY <1>5 DEF NotifyNow, TypeOK
  <2>2. \A p \in Requests : pc'[p] = "notify" <=> pc[p] = "notify" /\ p # q
    BY <1>5 DEF NotifyNow, TypeOK
  <2>3. pc[q] = "notify"
    BY <1>5 DEF NotifyNow
  <2>4. \A u \in Urls : RequestOwes(u)' <=> RequestOwes(u) /\ u # url[q]
    BY <2>1, <2>2, <2>3 DEF RequestOwes, OneNotifier
  <2>5. RequestOwes(url[q])
    BY <2>3 DEF RequestOwes
  <2>6. ASSUME NEW u \in Urls
        PROVE  Enqueued(u)' <= Allowed(u)'
    <3>1. firsts[u] \in Nat /\ ends \in Nat
      BY DEF TypeOK
    <3>2. firsts[u] + Cardinality(Owing(u)) + Count(RequestOwes(u))
             <= Count(u \in callbacks) + ends
      BY DEF SeriesInv
    <3>3. Cardinality(Owing(u)) \in Nat /\ Cardinality(Owing(u)') = Cardinality(Owing(u))
      BY <1>2, OwingNat
    <3>4. Count(u \in callbacks) \in 0..1
      BY DEF Count
    <3>5. firsts'[u] = IF u = url[q] THEN firsts[u] + 1 ELSE firsts[u]
      BY <2>1, EnqueueFirsts
    <3>6. firsts'[u] + Count(RequestOwes(u)') = firsts[u] + Count(RequestOwes(u))
      BY <2>4, <2>5, <3>1, <3>5 DEF Count
    <3>7. Count(RequestOwes(u)) \in 0..1 /\ Count(RequestOwes(u)') \in 0..1
      BY DEF Count
    <3>8. firsts'[u] + Cardinality(Owing(u)') + Count(RequestOwes(u)')
             <= Count(u \in callbacks) + ends
      BY <3>1, <3>2, <3>3, <3>4, <3>5, <3>6, <3>7
    <3> QED BY <1>1, <2>1, <3>8 DEF Enqueued, Allowed
  <2> QED BY <2>6 DEF SeriesInv, Enqueued, Allowed
<1> QED BY <1>3, <1>4, <1>5 DEF RequestStep

\* A run owes each URL one series from its final save on, or from the failure of
\* that save, until it has enqueued it.
LEMMA SeriesRun ==
    ASSUME TypeOK, SeriesInv, NEW w \in Runs, RunsStep(w)
    PROVE  SeriesInv'
<1>1. UNCHANGED <<callbacks, pc, url>>
  BY RunsLeave
<1>2. \A u \in Urls : RequestOwes(u)' <=> RequestOwes(u)
  BY <1>1 DEF RequestOwes
<1>3. CASE \/ Resubmit(w) \/ RunFetch(w) \/ RunMark(w) \/ RunMarkRefused(w) \/ RunRead(w)
           \/ RunCrash(w) \/ (RunEnqueue(w) /\ todo[w] = {})
  <2>1. UNCHANGED <<firsts, ends>>
    BY <1>3 DEF Resubmit, RunFetch, RunMark, RunMarkRefused, RunRead, RunCrash, RunEnqueue
  <2>2. \A v \in Runs : v # w => run'[v] = run[v] /\ todo'[v] = todo[v]
    BY <1>3 DEF Resubmit, RunFetch, RunMark, RunMarkRefused, RunRead, RunCrash, RunEnqueue,
                TypeOK
  <2>3. /\ run'[w] # "finally"
        /\ run'[w] = "enqueue" => run[w] = "finally"
    BY <1>3 DEF Resubmit, RunFetch, RunMark, RunMarkRefused, RunRead, RunCrash, RunEnqueue,
                TypeOK
  <2>4. \A u \in Urls : Owing(u)' \subseteq Owing(u)
    BY <2>2, <2>3 DEF Owing
  <2> QED BY <1>1, <1>2, <2>1, <2>4, SeriesKept
<1>4. CASE RunFinish(w) \/ RunFinishFault(w)
  <2>1. UNCHANGED <<firsts, todo>> /\ ends' = ends + 1
    BY <1>4 DEF RunFinish, RunFinishFault
  <2>2. \A v \in Runs : v # w => run'[v] = run[v]
    BY <1>4 DEF RunFinish, RunFinishFault, TypeOK
  <2>3. ASSUME NEW u \in Urls
        PROVE  Enqueued(u)' <= Allowed(u)'
    <3>1. firsts[u] \in Nat /\ ends \in Nat
      BY DEF TypeOK
    <3>2. firsts[u] + Cardinality(Owing(u)) + Count(RequestOwes(u))
             <= Count(u \in callbacks) + ends
      BY DEF SeriesInv
    <3>3. Count(RequestOwes(u)) \in 0..1 /\ Count(RequestOwes(u)') = Count(RequestOwes(u))
      BY <1>2 DEF Count
    <3>4. Owing(u)' \subseteq Owing(u) \cup {w}
      BY <2>1, <2>2 DEF Owing
    <3>5. /\ Cardinality(Owing(u)) \in Nat /\ Cardinality(Owing(u)') \in Nat
          /\ Cardinality(Owing(u)') <= Cardinality(Owing(u)) + 1
      BY <3>4, OwingNat, OneMoreRun
    <3>6. Count(u \in callbacks) \in 0..1
      BY DEF Count
    <3>7. firsts[u] + Cardinality(Owing(u)') + Count(RequestOwes(u)')
             <= Count(u \in callbacks) + (ends + 1)
      BY <3>1, <3>2, <3>3, <3>5, <3>6
    <3> QED BY <1>1, <2>1, <3>7 DEF Enqueued, Allowed
  <2> QED BY <2>3 DEF SeriesInv, Enqueued, Allowed
<1>5. ASSUME NEW v \in todo[w], RunEnqueue(w), EnqueueFirst(v),
             todo' = [todo EXCEPT ![w] = @ \ {v}], UNCHANGED run
      PROVE  SeriesInv'
  <2>1. run[w] = "enqueue" /\ UNCHANGED ends
    BY <1>5 DEF RunEnqueue
  <2>2. v \in Urls
    BY DEF TypeOK
  <2>3. \A x \in Runs : todo'[x] = IF x = w THEN todo[x] \ {v} ELSE todo[x]
    BY <1>5 DEF TypeOK
  <2>4. w \in Owing(v) /\ Owing(v)' = Owing(v) \ {w}
    BY <1>5, <2>1, <2>3 DEF Owing
  <2>5. \A u \in Urls : u # v => Owing(u)' = Owing(u)
    BY <1>5, <2>3 DEF Owing
  <2>6. Cardinality(Owing(v)') + 1 = Cardinality(Owing(v))
    BY <2>4, OwingNat, OneRunLess
  <2>7. ASSUME NEW u \in Urls
        PROVE  Enqueued(u)' <= Allowed(u)'
    <3>1. firsts[u] \in Nat /\ ends \in Nat
      BY DEF TypeOK
    <3>2. firsts[u] + Cardinality(Owing(u)) + Count(RequestOwes(u))
             <= Count(u \in callbacks) + ends
      BY DEF SeriesInv
    <3>3. Count(RequestOwes(u)) \in 0..1 /\ Count(RequestOwes(u)') = Count(RequestOwes(u))
      BY <1>2 DEF Count
    <3>4. Cardinality(Owing(u)) \in Nat /\ Cardinality(Owing(u)') \in Nat
      BY OwingNat
    <3>5. firsts'[u] = IF u = v THEN firsts[u] + 1 ELSE firsts[u]
      BY <1>5, <2>2, EnqueueFirsts
    <3>6. firsts'[u] + Cardinality(Owing(u)') = firsts[u] + Cardinality(Owing(u))
      BY <2>5, <2>6, <3>1, <3>4, <3>5
    <3>7. Count(u \in callbacks) \in 0..1
      BY DEF Count
    <3>8. firsts'[u] + Cardinality(Owing(u)') + Count(RequestOwes(u)')
             <= Count(u \in callbacks) + ends
      BY <3>1, <3>2, <3>3, <3>4, <3>5, <3>6, <3>7
    <3> QED BY <1>1, <2>1, <3>8 DEF Enqueued, Allowed
  <2> QED BY <2>7 DEF SeriesInv, Enqueued, Allowed
<1> QED BY <1>3, <1>4, <1>5 DEF RunsStep, RunStep, RunEnqueue

LEMMA SeriesStep == TypeOK /\ OneNotifier /\ SeriesInv /\ [Next]_vars => SeriesInv'
<1> SUFFICES ASSUME TypeOK, OneNotifier, SeriesInv, [Next]_vars
             PROVE  SeriesInv'
  OBVIOUS
<1>1. CASE UNCHANGED <<callbacks, pc, url, run, todo, ends, firsts>>
  BY <1>1, SeriesKept DEF Owing, RequestOwes
<1> QED BY <1>1, Steps, SeriesRequest, SeriesRun, SendsLeave, WorkerOnly

-----------------------------------------------------------------------------
\* The attempts of a series.

LEMMA OpenNat ==
    ASSUME TypeOK
    PROVE  \A t \in Task : /\ Copies(t, tasks) \in Nat /\ Copies(t, deferred) \in Nat
                           /\ UnderWay(t, sending) \in Nat /\ Open(t) \in Nat
                           /\ tries[t] \in Nat /\ t.url \in Urls /\ firsts[t.url] \in Nat
<1>1. \A t : Copies(t, tasks) \in Nat /\ Copies(t, deferred) \in Nat /\ Copies(t, sending) \in Nat
  BY BagFacts DEF TypeOK
<1>2. \A t \in Task : t.url \in Urls
  BY DEF Task
<1> QED BY <1>1, <1>2 DEF Open, UnderWay, TypeOK

LEMMA OpenNatNext ==
    ASSUME TypeOK'
    PROVE  \A t \in Task : /\ Copies(t, tasks') \in Nat /\ Copies(t, deferred') \in Nat
                           /\ UnderWay(t, sending') \in Nat /\ Open(t)' \in Nat
<1>1. \A t : /\ Copies(t, tasks') \in Nat /\ Copies(t, deferred') \in Nat
            /\ Copies(t, sending') \in Nat
  BY BagFacts DEF TypeOK
<1> QED BY <1>1 DEF Open, UnderWay

\* Moving a task along, or losing it, opens no attempt.
LEMMA AttemptsKept ==
    ASSUME TypeOK, TypeOK', AttemptInv, UNCHANGED <<tries, firsts>>,
           \A t \in Task : Open(t)' <= Open(t)
    PROVE  AttemptInv'
<1> SUFFICES ASSUME NEW t \in Task
             PROVE  /\ Open(t)' + tries[t] <= firsts[t.url]
                    /\ t.attempt > 1 => Open(t)' + tries[t]
                          <= tries[[url |-> t.url, attempt |-> t.attempt - 1]]
  BY DEF AttemptInv
<1>1. Open(t) \in Nat /\ Open(t)' \in Nat /\ tries[t] \in Nat /\ firsts[t.url] \in Nat
  BY OpenNat, OpenNatNext
<1>2. t.attempt > 1 => [url |-> t.url, attempt |-> t.attempt - 1] \in Task
  BY NotificationsAssumption DEF Task
<1>3. t.attempt > 1 => tries[[url |-> t.url, attempt |-> t.attempt - 1]] \in Nat
  BY <1>2, OpenNat
<1>4. Open(t)' <= Open(t)
  OBVIOUS
<1>5. Open(t) + tries[t] <= firsts[t.url]
  BY DEF AttemptInv
<1>6. t.attempt > 1 => Open(t) + tries[t]
                          <= tries[[url |-> t.url, attempt |-> t.attempt - 1]]
  BY DEF AttemptInv
<1> QED BY <1>1, <1>3, <1>4, <1>5, <1>6

\* A first attempt is enqueued with its series.
LEMMA AttemptEnqueue ==
    ASSUME TypeOK, TypeOK', AttemptInv, NEW u \in Urls, EnqueueFirst(u),
           UNCHANGED <<tries, deferred, sending>>
    PROVE  AttemptInv'
<1> DEFINE n == [url |-> u, attempt |-> 1]
<1>1. n \in Task
  BY NotificationsAssumption DEF Task
<1>2. \A e : Copies(e, tasks') = IF e = n THEN Copies(e, tasks) + 1 ELSE Copies(e, tasks)
  BY BagAdd DEF TypeOK, EnqueueFirst
<1> SUFFICES ASSUME NEW t \in Task
             PROVE  /\ Open(t)' + tries[t] <= firsts'[t.url]
                    /\ t.attempt > 1 => Open(t)' + tries[t]
                          <= tries[[url |-> t.url, attempt |-> t.attempt - 1]]
  BY DEF AttemptInv
<1>3. /\ Copies(t, tasks) \in Nat /\ Copies(t, deferred) \in Nat
      /\ UnderWay(t, sending) \in Nat /\ tries[t] \in Nat /\ firsts[t.url] \in Nat
  BY OpenNat
<1>4. t.url \in Urls /\ t.attempt \in Nat /\ (t = n => t.url = u /\ t.attempt = 1)
  BY DEF Task
<1>5. firsts'[t.url] = IF t.url = u THEN firsts[t.url] + 1 ELSE firsts[t.url]
  BY <1>4, EnqueueFirsts
<1>6. Open(t)' = IF t = n THEN Open(t) + 1 ELSE Open(t)
  BY <1>2, <1>3 DEF Open
<1>7. Open(t) \in Nat
  BY OpenNat
<1>8. Open(t) + tries[t] <= firsts[t.url]
  BY DEF AttemptInv
<1>9. t.attempt > 1 => Open(t) + tries[t]
                          <= tries[[url |-> t.url, attempt |-> t.attempt - 1]]
  BY DEF AttemptInv
<1>10. Open(t)' + tries[t] <= firsts'[t.url]
  <2>1. CASE t = n
    <3>1. firsts'[t.url] = firsts[t.url] + 1 /\ Open(t)' = Open(t) + 1
      BY <2>1, <1>4, <1>5, <1>6
    <3> QED BY <1>3, <1>7, <1>8, <3>1
  <2>2. CASE t # n
    <3>1. firsts'[t.url] \in {firsts[t.url], firsts[t.url] + 1} /\ Open(t)' = Open(t)
      BY <2>2, <1>5, <1>6
    <3> QED BY <1>3, <1>7, <1>8, <3>1
  <2> QED BY <2>1, <2>2
<1>11. t.attempt > 1 => t # n
  BY <1>4
<1> QED BY <1>6, <1>9, <1>10, <1>11

\* A try takes the attempt out of what is under way and counts it; the next
\* attempt, if there is one, is opened by that try alone.
LEMMA AttemptTried ==
    ASSUME TypeOK, TypeOK', AttemptInv, NEW s \in BagToSet(sending),
           sending' = sending (-) One(s), tries' = [tries EXCEPT ![s.task] = @ + 1],
           UNCHANGED <<tasks, firsts>>,
           \/ UNCHANGED deferred
           \/ /\ ~IsLast(s.task.attempt)
              /\ deferred' = deferred (+) One([s.task EXCEPT !.attempt = @ + 1])
    PROVE  AttemptInv'
<1> DEFINE k == s.task
           n == [url |-> k.url, attempt |-> k.attempt + 1]
           before(t) == [url |-> t.url, attempt |-> t.attempt - 1]
<1>1. s \in [task: Task, reports: Statuses] /\ k \in Task /\ s \in DOMAIN sending
  BY DEF TypeOK, BagToSet
<1>2. /\ UnderWay(k, sending) > 0
      /\ \A t \in Task : UnderWay(t, sending') = IF t = k THEN UnderWay(t, sending) - 1
                                                          ELSE UnderWay(t, sending)
  BY <1>1, NoticeDrop DEF TypeOK
<1>3. \A t \in Task : tries'[t] = IF t = k THEN tries[t] + 1 ELSE tries[t]
  BY <1>1 DEF TypeOK
<1>4. \A t \in Task : t.attempt > 1 => before(t) \in Task
  BY NotificationsAssumption DEF Task
<1>5. \A t \in Task : Copies(t, deferred') = Copies(t, deferred)
                      \/ (t = n /\ Copies(t, deferred') = Copies(t, deferred) + 1)
  <2>1. CASE UNCHANGED deferred
    BY <2>1
  <2>2. CASE ~IsLast(k.attempt) /\ deferred' = deferred (+) One([s.task EXCEPT !.attempt = @ + 1])
    <3>1. deferred' = deferred (+) One(n) /\ IsABag(deferred)
      BY <1>1, <2>2, NextAttempt DEF TypeOK
    <3> HIDE DEF n
    <3> QED BY <3>1, BagAdd
  <2> QED BY <2>1, <2>2
<1>6. n.url = k.url /\ n.attempt = k.attempt + 1 /\ k.attempt \in Nat /\ k.attempt >= 1
      /\ n # k /\ k = before(n)
  BY <1>1, NotificationsAssumption DEF Task
<1> HIDE DEF k, n
<1> SUFFICES ASSUME NEW t \in Task
             PROVE  /\ Open(t)' + tries'[t] <= firsts[t.url]
                    /\ t.attempt > 1 => Open(t)' + tries'[t] <= tries'[before(t)]
  BY DEF AttemptInv
<1>7. /\ Copies(t, tasks) \in Nat /\ Copies(t, deferred) \in Nat
      /\ UnderWay(t, sending) \in Nat /\ tries[t] \in Nat /\ firsts[t.url] \in Nat
      /\ Open(t) \in Nat
      /\ Open(k) \in Nat /\ tries[k] \in Nat /\ firsts[k.url] \in Nat
  BY <1>1, OpenNat
<1>8. /\ Open(t) + tries[t] <= firsts[t.url]
      /\ t.attempt > 1 => Open(t) + tries[t] <= tries[before(t)]
  BY DEF AttemptInv
<1>9. t.attempt > 1 => /\ tries[before(t)] \in Nat
                       /\ tries'[before(t)] \in Nat /\ tries'[before(t)] >= tries[before(t)]
  <2>1. t.attempt > 1 => before(t) \in Task /\ tries[before(t)] \in Nat
    BY <1>4, OpenNat
  <2> QED BY <1>3, <2>1
<1> HIDE DEF before
<1>10. CASE Copies(t, deferred') = Copies(t, deferred)
  <2>1. Open(t)' + tries'[t] = Open(t) + tries[t]
    BY <1>2, <1>3, <1>7, <1>10 DEF Open
  <2>2. Open(t)' + tries'[t] <= firsts[t.url]
    BY <1>8, <2>1
  <2>3. ASSUME t.attempt > 1
        PROVE  Open(t)' + tries'[t] <= tries'[before(t)]
    BY <1>7, <1>8, <1>9, <2>1, <2>3
  <2> QED BY <2>2, <2>3
<1>11. CASE t = n /\ Copies(t, deferred') = Copies(t, deferred) + 1
  <2>1. t # k /\ t.url = k.url /\ t.attempt > 1 /\ before(t) = k
    BY <1>6, <1>11
  <2>2. Open(t)' = Open(t) + 1 /\ tries'[t] = tries[t] /\ tries'[k] = tries[k] + 1
    BY <1>1, <1>2, <1>3, <1>7, <1>11, <2>1 DEF Open
  <2>3. Open(t) + tries[t] <= tries[k]
    BY <1>8, <2>1
  <2>4. Open(k) >= 1
    <3>1. /\ Copies(k, tasks) \in Nat /\ Copies(k, deferred) \in Nat
          /\ UnderWay(k, sending) \in Nat
      BY <1>1, OpenNat
    <3> QED BY <1>2, <3>1 DEF Open
  <2>5. Open(k) + tries[k] <= firsts[k.url]
    BY <1>1 DEF AttemptInv
  <2>6. Open(t)' + tries'[t] <= firsts[k.url]
    BY <1>7, <2>2, <2>3, <2>4, <2>5
  <2>7. Open(t)' + tries'[t] <= tries'[k]
    BY <1>7, <2>2, <2>3
  <2> QED BY <2>1, <2>6, <2>7
<1> QED BY <1>5, <1>10, <1>11

LEMMA AttemptStep == TypeOK /\ AttemptInv /\ [Next]_vars => AttemptInv'
<1> SUFFICES ASSUME TypeOK, AttemptInv, [Next]_vars
             PROVE  AttemptInv'
  OBVIOUS
<1>0. TypeOK'
  BY TypeStep
<1>1. CASE UNCHANGED <<tasks, deferred, sending, firsts, tries>>
  BY <1>1 DEF AttemptInv, Open
<1>2. ASSUME NEW q \in Requests, NotifyNow(q)
      PROVE  AttemptInv'
  <2>1. /\ EnqueueFirst(url[q]) /\ url[q] \in Urls
        /\ UNCHANGED <<tries, deferred, sending>>
    BY <1>2 DEF NotifyNow, TypeOK, sendVars
  <2> QED BY <1>0, <2>1, AttemptEnqueue
<1>3. ASSUME NEW w \in Runs, RunEnqueue(w)
      PROVE  AttemptInv'
  <2>1. UNCHANGED <<tries, deferred, sending>>
    BY <1>3 DEF RunEnqueue, sendVars
  <2>2. ASSUME NEW u \in todo[w], EnqueueFirst(u)
        PROVE  AttemptInv'
    <3>1. u \in Urls
      BY DEF TypeOK
    <3> QED BY <1>0, <2>1, <2>2, <3>1, AttemptEnqueue
  <2> QED BY <1>1, <1>3, <2>1, <2>2 DEF RunEnqueue
<1>4. CASE BecomesDue
  <2>1. PICK x \in BagToSet(deferred) :
          deferred' = deferred (-) One(x) /\ tasks' = tasks (+) One(x)
    BY <1>4 DEF BecomesDue
  <2>2. UNCHANGED <<sending, tries, firsts>>
    BY <1>4 DEF BecomesDue, sendVars
  <2>3. IsABag(tasks) /\ IsABag(deferred) /\ x \in DOMAIN deferred
    BY DEF TypeOK, BagToSet
  <2>4. \A e : Copies(e, tasks') = IF e = x THEN Copies(e, tasks) + 1 ELSE Copies(e, tasks)
    BY <2>1, <2>3, BagAdd
  <2>5. \A e : Copies(e, deferred') =
                 IF e = x THEN Copies(e, deferred) - 1 ELSE Copies(e, deferred)
    BY <2>1, <2>3, BagDrop
  <2>6. \A t \in Task : Open(t)' <= Open(t)
    BY <2>2, <2>4, <2>5, OpenNat DEF Open
  <2> QED BY <1>0, <2>2, <2>6, AttemptsKept
<1>5. CASE TakeTask
  <2>1. PICK x \in BagToSet(tasks) :
          tasks' = tasks (-) One(x) /\ sending' = sending (+) One(Notice(x, status))
    BY <1>5 DEF TakeTask, Notice
  <2>2. UNCHANGED <<deferred, tries, firsts>>
    BY <1>5 DEF TakeTask
  <2>3. /\ IsABag(tasks) /\ IsABag(sending) /\ x \in DOMAIN tasks /\ x \in Task
        /\ status \in Statuses
    BY DEF TypeOK, BagToSet
  <2>4. \A e : Copies(e, tasks') = IF e = x THEN Copies(e, tasks) - 1 ELSE Copies(e, tasks)
    BY <2>1, <2>3, BagDrop
  <2>5. \A t \in Task : UnderWay(t, sending') =
                          IF t = x THEN UnderWay(t, sending) + 1 ELSE UnderWay(t, sending)
    BY <2>1, <2>3, NoticeAdd
  <2>6. \A t \in Task : Open(t)' <= Open(t)
    BY <2>2, <2>4, <2>5, OpenNat DEF Open
  <2> QED BY <1>0, <2>2, <2>6, AttemptsKept
<1>6. CASE Deliver
  BY <1>0, <1>6, AttemptTried DEF Deliver, queueVars
<1>7. CASE DeliveryFails
  BY <1>0, <1>7, AttemptTried DEF DeliveryFails
<1>8. CASE SenderDies
  <2>1. PICK s \in BagToSet(sending) : sending' = sending (-) One(s)
    BY <1>8 DEF SenderDies
  <2>2. UNCHANGED <<tasks, deferred, tries, firsts>>
    BY <1>8 DEF SenderDies
  <2>3. IsABag(sending) /\ s \in DOMAIN sending /\ s \in [task: Task, reports: Statuses]
    BY DEF TypeOK, BagToSet
  <2>4. \A t \in Task : UnderWay(t, sending') =
                          IF t = s.task THEN UnderWay(t, sending) - 1 ELSE UnderWay(t, sending)
    BY <2>1, <2>3, NoticeDrop
  <2>5. \A t \in Task : Open(t)' <= Open(t)
    BY <2>2, <2>4, OpenNat DEF Open
  <2> QED BY <1>0, <2>2, <2>5, AttemptsKept
<1>9. \/ UNCHANGED <<tasks, deferred, sending, firsts, tries>>
      \/ \E q \in Requests : NotifyNow(q)
      \/ \E w \in Runs : RunEnqueue(w)
      \/ BecomesDue \/ TakeTask \/ SendStep \/ SenderDies
  <2>1. ASSUME NEW q \in Requests, Look(q) \/ RequestStep(q) \/ RequestCrash(q)
        PROVE  UNCHANGED <<tasks, deferred, sending, firsts, tries>> \/ NotifyNow(q)
    BY <2>1 DEF Look, RequestStep, Register, RequestCrash, queueVars, sendVars
  <2>2. ASSUME NEW w \in Runs, RunsStep(w)
        PROVE  UNCHANGED <<tasks, deferred, sending, firsts, tries>> \/ RunEnqueue(w)
    BY <2>2 DEF RunsStep, RunStep, Resubmit, RunFetch, RunMark, RunMarkRefused, RunFinish,
                RunRead, RunFinishFault, RunCrash, queueVars, sendVars
  <2> QED BY <2>1, <2>2, Steps, WorkerOnly
<1> QED BY <1>1, <1>2, <1>3, <1>4, <1>5, <1>6, <1>7, <1>8, <1>9 DEF SendStep

-----------------------------------------------------------------------------
\* The theorems.

LEMMA NotifyInit == Init => NotifyInv
<1> SUFFICES ASSUME Init
             PROVE  NotifyInv
  OBVIOUS
<1>1. TypeOK
  BY TypeInit
<1>2. /\ OneNotifier /\ NothingEarly
      /\ \A u \in Urls : Owing(u) = {} /\ ~RequestOwes(u)
  BY BagNone DEF Init, OneNotifier, NothingEarly, RunsAreLate, QueueIsLate,
                 SendsAreLate, BagToSet, Owing, RequestOwes
<1>5. OneRun
  <2>1. \A w \in Runs : run[w] \in {"idle", "absent"}
    BY DEF Init
  <2>2. ends = 0 /\ faults = 0 /\ status = "unfinished"
    BY DEF Init
  <2>3. \A w \in Runs : w \notin Trying
    BY <2>1 DEF Trying
  <2>4. ends <= faults + Count(status = "finished")
    BY <2>2 DEF Count
  <2> QED BY <2>3, <2>4 DEF OneRun
<1>3. SeriesInv
  <2>1. \A u \in Urls : firsts[u] = 0 /\ u \notin callbacks
    BY DEF Init
  <2>2. Cardinality({}) = 0 /\ ends = 0
    BY FS_EmptySet DEF Init
  <2> QED BY <1>2, <2>1, <2>2 DEF SeriesInv, Count
<1>4. AttemptInv
  <2>1. \A t \in Task : Open(t) = 0 /\ tries[t] = 0
    BY BagNone DEF Init, Open, UnderWay
  <2>2. \A t \in Task : t.url \in Urls /\ firsts[t.url] = 0
    BY DEF Init, Task
  <2>3. \A t \in Task : t.attempt > 1 => [url |-> t.url, attempt |-> t.attempt - 1] \in Task
    BY NotificationsAssumption DEF Task
  <2>4. \A t \in Task : t.attempt > 1 =>
                         tries[[url |-> t.url, attempt |-> t.attempt - 1]] = 0
    BY <2>1, <2>3
  <2>5. 0 + 0 <= 0
    OBVIOUS
  <2> QED BY <2>1, <2>2, <2>4, <2>5, Zenon DEF AttemptInv
<1> QED BY <1>1, <1>2, <1>3, <1>4, <1>5 DEF NotifyInv

LEMMA NotifyStep == NotifyInv /\ [Next]_vars => NotifyInv'
BY TypeStep, OneRunStep, OneNotifierStep, NothingEarlyStep, SeriesStep, AttemptStep
   DEF NotifyInv

LEMMA NotifyAlways == Spec => []NotifyInv
BY NotifyInit, NotifyStep, PTL DEF Spec

\* While every final save succeeds and no overlapping delivery marks the finished
\* attempt running again, no subscriber is ever told about an unfinished attempt,
\* however late registrations, retries, deliveries and kills interleave:
\* process_remediation's finally clause enqueues after the final save, and the view
\* notifies only by a copy of the row that says "finished".
THEOREM OnlyFinishedIsReported == Spec => []ReportsFinished
<1>1. NotifyInv => ReportsFinished
  BY DEF NotifyInv, NothingEarly, ReportsFinished
<1> QED BY <1>1, NotifyAlways, PTL

\* No URL is sent more than the series of the request that registered it and one
\* per delivery that came to its finally clause; if deliveries never overlapped
\* these are the one that finished the attempt and the failed final saves.  No
\* series makes an attempt twice or one past MAX_WEBHOOK_ATTEMPTS
\* (register_callback, process_remediation's early return and finally clause,
\* send_webhook_notification's retries).
THEOREM NoticesStayBounded == Spec => []NoticesBounded
<1>1. NotifyInv => NoticesBounded
  <2> SUFFICES ASSUME NotifyInv
               PROVE  NoticesBounded
    OBVIOUS
  <2>1. ASSUME NEW u \in Urls
        PROVE  firsts[u] <= 1 + ends /\ (~overlapped => firsts[u] <= 2 + faults)
    <3>1. firsts[u] \in Nat /\ faults \in Nat /\ ends \in Nat
      BY DEF NotifyInv, TypeOK
    <3>2. /\ Cardinality(Owing(u)) \in Nat /\ Count(RequestOwes(u)) \in 0..1
          /\ Count(u \in callbacks) \in 0..1 /\ Count(status = "finished") \in 0..1
      BY OwingNat DEF Count
    <3>3. firsts[u] + Cardinality(Owing(u)) + Count(RequestOwes(u))
             <= Count(u \in callbacks) + ends
      BY DEF NotifyInv, SeriesInv
    <3>4. ~overlapped => ends <= faults + Count(status = "finished")
      BY DEF NotifyInv, OneRun
    <3> QED BY <3>1, <3>2, <3>3, <3>4
  <2>2. ASSUME NEW t \in Task
        PROVE  tries[t] <= firsts[t.url]
    <3>1. Open(t) \in Nat /\ tries[t] \in Nat /\ firsts[t.url] \in Nat
      BY OpenNat DEF NotifyInv
    <3>2. Open(t) + tries[t] <= firsts[t.url]
      BY DEF NotifyInv, AttemptInv
    <3> QED BY <3>1, <3>2
  <2> QED BY <2>1, <2>2 DEF NoticesBounded, AtMostTwoSeries, AttemptsBounded, NotifyInv
<1> QED BY <1>1, NotifyAlways, PTL
=============================================================================
