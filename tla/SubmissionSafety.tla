-------------------------- MODULE SubmissionSafety --------------------------
(***************************************************************************)
(* Theorems about Submission: type correctness, and what the constraint,   *)
(* the account's lock and the two looks guarantee together, proved for     *)
(* every set of accounts, documents and requests, every limit, every       *)
(* period and every clock.                                                 *)
(***************************************************************************)
EXTENDS Submission, FiniteSetTheorems, TLAPS

-----------------------------------------------------------------------------
\* Typing.

LEMMA BlankTypes == BlankUpload \in Upload /\ BlankRow \in Row
<1>1. BlankUpload \in Upload
  BY NonEmptyAssumption, TimesAssumption DEF BlankUpload, Upload
<1>2. BlankRow \in Row
  BY <1>1 DEF BlankRow, NewRow, Row, Upload, Null, JobStatus,
              UNFINISHED_STATUSES
<1> QED BY <1>1, <1>2

LEMMA RowTypes ==
    ASSUME NEW x \in Row, NEW t \in Int
    PROVE  /\ mark_running(x, t) \in Row
           /\ mark_enqueued(x, t) \in Row
           /\ \A s \in JobStatus : mark_finished(x, s) \in Row
BY DEF Row, JobStatus, UNFINISHED_STATUSES, mark_running, mark_enqueued,
       mark_finished

LEMMA CounterTypes ==
    ASSUME NEW f \in [Requests -> Nat], NEW r \in Requests
    PROVE  /\ [f EXCEPT ![r] = @ + 1] \in [Requests -> Nat]
           /\ f[r] > 0 => [f EXCEPT ![r] = @ - 1] \in [Requests -> Nat]
OBVIOUS

LEMMA NewRowType ==
    ASSUME NEW u \in Upload, NEW t \in Nat
    PROVE  NewRow(u, t) \in Row
<1>1. u.acct \in Accounts /\ u.doc \in Docs /\ u.name \in Names
      /\ u.version \in 1..MaxVersion
  BY DEF Upload
<1>2. "queued" \in JobStatus /\ Null \in Int /\ t \in Int
  BY DEF JobStatus, UNFINISHED_STATUSES, Null
<1> QED BY <1>1, <1>2 DEF NewRow, Row

LEMMA TypeInit == Init => TypeOK
BY BlankTypes, TimesAssumption DEF Init, TypeOK, PCs

LEMMA TypeStep == TypeOK /\ [Next]_vars => TypeOK'
<1> SUFFICES ASSUME TypeOK, [Next]_vars PROVE TypeOK'
  OBVIOUS
<1> USE DEF requestVars, jobVars, workerVars, configVars
<1>a. now \in Nat /\ remediation \in [Requests -> Row]
  BY DEF TypeOK
<1>b. /\ ready \in [Requests -> Nat]
      /\ fetched \in [Requests -> Nat]
      /\ running \in [Requests -> Nat]
  BY DEF TypeOK
<1>1. ASSUME NEW q \in Requests, Arrive(q) PROVE TypeOK'
  BY <1>1 DEF Arrive, Goto, Upload, PCs, TypeOK
<1>2. ASSUME NEW q \in Requests, NEW r \in Requests, Reuse(q, r)
      PROVE /\ pc' \in [Requests -> PCs]
            /\ att' \in [Requests -> Requests]
            /\ seen' \in [Requests -> Row]
            /\ locks' \subseteq Requests
            /\ UNCHANGED <<upload, basis>>
  BY <1>2 DEF Reuse, Goto, Unlock, PCs, TypeOK
<1>3. \A u : reusable_attempt(u) \subseteq Requests
             /\ latest_for_document(u.acct, u.doc) \subseteq Requests
  BY DEF reusable_attempt, latest_for_document, OfDocument, TypeOK
<1>4. ASSUME NEW q \in Requests, FirstLook(q) PROVE TypeOK'
  BY <1>2, <1>3, <1>4 DEF FirstLook, Goto, PCs, InTransaction, TypeOK
<1>5. ASSUME NEW q \in Requests, Check(q) PROVE TypeOK'
  BY <1>5 DEF Check, Goto, PCs, InTransaction, Answered, TypeOK
<1>6. ASSUME NEW q \in Requests, SecondLook(q) PROVE TypeOK'
  <2>1. CASE \E r \in reusable_attempt(upload[q]) : Reuse(q, r)
    BY <1>2, <1>3, <1>6, <2>1 DEF SecondLook, TypeOK
  <2>2. CASE /\ Goto(q, "store")
             /\ basis' = [basis EXCEPT ![q] =
                    latest_for_document(upload[q].acct, upload[q].doc)]
             /\ UNCHANGED <<upload, att, seen, locks>>
    <3>1. latest_for_document(upload[q].acct, upload[q].doc) \in SUBSET Requests
      BY <1>3 DEF TypeOK
    <3>2. basis' \in [Requests -> SUBSET Requests]
      BY <2>2, <3>1 DEF TypeOK
    <3>3. pc' \in [Requests -> PCs]
      BY <2>2 DEF Goto, PCs, InTransaction, TypeOK
    <3> QED BY <1>6, <2>2, <3>2, <3>3 DEF SecondLook, TypeOK
  <2> QED BY <1>6, <2>1, <2>2 DEF SecondLook, TypeOK
<1>7. ASSUME NEW q \in Requests, StoreOriginal(q) PROVE TypeOK'
  BY <1>7 DEF StoreOriginal, OriginalPath, Goto, PCs, InTransaction, Upload, TypeOK
<1>8. ASSUME NEW q \in Requests, Create(q) PROVE TypeOK'
  <2>1. NewRow(upload[q], now) \in Row
    BY NewRowType DEF TypeOK
  <2>2. pc' \in [Requests -> PCs]
    BY <1>8 DEF Create, Goto, PCs, InTransaction, TypeOK
  <2>3. \/ UNCHANGED <<now, remediation>>
        \/ /\ remediation' = [remediation EXCEPT ![q] = NewRow(upload[q], now)]
           /\ now' = now + 1
    BY <1>8 DEF Create, TypeOK
  <2>4. UNCHANGED <<upload, att, seen, basis, locks, rows, workerVars,
                    configVars, originals, claims, crashes>>
    BY <1>8 DEF Create, TypeOK
  <2>5. remediation' \in [Requests -> Row] /\ now' \in Nat
    BY <1>a, <2>1, <2>3
  <2> QED BY <2>2, <2>4, <2>5 DEF TypeOK
<1>9. ASSUME NEW q \in Requests, HandleClash(q) PROVE TypeOK'
  BY <1>2, <1>3, <1>9 DEF HandleClash, Goto, Unlock, PCs, Answered, TypeOK
<1>10. ASSUME NEW q \in Requests, Commit(q) PROVE TypeOK'
  BY <1>10 DEF Commit, Goto, Unlock, PCs, TypeOK
<1>12. ASSUME NEW q \in Requests, ClaimEnqueue(q) PROVE TypeOK'
  <2>1. att[q] \in Requests
    BY DEF TypeOK
  <2>2. [claims EXCEPT ![att[q]] = Append(@, now)] \in [Requests -> Seq(Nat)]
    BY DEF TypeOK
  <2>3. mark_enqueued(remediation[att[q]], now) \in Row
    BY <2>1, RowTypes DEF TypeOK
  <2>4. pc' \in [Requests -> PCs]
    BY <1>12 DEF ClaimEnqueue, Goto, PCs, Answered, TypeOK
  <2>5. \/ UNCHANGED <<remediation, claims>>
        \/ /\ remediation' = [remediation EXCEPT ![att[q]] =
                                  mark_enqueued(@, now)]
           /\ claims' = [claims EXCEPT ![att[q]] = Append(@, now)]
    BY <1>12 DEF ClaimEnqueue, TypeOK
  <2>6. UNCHANGED <<now, upload, att, seen, basis, locks, rows, workerVars,
                    configVars, originals, crashes>>
    BY <1>12 DEF ClaimEnqueue, TypeOK
  <2>7. remediation' \in [Requests -> Row]
    BY <1>a, <2>1, <2>3, <2>5
  <2>8. claims' \in [Requests -> Seq(Nat)]
    <3>1. claims \in [Requests -> Seq(Nat)]
      BY DEF TypeOK
    <3> QED BY <2>2, <2>5, <3>1
  <2> QED BY <2>4, <2>6, <2>7, <2>8 DEF TypeOK
<1>13. ASSUME NEW q \in Requests, Enqueue(q) PROVE TypeOK'
  BY <1>13 DEF Enqueue, Goto, PCs, Answered, TypeOK
<1>14. ASSUME NEW q \in Requests, RequestCrash(q) PROVE TypeOK'
  BY <1>14, BlankTypes DEF RequestCrash, Goto, Unlock, PCs, Answered, TypeOK
<1>15. ASSUME NEW q \in Requests, Resubmit(q) PROVE TypeOK'
  BY <1>15, BlankTypes DEF Resubmit, Goto, PCs, TypeOK
<1>16. ASSUME NEW r \in Requests, WorkerFetch(r) PROVE TypeOK'
  <2>1. ready' \in [Requests -> Nat] /\ fetched' \in [Requests -> Nat]
    BY <1>16, <1>b, CounterTypes DEF WorkerFetch
  <2>2. UNCHANGED <<now, requestVars, jobVars, running, configVars, originals,
                    claims, crashes>>
    BY <1>16 DEF WorkerFetch
  <2> QED BY <2>1, <2>2 DEF TypeOK
<1>17. ASSUME NEW r \in Requests, WorkerMark(r) PROVE TypeOK'
  <2>1. mark_running(remediation[r], now) \in Row
    BY RowTypes DEF TypeOK
  <2>2. fetched' \in [Requests -> Nat] /\ running' \in [Requests -> Nat]
    BY <1>17, <1>b, CounterTypes DEF WorkerMark
  <2>3. remediation' \in [Requests -> Row]
    BY <1>17, <1>a, <2>1 DEF WorkerMark
  <2>4. UNCHANGED <<now, requestVars, rows, ready, configVars, originals,
                    claims, crashes>>
    BY <1>17 DEF WorkerMark
  <2> QED BY <2>2, <2>3, <2>4 DEF TypeOK
<1>18. ASSUME NEW r \in Requests, WorkerFinish(r) PROVE TypeOK'
  <2>1. \A s \in Outcomes : mark_finished(remediation[r], s) \in Row
    BY OutcomesAssumption, RowTypes DEF JobStatus, TypeOK
  <2> QED BY <1>18, <2>1, CounterTypes DEF WorkerFinish, TypeOK
<1>19. ASSUME NEW r \in Requests, WorkerDie(r) PROVE TypeOK'
  <2>1. fetched' \in [Requests -> Nat] /\ running' \in [Requests -> Nat]
    BY <1>19, <1>b, CounterTypes DEF WorkerDie
  <2>2. UNCHANGED <<now, requestVars, jobVars, ready, configVars, originals,
                    claims>> /\ crashes' \in Nat
    BY <1>19 DEF WorkerDie, TypeOK
  <2> QED BY <2>1, <2>2 DEF TypeOK
<1>20. CASE Tick
  BY <1>20 DEF Tick, TypeOK
<1>21. CASE Deploy
  BY <1>21, TimesAssumption DEF Deploy, TypeOK
<1>22. CASE SetRetryFloor
  <2>1. \A r \in rows : remediation[r].version \in 0..MaxVersion
    BY TimesAssumption DEF Row, TypeOK
  <2> QED BY <1>22, <2>1, TimesAssumption DEF SetRetryFloor, TypeOK
<1>23. CASE UNCHANGED vars
  BY <1>23 DEF vars, TypeOK
<1> QED
  BY <1>1, <1>4, <1>5, <1>6, <1>7, <1>8, <1>9, <1>10, <1>12, <1>13, <1>14,
     <1>15, <1>16, <1>17, <1>18, <1>19, <1>20, <1>21, <1>22, <1>23
  DEF Next, RequestStep, WorkerStep

\* Every column, counter and in-memory copy keeps its type in every behaviour of
\* the submit endpoint and its workers.
THEOREM TypeCorrect == Spec => []TypeOK
BY TypeInit, TypeStep, PTL DEF Spec

-----------------------------------------------------------------------------
\* The inductive invariant.

\* A committed attempt's request is past its transaction, a request past it
\* holds a committed attempt, and tasks and runs are of committed attempts.
Shape ==
    /\ \A q \in rows : pc[q] \in {"claim", "enqueue"} \cup Answered
    /\ \A q \in Requests : pc[q] \in {"claim", "enqueue"} => att[q] \in rows
    /\ \A r \in Requests :
          ready[r] > 0 \/ fetched[r] > 0 \/ running[r] > 0 => r \in rows

\* An inserted row that is not committed yet is the request's, and no other row
\* of its document, committed or not, is unfinished.
PendingIsAlone ==
    \A q \in Requests : pc[q] = "commit" =>
        /\ remediation[q].acct = upload[q].acct
        /\ remediation[q].doc = upload[q].doc
        /\ UnfinishedRivals(q, upload[q].acct, upload[q].doc) = {}
        /\ PendingRivals(q, upload[q].acct, upload[q].doc) = {}

\* Past the check, a request of a limited account holds the account's lock,
\* and nobody else does.
Holding == {"relook", "store", "create", "clash"}
LockHeld ==
    /\ \A q \in locks : pc[q] \in Holding \cup {"commit"}
    /\ \A p, q \in locks : upload[p].acct = upload[q].acct => p = q
    /\ \A q \in Requests :
          (pc[q] \in Holding \cup {"commit"} /\ IsLimited(upload[q].acct))
          => q \in locks

-----------------------------------------------------------------------------
\* Columns.

LEMMA RunningFields ==
    ASSUME NEW x \in Row, NEW t \in Int
    PROVE  /\ mark_running(x, t).acct = x.acct
           /\ mark_running(x, t).doc = x.doc
           /\ mark_running(x, t).createdAt = x.createdAt
BY DEF Row, mark_running

LEMMA EnqueuedFields ==
    ASSUME NEW x \in Row, NEW t \in Int
    PROVE  /\ mark_enqueued(x, t).acct = x.acct
           /\ mark_enqueued(x, t).doc = x.doc
           /\ mark_enqueued(x, t).createdAt = x.createdAt
           /\ mark_enqueued(x, t).status = x.status
BY DEF Row, mark_enqueued

LEMMA FinishedFields ==
    ASSUME NEW x \in Row, NEW s \in JobStatus
    PROVE  /\ mark_finished(x, s).acct = x.acct
           /\ mark_finished(x, s).doc = x.doc
           /\ mark_finished(x, s).createdAt = x.createdAt
           /\ mark_finished(x, s).status = s
BY DEF Row, mark_finished

LEMMA NewRowFields ==
    ASSUME NEW u \in Upload, NEW t \in Nat
    PROVE  /\ NewRow(u, t).acct = u.acct
           /\ NewRow(u, t).doc = u.doc
           /\ NewRow(u, t).createdAt = t
           /\ NewRow(u, t).status = "queued"
BY DEF NewRow

-----------------------------------------------------------------------------
\* Shape.

LEMMA ShapeInit == Init => Shape
BY DEF Init, Shape

LEMMA ShapeStep == TypeOK /\ Shape /\ [Next]_vars => Shape'
<1> SUFFICES ASSUME TypeOK, Shape, [Next]_vars PROVE Shape'
  OBVIOUS
<1> USE DEF requestVars, jobVars, workerVars, configVars
<1>a. /\ rows \subseteq Requests
      /\ pc \in [Requests -> PCs]
      /\ att \in [Requests -> Requests]
      /\ ready \in [Requests -> Nat]
      /\ fetched \in [Requests -> Nat]
      /\ running \in [Requests -> Nat]
  BY DEF TypeOK
<1>1. ASSUME NEW q \in Requests, Arrive(q) PROVE Shape'
  BY <1>a, <1>1 DEF Arrive, Goto, Shape, Answered
<1>2. ASSUME NEW q \in Requests, NEW r \in rows, Reuse(q, r), q \notin rows,
             UNCHANGED <<rows, ready, fetched, running>>
      PROVE  Shape'
  BY <1>a, <1>2 DEF Reuse, Goto, Shape, Answered
<1>3. \A u : reusable_attempt(u) \subseteq rows
             /\ latest_for_document(u.acct, u.doc) \subseteq rows
  BY DEF reusable_attempt, latest_for_document, OfDocument
<1>4. ASSUME NEW q \in Requests, FirstLook(q) PROVE Shape'
  <2>1. q \notin rows
    BY <1>4 DEF FirstLook, Shape, Answered
  <2>2. CASE \E r \in reusable_attempt(upload[q]) : Reuse(q, r)
    BY <1>2, <1>3, <1>4, <2>1, <2>2 DEF FirstLook
  <2>3. CASE Goto(q, "check") /\ UNCHANGED att
    BY <1>a, <1>4, <2>1, <2>3 DEF FirstLook, Goto, Shape
  <2> QED BY <1>4, <2>2, <2>3 DEF FirstLook
<1>5. ASSUME NEW q \in Requests, Check(q) PROVE Shape'
  BY <1>a, <1>5 DEF Check, Goto, Shape, Answered
<1>6. ASSUME NEW q \in Requests, SecondLook(q) PROVE Shape'
  <2>1. q \notin rows
    BY <1>6 DEF SecondLook, Shape, Answered
  <2>2. CASE \E r \in reusable_attempt(upload[q]) : Reuse(q, r)
    BY <1>2, <1>3, <1>6, <2>1, <2>2 DEF SecondLook
  <2>3. CASE Goto(q, "store") /\ UNCHANGED att
    BY <1>a, <1>6, <2>1, <2>3 DEF SecondLook, Goto, Shape
  <2> QED BY <1>6, <2>2, <2>3 DEF SecondLook
<1>7. ASSUME NEW q \in Requests, StoreOriginal(q) PROVE Shape'
  BY <1>a, <1>7 DEF StoreOriginal, Goto, Shape, Answered
<1>8. ASSUME NEW q \in Requests, Create(q) PROVE Shape'
  BY <1>a, <1>8 DEF Create, Goto, Shape, Answered
<1>9. ASSUME NEW q \in Requests, HandleClash(q) PROVE Shape'
  <2>1. q \notin rows
    BY <1>9 DEF HandleClash, Shape, Answered
  <2>2. CASE \E r \in latest_for_document(upload[q].acct, upload[q].doc) :
                 Reuse(q, r)
    BY <1>2, <1>3, <1>9, <2>1, <2>2 DEF HandleClash
  <2>3. CASE Goto(q, "error") /\ UNCHANGED att
    BY <1>a, <1>9, <2>1, <2>3 DEF HandleClash, Goto, Shape
  <2> QED BY <1>9, <2>2, <2>3 DEF HandleClash
<1>10. ASSUME NEW q \in Requests, Commit(q) PROVE Shape'
  BY <1>a, <1>10 DEF Commit, Goto, Shape
<1>11. ASSUME NEW q \in Requests, ClaimEnqueue(q) PROVE Shape'
  BY <1>a, <1>11 DEF ClaimEnqueue, Goto, Shape, Answered
<1>12. ASSUME NEW q \in Requests, Enqueue(q) PROVE Shape'
  BY <1>a, <1>12 DEF Enqueue, Goto, Shape, Answered
<1>13. ASSUME NEW q \in Requests, RequestCrash(q) PROVE Shape'
  BY <1>a, <1>13 DEF RequestCrash, Goto, Shape, Answered
<1>14. ASSUME NEW q \in Requests, Resubmit(q) PROVE Shape'
  BY <1>a, <1>14 DEF Resubmit, Goto, Shape
<1>15. ASSUME NEW r \in Requests, WorkerFetch(r) PROVE Shape'
  BY <1>a, <1>15 DEF WorkerFetch, Shape
<1>16. ASSUME NEW r \in Requests, WorkerMark(r) PROVE Shape'
  BY <1>a, <1>16 DEF WorkerMark, Shape
<1>17. ASSUME NEW r \in Requests, WorkerFinish(r) PROVE Shape'
  BY <1>a, <1>17 DEF WorkerFinish, Shape
<1>18. ASSUME NEW r \in Requests, WorkerDie(r) PROVE Shape'
  BY <1>a, <1>18 DEF WorkerDie, Shape
<1>19. CASE Tick \/ Deploy \/ SetRetryFloor \/ UNCHANGED vars
  BY <1>19 DEF Tick, Deploy, SetRetryFloor, vars, Shape
<1> QED
  BY <1>1, <1>4, <1>5, <1>6, <1>7, <1>8, <1>9, <1>10, <1>11, <1>12, <1>13,
     <1>14, <1>15, <1>16, <1>17, <1>18, <1>19
  DEF Next, RequestStep, WorkerStep

-----------------------------------------------------------------------------
\* What a step does to the attempts.  All but three kinds of step are calm:
\* no row appears, none changes its identity, none becomes unfinished again.

SameIdentity(r) ==
    /\ remediation'[r].acct = remediation[r].acct
    /\ remediation'[r].doc = remediation[r].doc
    /\ remediation'[r].createdAt = remediation[r].createdAt

Calm ==
    /\ rows' = rows
    /\ \A r \in rows :
          /\ SameIdentity(r)
          /\ remediation'[r].status \in UNFINISHED_STATUSES
             => remediation[r].status \in UNFINISHED_STATUSES
    /\ \A q \in Requests : pc'[q] = "commit" =>
          /\ pc[q] = "commit"
          /\ upload'[q] = upload[q]
          /\ remediation'[q] = remediation[q]
    /\ now <= now'

\* A successful INSERT, and a run that marks its row running.
Inserted(q) == Create(q) /\ pc'[q] = "commit"
Marked(r) ==
    /\ WorkerMark(r)
    /\ UnfinishedRivals(r, remediation[r].acct, remediation[r].doc) = {}
    /\ remediation' = [remediation EXCEPT ![r] = mark_running(@, now)]

LEMMA StepKinds ==
    ASSUME TypeOK, Shape, [Next]_vars
    PROVE  Calm \/ \E q \in Requests : Inserted(q) \/ Commit(q) \/ Marked(q)
<1> USE DEF requestVars, jobVars, workerVars, configVars
<1>a. /\ rows \subseteq Requests
      /\ pc \in [Requests -> PCs]
      /\ upload \in [Requests -> Upload]
      /\ att \in [Requests -> Requests]
      /\ now \in Nat
      /\ remediation \in [Requests -> Row]
  BY DEF TypeOK
<1>1. ASSUME NEW q \in Requests, Arrive(q) PROVE Calm
  BY <1>a, <1>1 DEF Arrive, Goto, Calm, SameIdentity
<1>2. ASSUME NEW q \in Requests, NEW r, Reuse(q, r), UNCHANGED <<now, jobVars>>
      PROVE  Calm
  BY <1>a, <1>2 DEF Reuse, Goto, Calm, SameIdentity
<1>3. ASSUME NEW q \in Requests, FirstLook(q) PROVE Calm
  BY <1>a, <1>2, <1>3 DEF FirstLook, Goto, Calm, SameIdentity
<1>4. ASSUME NEW q \in Requests, Check(q) PROVE Calm
  BY <1>a, <1>4 DEF Check, Goto, Calm, SameIdentity
<1>5. ASSUME NEW q \in Requests, SecondLook(q) PROVE Calm
  BY <1>a, <1>2, <1>5 DEF SecondLook, Goto, Calm, SameIdentity
<1>6. ASSUME NEW q \in Requests, StoreOriginal(q) PROVE Calm
  BY <1>a, <1>6 DEF StoreOriginal, Goto, Calm, SameIdentity
<1>7. ASSUME NEW q \in Requests, Create(q) PROVE Calm \/ Inserted(q)
  <2>1. CASE Goto(q, "clash") /\ UNCHANGED <<now, remediation>>
    BY <1>a, <1>7, <2>1 DEF Create, Goto, Calm, SameIdentity
  <2>2. CASE Goto(q, "commit")
    BY <1>a, <1>7, <2>2 DEF Goto, Inserted
  <2> QED BY <1>7, <2>1, <2>2 DEF Create
<1>8. ASSUME NEW q \in Requests, HandleClash(q) PROVE Calm
  BY <1>a, <1>2, <1>8 DEF HandleClash, Goto, Calm, SameIdentity
<1>9. ASSUME NEW q \in Requests, ClaimEnqueue(q) PROVE Calm
  <2>1. att[q] \in rows /\ att[q] \in Requests
    BY <1>a, <1>9 DEF ClaimEnqueue, Shape
  <2>2. \/ UNCHANGED remediation
        \/ remediation' = [remediation EXCEPT ![att[q]] =
                               mark_enqueued(@, now)]
    BY <1>9 DEF ClaimEnqueue
  <2>3. mark_enqueued(remediation[att[q]], now).status
            = remediation[att[q]].status
        /\ mark_enqueued(remediation[att[q]], now).acct
            = remediation[att[q]].acct
        /\ mark_enqueued(remediation[att[q]], now).doc
            = remediation[att[q]].doc
        /\ mark_enqueued(remediation[att[q]], now).createdAt
            = remediation[att[q]].createdAt
    BY <1>a, <2>1, EnqueuedFields
  <2>4. \A r \in rows : /\ SameIdentity(r)
                        /\ remediation'[r].status = remediation[r].status
    BY <1>a, <2>1, <2>2, <2>3 DEF SameIdentity
  <2>5. pc[att[q]] # "commit"
    BY <2>1 DEF Shape, Answered
  <2>6. \A p \in Requests : p # att[q] => remediation'[p] = remediation[p]
    BY <1>a, <2>2
  <2>7. UNCHANGED <<now, rows, upload>>
        /\ \A p \in Requests : pc'[p] = "commit" => pc[p] = "commit"
    BY <1>a, <1>9 DEF ClaimEnqueue, Goto
  <2> QED BY <1>a, <2>4, <2>5, <2>6, <2>7 DEF Calm
<1>10. ASSUME NEW q \in Requests, Enqueue(q) PROVE Calm
  BY <1>a, <1>10 DEF Enqueue, Goto, Calm, SameIdentity
<1>11. ASSUME NEW q \in Requests, RequestCrash(q) PROVE Calm
  <2>1. pc[q] = "commit" => q \notin rows
    BY DEF Shape, Answered
  <2>2. \A p \in Requests : p # q \/ p \in rows => remediation'[p] = remediation[p]
    BY <1>a, <1>11, <2>1 DEF RequestCrash
  <2>3. pc' = [pc EXCEPT ![q] = "crashed"] /\ UNCHANGED <<now, rows, upload>>
    BY <1>11 DEF RequestCrash, Goto
  <2> QED BY <1>a, <2>2, <2>3 DEF Calm, SameIdentity
<1>12. ASSUME NEW q \in Requests, Resubmit(q) PROVE Calm
  BY <1>a, <1>12 DEF Resubmit, Goto, Calm, SameIdentity, Answered
<1>13. ASSUME NEW r \in Requests, WorkerFetch(r) PROVE Calm
  BY <1>a, <1>13 DEF WorkerFetch, Calm, SameIdentity
<1>14. ASSUME NEW r \in Requests, WorkerMark(r) PROVE Calm \/ Marked(r)
  <2>1. CASE UNCHANGED remediation
    BY <1>a, <1>14, <2>1 DEF WorkerMark, Calm, SameIdentity
  <2> QED BY <1>14, <2>1 DEF WorkerMark, Marked
<1>15. ASSUME NEW r \in Requests, WorkerFinish(r) PROVE Calm
  <2>1. r \in rows /\ pc[r] # "commit"
    BY <1>15 DEF WorkerFinish, Shape, Answered
  <2>2. PICK s \in Outcomes :
            remediation' = [remediation EXCEPT ![r] = mark_finished(@, s)]
    BY <1>15 DEF WorkerFinish
  <2>3. s \in JobStatus /\ s \notin UNFINISHED_STATUSES
    BY <2>2, OutcomesAssumption
    DEF JobStatus, FINISHED_STATUSES, UNFINISHED_STATUSES
  <2>4. /\ mark_finished(remediation[r], s).acct = remediation[r].acct
        /\ mark_finished(remediation[r], s).doc = remediation[r].doc
        /\ mark_finished(remediation[r], s).createdAt = remediation[r].createdAt
        /\ mark_finished(remediation[r], s).status = s
    BY <1>a, <2>3, FinishedFields
  <2>5. \A p \in rows : /\ SameIdentity(p)
                        /\ remediation'[p].status \in UNFINISHED_STATUSES
                           => remediation[p].status \in UNFINISHED_STATUSES
    BY <1>a, <2>2, <2>3, <2>4 DEF SameIdentity
  <2>6. \A p \in Requests : p # r => remediation'[p] = remediation[p]
    BY <1>a, <2>2
  <2>7. UNCHANGED <<now, rows, pc, upload>>
    BY <1>15 DEF WorkerFinish
  <2> QED BY <1>a, <2>1, <2>5, <2>6, <2>7 DEF Calm
<1>16. ASSUME NEW r \in Requests, WorkerDie(r) PROVE Calm
  BY <1>a, <1>16 DEF WorkerDie, Calm, SameIdentity
<1>17. CASE Tick \/ Deploy \/ SetRetryFloor \/ UNCHANGED vars
  BY <1>a, <1>17 DEF Tick, Deploy, SetRetryFloor, vars, Calm, SameIdentity
<1> QED
  BY <1>1, <1>3, <1>4, <1>5, <1>6, <1>7, <1>8, <1>9, <1>10, <1>11, <1>12,
     <1>13, <1>14, <1>15, <1>16, <1>17
  DEF Next, RequestStep, WorkerStep

-----------------------------------------------------------------------------
\* At most one unfinished attempt per document.

LEMMA AloneInit == Init => OneUnfinished /\ PendingIsAlone
BY DEF Init, OneUnfinished, PendingIsAlone

LEMMA AloneStep ==
    ASSUME TypeOK, Shape, OneUnfinished, PendingIsAlone, [Next]_vars
    PROVE  OneUnfinished' /\ PendingIsAlone'
<1> USE DEF requestVars, jobVars, workerVars, configVars
<1>a. /\ rows \subseteq Requests
      /\ pc \in [Requests -> PCs]
      /\ upload \in [Requests -> Upload]
      /\ now \in Nat
      /\ remediation \in [Requests -> Row]
      /\ \A r \in Requests : remediation[r].status \in JobStatus
  BY DEF TypeOK, Row
<1>b. \A r \in Requests : remediation'[r].status \in JobStatus
  BY TypeStep DEF TypeOK, Row
<1>c. \A r \in rows : pc[r] # "commit" /\ pc[r] # "create"
  BY DEF Shape, Answered
<1>1. CASE Calm
  <2>1. OneUnfinished'
    <3>1. FINISHED_STATUSES \cap UNFINISHED_STATUSES = {}
      BY DEF FINISHED_STATUSES, UNFINISHED_STATUSES
    <3> QED
      BY <1>1, <1>a, <1>b, <3>1
      DEF Calm, SameIdentity, OneUnfinished, JobStatus
  <2>2. PendingIsAlone'
    BY <1>1, <1>a DEF Calm, SameIdentity, PendingIsAlone, UnfinishedRivals,
                      PendingRivals, OfDocument
  <2> QED BY <2>1, <2>2
<1>2. ASSUME NEW q \in Requests, Inserted(q)
      PROVE  OneUnfinished' /\ PendingIsAlone'
  <2>1. /\ q \notin rows
        /\ rows' = rows
        /\ upload' = upload
        /\ pc' = [pc EXCEPT ![q] = "commit"]
        /\ remediation' = [remediation EXCEPT ![q] = NewRow(upload[q], now)]
        /\ UnfinishedRivals(q, upload[q].acct, upload[q].doc) = {}
        /\ PendingRivals(q, upload[q].acct, upload[q].doc) = {}
    BY <1>2, <1>a, <1>c DEF Inserted, Create, Goto
  <2>2. remediation'[q].acct = upload[q].acct
        /\ remediation'[q].doc = upload[q].doc
    BY <1>a, <2>1, NewRowFields
  <2>3. \A r \in Requests : r # q => remediation'[r] = remediation[r]
    BY <1>a, <2>1
  <2>4. OneUnfinished'
    BY <1>a, <2>1, <2>3 DEF OneUnfinished
  <2>5. PendingIsAlone'
    BY <1>a, <2>1, <2>2, <2>3 DEF PendingIsAlone, UnfinishedRivals,
                                  PendingRivals, OfDocument
  <2> QED BY <2>4, <2>5
<1>3. ASSUME NEW q \in Requests, Commit(q)
      PROVE  OneUnfinished' /\ PendingIsAlone'
  <2>1. /\ pc[q] = "commit"
        /\ rows' = rows \cup {q}
        /\ upload' = upload
        /\ remediation' = remediation
        /\ pc' = [pc EXCEPT ![q] = "claim"]
    BY <1>3 DEF Commit, Goto
  <2>2. /\ remediation[q].acct = upload[q].acct
        /\ remediation[q].doc = upload[q].doc
        /\ UnfinishedRivals(q, upload[q].acct, upload[q].doc) = {}
        /\ PendingRivals(q, upload[q].acct, upload[q].doc) = {}
    BY <2>1 DEF PendingIsAlone
  <2>3. OneUnfinished'
    BY <1>a, <2>1, <2>2 DEF OneUnfinished, UnfinishedRivals, OfDocument,
                            JobStatus
  <2>4. PendingIsAlone'
    BY <1>a, <2>1, <2>2 DEF PendingIsAlone, UnfinishedRivals, PendingRivals,
                            OfDocument
  <2> QED BY <2>3, <2>4
<1>4. ASSUME NEW r \in Requests, Marked(r)
      PROVE  OneUnfinished' /\ PendingIsAlone'
  <2>1. /\ r \in rows
        /\ UNCHANGED <<rows, pc, upload>>
        /\ remediation' = [remediation EXCEPT ![r] = mark_running(@, now)]
        /\ UnfinishedRivals(r, remediation[r].acct, remediation[r].doc) = {}
        /\ PendingRivals(r, remediation[r].acct, remediation[r].doc) = {}
    BY <1>4 DEF Marked, WorkerMark, Shape
  <2>2. remediation'[r].acct = remediation[r].acct
        /\ remediation'[r].doc = remediation[r].doc
    BY <1>a, <2>1, RunningFields
  <2>3. \A s \in Requests : s # r => remediation'[s] = remediation[s]
    BY <1>a, <2>1
  <2>4. OneUnfinished'
    BY <1>a, <2>1, <2>2, <2>3 DEF OneUnfinished, UnfinishedRivals, OfDocument,
                                  JobStatus
  <2>5. PendingIsAlone'
    BY <1>a, <1>c, <2>1, <2>2, <2>3
    DEF PendingIsAlone, UnfinishedRivals, PendingRivals, OfDocument
  <2> QED BY <2>4, <2>5
<1> QED BY <1>1, <1>2, <1>3, <1>4, StepKinds

-----------------------------------------------------------------------------
\* The account's lock.

LEMMA LockInit == Init => LockHeld
BY DEF Init, LockHeld, Holding

LEMMA LockStep == TypeOK /\ LockHeld /\ [Next]_vars => LockHeld'
<1> SUFFICES ASSUME TypeOK, LockHeld, [Next]_vars PROVE LockHeld'
  OBVIOUS
<1> USE DEF requestVars, jobVars, workerVars, configVars
<1>a. /\ locks \subseteq Requests
      /\ pc \in [Requests -> PCs]
      /\ upload \in [Requests -> Upload]
  BY DEF TypeOK
<1>1. ASSUME NEW q \in Requests, NEW l, Goto(q, l), Unlock(q), upload' = upload,
             l \notin Holding \cup {"commit"}
      PROVE  LockHeld'
  BY <1>a, <1>1 DEF Goto, Unlock, LockHeld
<1>2. ASSUME NEW q \in Requests, NEW l, Goto(q, l), locks' = locks,
             pc[q] \notin Holding \cup {"commit"},
             l \notin Holding \cup {"commit"},
             \A p \in Requests : p # q => upload'[p] = upload[p]
      PROVE  LockHeld'
  BY <1>a, <1>2 DEF Goto, LockHeld
<1>3. ASSUME NEW q \in Requests, NEW l, Goto(q, l), locks' = locks,
             upload' = upload, pc[q] \in Holding, l \in Holding \cup {"commit"}
      PROVE  LockHeld'
  BY <1>a, <1>3 DEF Goto, LockHeld
<1>4. ASSUME NEW q \in Requests, NEW r, Reuse(q, r) PROVE LockHeld'
  BY <1>1, <1>4 DEF Reuse, Holding
<1>5. ASSUME NEW q \in Requests, Arrive(q) PROVE LockHeld'
  <2>1. \A p \in Requests : p # q => upload'[p] = upload[p]
    BY <1>a, <1>5 DEF Arrive
  <2> QED BY <1>2, <1>5, <2>1 DEF Arrive, Holding
<1>6. ASSUME NEW q \in Requests, FirstLook(q) PROVE LockHeld'
  BY <1>2, <1>4, <1>6 DEF FirstLook, Holding
<1>7. ASSUME NEW q \in Requests, Check(q) PROVE LockHeld'
  <2>1. CASE Goto(q, "throttled") /\ UNCHANGED locks
    BY <1>2, <1>7, <2>1 DEF Check, Holding
  <2>2. CASE ~IsLimited(upload[q].acct) /\ Goto(q, "relook") /\ UNCHANGED locks
    BY <1>a, <1>7, <2>2 DEF Check, Goto, LockHeld, Holding
  <2>3. CASE AccountFree(q) /\ Goto(q, "relook") /\ locks' = locks \cup {q}
    BY <1>a, <1>7, <2>3 DEF Check, Goto, LockHeld, Holding, AccountFree
  <2> QED BY <1>7, <2>1, <2>2, <2>3 DEF Check
<1>8. ASSUME NEW q \in Requests, SecondLook(q) PROVE LockHeld'
  BY <1>3, <1>4, <1>8 DEF SecondLook, Holding
<1>9. ASSUME NEW q \in Requests, StoreOriginal(q) PROVE LockHeld'
  BY <1>3, <1>9 DEF StoreOriginal, Holding
<1>10. ASSUME NEW q \in Requests, Create(q) PROVE LockHeld'
  BY <1>3, <1>10 DEF Create, Holding
<1>11. ASSUME NEW q \in Requests, HandleClash(q) PROVE LockHeld'
  BY <1>1, <1>4, <1>11 DEF HandleClash, Holding
<1>12. ASSUME NEW q \in Requests, Commit(q) PROVE LockHeld'
  BY <1>1, <1>12 DEF Commit, Holding
<1>13. ASSUME NEW q \in Requests, ClaimEnqueue(q) PROVE LockHeld'
  BY <1>2, <1>13 DEF ClaimEnqueue, Holding
<1>14. ASSUME NEW q \in Requests, Enqueue(q) PROVE LockHeld'
  BY <1>2, <1>14 DEF Enqueue, Holding
<1>15. ASSUME NEW q \in Requests, RequestCrash(q) PROVE LockHeld'
  BY <1>1, <1>15 DEF RequestCrash, Holding
<1>16. ASSUME NEW q \in Requests, Resubmit(q) PROVE LockHeld'
  <2>1. \A p \in Requests : p # q => upload'[p] = upload[p]
    BY <1>a, <1>16 DEF Resubmit
  <2> QED BY <1>2, <1>16, <2>1 DEF Resubmit, Holding, Answered
<1>17. ASSUME UNCHANGED <<pc, upload, locks>> PROVE LockHeld'
  BY <1>17 DEF LockHeld
<1>18. ASSUME NEW r \in Requests, WorkerStep(r) PROVE LockHeld'
  BY <1>17, <1>18
  DEF WorkerStep, WorkerFetch, WorkerMark, WorkerFinish, WorkerDie
<1>19. CASE Tick \/ Deploy \/ SetRetryFloor \/ UNCHANGED vars
  BY <1>17, <1>19 DEF Tick, Deploy, SetRetryFloor, vars
<1> QED
  BY <1>5, <1>6, <1>7, <1>8, <1>9, <1>10, <1>11, <1>12, <1>13, <1>14, <1>15,
     <1>16, <1>18, <1>19
  DEF Next, RequestStep

-----------------------------------------------------------------------------
\* The limit.

\* The attempts of account a made at t or later.
Since(a, t) == {r \in rows : /\ remediation[r].acct = a
                             /\ remediation[r].createdAt >= t}

\* What the check found stays true until the attempt is committed.
RoomLeft ==
    \A q \in Requests : IsLimited(upload[q].acct) =>
        /\ pc[q] \in Holding =>
              Cardinality(Since(upload[q].acct, now - Window))
                  < Limit[upload[q].acct]
        /\ pc[q] = "commit" =>
              Cardinality(Since(upload[q].acct,
                                remediation[q].createdAt - Window))
                  < Limit[upload[q].acct]

\* LimitRespected, for every period and not only those that have begun.
PeriodBounded ==
    /\ IsFiniteSet(rows)
    /\ \A a \in Accounts : IsLimited(a) =>
          \A t \in Int : Cardinality(MadeInPeriod(a, t)) <= Limit[a]

\* Rows are only ever added, by a commit, and keep their identity.
LEMMA IdentityKept ==
    ASSUME TypeOK, Shape, [Next]_vars
    PROVE  /\ rows \subseteq rows'
           /\ \A r \in rows : SameIdentity(r)
           /\ now <= now'
           /\ \A r \in rows' : r \notin rows => r \in Requests /\ Commit(r)
           /\ rows' = rows \/ \E q \in Requests : rows' = rows \cup {q}
<1> USE DEF requestVars, jobVars, workerVars, configVars
<1>a. rows \subseteq Requests /\ now \in Nat /\ remediation \in [Requests -> Row]
  BY DEF TypeOK
<1>1. CASE Calm
  BY <1>1 DEF Calm
<1>2. ASSUME NEW q \in Requests, Inserted(q)
      PROVE  UNCHANGED rows /\ now <= now' /\ \A r \in rows : SameIdentity(r)
  <2>1. q \notin rows
    BY <1>2 DEF Inserted, Create, Shape, Answered
  <2>2. \A r \in rows : remediation'[r] = remediation[r]
    BY <1>2, <1>a, <2>1 DEF Inserted, Create
  <2> QED BY <1>2, <1>a, <2>2 DEF Inserted, Create, SameIdentity
<1>3. ASSUME NEW q \in Requests, Commit(q)
      PROVE  /\ rows' = rows \cup {q}
             /\ now <= now'
             /\ \A r \in rows : SameIdentity(r)
  BY <1>3, <1>a DEF Commit, SameIdentity
<1>4. ASSUME NEW r \in Requests, Marked(r)
      PROVE  UNCHANGED rows /\ now <= now' /\ \A s \in rows : SameIdentity(s)
  <2>1. UNCHANGED <<rows, now>>
        /\ remediation' = [remediation EXCEPT ![r] = mark_running(@, now)]
    BY <1>4 DEF Marked, WorkerMark
  <2>2. SameIdentity(r)
    BY <1>a, <2>1, RunningFields DEF SameIdentity
  <2>3. \A s \in Requests : s # r => remediation'[s] = remediation[s]
    BY <1>a, <2>1
  <2> QED BY <1>a, <2>1, <2>2, <2>3 DEF SameIdentity
<1> QED BY <1>1, <1>2, <1>3, <1>4, StepKinds DEF Calm

\* A request of a limited account gets past the check only with room left.
Admitted(q) ==
    /\ recent_submissions(upload[q].acct) < Limit[upload[q].acct]
    /\ UNCHANGED <<now, rows, remediation>>

LEMMA Admission ==
    ASSUME TypeOK, [Next]_vars, NEW q \in Requests, pc'[q] \in Holding,
           IsLimited(upload'[q].acct)
    PROVE  upload'[q] = upload[q] /\ (pc[q] \in Holding \/ Admitted(q))
<1> USE DEF requestVars, jobVars, workerVars, configVars
<1>a. pc \in [Requests -> PCs] /\ upload \in [Requests -> Upload]
  BY DEF TypeOK
<1> DEFINE Goal == upload'[q] = upload[q] /\ (pc[q] \in Holding \/ Admitted(q))
<1>1. ASSUME NEW p \in Requests, NEW l, Goto(p, l), l \notin Holding,
             \A o \in Requests : o # p => upload'[o] = upload[o]
      PROVE  Goal
  BY <1>a, <1>1 DEF Goto
<1>2. ASSUME NEW p \in Requests, NEW l, Goto(p, l), pc[p] \in Holding,
             upload' = upload
      PROVE  Goal
  BY <1>a, <1>2 DEF Goto
<1>3. ASSUME NEW p \in Requests, NEW r, Reuse(p, r) PROVE Goal
  BY <1>1, <1>3 DEF Reuse, Holding
<1>4. ASSUME NEW p \in Requests, Arrive(p) PROVE Goal
  <2>1. \A o \in Requests : o # p => upload'[o] = upload[o]
    BY <1>a, <1>4 DEF Arrive
  <2> QED BY <1>1, <1>4, <2>1 DEF Arrive, Holding
<1>5. ASSUME NEW p \in Requests, FirstLook(p) PROVE Goal
  BY <1>1, <1>3, <1>5 DEF FirstLook, Holding
<1>6. ASSUME NEW p \in Requests, Check(p) PROVE Goal
  <2>1. upload' = upload /\ UNCHANGED <<now, rows, remediation>>
    BY <1>6 DEF Check
  <2>2. \E l : pc' = [pc EXCEPT ![p] = l]
    BY <1>6 DEF Check, Goto
  <2>3. CASE p # q
    BY <1>a, <2>1, <2>2, <2>3
  <2>4. CASE p = q
    <3>1. IsLimited(upload[q].acct)
      BY <2>1
    <3>2. pc'[q] # "throttled"
      BY DEF Holding
    <3>3. recent_submissions(upload[q].acct) < Limit[upload[q].acct]
      BY <1>a, <1>6, <2>4, <3>1, <3>2 DEF Check, Goto
    <3> QED BY <2>1, <3>3 DEF Admitted
  <2> QED BY <2>3, <2>4
<1>7. ASSUME NEW p \in Requests, SecondLook(p) PROVE Goal
  BY <1>2, <1>3, <1>7 DEF SecondLook, Holding
<1>8. ASSUME NEW p \in Requests, StoreOriginal(p) PROVE Goal
  BY <1>2, <1>8 DEF StoreOriginal, Holding
<1>9. ASSUME NEW p \in Requests, Create(p) PROVE Goal
  BY <1>2, <1>9 DEF Create, Holding
<1>10. ASSUME NEW p \in Requests, HandleClash(p) PROVE Goal
  BY <1>1, <1>3, <1>10 DEF HandleClash, Holding
<1>11. ASSUME NEW p \in Requests, Commit(p) PROVE Goal
  BY <1>1, <1>11 DEF Commit, Holding
<1>12. ASSUME NEW p \in Requests, ClaimEnqueue(p) PROVE Goal
  BY <1>1, <1>12 DEF ClaimEnqueue, Holding
<1>13. ASSUME NEW p \in Requests, Enqueue(p) PROVE Goal
  BY <1>1, <1>13 DEF Enqueue, Holding
<1>14. ASSUME NEW p \in Requests, RequestCrash(p) PROVE Goal
  BY <1>1, <1>14 DEF RequestCrash, Holding
<1>15. ASSUME NEW p \in Requests, Resubmit(p) PROVE Goal
  <2>1. \A o \in Requests : o # p => upload'[o] = upload[o]
    BY <1>a, <1>15 DEF Resubmit
  <2> QED BY <1>1, <1>15, <2>1 DEF Resubmit, Holding
<1>16. ASSUME NEW r \in Requests, WorkerStep(r) PROVE Goal
  BY <1>16 DEF WorkerStep, WorkerFetch, WorkerMark, WorkerFinish, WorkerDie
<1>17. CASE Tick \/ Deploy \/ SetRetryFloor \/ UNCHANGED vars
  BY <1>17 DEF Tick, Deploy, SetRetryFloor, vars
<1> QED
  BY <1>4, <1>5, <1>6, <1>7, <1>8, <1>9, <1>10, <1>11, <1>12, <1>13, <1>14,
     <1>15, <1>16, <1>17
  DEF Next, RequestStep

\* While a request holds a limited account's lock, only its own commit adds an
\* attempt to the account.
LEMMA AccountStill ==
    ASSUME TypeOK, Shape, PendingIsAlone, LockHeld, [Next]_vars,
           NEW q \in Requests, pc[q] \in Holding \cup {"commit"},
           IsLimited(upload[q].acct), ~Commit(q)
    PROVE  \A r \in rows' : remediation'[r].acct = upload[q].acct => r \in rows
<1> SUFFICES ASSUME NEW r \in rows', r \notin rows,
                    remediation'[r].acct = upload[q].acct
             PROVE  FALSE
  OBVIOUS
<1>1. r \in Requests /\ Commit(r)
  BY IdentityKept
<1>2. pc[r] = "commit" /\ remediation'[r] = remediation[r]
  BY <1>1 DEF Commit
<1>3. upload[r].acct = upload[q].acct
  BY <1>1, <1>2 DEF PendingIsAlone
<1>4. r \in locks /\ q \in locks
  BY <1>1, <1>2, <1>3 DEF LockHeld
<1>5. r = q
  BY <1>3, <1>4 DEF LockHeld
<1> QED BY <1>1, <1>5

LEMMA SinceKept ==
    ASSUME TypeOK, Shape, [Next]_vars, NEW a \in Accounts,
           \A r \in rows' : remediation'[r].acct = a => r \in rows
    PROVE  \A t \in Int : Since(a, t)' = Since(a, t)
<1>1. rows \subseteq rows' /\ \A r \in rows : SameIdentity(r)
  BY IdentityKept
<1> QED BY <1>1 DEF Since, SameIdentity

LEMMA SinceShrinks ==
    ASSUME IsFiniteSet(rows), NEW a, NEW t \in Int, NEW u \in Int, t <= u, TypeOK
    PROVE  /\ IsFiniteSet(Since(a, t))
           /\ Cardinality(Since(a, t)) \in Nat
           /\ Cardinality(Since(a, u)) \in Nat
           /\ Cardinality(Since(a, u)) <= Cardinality(Since(a, t))
<1>1. \A r \in rows : remediation[r].createdAt \in Int
  BY DEF TypeOK, Row
<1>2. Since(a, t) \subseteq rows /\ Since(a, u) \subseteq Since(a, t)
  BY <1>1 DEF Since
<1>3. IsFiniteSet(Since(a, t))
  BY <1>2, FS_Subset
<1>4. IsFiniteSet(Since(a, u))
      /\ Cardinality(Since(a, u)) <= Cardinality(Since(a, t))
  BY <1>2, <1>3, FS_Subset
<1> QED BY <1>3, <1>4, FS_CardinalityType

LEMMA LaterPeriod ==
    ASSUME NEW t \in Nat, NEW u \in Nat, t <= u, NEW w \in Nat
    PROVE  t - w \in Int /\ u - w \in Int /\ t - w <= u - w
OBVIOUS

LEMMA RoomStep ==
    ASSUME TypeOK, Shape, PendingIsAlone, LockHeld, RoomLeft, PeriodBounded,
           [Next]_vars
    PROVE  RoomLeft'
<1> USE DEF requestVars, jobVars, workerVars, configVars
<1> SUFFICES ASSUME NEW q \in Requests, IsLimited(upload'[q].acct)
             PROVE  /\ pc'[q] \in Holding =>
                          Cardinality(Since(upload[q].acct, now - Window)')
                              < Limit[upload'[q].acct]
                    /\ pc'[q] = "commit" =>
                          Cardinality(Since(upload[q].acct,
                                       remediation[q].createdAt - Window)')
                              < Limit[upload'[q].acct]
  BY DEF RoomLeft
<1>a. /\ pc \in [Requests -> PCs]
      /\ upload \in [Requests -> Upload]
      /\ upload[q].acct \in Accounts
      /\ now \in Nat /\ now' \in Nat /\ now <= now'
      /\ remediation \in [Requests -> Row]
      /\ remediation[q].createdAt \in Int
      /\ Window \in Nat
  BY TypeStep, TimesAssumption, IdentityKept DEF TypeOK, Upload, Row
<1>b. \A a \in Accounts : IsLimited(a) => Limit[a] \in Nat
  BY LimitAssumption DEF IsLimited
<1>c. IsFiniteSet(rows)
  BY DEF PeriodBounded
<1>1. ASSUME pc'[q] \in Holding
      PROVE  Cardinality(Since(upload[q].acct, now - Window)')
                 < Limit[upload'[q].acct]
  <2>1. upload'[q] = upload[q] /\ (pc[q] \in Holding \/ Admitted(q))
    BY <1>1, Admission
  <2>2. CASE pc[q] \in Holding
    <3>1. ~Commit(q)
      BY <2>2 DEF Commit, Holding
    <3>2. \A r \in rows' : remediation'[r].acct = upload[q].acct => r \in rows
      BY <2>1, <2>2, <3>1, AccountStill
    <3>3. \A t \in Int : Since(upload[q].acct, t)' = Since(upload[q].acct, t)
      BY <1>a, <2>1, <3>2, SinceKept
    <3>4. Since(upload[q].acct, now - Window)'
              = Since(upload[q].acct, now' - Window)
      BY <1>a, <2>1, <3>3
    <3>5. Cardinality(Since(upload[q].acct, now - Window))
              < Limit[upload[q].acct]
      BY <2>1, <2>2 DEF RoomLeft
    <3>6. now - Window \in Int /\ now' - Window \in Int
          /\ now - Window <= now' - Window
      BY <1>a, LaterPeriod
    <3>7. /\ Cardinality(Since(upload[q].acct, now - Window)) \in Nat
          /\ Cardinality(Since(upload[q].acct, now' - Window)) \in Nat
          /\ Cardinality(Since(upload[q].acct, now' - Window))
                <= Cardinality(Since(upload[q].acct, now - Window))
      BY <1>c, <3>6, SinceShrinks
    <3> QED BY <1>a, <1>b, <2>1, <3>4, <3>5, <3>7
  <2>3. CASE Admitted(q)
    <3>1. Since(upload[q].acct, now - Window)'
              = Since(upload[q].acct, now - Window)
      BY <2>1, <2>3 DEF Admitted, Since
    <3>2. Cardinality(Since(upload[q].acct, now - Window))
              = recent_submissions(upload[q].acct)
      BY DEF Since, recent_submissions
    <3> QED BY <2>1, <2>3, <3>1, <3>2 DEF Admitted
  <2> QED BY <2>1, <2>2, <2>3
<1>2. ASSUME pc'[q] = "commit"
      PROVE  Cardinality(Since(upload[q].acct,
                               remediation[q].createdAt - Window)')
                 < Limit[upload'[q].acct]
  <2>1. \/ /\ pc[q] = "commit"
           /\ upload'[q] = upload[q]
           /\ remediation'[q] = remediation[q]
           /\ ~Commit(q)
        \/ Inserted(q)
    <3>1. CASE Calm
      BY <1>2, <1>a, <3>1 DEF Calm, Commit, Goto
    <3>2. ASSUME NEW p \in Requests, Inserted(p), p # q
          PROVE  /\ pc[q] = "commit"
                 /\ upload'[q] = upload[q]
                 /\ remediation'[q] = remediation[q]
                 /\ ~Commit(q)
      BY <1>2, <1>a, <3>2 DEF Inserted, Create, Goto, Commit
    <3>3. ASSUME NEW p \in Requests, Commit(p)
          PROVE  /\ pc[q] = "commit"
                 /\ upload'[q] = upload[q]
                 /\ remediation'[q] = remediation[q]
                 /\ ~Commit(q)
      BY <1>2, <1>a, <3>3 DEF Commit, Goto
    <3>4. ASSUME NEW p \in Requests, Marked(p)
          PROVE  /\ pc[q] = "commit"
                 /\ upload'[q] = upload[q]
                 /\ remediation'[q] = remediation[q]
                 /\ ~Commit(q)
      <4>1. pc' = pc /\ upload' = upload /\ p \in rows
        BY <3>4 DEF Marked, WorkerMark, Shape
      <4>2. p # q
        BY <1>2, <4>1 DEF Shape, Answered
      <4>3. remediation'[q] = remediation[q]
        BY <1>a, <3>4, <4>2 DEF Marked
      <4> QED BY <1>2, <1>a, <4>1, <4>3 DEF Commit, Goto
    <3> QED BY <3>1, <3>2, <3>3, <3>4, StepKinds
  <2>2. CASE /\ pc[q] = "commit"
             /\ upload'[q] = upload[q]
             /\ remediation'[q] = remediation[q]
             /\ ~Commit(q)
    <3>1. \A r \in rows' : remediation'[r].acct = upload[q].acct => r \in rows
      BY <2>2, AccountStill
    <3>2. \A t \in Int : Since(upload[q].acct, t)' = Since(upload[q].acct, t)
      BY <1>a, <2>2, <3>1, SinceKept
    <3>3. Since(upload[q].acct, remediation[q].createdAt - Window)'
              = Since(upload[q].acct, remediation[q].createdAt - Window)
      BY <1>a, <2>2, <3>2
    <3> QED BY <2>2, <3>3 DEF RoomLeft
  <2>3. CASE Inserted(q)
    <3>1. /\ pc[q] = "create" /\ UNCHANGED <<upload, rows>> /\ q \notin rows
          /\ remediation' = [remediation EXCEPT ![q] = NewRow(upload[q], now)]
      BY <1>2, <1>a, <2>3 DEF Inserted, Create, Goto, Shape, Answered
    <3>2. remediation'[q].createdAt = now
      BY <1>a, <3>1, NewRowFields
    <3>3. \A r \in rows : remediation'[r] = remediation[r]
      BY <1>a, <3>1
    <3>4. Since(upload[q].acct, remediation[q].createdAt - Window)'
              = Since(upload[q].acct, now - Window)
      BY <3>1, <3>2, <3>3 DEF Since
    <3> QED BY <3>1, <3>4 DEF RoomLeft, Holding
  <2> QED BY <2>1, <2>2, <2>3
<1> QED BY <1>1, <1>2

LEMMA AddOne ==
    ASSUME NEW S, NEW x, IsFiniteSet(S)
    PROVE  /\ IsFiniteSet(S \cup {x})
           /\ Cardinality(S \cup {x}) <= Cardinality(S) + 1
<1>1. Cardinality(S) \in Nat
  BY FS_CardinalityType
<1>2. /\ IsFiniteSet(S \cup {x})
      /\ Cardinality(S \cup {x}) =
             IF x \in S THEN Cardinality(S) ELSE Cardinality(S) + 1
  BY FS_AddElement
<1> QED BY <1>1, <1>2

LEMMA BoundedStep ==
    ASSUME TypeOK, Shape, PendingIsAlone, RoomLeft, PeriodBounded, [Next]_vars
    PROVE  PeriodBounded'
<1>a. /\ rows \subseteq rows'
      /\ \A r \in rows : SameIdentity(r)
      /\ \A r \in rows' : r \notin rows => r \in Requests /\ Commit(r)
  BY IdentityKept
<1>b. /\ rows \subseteq Requests
      /\ \A r \in Requests : remediation[r].createdAt \in Int
      /\ \A r \in Requests : upload[r].acct \in Accounts
      /\ Window \in Nat
  BY TimesAssumption DEF TypeOK, Row, Upload
<1>c. IsFiniteSet(rows)
  BY DEF PeriodBounded
<1>1. IsFiniteSet(rows')
  BY <1>c, IdentityKept, FS_AddElement
<1>2. ASSUME NEW a \in Accounts, IsLimited(a), NEW t \in Int
      PROVE  Cardinality(MadeInPeriod(a, t)') <= Limit[a]
  <2>1. Limit[a] \in Nat
    BY <1>2, LimitAssumption DEF IsLimited
  <2>2. Cardinality(MadeInPeriod(a, t)) <= Limit[a]
    BY <1>2 DEF PeriodBounded
  <2>3. CASE \A r \in rows' : remediation'[r].acct = a
                 /\ remediation'[r].createdAt \in (t - Window)..t => r \in rows
    <3>1. MadeInPeriod(a, t)' = MadeInPeriod(a, t)
      BY <1>a, <2>3 DEF MadeInPeriod, SameIdentity
    <3> QED BY <2>2, <3>1
  <2>4. ASSUME NEW q \in rows', q \notin rows, remediation'[q].acct = a,
               remediation'[q].createdAt \in (t - Window)..t
        PROVE  Cardinality(MadeInPeriod(a, t)') <= Limit[a]
    <3> DEFINE since == remediation[q].createdAt - Window
    <3>1. /\ q \in Requests /\ pc[q] = "commit"
          /\ rows' = rows \cup {q}
          /\ remediation' = remediation
      BY <1>a, <2>4 DEF Commit, requestVars, jobVars
    <3>2. upload[q].acct = a
      BY <2>4, <3>1 DEF PendingIsAlone
    <3>3. Cardinality(Since(a, since)) < Limit[a]
      BY <1>2, <3>1, <3>2 DEF RoomLeft
    <3>4. /\ remediation[q].createdAt \in Int
          /\ since \in Int
          /\ since <= t - Window
      BY <1>b, <2>4, <3>1
    <3>5. IsFiniteSet(Since(a, since)) /\ Cardinality(Since(a, since)) \in Nat
      BY <1>c, <3>4, SinceShrinks
    <3>6. MadeInPeriod(a, t)' \subseteq Since(a, since) \cup {q}
      <4>1. \A r \in rows : remediation[r].createdAt \in Int
        BY <1>b
      <4>2. \A r \in rows : remediation[r].createdAt \in (t - Window)..t
                            => remediation[r].createdAt >= since
        <5> HIDE DEF since
        <5> QED BY <1>b, <3>4, <4>1
      <4> HIDE DEF since
      <4> QED BY <3>1, <4>2 DEF MadeInPeriod, Since
    <3> HIDE DEF since
    <3>7. /\ IsFiniteSet(Since(a, since) \cup {q})
          /\ Cardinality(Since(a, since) \cup {q})
                <= Cardinality(Since(a, since)) + 1
      BY <3>5, AddOne
    <3>8. /\ Cardinality(MadeInPeriod(a, t)')
                <= Cardinality(Since(a, since) \cup {q})
          /\ IsFiniteSet(MadeInPeriod(a, t)')
      BY <3>6, <3>7, FS_Subset
    <3>9. /\ Cardinality(MadeInPeriod(a, t)') \in Nat
          /\ Cardinality(Since(a, since) \cup {q}) \in Nat
      BY <3>7, <3>8, FS_CardinalityType
    <3> QED BY <2>1, <3>3, <3>5, <3>7, <3>8, <3>9
  <2> QED BY <2>3, <2>4
<1> QED BY <1>1, <1>2 DEF PeriodBounded, IsLimited

-----------------------------------------------------------------------------
\* The inductive invariant and what follows from it.

IInv ==
    /\ TypeOK
    /\ Shape
    /\ OneUnfinished
    /\ PendingIsAlone
    /\ LockHeld
    /\ RoomLeft
    /\ PeriodBounded

LEMMA IInvInit == Init => IInv
<1>1. Init => RoomLeft
  BY DEF Init, RoomLeft, Holding
<1>2. ASSUME Init PROVE PeriodBounded
  <2>1. rows = {}
    BY <1>2 DEF Init
  <2>2. \A a, t : MadeInPeriod(a, t) = {}
    BY <2>1 DEF MadeInPeriod
  <2>3. \A a \in Accounts : IsLimited(a) => Limit[a] \in Nat
    BY LimitAssumption DEF IsLimited
  <2> QED BY <2>1, <2>2, <2>3, FS_EmptySet DEF PeriodBounded
<1> QED BY <1>1, <1>2, TypeInit, ShapeInit, AloneInit, LockInit DEF IInv

LEMMA IInvStep == IInv /\ [Next]_vars => IInv'
BY TypeStep, ShapeStep, AloneStep, LockStep, RoomStep, BoundedStep DEF IInv

\* However many requests and redelivered runs interleave, no two attempts of
\* one account and document are queued or running at once.
THEOREM AtMostOneUnfinished == Spec => []OneUnfinished
<1>1. IInv => OneUnfinished
  BY DEF IInv
<1> QED BY <1>1, IInvInit, IInvStep, PTL DEF Spec

\* However many requests of an account arrive at once, wherever they are in
\* the endpoint and whichever of them die, no period of the account's rate
\* limit ever holds more attempts than the limit allows.
THEOREM NeverOverTheLimit == Spec => []LimitRespected
<1>1. IInv => LimitRespected
  BY DEF IInv, PeriodBounded, LimitRespected, TypeOK
<1> QED BY <1>1, IInvInit, IInvStep, PTL DEF Spec

-----------------------------------------------------------------------------
\* Decisions.

\* A request stands between its second look and its insert because it stood
\* there before, or because it has just looked.
Undecided == {"store", "create"}

LEMMA Decided ==
    ASSUME TypeOK, [Next]_vars, NEW q \in Requests, pc'[q] \in Undecided
    PROVE  /\ upload'[q] = upload[q]
           /\ pc[q] \in Holding
           /\ \/ pc[q] \in Undecided /\ basis'[q] = basis[q]
              \/ /\ basis'[q] = latest_for_document(upload[q].acct, upload[q].doc)
                 /\ UNCHANGED <<rows, remediation>>
<1> USE DEF requestVars, jobVars, workerVars, configVars
<1>a. /\ pc \in [Requests -> PCs]
      /\ upload \in [Requests -> Upload]
      /\ basis \in [Requests -> SUBSET Requests]
  BY DEF TypeOK
<1> DEFINE Goal ==
           /\ upload'[q] = upload[q]
           /\ pc[q] \in Holding
           /\ \/ pc[q] \in Undecided /\ basis'[q] = basis[q]
              \/ /\ basis'[q] = latest_for_document(upload[q].acct, upload[q].doc)
                 /\ UNCHANGED <<rows, remediation>>
<1>1. ASSUME NEW p \in Requests, NEW l, Goto(p, l), l \notin Undecided,
             \A o \in Requests : o # p => upload'[o] = upload[o]
                                          /\ basis'[o] = basis[o]
      PROVE  Goal
  BY <1>a, <1>1 DEF Goto, Undecided, Holding
<1>2. ASSUME NEW p \in Requests, NEW r, Reuse(p, r) PROVE Goal
  BY <1>1, <1>2 DEF Reuse, Undecided
<1>3. ASSUME NEW p \in Requests, Arrive(p) \/ Resubmit(p) PROVE Goal
  <2>1. \A o \in Requests : o # p => upload'[o] = upload[o]
                                     /\ basis'[o] = basis[o]
    BY <1>a, <1>3 DEF Arrive, Resubmit
  <2> QED BY <1>1, <1>3, <2>1 DEF Arrive, Resubmit, Undecided
<1>4. ASSUME NEW p \in Requests, FirstLook(p) PROVE Goal
  BY <1>1, <1>2, <1>4 DEF FirstLook, Undecided
<1>5. ASSUME NEW p \in Requests, Check(p) PROVE Goal
  BY <1>1, <1>5 DEF Check, Undecided
<1>6. ASSUME NEW p \in Requests, SecondLook(p) PROVE Goal
  <2>1. CASE \E r \in reusable_attempt(upload[p]) : Reuse(p, r)
    BY <1>2, <2>1
  <2>2. CASE /\ Goto(p, "store")
             /\ basis' = [basis EXCEPT ![p] =
                    latest_for_document(upload[p].acct, upload[p].doc)]
             /\ UNCHANGED <<upload, att, seen, locks>>
    <3>1. pc[p] = "relook" /\ UNCHANGED <<rows, remediation>>
      BY <1>6 DEF SecondLook
    <3>2. CASE p = q
      BY <1>a, <2>2, <3>1, <3>2 DEF Holding
    <3>3. CASE p # q
      BY <1>a, <2>2, <3>3 DEF Goto, Undecided, Holding
    <3> QED BY <3>2, <3>3
  <2> QED BY <1>6, <2>1, <2>2 DEF SecondLook
<1>7. ASSUME NEW p \in Requests, StoreOriginal(p) PROVE Goal
  BY <1>a, <1>7 DEF StoreOriginal, Goto, Undecided, Holding
<1>8. ASSUME NEW p \in Requests, Create(p) PROVE Goal
  BY <1>1, <1>8 DEF Create, Undecided
<1>9. ASSUME NEW p \in Requests, HandleClash(p) PROVE Goal
  BY <1>1, <1>2, <1>9 DEF HandleClash, Undecided
<1>10. ASSUME NEW p \in Requests,
              Commit(p) \/ ClaimEnqueue(p) \/ Enqueue(p) \/ RequestCrash(p)
       PROVE  Goal
  BY <1>1, <1>10 DEF Commit, ClaimEnqueue, Enqueue, RequestCrash, Undecided
<1>11. ASSUME UNCHANGED <<pc, upload, basis>> PROVE Goal
  BY <1>11 DEF Undecided, Holding
<1>12. ASSUME NEW r \in Requests, WorkerStep(r) PROVE Goal
  BY <1>11, <1>12
  DEF WorkerStep, WorkerFetch, WorkerMark, WorkerFinish, WorkerDie
<1>13. CASE Tick \/ Deploy \/ SetRetryFloor \/ UNCHANGED vars
  BY <1>11, <1>13 DEF Tick, Deploy, SetRetryFloor, vars
<1> QED
  BY <1>3, <1>4, <1>5, <1>6, <1>7, <1>8, <1>9, <1>10, <1>12, <1>13
  DEF Next, RequestStep

LEMMA DecisionStep ==
    ASSUME IInv, DecisionIsCurrent, [Next]_vars
    PROVE  DecisionIsCurrent'
<1> SUFFICES ASSUME NEW q \in Requests, pc'[q] \in Undecided,
                    IsLimited(upload'[q].acct)
             PROVE  basis'[q] = latest_for_document(upload[q].acct,
                                                    upload[q].doc)'
  BY DEF DecisionIsCurrent, Undecided
<1>a. TypeOK /\ Shape /\ PendingIsAlone /\ LockHeld
  BY DEF IInv
<1>1. /\ upload'[q] = upload[q]
      /\ pc[q] \in Holding
      /\ \/ pc[q] \in Undecided /\ basis'[q] = basis[q]
         \/ /\ basis'[q] = latest_for_document(upload[q].acct, upload[q].doc)
            /\ UNCHANGED <<rows, remediation>>
  BY <1>a, Decided
<1>2. CASE /\ basis'[q] = latest_for_document(upload[q].acct, upload[q].doc)
           /\ UNCHANGED <<rows, remediation>>
  BY <1>1, <1>2 DEF latest_for_document, OfDocument
<1>3. CASE pc[q] \in Undecided /\ basis'[q] = basis[q]
  <2>1. ~Commit(q)
    BY <1>3 DEF Commit, Undecided
  <2>2. \A r \in rows' : remediation'[r].acct = upload[q].acct => r \in rows
    BY <1>1, <1>a, <2>1, AccountStill
  <2>3. rows \subseteq rows' /\ \A r \in rows : SameIdentity(r)
    BY <1>a, IdentityKept
  <2>4. OfDocument(upload[q].acct, upload[q].doc)'
            = OfDocument(upload[q].acct, upload[q].doc)
    BY <1>1, <2>2, <2>3 DEF OfDocument, SameIdentity
  <2>5. \A r \in OfDocument(upload[q].acct, upload[q].doc) :
            remediation'[r].createdAt = remediation[r].createdAt
    BY <2>3 DEF OfDocument, SameIdentity
  <2>6. latest_for_document(upload[q].acct, upload[q].doc)'
            = latest_for_document(upload[q].acct, upload[q].doc)
    BY <2>4, <2>5 DEF latest_for_document
  <2>7. basis[q] = latest_for_document(upload[q].acct, upload[q].doc)
    BY <1>1, <1>3 DEF DecisionIsCurrent, Undecided
  <2> QED BY <1>3, <2>6, <2>7
<1> QED BY <1>1, <1>2, <1>3

\* For an account with a limit, the latest attempt a request saw when it chose
\* to make a new one is still the latest when the new one is inserted.
THEOREM DecisionsStayCurrent == Spec => []DecisionIsCurrent
<1>1. Init => DecisionIsCurrent
  BY DEF Init, DecisionIsCurrent
<1> QED BY <1>1, IInvInit, IInvStep, DecisionStep, PTL DEF Spec
=============================================================================
