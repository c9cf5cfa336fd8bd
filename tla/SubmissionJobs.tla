--------------------------- MODULE SubmissionJobs ---------------------------
(***************************************************************************)
(* What becomes of an attempt once it is made: its original is stored, its *)
(* task is queued once and again only after a full wait, and it is not     *)
(* lost.  Proved for every number of requests, accounts and documents.     *)
(***************************************************************************)
EXTENDS SubmissionSafety

-----------------------------------------------------------------------------
\* Who moves a request, and who touches an attempt.

Mine(q) == Arrive(q) \/ RequestStep(q) \/ RequestCrash(q) \/ Resubmit(q)

SameRequest(q) == pc'[q] = pc[q] /\ upload'[q] = upload[q] /\ att'[q] = att[q]

LEMMA OwnSteps ==
    ASSUME TypeOK, [Next]_vars, NEW q \in Requests
    PROVE  Mine(q) \/ SameRequest(q)
<1> USE DEF requestVars, jobVars, workerVars, configVars
<1>a. /\ pc \in [Requests -> PCs] /\ upload \in [Requests -> Upload]
      /\ att \in [Requests -> Requests]
  BY DEF TypeOK
<1>1. ASSUME NEW p \in Requests, p # q, Arrive(p) \/ RequestCrash(p) \/ Resubmit(p)
      PROVE  SameRequest(q)
  BY <1>a, <1>1 DEF Arrive, RequestCrash, Resubmit, Goto, SameRequest
<1>2. ASSUME NEW p \in Requests, p # q, NEW r, Reuse(p, r) PROVE SameRequest(q)
  BY <1>a, <1>2 DEF Reuse, Goto, SameRequest
<1>3. ASSUME NEW p \in Requests, p # q, FirstLook(p) \/ SecondLook(p) \/ HandleClash(p)
      PROVE  SameRequest(q)
  BY <1>a, <1>2, <1>3 DEF FirstLook, SecondLook, HandleClash, Goto, SameRequest
<1>4. ASSUME NEW p \in Requests, p # q, Check(p) \/ StoreOriginal(p) \/ Create(p) \/ Commit(p)
      PROVE  SameRequest(q)
  BY <1>a, <1>4 DEF Check, StoreOriginal, Create, Commit, Goto, SameRequest
<1>5. ASSUME NEW p \in Requests, p # q, ClaimEnqueue(p) \/ Enqueue(p)
      PROVE  SameRequest(q)
  BY <1>a, <1>5 DEF ClaimEnqueue, Enqueue, Goto, SameRequest
<1>6. ASSUME NEW r \in Requests, WorkerStep(r) PROVE SameRequest(q)
  BY <1>6 DEF WorkerStep, WorkerFetch, WorkerMark, WorkerFinish, WorkerDie, SameRequest
<1>7. CASE Tick \/ Deploy \/ SetRetryFloor \/ UNCHANGED vars
  BY <1>7 DEF Tick, Deploy, SetRetryFloor, vars, SameRequest
<1> QED BY <1>1, <1>3, <1>4, <1>5, <1>6, <1>7 DEF Next, RequestStep, Mine

SameJob(r) ==
    /\ remediation'[r] = remediation[r] /\ claims'[r] = claims[r]
    /\ ready'[r] = ready[r] /\ fetched'[r] = fetched[r] /\ running'[r] = running[r]

\* A request that touches attempt r.
Queues(q, r) == att[q] = r /\ (ClaimEnqueue(q) \/ Enqueue(q))

LEMMA JobSteps ==
    ASSUME TypeOK, [Next]_vars, NEW r \in Requests
    PROVE  \/ Create(r) \/ RequestCrash(r) \/ WorkerStep(r)
           \/ \E q \in Requests : Queues(q, r)
           \/ SameJob(r)
<1> USE DEF requestVars, jobVars, workerVars, configVars
<1>a. /\ remediation \in [Requests -> Row] /\ ready \in [Requests -> Nat]
      /\ fetched \in [Requests -> Nat] /\ running \in [Requests -> Nat]
      /\ claims \in [Requests -> Seq(Nat)] /\ att \in [Requests -> Requests]
  BY DEF TypeOK
<1>1. ASSUME NEW p \in Requests,
             Arrive(p) \/ Resubmit(p) \/ FirstLook(p) \/ Check(p) \/ SecondLook(p)
             \/ StoreOriginal(p) \/ HandleClash(p) \/ Commit(p)
      PROVE  SameJob(r)
  BY <1>1 DEF Arrive, Resubmit, FirstLook, Check, SecondLook, StoreOriginal, HandleClash, Commit,
              SameJob
<1>2. ASSUME NEW p \in Requests, p # r, Create(p) \/ RequestCrash(p) PROVE SameJob(r)
  BY <1>a, <1>2 DEF Create, RequestCrash, SameJob
<1>3. ASSUME NEW p \in Requests, p # r, WorkerStep(p) PROVE SameJob(r)
  BY <1>a, <1>3 DEF WorkerStep, WorkerFetch, WorkerMark, WorkerFinish, WorkerDie, SameJob
<1>4. ASSUME NEW p \in Requests, att[p] # r, ClaimEnqueue(p) \/ Enqueue(p) PROVE SameJob(r)
  BY <1>a, <1>4 DEF ClaimEnqueue, Enqueue, SameJob
<1>5. CASE Tick \/ Deploy \/ SetRetryFloor \/ UNCHANGED vars
  BY <1>5 DEF Tick, Deploy, SetRetryFloor, vars, SameJob
<1> QED BY <1>1, <1>2, <1>3, <1>4, <1>5 DEF Next, RequestStep, Queues

-----------------------------------------------------------------------------
\* Originals.

\* The original is stored before the row is inserted, and the row keeps its
\* account, document and name.
Stored ==
    /\ \A q \in Requests : pc[q] = "create" => OriginalPath(upload[q]) \in originals
    /\ \A r \in Requests :
          r \in rows \/ pc[r] = "commit" => OriginalPath(remediation[r]) \in originals

LEMMA StoredInit == Init => Stored
BY DEF Init, Stored

\* Nothing deletes an original.
LEMMA OriginalsStay == ASSUME [Next]_vars PROVE originals \subseteq originals'
<1>1. ASSUME NEW q \in Requests, RequestStep(q) PROVE originals \subseteq originals'
  BY <1>1 DEF RequestStep, FirstLook, Check, SecondLook, StoreOriginal, Create, HandleClash, Commit,
              ClaimEnqueue, Enqueue
<1>2. ASSUME NEW r \in Requests, WorkerStep(r) PROVE originals \subseteq originals'
  BY <1>2 DEF WorkerStep, WorkerFetch, WorkerMark, WorkerFinish, WorkerDie
<1>3. ASSUME NEW q \in Requests, Arrive(q) \/ RequestCrash(q) \/ Resubmit(q)
      PROVE  originals \subseteq originals'
  BY <1>3 DEF Arrive, RequestCrash, Resubmit
<1>4. CASE Tick \/ Deploy \/ SetRetryFloor \/ UNCHANGED vars
  BY <1>4 DEF Tick, Deploy, SetRetryFloor, vars
<1> QED BY <1>1, <1>2, <1>3, <1>4 DEF Next

\* What a request's own step does to its place.
LEMMA Moves ==
    ASSUME TypeOK, Shape, [Next]_vars, NEW q \in Requests
    PROVE  /\ pc'[q] \in {"store", "create", "commit", "clash", "error"} => upload'[q] = upload[q]
           /\ pc'[q] = "store" => pc[q] = "store" \/ SecondLook(q)
           /\ pc'[q] = "create" => pc[q] = "create" \/ StoreOriginal(q)
           /\ pc'[q] = "commit" => pc[q] = "commit" \/ Inserted(q)
           /\ pc'[q] = "clash" => pc[q] = "clash" \/ Create(q)
           /\ pc'[q] = "error" => pc[q] = "error" \/ HandleClash(q)
           /\ pc'[q] = "enqueue" => (pc[q] = "enqueue" \/ ClaimEnqueue(q)) /\ att'[q] = att[q]
           /\ pc'[q] = "claim" /\ q \in rows' => (pc[q] = "claim" /\ att'[q] = att[q]) \/ Commit(q)
<1>a. /\ pc \in [Requests -> PCs] /\ upload \in [Requests -> Upload]
      /\ att \in [Requests -> Requests]
  BY DEF TypeOK
<1> DEFINE Goal ==
           /\ pc'[q] \in {"store", "create", "commit", "clash", "error"} => upload'[q] = upload[q]
           /\ pc'[q] = "store" => pc[q] = "store" \/ SecondLook(q)
           /\ pc'[q] = "create" => pc[q] = "create" \/ StoreOriginal(q)
           /\ pc'[q] = "commit" => pc[q] = "commit" \/ Inserted(q)
           /\ pc'[q] = "clash" => pc[q] = "clash" \/ Create(q)
           /\ pc'[q] = "error" => pc[q] = "error" \/ HandleClash(q)
           /\ pc'[q] = "enqueue" => (pc[q] = "enqueue" \/ ClaimEnqueue(q)) /\ att'[q] = att[q]
           /\ pc'[q] = "claim" /\ q \in rows' => (pc[q] = "claim" /\ att'[q] = att[q]) \/ Commit(q)
<1>1. CASE SameRequest(q)
  BY <1>1 DEF SameRequest
<1>2. CASE Arrive(q) \/ RequestCrash(q) \/ Resubmit(q)
  <2>1. pc'[q] \in {"look", "crashed", "idle"}
    BY <1>a, <1>2 DEF Arrive, RequestCrash, Resubmit, Goto
  <2> QED BY <2>1
<1>3. ASSUME NEW r, Reuse(q, r), UNCHANGED rows, q \notin rows PROVE Goal
  <2>1. pc'[q] = "claim"
    BY <1>a, <1>3 DEF Reuse, Goto
  <2> QED BY <1>3, <2>1
<1>4. CASE FirstLook(q) \/ SecondLook(q) \/ HandleClash(q)
  <2>1. q \notin rows /\ UNCHANGED rows
    BY <1>4 DEF FirstLook, SecondLook, HandleClash, Shape, Answered, jobVars
  <2>2. CASE \E r : Reuse(q, r)
    BY <1>3, <2>1, <2>2
  <2>3. CASE FirstLook(q) /\ pc'[q] = "check"
    BY <2>3
  <2>4. CASE SecondLook(q) /\ pc'[q] = "store" /\ UNCHANGED upload
    BY <2>4
  <2>5. CASE HandleClash(q) /\ pc'[q] = "error" /\ UNCHANGED upload
    BY <2>5
  <2> QED BY <1>a, <1>4, <2>2, <2>3, <2>4, <2>5 DEF FirstLook, SecondLook, HandleClash, Goto
<1>5. CASE Check(q)
  <2>1. pc'[q] \in {"relook", "throttled"}
    BY <1>a, <1>5 DEF Check, Goto
  <2> QED BY <2>1
<1>6. CASE StoreOriginal(q)
  BY <1>a, <1>6 DEF StoreOriginal, Goto
<1>7. CASE Create(q)
  <2>1. UNCHANGED upload /\ pc'[q] \in {"clash", "commit"}
    BY <1>a, <1>7 DEF Create, Goto
  <2> QED BY <1>7, <2>1 DEF Inserted
<1>8. CASE Commit(q)
  BY <1>a, <1>8 DEF Commit, Goto
<1>9. CASE ClaimEnqueue(q)
  <2>1. UNCHANGED att /\ pc'[q] \in {"enqueue", "done"}
    BY <1>a, <1>9 DEF ClaimEnqueue, Goto
  <2> QED BY <1>9, <2>1
<1>10. CASE Enqueue(q)
  BY <1>a, <1>10 DEF Enqueue, Goto
<1> QED BY <1>1, <1>2, <1>4, <1>5, <1>6, <1>7, <1>8, <1>9, <1>10, OwnSteps DEF Mine, RequestStep

\* The columns that say where the original is.
LEMMA PathKept ==
    ASSUME NEW x \in Row, NEW t \in Int, NEW s \in JobStatus
    PROVE  /\ OriginalPath(mark_running(x, t)) = OriginalPath(x)
           /\ OriginalPath(mark_enqueued(x, t)) = OriginalPath(x)
           /\ OriginalPath(mark_finished(x, s)) = OriginalPath(x)
BY DEF Row, OriginalPath, mark_running, mark_enqueued, mark_finished

LEMMA StoredStep ==
    ASSUME TypeOK, Shape, Stored, [Next]_vars
    PROVE  Stored'
<1>a. /\ rows \subseteq Requests /\ remediation \in [Requests -> Row]
      /\ upload \in [Requests -> Upload] /\ now \in Int /\ now \in Nat
      /\ \A s \in Outcomes : s \in JobStatus
  BY OutcomesAssumption DEF TypeOK, JobStatus
<1>b. originals \subseteq originals'
  BY OriginalsStay
<1>1. ASSUME NEW q \in Requests, pc'[q] = "create"
      PROVE  OriginalPath(upload'[q]) \in originals'
  <2>1. upload'[q] = upload[q] /\ (pc[q] = "create" \/ StoreOriginal(q))
    BY <1>1, Moves
  <2> QED BY <1>b, <2>1 DEF Stored, StoreOriginal
<1>2. ASSUME NEW r \in Requests, r \in rows' \/ pc'[r] = "commit"
      PROVE  OriginalPath(remediation'[r]) \in originals'
  <2>1. CASE Create(r)
    <3>1. pc'[r] = "commit"
      <4>1. pc[r] = "create" /\ r \notin rows /\ UNCHANGED rows
        BY <2>1 DEF Create, Shape, Answered
      <4> QED BY <1>2, <4>1
    <3>2. remediation'[r] = NewRow(upload[r], now) /\ OriginalPath(upload[r]) \in originals
      BY <1>a, <2>1, <3>1 DEF Create, Goto, Stored, TypeOK
    <3>3. OriginalPath(NewRow(upload[r], now)) = OriginalPath(upload[r])
      BY DEF OriginalPath, NewRow
    <3> QED BY <1>b, <3>2, <3>3
  <2>2. CASE ~Create(r)
    <3>1. r \in rows \/ pc[r] = "commit"
      <4>1. r \in rows' => r \in rows \/ pc[r] = "commit"
        BY IdentityKept DEF Commit
      <4>2. pc'[r] = "commit" => pc[r] = "commit"
        BY <2>2, Moves DEF Inserted
      <4> QED BY <1>2, <4>1, <4>2
    <3>2. OriginalPath(remediation'[r]) = OriginalPath(remediation[r])
      <4>1. CASE SameJob(r)
        BY <4>1 DEF SameJob
      <4>2. CASE RequestCrash(r)
        <5>1. pc[r] # "commit"
          <6>1. pc'[r] = "crashed" /\ UNCHANGED rows
            BY <4>2 DEF RequestCrash, Goto, TypeOK
          <6> QED BY <1>2, <6>1 DEF Shape, Answered
        <5> QED BY <4>2, <5>1 DEF RequestCrash
      <4>3. CASE WorkerStep(r)
        <5>1. \/ UNCHANGED remediation
              \/ remediation' = [remediation EXCEPT ![r] = mark_running(@, now)]
              \/ \E s \in Outcomes : remediation' = [remediation EXCEPT ![r] = mark_finished(@, s)]
          BY <4>3 DEF WorkerStep, WorkerFetch, WorkerMark, WorkerFinish, WorkerDie, jobVars
        <5>2. \/ remediation'[r] = remediation[r]
              \/ remediation'[r] = mark_running(remediation[r], now)
              \/ \E s \in Outcomes : remediation'[r] = mark_finished(remediation[r], s)
          BY <1>a, <5>1
        <5> QED BY <1>a, <5>2, PathKept DEF JobStatus, FINISHED_STATUSES
      <4>4. ASSUME NEW q \in Requests, Queues(q, r)
            PROVE  OriginalPath(remediation'[r]) = OriginalPath(remediation[r])
        <5>1. \/ UNCHANGED remediation
              \/ remediation' = [remediation EXCEPT ![r] = mark_enqueued(@, now)]
          BY <4>4 DEF Queues, ClaimEnqueue, Enqueue, jobVars
        <5>2. \/ remediation'[r] = remediation[r]
              \/ remediation'[r] = mark_enqueued(remediation[r], now)
          BY <1>a, <5>1
        <5>3. "queued" \in JobStatus
          BY DEF JobStatus, UNFINISHED_STATUSES
        <5> QED BY <1>a, <5>2, <5>3, PathKept
      <4> QED BY <2>2, <4>1, <4>2, <4>3, <4>4, JobSteps
    <3> QED BY <1>b, <3>1, <3>2 DEF Stored
  <2> QED BY <2>1, <2>2
<1> QED BY <1>1, <1>2, TypeStep DEF Stored, TypeOK

\* Whatever dies on the way, the original of an attempt that a worker can meet
\* is in storage (RemediationService.create stores it before the INSERT).
THEOREM OriginalsAreStored == Spec => []SourceStored
<1>1. TypeOK /\ Stored => SourceStored
  BY DEF TypeOK, Stored, SourceStored, OriginalPath
<1>2. IInv => TypeOK /\ Shape
  BY DEF IInv
<1> QED BY <1>1, <1>2, IInvInit, IInvStep, StoredInit, StoredStep, PTL DEF Spec

-----------------------------------------------------------------------------
\* Claims.

\* last_enqueued_at is the time of the last claim, and only a committed attempt
\* is ever claimed.
LastClaim ==
    \A r \in Requests : claims[r] # <<>> =>
        r \in rows /\ remediation[r].lastEnq = claims[r][Len(claims[r])]

\* Who adds to the claims of an attempt: a request that read it as stuck and
\* finds last_enqueued_at unchanged.
Claimed(q, r) ==
    /\ r \in rows /\ is_stuck(seen[q]) /\ remediation[r].lastEnq = seen[q].lastEnq
    /\ claims'[r] = Append(claims[r], now)
    /\ remediation'[r] = mark_enqueued(remediation[r], now)

\* Other steps leave last_enqueued_at of a committed attempt alone.
LEMMA ClaimSteps ==
    ASSUME TypeOK, Shape, [Next]_vars, NEW r \in Requests
    PROVE  \/ \E q \in Requests : Claimed(q, r)
           \/ /\ claims'[r] = claims[r]
              /\ r \in rows => remediation'[r].lastEnq = remediation[r].lastEnq
<1>a. /\ remediation \in [Requests -> Row] /\ claims \in [Requests -> Seq(Nat)]
      /\ att \in [Requests -> Requests]
  BY DEF TypeOK
<1>1. CASE SameJob(r)
  BY <1>1 DEF SameJob
<1>2. CASE Create(r) \/ RequestCrash(r)
  <2>1. r \in rows => UNCHANGED remediation
    BY <1>2 DEF Create, RequestCrash, Shape, Answered
  <2> QED BY <1>2, <2>1 DEF Create, RequestCrash
<1>3. CASE WorkerStep(r)
  <2>1. UNCHANGED claims
    BY <1>3 DEF WorkerStep, WorkerFetch, WorkerMark, WorkerFinish, WorkerDie
  <2>2. \/ UNCHANGED remediation
        \/ remediation' = [remediation EXCEPT ![r] = mark_running(@, now)]
        \/ \E s \in Outcomes : remediation' = [remediation EXCEPT ![r] = mark_finished(@, s)]
    BY <1>3 DEF WorkerStep, WorkerFetch, WorkerMark, WorkerFinish, WorkerDie, jobVars
  <2>3. \/ remediation'[r] = remediation[r]
        \/ remediation'[r] = mark_running(remediation[r], now)
        \/ \E s \in Outcomes : remediation'[r] = mark_finished(remediation[r], s)
    BY <1>a, <2>2
  <2>4. \A t, s : /\ mark_running(remediation[r], t).lastEnq = remediation[r].lastEnq
                  /\ mark_finished(remediation[r], s).lastEnq = remediation[r].lastEnq
    BY <1>a DEF Row, mark_running, mark_finished
  <2> QED BY <2>1, <2>3, <2>4
<1>4. ASSUME NEW q \in Requests, Queues(q, r)
      PROVE  \/ Claimed(q, r)
             \/ /\ claims'[r] = claims[r]
                /\ r \in rows => remediation'[r].lastEnq = remediation[r].lastEnq
  <2>1. CASE Enqueue(q)
    BY <2>1 DEF Enqueue, jobVars
  <2>2. CASE ClaimEnqueue(q) /\ UNCHANGED <<remediation, claims>>
    BY <2>2
  <2>3. CASE /\ ClaimEnqueue(q) /\ is_stuck(seen[q])
             /\ remediation[r].lastEnq = seen[q].lastEnq
             /\ remediation' = [remediation EXCEPT ![r] = mark_enqueued(@, now)]
             /\ claims' = [claims EXCEPT ![r] = Append(@, now)]
    <3>1. r \in rows
      BY <1>4, <2>3 DEF Queues, ClaimEnqueue, Shape
    <3> QED BY <1>a, <2>3, <3>1 DEF Claimed
  <2> QED BY <1>4, <2>1, <2>2, <2>3 DEF Queues, ClaimEnqueue
<1> QED BY <1>1, <1>2, <1>3, <1>4, JobSteps

\* An attempt that reads as stuck was last queued more than a full wait ago.
LEMMA StuckWaited ==
    ASSUME NEW x \in Row, is_stuck(x), now \in Nat
    PROVE  now - x.lastEnq > StuckQueued
<1>1. x.lastEnq \in Int /\ x.createdAt \in Int /\ x.startedAt \in Int
  BY DEF Row
<1>2. PICK t \in Int, wait \in Nat :
         wait >= StuckQueued /\ now - (IF x.lastEnq > t THEN x.lastEnq ELSE t) > wait
  <2>1. CASE x.status = "queued"
    BY <1>1, <2>1, TimesAssumption DEF is_stuck
  <2>2. CASE x.status = "running"
    BY <1>1, <2>2, TimesAssumption DEF is_stuck
  <2> QED BY <2>1, <2>2 DEF is_stuck
<1> QED BY <1>1, <1>2, TimesAssumption

LEMMA SpacedStep ==
    ASSUME TypeOK, Shape, LastClaim, ClaimsAreSpaced, [Next]_vars
    PROVE  LastClaim' /\ ClaimsAreSpaced'
<1>a. /\ remediation \in [Requests -> Row] /\ claims \in [Requests -> Seq(Nat)]
      /\ seen \in [Requests -> Row] /\ now \in Nat /\ rows \subseteq rows'
  BY IdentityKept DEF TypeOK
<1>1. ASSUME NEW r \in Requests, NEW q \in Requests, Claimed(q, r)
      PROVE  /\ r \in rows' /\ remediation'[r].lastEnq = claims'[r][Len(claims'[r])]
             /\ \A i \in 1..(Len(claims'[r]) - 1) :
                   claims'[r][i + 1] - claims'[r][i] > StuckQueued
  <2> DEFINE c == claims[r]
             d == claims'[r]
  <2>1. c \in Seq(Nat) /\ d = Append(c, now) /\ r \in rows'
    BY <1>a, <1>1 DEF Claimed
  <2>2. mark_enqueued(remediation[r], now).lastEnq = now
    BY <1>a DEF Row, mark_enqueued
  <2>3. now - seen[q].lastEnq > StuckQueued /\ remediation[r].lastEnq = seen[q].lastEnq
    BY <1>a, <1>1, StuckWaited DEF Claimed
  <2>4. c # <<>> => now - c[Len(c)] > StuckQueued
    BY <2>3 DEF LastClaim
  <2>5. \A i \in 1..(Len(c) - 1) : c[i + 1] - c[i] > StuckQueued
    BY DEF ClaimsAreSpaced
  <2>6. remediation'[r].lastEnq = now
    BY <1>1, <2>2 DEF Claimed
  <2> HIDE DEF c, d
  <2>7. Len(c) \in Nat /\ Len(d) = Len(c) + 1 /\ d[Len(d)] = now
        /\ \A i \in 1..Len(c) : d[i] = c[i]
    BY <1>a, <2>1
  <2>8. ASSUME NEW i \in 1..(Len(d) - 1) PROVE d[i + 1] - d[i] > StuckQueued
    <3>1. CASE i = Len(c)
      <4>1. c # <<>> /\ d[i + 1] = now /\ d[i] = c[Len(c)]
        BY <2>1, <2>7, <2>8, <3>1
      <4> QED BY <2>4, <4>1
    <3>2. CASE i # Len(c)
      <4>1. i \in 1..(Len(c) - 1) /\ i \in 1..Len(c) /\ i + 1 \in 1..Len(c)
        BY <2>7, <2>8, <3>2
      <4> QED BY <2>5, <2>7, <4>1
    <3> QED BY <3>1, <3>2
  <2> QED BY <2>1, <2>6, <2>7, <2>8 DEF d
<1>2. ASSUME NEW r \in Requests, claims'[r] = claims[r],
             r \in rows => remediation'[r].lastEnq = remediation[r].lastEnq
      PROVE  /\ claims'[r] # <<>> =>
                   r \in rows' /\ remediation'[r].lastEnq = claims'[r][Len(claims'[r])]
             /\ \A i \in 1..(Len(claims'[r]) - 1) :
                   claims'[r][i + 1] - claims'[r][i] > StuckQueued
  BY <1>a, <1>2 DEF LastClaim, ClaimsAreSpaced
<1> QED BY <1>1, <1>2, ClaimSteps DEF LastClaim, ClaimsAreSpaced

\* However many resubmits find an attempt stuck, and however stale the copies
\* they decide on, one full wait separates two claims of it (claim_enqueue is one
\* conditional UPDATE).
THEOREM ClaimsStaySpaced == Spec => []ClaimsAreSpaced
<1>1. Init => LastClaim /\ ClaimsAreSpaced
  BY DEF Init, LastClaim, ClaimsAreSpaced
<1>2. IInv => TypeOK /\ Shape
  BY DEF IInv
<1>3. ASSUME TypeOK, Shape, LastClaim /\ ClaimsAreSpaced, [Next]_vars
      PROVE  (LastClaim /\ ClaimsAreSpaced)'
  BY <1>3, SpacedStep
<1> QED BY <1>1, <1>2, <1>3, IInvInit, IInvStep, PTL DEF Spec

-----------------------------------------------------------------------------
\* No attempt is lost.

Queueing == {"claim", "enqueue"}
Tasks(r) == ready[r] + fetched[r] + running[r]

\* The request that made an attempt answers for that attempt.
OwnAttempt == \A q \in rows : pc[q] \in Queueing => att[q] = q

LEMMA OwnStep ==
    ASSUME TypeOK, Shape, OwnAttempt, [Next]_vars
    PROVE  OwnAttempt'
<1> SUFFICES ASSUME NEW q \in rows', pc'[q] \in Queueing PROVE att'[q] = q
  BY DEF OwnAttempt
<1>a. q \in Requests /\ att \in [Requests -> Requests]
  BY IdentityKept DEF TypeOK
<1>1. CASE Commit(q)
  BY <1>a, <1>1 DEF Commit
<1>2. CASE ~Commit(q)
  <2>1. q \in rows
    BY <1>2, IdentityKept
  <2>2. att'[q] = att[q] /\ (pc[q] \in Queueing \/ ClaimEnqueue(q))
    BY <1>a, <1>2, Moves DEF Queueing
  <2>3. pc[q] \in Queueing
    BY <2>2 DEF ClaimEnqueue, Queueing
  <2> QED BY <2>1, <2>2, <2>3 DEF OwnAttempt
<1> QED BY <1>1, <1>2

LEMMA CrashesGrow ==
    ASSUME TypeOK, [Next]_vars, crashes' = 0
    PROVE  /\ crashes = 0
           /\ \A q \in Requests : ~RequestCrash(q) /\ ~WorkerDie(q)
<1>a. crashes \in Nat
  BY DEF TypeOK
<1>1. \A q \in Requests : ~RequestCrash(q) /\ ~WorkerDie(q)
  BY <1>a DEF RequestCrash, WorkerDie
<1>2. ASSUME NEW q \in Requests, Arrive(q) \/ RequestStep(q) \/ Resubmit(q)
      PROVE  UNCHANGED crashes
  BY <1>2 DEF Arrive, Resubmit, RequestStep, FirstLook, Check, SecondLook, StoreOriginal, Create,
              HandleClash, Commit, ClaimEnqueue, Enqueue
<1>3. ASSUME NEW r \in Requests, WorkerFetch(r) \/ WorkerMark(r) \/ WorkerFinish(r)
      PROVE  UNCHANGED crashes
  BY <1>3 DEF WorkerFetch, WorkerMark, WorkerFinish
<1>4. CASE Tick \/ Deploy \/ SetRetryFloor \/ UNCHANGED vars
  BY <1>1, <1>4 DEF Tick, Deploy, SetRetryFloor, vars
<1> QED BY <1>1, <1>2, <1>3, <1>4 DEF Next, WorkerStep

LEMMA NotLostStep ==
    ASSUME IInv, OwnAttempt, NoJobLost, [Next]_vars
    PROVE  NoJobLost'
<1> SUFFICES ASSUME crashes' = 0, NEW r \in rows', remediation'[r].status \in UNFINISHED_STATUSES
             PROVE  \/ ready'[r] + fetched'[r] + running'[r] > 0
                    \/ pc'[r] \in Queueing
  BY DEF NoJobLost, Queueing
<1>0. TypeOK /\ Shape /\ OneUnfinished
  BY DEF IInv
<1>a. /\ r \in Requests /\ rows \subseteq Requests /\ remediation \in [Requests -> Row]
      /\ ready \in [Requests -> Nat] /\ fetched \in [Requests -> Nat]
      /\ running \in [Requests -> Nat] /\ pc \in [Requests -> PCs]
      /\ att \in [Requests -> Requests]
  BY <1>0, IdentityKept DEF TypeOK
<1>b. crashes = 0 /\ \A q \in Requests : ~RequestCrash(q) /\ ~WorkerDie(q)
  BY <1>0, CrashesGrow
<1>n. /\ ready[r] \in Nat /\ fetched[r] \in Nat /\ running[r] \in Nat
      /\ ready'[r] \in Nat /\ fetched'[r] \in Nat /\ running'[r] \in Nat
  BY <1>0, <1>a, TypeStep DEF TypeOK
<1>1. CASE Commit(r)
  BY <1>a, <1>1 DEF Commit, Goto, Queueing
<1>2. CASE ~Commit(r)
  <2>1. r \in rows
    BY <1>0, <1>2, IdentityKept
  <2>2. pc[r] \in Queueing => pc'[r] \in Queueing \/ Enqueue(r)
    <3>1. CASE SameRequest(r)
      BY <3>1 DEF SameRequest
    <3>2. CASE Mine(r) /\ pc[r] \in Queueing
      <4>1. ClaimEnqueue(r) \/ Enqueue(r)
        BY <1>b, <1>a, <3>2 DEF Mine, Queueing, Arrive, Resubmit, Answered, RequestStep, FirstLook, Check,
           SecondLook, StoreOriginal, Create, HandleClash, Commit
      <4>2. att[r] = r
        BY <2>1, <3>2 DEF OwnAttempt
      <4> QED BY <1>a, <4>1, <4>2 DEF ClaimEnqueue, Goto, Queueing
    <3> QED BY <1>0, <1>a, <3>1, <3>2, OwnSteps
  <2>3. CASE Enqueue(r) /\ att[r] = r
    <3>1. ready'[r] = ready[r] + 1
      BY <1>a, <2>3 DEF Enqueue
    <3> QED BY <1>n, <3>1
  <2>4. CASE SameJob(r) /\ ~Enqueue(r)
    <3>1. Tasks(r) > 0 \/ pc[r] \in Queueing
      BY <1>b, <2>1, <2>4 DEF NoJobLost, SameJob, Tasks, Queueing
    <3> QED BY <2>2, <2>4, <3>1 DEF SameJob, Tasks
  <2>5. ASSUME NEW q \in Requests, Queues(q, r), ~Enqueue(r) PROVE Tasks(r)' > 0 \/ pc'[r] \in Queueing
    <3>1. CASE Enqueue(q)
      <4>1. ready'[r] = ready[r] + 1
        BY <1>a, <2>5, <3>1 DEF Enqueue, Queues
      <4> QED BY <1>n, <4>1 DEF Tasks
    <3>2. CASE ClaimEnqueue(q)
      <4>1. remediation'[r].status = remediation[r].status
        <5>1. remediation' = remediation
              \/ remediation' = [remediation EXCEPT ![r] = mark_enqueued(@, now)]
          BY <2>5, <3>2 DEF Queues, ClaimEnqueue
        <5>2. mark_enqueued(remediation[r], now).status = remediation[r].status
          BY <1>a DEF mark_enqueued, Row
        <5> QED BY <1>a, <5>1, <5>2
      <4>2. Tasks(r)' = Tasks(r)
        BY <3>2 DEF ClaimEnqueue, workerVars, Tasks
      <4>3. Tasks(r) > 0 \/ pc[r] \in Queueing
        BY <1>b, <2>1, <4>1 DEF NoJobLost, Tasks, Queueing
      <4> QED BY <2>2, <2>5, <4>2, <4>3
    <3> QED BY <2>5, <3>1, <3>2 DEF Queues
  <2>6. CASE WorkerFetch(r)
    <3>1. remediation[r].status \notin FINISHED_STATUSES
      BY <2>6 DEF WorkerFetch, jobVars, UNFINISHED_STATUSES, FINISHED_STATUSES
    <3>2. fetched'[r] = fetched[r] + 1
      BY <1>a, <2>6, <3>1 DEF WorkerFetch
    <3> QED BY <1>n, <3>2
  <2>7. CASE WorkerMark(r)
    <3>1. CASE running' = [running EXCEPT ![r] = @ + 1]
      <4>1. running'[r] = running[r] + 1
        BY <1>a, <3>1
      <4> QED BY <1>n, <4>1
    <3>2. CASE /\ UNCHANGED remediation
               /\ UnfinishedRivals(r, remediation[r].acct, remediation[r].doc) # {}
      <4>1. PICK s \in rows : /\ s # r /\ remediation[s].acct = remediation[r].acct
                              /\ remediation[s].doc = remediation[r].doc
                              /\ remediation[s].status \in UNFINISHED_STATUSES
        BY <3>2 DEF UnfinishedRivals, OfDocument
      <4> QED BY <1>0, <2>1, <3>2, <4>1 DEF OneUnfinished, UNFINISHED_STATUSES, FINISHED_STATUSES
    <3> QED BY <2>7, <3>1, <3>2 DEF WorkerMark
  <2>8. CASE WorkerFinish(r)
    <3>1. PICK s \in Outcomes : remediation' = [remediation EXCEPT ![r] = mark_finished(@, s)]
      BY <2>8 DEF WorkerFinish
    <3>2. mark_finished(remediation[r], s).status = s
      BY <1>a DEF mark_finished, Row
    <3> QED BY <1>a, <3>1, <3>2, OutcomesAssumption DEF FINISHED_STATUSES, UNFINISHED_STATUSES
  <2>9. ~Create(r)
    BY <1>0, <2>1 DEF Create, Shape, Answered
  <2>10. Enqueue(r) => att[r] = r
    BY <2>1 DEF Enqueue, OwnAttempt, Queueing
  <2> QED BY <1>0, <1>a, <1>b, <2>3, <2>4, <2>5, <2>6, <2>7, <2>8, <2>9, <2>10, JobSteps
          DEF WorkerStep, Tasks
<1> QED BY <1>1, <1>2

\* Unless a process is killed, whatever is queued or running is in somebody's
\* hands: the request that made it, the task queue, or a run
\* (CreateRemediationView.post queues what it made after the commit).
THEOREM NothingIsLost == Spec => []NoJobLost
<1>1. Init => OwnAttempt /\ NoJobLost
  BY DEF Init, OwnAttempt, NoJobLost
<1>2. ASSUME IInv, OwnAttempt /\ NoJobLost, [Next]_vars
      PROVE  (OwnAttempt /\ NoJobLost)'
  BY <1>2, OwnStep, NotLostStep DEF IInv
<1> QED BY <1>1, <1>2, IInvInit, IInvStep, PTL DEF Spec

-----------------------------------------------------------------------------
\* Attempts queued once.

NoClaims == \A r \in Requests : claims[r] = <<>>

Finished(r) == remediation[r].status \in FINISHED_STATUSES

\* A row that is about to be committed is queued, was inserted after every
\* committed one of its document, and no row is dated in the future.
Pending ==
    /\ \A r \in Requests : r \in rows \/ pc[r] = "commit" => remediation[r].createdAt <= now
    /\ \A q \in Requests : pc[q] = "commit" =>
          /\ ~Finished(q)
          /\ \A s \in OfDocument(upload[q].acct, upload[q].doc) :
                remediation[s].createdAt <= remediation[q].createdAt

\* An attempt has one task in its life, from the request that made it.
QueuedOnce ==
    NoClaims =>
        /\ \A q \in Requests : pc[q] = "enqueue" => att[q] = q
        /\ \A r \in rows :
              /\ Tasks(r) <= 1
              /\ pc[r] \in Queueing => Tasks(r) = 0 /\ ~Finished(r)
              /\ Finished(r) => Tasks(r) = 0

\* Only the newest attempt of a document is unfinished.
OlderFinished ==
    NoClaims =>
        \A r, s \in rows :
            (/\ remediation[r].acct = remediation[s].acct
             /\ remediation[r].doc = remediation[s].doc
             /\ remediation[r].createdAt < remediation[s].createdAt) => Finished(r)

\* Under the account's lock nothing of the document is unfinished from the second
\* look to the insert, so the insert does not clash.
ClearToInsert ==
    NoClaims =>
        \A q \in Requests : IsLimited(upload[q].acct) =>
            /\ pc[q] \notin {"clash", "error"}
            /\ pc[q] \in Undecided =>
                  \A r \in OfDocument(upload[q].acct, upload[q].doc) : Finished(r)

LEMMA PendingStep ==
    ASSUME TypeOK, Shape, PendingIsAlone, Pending, [Next]_vars
    PROVE  Pending'
<1>a. /\ rows \subseteq Requests /\ remediation \in [Requests -> Row]
      /\ upload \in [Requests -> Upload] /\ now \in Nat /\ now' \in Nat /\ now <= now'
      /\ pc \in [Requests -> PCs]
      /\ \A r \in Requests : remediation[r].createdAt \in Int
  BY TypeStep, IdentityKept DEF TypeOK, Row
<1>1. ASSUME NEW q \in Requests, Inserted(q)
      PROVE  /\ remediation'[q].createdAt = now /\ remediation'[q].status = "queued"
             /\ UNCHANGED <<rows, upload>>
  <2>1. UNCHANGED <<rows, upload>> /\ remediation' = [remediation EXCEPT ![q] = NewRow(upload[q], now)]
    BY <1>a, <1>1 DEF Inserted, Create, Goto
  <2> QED BY <1>a, <2>1, NewRowFields
<1>2. ASSUME NEW q \in Requests, pc[q] = "commit", pc'[q] = "commit"
      PROVE  remediation'[q] = remediation[q] /\ upload'[q] = upload[q]
  <2>1. q \notin rows
    BY <1>2 DEF Shape, Answered
  <2>2. ~Create(q) /\ ~RequestCrash(q)
    BY <1>a, <1>2 DEF Create, RequestCrash, Goto
  <2>3. ~WorkerStep(q)
    <3>1. ready[q] = 0 /\ fetched[q] = 0 /\ running[q] = 0
      BY <2>1 DEF Shape, TypeOK
    <3> QED BY <3>1 DEF WorkerStep, WorkerFetch, WorkerMark, WorkerFinish, WorkerDie
  <2>4. \A p \in Requests : ~Queues(p, q)
    BY <2>1 DEF Queues, ClaimEnqueue, Enqueue, Shape
  <2>5. SameJob(q)
    BY <2>2, <2>3, <2>4, JobSteps
  <2> QED BY <1>2, <2>5, Moves DEF SameJob
<1>3. ASSUME NEW r \in Requests, r \in rows' \/ pc'[r] = "commit"
      PROVE  remediation'[r].createdAt <= now'
  <2>1. CASE r \in rows
    <3>1. remediation'[r].createdAt = remediation[r].createdAt /\ remediation[r].createdAt <= now
      BY <2>1, IdentityKept DEF SameIdentity, Pending
    <3> QED BY <1>a, <3>1
  <2>2. CASE Commit(r)
    <3>1. remediation'[r] = remediation[r] /\ remediation[r].createdAt <= now
      BY <2>2 DEF Commit, Pending
    <3> QED BY <1>a, <3>1
  <2>3. CASE pc'[r] = "commit" /\ pc[r] = "commit"
    <3>1. remediation'[r] = remediation[r] /\ remediation[r].createdAt <= now
      BY <1>2, <2>3 DEF Pending
    <3> QED BY <1>a, <3>1
  <2>4. CASE Inserted(r)
    BY <1>1, <1>a, <2>4
  <2> QED BY <1>3, <2>1, <2>2, <2>3, <2>4, IdentityKept, Moves
<1>4. ASSUME NEW q \in Requests, pc'[q] = "commit"
      PROVE  /\ ~Finished(q)'
             /\ \A s \in rows' : (/\ remediation'[s].acct = upload'[q].acct
                                  /\ remediation'[s].doc = upload'[q].doc)
                    => remediation'[s].createdAt <= remediation'[q].createdAt
  <2>1. CASE pc[q] = "commit"
    <3>1. remediation'[q] = remediation[q] /\ upload'[q] = upload[q]
      BY <1>2, <1>4, <2>1
    <3>2. ASSUME NEW s \in rows', remediation'[s].acct = upload[q].acct,
                 remediation'[s].doc = upload[q].doc
          PROVE  s \in rows /\ SameIdentity(s)
      <4>1. ASSUME Commit(s), s \in Requests PROVE FALSE
        <5>1. pc[s] = "commit" /\ remediation'[s] = remediation[s] /\ pc'[s] # "commit"
          BY <1>a, <4>1 DEF Commit, Goto
        <5>2. upload[s].acct = upload[q].acct /\ upload[s].doc = upload[q].doc
          BY <3>2, <4>1, <5>1 DEF PendingIsAlone
        <5>3. s \in PendingRivals(q, upload[q].acct, upload[q].doc)
          BY <1>4, <4>1, <5>1, <5>2 DEF PendingRivals
        <5> QED BY <2>1, <5>3 DEF PendingIsAlone
      <4> QED BY <3>2, <4>1, IdentityKept
    <3>3. \A s \in rows : (remediation[s].acct = upload[q].acct /\ remediation[s].doc = upload[q].doc)
                          => remediation[s].createdAt <= remediation[q].createdAt
      BY <2>1 DEF Pending, OfDocument
    <3> QED BY <2>1, <3>1, <3>2, <3>3 DEF Pending, SameIdentity, Finished
  <2>2. CASE Inserted(q)
    <3>1. remediation'[q].createdAt = now /\ remediation'[q].status = "queued" /\ UNCHANGED rows
      BY <1>1, <2>2
    <3>2. \A s \in rows : remediation'[s].createdAt <= now
      BY <1>a, IdentityKept DEF SameIdentity, Pending
    <3> QED BY <3>1, <3>2 DEF Finished, FINISHED_STATUSES
  <2> QED BY <1>4, <2>1, <2>2, Moves
<1> QED BY <1>3, <1>4 DEF Pending, OfDocument

LEMMA ClaimsGrow ==
    ASSUME TypeOK, Shape, [Next]_vars, NoClaims'
    PROVE  NoClaims
<1>1. ASSUME NEW r \in Requests PROVE claims[r] = <<>>
  <2>1. claims[r] \in Seq(Nat) /\ claims'[r] = <<>> /\ now \in Nat
    BY DEF NoClaims, TypeOK
  <2>2. Append(claims[r], now) # <<>>
    BY <2>1
  <2> QED BY <2>1, <2>2, ClaimSteps DEF Claimed
<1> QED BY <1>1 DEF NoClaims

\* As long as nothing was claimed again, a finished attempt stays finished.
LEMMA FinishedStays ==
    ASSUME TypeOK, Shape, QueuedOnce, [Next]_vars, NoClaims, NEW r \in rows, Finished(r)
    PROVE  Finished(r)'
<1>a. /\ r \in Requests /\ remediation \in [Requests -> Row] /\ ready[r] \in Nat
      /\ fetched[r] \in Nat /\ running[r] \in Nat
  BY DEF TypeOK
<1>1. Tasks(r) = 0
  BY DEF QueuedOnce
<1>2. fetched[r] = 0 /\ running[r] = 0 /\ ready[r] = 0
  <2>1. \A i, j, k \in Nat : i + j + k = 0 => i = 0 /\ j = 0 /\ k = 0
    OBVIOUS
  <2> QED BY <1>a, <1>1, <2>1 DEF Tasks
<1>3. CASE SameJob(r)
  BY <1>3 DEF SameJob, Finished
<1>4. ~WorkerStep(r)
  BY <1>2 DEF WorkerStep, WorkerFetch, WorkerMark, WorkerFinish, WorkerDie
<1>5. CASE Create(r) \/ RequestCrash(r)
  <2>1. UNCHANGED remediation
    BY <1>5 DEF Create, RequestCrash, Shape, Answered
  <2> QED BY <2>1 DEF Finished
<1>6. ASSUME NEW q \in Requests, Queues(q, r) PROVE Finished(r)'
  <2>1. \/ UNCHANGED remediation
        \/ remediation' = [remediation EXCEPT ![r] = mark_enqueued(@, now)]
    BY <1>6 DEF Queues, ClaimEnqueue, Enqueue, jobVars
  <2>2. mark_enqueued(remediation[r], now).status = remediation[r].status
    BY <1>a DEF mark_enqueued, Row
  <2> QED BY <1>a, <2>1, <2>2 DEF Finished
<1> QED BY <1>a, <1>3, <1>4, <1>5, <1>6, JobSteps

LEMMA OnceStep ==
    ASSUME IInv, Pending, OwnAttempt, QueuedOnce, [Next]_vars
    PROVE  QueuedOnce'
<1>0. TypeOK /\ Shape
  BY DEF IInv
<1> SUFFICES ASSUME NoClaims', NoClaims
             PROVE  /\ \A q \in Requests : pc'[q] = "enqueue" => att'[q] = q
                    /\ \A r \in rows' :
                          /\ Tasks(r)' <= 1
                          /\ pc'[r] \in Queueing => Tasks(r)' = 0 /\ ~Finished(r)'
                          /\ Finished(r)' => Tasks(r)' = 0
  BY <1>0, ClaimsGrow DEF QueuedOnce
<1>a. /\ rows \subseteq Requests /\ remediation \in [Requests -> Row]
      /\ ready \in [Requests -> Nat] /\ fetched \in [Requests -> Nat]
      /\ running \in [Requests -> Nat] /\ pc \in [Requests -> PCs]
      /\ att \in [Requests -> Requests] /\ claims \in [Requests -> Seq(Nat)] /\ now \in Nat
  BY <1>0 DEF TypeOK
<1>1. ASSUME NEW q \in Requests, ClaimEnqueue(q), pc'[q] = "enqueue" PROVE att[q] = q
  <2>1. claims' # [claims EXCEPT ![att[q]] = Append(@, now)]
    <3>1. PICK r \in Requests : r = att[q]
      BY <1>a
    <3>2. claims'[r] = <<>>
      BY DEF NoClaims
    <3>3. claims[r] \in Seq(Nat) /\ now \in Nat
      BY <1>a
    <3>4. Append(claims[r], now) # <<>>
      BY <3>3
    <3> QED BY <1>a, <3>1, <3>2, <3>4
  <2> QED BY <1>a, <1>1, <2>1 DEF ClaimEnqueue, Goto
<1>2. ASSUME NEW q \in Requests, pc'[q] = "enqueue" PROVE att'[q] = q
  BY <1>0, <1>1, <1>2, Moves DEF QueuedOnce
<1>3. ASSUME NEW r \in rows'
      PROVE  /\ Tasks(r)' <= 1
             /\ pc'[r] \in Queueing => Tasks(r)' = 0 /\ ~Finished(r)'
             /\ Finished(r)' => Tasks(r)' = 0
  <2>a. r \in Requests
    BY <1>0, IdentityKept DEF TypeOK
  <2>n. /\ ready[r] \in Nat /\ fetched[r] \in Nat /\ running[r] \in Nat
        /\ ready'[r] \in Nat /\ fetched'[r] \in Nat /\ running'[r] \in Nat
    BY <1>0, <2>a, TypeStep DEF TypeOK
  <2>1. CASE Commit(r)
    <3>1. r \notin rows /\ ~Finished(r)
      BY <1>0, <2>1, <2>a DEF Commit, Shape, Answered, Pending
    <3>2. ready[r] = 0 /\ fetched[r] = 0 /\ running[r] = 0
      BY <1>0, <2>a, <2>n, <3>1 DEF Shape
    <3>3. Tasks(r)' = 0 /\ remediation' = remediation
      BY <2>1, <3>2 DEF Commit, workerVars, Tasks
    <3> QED BY <3>1, <3>3 DEF Finished
  <2>2. CASE ~Commit(r)
    <3>1. r \in rows
      BY <1>0, <2>2, IdentityKept
    <3>2. /\ Tasks(r) <= 1 /\ (pc[r] \in Queueing => Tasks(r) = 0 /\ ~Finished(r))
          /\ (Finished(r) => Tasks(r) = 0)
      BY <3>1 DEF QueuedOnce
    <3>3. pc'[r] \in Queueing => pc[r] \in Queueing
      BY <1>0, <2>2, <2>a, <1>3, Moves DEF Queueing, ClaimEnqueue
    <3>4. CASE SameJob(r)
      <4>1. Tasks(r)' = Tasks(r) /\ Finished(r)' = Finished(r)
        BY <3>4 DEF SameJob, Tasks, Finished
      <4> QED BY <3>2, <3>3, <4>1
    <3>5. CASE Create(r) \/ RequestCrash(r)
      <4>1. UNCHANGED <<remediation, ready, fetched, running>>
        BY <1>0, <3>1, <3>5 DEF Create, RequestCrash, Shape, Answered, workerVars
      <4>2. Tasks(r)' = Tasks(r) /\ Finished(r)' = Finished(r)
        BY <4>1 DEF Tasks, Finished
      <4> QED BY <3>2, <3>3, <4>2
    <3>6. ASSUME NEW q \in Requests, ClaimEnqueue(q), att[q] = r
          PROVE  Tasks(r)' = Tasks(r) /\ Finished(r)' = Finished(r)
      <4>1. UNCHANGED <<ready, fetched, running>>
        BY <3>6 DEF ClaimEnqueue, workerVars
      <4>2. \/ UNCHANGED remediation
            \/ remediation' = [remediation EXCEPT ![r] = mark_enqueued(@, now)]
        BY <3>6 DEF ClaimEnqueue
      <4>3. mark_enqueued(remediation[r], now).status = remediation[r].status
        BY <1>a, <2>a DEF mark_enqueued, Row
      <4>4. remediation'[r].status = remediation[r].status
        BY <1>a, <2>a, <4>2, <4>3
      <4> QED BY <4>1, <4>4 DEF Tasks, Finished
    <3>7. ASSUME NEW q \in Requests, Enqueue(q), att[q] = r
          PROVE  Tasks(r)' <= 1 /\ pc'[r] \notin Queueing /\ ~Finished(r)'
      <4>1. q = r /\ pc[r] = "enqueue"
        BY <3>7 DEF QueuedOnce, Enqueue
      <4>2. ready'[r] = ready[r] + 1 /\ UNCHANGED <<fetched, running, remediation>> /\ pc'[r] = "done"
        BY <1>a, <2>a, <3>7, <4>1 DEF Enqueue, Goto, jobVars
      <4>3. Tasks(r) = 0 /\ ~Finished(r)
        BY <3>2, <4>1 DEF Queueing
      <4>4. ready[r] + 1 + fetched[r] + running[r] <= 1
        BY <2>n, <4>3 DEF Tasks
      <4> QED BY <4>2, <4>3, <4>4 DEF Tasks, Finished, Queueing
    <3>8. CASE WorkerFetch(r)
      <4>1. UNCHANGED <<pc, remediation, running>> /\ ready[r] > 0 /\ ready'[r] = ready[r] - 1
            /\ (fetched'[r] = fetched[r] \/ fetched'[r] = fetched[r] + 1)
        BY <1>a, <2>a, <3>8 DEF WorkerFetch, requestVars, jobVars
      <4>2. Tasks(r) = 1 /\ Tasks(r)' <= 1
        BY <2>n, <3>2, <4>1 DEF Tasks
      <4>3. ~Finished(r)' /\ pc'[r] \notin Queueing
        BY <3>2, <4>1, <4>2 DEF Finished
      <4> QED BY <4>2, <4>3
    <3>9. CASE WorkerMark(r)
      <4>1. fetched[r] > 0 /\ fetched'[r] = fetched[r] - 1 /\ UNCHANGED <<pc, ready>>
            /\ \/ running'[r] = running[r] + 1 /\ remediation'[r] = mark_running(remediation[r], now)
               \/ running'[r] = running[r] /\ remediation'[r] = remediation[r]
        BY <1>a, <2>a, <3>9 DEF WorkerMark, requestVars
      <4>2. Tasks(r) = 1 /\ Tasks(r)' <= 1
        BY <2>n, <3>2, <4>1 DEF Tasks
      <4>3. pc'[r] \notin Queueing
        BY <3>2, <4>1, <4>2
      <4>4. mark_running(remediation[r], now).status = "running"
        BY <1>a, <2>a DEF mark_running, Row
      <4>5. ~Finished(r)'
        BY <3>2, <4>1, <4>2, <4>4 DEF Finished, FINISHED_STATUSES
      <4> QED BY <4>2, <4>3, <4>5
    <3>10. CASE WorkerFinish(r)
      <4>1. running[r] > 0 /\ running'[r] = running[r] - 1 /\ UNCHANGED <<pc, ready, fetched>>
        BY <1>a, <2>a, <3>10 DEF WorkerFinish, requestVars
      <4>2. Tasks(r) = 1 /\ Tasks(r)' = 0
        BY <2>n, <3>2, <4>1 DEF Tasks
      <4>3. pc'[r] \notin Queueing
        BY <3>2, <4>1, <4>2
      <4> QED BY <4>2, <4>3
    <3>11. CASE WorkerDie(r)
      <4>1. /\ UNCHANGED <<pc, ready, remediation>>
            /\ \/ fetched[r] > 0 /\ fetched'[r] = fetched[r] - 1 /\ running'[r] = running[r]
               \/ running[r] > 0 /\ running'[r] = running[r] - 1 /\ fetched'[r] = fetched[r]
        BY <1>a, <2>a, <3>11 DEF WorkerDie, requestVars, jobVars
      <4>2. Tasks(r) = 1 /\ Tasks(r)' = 0
        BY <2>n, <3>2, <4>1 DEF Tasks
      <4>3. pc'[r] \notin Queueing
        BY <3>2, <4>1, <4>2
      <4> QED BY <4>2, <4>3
    <3>12. ASSUME NEW q \in Requests, Queues(q, r)
           PROVE  /\ Tasks(r)' <= 1
                  /\ pc'[r] \in Queueing => Tasks(r)' = 0 /\ ~Finished(r)'
                  /\ Finished(r)' => Tasks(r)' = 0
      <4>1. CASE ClaimEnqueue(q)
        BY <3>2, <3>3, <3>6, <3>12, <4>1 DEF Queues
      <4>2. CASE Enqueue(q)
        BY <3>7, <3>12, <4>2 DEF Queues
      <4> QED BY <3>12, <4>1, <4>2 DEF Queues
    <3> QED BY <1>0, <2>a, <3>4, <3>5, <3>8, <3>9, <3>10, <3>11, <3>12, JobSteps DEF WorkerStep
  <2> QED BY <2>1, <2>2
<1> QED BY <1>2, <1>3

LEMMA OlderStep ==
    ASSUME IInv, Pending, QueuedOnce, OlderFinished, [Next]_vars
    PROVE  OlderFinished'
<1>0. TypeOK /\ Shape /\ PendingIsAlone
  BY DEF IInv
<1> SUFFICES ASSUME NoClaims', NoClaims, NEW r \in rows', NEW s \in rows',
                    remediation'[r].acct = remediation'[s].acct,
                    remediation'[r].doc = remediation'[s].doc,
                    remediation'[r].createdAt < remediation'[s].createdAt
             PROVE  Finished(r)'
  BY <1>0, ClaimsGrow DEF OlderFinished
<1>a. /\ r \in Requests /\ s \in Requests /\ remediation \in [Requests -> Row]
      /\ \A q \in Requests : /\ remediation[q].createdAt \in Int
                             /\ remediation[q].status \in JobStatus
  BY <1>0, IdentityKept DEF TypeOK, Row
<1>b. \A q \in rows : SameIdentity(q)
  BY <1>0, IdentityKept
<1>c. \A q \in Requests : Commit(q) => pc[q] = "commit" /\ remediation' = remediation
  BY DEF Commit
<1>1. CASE r \in rows /\ s \in rows
  BY <1>0, <1>1, <1>b, FinishedStays DEF OlderFinished, SameIdentity
<1>2. CASE r \in rows /\ s \notin rows
  <2>1. pc[s] = "commit" /\ remediation' = remediation
    BY <1>0, <1>2, <1>c, IdentityKept
  <2>2. r \notin UnfinishedRivals(s, upload[s].acct, upload[s].doc)
        /\ remediation[s].acct = upload[s].acct /\ remediation[s].doc = upload[s].doc
    BY <1>0, <1>a, <2>1 DEF PendingIsAlone
  <2>3. remediation[r].status \notin UNFINISHED_STATUSES
    BY <1>2, <2>1, <2>2 DEF UnfinishedRivals, OfDocument
  <2> QED BY <1>a, <2>1, <2>3 DEF Finished, JobStatus
<1>3. CASE r \notin rows
  <2>1. pc[r] = "commit" /\ remediation' = remediation /\ Commit(r)
    BY <1>0, <1>3, <1>c, IdentityKept
  <2>2. s \in rows
    <3>1. rows' = rows \cup {r} /\ s # r
      BY <1>a, <2>1 DEF Commit
    <3> QED BY <3>1
  <2>3. s \in OfDocument(upload[r].acct, upload[r].doc)
    BY <1>0, <1>a, <2>1, <2>2 DEF PendingIsAlone, OfDocument
  <2>4. remediation[s].createdAt <= remediation[r].createdAt
    BY <1>a, <2>1, <2>3 DEF Pending
  <2> QED BY <1>a, <2>1, <2>4
<1> QED BY <1>1, <1>2, <1>3

\* The second look finds the unfinished attempt, if there is one.
LEMMA LookFindsUnfinished ==
    ASSUME TypeOK, OlderFinished, NoClaims, NEW u \in Upload, reusable_attempt(u) = {}
    PROVE  \A r \in OfDocument(u.acct, u.doc) : Finished(r)
<1> SUFFICES ASSUME NEW r \in OfDocument(u.acct, u.doc), ~Finished(r) PROVE FALSE
  OBVIOUS
<1>a. rows \subseteq Requests /\ \A q \in Requests : /\ remediation[q].createdAt \in Int
                                                   /\ remediation[q].status \in JobStatus
  BY DEF TypeOK, Row
<1>1. \A s \in OfDocument(u.acct, u.doc) : ~(remediation[r].createdAt < remediation[s].createdAt)
  BY DEF OlderFinished, OfDocument
<1>2. \A s \in OfDocument(u.acct, u.doc) : remediation[s].createdAt <= remediation[r].createdAt
  <2>1. \A s \in OfDocument(u.acct, u.doc) : s \in Requests
    BY <1>a DEF OfDocument
  <2>2. \A i, j \in Int : ~(i < j) => j <= i
    OBVIOUS
  <2> QED BY <1>1, <1>a, <2>1, <2>2
<1>3. r \in latest_for_document(u.acct, u.doc)
  BY <1>2 DEF latest_for_document
<1>4. remediation[r].status \in UNFINISHED_STATUSES
  BY <1>a DEF OfDocument, Finished, JobStatus
<1> QED BY <1>3, <1>4 DEF reusable_attempt

LEMMA ClearStep ==
    ASSUME IInv, Pending, QueuedOnce, OlderFinished, ClearToInsert, [Next]_vars
    PROVE  ClearToInsert'
<1>0. TypeOK /\ Shape /\ PendingIsAlone /\ LockHeld
  BY DEF IInv
<1> SUFFICES ASSUME NoClaims', NoClaims, NEW q \in Requests, IsLimited(upload'[q].acct)
             PROVE  /\ pc'[q] \notin {"clash", "error"}
                    /\ pc'[q] \in Undecided =>
                          \A r \in rows' : (/\ remediation'[r].acct = upload'[q].acct
                                            /\ remediation'[r].doc = upload'[q].doc) => Finished(r)'
  BY <1>0, ClaimsGrow DEF ClearToInsert, OfDocument
<1>a. /\ upload \in [Requests -> Upload] /\ rows \subseteq Requests /\ pc \in [Requests -> PCs]
      /\ remediation \in [Requests -> Row]
      /\ \A r \in Requests : remediation[r].status \in JobStatus
  BY <1>0 DEF TypeOK, Row
<1>1. ASSUME pc'[q] \in {"clash", "error"} PROVE FALSE
  <2>1. upload'[q] = upload[q] /\ pc[q] \notin {"clash", "error"}
    BY <1>0, <1>1, Moves DEF ClearToInsert
  <2>2. Create(q) /\ pc'[q] = "clash"
    BY <1>0, <1>1, <2>1, Moves DEF HandleClash
  <2>3. pc[q] = "create" /\ UnfinishedRivals(q, upload[q].acct, upload[q].doc) # {}
    BY <1>a, <2>2 DEF Create, Goto
  <2>4. \A r \in OfDocument(upload[q].acct, upload[q].doc) : Finished(r)
    BY <2>1, <2>3 DEF ClearToInsert, Undecided
  <2> QED BY <2>3, <2>4 DEF UnfinishedRivals, Finished, UNFINISHED_STATUSES, FINISHED_STATUSES
<1>2. ASSUME pc'[q] \in Undecided
      PROVE  \A r \in rows' : (/\ remediation'[r].acct = upload'[q].acct
                               /\ remediation'[r].doc = upload'[q].doc) => Finished(r)'
  <2>1. upload'[q] = upload[q]
    BY <1>0, <1>2, Moves DEF Undecided
  <2>2. CASE pc[q] \in Undecided
    <3>1. \A r \in OfDocument(upload[q].acct, upload[q].doc) : Finished(r)
      BY <2>1, <2>2 DEF ClearToInsert
    <3>2. pc[q] \in Holding /\ ~Commit(q)
      BY <2>2 DEF Undecided, Holding, Commit
    <3>3. \A r \in rows' : remediation'[r].acct = upload[q].acct => r \in rows
      BY <1>0, <2>1, <3>2, AccountStill
    <3>4. \A r \in rows : SameIdentity(r)
      BY <1>0, IdentityKept
    <3>5. \A r \in rows : Finished(r) => Finished(r)'
      BY <1>0, FinishedStays
    <3> QED BY <2>1, <3>1, <3>3, <3>4, <3>5 DEF OfDocument, SameIdentity
  <2>3. CASE SecondLook(q)
    <3>1. reusable_attempt(upload[q]) = {} /\ UNCHANGED <<rows, remediation>>
      BY <1>2, <1>a, <2>3 DEF SecondLook, Reuse, Goto, Undecided, jobVars
    <3>2. \A r \in OfDocument(upload[q].acct, upload[q].doc) : Finished(r)
      BY <1>0, <1>a, <3>1, LookFindsUnfinished
    <3> QED BY <2>1, <3>1, <3>2 DEF OfDocument, Finished
  <2> QED BY <1>0, <1>2, <2>2, <2>3, Moves DEF Undecided, StoreOriginal
<1> QED BY <1>1, <1>2

\* A request of a limited account never fails with the re-raised IntegrityError
\* as long as nothing was queued a second time: under the account's lock the
\* second look sees every unfinished attempt, and a finished one stays finished
\* (get_or_create_from_upload).
THEOREM LimitedRequestsDoNotClash == Spec => []LimitedNeverErrors
<1> DEFINE Once == Pending /\ OwnAttempt /\ QueuedOnce /\ OlderFinished /\ ClearToInsert
<1>1. Init => Once
  BY DEF Init, Pending, OwnAttempt, QueuedOnce, OlderFinished, ClearToInsert, Undecided
<1>2. IInv /\ Once /\ [Next]_vars => Once'
  BY PendingStep, OwnStep, OnceStep, OlderStep, ClearStep DEF IInv
<1>3. Once => LimitedNeverErrors
  BY DEF ClearToInsert, NoClaims, LimitedNeverErrors
<1> HIDE DEF Once
<1> QED BY <1>1, <1>2, <1>3, IInvInit, IInvStep, PTL DEF Spec
=============================================================================
