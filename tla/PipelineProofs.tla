--------------------------- MODULE PipelineProofs ---------------------------
(***************************************************************************)
(* Theorems about Pipeline.  For deliveries of any kind, overlapping or    *)
(* not: the rows stay consistent, and the status rests on the stored       *)
(* verdicts.  For deliveries one after another: one round of               *)
(* notifications, the job life cycle, and what the served file, the        *)
(* verdicts and the score are about.                                       *)
(***************************************************************************)
EXTENDS Pipeline, TLAPS

N == Len(PIPELINE_STEPS)
InStep == {"execute", "clear", "save", "row", "complete"}

\* A delivery starts with the first step and the uploaded original.
StartInv ==
    \A w \in Runs : run[w].pc \in {"idle", "mark"} =>
        run[w].i = 1 /\ run[w].uri = "source"

\* A delivery in the middle of a step: the step is switched on, and what it has
\* written so far is there.
StepInv ==
    \A w \in Runs : run[w].pc \in InStep =>
        /\ run[w].i <= N /\ Step(w) \in enabled[w]
        /\ run[w].pc \in {"clear", "save"} => Step(w) \in TransformSteps
        /\ run[w].pc = "row" => Step(w) \notin TransformSteps
        /\ run[w].pc = "complete" /\ Step(w) \in VerifySteps
              => verdict[Step(w)] = IF run[w].pass THEN "pass" ELSE "fail"

\* A completed step has the file it hands on, and a verification its verdict.
OutputInv ==
    \A s \in Steps : artifact[s].status = "completed" =>
        /\ artifact[s].out \in Uris
        /\ s \in VerifySteps => verdict[s] # "none"

\* The loop is exhausted.
Ended(w) ==
    \/ run[w].pc = "begin" /\ run[w].i > N
    \/ run[w].pc = "finish" /\ run[w].outcome = "end"

\* What leaves the loop has its evidence in the rows.
EndInv ==
    \A w \in Runs :
        /\ Ended(w) /\ "postcheck" \in enabled[w] => verdict["postcheck"] = "pass"
        /\ run[w].pc = "finish" =>
              /\ run[w].outcome = "already" => verdict["precheck"] = "pass"
              /\ run[w].outcome = "noncompliant" => verdict["postcheck"] = "fail"
              /\ run[w].outcome # "none"

\* A delivery that is through with the row.
Over == {"notify", "done", "dead"}

\* The status rests on the verdicts, or on a delivery without postcheck that is
\* through with all its steps.
EvidenceInv ==
    /\ status = "compliant" =>
          \/ verdict["precheck"] = "pass" /\ final = "source"
          \/ verdict["postcheck"] = "pass"
    /\ status = "noncompliant" => verdict["postcheck"] = "fail"
    /\ status = "skipped" =>
          \E w \in Runs : /\ run[w].pc \in Over /\ run[w].outcome = "end"
                          /\ "postcheck" \notin enabled[w]

RowInv ==
    /\ TypeOK /\ StartInv /\ StepInv /\ OutputInv /\ EndInv /\ EvidenceInv
-----------------------------------------------------------------------------
\* The list of steps and the moves of a delivery through it.

LEMMA StepList ==
    /\ N \in Nat /\ N >= 3
    /\ \A i \in 1..N : PIPELINE_STEPS[i] \in Steps
    /\ PIPELINE_STEPS[1] = "precheck"
    /\ PIPELINE_STEPS[N] = "postcheck"
    /\ PIPELINE_STEPS[N - 1] = "scoring"
    /\ \A i \in 1..N : PIPELINE_STEPS[i] \in TransformSteps <=> i \in 2..(N - 2)
    /\ \A i, j \in 1..N : PIPELINE_STEPS[i] = PIPELINE_STEPS[j] => i = j
<1> DEFINE A == <<"precheck">>
           B == Transforms
           C == <<"scoring", "postcheck">>
           n == Len(B)
<1>1. B \in Seq(TransformSteps) /\ n \in Nat
  BY PipelineAssumption
<1>2. /\ A \in Seq(Steps) /\ B \in Seq(Steps) /\ C \in Seq(Steps)
      /\ Len(A) = 1 /\ Len(C) = 2
  BY <1>1 DEF Steps, VerifySteps
<1>3. /\ PIPELINE_STEPS = (A \o B) \o C
      /\ Len(PIPELINE_STEPS) = 1 + n + 2
      /\ PIPELINE_STEPS \in Seq(Steps)
  BY <1>1, <1>2 DEF PIPELINE_STEPS
<1>4. \A i \in 1..(1 + n + 2) :
         PIPELINE_STEPS[i] = IF i = 1 THEN "precheck"
                             ELSE IF i <= 1 + n THEN B[i - 1]
                             ELSE IF i = 2 + n THEN "scoring" ELSE "postcheck"
  BY <1>1, <1>2 DEF PIPELINE_STEPS
<1>5. \A i \in 1..n : B[i] \in TransformSteps
  BY <1>1
<1>6. N = 1 + n + 2
  BY <1>3 DEF N
<1>7. \A i \in 2..(1 + n) : PIPELINE_STEPS[i] \in TransformSteps
  <2> SUFFICES ASSUME NEW i \in 2..(1 + n)
               PROVE  PIPELINE_STEPS[i] \in TransformSteps
    OBVIOUS
  <2>1. i - 1 \in 1..n /\ i \in 1..(1 + n + 2) /\ i # 1 /\ i <= 1 + n
    BY <1>1
  <2> HIDE DEF n, B
  <2> QED BY <2>1, <1>4, <1>5
<1>10. \A i, j \in 2..(1 + n) : PIPELINE_STEPS[i] = PIPELINE_STEPS[j] => i = j
  <2> SUFFICES ASSUME NEW i \in 2..(1 + n), NEW j \in 2..(1 + n),
                      PIPELINE_STEPS[i] = PIPELINE_STEPS[j]
               PROVE  i = j
    OBVIOUS
  <2>1. /\ i - 1 \in 1..n /\ i \in 1..(1 + n + 2) /\ i # 1 /\ i <= 1 + n
        /\ j - 1 \in 1..n /\ j \in 1..(1 + n + 2) /\ j # 1 /\ j <= 1 + n
    BY <1>1
  <2>3. \A k, l \in 1..n : B[k] = B[l] => k = l
    BY PipelineAssumption
  <2> HIDE DEF n, B
  <2>2. B[i - 1] = B[j - 1]
    BY <2>1, <1>4
  <2>4. i - 1 = j - 1
    BY <2>1, <2>2, <2>3
  <2> QED BY <2>4
<1> HIDE DEF n, B
<1>8. \A i \in 1..N : i = 1 \/ i \in 2..(1 + n) \/ i = 2 + n \/ i = 3 + n
  BY <1>1, <1>6
<1>9. /\ PIPELINE_STEPS[1] = "precheck" /\ PIPELINE_STEPS[2 + n] = "scoring"
      /\ PIPELINE_STEPS[3 + n] = "postcheck"
  BY <1>1, <1>4
<1>11. \A i, j \in 1..N : PIPELINE_STEPS[i] = PIPELINE_STEPS[j] => i = j
  BY <1>7, <1>8, <1>9, <1>10 DEF TransformSteps
<1>12. \A i \in 1..N : PIPELINE_STEPS[i] \in TransformSteps <=> i \in 2..(N - 2)
  BY <1>1, <1>6, <1>7, <1>8, <1>9 DEF TransformSteps
<1>13. N - 1 = 2 + n /\ N = 3 + n /\ N \in Nat /\ N >= 3
  BY <1>1, <1>6
<1>14. \A i \in 1..N : PIPELINE_STEPS[i] \in Steps
  BY <1>7, <1>8, <1>9 DEF Steps, VerifySteps
<1> QED
  BY <1>9, <1>11, <1>12, <1>13, <1>14

PCs == {"idle", "mark", "begin", "finish", "notify", "done", "dead"} \cup InStep

\* What is the same of a delivery except its position.
Keeps(w) ==
    /\ run'[w].i = run[w].i /\ run'[w].uri = run[w].uri
    /\ run'[w].outcome = run[w].outcome

OthersKept(w) == \A v \in Runs : v # w => run'[v] = run[v]

LEMMA RunFields ==
    ASSUME TypeOK, NEW w \in Runs
    PROVE  /\ run[w].pc \in PCs /\ run[w].i \in 1..(N + 1) /\ run[w].uri \in Uris
           /\ run[w].work \in Content /\ run[w].pass \in BOOLEAN
           /\ run[w].outcome \in Outcomes
           /\ run[w].i <= N => Step(w) \in Steps
           /\ enabled[w] \in SUBSET Steps
<1>1. run[w] \in RunState
  BY DEF TypeOK
<1>2. run[w].pc \in PCs /\ run[w].i \in 1..(N + 1) /\ run[w].uri \in Uris
  BY <1>1 DEF RunState, N, PCs, InStep
<1>3. /\ run[w].work \in Content /\ run[w].pass \in BOOLEAN
      /\ run[w].outcome \in Outcomes
  BY <1>1 DEF RunState
<1>4. enabled[w] \in SUBSET Steps
  BY DEF TypeOK
<1> QED BY <1>2, <1>3, <1>4, StepList DEF Step

LEMMA GotoMoves ==
    ASSUME TypeOK, NEW w \in Runs, NEW l \in PCs, Goto(w, l)
    PROVE  /\ run' \in [Runs -> RunState] /\ OthersKept(w) /\ Keeps(w)
           /\ run'[w].pc = l /\ run'[w].work = run[w].work
           /\ run'[w].pass = run[w].pass
<1>1. run[w] \in RunState
  BY DEF TypeOK
<1>2. [run[w] EXCEPT !.pc = l] \in RunState
  BY <1>1 DEF RunState, PCs, InStep
<1>3. run' = [run EXCEPT ![w] = [run[w] EXCEPT !.pc = l]]
  BY DEF Goto
<1> QED
  BY <1>1, <1>2, <1>3 DEF TypeOK, OthersKept, Keeps, RunState

LEMMA NextStepMoves ==
    ASSUME TypeOK, NEW w \in Runs, NEW u \in Uris, run[w].i <= N, NextStep(w, u)
    PROVE  /\ run' \in [Runs -> RunState] /\ OthersKept(w)
           /\ run'[w].pc = "begin" /\ run'[w].i = run[w].i + 1 /\ run'[w].uri = u
           /\ run'[w].outcome = run[w].outcome
           /\ run'[w].i > N => Step(w) = "postcheck"
<1>1. run[w] \in RunState
  BY DEF TypeOK
<1>0. run[w].i + 1 \in 1..(N + 1)
  BY RunFields, StepList
<1>5. run[w].i + 1 > N => Step(w) = "postcheck"
  <2>1. run[w].i \in 1..(N + 1) /\ N \in Nat
    BY RunFields, StepList
  <2>2. run[w].i + 1 > N => run[w].i = N
    BY <2>1
  <2> QED BY <2>2, StepList DEF Step
<1> DEFINE r == [run[w] EXCEPT !.pc = "begin", !.i = run[w].i + 1, !.uri = u,
                               !.work = {}, !.pass = FALSE]
<1>2. /\ r.pc = "begin" /\ r.i = run[w].i + 1 /\ r.uri = u /\ r.work = {}
      /\ r.pass = FALSE /\ r.outcome = run[w].outcome
  BY <1>1 DEF RunState
<1>3. r \in RunState
  BY <1>0, <1>1 DEF RunState, N, Content
<1>4. run' = [run EXCEPT ![w] = r]
  BY DEF NextStep
<1> HIDE DEF r
<1> QED
  BY <1>2, <1>3, <1>4, <1>5 DEF TypeOK, OthersKept

LEMMA LeaveLoopMoves ==
    ASSUME TypeOK, NEW w \in Runs, NEW o \in Outcomes, LeaveLoop(w, o)
    PROVE  /\ run' \in [Runs -> RunState] /\ OthersKept(w)
           /\ run'[w].pc = "finish" /\ run'[w].i = run[w].i /\ run'[w].uri = run[w].uri
           /\ run'[w].outcome = o
<1>1. run[w] \in RunState
  BY DEF TypeOK
<1> DEFINE r == [run[w] EXCEPT !.pc = "finish", !.work = {}, !.pass = FALSE, !.outcome = o]
<1>2. /\ r.pc = "finish" /\ r.i = run[w].i /\ r.uri = run[w].uri /\ r.work = {}
      /\ r.pass = FALSE /\ r.outcome = o
  BY <1>1 DEF RunState
<1>3. r \in RunState
  BY <1>1 DEF RunState, Content
<1>4. run' = [run EXCEPT ![w] = r]
  BY DEF LeaveLoop
<1> HIDE DEF r
<1> QED
  BY <1>2, <1>3, <1>4 DEF TypeOK, OthersKept

LEMMA ExecuteMoves ==
    ASSUME TypeOK, NEW w \in Runs, run[w].i <= N, ExecuteStep(w)
    PROVE  /\ run' \in [Runs -> RunState] /\ OthersKept(w) /\ Keeps(w)
           /\ IF Step(w) \in TransformSteps
              THEN run'[w].pc = "clear" /\ run'[w].work = content[run[w].uri] \cup {Step(w)}
              ELSE run'[w].pc = "row" /\ run'[w].work = content[run[w].uri]
<1>1. /\ Step(w) \in Steps /\ run[w] \in RunState /\ content[run[w].uri] \in Content
      /\ run[w].pass \in BOOLEAN
  BY RunFields DEF TypeOK
<1>2. PICK l \in {"clear", "row"}, c \in Content, b \in BOOLEAN :
         /\ run' = [run EXCEPT ![w] = [run[w] EXCEPT !.pc = l, !.work = c, !.pass = b]]
         /\ IF Step(w) \in TransformSteps
            THEN l = "clear" /\ c = content[run[w].uri] \cup {Step(w)}
            ELSE l = "row" /\ c = content[run[w].uri]
  <2>1. CASE Step(w) \in TransformSteps
    <3>1. /\ run' = [run EXCEPT ![w] = [run[w] EXCEPT !.pc = "clear",
                                           !.work = LocalInput(w) \cup {Step(w)}]]
          /\ LocalInput(w) \cup {Step(w)} \in Content
      BY <1>1, <2>1 DEF ExecuteStep, TransformSteps, VerifySteps, LocalInput, Content
    <3>2. \A c : [run[w] EXCEPT !.pc = "clear", !.work = c]
                 = [run[w] EXCEPT !.pc = "clear", !.work = c, !.pass = run[w].pass]
      BY <1>1 DEF RunState
    <3> QED BY <1>1, <2>1, <3>1, <3>2 DEF LocalInput
  <2>2. CASE Step(w) = "scoring"
    <3>1. run' = [run EXCEPT ![w] = [run[w] EXCEPT !.pc = "row", !.work = LocalInput(w)]]
      BY <2>2 DEF ExecuteStep, TransformSteps, VerifySteps
    <3>2. \A c : [run[w] EXCEPT !.pc = "row", !.work = c]
                 = [run[w] EXCEPT !.pc = "row", !.work = c, !.pass = run[w].pass]
      BY <1>1 DEF RunState
    <3> QED BY <1>1, <2>2, <3>1, <3>2 DEF TransformSteps, LocalInput
  <2>3. CASE Step(w) \in VerifySteps
    BY <1>1, <2>3 DEF ExecuteStep, TransformSteps, VerifySteps, LocalInput
  <2> QED BY <1>1, <2>1, <2>2, <2>3 DEF Steps
<1> DEFINE r == [run[w] EXCEPT !.pc = l, !.work = c, !.pass = b]
<1>3. /\ r \in RunState /\ r.pc = l /\ r.i = run[w].i /\ r.uri = run[w].uri
      /\ r.outcome = run[w].outcome /\ r.work = c
  BY <1>1 DEF RunState
<1>4. run' = [run EXCEPT ![w] = r]
  BY <1>2
<1> HIDE DEF r
<1>5. run' \in [Runs -> RunState] /\ OthersKept(w) /\ Keeps(w) /\ run'[w].pc = l /\ run'[w].work = c
  BY <1>3, <1>4 DEF TypeOK, OthersKept, Keeps
<1> QED BY <1>2, <1>5

LEMMA MarkStatusMoves ==
    ASSUME TypeOK, NEW s \in Steps, NEW st \in StepStatus, NEW u \in Uris \cup {""},
           MarkStatus(s, st, u)
    PROVE  /\ artifact' \in [Steps -> [status: StepStatus, out: Uris \cup {""}]]
           /\ artifact'[s].status = st /\ artifact'[s].out = u
           /\ \A t \in Steps : t # s => artifact'[t] = artifact[t]
BY DEF TypeOK, MarkStatus

-----------------------------------------------------------------------------
\* Deliveries of any kind.

\* A delivery moves on and writes nothing but files.  Its process reads the
\* settings when it takes the task.
LEMMA GotoKeepsRows ==
    ASSUME RowInv, NEW w \in Runs, NEW l \in PCs, Goto(w, l),
           UNCHANGED <<dbVars, late, undone>>, enabled' \in [Runs -> SUBSET Steps],
           \A v \in Runs : v # w \/ run[w].pc # "idle" => enabled'[v] = enabled[v],
           stored' \subseteq Uris, content' \in [Uris -> Content],
           notified' \in Nat, crashes' \in Nat, faults' \in Nat,
           l \notin {"begin", "finish", "row"}, l = "mark" => run[w].pc = "idle",
           l # "idle",
           l \in InStep => run[w].i <= N /\ Step(w) \in enabled'[w],
           l \in {"clear", "save"} => Step(w) \in TransformSteps,
           l = "complete" => Step(w) \notin VerifySteps,
           run[w].pc \in Over => l \in Over
    PROVE  RowInv'
<1>1. /\ run' \in [Runs -> RunState] /\ OthersKept(w) /\ Keeps(w)
      /\ run'[w].pc = l
  BY GotoMoves DEF RowInv
<1>2. TypeOK'
  BY <1>1 DEF RowInv, TypeOK, dbVars
<1>3. StartInv' /\ StepInv'
  BY <1>1 DEF RowInv, StartInv, StepInv, Step, dbVars, OthersKept, Keeps
<1>4. OutputInv'
  BY DEF RowInv, OutputInv, dbVars
<1>5. EndInv'
  BY <1>1 DEF RowInv, EndInv, Ended, dbVars, OthersKept, Keeps
<1>6. EvidenceInv'
  <2>1. \A v \in Runs : run[v].pc \in Over =>
           run'[v].pc \in Over /\ run'[v].outcome = run[v].outcome /\ enabled'[v] = enabled[v]
    BY <1>1 DEF OthersKept, Keeps, Over
  <2> QED BY <2>1 DEF RowInv, EvidenceInv, dbVars
<1> QED BY <1>2, <1>3, <1>4, <1>5, <1>6 DEF RowInv

\* The delivery that a skipped status rests on is not touched by another one.
LEMMA EvidenceKept ==
    ASSUME EvidenceInv, NEW w \in Runs, OthersKept(w), run[w].pc \notin Over,
           UNCHANGED <<status, final, verdict, enabled>>
    PROVE  EvidenceInv'
BY DEF EvidenceInv, OthersKept

\* A delivery leaves the loop.
LEMMA LeaveKeepsRows ==
    ASSUME RowInv, NEW w \in Runs, NEW o \in Outcomes, LeaveLoop(w, o),
           UNCHANGED <<status, final, enabled, storageVars, notified, crashes>>,
           late' \subseteq Steps, undone' \subseteq Steps, faults' \in Nat,
           artifact' \in [Steps -> [status: StepStatus, out: Uris \cup {""}]],
           UNCHANGED <<verdict, judged, scored, scoredOn>>,
           OutputInv',
           run[w].pc \notin Over, o # "none",
           o = "already" => verdict["precheck"] = "pass",
           o = "noncompliant" => verdict["postcheck"] = "fail",
           o = "end" => Ended(w)
    PROVE  RowInv'
<1>1. /\ run' \in [Runs -> RunState] /\ OthersKept(w)
      /\ run'[w].pc = "finish" /\ run'[w].outcome = o
  BY LeaveLoopMoves DEF RowInv
<1>2. TypeOK'
  BY <1>1 DEF RowInv, TypeOK, storageVars
<1>3. StartInv' /\ StepInv'
  BY <1>1 DEF RowInv, StartInv, StepInv, Step, OthersKept, InStep
<1>4. EndInv'
  BY <1>1 DEF RowInv, EndInv, Ended, OthersKept
<1>5. EvidenceInv'
  BY <1>1, EvidenceKept DEF RowInv
<1> QED BY <1>2, <1>3, <1>4, <1>5 DEF RowInv

\* A delivery goes on to the next step.
LEMMA NextKeepsRows ==
    ASSUME RowInv, NEW w \in Runs, NEW u \in Uris, run[w].i <= N, NextStep(w, u),
           UNCHANGED <<status, final, enabled, storageVars, notified, crashes, faults>>,
           late' \subseteq Steps, undone' \subseteq Steps,
           artifact' \in [Steps -> [status: StepStatus, out: Uris \cup {""}]],
           UNCHANGED <<verdict, judged, scored, scoredOn>>,
           OutputInv',
           run[w].pc \notin Over,
           Step(w) = "postcheck" /\ "postcheck" \in enabled[w] => verdict["postcheck"] = "pass"
    PROVE  RowInv'
<1>1. /\ run' \in [Runs -> RunState] /\ OthersKept(w)
      /\ run'[w].pc = "begin"
  BY NextStepMoves DEF RowInv
<1>2. TypeOK'
  BY <1>1 DEF RowInv, TypeOK, storageVars
<1>3. StartInv' /\ StepInv'
  BY <1>1 DEF RowInv, StartInv, StepInv, Step, OthersKept, InStep
<1>4. run'[w].i > N => Step(w) = "postcheck"
  BY NextStepMoves DEF RowInv
<1>5. EndInv'
  BY <1>1, <1>4 DEF RowInv, EndInv, Ended, OthersKept
<1>6. EvidenceInv'
  BY <1>1, EvidenceKept DEF RowInv
<1> QED BY <1>2, <1>3, <1>5, <1>6 DEF RowInv

LEMMA RowInit == Init => RowInv
<1> SUFFICES ASSUME Init PROVE RowInv
  OBVIOUS
<1>1. \A w \in Runs : run[w].pc = "idle" /\ run[w].i = 1
  BY DEF Init
<1>2. run \in [Runs -> RunState]
  <2>1. 1 \in 1..(Len(PIPELINE_STEPS) + 1)
    BY StepList DEF N
  <2>2. [pc |-> "idle", i |-> 1, uri |-> "source", work |-> {}, pass |-> FALSE,
         outcome |-> "none"] \in RunState
    BY <2>1 DEF RunState, Uris, Content, Outcomes
  <2> QED BY <2>2 DEF Init
<1>5. TypeOK
  BY <1>2 DEF Init, TypeOK, JobStatus, Uris, StepStatus, Content
<1>3. StartInv /\ StepInv /\ OutputInv /\ EvidenceInv
  BY <1>1 DEF Init, StartInv, StepInv, InStep, OutputInv, EvidenceInv
<1>4. EndInv
  <2>1. ~(1 > N)
    BY StepList
  <2> QED BY <1>1, <2>1 DEF EndInv, Ended
<1> QED BY <1>3, <1>4, <1>5 DEF RowInv

LEMMA RowStep == RowInv /\ [Next]_vars => RowInv'
<1> SUFFICES ASSUME RowInv, [Next]_vars PROVE RowInv'
  OBVIOUS
<1>0. TypeOK /\ StartInv /\ StepInv /\ OutputInv /\ EndInv /\ EvidenceInv
  BY DEF RowInv
<1>1. ASSUME NEW w \in Runs, Fetch(w) PROVE RowInv'
  <2>1. PICK l \in {"done", "mark"} : Goto(w, l)
    BY <1>1 DEF Fetch
  <2>2. UNCHANGED <<dbVars, late, undone>> /\ run[w].pc = "idle" /\ run[w].pc \notin Over
    BY <1>1 DEF Fetch, Over
  <2>5. /\ enabled' \in [Runs -> SUBSET Steps]
        /\ \A v \in Runs : v # w => enabled'[v] = enabled[v]
    <3>1. enabled' = enabled \/ \E on \in Settings : enabled' = [enabled EXCEPT ![w] = on]
      BY <1>1 DEF Fetch
    <3> QED BY <1>0, <3>1, PipelineAssumption DEF TypeOK
  <2>3. /\ stored' \subseteq Uris /\ content' \in [Uris -> Content]
        /\ notified' \in Nat /\ crashes' \in Nat /\ faults' \in Nat
    BY <1>0, <1>1 DEF Fetch, storageVars, TypeOK
  <2>4. l \in PCs /\ l \notin InStep \cup {"begin", "finish", "row", "clear", "save", "idle", "complete"}
    BY DEF PCs, InStep
  <2> QED
    BY <2>1, <2>2, <2>3, <2>4, <2>5, GotoKeepsRows
<1>2. ASSUME NEW w \in Runs, MarkRunning(w) PROVE RowInv'
  <2>1. /\ run' \in [Runs -> RunState] /\ OthersKept(w) /\ Keeps(w) /\ run'[w].pc = "begin"
    BY <1>0, <1>2, GotoMoves DEF MarkRunning, PCs
  <2>2. run'[w].i = 1 /\ ~(1 > N)
    BY <1>0, <1>2, <2>1, StepList DEF MarkRunning, StartInv, Keeps
  <2>3. /\ status' = "running"
        /\ UNCHANGED <<final, artifact, verdict, judged, scored, scoredOn,
                       storageVars, otherVars, notified, crashes, faults>>
    BY <1>2 DEF MarkRunning
  <2>4. TypeOK'
    BY <1>0, <2>1, <2>3 DEF TypeOK, JobStatus, storageVars, otherVars
  <2>5. StartInv' /\ StepInv'
    BY <1>0, <2>1, <2>3 DEF StartInv, StepInv, InStep, Step, OthersKept, otherVars
  <2>6. OutputInv' /\ EvidenceInv'
    BY <1>0, <2>3 DEF OutputInv, EvidenceInv
  <2>7. EndInv'
    BY <1>0, <2>1, <2>2, <2>3 DEF EndInv, Ended, OthersKept, otherVars
  <2> QED BY <2>4, <2>5, <2>6, <2>7 DEF RowInv
<1>3. ASSUME NEW w \in Runs, SkipStep(w) PROVE RowInv'
  <2> DEFINE s == Step(w)
  <2>1. /\ run[w].pc = "begin" /\ run[w].i <= N /\ s \notin enabled[w]
        /\ MarkStatus(s, "skipped", "") /\ NextStep(w, run[w].uri)
        /\ UNCHANGED <<status, final, enabled, storageVars, notified, crashes, faults>>
        /\ UNCHANGED <<verdict, judged, scored, scoredOn>> /\ late' = late
        /\ undone' \subseteq undone \cup {s}
    BY <1>3 DEF SkipStep, N
  <2>2. s \in Steps /\ run[w].uri \in Uris
    BY <1>0, <2>1, RunFields
  <2>3. /\ artifact' \in [Steps -> [status: StepStatus, out: Uris \cup {""}]]
        /\ artifact'[s].status = "skipped"
        /\ \A t \in Steps : t # s => artifact'[t] = artifact[t]
    BY <1>0, <2>1, <2>2, MarkStatusMoves DEF StepStatus
  <2>4. OutputInv'
    BY <1>0, <2>1, <2>3 DEF OutputInv
  <2>5. run[w].pc \notin Over /\ late' \subseteq Steps /\ undone' \subseteq Steps /\ "postcheck" \in Steps
    BY <1>0, <2>1, <2>2 DEF Over, TypeOK, Steps, VerifySteps
  <2> HIDE DEF s
  <2>6. s = "postcheck" => "postcheck" \notin enabled[w]
    BY <2>1
  <2> QED BY <2>1, <2>2, <2>3, <2>4, <2>5, <2>6, NextKeepsRows DEF s
<1>4. ASSUME NEW w \in Runs, ResumeStep(w) PROVE RowInv'
  <2> DEFINE s == Step(w)
             u == artifact[s].out
  <2>1. /\ run[w].pc = "begin" /\ run[w].i <= N /\ s \in enabled[w]
        /\ artifact[s].status = "completed"
        /\ UNCHANGED <<dbVars, storageVars, otherVars, notified, crashes, faults>>
    BY <1>4 DEF ResumeStep, N
  <2>2. /\ \/ s \notin VerifySteps /\ NextStep(w, u)
           \/ s \in VerifySteps /\ verdict[s] = "none" /\ LeaveLoop(w, "error")
           \/ s \in VerifySteps /\ HandleResult(w, s, verdict[s] = "pass", u)
    BY <1>4 DEF ResumeStep
  <2>3. s \in Steps /\ u \in Uris /\ (s \in VerifySteps => verdict[s] # "none")
    BY <1>0, <2>1, RunFields DEF OutputInv
  <2>4. s \in VerifySteps => verdict[s] \in {"pass", "fail"}
    BY <1>0, <2>3 DEF TypeOK
  <2>5. OutputInv' /\ run[w].pc \notin Over
    BY <1>0, <2>1 DEF OutputInv, dbVars, Over
  <2>6. /\ artifact' \in [Steps -> [status: StepStatus, out: Uris \cup {""}]]
        /\ late' \subseteq Steps /\ undone' \subseteq Steps /\ faults' \in Nat
        /\ UNCHANGED <<status, final, enabled, storageVars, late, undone, notified, crashes, faults>>
        /\ UNCHANGED <<verdict, judged, scored, scoredOn>>
        /\ artifact' = artifact
    BY <1>0, <2>1 DEF TypeOK, dbVars, otherVars
  <2> HIDE DEF s, u
  <2>7. ASSUME NextStep(w, u), s = "postcheck" => verdict[s] = "pass" PROVE RowInv'
    BY <2>1, <2>3, <2>5, <2>6, <2>7, NextKeepsRows DEF s
  <2>8. ASSUME NEW o \in {"already", "noncompliant"}, LeaveLoop(w, o),
               o = "already" => verdict["precheck"] = "pass",
               o = "noncompliant" => verdict["postcheck"] = "fail"
        PROVE RowInv'
    <3>1. o \in Outcomes /\ o # "none" /\ o # "end"
      BY DEF Outcomes
    <3> QED BY <3>1, <2>5, <2>6, <2>8, LeaveKeepsRows
  <2> QED BY <2>2, <2>3, <2>4, <2>7, <2>8 DEF HandleResult, VerifySteps
<1>5. ASSUME NEW w \in Runs, StartStep(w) PROVE RowInv'
  <2>1. /\ run[w].pc = "begin" /\ run[w].i <= N /\ Step(w) \in enabled[w]
        /\ Goto(w, "execute") /\ UNCHANGED <<dbVars, enabled, late, undone>> /\ run[w].pc \notin Over
        /\ enabled' \in [Runs -> SUBSET Steps] /\ enabled'[w] = enabled[w]
    BY <1>0, <1>5 DEF TypeOK, StartStep, N, otherVars, Over
  <2>2. /\ stored' \subseteq Uris /\ content' \in [Uris -> Content]
        /\ notified' \in Nat /\ crashes' \in Nat /\ faults' \in Nat
    BY <1>0, <1>5 DEF StartStep, storageVars, TypeOK
  <2>3. "execute" \in PCs
    BY DEF PCs, InStep
  <2> QED BY <2>1, <2>2, <2>3, GotoKeepsRows
<1>6. ASSUME NEW w \in Runs, ExecuteStep(w) PROVE RowInv'
  <2>1. run[w].pc = "execute" /\ run[w].i <= N /\ Step(w) \in enabled[w]
    BY <1>0, <1>6 DEF ExecuteStep, StepInv, InStep
  <2>2. PICK l \in {"clear", "row"} : run'[w].pc = l /\ (l = "clear" <=> Step(w) \in TransformSteps)
    BY <1>0, <1>6, <2>1, ExecuteMoves
  <2>3. run' \in [Runs -> RunState] /\ OthersKept(w) /\ Keeps(w) /\ run'[w].pc = l
    BY <1>0, <1>6, <2>1, <2>2, ExecuteMoves
  <2>4. UNCHANGED <<dbVars, storageVars, otherVars, notified, crashes, faults>>
    BY <1>6 DEF ExecuteStep
  <2>5. TypeOK'
    BY <1>0, <2>3, <2>4 DEF TypeOK, dbVars, storageVars, otherVars
  <2>6. StartInv' /\ StepInv'
    BY <1>0, <2>1, <2>2, <2>3, <2>4
       DEF StartInv, StepInv, Step, dbVars, otherVars, OthersKept, Keeps, InStep
  <2>7. OutputInv'
    BY <1>0, <2>4 DEF OutputInv, dbVars
  <2>8. EndInv'
    BY <1>0, <2>3, <2>4 DEF EndInv, Ended, dbVars, otherVars, OthersKept
  <2>9. EvidenceInv'
    BY <1>0, <2>1, <2>3, <2>4, EvidenceKept DEF Over, dbVars, otherVars
  <2> QED BY <2>5, <2>6, <2>7, <2>8, <2>9 DEF RowInv
<1>7. ASSUME NEW w \in Runs, StepFails(w) PROVE RowInv'
  <2> DEFINE s == Step(w)
  <2>1. /\ run[w].pc \in InStep /\ MarkStatus(s, "failed", "")
        /\ \/ s = "postcheck" /\ LeaveLoop(w, "error")
           \/ s # "postcheck" /\ NextStep(w, run[w].uri)
        /\ UNCHANGED <<status, final, enabled, storageVars, late, undone, notified, crashes, faults>>
        /\ UNCHANGED <<verdict, judged, scored, scoredOn>>
    BY <1>7 DEF StepFails, InStep, otherVars
  <2>2. s \in Steps /\ s \in enabled[w] /\ run[w].uri \in Uris /\ run[w].i <= N /\ run[w].pc \notin Over
    BY <1>0, <2>1, RunFields DEF StepInv, Over, InStep
  <2>3. /\ artifact' \in [Steps -> [status: StepStatus, out: Uris \cup {""}]]
        /\ artifact'[s].status = "failed"
        /\ \A t \in Steps : t # s => artifact'[t] = artifact[t]
    BY <1>0, <2>1, <2>2, MarkStatusMoves DEF StepStatus
  <2>4. OutputInv'
    BY <1>0, <2>1, <2>3 DEF OutputInv
  <2>5. late' \subseteq Steps /\ undone' \subseteq Steps /\ faults' \in Nat /\ "postcheck" \in Steps
    BY <1>0, <2>1 DEF TypeOK, Steps, VerifySteps
  <2>6. "error" \in Outcomes
    BY DEF Outcomes
  <2> HIDE DEF s
  <2>7. CASE s = "postcheck"
    BY <2>1, <2>2, <2>3, <2>4, <2>5, <2>6, <2>7, LeaveKeepsRows
  <2>8. CASE s # "postcheck"
    BY <2>1, <2>2, <2>3, <2>4, <2>5, <2>8, NextKeepsRows DEF s
  <2> QED BY <2>7, <2>8
<1>8. ASSUME NEW w \in Runs, ClearOutput(w) \/ SaveOutput(w) PROVE RowInv'
  <2>1. /\ run[w].pc \in {"clear", "save"} /\ Step(w) \in TransformSteps
        /\ run[w].i <= N /\ Step(w) \in enabled[w]
        /\ run[w].pc \notin Over /\ run[w].pc # "idle" /\ run[w] \in RunState
    BY <1>0, <1>8 DEF ClearOutput, SaveOutput, StepInv, InStep, Over, TypeOK
  <2>2. PICK l \in {"save", "complete"} : Goto(w, l)
    BY <1>8 DEF ClearOutput, SaveOutput
  <2>3. UNCHANGED <<dbVars, enabled, late, undone, notified, crashes, faults>>
    BY <1>8 DEF ClearOutput, SaveOutput, otherVars
  <2>4. /\ notified' \in Nat /\ crashes' \in Nat /\ faults' \in Nat
        /\ enabled' \in [Runs -> SUBSET Steps]
    BY <1>0, <2>3 DEF TypeOK
  <2>5. stored' \subseteq Uris /\ content' \in [Uris -> Content]
    <3>1. run[w].work \in Content /\ Step(w) \in Uris
      BY <2>1, <1>0, RunFields DEF Uris
    <3> QED BY <1>0, <1>8, <3>1 DEF TypeOK, ClearOutput, SaveOutput
  <2>6. /\ l \in PCs /\ l \notin {"begin", "finish", "row", "mark", "idle"}
        /\ Step(w) \notin VerifySteps
    BY <2>1 DEF PCs, InStep, TransformSteps, VerifySteps
  <2> QED BY <2>1, <2>2, <2>3, <2>4, <2>5, <2>6, GotoKeepsRows
<1>9. ASSUME NEW w \in Runs, CreateRow(w) PROVE RowInv'
  <2> DEFINE s == Step(w)
  <2>1. /\ run[w].pc = "row" /\ run[w].pc \notin Over /\ run[w].i <= N /\ s \in enabled[w]
        /\ s \in Steps /\ run[w].work \in Content /\ run[w].pass \in BOOLEAN
    BY <1>0, <1>9, RunFields DEF CreateRow, Over, StepInv, InStep
  <2>2. UNCHANGED <<status, final, artifact, enabled, storageVars, late, undone, notified,
                    crashes, faults>>
    BY <1>9 DEF CreateRow, otherVars
  <2>3. CASE LeaveLoop(w, "error") /\ UNCHANGED <<verdict, judged, scored, scoredOn>>
    <3>1. OutputInv' /\ faults' \in Nat /\ late' \subseteq Steps /\ undone' \subseteq Steps
          /\ artifact' \in [Steps -> [status: StepStatus, out: Uris \cup {""}]]
      BY <1>0, <2>2, <2>3 DEF OutputInv, TypeOK
    <3>2. "error" \in Outcomes
      BY DEF Outcomes
    <3> QED BY <2>1, <2>2, <2>3, <3>1, <3>2, LeaveKeepsRows
  <2>4. CASE Goto(w, "complete")
    <3>1. /\ run' \in [Runs -> RunState] /\ OthersKept(w) /\ Keeps(w)
          /\ run'[w].pc = "complete" /\ run'[w].pass = run[w].pass
      BY <1>0, <2>4, GotoMoves DEF PCs, InStep
    <3>2. ~LeaveLoop(w, "error")
      BY <1>0, <3>1, LeaveLoopMoves DEF Outcomes
    <3>3. \/ s \notin VerifySteps /\ UNCHANGED <<verdict, judged>>
          \/ /\ s \in VerifySteps /\ verdict[s] = "none"
             /\ verdict' = [verdict EXCEPT ![s] = IF run[w].pass THEN "pass" ELSE "fail"]
             /\ judged' = [judged EXCEPT ![s] = run[w].work]
             /\ UNCHANGED <<scored, scoredOn>>
      BY <1>9, <3>2 DEF CreateRow, VerifySteps
    <3>4. scored' \in BOOLEAN /\ scoredOn' \in Content
      BY <1>0, <1>9, <2>1, <3>2 DEF CreateRow, TypeOK
    <3>5. /\ verdict' \in [VerifySteps -> {"none", "pass", "fail"}]
          /\ judged' \in [VerifySteps -> Content]
      BY <1>0, <2>1, <3>3 DEF TypeOK
    <3>6. /\ \A t \in VerifySteps : verdict[t] # "none" => verdict'[t] = verdict[t]
          /\ s \in VerifySteps => verdict'[s] = IF run[w].pass THEN "pass" ELSE "fail"
      BY <1>0, <3>3 DEF TypeOK
    <3>7. TypeOK'
      BY <1>0, <2>2, <3>1, <3>4, <3>5 DEF TypeOK, storageVars
    <3>8. StartInv'
      BY <1>0, <3>1 DEF StartInv, OthersKept
    <3>9. StepInv'
      <4>1. ASSUME NEW v \in Runs, run'[v].pc \in InStep
            PROVE  /\ run'[v].i <= N /\ Step(v)' \in enabled'[v]
                   /\ run'[v].pc \in {"clear", "save"} => Step(v)' \in TransformSteps
                   /\ run'[v].pc = "row" => Step(v)' \notin TransformSteps
                   /\ run'[v].pc = "complete" /\ Step(v)' \in VerifySteps
                         => verdict'[Step(v)'] = IF run'[v].pass THEN "pass" ELSE "fail"
        <5>1. CASE v = w
          BY <2>1, <2>2, <3>1, <3>6, <5>1 DEF Step, Keeps
        <5>2. CASE v # w
          <6>1. run'[v] = run[v] /\ Step(v)' = Step(v)
            BY <3>1, <5>2 DEF OthersKept, Step
          <6>2. run[v].pc = "complete" /\ Step(v) \in VerifySteps =>
                   /\ verdict[Step(v)] = IF run[v].pass THEN "pass" ELSE "fail"
                   /\ verdict[Step(v)] # "none"
            BY <1>0 DEF StepInv, InStep
          <6> QED BY <1>0, <2>2, <4>1, <6>1, <6>2, <3>6 DEF StepInv
        <5> QED BY <5>1, <5>2
      <4> QED BY <4>1 DEF StepInv
    <3>10. OutputInv'
      BY <1>0, <2>2, <3>6 DEF OutputInv
    <3>11. EndInv'
      BY <1>0, <2>2, <3>1, <3>6 DEF EndInv, Ended, OthersKept, VerifySteps
    <3>12. EvidenceInv'
      BY <1>0, <2>1, <2>2, <3>1, <3>6 DEF EvidenceInv, VerifySteps, OthersKept
    <3> QED BY <3>7, <3>8, <3>9, <3>10, <3>11, <3>12 DEF RowInv
  <2> QED BY <1>9, <2>3, <2>4 DEF CreateRow
<1>10. ASSUME NEW w \in Runs, CompleteStep(w) PROVE RowInv'
  <2> DEFINE s == Step(w)
             u == IF s \in TransformSteps THEN s ELSE run[w].uri
  <2>1. /\ run[w].pc = "complete" /\ MarkStatus(s, "completed", u)
        /\ \/ s \notin VerifySteps /\ NextStep(w, u)
           \/ s \in VerifySteps /\ HandleResult(w, s, run[w].pass, u)
        /\ UNCHANGED <<status, final, enabled, storageVars, undone, notified, crashes, faults>>
        /\ UNCHANGED <<verdict, judged, scored, scoredOn>>
        /\ late' \subseteq late \cup {s}
    BY <1>10 DEF CompleteStep, otherVars
  <2>2. /\ s \in Steps /\ s \in enabled[w] /\ u \in Uris /\ run[w].i <= N /\ run[w].pc \notin Over
        /\ s \in VerifySteps => verdict[s] = IF run[w].pass THEN "pass" ELSE "fail"
        /\ run[w].pass \in BOOLEAN
    BY <1>0, <2>1, RunFields DEF StepInv, Over, InStep, Uris
  <2>3. /\ artifact' \in [Steps -> [status: StepStatus, out: Uris \cup {""}]]
        /\ artifact'[s].status = "completed" /\ artifact'[s].out = u
        /\ \A t \in Steps : t # s => artifact'[t] = artifact[t]
    <3> HIDE DEF u
    <3> QED BY <1>0, <2>1, <2>2, MarkStatusMoves DEF StepStatus
  <2>4. OutputInv'
    <3> HIDE DEF u, s
    <3> QED BY <1>0, <2>1, <2>2, <2>3 DEF OutputInv
  <2>5. late' \subseteq Steps /\ undone' \subseteq Steps /\ "postcheck" \in Steps
        /\ faults' \in Nat
    BY <1>0, <2>1, <2>2 DEF TypeOK, Steps, VerifySteps
  <2> HIDE DEF s, u
  <2>7. ASSUME NextStep(w, u), s = "postcheck" => verdict[s] = "pass" PROVE RowInv'
    BY <2>1, <2>2, <2>3, <2>4, <2>5, <2>7, NextKeepsRows DEF s
  <2>8. ASSUME NEW o \in {"already", "noncompliant"}, LeaveLoop(w, o),
               o = "already" => verdict["precheck"] = "pass",
               o = "noncompliant" => verdict["postcheck"] = "fail"
        PROVE RowInv'
    <3>1. o \in Outcomes /\ o # "none" /\ o # "end"
      BY DEF Outcomes
    <3> QED BY <3>1, <2>1, <2>2, <2>3, <2>4, <2>5, <2>8, LeaveKeepsRows
  <2> QED BY <2>1, <2>2, <2>7, <2>8 DEF HandleResult, VerifySteps
<1>11. ASSUME NEW w \in Runs, EndLoop(w) \/ DatabaseFault(w) PROVE RowInv'
  <2>1. PICK o \in {"end", "error"} : LeaveLoop(w, o) /\ (o = "end" => Ended(w))
    BY <1>11 DEF EndLoop, DatabaseFault, Ended, N
  <2>2. /\ run[w].pc \notin Over /\ UNCHANGED <<dbVars, storageVars, otherVars, notified, crashes>>
        /\ faults' \in Nat
    <3>1. /\ run[w].pc \in {"begin", "execute", "clear", "save", "row", "complete"}
          /\ UNCHANGED <<dbVars, storageVars, otherVars, notified, crashes>>
          /\ faults' = faults \/ faults' = faults + 1
      BY <1>11 DEF EndLoop, DatabaseFault
    <3>2. faults \in Nat
      BY <1>0 DEF TypeOK
    <3>3. faults' \in Nat
      BY <3>1, <3>2
    <3> QED BY <3>1, <3>3 DEF Over
  <2>3. /\ OutputInv' /\ late' \subseteq Steps /\ undone' \subseteq Steps
        /\ artifact' \in [Steps -> [status: StepStatus, out: Uris \cup {""}]]
        /\ UNCHANGED <<status, final, enabled, storageVars, notified, crashes>>
        /\ UNCHANGED <<verdict, judged, scored, scoredOn>> /\ artifact' = artifact
    BY <1>0, <2>2 DEF OutputInv, TypeOK, dbVars, otherVars
  <2>4. o \in Outcomes /\ o # "none" /\ o # "already" /\ o # "noncompliant"
    BY DEF Outcomes
  <2> QED BY <2>1, <2>2, <2>3, <2>4, LeaveKeepsRows
<1>12. ASSUME NEW w \in Runs, MarkFinished(w) PROVE RowInv'
  <2>1. /\ run' \in [Runs -> RunState] /\ OthersKept(w) /\ Keeps(w) /\ run'[w].pc = "notify"
    BY <1>0, <1>12, GotoMoves DEF MarkFinished, PCs
  <2>2. /\ run[w].pc = "finish"
        /\ status' = FinalStatus(run[w].outcome, enabled[w])
        /\ final' = IF run[w].outcome = "already" THEN "source" ELSE run[w].uri
        /\ UNCHANGED <<artifact, verdict, judged, scored, scoredOn, storageVars,
                       otherVars, notified, crashes, faults>>
    BY <1>12 DEF MarkFinished
  <2>3. run[w].outcome \in Outcomes /\ run[w].uri \in Uris /\ run[w].outcome # "none"
    BY <1>0, <2>2, RunFields DEF EndInv
  <2>4. /\ status' = "compliant" =>
              \/ verdict["precheck"] = "pass" /\ final' = "source"
              \/ verdict["postcheck"] = "pass"
        /\ status' = "noncompliant" => verdict["postcheck"] = "fail"
        /\ status' = "skipped" => run[w].outcome = "end" /\ "postcheck" \notin enabled[w]
        /\ status' \in FINISHED_STATUSES
    BY <1>0, <2>2, <2>3 DEF EndInv, Ended, FinalStatus, Outcomes, FINISHED_STATUSES
  <2>5. TypeOK'
    BY <1>0, <2>1, <2>2, <2>3, <2>4 DEF TypeOK, JobStatus, storageVars, otherVars, Uris
  <2>6. StartInv' /\ StepInv'
    BY <1>0, <2>1, <2>2 DEF StartInv, StepInv, InStep, Step, OthersKept, otherVars
  <2>7. OutputInv' /\ EvidenceInv'
    BY <1>0, <2>1, <2>2, <2>4 DEF OutputInv, EvidenceInv, otherVars, Over, Keeps
  <2>8. EndInv'
    BY <1>0, <2>1, <2>2 DEF EndInv, Ended, OthersKept, otherVars
  <2> QED BY <2>5, <2>6, <2>7, <2>8 DEF RowInv
<1>13. ASSUME NEW w \in Runs, FinishFault(w) \/ TaskFault(w) \/ Notify(w) \/ Crash(w)
       PROVE RowInv'
  <2>1. PICK l \in {"notify", "done", "dead"} : Goto(w, l)
    BY <1>13 DEF FinishFault, TaskFault, Notify, Crash
  <2>2. /\ UNCHANGED <<dbVars, enabled, late, undone>> /\ l \in Over
        /\ enabled' \in [Runs -> SUBSET Steps]
    BY <1>0, <1>13 DEF FinishFault, TaskFault, Notify, Crash, otherVars, Over, TypeOK
  <2>3. /\ stored' \subseteq Uris /\ content' \in [Uris -> Content]
        /\ notified' \in Nat /\ crashes' \in Nat /\ faults' \in Nat
    <3>1. /\ UNCHANGED <<stored, content>>
          /\ notified' = notified \/ notified' = notified + 1
          /\ crashes' = crashes \/ crashes' = crashes + 1
          /\ faults' = faults \/ faults' = faults + 1
      BY <1>13 DEF FinishFault, TaskFault, Notify, Crash, storageVars
    <3>2. notified \in Nat /\ crashes \in Nat /\ faults \in Nat
      BY <1>0 DEF TypeOK
    <3>3. notified' \in Nat /\ crashes' \in Nat /\ faults' \in Nat
      BY <3>1, <3>2
    <3> QED BY <1>0, <3>1, <3>3 DEF TypeOK
  <2>4. l \in PCs /\ l \notin InStep \cup {"begin", "finish", "row", "clear", "save", "idle",
                                           "complete", "mark"}
    BY DEF PCs, InStep
  <2> QED BY <2>1, <2>2, <2>3, <2>4, GotoKeepsRows
<1>14. CASE UNCHANGED vars
  <2>1. TypeOK' /\ StartInv' /\ StepInv'
    BY <1>0, <1>14 DEF vars, TypeOK, StartInv, StepInv, Step
  <2>2. OutputInv' /\ EndInv' /\ EvidenceInv'
    BY <1>0, <1>14 DEF vars, OutputInv, EndInv, Ended, EvidenceInv
  <2> QED BY <2>1, <2>2 DEF RowInv
<1> QED
  BY <1>1, <1>2, <1>3, <1>4, <1>5, <1>6, <1>7, <1>8, <1>9, <1>10, <1>11, <1>12,
     <1>13, <1>14 DEF Next, RunStep

LEMMA RowInvariant == Spec => []RowInv
BY RowInit, RowStep, PTL DEF Spec

\* Between any two statements of any workers, overlapping or not, the rows have
\* their types, and a verification step that is recorded as completed has its
\* verdict row (StepService.run, PrecheckService and PostCheckService._run).
THEOREM RowsStayConsistent == Spec => []RowsConsistent
<1>1. RowInv => RowsConsistent
  BY DEF RowInv, RowsConsistent, CompletedHasVerdict, OutputInv, Steps
<1> QED BY <1>1, RowInvariant, PTL

-----------------------------------------------------------------------------
(* Deliveries one after another. *)

Loop == {"begin", "finish"} \cup InStep

\* Deliveries one after another: one worker at a time, and the attempt finished
\* only when nobody works on it any more.
AloneInv ==
    /\ \A v, w \in Runs : Alive(v) /\ Alive(w) => v = w
    /\ \A w \in Runs :
          /\ run[w].pc = "mark" => ~Finished
          /\ run[w].pc \in Loop => status = "running"
          /\ run[w].pc = "notify" /\ faults = 0 => Finished
    /\ ~Finished => final = ""

\* One round of notifications, and nobody working after it.
NotifyInv ==
    faults = 0 => \/ notified = 0
                  \/ notified = 1 /\ Finished /\ \A w \in Runs : ~Alive(w)

TurnInv == RowInv /\ AloneInv /\ NotifyInv

-----------------------------------------------------------------------------
Done(s) == artifact[s].status = "completed"

\* A key that something refers to is the source or was written by a step that
\* is completed.
Holds(u) == u = "source" \/ (u \in TransformSteps /\ Done(u))

\* The keys of completed steps are in storage, and they hand on nothing else
\* unless a completed step was switched off.
KeyInv ==
    /\ "source" \in stored /\ content["source"] = {}
    /\ \A u \in TransformSteps : Done(u) => u \in stored
    /\ undone = {} => \A s \in Steps : Done(s) => Holds(artifact[s].out)

\* The verdicts and the score are about the files that their steps hand on.
VerdictInv ==
    /\ verdict["precheck"] # "none" => judged["precheck"] = {}
    /\ undone = {} =>
          /\ Done("postcheck") => judged["postcheck"] = content[artifact["postcheck"].out]
          /\ Done("scoring") => scoredOn = content[artifact["scoring"].out]
    /\ ScoreMatchesVerdict

\* What a delivery in the loop has in its hands: a step that is not completed
\* yet, and a key that holds.
HandInv(w) ==
    /\ run[w].pc \in InStep => ~Done(Step(w))
    /\ run[w].pc = "complete" /\ Step(w) \in TransformSteps => Step(w) \in stored
    /\ run[w].i = 1 => run[w].uri = "source"
    /\ undone = {} => Holds(run[w].uri)
    /\ run[w].pc = "row" => run[w].work = content[run[w].uri]
    /\ run[w].pc = "complete" =>
          /\ Step(w) = "postcheck" => judged["postcheck"] = content[run[w].uri]
          /\ Step(w) = "scoring" => scoredOn = content[run[w].uri]
    /\ undone = {} /\ Ended(w) /\ "postcheck" \in enabled[w]
          => judged["postcheck"] = content[run[w].uri]
    /\ run[w].i = N /\ Done("scoring") => run[w].uri = artifact["scoring"].out

\* What a finished attempt serves.
ServedInv ==
    /\ undone = {} /\ Finished => Holds(final)
    /\ CompliantServesJudgedFile

FileInv ==
    /\ TurnInv /\ KeyInv /\ VerdictInv /\ ServedInv
    /\ \A w \in Runs : run[w].pc \in Loop => HandInv(w)

-----------------------------------------------------------------------------
\* The transforms before the i-th step, and those of them whose work everything
\* that was handed on to the i-th step or a later one contains.
Before(i) == {PIPELINE_STEPS[j] : j \in 1..(i - 1)} \cap TransformSteps
Solid(i) == {s \in Before(i) \ late : artifact[s].status = "completed"}

\* Each file holds the work of steps up to the one that wrote it, and what a
\* step hands on that of all those up to it that count as completed and were
\* completed in order.
ContentInv ==
    /\ \A k \in 1..N : LET s == PIPELINE_STEPS[k] IN
          /\ s \in TransformSteps => content[s] \subseteq Before(k + 1)
          /\ Done(s) => /\ artifact[s].out \in {"source"} \cup Before(k + 1)
                        /\ Solid(k + 1) \subseteq content[artifact[s].out]
    /\ \A s \in TransformSteps : Done(s) => s \in Before(N)

\* The same of what a delivery in the loop has in its hands.
HandWorkInv(w) ==
    /\ run[w].uri \in {"source"} \cup Before(run[w].i)
    /\ Solid(run[w].i) \subseteq content[run[w].uri]
    /\ run[w].pc \in {"clear", "save"}
          => run[w].work = content[run[w].uri] \cup {Step(w)}
    /\ run[w].pc = "complete" /\ Step(w) \in TransformSteps
          => content[Step(w)] = content[run[w].uri] \cup {Step(w)}
    /\ run[w].pc = "finish" /\ run[w].outcome \in {"noncompliant", "end"}
          => run[w].i >= N

WorkInv ==
    /\ FileInv /\ ContentInv /\ NoCompletedWorkDropped
    /\ \A w \in Runs : run[w].pc \in Loop => HandWorkInv(w)
-----------------------------------------------------------------------------
\* The moves of the loop.

LoopAction(w) ==
    \/ SkipStep(w) \/ ResumeStep(w) \/ StartStep(w) \/ ExecuteStep(w) \/ StepFails(w)
    \/ ClearOutput(w) \/ SaveOutput(w) \/ CreateRow(w) \/ CompleteStep(w)
    \/ EndLoop(w) \/ DatabaseFault(w)

\* Where the step that a delivery is at stands in the list.
LEMMA StepPlace ==
    ASSUME TypeOK, NEW w \in Runs, run[w].i <= N
    PROVE  /\ Step(w) = "precheck" => run[w].i = 1
           /\ Step(w) = "scoring" => run[w].i = N - 1
           /\ Step(w) = "postcheck" => run[w].i = N
           /\ Step(w) \in TransformSteps => run[w].i \in 2..(N - 2)
<1>1. run[w].i \in 1..N /\ 1 \in 1..N /\ N - 1 \in 1..N /\ N \in 1..N
  <2>1. run[w].i \in 1..(N + 1)
    BY RunFields
  <2> QED BY <2>1, StepList
<1>2. PICK i \in 1..N : i = run[w].i
  BY <1>1
<1>3. \A j \in 1..N : PIPELINE_STEPS[i] = PIPELINE_STEPS[j] => i = j
  BY StepList
<1>4. Step(w) \in TransformSteps => i \in 2..(N - 2)
  BY <1>2, StepList DEF Step
<1> QED BY <1>1, <1>2, <1>3, <1>4, StepList DEF Step

LEMMA NextCases ==
    ASSUME Next
    PROVE  \E w \in Runs : \/ Fetch(w) \/ MarkRunning(w) \/ LoopAction(w)
                           \/ MarkFinished(w) \/ FinishFault(w) \/ TaskFault(w)
                           \/ Notify(w) \/ Crash(w)
BY DEF Next, RunStep, LoopAction

\* How a step of the loop that is not just Goto goes on.
LEMMA HandleMoves ==
    ASSUME TypeOK, NEW w \in Runs, NEW u \in Uris, run[w].i <= N, NEW p \in BOOLEAN,
           HandleResult(w, Step(w), p, u)
    PROVE  \/ /\ run'[w].pc = "begin" /\ run'[w].i = run[w].i + 1 /\ run'[w].uri = u
              /\ OthersKept(w) /\ ~(Step(w) = "postcheck" /\ ~p)
           \/ /\ run'[w].pc = "finish" /\ run'[w].i = run[w].i /\ run'[w].uri = run[w].uri
              /\ OthersKept(w)
              /\ \/ run'[w].outcome = "already" /\ Step(w) = "precheck" /\ p
                 \/ run'[w].outcome = "noncompliant" /\ Step(w) = "postcheck" /\ ~p
<1>1. "already" \in Outcomes /\ "noncompliant" \in Outcomes
  BY DEF Outcomes
<1> QED
  BY <1>1, NextStepMoves, LeaveLoopMoves DEF HandleResult

LEMMA LoopMoves ==
    ASSUME RowInv, NEW w \in Runs, LoopAction(w)
    PROVE  /\ run[w].pc \in Loop /\ run'[w].pc \in Loop /\ OthersKept(w)
           /\ UNCHANGED <<status, final, notified, crashes, enabled>>
           /\ faults' = faults \/ faults' = faults + 1
           /\ undone \subseteq undone' /\ late \subseteq late'
<1>0. TypeOK /\ StepInv /\ OutputInv /\ "error" \in Outcomes /\ "end" \in Outcomes
  BY DEF RowInv, Outcomes
<1>1. CASE SkipStep(w)
  <2>1. run[w].uri \in Uris /\ run[w].i <= N /\ NextStep(w, run[w].uri)
    BY <1>0, <1>1, RunFields DEF SkipStep, N
  <2>2. run'[w].pc = "begin" /\ OthersKept(w)
    BY <1>0, <2>1, NextStepMoves
  <2> QED BY <1>1, <2>2 DEF SkipStep, Loop
<1>2. CASE ResumeStep(w)
  <2>1. /\ Step(w) \in Steps /\ run[w].i <= N /\ artifact[Step(w)].out \in Uris
        /\ UNCHANGED <<dbVars, storageVars, otherVars, notified, crashes, faults>>
        /\ run[w].pc = "begin"
    BY <1>0, <1>2, RunFields DEF ResumeStep, N, OutputInv
  <2>2. \/ NextStep(w, artifact[Step(w)].out)
        \/ LeaveLoop(w, "error")
        \/ HandleResult(w, Step(w), verdict[Step(w)] = "pass", artifact[Step(w)].out)
    BY <1>2 DEF ResumeStep
  <2>3. run'[w].pc \in {"begin", "finish"} /\ OthersKept(w)
    <3>1. CASE NextStep(w, artifact[Step(w)].out)
      BY <1>0, <2>1, <3>1, NextStepMoves
    <3>2. CASE LeaveLoop(w, "error")
      BY <1>0, <3>2, LeaveLoopMoves
    <3>3. CASE HandleResult(w, Step(w), verdict[Step(w)] = "pass", artifact[Step(w)].out)
      <4>1. (verdict[Step(w)] = "pass") \in BOOLEAN
        OBVIOUS
      <4> QED BY <1>0, <2>1, <3>3, <4>1, HandleMoves
    <3> QED BY <2>2, <3>1, <3>2, <3>3
  <2> QED BY <2>1, <2>3 DEF Loop, dbVars, otherVars
<1>3. CASE StartStep(w) \/ ClearOutput(w) \/ SaveOutput(w)
  <2>1. PICK l \in {"execute", "save", "complete"} : Goto(w, l)
    BY <1>3 DEF StartStep, ClearOutput, SaveOutput
  <2>2. l \in PCs
    BY DEF PCs, InStep
  <2>3. run'[w].pc = l /\ OthersKept(w)
    BY <1>0, <2>1, <2>2, GotoMoves
  <2> QED BY <1>3, <2>3 DEF StartStep, ClearOutput, SaveOutput, Loop, InStep, dbVars, otherVars
<1>4. CASE ExecuteStep(w)
  <2>1. run[w].i <= N /\ run[w].pc = "execute"
    BY <1>0, <1>4 DEF ExecuteStep, StepInv, InStep
  <2>2. run'[w].pc \in {"clear", "row"} /\ OthersKept(w)
    BY <1>0, <1>4, <2>1, ExecuteMoves
  <2> QED BY <1>4, <2>1, <2>2 DEF ExecuteStep, Loop, InStep, dbVars, otherVars
<1>5. CASE StepFails(w)
  <2>1. run[w].i <= N /\ run[w].uri \in Uris /\ run[w].pc \in InStep
    BY <1>0, <1>5, RunFields DEF StepFails, StepInv, InStep
  <2>2. run'[w].pc \in {"begin", "finish"} /\ OthersKept(w)
    BY <1>0, <1>5, <2>1, NextStepMoves, LeaveLoopMoves DEF StepFails
  <2> QED BY <1>5, <2>1, <2>2 DEF StepFails, Loop, otherVars
<1>6. CASE CreateRow(w)
  <2>1. run'[w].pc \in {"complete", "finish"} /\ OthersKept(w)
    BY <1>0, <1>6, GotoMoves, LeaveLoopMoves DEF CreateRow, PCs, InStep
  <2> QED BY <1>6, <2>1 DEF CreateRow, Loop, InStep, otherVars
<1>7. CASE CompleteStep(w)
  <2> DEFINE u == IF Step(w) \in TransformSteps THEN Step(w) ELSE run[w].uri
  <2>1. run[w].i <= N /\ u \in Uris /\ run[w].pc = "complete" /\ run[w].pass \in BOOLEAN
    BY <1>0, <1>7, RunFields DEF CompleteStep, StepInv, InStep, Uris
  <2>2. NextStep(w, u) \/ HandleResult(w, Step(w), run[w].pass, u)
    BY <1>7 DEF CompleteStep
  <2> HIDE DEF u
  <2>3. run'[w].pc \in {"begin", "finish"} /\ OthersKept(w)
    BY <1>0, <2>1, <2>2, NextStepMoves, HandleMoves
  <2> QED BY <1>7, <2>1, <2>3 DEF CompleteStep, Loop, InStep, otherVars
<1>8. CASE EndLoop(w) \/ DatabaseFault(w)
  <2>1. run'[w].pc = "finish" /\ OthersKept(w)
    BY <1>0, <1>8, LeaveLoopMoves DEF EndLoop, DatabaseFault
  <2> QED BY <1>8, <2>1 DEF EndLoop, DatabaseFault, Loop, InStep, dbVars, otherVars
<1> QED BY <1>1, <1>2, <1>3, <1>4, <1>5, <1>6, <1>7, <1>8 DEF LoopAction

-----------------------------------------------------------------------------
\* One delivery at a time.

LEMMA TurnInit == Init => TurnInv
<1> SUFFICES ASSUME Init PROVE TurnInv
  OBVIOUS
<1>1. \A w \in Runs : run[w].pc = "idle"
  BY DEF Init
<1> QED
  BY <1>1, RowInit DEF Init, TurnInv, AloneInv, NotifyInv, Alive, Loop, InStep, Finished,
                       FINISHED_STATUSES

\* The one worker that is at work moves, or the first one starts.
LEMMA TurnKept ==
    ASSUME TurnInv, RowInv', NEW w \in Runs, OthersKept(w),
           Alive(w) \/ \A v \in Runs : ~Alive(v),
           run'[w].pc = "mark" => ~Finished',
           run'[w].pc \in Loop => status' = "running",
           run'[w].pc = "notify" /\ faults' = 0 => Finished',
           ~Finished' => final' = "",
           faults' = 0 => \/ notified' = 0
                          \/ notified' = 1 /\ Finished' /\ ~(Alive(w)')
    PROVE  TurnInv' /\ \A v \in Runs : v # w => ~(Alive(v)') /\ run[v].pc \notin Loop
<1>1. \A v \in Runs : v # w => ~Alive(v)
  BY DEF TurnInv, AloneInv
<1>2. \A v \in Runs : v # w => ~(Alive(v)')
  BY <1>1 DEF OthersKept, Alive
<1>3. \A v \in Runs : v # w => run'[v].pc \notin Loop \cup {"mark", "notify"} /\ run[v].pc \notin Loop
  BY <1>1, <1>2 DEF Alive, Loop, InStep, OthersKept
<1>4. AloneInv'
  BY <1>2, <1>3 DEF AloneInv
<1>5. NotifyInv'
  BY <1>2 DEF NotifyInv
<1> QED BY <1>2, <1>3, <1>4, <1>5 DEF TurnInv

LEMMA LoopKeepsTurn ==
    ASSUME TurnInv, RowInv', NEW w \in Runs, LoopAction(w)
    PROVE  TurnInv' /\ \A v \in Runs : v # w => run[v].pc \notin Loop /\ run'[v].pc \notin Loop
<1>1. /\ run[w].pc \in Loop /\ run'[w].pc \in Loop /\ OthersKept(w)
      /\ UNCHANGED <<status, final, notified, crashes, enabled>>
      /\ faults' = faults \/ faults' = faults + 1
  BY LoopMoves DEF TurnInv
<1>2. Alive(w) /\ run[w].pc \notin {"mark", "notify"} /\ run'[w].pc \notin {"mark", "notify"}
  BY <1>1 DEF Alive, Loop, InStep
<1>3. status' = "running" /\ (~Finished' => final' = "")
  BY <1>1 DEF TurnInv, AloneInv, Finished
<1>4. faults \in Nat
  BY DEF TurnInv, RowInv, TypeOK
<1>5. faults' = 0 => faults = 0
  BY <1>1, <1>4
<1>6. faults' = 0 => notified' = 0
  BY <1>1, <1>2, <1>5 DEF TurnInv, NotifyInv
<1>7. TurnInv' /\ \A v \in Runs : v # w => run[v].pc \notin Loop
  BY <1>1, <1>2, <1>3, <1>6, TurnKept
<1> QED BY <1>1, <1>7 DEF OthersKept

LEMMA TurnStep ==
    ASSUME Overlap = FALSE, TurnInv, [Next]_vars
    PROVE  TurnInv'
<1>0. RowInv' /\ TypeOK
  BY RowStep DEF TurnInv, RowInv
<1>1. CASE UNCHANGED vars
  BY <1>0, <1>1 DEF vars, TurnInv, AloneInv, NotifyInv, Alive, Finished
<1>3. ASSUME NEW w \in Runs, Fetch(w) PROVE TurnInv'
  <2>1. PICK l \in {"done", "mark"} : Goto(w, l) /\ (l = "mark" => ~Finished)
    BY <1>3 DEF Fetch, Finished
  <2>2. l \in PCs
    BY DEF PCs
  <2>3. OthersKept(w) /\ run'[w].pc = l
    BY <1>0, <2>1, <2>2, GotoMoves
  <2>4. /\ \A v \in Runs : ~Alive(v)
        /\ UNCHANGED <<status, final, notified, faults>>
    BY <1>3 DEF Fetch, dbVars
  <2>5. ~Finished => final' = ""
    BY <2>4 DEF TurnInv, AloneInv
  <2>6. faults' = 0 => \/ notified' = 0
                       \/ notified' = 1 /\ Finished
    BY <2>4 DEF TurnInv, NotifyInv
  <2>7. Finished' = Finished
    BY <2>4 DEF Finished
  <2>8. faults' = 0 => notified' = 0 \/ (notified' = 1 /\ Finished' /\ ~(Alive(w)'))
    BY <2>1, <2>3, <2>6, <2>7 DEF Alive
  <2> QED BY <1>0, <2>1, <2>3, <2>4, <2>5, <2>7, <2>8, TurnKept DEF Loop, InStep
<1>4. ASSUME NEW w \in Runs, MarkRunning(w) PROVE TurnInv'
  <2>1. OthersKept(w) /\ run'[w].pc = "begin"
    BY <1>0, <1>4, GotoMoves DEF MarkRunning, PCs
  <2>2. /\ Alive(w) /\ ~Finished /\ status' = "running" /\ ~Finished'
        /\ UNCHANGED <<final, notified, faults>>
    BY <1>4 DEF MarkRunning, Alive, TurnInv, AloneInv, Finished, FINISHED_STATUSES
  <2>3. final' = "" /\ (faults' = 0 => notified' = 0)
    BY <2>2 DEF TurnInv, AloneInv, NotifyInv
  <2> QED BY <1>0, <2>1, <2>2, <2>3, TurnKept
<1>5. ASSUME NEW w \in Runs, LoopAction(w) PROVE TurnInv'
  BY <1>0, <1>5, LoopKeepsTurn
<1>6. ASSUME NEW w \in Runs, MarkFinished(w) PROVE TurnInv'
  <2>1. OthersKept(w) /\ run'[w].pc = "notify"
    BY <1>0, <1>6, GotoMoves DEF MarkFinished, PCs
  <2>2. Alive(w) /\ UNCHANGED <<notified, faults>>
    BY <1>6 DEF MarkFinished, Alive
  <2>3. Finished'
    <3>1. status' = FinalStatus(run[w].outcome, enabled[w])
      BY <1>6 DEF MarkFinished
    <3>2. \A o \in Outcomes, on \in SUBSET Steps : FinalStatus(o, on) \in FINISHED_STATUSES
      BY DEF FinalStatus, Outcomes, FINISHED_STATUSES
    <3> QED BY <1>0, <3>1, <3>2, RunFields DEF Finished
  <2>4. faults' = 0 => notified' = 0
    BY <2>2 DEF TurnInv, NotifyInv
  <2> QED BY <1>0, <2>1, <2>2, <2>3, <2>4, TurnKept DEF Loop, InStep
<1>7. ASSUME NEW w \in Runs, FinishFault(w) \/ TaskFault(w) \/ Crash(w) PROVE TurnInv'
  <2>1. PICK l \in {"notify", "done", "dead"} :
           Goto(w, l) /\ (l = "notify" => faults' = faults + 1)
    BY <1>7 DEF FinishFault, TaskFault, Crash
  <2>2. l \in PCs
    BY DEF PCs
  <2>3. OthersKept(w) /\ run'[w].pc = l
    BY <1>0, <2>1, <2>2, GotoMoves
  <2>4. /\ Alive(w) /\ UNCHANGED <<status, final, notified>>
        /\ faults' = faults \/ faults' = faults + 1
    BY <1>7 DEF FinishFault, TaskFault, Crash, Alive, dbVars
  <2>5. faults \in Nat
    BY <1>0 DEF TypeOK
  <2>6. (faults' = 0 => faults = 0) /\ faults + 1 # 0
    BY <2>4, <2>5
  <2>7. /\ Finished' = Finished /\ (~Finished' => final' = "")
        /\ faults' = 0 => notified' = 0
    BY <2>4, <2>6 DEF Finished, TurnInv, AloneInv, NotifyInv
  <2> QED BY <1>0, <2>1, <2>3, <2>4, <2>6, <2>7, TurnKept DEF Loop, InStep
<1>8. ASSUME NEW w \in Runs, Notify(w) PROVE TurnInv'
  <2>1. OthersKept(w) /\ run'[w].pc = "done"
    BY <1>0, <1>8, GotoMoves DEF Notify, PCs
  <2>2. Alive(w) /\ UNCHANGED <<status, final, faults>> /\ notified' = notified + 1 /\ run[w].pc = "notify"
    BY <1>8 DEF Notify, Alive, dbVars
  <2>3. faults = 0 => notified = 0 /\ Finished
    BY <2>2 DEF TurnInv, NotifyInv, AloneInv
  <2>4. Finished' = Finished /\ (~Finished => final = "")
    BY <2>2 DEF Finished, TurnInv, AloneInv
  <2>5. faults' = 0 => notified' = 1 /\ Finished' /\ ~(Alive(w)')
    BY <2>1, <2>2, <2>3, <2>4 DEF Alive
  <2> QED BY <1>0, <2>1, <2>2, <2>4, <2>5, TurnKept DEF Loop, InStep
<1> QED BY <1>1, <1>3, <1>4, <1>5, <1>6, <1>7, <1>8, NextCases

LEMMA TurnInvariant ==
    ASSUME Overlap = FALSE
    PROVE  Spec => []TurnInv
BY TurnInit, TurnStep, PTL DEF Spec

\* Deliveries one after another enqueue at most one round of webhook
\* notifications, as long as every database statement gets through, however
\* many of the workers are killed (process_remediation's finally clause).
THEOREM NotifiedOnce ==
    ASSUME Overlap = FALSE
    PROVE  Spec => []OneRoundOfWebhooks
<1>1. TurnInv => OneRoundOfWebhooks
  BY DEF TurnInv, NotifyInv, OneRoundOfWebhooks
<1> QED BY <1>1, TurnInvariant, PTL

\* What a step does to the job as its callers see it.
LEMMA LifecycleStep ==
    ASSUME TurnInv, [Next]_vars
    PROVE  [Lifecycle!Next]_(Lifecycle!jobVars)
<1>0. TypeOK
  BY DEF TurnInv, RowInv
<1>1. CASE UNCHANGED <<status, final>>
  BY <1>1 DEF Lifecycle!jobVars
<1>2. ASSUME NEW w \in Runs, MarkRunning(w) PROVE [Lifecycle!Next]_(Lifecycle!jobVars)
  <2>1. /\ run[w].pc = "mark" /\ status' = "running" /\ final' = final
    BY <1>2 DEF MarkRunning
  <2>2. status \in {"queued", "running"}
    BY <1>0, <2>1 DEF TurnInv, AloneInv, Finished, TypeOK, JobStatus
  <2> QED BY <2>1, <2>2 DEF Lifecycle!Next, Lifecycle!Start, Lifecycle!jobVars
<1>3. ASSUME NEW w \in Runs, MarkFinished(w) PROVE [Lifecycle!Next]_(Lifecycle!jobVars)
  <2>1. /\ run[w].pc = "finish" /\ status' = FinalStatus(run[w].outcome, enabled[w])
        /\ final' = IF run[w].outcome = "already" THEN "source" ELSE run[w].uri
    BY <1>3 DEF MarkFinished
  <2>2. status = "running"
    BY <2>1 DEF TurnInv, AloneInv, Loop
  <2>3. \A o \in Outcomes, on \in SUBSET Steps : FinalStatus(o, on) \in Lifecycle!Finished
    BY DEF FinalStatus, Outcomes, Lifecycle!Finished
  <2>4. status' \in Lifecycle!Finished /\ final' \in Uris
    BY <1>0, <2>1, <2>3, RunFields DEF Uris
  <2> QED BY <2>2, <2>4 DEF Lifecycle!Next, Lifecycle!Finish
<1>4. ASSUME NEW w \in Runs, LoopAction(w) PROVE UNCHANGED <<status, final>>
  BY <1>4, LoopMoves DEF TurnInv
<1>5. ASSUME NEW w \in Runs,
             Fetch(w) \/ FinishFault(w) \/ TaskFault(w) \/ Notify(w) \/ Crash(w)
      PROVE  UNCHANGED <<status, final>>
  BY <1>5 DEF Fetch, FinishFault, TaskFault, Notify, Crash, dbVars
<1>7. CASE UNCHANGED vars
  BY <1>7, <1>1 DEF vars
<1> QED BY <1>1, <1>2, <1>3, <1>4, <1>5, <1>7, NextCases

\* The attempt as its callers see it goes from queued to running to finished,
\* with the file it serves, and never anywhere else: Pipeline implements
\* JobLifecycle but for its fairness, which TLC checks (process_remediation,
\* mark_running, _mark_finished).
THEOREM PipelineImplementsLifecycle ==
    ASSUME Overlap = FALSE
    PROVE  Spec => Lifecycle!Init /\ [][Lifecycle!Next]_(Lifecycle!jobVars)
<1>1. Init => Lifecycle!Init
  BY DEF Init, Lifecycle!Init
<1>2. TurnInv /\ [Next]_vars => [Lifecycle!Next]_(Lifecycle!jobVars)
  BY LifecycleStep
<1> QED BY <1>1, <1>2, TurnInvariant, PTL DEF Spec

\* A finished attempt keeps its status and its file for ever, whatever is
\* delivered afterwards, one delivery at a time (the early return of
\* process_remediation for a finished row).
THEOREM FinishedNeverChanges ==
    ASSUME Overlap = FALSE
    PROVE  Spec => FinishedIsFinal
<1>1. ASSUME TurnInv, [Next]_vars PROVE Finished => status' = status /\ final' = final
  <2>1. [Lifecycle!Next]_(Lifecycle!jobVars)
    BY <1>1, LifecycleStep
  <2> QED
    BY <2>1 DEF Lifecycle!Next, Lifecycle!Start, Lifecycle!Finish, Lifecycle!jobVars,
                Finished, FINISHED_STATUSES
<1>2. TurnInv /\ [Next]_vars => [Finished => status' = status /\ final' = final]_vars
  BY <1>1
<1> QED BY <1>2, TurnInvariant, PTL DEF Spec, FinishedIsFinal

\* Where postcheck was switched off its row is skipped, unless deliveries overlap.
SkippedInv ==
    /\ status = "skipped" => artifact["postcheck"].status = "skipped"
    /\ \A w \in Runs : Ended(w) /\ "postcheck" \notin enabled[w]
                          => artifact["postcheck"].status = "skipped"

\* The one delivery in the loop keeps it so.
LEMMA LoopKeepsSkipped ==
    ASSUME TurnInv, RowInv', SkippedInv, NEW w \in Runs, LoopAction(w)
    PROVE  SkippedInv'
<1>0. TypeOK /\ StepInv /\ OutputInv
  BY DEF TurnInv, RowInv
<1>1. /\ run[w].pc \in Loop /\ run'[w].pc \in Loop /\ OthersKept(w)
      /\ UNCHANGED <<status, enabled>>
  BY LoopMoves DEF TurnInv
<1>2. status' # "skipped"
  BY <1>1 DEF TurnInv, AloneInv
<1>3. \A v \in Runs : v # w => ~(Ended(v)')
  <2>1. \A v \in Runs : v # w => run'[v].pc \notin Loop
    BY LoopKeepsTurn
  <2> QED BY <2>1 DEF Ended, Loop
<1>4. ASSUME Ended(w)', "postcheck" \notin enabled[w]
      PROVE  artifact'["postcheck"].status = "skipped"
  <2>1. CASE SkipStep(w)
    <3>1. /\ run[w].i <= N /\ NextStep(w, run[w].uri) /\ MarkStatus(Step(w), "skipped", "")
          /\ run[w].uri \in Uris /\ Step(w) \in Steps
      BY <1>0, <2>1, RunFields DEF SkipStep, N
    <3>2. run'[w].pc = "begin" /\ (run'[w].i > N => Step(w) = "postcheck")
      BY <1>0, <3>1, NextStepMoves
    <3>3. artifact'[Step(w)].status = "skipped"
      BY <1>0, <3>1, MarkStatusMoves DEF StepStatus
    <3> QED BY <1>4, <3>2, <3>3 DEF Ended
  <2>2. CASE EndLoop(w)
    <3>1. run[w].pc = "begin" /\ run[w].i > N /\ UNCHANGED artifact
      BY <2>2 DEF EndLoop, N, dbVars
    <3> QED BY <1>4, <3>1 DEF SkippedInv, Ended
  <2>3. CASE ResumeStep(w) \/ StepFails(w) \/ CompleteStep(w)
    <3>1. /\ run[w].i <= N /\ Step(w) \in enabled[w] /\ Step(w) # "postcheck"
          /\ run[w].pass \in BOOLEAN /\ run[w].uri \in Uris /\ Step(w) \in Steps
      BY <1>0, <1>4, <2>3, RunFields
         DEF ResumeStep, StepFails, CompleteStep, StepInv, InStep, N
    <3>2. \A u \in Uris : NextStep(w, u) => run'[w].pc = "begin" /\ ~(run'[w].i > N)
      BY <1>0, <3>1, NextStepMoves
    <3>3. \A o \in Outcomes : LeaveLoop(w, o) /\ o # "end" => ~(Ended(w)')
      BY <1>0, LeaveLoopMoves DEF Ended
    <3>4. PICK u \in Uris : \/ NextStep(w, u) \/ LeaveLoop(w, "error")
                            \/ LeaveLoop(w, "already") \/ LeaveLoop(w, "noncompliant")
      <4>1. CASE ResumeStep(w)
        <5>1. artifact[Step(w)].out \in Uris
          BY <1>0, <3>1, <4>1 DEF ResumeStep, OutputInv
        <5> QED BY <4>1, <5>1 DEF ResumeStep, HandleResult
      <4>2. CASE StepFails(w)
        BY <3>1, <4>2 DEF StepFails
      <4>3. CASE CompleteStep(w)
        <5>1. (IF Step(w) \in TransformSteps THEN Step(w) ELSE run[w].uri) \in Uris
          BY <3>1 DEF Uris
        <5> QED BY <4>3, <5>1 DEF CompleteStep, HandleResult
      <4> QED BY <2>3, <4>1, <4>2, <4>3
    <3> QED BY <1>4, <3>2, <3>3, <3>4 DEF Ended, Outcomes
  <2>4. CASE StartStep(w) \/ ExecuteStep(w) \/ ClearOutput(w) \/ SaveOutput(w)
    <3>1. run'[w].pc \in InStep
      <4>1. CASE ExecuteStep(w)
        <5>1. run[w].i <= N
          BY <1>0, <4>1 DEF ExecuteStep, StepInv, InStep
        <5> QED BY <1>0, <4>1, <5>1, ExecuteMoves DEF InStep
      <4>2. CASE StartStep(w) \/ ClearOutput(w) \/ SaveOutput(w)
        BY <1>0, <4>2, GotoMoves DEF StartStep, ClearOutput, SaveOutput, PCs, InStep
      <4> QED BY <2>4, <4>1, <4>2
    <3> QED BY <1>4, <3>1 DEF Ended, InStep
  <2>5. CASE CreateRow(w) \/ DatabaseFault(w)
    <3>1. Goto(w, "complete") \/ LeaveLoop(w, "error")
      BY <2>5 DEF CreateRow, DatabaseFault
    <3>2. "complete" \in PCs /\ "error" \in Outcomes
      BY DEF PCs, InStep, Outcomes
    <3> QED BY <1>0, <1>4, <3>1, <3>2, GotoMoves, LeaveLoopMoves DEF Ended
  <2> QED BY <2>1, <2>2, <2>3, <2>4, <2>5 DEF LoopAction
<1> QED BY <1>1, <1>2, <1>3, <1>4 DEF SkippedInv

LEMMA SkippedStep ==
    ASSUME Overlap = FALSE, TurnInv, SkippedInv, [Next]_vars
    PROVE  SkippedInv'
<1>0. RowInv' /\ TypeOK
  BY RowStep DEF TurnInv, RowInv
<1>1. CASE UNCHANGED vars
  BY <1>1 DEF vars, SkippedInv, Ended
<1>2. ASSUME NEW w \in Runs, LoopAction(w) PROVE SkippedInv'
  BY <1>0, <1>2, LoopKeepsSkipped
<1>3. ASSUME NEW w \in Runs,
             Fetch(w) \/ FinishFault(w) \/ TaskFault(w) \/ Notify(w) \/ Crash(w)
      PROVE  SkippedInv'
  <2>1. PICK l \in {"done", "mark", "notify", "dead"} : Goto(w, l)
    BY <1>3 DEF Fetch, FinishFault, TaskFault, Notify, Crash
  <2>2. OthersKept(w) /\ run'[w].pc = l
    BY <1>0, <2>1, GotoMoves DEF PCs
  <2>3. /\ UNCHANGED <<status, artifact>>
        /\ \A v \in Runs : v # w => enabled'[v] = enabled[v]
    BY <1>0, <1>3 DEF Fetch, FinishFault, TaskFault, Notify, Crash, otherVars, dbVars, TypeOK
  <2> QED BY <2>2, <2>3 DEF SkippedInv, Ended, OthersKept
<1>4. ASSUME NEW w \in Runs, MarkRunning(w) PROVE SkippedInv'
  <2>1. run'[w].pc = "begin" /\ Keeps(w) /\ OthersKept(w) /\ run[w].pc = "mark"
    BY <1>0, <1>4, GotoMoves DEF MarkRunning, PCs
  <2>2. run'[w].i = 1 /\ ~(1 > N)
    BY <2>1, StepList DEF TurnInv, RowInv, StartInv, Keeps
  <2>3. status' = "running" /\ UNCHANGED <<artifact, enabled>>
    BY <1>4 DEF MarkRunning, otherVars
  <2> QED BY <2>1, <2>2, <2>3 DEF SkippedInv, Ended, OthersKept
<1>5. ASSUME NEW w \in Runs, MarkFinished(w) PROVE SkippedInv'
  <2>1. run'[w].pc = "notify" /\ OthersKept(w)
    BY <1>0, <1>5, GotoMoves DEF MarkFinished, PCs
  <2>2. /\ run[w].pc = "finish" /\ status' = FinalStatus(run[w].outcome, enabled[w])
        /\ UNCHANGED <<artifact, enabled>>
    BY <1>5 DEF MarkFinished, otherVars
  <2>3. run[w].outcome \in Outcomes /\ run[w].outcome # "none"
    BY <1>0, <2>2, RunFields DEF TurnInv, RowInv, EndInv
  <2>4. status' = "skipped" => Ended(w) /\ "postcheck" \notin enabled[w]
    BY <2>2, <2>3 DEF FinalStatus, Outcomes, Ended
  <2> QED BY <2>1, <2>2, <2>4 DEF SkippedInv, Ended, OthersKept
<1> QED BY <1>1, <1>2, <1>3, <1>4, <1>5, NextCases

\* However many deliveries of the task run side by side, each with settings of its
\* own, crash or are redone, the status that _mark_finished saves rests on the
\* stored verdict, or on a delivery that ran all its steps without postcheck
\* (process_remediation).
THEOREM StatusRestsOnEvidence == Spec => []StatusHasEvidence
<1> DEFINE Inv == RowInv /\ (Overlap = FALSE => TurnInv /\ SkippedInv)
<1>1. Init => Inv
  <2>1. Init => SkippedInv
    <3> SUFFICES ASSUME Init PROVE SkippedInv
      OBVIOUS
    <3>1. \A w \in Runs : run[w].pc = "idle"
      BY DEF Init
    <3> QED BY <3>1 DEF Init, SkippedInv, Ended
  <2> QED BY <2>1, RowInit, TurnInit
<1>2. Inv /\ [Next]_vars => Inv'
  BY RowStep, TurnStep, SkippedStep
<1>3. Inv => StatusHasEvidence
  BY PipelineAssumption DEF RowInv, EvidenceInv, SkippedInv, StatusHasEvidence
<1> QED BY <1>1, <1>2, <1>3, PTL DEF Spec

-----------------------------------------------------------------------------
\* The files.

LEMMA FileInit == Init => FileInv
<1> SUFFICES ASSUME Init PROVE FileInv
  OBVIOUS
<1>1. \A w \in Runs : run[w].pc = "idle"
  BY DEF Init
<1>2. \A s \in Steps : ~Done(s)
  BY DEF Init, Done
<1>3. TransformSteps \subseteq Steps /\ VerifySteps \subseteq Steps /\ "scoring" \in Steps
  BY DEF Steps
<1>4. KeyInv
  BY <1>2, <1>3 DEF Init, KeyInv, Uris
<1>5. VerdictInv
  BY <1>2, <1>3 DEF Init, VerdictInv, ScoreMatchesVerdict, Done, VerifySteps
<1>6. ServedInv
  BY DEF Init, ServedInv, CompliantServesJudgedFile, Finished, FINISHED_STATUSES
<1> QED BY <1>1, <1>4, <1>5, <1>6, TurnInit DEF FileInv, Loop, InStep

\* A delivery goes on with u.
LEMMA Advance ==
    ASSUME TypeOK, NEW w \in Runs, NEW u \in Uris, run[w].i <= N, NextStep(w, u),
           UNCHANGED <<judged, content, enabled>>,
           undone' = {} => Holds(u)',
           Step(w) = "scoring" /\ Done("scoring")' => u = artifact'["scoring"].out,
           undone' = {} /\ Step(w) = "postcheck" /\ "postcheck" \in enabled[w]
               => judged["postcheck"] = content[u]
    PROVE  HandInv(w)'
<1>1. /\ run'[w].pc = "begin" /\ run'[w].i = run[w].i + 1 /\ run'[w].uri = u
      /\ run'[w].i > N => Step(w) = "postcheck"
  BY NextStepMoves
<1>2. run[w].i \in 1..(N + 1) /\ N \in Nat
  BY RunFields, StepList
<1>3. run'[w].i # 1 /\ (run'[w].i = N => run[w].i = N - 1)
  BY <1>1, <1>2
<1>4. run'[w].i = N => Step(w) = "scoring"
  BY <1>3, StepList DEF Step
<1>5. Ended(w)' => run'[w].i > N
  BY <1>1 DEF Ended
<1> QED BY <1>1, <1>3, <1>4, <1>5 DEF HandInv, InStep

\* A delivery leaves the loop.
LEMMA Leave ==
    ASSUME TypeOK, NEW w \in Runs, NEW o \in Outcomes, LeaveLoop(w, o), HandInv(w),
           UNCHANGED <<judged, content, enabled, undone>>,
           \A t \in TransformSteps \cup {"scoring"} : artifact'[t] = artifact[t],
           o = "end" => Ended(w)
    PROVE  HandInv(w)'
<1>1. /\ run'[w].pc = "finish" /\ run'[w].i = run[w].i /\ run'[w].uri = run[w].uri
      /\ run'[w].outcome = o
  BY LeaveLoopMoves
<1>2. \A u : Holds(u)' = Holds(u)
  BY DEF Holds, Done
<1>3. Ended(w)' => Ended(w)
  BY <1>1 DEF Ended
<1>4. Done("scoring")' = Done("scoring")
  BY DEF Done
<1> QED BY <1>1, <1>2, <1>3, <1>4 DEF HandInv, InStep

\* Nothing but the rows of steps that are not completed changes.
LEMMA RowsKeepKeys ==
    ASSUME KeyInv, VerdictInv, \A t \in Steps : Done(t)' => artifact'[t] = artifact[t],
           undone' = {} => undone = {} /\ \A t \in Steps : Done(t) => artifact'[t] = artifact[t],
           UNCHANGED <<verdict, judged, scoredOn, stored, content, late>>
    PROVE  KeyInv' /\ VerdictInv'
<1>1. TransformSteps \subseteq Steps /\ "scoring" \in Steps /\ "postcheck" \in Steps
  BY DEF Steps, VerifySteps
<1>2. \A t \in Steps : Done(t)' => Done(t)
  BY DEF Done
<1>3. undone' = {} => undone = {} /\ \A u : Holds(u) => Holds(u)'
  BY <1>1 DEF Holds, Done
<1>4. KeyInv'
  BY <1>1, <1>2, <1>3 DEF KeyInv
<1>5. ScoreMatchesVerdict'
  BY <1>1, <1>2 DEF VerdictInv, ScoreMatchesVerdict, Done
<1>6. VerdictInv'
  BY <1>1, <1>2, <1>3, <1>5 DEF VerdictInv
<1> QED BY <1>4, <1>6

LEMMA LoopKeepsFiles ==
    ASSUME FileInv, NEW w \in Runs, LoopAction(w)
    PROVE  KeyInv' /\ VerdictInv' /\ HandInv(w)'
<1>0. /\ TypeOK /\ StepInv /\ OutputInv /\ KeyInv /\ VerdictInv /\ RowInv
      /\ "error" \in Outcomes /\ "end" \in Outcomes
      /\ run[w].pc \in Loop /\ HandInv(w) /\ run[w].uri \in Uris
      /\ run[w].i \in 1..(N + 1) /\ run[w].pass \in BOOLEAN
      /\ undone \subseteq undone' /\ late \subseteq late' /\ enabled' = enabled
      /\ run[w].i <= N => Step(w) \in Steps
  <2>1. RowInv /\ run[w].pc \in Loop /\ undone \subseteq undone' /\ late \subseteq late' /\ enabled' = enabled
    BY LoopMoves DEF FileInv, TurnInv
  <2>2. TypeOK
    BY <2>1 DEF RowInv
  <2> QED BY <2>1, <2>2, RunFields DEF FileInv, RowInv, Outcomes
<1>a. TransformSteps \subseteq Steps /\ "scoring" \in Steps /\ "postcheck" \in Steps
  BY DEF Steps, VerifySteps
<1>1. CASE SkipStep(w)
  <2> DEFINE s == Step(w)
  <2>1. /\ run[w].i <= N /\ s \notin enabled[w] /\ s \in Steps
        /\ MarkStatus(s, "skipped", "") /\ NextStep(w, run[w].uri)
        /\ UNCHANGED <<verdict, judged, scored, scoredOn, stored, content, late, enabled>>
        /\ undone' = undone \cup IF artifact[s].status = "completed" THEN {s} ELSE {}
    BY <1>0, <1>1 DEF SkipStep, N, storageVars
  <2>2. /\ artifact'[s].status = "skipped"
        /\ \A t \in Steps : t # s => artifact'[t] = artifact[t]
    BY <1>0, <2>1, MarkStatusMoves DEF StepStatus
  <2> HIDE DEF s
  <2>3. /\ \A t \in Steps : Done(t)' => artifact'[t] = artifact[t]
        /\ undone' = {} => undone = {} /\ ~Done(s)
        /\ undone' = {} => undone = {} /\ \A t \in Steps : Done(t) => artifact'[t] = artifact[t]
    BY <2>1, <2>2 DEF Done
  <2>u. PICK u \in Uris : u = run[w].uri
    BY <1>0
  <2>4. undone' = {} => Holds(u)'
    BY <1>0, <1>a, <2>3, <2>u DEF HandInv, Holds, Done
  <2>6. /\ undone' = {} /\ s = "postcheck" /\ "postcheck" \in enabled[w]
              => judged["postcheck"] = content[u]
        /\ s = "scoring" /\ Done("scoring")' => u = artifact'["scoring"].out
    BY <2>1, <2>2 DEF Done
  <2>5. HandInv(w)'
    BY <1>0, <2>1, <2>4, <2>6, <2>u, Advance DEF s
  <2> QED BY <1>0, <2>1, <2>3, <2>5, RowsKeepKeys
<1>2. CASE ResumeStep(w)
  <2> DEFINE s == Step(w)
  <2>0. /\ run[w].i <= N /\ s \in Steps /\ Done(s) /\ artifact[s].out \in Uris
        /\ UNCHANGED <<artifact, verdict, judged, scored, scoredOn, stored, content, late,
                       enabled, undone>>
    BY <1>0, <1>2 DEF ResumeStep, N, OutputInv, dbVars, storageVars, otherVars, Done
  <2>u. PICK u \in Uris : u = artifact[s].out
    BY <2>0
  <2>1. /\ run[w].i <= N /\ s \in Steps /\ Done(s)
        /\ UNCHANGED <<artifact, verdict, judged, scored, scoredOn, stored, content, late,
                       enabled, undone>>
    BY <2>0
  <2>2. /\ \/ s \notin VerifySteps /\ NextStep(w, u)
           \/ s \in VerifySteps /\ LeaveLoop(w, "error")
           \/ s \in VerifySteps /\ HandleResult(w, s, verdict[s] = "pass", u)
    BY <1>2, <2>u DEF ResumeStep
  <2> HIDE DEF s
  <2>3. undone' = {} => Holds(u)' /\ (s = "postcheck" => judged["postcheck"] = content[u])
    BY <1>0, <1>a, <2>1, <2>u DEF KeyInv, VerdictInv, Holds, Done
  <2>4. NextStep(w, u) => HandInv(w)'
    BY <1>0, <2>1, <2>3, <2>u, Advance DEF s
  <2>5. \A o \in Outcomes : LeaveLoop(w, o) /\ o # "end" => HandInv(w)'
    BY <1>0, <2>1, Leave
  <2>6. HandInv(w)'
    BY <2>2, <2>4, <2>5 DEF HandleResult, Outcomes
  <2> QED BY <1>0, <2>1, <2>6, RowsKeepKeys
<1>3. CASE StartStep(w)
  <2>1. /\ run[w].i <= N /\ ~Done(Step(w)) /\ Goto(w, "execute")
        /\ UNCHANGED <<artifact, verdict, judged, scored, scoredOn, stored, content, late,
                       enabled, undone>>
    BY <1>3 DEF StartStep, N, dbVars, storageVars, otherVars, Done
  <2>2. run'[w].pc = "execute" /\ Keeps(w)
    BY <1>0, <2>1, GotoMoves DEF PCs, InStep
  <2>3. HandInv(w)'
    BY <1>0, <2>1, <2>2 DEF HandInv, Keeps, Holds, Done, Ended, Step
  <2> QED BY <1>0, <2>1, <2>3, RowsKeepKeys
<1>4. CASE ExecuteStep(w)
  <2>1. /\ run[w].i <= N /\ run[w].pc = "execute"
        /\ UNCHANGED <<artifact, verdict, judged, scored, scoredOn, stored, content, late,
                       enabled, undone>>
    BY <1>0, <1>4 DEF ExecuteStep, dbVars, storageVars, otherVars, StepInv, InStep
  <2>2. /\ run'[w].pc \in {"clear", "row"} /\ Keeps(w)
        /\ run'[w].pc = "row" => run'[w].work = content[run[w].uri]
    BY <1>0, <1>4, <2>1, ExecuteMoves
  <2>3. ~Done(Step(w))
    BY <1>0, <2>1 DEF HandInv, InStep
  <2>4. HandInv(w)'
    BY <1>0, <2>1, <2>2, <2>3 DEF HandInv, Keeps, Holds, Done, Ended, Step
  <2> QED BY <1>0, <2>1, <2>4, RowsKeepKeys
<1>5. CASE StepFails(w)
  <2> DEFINE s == Step(w)
  <2>1. /\ run[w].pc \in InStep /\ MarkStatus(s, "failed", "")
        /\ \/ s = "postcheck" /\ LeaveLoop(w, "error")
           \/ s # "postcheck" /\ NextStep(w, run[w].uri)
        /\ UNCHANGED <<verdict, judged, scored, scoredOn, stored, content, late, enabled, undone>>
    BY <1>5 DEF StepFails, InStep, storageVars, otherVars
  <2>2. run[w].i <= N /\ s \in Steps /\ ~Done(s)
    BY <1>0, <2>1 DEF StepInv, HandInv
  <2>3. /\ artifact'[s].status = "failed"
        /\ \A t \in Steps : t # s => artifact'[t] = artifact[t]
    BY <1>0, <2>1, <2>2, MarkStatusMoves DEF StepStatus
  <2> HIDE DEF s
  <2>4. /\ \A t \in Steps : Done(t)' => artifact'[t] = artifact[t]
        /\ \A t \in Steps : Done(t) => artifact'[t] = artifact[t]
    BY <2>2, <2>3 DEF Done
  <2>u. PICK u \in Uris : u = run[w].uri
    BY <1>0
  <2>5. undone' = {} => Holds(u)'
    BY <1>0, <1>a, <2>1, <2>4, <2>u DEF HandInv, Holds, Done
  <2>6. CASE s = "postcheck"
    <3>1. \A t \in TransformSteps \cup {"scoring"} : artifact'[t] = artifact[t]
      BY <1>a, <2>3, <2>6 DEF TransformSteps
    <3>2. HandInv(w)'
      BY <1>0, <2>1, <2>6, <3>1, Leave
    <3> QED BY <1>0, <2>1, <2>4, <3>2, RowsKeepKeys
  <2>7. CASE s # "postcheck"
    <3>2. s = "scoring" => ~Done("scoring")'
      BY <2>3 DEF Done
    <3>1. HandInv(w)'
      BY <1>0, <2>1, <2>2, <2>5, <2>7, <2>u, <3>2, Advance DEF s
    <3> QED BY <1>0, <2>1, <2>4, <3>1, RowsKeepKeys
  <2> QED BY <2>6, <2>7
<1>6. CASE ClearOutput(w) \/ SaveOutput(w)
  <2>1. PICK s \in Steps : s = Step(w)
    BY <1>0, <1>6 DEF ClearOutput, SaveOutput, StepInv, InStep
  <2>2. /\ run[w].pc \in {"clear", "save"} /\ s \in TransformSteps /\ ~Done(s) /\ run[w].i <= N
        /\ s # "source" /\ s # "postcheck" /\ s # "scoring"
    BY <1>0, <1>6, <2>1 DEF ClearOutput, SaveOutput, StepInv, InStep, HandInv, TransformSteps
  <2>3. /\ UNCHANGED <<artifact, verdict, judged, scored, scoredOn, late, enabled, undone>>
        /\ \A u \in Uris \ {s} : content'[u] = content[u]
        /\ \A u \in stored \ {s} : u \in stored'
    BY <1>0, <1>6, <2>1 DEF ClearOutput, SaveOutput, dbVars, otherVars, TypeOK
  <2>4. /\ Keeps(w)
        /\ \/ run'[w].pc = "save"
           \/ run'[w].pc = "complete" /\ s \in stored'
    BY <1>0, <1>6, <2>1, GotoMoves DEF ClearOutput, SaveOutput, PCs, InStep
  <2>5. Step(w)' = s
    BY <2>1, <2>4 DEF Keeps, Step
  <2>6. \A u \in Uris : Holds(u) => u # s /\ Holds(u)' /\ content'[u] = content[u]
    BY <2>2, <2>3 DEF Holds, Done
  <2>7. KeyInv'
    BY <1>0, <1>a, <2>2, <2>3 DEF KeyInv, Holds, Done, Uris
  <2>8. \A t \in Steps : undone = {} /\ Done(t) => content'[artifact[t].out] = content[artifact[t].out]
    BY <1>0, <2>6 DEF KeyInv, OutputInv, Done
  <2>9. VerdictInv'
    BY <1>0, <1>a, <2>3, <2>8 DEF VerdictInv, ScoreMatchesVerdict, Done
  <2>10. ~(Ended(w)')
    BY <2>4 DEF Ended
  <2>11. HandInv(w)'
    <3>2. Done(s)' = Done(s) /\ Done("scoring")' = Done("scoring")
      BY <2>3 DEF Done
    <3>3. undone' = {} => Holds(run[w].uri)'
      BY <1>0, <2>3, <2>4 DEF HandInv, Keeps, Holds, Done
    <3> QED BY <1>0, <2>2, <2>3, <2>4, <2>5, <2>10, <3>2, <3>3 DEF HandInv, Keeps
  <2> QED BY <2>7, <2>9, <2>11
<1>7. CASE CreateRow(w)
  <2>1. PICK s \in Steps : s = Step(w)
    BY <1>0, <1>7 DEF CreateRow, StepInv, InStep
  <2>2. /\ run[w].pc = "row" /\ s \notin TransformSteps /\ ~Done(s) /\ run[w].i <= N
        /\ run[w].work = content[run[w].uri]
        /\ UNCHANGED <<artifact, stored, content, late, enabled, undone>>
    BY <1>0, <1>7, <2>1 DEF CreateRow, StepInv, InStep, HandInv, storageVars, otherVars
  <2>3. KeyInv'
    BY <1>0, <2>2 DEF KeyInv, Holds, Done
  <2>4. CASE LeaveLoop(w, "error") /\ UNCHANGED <<verdict, judged, scored, scoredOn>>
    <3>1. HandInv(w)'
      BY <1>0, <2>2, <2>4, Leave
    <3> QED BY <1>0, <2>2, <2>3, <2>4, <3>1, RowsKeepKeys
  <2>5. CASE Goto(w, "complete")
    <3>1. run'[w].pc = "complete" /\ Keeps(w)
      BY <1>0, <2>5, GotoMoves DEF PCs, InStep
    <3>2. ~LeaveLoop(w, "error")
      BY <1>0, <3>1, LeaveLoopMoves
    <3>3. \/ /\ s = "scoring" /\ scoredOn' = content[run[w].uri]
             /\ UNCHANGED <<verdict, judged>>
          \/ /\ s \in VerifySteps /\ verdict[s] = "none" /\ UNCHANGED scoredOn
             /\ verdict' = [verdict EXCEPT ![s] = IF run[w].pass THEN "pass" ELSE "fail"]
             /\ judged' = [judged EXCEPT ![s] = content[run[w].uri]]
      BY <1>7, <2>1, <2>2, <3>2 DEF CreateRow, VerifySteps
    <3>4. Step(w)' = s /\ ~(Ended(w)')
      BY <2>1, <3>1 DEF Keeps, Step, Ended
    <3>5. judged \in [VerifySteps -> Content] /\ verdict \in [VerifySteps -> {"none", "pass", "fail"}]
      BY <1>0 DEF TypeOK
    <3>6. HandInv(w)'
      <4>1. Done(s)' = Done(s) /\ Done("scoring")' = Done("scoring")
        BY <2>2 DEF Done
      <4>2. undone' = {} => Holds(run[w].uri)'
        BY <1>0, <2>2, <3>1 DEF HandInv, Keeps, Holds, Done
      <4>3. /\ s = "postcheck" => judged'["postcheck"] = content[run[w].uri]
            /\ s = "scoring" => scoredOn' = content[run[w].uri]
        BY <3>3, <3>5 DEF VerifySteps
      <4> QED BY <1>0, <2>2, <3>1, <3>4, <4>1, <4>2, <4>3 DEF HandInv, Keeps
    <3>7. s = "precheck" => content[run[w].uri] = {}
      <4>1. s = "precheck" => run[w].i = 1
        BY <1>0, <2>1, <2>2, StepPlace
      <4> QED BY <1>0, <4>1 DEF HandInv, KeyInv
    <3>8. s = "postcheck" => run[w].i = N
      BY <1>0, <2>1, <2>2, StepPlace
    <3>9. VerdictInv'
      <4>1. CASE s = "scoring"
        BY <1>0, <2>2, <3>3, <4>1 DEF VerdictInv, ScoreMatchesVerdict, Done, VerifySteps
      <4>2. CASE s = "precheck"
        BY <1>0, <2>2, <3>3, <3>5, <3>7, <4>2 DEF VerdictInv, ScoreMatchesVerdict, Done, VerifySteps
      <4>3. CASE s = "postcheck"
        <5>1. undone = {} /\ Done("scoring") => scoredOn = content[run[w].uri]
          BY <1>0, <3>8, <4>3 DEF VerdictInv, HandInv
        <5> QED
          BY <1>0, <2>2, <3>3, <3>5, <4>3, <5>1 DEF VerdictInv, ScoreMatchesVerdict, Done, VerifySteps
      <4> QED BY <2>2, <4>1, <4>2, <4>3 DEF Steps, VerifySteps
    <3> QED BY <2>3, <3>6, <3>9
  <2> QED BY <1>7, <2>4, <2>5 DEF CreateRow
<1>8. CASE CompleteStep(w)
  <2>1. PICK s \in Steps : s = Step(w)
    BY <1>0, <1>8 DEF CompleteStep, StepInv, InStep
  <2>u. PICK u \in Uris : u = IF s \in TransformSteps THEN s ELSE run[w].uri
    BY <1>0 DEF Uris
  <2>2. /\ run[w].pc = "complete" /\ ~Done(s) /\ run[w].i <= N
        /\ MarkStatus(s, "completed", u)
        /\ late' = late \cup IF LaterHasResult(run[w].i) THEN {s} ELSE {}
        /\ \/ s \notin VerifySteps /\ NextStep(w, u)
           \/ s \in VerifySteps /\ HandleResult(w, s, run[w].pass, u)
        /\ UNCHANGED <<verdict, judged, scored, scoredOn, stored, content, enabled, undone>>
    BY <1>0, <1>8, <2>1, <2>u DEF CompleteStep, StepInv, HandInv, InStep, storageVars
  <2>3. /\ artifact'[s].status = "completed" /\ artifact'[s].out = u
        /\ \A t \in Steps : t # s => artifact'[t] = artifact[t]
    BY <1>0, <2>2, MarkStatusMoves DEF StepStatus
  <2>4. /\ s \in TransformSteps => s \in stored
        /\ undone = {} /\ s \notin TransformSteps => Holds(run[w].uri)
        /\ s = "postcheck" => judged["postcheck"] = content[run[w].uri]
        /\ s = "scoring" => scoredOn = content[run[w].uri]
    BY <1>0, <2>1, <2>2 DEF HandInv
  <2>5. \A t \in Steps : Done(t)' <=> t = s \/ Done(t)
    BY <2>3 DEF Done
  <2>6. \A x \in Uris : Holds(x) => Holds(x)'
    BY <1>a, <2>5 DEF Holds
  <2>7. undone = {} => Holds(u)'
    BY <1>a, <2>u, <2>4, <2>5, <2>6 DEF Holds
  <2>8. KeyInv'
    <3>1. \A t \in Steps : Done(t) => t # s /\ artifact'[t] = artifact[t] /\ artifact[t].out \in Uris
      BY <1>0, <2>2, <2>3 DEF OutputInv, Done
    <3>2. ASSUME undone' = {}, NEW t \in Steps, Done(t)' PROVE Holds(artifact[t].out)'
      <4>1. PICK x \in Uris : x = artifact'[t].out
        BY <2>3, <2>5, <3>1, <3>2
      <4>2. Holds(x)'
        BY <1>0, <2>2, <2>3, <2>5, <2>6, <2>7, <3>1, <3>2, <4>1 DEF KeyInv
      <4> QED BY <4>1, <4>2 DEF Holds, Done
    <3> QED BY <1>0, <1>a, <2>2, <2>4, <2>5, <3>2 DEF KeyInv
  <2>9. s = "scoring" /\ verdict["postcheck"] # "none" => "scoring" \in late'
    <3>1. s = "scoring" => run[w].i = N - 1
      BY <1>0, <2>1, <2>2, StepPlace
    <3>2. N \in (N - 1 + 1)..Len(PIPELINE_STEPS)
      BY StepList DEF N
    <3>3. s = "scoring" /\ verdict["postcheck"] # "none" => LaterHasResult(run[w].i)
      BY <3>1, <3>2, StepList DEF LaterHasResult, VerifySteps
    <3> QED BY <2>2, <3>3
  <2>10. VerdictInv'
    <3>1. ScoreMatchesVerdict'
      <4>1. CASE s = "scoring"
        BY <2>2, <2>9, <4>1 DEF ScoreMatchesVerdict
      <4>2. CASE s # "scoring"
        BY <1>0, <1>a, <2>2, <2>3, <4>2 DEF VerdictInv, ScoreMatchesVerdict
      <4> QED BY <4>1, <4>2
    <3>2. /\ s = "postcheck" => judged["postcheck"] = content[u]
          /\ s = "scoring" => scoredOn = content[u]
      BY <2>u, <2>4 DEF TransformSteps
    <3> QED BY <1>0, <1>a, <2>2, <2>3, <2>5, <3>1, <3>2 DEF VerdictInv
  <2>11. HandInv(w)'
    <3>1. NextStep(w, u) => HandInv(w)'
      <4>1. s = "postcheck" => judged["postcheck"] = content[u]
        BY <2>u, <2>4 DEF TransformSteps
      <4> QED BY <1>0, <2>1, <2>2, <2>3, <2>7, <4>1, Advance
    <3>2. s \in VerifySteps => \A t \in TransformSteps \cup {"scoring"} : artifact'[t] = artifact[t]
      BY <1>a, <2>3 DEF VerifySteps, TransformSteps
    <3>3. s \in VerifySteps => \A o \in Outcomes : LeaveLoop(w, o) /\ o # "end" => HandInv(w)'
      BY <1>0, <2>2, <3>2, Leave
    <3> QED BY <2>2, <3>1, <3>3 DEF HandleResult, Outcomes
  <2> QED BY <2>8, <2>10, <2>11
<1>9. CASE EndLoop(w) \/ DatabaseFault(w)
  <2>1. /\ UNCHANGED <<artifact, verdict, judged, scored, scoredOn, stored, content, late,
                       enabled, undone>>
        /\ \E o \in {"end", "error"} : LeaveLoop(w, o) /\ (o = "end" => Ended(w))
    BY <1>9 DEF EndLoop, DatabaseFault, dbVars, storageVars, otherVars, Ended, N
  <2>2. HandInv(w)'
    BY <1>0, <2>1, Leave
  <2> QED BY <1>0, <2>1, <2>2, RowsKeepKeys
<1> QED BY <1>1, <1>2, <1>3, <1>4, <1>5, <1>6, <1>7, <1>8, <1>9 DEF LoopAction

\* Nothing is written, and nobody enters the loop.
LEMMA FileQuiet ==
    ASSUME FileInv, TurnInv', UNCHANGED <<dbVars, storageVars, late, undone>>,
           \A v \in Runs : run'[v].pc \in Loop => run'[v] = run[v] /\ enabled'[v] = enabled[v]
    PROVE  FileInv'
<1>1. UNCHANGED <<status, final, artifact, verdict, judged, scored, scoredOn, stored, content>>
  BY DEF dbVars, storageVars
<1>2. KeyInv' /\ VerdictInv'
  BY <1>1 DEF FileInv, KeyInv, VerdictInv, ScoreMatchesVerdict, Holds, Done
<1>3. ServedInv'
  BY <1>1 DEF FileInv, ServedInv, CompliantServesJudgedFile, Finished, Holds, Done
<1>4. ASSUME NEW v \in Runs, run'[v].pc \in Loop PROVE HandInv(v)'
  <2>1. HandInv(v) /\ run'[v] = run[v] /\ enabled'[v] = enabled[v]
    BY <1>4 DEF FileInv
  <2> QED BY <1>1, <2>1 DEF HandInv, Holds, Done, Ended, Step
<1> QED BY <1>2, <1>3, <1>4 DEF FileInv

LEMMA FileStep ==
    ASSUME Overlap = FALSE, FileInv, [Next]_vars
    PROVE  FileInv'
<1>0. TurnInv /\ TurnInv' /\ TypeOK /\ KeyInv /\ VerdictInv /\ ServedInv
  BY TurnStep DEF FileInv, TurnInv, RowInv
<1>1. CASE UNCHANGED vars
  BY <1>0, <1>1, FileQuiet DEF vars, dbVars, storageVars
<1>3. ASSUME NEW w \in Runs,
             Fetch(w) \/ FinishFault(w) \/ TaskFault(w) \/ Notify(w) \/ Crash(w)
      PROVE  FileInv'
  <2>1. PICK l \in {"done", "mark", "notify", "dead"} : Goto(w, l)
    BY <1>3 DEF Fetch, FinishFault, TaskFault, Notify, Crash
  <2>2. l \in PCs /\ l \notin Loop
    BY DEF PCs, Loop, InStep
  <2>3. OthersKept(w) /\ run'[w].pc = l
    BY <1>0, <2>1, <2>2, GotoMoves
  <2>4. UNCHANGED <<dbVars, storageVars, late, undone>>
    BY <1>3 DEF Fetch, FinishFault, TaskFault, Notify, Crash, otherVars
  <2>5. \A v \in Runs : v # w => enabled'[v] = enabled[v]
    BY <1>0, <1>3 DEF Fetch, FinishFault, TaskFault, Notify, Crash, otherVars, TypeOK
  <2> QED BY <1>0, <2>2, <2>3, <2>4, <2>5, FileQuiet DEF OthersKept
<1>4. ASSUME NEW w \in Runs, MarkRunning(w) PROVE FileInv'
  <2>1. /\ run[w].pc = "mark" /\ status' = "running"
        /\ UNCHANGED <<final, artifact, verdict, judged, scored, scoredOn, stored, content,
                       enabled, late, undone>>
    BY <1>4 DEF MarkRunning, storageVars, otherVars
  <2>2. run'[w].pc = "begin" /\ Keeps(w) /\ OthersKept(w)
    BY <1>0, <1>4, GotoMoves DEF MarkRunning, PCs
  <2>3. run'[w].i = 1 /\ run'[w].uri = "source"
    BY <2>1, <2>2 DEF FileInv, TurnInv, RowInv, StartInv, Keeps
  <2>4. KeyInv' /\ VerdictInv'
    BY <1>0, <2>1 DEF KeyInv, VerdictInv, ScoreMatchesVerdict, Holds, Done
  <2>5. ServedInv'
    BY <2>1 DEF ServedInv, CompliantServesJudgedFile, Finished, FINISHED_STATUSES
  <2>6. HandInv(w)'
    <3>1. 1 # N /\ ~(1 > N)
      BY StepList
    <3>2. ~(Ended(w)')
      BY <2>2, <2>3, <3>1 DEF Ended
    <3> QED BY <2>2, <2>3, <3>1, <3>2 DEF HandInv, Holds, InStep
  <2>7. \A v \in Runs : v # w => run[v].pc \notin Loop
    BY <1>0, <2>1 DEF TurnInv, AloneInv, Alive, Loop, InStep
  <2> QED BY <1>0, <2>2, <2>4, <2>5, <2>6, <2>7 DEF FileInv, OthersKept
<1>5. ASSUME NEW w \in Runs, LoopAction(w) PROVE FileInv'
  <2>1. RowInv' /\ RowInv
    BY <1>0 DEF TurnInv
  <2>2. \A v \in Runs : v # w => run'[v].pc \notin Loop
    BY <1>0, <1>5, <2>1, LoopKeepsTurn
  <2>3. run'[w].pc \in Loop
    BY <1>5, <2>1, LoopMoves
  <2>4. status' = "running"
    BY <1>0, <2>3 DEF TurnInv, AloneInv
  <2>5. ServedInv'
    BY <2>4 DEF ServedInv, CompliantServesJudgedFile, Finished, FINISHED_STATUSES
  <2> QED BY <1>0, <1>5, <2>2, <2>5, LoopKeepsFiles DEF FileInv
<1>6. ASSUME NEW w \in Runs, MarkFinished(w) PROVE FileInv'
  <2>1. /\ run[w].pc = "finish" /\ status' = FinalStatus(run[w].outcome, enabled[w])
        /\ final' = IF run[w].outcome = "already" THEN "source" ELSE run[w].uri
        /\ UNCHANGED <<artifact, verdict, judged, scored, scoredOn, stored, content,
                       enabled, late, undone>>
    BY <1>6 DEF MarkFinished, storageVars, otherVars
  <2>2. run'[w].pc = "notify" /\ OthersKept(w)
    BY <1>0, <1>6, GotoMoves DEF MarkFinished, PCs
  <2>3. \A v \in Runs : run'[v].pc \notin Loop
    BY <1>0, <2>1, <2>2 DEF TurnInv, AloneInv, Alive, Loop, InStep, OthersKept
  <2>4. KeyInv' /\ VerdictInv'
    BY <1>0, <2>1 DEF KeyInv, VerdictInv, ScoreMatchesVerdict, Holds, Done
  <2>5. HandInv(w) /\ EndInv
    BY <2>1 DEF FileInv, TurnInv, RowInv, Loop
  <2>6. undone = {} => Holds(final)'
    BY <2>1, <2>5 DEF HandInv, Holds, Done
  <2>7. undone = {} => final' \in stored
    BY <1>0, <2>1, <2>6 DEF Holds, Done, KeyInv
  <2>8. ASSUME status' = "compliant", undone = {}
        PROVE  \/ verdict["precheck"] = "pass" /\ content[final'] = judged["precheck"]
               \/ verdict["postcheck"] = "pass" /\ content[final'] = judged["postcheck"]
    <3>1. run[w].outcome \in {"already", "end"} /\ (run[w].outcome = "end" => "postcheck" \in enabled[w])
      <4>1. /\ run[w].outcome \in Outcomes /\ run[w].outcome # "none"
            /\ enabled[w] \in SUBSET Steps
        BY <1>0, <2>1, <2>5, RunFields DEF EndInv
      <4>2. \A o \in Outcomes \ {"none"}, on \in SUBSET Steps :
               FinalStatus(o, on) = "compliant" =>
                  o \in {"already", "end"} /\ (o = "end" => "postcheck" \in on)
        BY DEF FinalStatus, Outcomes
      <4> QED BY <2>1, <2>8, <4>1, <4>2
    <3>2. CASE run[w].outcome = "already"
      BY <1>0, <2>1, <2>5, <3>2 DEF EndInv, KeyInv, VerdictInv
    <3>3. CASE run[w].outcome = "end"
      BY <2>1, <2>5, <2>8, <3>1, <3>3 DEF EndInv, HandInv, Ended
    <3> QED BY <3>1, <3>2, <3>3
  <2>9. ServedInv'
    BY <2>1, <2>6, <2>7, <2>8 DEF ServedInv, CompliantServesJudgedFile
  <2> QED BY <1>0, <2>3, <2>4, <2>9 DEF FileInv
<1> QED BY <1>1, <1>3, <1>4, <1>5, <1>6, NextCases

LEMMA FileInvariant ==
    ASSUME Overlap = FALSE
    PROVE  Spec => []FileInv
BY FileInit, FileStep, PTL DEF Spec

\* Across any number of kills, faults and deliveries one after another, a
\* finished attempt serves a file that is in storage, and a compliant one the
\* very file its verdict was given on, unless a completed step was switched off
\* in between (final_output_uri, StepService.run and persist_output).
THEOREM ServedFileStaysSound ==
    ASSUME Overlap = FALSE
    PROVE  Spec => []ServedFileIsSound
<1>1. FileInv => ServedFileIsSound
  BY DEF FileInv, KeyInv, ServedInv, ServedFileIsSound, FinalIsServable, Holds
<1> QED BY <1>1, FileInvariant, PTL

-----------------------------------------------------------------------------
\* The work in the files.

LEMMA BeforeFacts ==
    /\ \A i \in 1..(N + 1) : Before(i) \subseteq TransformSteps
    /\ \A i \in 1..(N + 1), j \in 1..(N + 1) : i <= j => Before(i) \subseteq Before(j)
    /\ \A k \in 1..N : Before(k + 1) = Before(k) \cup ({PIPELINE_STEPS[k]} \cap TransformSteps)
    /\ \A k \in 1..N, i \in 1..(N + 1) : PIPELINE_STEPS[k] \in Before(i) => k < i
<1>0. N \in Nat
  BY StepList
<1>1. \A i \in 1..(N + 1) : Before(i) \subseteq TransformSteps
  BY DEF Before
<1>2. \A i \in 1..(N + 1) : \A s : s \in Before(i) <=>
         s \in TransformSteps /\ \E j \in 1..N : j < i /\ s = PIPELINE_STEPS[j]
  <2> SUFFICES ASSUME NEW i \in 1..(N + 1)
               PROVE  \A s : s \in Before(i) <=>
                        s \in TransformSteps /\ \E j \in 1..N : j < i /\ s = PIPELINE_STEPS[j]
    OBVIOUS
  <2>1. \A j : j \in 1..(i - 1) <=> j \in 1..N /\ j < i
    BY <1>0
  <2> QED BY <2>1 DEF Before
<1>3. \A i \in 1..(N + 1), j \in 1..(N + 1) : i <= j => Before(i) \subseteq Before(j)
  <2> SUFFICES ASSUME NEW i \in 1..(N + 1), NEW j \in 1..(N + 1), i <= j,
                      NEW s \in Before(i)
               PROVE  s \in Before(j)
    OBVIOUS
  <2>1. PICK k \in 1..N : k < i /\ s = PIPELINE_STEPS[k]
    BY <1>2
  <2>2. k < j
    BY <1>0, <2>1
  <2> QED BY <1>2, <2>1, <2>2
<1>4. \A k \in 1..N : Before(k + 1) = Before(k) \cup ({PIPELINE_STEPS[k]} \cap TransformSteps)
  <2> SUFFICES ASSUME NEW k \in 1..N
               PROVE  \A s : s \in Before(k + 1) <=>
                             s \in Before(k) \cup ({PIPELINE_STEPS[k]} \cap TransformSteps)
    OBVIOUS
  <2>1. k \in 1..(N + 1) /\ k + 1 \in 1..(N + 1)
    BY <1>0
  <2>2. \A j \in 1..N : j < k + 1 <=> j < k \/ j = k
    BY <1>0
  <2> QED BY <1>2, <2>1, <2>2
<1>5. \A k \in 1..N, i \in 1..(N + 1) : PIPELINE_STEPS[k] \in Before(i) => k < i
  BY <1>2, StepList
<1> QED BY <1>1, <1>3, <1>4, <1>5

\* A file holds the work of steps before the place it is handed on to.
LEMMA ContentBefore ==
    ASSUME ContentInv, KeyInv, NEW i \in 1..(N + 1), NEW u \in {"source"} \cup Before(i)
    PROVE  content[u] \subseteq Before(i)
<1>1. CASE u = "source"
  BY <1>1 DEF KeyInv
<1>2. CASE u \in Before(i)
  <2>1. PICK k \in 1..(i - 1) : u = PIPELINE_STEPS[k] /\ u \in TransformSteps
    BY <1>2 DEF Before
  <2>2. k \in 1..N /\ k + 1 \in 1..(N + 1) /\ k + 1 <= i
    BY StepList
  <2>3. content[u] \subseteq Before(k + 1)
    BY <2>1, <2>2 DEF ContentInv
  <2> QED BY <2>2, <2>3, BeforeFacts
<1> QED BY <1>1, <1>2

LEMMA WorkQuiet ==
    ASSUME ContentInv, \A t \in Steps : Done(t)' => artifact'[t] = artifact[t],
           UNCHANGED content, late \subseteq late'
    PROVE  ContentInv' /\ \A k \in 1..(N + 1) : Solid(k)' \subseteq Solid(k)
<1>1. TransformSteps \subseteq Steps /\ \A k \in 1..N : PIPELINE_STEPS[k] \in Steps
  BY StepList DEF Steps
<1>2. \A k \in 1..(N + 1) : Solid(k)' \subseteq Solid(k)
  BY <1>1, BeforeFacts DEF Solid, Before, Done
<1>3. \A k \in 1..N : k + 1 \in 1..(N + 1)
  BY StepList
<1>4. \A t \in Steps : Done(t)' => Done(t)
  BY DEF Done
<1>5. ContentInv'
  BY <1>1, <1>2, <1>3, <1>4 DEF ContentInv, Before
<1> QED BY <1>2, <1>5

LEMMA WorkAdvance ==
    ASSUME TypeOK, NEW w \in Runs, NEW u \in Uris, NEW k \in 1..N, k = run[w].i, NextStep(w, u),
           u \in {"source"} \cup Before(k + 1), Solid(k + 1)' \subseteq content'[u]
    PROVE  HandWorkInv(w)'
<1>1. run[w].i <= N
  OBVIOUS
<1>2. run'[w].pc = "begin" /\ run'[w].i = k + 1 /\ run'[w].uri = u
  BY <1>1, NextStepMoves
<1> QED BY <1>2 DEF HandWorkInv, Before, Solid

LEMMA WorkLeave ==
    ASSUME TypeOK, NEW w \in Runs, NEW o \in Outcomes, LeaveLoop(w, o), HandWorkInv(w),
           NEW k \in 1..(N + 1), k = run[w].i, Solid(k)' \subseteq Solid(k), UNCHANGED content,
           o \in {"noncompliant", "end"} => run[w].i >= N
    PROVE  HandWorkInv(w)'
<1>1. /\ run'[w].pc = "finish" /\ run'[w].i = k /\ run'[w].uri = run[w].uri
      /\ run'[w].outcome = o
  BY LeaveLoopMoves
<1> QED BY <1>1 DEF HandWorkInv, Before, Solid

LEMMA LoopKeepsWork ==
    ASSUME WorkInv, NEW w \in Runs, LoopAction(w)
    PROVE  ContentInv' /\ HandWorkInv(w)'
<1>0. /\ TypeOK /\ StepInv /\ OutputInv /\ KeyInv /\ EndInv /\ ContentInv
      /\ "error" \in Outcomes /\ "end" \in Outcomes
      /\ run[w].pc \in Loop /\ HandInv(w) /\ HandWorkInv(w) /\ run[w].uri \in Uris
      /\ run[w].i \in 1..(N + 1) /\ run[w].pass \in BOOLEAN
      /\ late \subseteq late'
      /\ run[w].i <= N => Step(w) \in Steps
  <2>1. RowInv /\ FileInv
    BY DEF WorkInv, FileInv, TurnInv
  <2>2. TypeOK /\ run[w].pc \in Loop /\ late \subseteq late'
    BY <2>1, LoopMoves DEF RowInv
  <2> QED BY <2>1, <2>2, RunFields DEF FileInv, WorkInv, RowInv, Outcomes
<1>i. PICK i \in 1..(N + 1) : i = run[w].i
  BY <1>0
<1>n. N \in Nat /\ N >= 3 /\ (run[w].i <= N => i \in 1..N /\ i + 1 \in 1..(N + 1) /\ Step(w) = PIPELINE_STEPS[i])
  BY <1>i, StepList DEF Step
<1>a. TransformSteps \subseteq Steps /\ VerifySteps \subseteq Steps /\ "scoring" \in Steps
      /\ "postcheck" \notin TransformSteps
  BY DEF Steps, TransformSteps
<1>1. CASE SkipStep(w) \/ StepFails(w)
  <2>0. run[w].i <= N /\ Step(w) \in Steps
    BY <1>0, <1>1 DEF SkipStep, StepFails, N, StepInv, InStep
  <2>s. PICK s \in Steps : s = Step(w)
    BY <2>0
  <2>1. /\ run[w].i <= N
        /\ \E st \in {"skipped", "failed"} : MarkStatus(s, st, "")
        /\ NextStep(w, run[w].uri) \/ LeaveLoop(w, "error")
        /\ UNCHANGED <<content, late>>
    <3>1. CASE SkipStep(w)
      BY <2>0, <2>s, <3>1 DEF SkipStep, N, storageVars
    <3>2. CASE StepFails(w)
      BY <2>0, <2>s, <3>2 DEF StepFails, storageVars, otherVars
    <3> QED BY <1>1, <3>1, <3>2
  <2>2. /\ artifact'[s].status \in {"skipped", "failed"}
        /\ \A t \in Steps : t # s => artifact'[t] = artifact[t]
    BY <1>0, <2>1, MarkStatusMoves DEF StepStatus
  <2>3. ~(Done(s)') /\ \A t \in Steps : Done(t)' => artifact'[t] = artifact[t]
    BY <2>2 DEF Done
  <2>4. ContentInv' /\ \A k \in 1..(N + 1) : Solid(k)' \subseteq Solid(k)
    BY <1>0, <2>1, <2>3, WorkQuiet
  <2>5. CASE LeaveLoop(w, "error")
    <3>1. HandWorkInv(w)'
      BY <1>0, <1>i, <2>1, <2>4, <2>5, WorkLeave
    <3> QED BY <2>4, <3>1
  <2>6. CASE NextStep(w, run[w].uri)
    <3>1. i \in 1..N /\ i + 1 \in 1..(N + 1) /\ s = PIPELINE_STEPS[i]
      BY <1>n, <2>1, <2>s
    <3>2. Before(i + 1) = Before(i) \cup ({s} \cap TransformSteps)
      BY <3>1, BeforeFacts
    <3>3. Solid(i + 1)' \subseteq Solid(i)
      <4>1. Solid(i + 1)' = {t \in Before(i + 1) \ late' : Done(t)'}
        BY DEF Solid, Before, Done
      <4>2. Solid(i + 1)' \subseteq {t \in Before(i + 1) \ late : Done(t)}
        BY <2>4, <3>1 DEF Solid, Done
      <4> QED BY <2>3, <3>2, <4>1, <4>2 DEF Solid, Done
    <3>4. Solid(i) \subseteq content[run[w].uri] /\ run[w].uri \in {"source"} \cup Before(i)
      BY <1>0, <1>i DEF HandWorkInv
    <3>5. HandWorkInv(w)'
      BY <1>0, <1>i, <2>1, <2>6, <3>1, <3>2, <3>3, <3>4, WorkAdvance
    <3> QED BY <2>4, <3>5
  <2> QED BY <2>1, <2>5, <2>6
<1>2. CASE ResumeStep(w)
  <2> DEFINE s == Step(w)
             u == artifact[s].out
  <2>1. /\ run[w].i <= N /\ s \in Steps /\ Done(s) /\ u \in Uris
        /\ UNCHANGED <<artifact, content, late>>
    BY <1>0, <1>2 DEF ResumeStep, N, OutputInv, dbVars, storageVars, otherVars, Done
  <2>2. \/ NextStep(w, u)
        \/ LeaveLoop(w, "error") \/ LeaveLoop(w, "already")
        \/ LeaveLoop(w, "noncompliant") /\ s = "postcheck"
    BY <1>2 DEF ResumeStep, HandleResult
  <2>3. ContentInv' /\ \A k \in 1..(N + 1) : Solid(k)' \subseteq Solid(k)
    BY <1>0, <2>1, WorkQuiet
  <2>4. i \in 1..N /\ i + 1 \in 1..(N + 1) /\ s = PIPELINE_STEPS[i]
    BY <1>n, <2>1
  <2>5. NextStep(w, u) => HandWorkInv(w)'
    <3>1. u \in {"source"} \cup Before(i + 1) /\ Solid(i + 1) \subseteq content[u]
      BY <1>0, <2>1, <2>4 DEF ContentInv
    <3>2. Solid(i + 1)' \subseteq content'[u]
      BY <2>1, <2>3, <2>4, <3>1
    <3> HIDE DEF u
    <3> QED BY <1>0, <1>i, <2>1, <2>4, <3>1, <3>2, WorkAdvance
  <2>6. s = "postcheck" => run[w].i >= N
    BY <1>0, <1>n, <2>1, StepPlace
  <2>7. "already" \in Outcomes /\ "noncompliant" \in Outcomes
    BY DEF Outcomes
  <2>8. \A o \in Outcomes : LeaveLoop(w, o) /\ (o \in {"noncompliant", "end"} => run[w].i >= N)
           => HandWorkInv(w)'
    BY <1>0, <1>i, <2>1, <2>3, WorkLeave
  <2> HIDE DEF s, u
  <2> QED BY <1>0, <2>2, <2>3, <2>5, <2>6, <2>7, <2>8
<1>3. CASE StartStep(w) \/ ClearOutput(w) \/ (CreateRow(w) /\ Goto(w, "complete"))
  <2>1. PICK l \in {"execute", "save", "complete"} :
           /\ Goto(w, l) /\ (l = "save" => run[w].pc = "clear")
           /\ l = "complete" => Step(w) \notin TransformSteps
    BY <1>0, <1>3 DEF StartStep, ClearOutput, CreateRow, StepInv, InStep
  <2>2. UNCHANGED <<artifact, content, late>>
    BY <1>3 DEF StartStep, ClearOutput, CreateRow, dbVars, storageVars, otherVars
  <2>3. l \in PCs
    BY DEF PCs, InStep
  <2>4. run'[w].pc = l /\ Keeps(w) /\ run'[w].work = run[w].work
    BY <1>0, <2>1, <2>3, GotoMoves
  <2>5. ContentInv' /\ \A k \in 1..(N + 1) : Solid(k)' \subseteq Solid(k)
    BY <1>0, <2>2, WorkQuiet
  <2>6. HandWorkInv(w)'
    <3>1. run'[w].i = i /\ run'[w].uri = run[w].uri /\ Step(w)' = Step(w)
      BY <1>i, <2>4 DEF Keeps, Step
    <3>2. Solid(i)' \subseteq Solid(i)
      BY <2>5
    <3> QED BY <1>0, <1>i, <2>1, <2>2, <2>4, <3>1, <3>2 DEF HandWorkInv, Solid, Before
  <2> QED BY <2>5, <2>6
<1>4. CASE ExecuteStep(w)
  <2>1. /\ run[w].i <= N /\ UNCHANGED <<artifact, content, late>>
    BY <1>0, <1>4 DEF ExecuteStep, dbVars, storageVars, otherVars, StepInv, InStep
  <2>2. /\ run'[w].pc \in {"clear", "row"} /\ Keeps(w)
        /\ run'[w].pc = "clear" => run'[w].work = content[run[w].uri] \cup {Step(w)}
    BY <1>0, <1>4, <2>1, ExecuteMoves
  <2>3. ContentInv' /\ \A k \in 1..(N + 1) : Solid(k)' \subseteq Solid(k)
    BY <1>0, <2>1, WorkQuiet
  <2>4. run'[w].i = i /\ run'[w].uri = run[w].uri /\ Step(w)' = Step(w)
    BY <1>i, <2>2 DEF Keeps, Step
  <2>5. HandWorkInv(w)'
    BY <1>0, <1>i, <2>1, <2>2, <2>3, <2>4 DEF HandWorkInv, Solid, Before
  <2> QED BY <2>3, <2>5
<1>5. CASE EndLoop(w) \/ DatabaseFault(w) \/ (CreateRow(w) /\ LeaveLoop(w, "error"))
  <2>1. /\ \E o \in {"end", "error"} : LeaveLoop(w, o) /\ (o = "end" => run[w].i > N)
        /\ UNCHANGED <<artifact, content, late>>
    BY <1>5 DEF EndLoop, DatabaseFault, CreateRow, N, dbVars, storageVars, otherVars
  <2>2. ContentInv' /\ \A k \in 1..(N + 1) : Solid(k)' \subseteq Solid(k)
    BY <1>0, <2>1, WorkQuiet
  <2>3. run[w].i > N => run[w].i >= N
    BY <1>0, <1>n
  <2>4. HandWorkInv(w)'
    BY <1>0, <1>i, <2>1, <2>2, <2>3, WorkLeave
  <2> QED BY <2>2, <2>4
<1>6. CASE SaveOutput(w)
  <2>1. PICK s \in TransformSteps : s = Step(w)
    BY <1>0, <1>6 DEF SaveOutput, StepInv, InStep
  <2>u. PICK u \in Uris : u = run[w].uri
    BY <1>0
  <2>2. /\ run[w].pc = "save" /\ run[w].i <= N /\ ~Done(s) /\ run[w].work \in Content
        /\ content' = [content EXCEPT ![s] = run[w].work]
        /\ UNCHANGED <<artifact, late>>
        /\ run[w].work = content[u] \cup {s}
    BY <1>0, <1>6, <2>1, <2>u, RunFields
       DEF SaveOutput, StepInv, InStep, HandInv, HandWorkInv, dbVars, otherVars
  <2>3. i \in 1..N /\ i + 1 \in 1..(N + 1) /\ s = PIPELINE_STEPS[i]
    BY <1>n, <2>1, <2>2
  <2>4. /\ u \in {"source"} \cup Before(i) /\ Solid(i) \subseteq content[u]
    BY <1>0, <1>i, <2>u DEF HandWorkInv
  <2>5. s \notin Before(i) /\ s # "source" /\ u # s
    BY <2>3, <2>4, BeforeFacts DEF TransformSteps
  <2>6. content'[s] = content[u] \cup {s} /\ \A x \in Uris \ {s} : content'[x] = content[x]
    BY <1>0, <2>2 DEF TypeOK, Uris
  <2>7. Before(i + 1) = Before(i) \cup {s}
    BY <2>3, BeforeFacts
  <2>8. content[u] \subseteq Before(i)
    BY <1>0, <2>4, ContentBefore
  <2>9. \A k \in 1..(N + 1) : Solid(k)' = Solid(k)
    BY <2>2 DEF Solid, Before
  <2>10. ContentInv'
    <3>1. ASSUME NEW k \in 1..N, PIPELINE_STEPS[k] \in TransformSteps
          PROVE  content'[PIPELINE_STEPS[k]] \subseteq Before(k + 1)
      <4>1. CASE k = i
        BY <2>3, <2>6, <2>7, <2>8, <4>1
      <4>2. CASE k # i
        <5>1. PIPELINE_STEPS[k] # s
          BY <2>3, <4>2, StepList
        <5> QED BY <1>0, <2>6, <3>1, <5>1 DEF ContentInv, Uris
      <4> QED BY <4>1, <4>2
    <3>2. ASSUME NEW k \in 1..N, Done(PIPELINE_STEPS[k])
          PROVE  Solid(k + 1) \subseteq content'[artifact[PIPELINE_STEPS[k]].out]
      <4>1. PICK x \in Uris : x = artifact[PIPELINE_STEPS[k]].out
        BY <1>0, <3>2, StepList DEF OutputInv, Done
      <4>2. x \in {"source"} \cup Before(k + 1) /\ Solid(k + 1) \subseteq content[x]
        BY <1>0, <3>2, <4>1 DEF ContentInv
      <4>3. CASE x # s
        BY <2>6, <4>1, <4>2, <4>3
      <4>4. CASE x = s
        <5>1. content[s] \subseteq Before(i + 1)
          BY <1>0, <2>1, <2>3 DEF ContentInv
        <5>2. Solid(k + 1) \subseteq Before(i + 1) /\ s \notin Solid(k + 1)
          BY <2>2, <4>2, <4>4, <5>1 DEF Solid, Done
        <5>3. Solid(k + 1) \subseteq Solid(i)
          BY <2>7, <5>2 DEF Solid
        <5> QED BY <2>4, <2>6, <4>1, <4>4, <5>3
      <4> QED BY <4>3, <4>4
    <3>3. \A k \in 1..N : k + 1 \in 1..(N + 1)
      BY <1>n
    <3>4. \A k \in 1..N : Solid(k + 1)' = Solid(k + 1)
      BY <2>9, <3>3
    <3>5. \A t : Done(t)' = Done(t)
      BY <2>2 DEF Done
    <3> QED BY <1>0, <2>2, <3>1, <3>2, <3>4, <3>5 DEF ContentInv, Before
  <2>11. run'[w].pc = "complete" /\ Keeps(w) /\ Step(w)' = s
    BY <1>0, <1>6, <2>1, GotoMoves DEF SaveOutput, PCs, InStep, Keeps, Step
  <2>12. HandWorkInv(w)'
    <3>1. run'[w].i = i /\ run'[w].uri = u
      BY <1>i, <2>u, <2>11 DEF Keeps
    <3>2. content'[u] = content[u]
      BY <2>5, <2>6
    <3>3. Solid(i)' \subseteq content'[u]
      BY <2>4, <2>9, <3>2
    <3> QED BY <2>4, <2>6, <2>11, <3>1, <3>2, <3>3 DEF HandWorkInv, Solid, Before
  <2> QED BY <2>10, <2>12
<1>7. CASE CompleteStep(w)
  <2>0. run[w].i <= N /\ Step(w) \in Steps /\ run[w].pc = "complete"
    BY <1>0, <1>7 DEF CompleteStep, StepInv, InStep
  <2>1. PICK s \in Steps : s = Step(w)
    BY <2>0
  <2>r. PICK r \in Uris : r = run[w].uri
    BY <1>0
  <2>u. PICK u \in Uris : u = IF s \in TransformSteps THEN s ELSE r
    BY DEF Uris
  <2>2. /\ ~Done(s) /\ MarkStatus(s, "completed", u)
        /\ late' = late \cup IF LaterHasResult(run[w].i) THEN {s} ELSE {}
        /\ \/ NextStep(w, u)
           \/ LeaveLoop(w, "already") /\ s \in VerifySteps
           \/ LeaveLoop(w, "noncompliant") /\ s = "postcheck" /\ s \in VerifySteps
        /\ UNCHANGED <<content, enabled, undone>>
    BY <1>0, <1>7, <2>0, <2>1, <2>u, <2>r
       DEF CompleteStep, HandInv, InStep, storageVars, HandleResult
  <2>3. /\ artifact'[s].status = "completed" /\ artifact'[s].out = u
        /\ \A t \in Steps : t # s => artifact'[t] = artifact[t]
    BY <1>0, <2>2, MarkStatusMoves DEF StepStatus
  <2>4. i \in 1..N /\ i + 1 \in 1..(N + 1) /\ s = PIPELINE_STEPS[i]
    BY <1>n, <2>0, <2>1
  <2>5. \A t \in Steps : Done(t)' <=> t = s \/ Done(t)
    BY <2>3 DEF Done
  <2>6. \A k \in 1..(N + 1) : Solid(k)' = {t \in Before(k) \ late' : Done(t)'}
    BY DEF Solid, Before, Done
  <2>7. \A k \in 1..(N + 1) : Before(k) \subseteq Steps
    BY <1>a, BeforeFacts
  <2>8. ASSUME NEW k \in 1..(N + 1), s \notin Before(k) \ late'
        PROVE  Solid(k)' \subseteq Solid(k)
    BY <1>0, <2>5, <2>6, <2>7, <2>8 DEF Solid, Done
  <2>9. r \in {"source"} \cup Before(i) /\ Solid(i) \subseteq content[r] /\ i \in 1..(N + 1)
    BY <1>0, <1>i, <2>r DEF HandWorkInv
  <2>10. Before(i + 1) = Before(i) \cup ({s} \cap TransformSteps) /\ s \notin Before(i)
    BY <2>4, BeforeFacts
  <2>11. Solid(i)' \subseteq Solid(i)
    BY <2>8, <2>9, <2>10
  <2>12. u \in {"source"} \cup Before(i + 1) /\ Solid(i + 1)' \subseteq content[u]
    <3>1. CASE s \in TransformSteps
      <4>1. u = s /\ content[s] = content[r] \cup {s}
        BY <1>0, <2>0, <2>1, <2>r, <2>u, <3>1 DEF HandWorkInv
      <4>2. Solid(i + 1)' \subseteq Solid(i)' \cup {s}
        BY <2>4, <2>6, <2>9, <2>10, <3>1
      <4> QED BY <2>9, <2>10, <2>11, <3>1, <4>1, <4>2
    <3>2. CASE s \notin TransformSteps
      <4>1. u = r /\ Before(i + 1) = Before(i)
        BY <2>u, <2>10, <3>2
      <4>2. Solid(i + 1)' = Solid(i)'
        BY <2>4, <2>6, <2>9, <4>1
      <4> QED BY <2>9, <2>11, <4>1, <4>2
    <3> QED BY <3>1, <3>2
  <2>13. ContentInv'
    <3>1. ASSUME NEW k \in 1..N, Done(PIPELINE_STEPS[k]), k # i
          PROVE  Solid(k + 1)' \subseteq Solid(k + 1)
      <4>1. k + 1 \in 1..(N + 1)
        BY <1>n
      <4>2. CASE k < i
        <5>1. s \notin Before(k + 1)
          <6>1. ~(i < k + 1)
            BY <1>n, <2>4, <4>2
          <6> QED BY <2>4, <4>1, <6>1, BeforeFacts
        <5> QED BY <2>8, <4>1, <5>1
      <4>3. CASE k > i
        <5>1. k \in (run[w].i + 1)..Len(PIPELINE_STEPS)
          BY <1>n, <1>i, <2>4, <4>3 DEF N
        <5>2. s \in late'
          BY <2>2, <3>1, <5>1 DEF LaterHasResult, Done
        <5> QED BY <2>8, <4>1, <5>2
      <4> QED BY <2>4, <3>1, <4>2, <4>3
    <3>2. ASSUME NEW k \in 1..N, Done(PIPELINE_STEPS[k])'
          PROVE  /\ artifact'[PIPELINE_STEPS[k]].out \in {"source"} \cup Before(k + 1)
                 /\ Solid(k + 1)' \subseteq content[artifact'[PIPELINE_STEPS[k]].out]
      <4>1. CASE k = i
        BY <2>3, <2>4, <2>12, <4>1
      <4>2. CASE k # i
        <5>1. PICK t \in Steps : t = PIPELINE_STEPS[k] /\ t # s
          BY <2>4, <4>2, StepList
        <5>2. Done(t) /\ artifact'[t] = artifact[t]
          BY <2>3, <2>5, <3>2, <5>1 DEF Done
        <5> QED BY <1>0, <3>1, <4>2, <5>1, <5>2 DEF ContentInv
      <4> QED BY <4>1, <4>2
    <3>3. ASSUME NEW t \in TransformSteps, Done(t)' PROVE t \in Before(N)
      <4>1. CASE t # s
        BY <1>0, <1>a, <2>5, <3>3, <4>1 DEF ContentInv
      <4>2. CASE t = s
        <5>1. i <= N - 2
          BY <1>0, <1>n, <1>i, <2>0, <2>1, <4>2, StepPlace
        <5>2. i + 1 <= N /\ N \in 1..(N + 1)
          BY <1>n, <2>4, <5>1
        <5>3. s \in Before(i + 1)
          BY <2>10, <3>3, <4>2
        <5> QED BY <2>4, <4>2, <5>2, <5>3, BeforeFacts
      <4> QED BY <4>1, <4>2
    <3>4. \A k \in 1..N : PIPELINE_STEPS[k] \in TransformSteps
             => content'[PIPELINE_STEPS[k]] \subseteq Before(k + 1)
      BY <1>0, <2>2 DEF ContentInv
    <3> QED BY <2>2, <3>2, <3>3, <3>4 DEF ContentInv, Before
  <2>14. HandWorkInv(w)'
    <3>1. NextStep(w, u) => HandWorkInv(w)'
      BY <1>0, <1>i, <2>2, <2>4, <2>12, WorkAdvance
    <3>2. s = "postcheck" => run[w].i >= N
      BY <1>0, <1>n, <2>0, <2>1, StepPlace
    <3>3. "already" \in Outcomes /\ "noncompliant" \in Outcomes
      BY DEF Outcomes
    <3>4. LeaveLoop(w, "already") => HandWorkInv(w)'
      BY <1>0, <1>i, <2>2, <2>11, <3>3, WorkLeave
    <3>5. LeaveLoop(w, "noncompliant") /\ s = "postcheck" => HandWorkInv(w)'
      BY <1>0, <1>i, <2>2, <2>11, <3>2, <3>3, WorkLeave
    <3> QED BY <2>2, <3>1, <3>4, <3>5
  <2> QED BY <2>13, <2>14
<1>8. CreateRow(w) => Goto(w, "complete") \/ LeaveLoop(w, "error")
  BY DEF CreateRow
<1> QED BY <1>1, <1>2, <1>3, <1>4, <1>5, <1>6, <1>7, <1>8 DEF LoopAction

LEMMA WorkInit == Init => WorkInv
<1> SUFFICES ASSUME Init PROVE WorkInv
  OBVIOUS
<1>1. \A w \in Runs : run[w].pc = "idle"
  BY DEF Init
<1>2. \A s \in Steps : ~Done(s)
  BY DEF Init, Done
<1>3. TransformSteps \subseteq Steps /\ \A k \in 1..N : PIPELINE_STEPS[k] \in Steps
  BY StepList DEF Steps
<1>4. \A u \in TransformSteps : content[u] = {}
  BY DEF Init, Uris
<1>5. ContentInv
  BY <1>2, <1>3, <1>4 DEF ContentInv
<1>6. NoCompletedWorkDropped
  BY DEF Init, NoCompletedWorkDropped
<1> QED BY <1>1, <1>5, <1>6, FileInit DEF WorkInv, Loop, InStep

\* Nothing is written to the rows of the steps and to the files, and nobody who
\* does not start enters the loop.
LEMMA WorkKept ==
    ASSUME WorkInv, FileInv', UNCHANGED <<artifact, content, late>>, NoCompletedWorkDropped',
           \A v \in Runs : run'[v].pc \in Loop => \/ run'[v] = run[v]
                                                  \/ run'[v].i = 1 /\ run'[v].uri = "source"
                                                     /\ run'[v].pc = "begin"
    PROVE  WorkInv'
<1>1. ContentInv'
  BY WorkQuiet DEF WorkInv
<1>2. ASSUME NEW v \in Runs, run'[v].pc \in Loop PROVE HandWorkInv(v)'
  <2>1. CASE run'[v] = run[v]
    <3>1. HandWorkInv(v)
      BY <1>2, <2>1 DEF WorkInv
    <3> QED BY <2>1, <3>1 DEF HandWorkInv, Solid, Before, Step
  <2>2. CASE run'[v].i = 1 /\ run'[v].uri = "source" /\ run'[v].pc = "begin"
    <3>1. \A t : t \notin Before(1)
      BY DEF Before
    <3>2. Solid(run[v].i)' = {}
      BY <2>2, <3>1 DEF Solid, Before
    <3> QED BY <2>2, <3>2 DEF HandWorkInv
  <2> QED BY <1>2, <2>1, <2>2
<1> QED BY <1>1, <1>2 DEF WorkInv

LEMMA WorkStep ==
    ASSUME Overlap = FALSE, WorkInv, [Next]_vars
    PROVE  WorkInv'
<1>0. TurnInv /\ FileInv /\ FileInv' /\ TurnInv' /\ TypeOK /\ NoCompletedWorkDropped /\ RowInv /\ RowInv'
  <2>1. FileInv /\ FileInv'
    BY FileStep DEF WorkInv
  <2> QED BY <2>1 DEF WorkInv, FileInv, TurnInv, RowInv
<1>1. CASE UNCHANGED vars
  BY <1>0, <1>1, WorkKept DEF vars, NoCompletedWorkDropped
<1>3. ASSUME NEW w \in Runs,
             Fetch(w) \/ FinishFault(w) \/ TaskFault(w) \/ Notify(w) \/ Crash(w)
      PROVE  WorkInv'
  <2>1. PICK l \in {"done", "mark", "notify", "dead"} : Goto(w, l)
    BY <1>3 DEF Fetch, FinishFault, TaskFault, Notify, Crash
  <2>2. l \in PCs /\ l \notin Loop
    BY DEF PCs, Loop, InStep
  <2>3. OthersKept(w) /\ run'[w].pc = l
    BY <1>0, <2>1, <2>2, GotoMoves
  <2>4. UNCHANGED <<status, final, artifact, verdict, content, late>>
    BY <1>3 DEF Fetch, FinishFault, TaskFault, Notify, Crash, otherVars, dbVars, storageVars
  <2>5. NoCompletedWorkDropped'
    BY <1>0, <2>4 DEF NoCompletedWorkDropped
  <2> QED BY <1>0, <2>2, <2>3, <2>4, <2>5, WorkKept DEF OthersKept
<1>4. ASSUME NEW w \in Runs, MarkRunning(w) PROVE WorkInv'
  <2>1. run'[w].pc = "begin" /\ Keeps(w) /\ OthersKept(w) /\ run[w].pc = "mark"
    BY <1>0, <1>4, GotoMoves DEF MarkRunning, PCs
  <2>2. run'[w].i = 1 /\ run'[w].uri = "source"
    BY <1>0, <2>1 DEF RowInv, StartInv, Keeps
  <2>3. UNCHANGED <<artifact, content, late>> /\ NoCompletedWorkDropped'
    BY <1>4 DEF MarkRunning, storageVars, otherVars, NoCompletedWorkDropped
  <2> QED BY <1>0, <2>1, <2>2, <2>3, WorkKept DEF OthersKept
<1>5. ASSUME NEW w \in Runs, LoopAction(w) PROVE WorkInv'
  <2>1. run'[w].pc \in Loop /\ \A v \in Runs : v # w => run'[v].pc \notin Loop
    BY <1>0, <1>5, LoopKeepsTurn, LoopMoves
  <2>2. status' = "running"
    BY <1>0, <2>1 DEF TurnInv, AloneInv
  <2>3. NoCompletedWorkDropped'
    BY <2>2 DEF NoCompletedWorkDropped
  <2> QED BY <1>0, <1>5, <2>1, <2>3, LoopKeepsWork DEF WorkInv
<1>6. ASSUME NEW w \in Runs, MarkFinished(w) PROVE WorkInv'
  <2>1. /\ run[w].pc = "finish" /\ status' = FinalStatus(run[w].outcome, enabled[w])
        /\ final' = IF run[w].outcome = "already" THEN "source" ELSE run[w].uri
        /\ UNCHANGED <<artifact, verdict, content, late>>
    BY <1>6 DEF MarkFinished, storageVars, otherVars
  <2>2. run'[w].pc = "notify" /\ OthersKept(w)
    BY <1>0, <1>6, GotoMoves DEF MarkFinished, PCs
  <2>3. HandWorkInv(w) /\ ContentInv /\ EndInv
    BY <1>0, <2>1 DEF WorkInv, Loop, RowInv
  <2>4. NoCompletedWorkDropped'
    <3> SUFFICES ASSUME status' \in {"compliant", "noncompliant"}, verdict["precheck"] # "pass",
                        NEW s \in TransformSteps \ late, Done(s)
                 PROVE  s \in content[final']
      BY <2>1 DEF NoCompletedWorkDropped, Done
    <3>1. run[w].outcome \in {"noncompliant", "end"}
      <4>1. /\ run[w].outcome \in Outcomes /\ run[w].outcome # "none" /\ run[w].outcome # "already"
            /\ enabled[w] \in SUBSET Steps
        BY <1>0, <2>1, <2>3, RunFields DEF EndInv
      <4>2. \A o \in Outcomes \ {"none", "already"}, on \in SUBSET Steps :
               FinalStatus(o, on) \in {"compliant", "noncompliant"} =>
                  o \in {"noncompliant", "end"}
        BY DEF FinalStatus, Outcomes
      <4> QED BY <2>1, <4>1, <4>2
    <3>2. PICK i \in 1..(N + 1) : i = run[w].i
      BY <1>0, RunFields
    <3>3. N \in 1..(N + 1) /\ N <= i
      BY <2>1, <2>3, <3>1, <3>2, StepList DEF HandWorkInv
    <3>4. s \in Before(i)
      BY <2>3, <3>3, BeforeFacts DEF ContentInv
    <3>5. s \in Solid(i)
      BY <3>4 DEF Solid, Done
    <3> QED BY <2>1, <2>3, <3>1, <3>2, <3>5 DEF HandWorkInv
  <2> QED BY <1>0, <2>1, <2>2, <2>4, WorkKept DEF OthersKept, Loop, InStep
<1> QED BY <1>1, <1>3, <1>4, <1>5, <1>6, NextCases

\* A job that went through its steps serves a file with the work of every step
\* recorded as completed in order, and its score was made of the file that was
\* judged, for any list of steps, any settings, any kills, faults and
\* deliveries one after another (StepService.run and mark_completed).
THEOREM CompletedWorkIsServed ==
    ASSUME Overlap = FALSE
    PROVE  Spec => []WorkIsAccountedFor
<1>1. WorkInv => WorkIsAccountedFor
  BY DEF WorkInv, FileInv, VerdictInv, WorkIsAccountedFor
<1> QED BY <1>1, WorkInit, WorkStep, PTL DEF Spec
=============================================================================
