---------------------------- MODULE RulesProofs ----------------------------
(***************************************************************************)
(* Theorems about the rules: for every report, every outcome of the        *)
(* stages, every recorded and current fingerprint and every request.       *)
(***************************************************************************)
EXTENDS Rules, FiniteSetTheorems, TLAPS

-----------------------------------------------------------------------------
(* Two reports compared. *)

LEMMA ToleranceType == \A key : Tolerance(key) \in Nat
BY DEF Tolerance, RATE_TOLERANCE, ORDER_TOLERANCE

LEMMA ScoresMirror ==
    ASSUME NEW a, NEW b,
           \A p \in DOMAIN a, k \in SCORE_KEYS : a[p][k] \in Int,
           \A p \in DOMAIN b, k \in SCORE_KEYS : b[p][k] \in Int
    PROVE  /\ WorseScores(a, b) = BetterScores(b, a)
           /\ ScoreChanges(a, a) = {}
<1>1. \A p \in DOMAIN a \cap DOMAIN b, k \in SCORE_KEYS :
         IsNoise(k, a[p][k], b[p][k]) <=> IsNoise(k, b[p][k], a[p][k])
  BY ToleranceType DEF IsNoise
<1>2. ScoreChanges(a, b) = ScoreChanges(b, a)
  BY <1>1 DEF ScoreChanges
<1>3. \A c \in ScoreChanges(a, b) :
         /\ c[1] \in DOMAIN a \cap DOMAIN b /\ c[2] \in SCORE_KEYS
         /\ ~IsNoise(c[2], a[c[1]][c[2]], b[c[1]][c[2]])
  BY DEF ScoreChanges
<1>4. \A c \in ScoreChanges(a, b) :
         (a[c[1]][c[2]] > b[c[1]][c[2]]) <=> ~(b[c[1]][c[2]] > a[c[1]][c[2]])
  BY <1>3, ToleranceType DEF IsNoise
<1>5. WorseScores(a, b) = BetterScores(b, a)
  BY <1>2, <1>4 DEF WorseScores, BetterScores
<1>6. \A p \in DOMAIN a, k \in SCORE_KEYS : IsNoise(k, a[p][k], a[p][k])
  BY ToleranceType DEF IsNoise
<1>7. ScoreChanges(a, a) = {}
  BY <1>6 DEF ScoreChanges
<1> QED BY <1>5, <1>7

LEMMA FailedChecksType ==
    ASSUME NEW r, IsReport(r)
    PROVE  \A x : FailedChecks(r.verapdf, x) \in Nat
BY DEF IsReport, FailedChecks

LEMMA WorseMirrorsBetter ==
    ASSUME NEW r, IsReport(r), NEW s, IsReport(s)
    PROVE  MeasuredWorse(r, s) = Improvements(s, r)
<1>1. WorseScores(r.ocr_truth, s.ocr_truth) = BetterScores(s.ocr_truth, r.ocr_truth)
  BY ScoresMirror DEF IsReport
<1>2. VerapdfRules(r, s) = VerapdfRules(s, r)
  BY DEF VerapdfRules
<1>3. \A x : FailedChecks(s.verapdf, x) > FailedChecks(r.verapdf, x)
                <=> FailedChecks(r.verapdf, x) < FailedChecks(s.verapdf, x)
  BY FailedChecksType
<1>4. TotalsBothHave(r, s) = TotalsBothHave(s, r)
  BY DEF TotalsBothHave
<1>5. \A t \in TotalsBothHave(r, s) :
         /\ s.totals[t] > r.totals[t] <=> r.totals[t] < s.totals[t]
         /\ s.totals[t] < r.totals[t] <=> r.totals[t] > s.totals[t]
  BY DEF TotalsBothHave, IsReport
<1>6. {t \in TotalsBothHave(r, s) :
            \/ t \in WORSE_IF_HIGHER /\ s.totals[t] > r.totals[t]
            \/ t \in WORSE_IF_LOWER /\ s.totals[t] < r.totals[t]}
      = {t \in TotalsBothHave(s, r) :
            \/ t \in WORSE_IF_HIGHER /\ r.totals[t] < s.totals[t]
            \/ t \in WORSE_IF_LOWER /\ r.totals[t] > s.totals[t]}
  BY <1>4, <1>5
<1>7. {x \in VerapdfRules(r, s) : FailedChecks(s.verapdf, x) > FailedChecks(r.verapdf, x)}
      = {x \in VerapdfRules(s, r) : FailedChecks(r.verapdf, x) < FailedChecks(s.verapdf, x)}
  BY <1>2, <1>3
<1> QED BY <1>1, <1>6, <1>7, Zenon DEF MeasuredWorse, Improvements

LEMMA NothingWorseThanItself ==
    ASSUME NEW r, IsReport(r)
    PROVE  MeasuredWorse(r, r) = {} /\ Improvements(r, r) = {} /\ Regressions(r, r) = {}
<1>1. WorseScores(r.ocr_truth, r.ocr_truth) = {}
  BY ScoresMirror DEF IsReport, WorseScores
<1>2. {t \in TotalsBothHave(r, r) :
            \/ t \in WORSE_IF_HIGHER /\ r.totals[t] > r.totals[t]
            \/ t \in WORSE_IF_LOWER /\ r.totals[t] < r.totals[t]} = {}
  BY DEF TotalsBothHave, IsReport
<1>3. {x \in VerapdfRules(r, r) : FailedChecks(r.verapdf, x) > FailedChecks(r.verapdf, x)} = {}
  BY FailedChecksType
<1>4. MeasuredWorse(r, r) = {}
  BY <1>1, <1>2, <1>3 DEF MeasuredWorse
<1>5. Improvements(r, r) = {}
  BY <1>4, WorseMirrorsBetter
<1>6. Regressions(r, r) = {}
  BY <1>4 DEF Regressions
<1> QED BY <1>4, <1>5, <1>6

\* Comparing two reports is the same from both sides, whatever they measure, and
\* a report compared with itself shows nothing (pdf_quality.py compare_reports).
THEOREM ComparisonMirrors == sample \in CompareSamples => CompareMirrors
<1> SUFFICES ASSUME sample \in CompareSamples PROVE CompareMirrors
  OBVIOUS
<1> DEFINE r == sample.baseline
<1> DEFINE s == sample.candidate
<1>1. IsReport(r) /\ IsReport(s)
  BY ReportsAssumption DEF CompareSamples
<1> HIDE DEF r, s
<1>2. MeasuredWorse(r, s) = Improvements(s, r)
  BY <1>1, WorseMirrorsBetter
<1>3. Regressions(r, r) = {} /\ Improvements(r, r) = {}
  BY <1>1, NothingWorseThanItself
<1>4. PageChanges(r, r) = {}
  BY DEF PageChanges
<1>5. DOMAIN [x |-> r] \cap DOMAIN [x |-> r, y |-> s] = {"x"}
  OBVIOUS
<1>6. Invalid(r, r) <=> r.failed_steps # {}
  BY DEF Invalid
<1>7. Regressed([x |-> r], [x |-> r, y |-> s]) = IF r.failed_steps = {} THEN {} ELSE {"x"}
  BY <1>3, <1>5, <1>6 DEF Regressed
<1> QED BY <1>2, <1>3, <1>4, <1>7 DEF CompareMirrors, r, s

-----------------------------------------------------------------------------
(* The stages of a report. *)

\* What holds of a run after its first k stages.
StageInv(r, k, outcomes, verapdf) ==
    /\ r \in [file : 0..k, failed : SUBSET ToSet(STAGES), checked : 0..k, aborted : BOOLEAN]
    /\ r.checked = IF verapdf THEN r.file ELSE 0
    /\ ~r.aborted /\ (\E j \in 1..k : outcomes[j] = "fails") => r.failed # {}

LEMMA StageStep ==
    ASSUME NEW k \in 1..4, NEW outcomes, NEW verapdf \in BOOLEAN, NEW r,
           StageInv(r, k-1, outcomes, verapdf)
    PROVE  StageInv(RunStage(r, k, outcomes[k], verapdf), k, outcomes, verapdf)
<1> DEFINE T == RunStage(r, k, outcomes[k], verapdf)
<1>0. STAGES[k] \in ToSet(STAGES)
  BY DEF ToSet, STAGES
<1>1. /\ r = [file |-> r.file, failed |-> r.failed, checked |-> r.checked, aborted |-> r.aborted]
      /\ r.file \in 0..(k-1) /\ r.checked \in 0..(k-1) /\ r.aborted \in BOOLEAN
      /\ r.failed \subseteq ToSet(STAGES)
      /\ r.checked = IF verapdf THEN r.file ELSE 0
  BY DEF StageInv
<1>2. \A j \in 1..k : j \in 1..(k-1) \/ j = k
  OBVIOUS
<1>3. ~r.aborted /\ (\E j \in 1..(k-1) : outcomes[j] = "fails") => r.failed # {}
  BY DEF StageInv
<1>4. CASE r.aborted
  <2>1. T = r
    BY <1>4 DEF RunStage
  <2> QED BY <2>1, <1>1, <1>4 DEF StageInv
<1>5. CASE ~r.aborted /\ outcomes[k] = "fails"
  <2>1. T = [file |-> r.file, failed |-> r.failed \cup {STAGES[k]}, checked |-> r.checked,
             aborted |-> r.aborted]
    BY <1>1, <1>5 DEF RunStage
  <2> QED BY <2>1, <1>0, <1>1 DEF StageInv
<1>6. CASE ~r.aborted /\ outcomes[k] # "fails" /\ outcomes[k] = "unchecked" /\ verapdf
  <2>1. T = [file |-> r.file, failed |-> r.failed, checked |-> r.checked, aborted |-> TRUE]
    BY <1>1, <1>6 DEF RunStage
  <2> QED BY <2>1, <1>1 DEF StageInv
<1>7. CASE ~r.aborted /\ outcomes[k] # "fails" /\ ~(outcomes[k] = "unchecked" /\ verapdf)
  <2>1. T = [file |-> k, failed |-> r.failed,
             checked |-> IF verapdf THEN k ELSE r.checked, aborted |-> r.aborted]
    BY <1>1, <1>7 DEF RunStage
  <2> QED BY <2>1, <1>1, <1>2, <1>3, <1>7 DEF StageInv
<1> QED BY <1>4, <1>5, <1>6, <1>7

\* The recursion over the stages, unfolded.
LEMMA StagesUnfold ==
    ASSUME NEW original, NEW outcomes, NEW verapdf
    PROVE  \E run :
              /\ run[0] = [file |-> 0, failed |-> {}, checked |-> 0,
                           aborted |-> verapdf /\ original = "unchecked"]
              /\ \A k \in 1..4 : run[k] = RunStage(run[k-1], k, outcomes[k], verapdf)
              /\ RunStages(original, outcomes, verapdf) = run[4]
<1> DEFINE r0 == [file |-> 0, failed |-> {}, checked |-> 0,
                  aborted |-> verapdf /\ original = "unchecked"]
<1> DEFINE r1 == RunStage(r0, 1, outcomes[1], verapdf)
<1> DEFINE r2 == RunStage(r1, 2, outcomes[2], verapdf)
<1> DEFINE r3 == RunStage(r2, 3, outcomes[3], verapdf)
<1> DEFINE r4 == RunStage(r3, 4, outcomes[4], verapdf)
<1> DEFINE g == [k \in 0..4 |-> IF k = 0 THEN r0 ELSE IF k = 1 THEN r1
                               ELSE IF k = 2 THEN r2 ELSE IF k = 3 THEN r3 ELSE r4]
<1> DEFINE F(f) == [k \in 0..4 |-> IF k = 0 THEN r0
                                  ELSE RunStage(f[k-1], k, outcomes[k], verapdf)]
<1>1. Len(STAGES) = 4
  BY DEF STAGES
<1>2. g = F(g)
  <2>1. /\ g[0] = r0 /\ g[1] = RunStage(g[0], 1, outcomes[1], verapdf)
        /\ g[2] = RunStage(g[1], 2, outcomes[2], verapdf)
        /\ g[3] = RunStage(g[2], 3, outcomes[3], verapdf)
        /\ g[4] = RunStage(g[3], 4, outcomes[4], verapdf)
    <3> HIDE DEF r0
    <3> QED OBVIOUS
  <2>2. \A k \in 0..4 : k = 0 \/ k = 1 \/ k = 2 \/ k = 3 \/ k = 4
    OBVIOUS
  <2> HIDE DEF r0, r1, r2, r3, r4
  <2>3. \A k \in 0..4 : g[k] = F(g)[k]
    <3> HIDE DEF g
    <3> QED BY <2>1, <2>2
  <2> QED BY <2>3
<1> DEFINE run == CHOOSE f : f = F(f)
<1>3. run = F(run)
  <2> HIDE DEF g, F
  <2> QED BY <1>2
<1>4. RunStages(original, outcomes, verapdf) = run[4]
  BY <1>1 DEF RunStages
<1>5. run[0] = r0 /\ \A k \in 1..4 : run[k] = RunStage(run[k-1], k, outcomes[k], verapdf)
  <2> HIDE DEF run
  <2>1. \A k \in 0..4 : run[k] = IF k = 0 THEN r0
                                 ELSE RunStage(run[k-1], k, outcomes[k], verapdf)
    BY <1>3
  <2> QED BY <2>1
<1> QED
  <2> HIDE DEF run
  <2> WITNESS run
  <2> QED BY <1>4, <1>5

LEMMA StagesEnd ==
    ASSUME NEW original, NEW outcomes, NEW verapdf \in BOOLEAN
    PROVE  StageInv(RunStages(original, outcomes, verapdf), 4, outcomes, verapdf)
<1> PICK run :
              /\ run[0] = [file |-> 0, failed |-> {}, checked |-> 0,
                           aborted |-> verapdf /\ original = "unchecked"]
              /\ \A k \in 1..4 : run[k] = RunStage(run[k-1], k, outcomes[k], verapdf)
              /\ RunStages(original, outcomes, verapdf) = run[4]
  BY StagesUnfold
<1>0. StageInv(run[0], 0, outcomes, verapdf)
  BY DEF StageInv
<1>1. \A k \in 1..4 : StageInv(run[k-1], k-1, outcomes, verapdf)
                         => StageInv(run[k], k, outcomes, verapdf)
  BY StageStep
<1>2. StageInv(run[1], 1, outcomes, verapdf)
  BY <1>0, <1>1
<1>3. StageInv(run[2], 2, outcomes, verapdf)
  BY <1>1, <1>2
<1>4. StageInv(run[3], 3, outcomes, verapdf)
  BY <1>1, <1>3
<1>5. StageInv(run[4], 4, outcomes, verapdf)
  BY <1>1, <1>4
<1> QED BY <1>5

LEMMA PipelineReport ==
    ASSUME NEW r, NEW pdfs
    PROVE  LET report == ReportFromPipeline(r, pdfs, <<>>, <<>>)
           IN /\ report.failed_steps = r.failed
              /\ report.verapdf = IF r.checked = 0 THEN NotRun
                                  ELSE [ran |-> TRUE, failed |-> pdfs[r.checked].failed]
BY DEF ReportFromPipeline, AnalyzePdf

\* Whatever the PDFs of the stages are like, whichever of the stages fail and
\* wherever veraPDF raises (pdf_quality_report.py _run_stages).
THEOREM MissedStepsShow == sample \in StageSamples => MissedStepNeverPasses
<1> SUFFICES ASSUME sample \in StageSamples PROVE MissedStepNeverPasses
  OBVIOUS
<1> DEFINE verapdf == sample.verapdf
<1> DEFINE outcomes == sample.outcomes
<1> DEFINE run == RunStages(sample.first, outcomes, verapdf)
<1> DEFINE good == RunStages("ok", [k \in 1..Len(STAGES) |-> "ok"], verapdf)
<1> DEFINE report(r) == ReportFromPipeline(r, StagePdfs, <<>>, <<>>)
<1>1. verapdf \in BOOLEAN
  BY DEF StageSamples
<1>2. StageInv(run, 4, outcomes, verapdf)
  BY <1>1, StagesEnd
<1>3. Len(STAGES) = 4
  BY DEF STAGES
<1>4. /\ report(run).failed_steps = run.failed
      /\ report(run).verapdf = IF run.checked = 0 THEN NotRun
                               ELSE [ran |-> TRUE, failed |-> StagePdfs[run.checked].failed]
  BY PipelineReport, Zenon
<1> HIDE DEF run, good, report, verapdf, outcomes
<1>5. SUFFICES ASSUME WritesReport(run)
               PROVE  /\ verapdf <=> report(run).verapdf.ran
                      /\ verapdf => report(run).verapdf.failed = StagePdfs[run.file].failed
                      /\ (\E k \in 1..4 : outcomes[k] = "fails")
                           => Regressed([x |-> report(good)], [x |-> report(run)]) = {"x"}
  BY <1>3 DEF MissedStepNeverPasses, run, good, report, verapdf, outcomes
<1>6. ~run.aborted /\ run.file # 0
  BY <1>5 DEF WritesReport
<1>7. verapdf <=> report(run).verapdf.ran
  BY <1>1, <1>2, <1>4, <1>6 DEF StageInv, NotRun
<1>8. verapdf => report(run).verapdf.failed = StagePdfs[run.file].failed
  BY <1>2, <1>4, <1>6 DEF StageInv
<1>9. ASSUME \E k \in 1..4 : outcomes[k] = "fails"
      PROVE  Regressed([x |-> report(good)], [x |-> report(run)]) = {"x"}
  <2>1. report(run).failed_steps # {}
    BY <1>2, <1>4, <1>6, <1>9 DEF StageInv
  <2>2. Invalid(report(good), report(run))
    BY <2>1 DEF Invalid
  <2>3. DOMAIN [x |-> report(good)] \cap DOMAIN [x |-> report(run)] = {"x"}
    OBVIOUS
  <2> QED BY <2>2, <2>3 DEF Regressed
<1> QED BY <1>7, <1>8, <1>9

-----------------------------------------------------------------------------
(* Fingerprints. *)

LEMMA LessRelation == \A x \in Nat, y \in Nat : y < x => <<y, x>> \in OpToRel(<, Nat)
<1> TAKE x \in Nat, y \in Nat
<1> HAVE y < x
<1> DEFINE R == {ss \in Nat \X Nat : ss[1] < ss[2]}
<1>1. <<y, x>> \in R
  OBVIOUS
<1>2. OpToRel(<, Nat) = R
  BY Zenon DEF OpToRel
<1> QED BY <1>1, <1>2, Zenon

LEMMA LeastNumber ==
    ASSUME NEW S, S \subseteq Nat, S # {}
    PROVE  Min(S) \in S /\ \A y \in S : Min(S) =< y
<1>1. PICK x \in S : \A y \in S : ~(<<y, x>> \in OpToRel(<, Nat))
  BY NatLessThanWellFounded, WFMin, Zenon
<1>2. \A y \in S : ~(y < x)
  <2> TAKE y \in S
  <2>1. x \in Nat /\ y \in Nat
    OBVIOUS
  <2> QED BY <1>1, <2>1, LessRelation, Zenon
<1>3. \A y \in S : x =< y
  BY <1>2
<1> QED BY <1>3 DEF Min

LEMMA SameDict ==
    ASSUME NEW a, NEW b
    PROVE  DictDiff(a, b) = {} <=> Known(a) = Known(b)
<1>1. \A d : /\ DOMAIN Known(d) = {k \in DOMAIN d : d[k] # None}
             /\ \A k \in DOMAIN Known(d) : Known(d)[k] = d[k]
             /\ \A k : Get(d, k) = IF k \in DOMAIN Known(d) THEN d[k] ELSE None
  BY DEF Known, Get
<1>2. ASSUME DictDiff(a, b) = {} PROVE Known(a) = Known(b)
  <2>1. \A k \in DOMAIN a \cup DOMAIN b : Get(a, k) = Get(b, k)
    BY <1>2 DEF DictDiff
  <2>2. DOMAIN Known(a) = DOMAIN Known(b)
    BY <1>1, <2>1
  <2>3. \A k \in DOMAIN Known(a) : a[k] = b[k]
    BY <1>1, <2>1, <2>2
  <2> QED BY <1>1, <2>2, <2>3 DEF Known
<1>3. ASSUME Known(a) = Known(b) PROVE DictDiff(a, b) = {}
  <2>1. \A k : Get(a, k) = Get(b, k)
    BY <1>1, <1>3
  <2> QED BY <2>1 DEF DictDiff
<1> QED BY <1>2, <1>3

LEMMA SameSequence ==
    ASSUME NEW T, NEW a \in Seq(T), NEW b \in Seq(T), Len(a) = Len(b),
           \A p \in 1..Len(a) : a[p] = b[p]
    PROVE  a = b
<1>1. a \in [1..Len(a) -> T] /\ b \in [1..Len(a) -> T]
  OBVIOUS
<1> QED BY <1>1

LEMMA SamePages ==
    ASSUME NEW old, NEW new,
           old.page_text \in Seq(Seq(STRING)), new.page_text \in Seq(Seq(STRING))
    PROVE  Len(old.page_text) = Len(new.page_text) /\ PagesThatDiffer(old, new) = {}
              <=> old.page_text = new.page_text
<1>1. ASSUME Len(old.page_text) = Len(new.page_text), PagesThatDiffer(old, new) = {}
      PROVE  old.page_text = new.page_text
  <2>1. \A p \in 1..Len(old.page_text) : old.page_text[p] = new.page_text[p]
    BY <1>1 DEF PagesThatDiffer
  <2> QED BY <1>1, <2>1, SameSequence
<1>2. old.page_text = new.page_text => PagesThatDiffer(old, new) = {}
  BY DEF PagesThatDiffer
<1> QED BY <1>1, <1>2

\* Nothing is printed exactly for fingerprints that say the same.
LEMMA DiffShowsChange ==
    ASSUME NEW old, NEW new, IsFingerprint(old), IsFingerprint(new)
    PROVE  ReportDiff(old, new) = {} <=> Says(old) = Says(new)
<1>1. CASE old.error # "none" \/ new.error # "none"
  <2>1. ReportDiff(old, new) = {} <=> old.error = new.error
    BY <1>1 DEF ReportDiff
  <2>2. ASSUME old.error = new.error PROVE Says(old) = Says(new)
    <3>1. old = ExtractionFailed(old.error) /\ new = ExtractionFailed(new.error)
      BY <1>1, <2>2 DEF IsFingerprint
    <3> QED BY <2>2, <3>1
  <2>3. Says(old) = Says(new) => old.error = new.error
    BY DEF Says
  <2> QED BY <2>1, <2>2, <2>3
<1>2. CASE old.error = "none" /\ new.error = "none"
  <2> DEFINE count == IF Len(old.page_text) # Len(new.page_text) THEN {<<"page_count", 0>>} ELSE {}
  <2> DEFINE meta == {<<"metadata", k>> : k \in DictDiff(old.metadata, new.metadata)}
  <2> DEFINE tags == {<<"tags", k>> : k \in DictDiff(old.tags, new.tags)}
  <2> DEFINE pages == {<<"page", p>> : p \in PagesThatDiffer(old, new)}
  <2>1. ReportDiff(old, new) = count \cup meta \cup tags \cup pages
    BY <1>2 DEF ReportDiff
  <2>2. count = {} <=> Len(old.page_text) = Len(new.page_text)
    OBVIOUS
  <2>3. meta = {} <=> Known(old.metadata) = Known(new.metadata)
    <3>1. DictDiff(old.metadata, new.metadata) = {} <=> Known(old.metadata) = Known(new.metadata)
      BY SameDict
    <3> QED BY <3>1
  <2>4. tags = {} <=> Known(old.tags) = Known(new.tags)
    <3>1. DictDiff(old.tags, new.tags) = {} <=> Known(old.tags) = Known(new.tags)
      BY SameDict
    <3> QED BY <3>1
  <2>5. pages = {} <=> PagesThatDiffer(old, new) = {}
    OBVIOUS
  <2>6. count = {} /\ pages = {} <=> old.page_text = new.page_text
    BY <2>2, <2>5, SamePages DEF IsFingerprint
  <2> HIDE DEF count, meta, tags, pages
  <2>7. ReportDiff(old, new) = {} <=> /\ old.page_text = new.page_text
                                      /\ Known(old.metadata) = Known(new.metadata)
                                      /\ Known(old.tags) = Known(new.tags)
    BY <2>1, <2>3, <2>4, <2>6
  <2> QED BY <1>2, <2>7 DEF Says
<1> QED BY <1>1, <1>2

\* The HTML report has a part for all that is printed but the number of pages.
LEMMA HtmlShowsDiff ==
    ASSUME NEW old, NEW new
    PROVE  ReportDiff(old, new) \ {<<"page_count", 0>>} = RenderHtmlReport(old, new)
BY DEF ReportDiff, RenderHtmlReport

Checked(recorded, current) == CheckRegression(recorded, current, FALSE)

\* The fixtures the command gets to: those before the first without a baseline.
LEMMA ComparedFixtures ==
    ASSUME NEW recorded, NEW n \in Nat, NEW current, DOMAIN current = 1..n
    PROVE  /\ Checked(recorded, current).error
                 <=> ~(DOMAIN current \subseteq DOMAIN recorded)
           /\ \A i : i \in Checked(recorded, current).changed
                       <=> /\ i \in DOMAIN current /\ 1..i \subseteq DOMAIN recorded
                           /\ ReportDiff(recorded[i], current[i]) # {}
<1> DEFINE missing == {i \in DOMAIN current : i \notin DOMAIN recorded}
<1> DEFINE compared == IF missing = {} THEN DOMAIN current ELSE 1..(Min(missing) - 1)
<1>1. compared = {i \in DOMAIN current : 1..i \subseteq DOMAIN recorded}
  <2>1. CASE missing = {}
    <3>1. \A i \in 1..n : 1..i \subseteq DOMAIN recorded
      BY <2>1
    <3> QED BY <2>1, <3>1
  <2>2. CASE missing # {}
    <3>1. missing \subseteq Nat
      OBVIOUS
    <3>2. Min(missing) \in missing /\ \A y \in missing : Min(missing) =< y
      BY <2>2, <3>1, LeastNumber
    <3> DEFINE m == Min(missing)
    <3>3. m \in 1..n /\ m \notin DOMAIN recorded /\ \A y \in missing : m =< y
      BY <3>2
    <3> HIDE DEF m
    <3>4. \A i \in 1..n : i < m => 1..i \subseteq DOMAIN recorded
      BY <3>3
    <3>5. \A i \in 1..n : ~(i < m) => ~(1..i \subseteq DOMAIN recorded)
      BY <3>3
    <3>6. 1..(m - 1) = {i \in 1..n : i < m}
      BY <3>3
    <3>7. compared = 1..(m - 1)
      BY <2>2 DEF m
    <3> QED BY <3>4, <3>5, <3>6, <3>7
  <2> QED BY <2>1, <2>2
<1>2. Checked(recorded, current).error <=> missing # {}
  BY DEF Checked, CheckRegression
<1>3. missing # {} <=> ~(DOMAIN current \subseteq DOMAIN recorded)
  OBVIOUS
<1>4. Checked(recorded, current).changed
         = {i \in compared : ReportDiff(recorded[i], current[i]) # {}}
  BY DEF Checked, CheckRegression
<1> HIDE DEF missing, compared
<1>5. \A i : i \in Checked(recorded, current).changed
               <=> i \in compared /\ ReportDiff(recorded[i], current[i]) # {}
  BY <1>4
<1> QED BY <1>1, <1>2, <1>3, <1>5

\* For any number of fixtures and any fingerprints, recorded or not: a change is
\* never silent (check_ocr_regression.py handle, _report_diff).
THEOREM ChangesShow == sample \in FingerprintSamples => NoSilentChange
<1> SUFFICES ASSUME sample \in FingerprintSamples PROVE NoSilentChange
  OBVIOUS
<1> DEFINE recorded == sample.recorded
<1> DEFINE current == sample.current
<1> DEFINE new == CheckRegression(recorded, current, TRUE).recorded
<1>1. /\ recorded \in Baselines /\ current \in Extractions
  BY DEF FingerprintSamples
<1>2. /\ \A i \in DOMAIN recorded : IsFingerprint(recorded[i])
      /\ \A i \in DOMAIN current : IsFingerprint(current[i])
      /\ current \in Seq(ToSet(current))
  BY <1>1, FingerprintsAssumption
<1> HIDE DEF recorded, current
<1>3. PICK n \in Nat : DOMAIN current = 1..n
  BY <1>2
<1>4. /\ Checked(recorded, current).error
            <=> ~(DOMAIN current \subseteq DOMAIN recorded)
      /\ \A i : i \in Checked(recorded, current).changed
                  <=> /\ i \in DOMAIN current /\ 1..i \subseteq DOMAIN recorded
                      /\ ReportDiff(recorded[i], current[i]) # {}
  BY <1>3, ComparedFixtures
<1>5. \A i \in DOMAIN current : 1..i \subseteq DOMAIN recorded =>
          (ReportDiff(recorded[i], current[i]) # {} <=> Says(current[i]) # Says(recorded[i]))
  <2> SUFFICES ASSUME NEW i \in DOMAIN current, 1..i \subseteq DOMAIN recorded
               PROVE  ReportDiff(recorded[i], current[i]) # {} <=> Says(current[i]) # Says(recorded[i])
    OBVIOUS
  <2>1. i \in DOMAIN recorded
    BY <1>3
  <2> QED BY <1>2, <2>1, DiffShowsChange
<1>6. Checked(recorded, current).changed
         = {i \in DOMAIN current : 1..i \subseteq DOMAIN recorded
                                /\ Says(current[i]) # Says(recorded[i])}
  BY <1>4, <1>5
<1>7. new = [i \in DOMAIN recorded \cup DOMAIN current |->
                IF i \in DOMAIN current THEN current[i] ELSE recorded[i]]
  BY DEF CheckRegression
<1> HIDE DEF new
<1>8. /\ Checked(new, current).error <=> ~(DOMAIN current \subseteq DOMAIN new)
      /\ \A i : i \in Checked(new, current).changed
                  <=> /\ i \in DOMAIN current /\ 1..i \subseteq DOMAIN new
                      /\ ReportDiff(new[i], current[i]) # {}
  BY <1>3, ComparedFixtures
<1>9. DOMAIN current \subseteq DOMAIN new /\ \A i \in DOMAIN current : new[i] = current[i]
  BY <1>7
<1>10. \A i \in DOMAIN current : ReportDiff(new[i], current[i]) = {}
  BY <1>2, <1>9, DiffShowsChange
<1>11. ~Checked(new, current).error
  BY <1>8, <1>9
<1>12. Checked(new, current).changed = {}
  BY <1>8, <1>10
<1>13. \A i \in DOMAIN current \cap DOMAIN recorded :
          ReportDiff(recorded[i], current[i]) \ {<<"page_count", 0>>}
             = RenderHtmlReport(recorded[i], current[i])
  BY HtmlShowsDiff
<1> QED BY <1>4, <1>6, <1>11, <1>12, <1>13 DEF NoSilentChange, Checked, recorded, current, new

-----------------------------------------------------------------------------
(* Callers. *)

\* A nonempty subset of 1..n is not counted as 0, and one with a single member
\* is the only kind counted as 1.
LEMMA CountedEntries ==
    ASSUME NEW n \in Nat, NEW S, S \subseteq 1..n, NEW i \in S
    PROVE  /\ Cardinality(S) # 0
           /\ Cardinality(S) = 1 <=> S = {i}
<1>1. IsFiniteSet(S)
  <2>1. IsFiniteSet(1..n)
    BY FS_Interval
  <2>2. S \in SUBSET (1..n)
    OBVIOUS
  <2> QED BY <2>1, <2>2, FS_Subset, Zenon
<1>2. Cardinality(S) # 0
  BY <1>1, FS_EmptySet
<1>3. Cardinality({i}) = 1
  BY FS_Singleton
<1>4. ASSUME Cardinality(S) = 1 PROVE S = {i}
  <2>1. \E x : S = {x}
    BY <1>1, <1>4, FS_Singleton
  <2> QED BY <2>1
<1> QED BY <1>2, <1>3, <1>4

\* One proxy vouches for the last entry, none for no entry.
LEMMA VouchedEntries ==
    ASSUME NEW n \in Nat, NEW parts, parts \subseteq 1..n
    PROVE  /\ VouchedEntry(parts, 0) = {}
           /\ n \in parts => VouchedEntry(parts, 1) = {n}
<1> DEFINE from(i) == {j \in parts : j >= i}
<1>0. \A j \in parts : j \in Nat /\ j =< n
  OBVIOUS
<1>1. \A i \in parts : from(i) \subseteq 1..n /\ i \in from(i)
  <2> TAKE i \in parts
  <2>1. i \in Nat /\ i >= i
    BY <1>0
  <2> QED BY <2>1, Zenon
<1>2. ASSUME n \in parts PROVE from(n) = {n} /\ \A i \in parts : n \in from(i)
  <2>1. \A j \in parts : n >= j /\ (j >= n <=> j = n)
    BY <1>0
  <2> QED BY <1>2, <2>1, Zenon
<1>3. \A h : VouchedEntry(parts, h) = {i \in parts : Cardinality(from(i)) = h}
  BY DEF VouchedEntry
<1> HIDE DEF from
<1>4. \A i \in parts : Cardinality(from(i)) # 0 /\ (Cardinality(from(i)) = 1 <=> from(i) = {i})
  BY <1>1, CountedEntries
<1>5. VouchedEntry(parts, 0) = {}
  BY <1>3, <1>4
<1>6. ASSUME n \in parts PROVE VouchedEntry(parts, 1) = {n}
  <2>1. \A i \in parts : from(i) = {i} <=> i = n
    BY <1>2, <1>6
  <2>2. {i \in parts : Cardinality(from(i)) = 1} = {n}
    BY <1>4, <1>6, <2>1, Zenon
  <2> QED BY <1>3, <2>2, Zenon
<1> QED BY <1>5, <1>6

\* With one trusted proxy the last entry of the header decides.
LEMMA LastEntryDecides ==
    ASSUME NEW request, NEW n \in Nat \ {0}, DOMAIN request.forwarded = 1..n,
           request.forwarded[n] \in Addresses
    PROVE  ConnectingAddress(request, 1) = request.forwarded[n]
<1> DEFINE parts == {i \in DOMAIN request.forwarded : request.forwarded[i] # ""}
<1> DEFINE entry == VouchedEntry(parts, 1)
<1>1. n \in 1..n
  OBVIOUS
<1>2. request.forwarded[n] # ""
  BY AddressAssumption, Zenon
<1>3. parts \subseteq 1..n /\ n \in parts
  BY <1>1, <1>2, Zenon
<1>4. ConnectingAddress(request, 1)
         = IF \E i \in entry : ValidIp(request.forwarded[i])
           THEN request.forwarded[CHOOSE i \in entry : TRUE]
           ELSE IF ValidIp(request.remote) THEN request.remote ELSE UNKNOWN_IP
  BY Zenon DEF ConnectingAddress
<1> HIDE DEF parts
<1>5. entry = {n}
  BY <1>3, VouchedEntries
<1> HIDE DEF entry
<1>6. (CHOOSE i \in entry : TRUE) = n
  BY <1>5
<1> QED BY <1>4, <1>5, <1>6 DEF ValidIp

\* Without a trusted proxy the connection's own address does.
LEMMA ConnectionDecides ==
    ASSUME NEW request, NEW n \in Nat, DOMAIN request.forwarded = 1..n,
           request.remote \in Addresses
    PROVE  ConnectingAddress(request, 0) = request.remote
<1> DEFINE parts == {i \in DOMAIN request.forwarded : request.forwarded[i] # ""}
<1> DEFINE entry == VouchedEntry(parts, 0)
<1>1. parts \subseteq 1..n
  BY Zenon
<1>2. ConnectingAddress(request, 0)
         = IF \E i \in entry : ValidIp(request.forwarded[i])
           THEN request.forwarded[CHOOSE i \in entry : TRUE]
           ELSE IF ValidIp(request.remote) THEN request.remote ELSE UNKNOWN_IP
  BY Zenon DEF ConnectingAddress
<1> HIDE DEF parts
<1>3. entry = {}
  BY <1>1, VouchedEntries
<1> HIDE DEF entry
<1> QED BY <1>2, <1>3 DEF ValidIp

\* For any addresses, any headers a caller writes and any length of them
\* (client_ip.py client_ip).
THEOREM CallersKeepTheirKey == sample \in RequestSamples => CallerCannotChooseKey
<1> SUFFICES ASSUME sample \in RequestSamples PROVE CallerCannotChooseKey
  OBVIOUS
<1> DEFINE origin == sample.origin
<1> DEFINE forged == sample.forged
<1> DEFINE request == SampleRequest
<1> DEFINE hops == IF sample.via = "none" THEN 0 ELSE 1
<1>1. /\ origin \in Addresses /\ origin \notin CloudflareAddresses /\ origin # UNKNOWN_IP
      /\ forged \in Seq(STRING) /\ sample.via \in {"platform", "cloudflare", "none"}
  BY RequestsAssumption, AddressAssumption DEF RequestSamples
<1>2. SUFFICES ClientAddress(request, hops) = origin
  BY <1>1, <1>2 DEF CallerCannotChooseKey, CounterKey, CallerKey
<1>3. CASE sample.via = "platform"
  <2>1. request = [forwarded |-> Append(forged, origin), cf |-> sample.cf, remote |-> FrontEnd]
    BY <1>3 DEF SampleRequest, ViaPlatform
  <2> HIDE DEF request, forged, origin
  <2> DEFINE n == Len(forged) + 1
  <2>2. n \in Nat \ {0} /\ DOMAIN request.forwarded = 1..n /\ request.forwarded[n] = origin
    BY <1>1, <2>1
  <2> HIDE DEF n
  <2>3. ConnectingAddress(request, 1) = origin
    BY <1>1, <2>2, LastEntryDecides
  <2> QED BY <1>1, <1>3, <2>3 DEF ClientAddress, IsCloudflare
<1>4. CASE sample.via = "cloudflare"
  <2>1. request = [forwarded |-> forged \o <<origin, Edge>>, cf |-> origin, remote |-> FrontEnd]
    BY <1>4 DEF SampleRequest, ViaCloudflare
  <2> HIDE DEF request, forged, origin
  <2> DEFINE n == Len(forged) + 2
  <2>2. n \in Nat \ {0} /\ DOMAIN request.forwarded = 1..n /\ request.forwarded[n] = Edge
    BY <1>1, <2>1
  <2> HIDE DEF n
  <2>3. Edge \in Addresses /\ Edge \in CloudflareAddresses
    BY RequestsAssumption, AddressAssumption
  <2>4. ConnectingAddress(request, 1) = Edge
    BY <2>2, <2>3, LastEntryDecides
  <2> QED BY <1>1, <1>4, <2>1, <2>3, <2>4 DEF ClientAddress, IsCloudflare, ValidIp
<1>5. CASE sample.via = "none"
  <2>1. request = [forwarded |-> forged, cf |-> sample.cf, remote |-> origin]
    BY <1>5 DEF SampleRequest, Unproxied
  <2> HIDE DEF request, forged, origin
  <2> DEFINE n == Len(forged)
  <2>2. n \in Nat /\ DOMAIN request.forwarded = 1..n /\ request.remote = origin
    BY <1>1, <2>1
  <2> HIDE DEF n
  <2>3. ConnectingAddress(request, 0) = origin
    BY <1>1, <2>2, ConnectionDecides
  <2> QED BY <1>1, <1>5, <2>3 DEF ClientAddress, IsCloudflare
<1> QED BY <1>1, <1>3, <1>4, <1>5

-----------------------------------------------------------------------------
(* The severity tables. *)

SEVERITIES == {"critical", "major", "minor"}

LEMMA TableEntries ==
    /\ DOMAIN CLAUSE_SEVERITY = CRITICAL_CLAUSES \cup MAJOR_CLAUSES \cup MINOR_CLAUSES
    /\ \A c \in DOMAIN CLAUSE_SEVERITY : CLAUSE_SEVERITY[c] \in SEVERITIES
    /\ \A r \in DOMAIN RULE_SEVERITY : RULE_SEVERITY[r] \in SEVERITIES
<1>1. DOMAIN CLAUSE_SEVERITY = CRITICAL_CLAUSES \cup MAJOR_CLAUSES \cup MINOR_CLAUSES
  BY Zenon DEF CLAUSE_SEVERITY
<1>2. \A c \in DOMAIN CLAUSE_SEVERITY : CLAUSE_SEVERITY[c] \in SEVERITIES
  BY DEF CLAUSE_SEVERITY, SEVERITIES
<1>3. \A r \in DOMAIN RULE_SEVERITY : RULE_SEVERITY[r] \in SEVERITIES
  BY DEF RULE_SEVERITY, SEVERITIES
<1> QED BY <1>1, <1>2, <1>3

LEMMA ClauseLengths == \A c \in DOMAIN CLAUSE_SEVERITY : Len(c) \in 1..3
<1>1. /\ \A c \in CRITICAL_CLAUSES : Len(c) \in 1..3
      /\ \A c \in MAJOR_CLAUSES : Len(c) \in 1..3
      /\ \A c \in MINOR_CLAUSES : Len(c) \in 1..3
  BY DEF CRITICAL_CLAUSES, MAJOR_CLAUSES, MINOR_CLAUSES
<1> QED BY <1>1, TableEntries, Zenon

\* Of the clauses a clause lies under there is a longest.
LEMMA LongestMatch ==
    ASSUME NEW clause, Matches(clause) # {}
    PROVE  \E c \in Matches(clause) : \A d \in Matches(clause) : Len(d) =< Len(c)
<1> DEFINE M == Matches(clause)
<1>1. \A c \in M : Len(c) \in 1..3
  BY ClauseLengths, Zenon DEF Matches
<1>2. M # {}
  OBVIOUS
<1> DEFINE length(c) == Len(c)
<1>7. \A c \in M : length(c) \in 1..3
  BY <1>1
<1> HIDE DEF M, length
<1>3. ASSUME NEW c \in M, length(c) = 3 PROVE \A d \in M : length(d) =< length(c)
  BY <1>7, <1>3
<1>4. ASSUME NEW c \in M, length(c) = 2, \A d \in M : length(d) # 3 PROVE \A d \in M : length(d) =< length(c)
  BY <1>7, <1>4
<1>5. ASSUME NEW c \in M, \A d \in M : length(d) # 3 /\ length(d) # 2 PROVE \A d \in M : length(d) =< length(c)
  BY <1>7, <1>5
<1>6. \E c \in M : \A d \in M : length(d) =< length(c)
  BY <1>2, <1>3, <1>4, <1>5, Zenon
<1> QED BY <1>6, Zenon DEF M, length

LEMMA WhenUnclassified ==
    ASSUME NEW clause, NEW test
    PROVE  Classify(clause, test) = "unclassified"
              <=> <<clause, test>> \notin DOMAIN RULE_SEVERITY /\ Matches(clause) = {}
<1>1. "unclassified" \notin SEVERITIES
  BY DEF SEVERITIES
<1>2. CASE <<clause, test>> \in DOMAIN RULE_SEVERITY
  <2>1. Classify(clause, test) \in SEVERITIES
    BY <1>2, TableEntries, Zenon DEF Classify
  <2> QED BY <1>1, <1>2, <2>1, Zenon
<1>3. CASE <<clause, test>> \notin DOMAIN RULE_SEVERITY /\ Matches(clause) = {}
  BY <1>3, Zenon DEF Classify
<1>4. CASE <<clause, test>> \notin DOMAIN RULE_SEVERITY /\ Matches(clause) # {}
  <2> DEFINE c == CHOOSE m \in Matches(clause) : \A d \in Matches(clause) : Len(d) =< Len(m)
  <2>1. c \in Matches(clause)
    BY <1>4, LongestMatch, Zenon
  <2>2. c \in DOMAIN CLAUSE_SEVERITY
    BY <2>1, Zenon DEF Matches
  <2>3. Classify(clause, test) = CLAUSE_SEVERITY[c]
    BY <1>4, Zenon DEF Classify
  <2>4. Classify(clause, test) \in SEVERITIES
    BY <2>2, <2>3, TableEntries, Zenon
  <2> QED BY <1>1, <1>4, <2>4, Zenon
<1> QED BY <1>2, <1>3, <1>4

\* The clauses of the profile other than 7.1 and 7.2.
OTHERS ==
    {<<5>>, <<7, 21, 6>>, <<7, 4, 4>>, <<7, 18, 1>>, <<7, 21, 3, 3>>, <<7, 5>>, <<7, 9>>,
     <<7, 10>>, <<7, 18, 4>>, <<7, 18, 5>>, <<7, 18, 6, 2>>, <<7, 20>>, <<7, 21, 4, 1>>,
     <<7, 21, 4, 2>>, <<7, 21, 7>>, <<6, 1>>, <<6, 2>>, <<7, 3>>, <<7, 4, 2>>, <<7, 7>>, <<7, 11>>,
     <<7, 15>>, <<7, 16>>, <<7, 18, 2>>, <<7, 18, 3>>, <<7, 18, 8>>, <<7, 21, 3, 1>>,
     <<7, 21, 3, 2>>, <<7, 21, 5>>, <<7, 21, 8>>}

LEMMA CatalogClauses ==
    /\ \A r \in Catalog : r = <<r[1], r[2]>> /\ (r \in DOMAIN RULE_SEVERITY \/ r[1] \in OTHERS)
    /\ DOMAIN RULE_SEVERITY \subseteq Catalog
    /\ \A d \in OTHERS : <<d, 1>> \in Catalog
<1>1. DOMAIN RULE_SEVERITY = ({<<7, 1>>} \X (1..12)) \cup ({<<7, 2>>} \X ((2..34) \cup (36..43)))
  BY Zenon DEF RULE_SEVERITY
<1>2. \A r \in Catalog : r = <<r[1], r[2]>> /\ (r \in DOMAIN RULE_SEVERITY \/ r[1] \in OTHERS)
  BY <1>1 DEF Catalog, OTHERS
<1>3. DOMAIN RULE_SEVERITY \subseteq Catalog
  BY <1>1, Zenon DEF Catalog
<1>4. \A d \in OTHERS : <<d, 1>> \in Catalog
  BY DEF Catalog, OTHERS
<1> QED BY <1>2, <1>3, <1>4

LEMMA OthersMatch == \A d \in OTHERS : Matches(d) # {}
<1> DEFINE known == DOMAIN CLAUSE_SEVERITY
<1>1. /\ {<<5>>, <<6, 1>>, <<6, 2>>, <<7, 3>>, <<7, 4>>, <<7, 5>>, <<7, 7>>, <<7, 9>>, <<7, 10>>} \subseteq known
      /\ {<<7, 11>>, <<7, 15>>, <<7, 16>>, <<7, 18, 1>>, <<7, 18, 2>>, <<7, 18, 3>>} \subseteq known
      /\ {<<7, 18, 4>>, <<7, 18, 5>>, <<7, 18, 6>>, <<7, 18, 8>>, <<7, 20>>, <<7, 21>>} \subseteq known
  BY TableEntries DEF CRITICAL_CLAUSES, MAJOR_CLAUSES, MINOR_CLAUSES
<1>2. \A d \in {<<5>>, <<6, 1>>, <<6, 2>>, <<7, 3>>, <<7, 5>>, <<7, 7>>, <<7, 9>>, <<7, 10>>, <<7, 11>>,
                <<7, 15>>, <<7, 16>>, <<7, 18, 1>>, <<7, 18, 2>>, <<7, 18, 3>>, <<7, 18, 4>>,
                <<7, 18, 5>>, <<7, 18, 8>>, <<7, 20>>} : d \in Matches(d)
  <2>1. \A d : IsPrefix(d, d) <=> Len(d) =< Len(d)
    BY Zenon DEF IsPrefix
  <2> QED BY <1>1, <2>1 DEF Matches
<1>3. /\ <<7, 4>> \in Matches(<<7, 4, 2>>) /\ <<7, 4>> \in Matches(<<7, 4, 4>>)
      /\ <<7, 18, 6>> \in Matches(<<7, 18, 6, 2>>)
  BY <1>1 DEF Matches, IsPrefix
<1>4. /\ <<7, 21>> \in Matches(<<7, 21, 3, 1>>) /\ <<7, 21>> \in Matches(<<7, 21, 3, 2>>)
      /\ <<7, 21>> \in Matches(<<7, 21, 3, 3>>) /\ <<7, 21>> \in Matches(<<7, 21, 4, 1>>)
      /\ <<7, 21>> \in Matches(<<7, 21, 4, 2>>)
  BY <1>1 DEF Matches, IsPrefix
<1>5. /\ <<7, 21>> \in Matches(<<7, 21, 5>>) /\ <<7, 21>> \in Matches(<<7, 21, 6>>)
      /\ <<7, 21>> \in Matches(<<7, 21, 7>>) /\ <<7, 21>> \in Matches(<<7, 21, 8>>)
  BY <1>1 DEF Matches, IsPrefix
<1> QED BY <1>2, <1>3, <1>4, <1>5, Zenon DEF OTHERS

\* Every entry of the table of clauses decides some rule of the profile.
LEMMA EntriesMatter ==
    \A c \in DOMAIN CLAUSE_SEVERITY : \E d \in OTHERS : c \in Matches(d)
<1>1. \A c \in DOMAIN CLAUSE_SEVERITY : c \in OTHERS \/ c \in {<<7, 4>>, <<7, 18, 6>>, <<7, 21>>}
  BY TableEntries, Zenon DEF CRITICAL_CLAUSES, MAJOR_CLAUSES, MINOR_CLAUSES, OTHERS
<1>2. \A c \in DOMAIN CLAUSE_SEVERITY : c \in Matches(c)
  <2> TAKE c \in DOMAIN CLAUSE_SEVERITY
  <2>1. Len(c) =< Len(c)
    BY ClauseLengths
  <2> QED BY <2>1, Zenon DEF Matches, IsPrefix
<1>3. /\ <<7, 4, 2>> \in OTHERS /\ IsPrefix(<<7, 4>>, <<7, 4, 2>>)
      /\ <<7, 18, 6, 2>> \in OTHERS /\ IsPrefix(<<7, 18, 6>>, <<7, 18, 6, 2>>)
      /\ <<7, 21, 5>> \in OTHERS /\ IsPrefix(<<7, 21>>, <<7, 21, 5>>)
  BY DEF OTHERS, IsPrefix
<1> QED BY <1>1, <1>2, <1>3, Zenon DEF Matches

\* No entry reaches a rule of 7.1 or 7.2: these are judged one by one.
LEMMA NoneAbove == Matches(<<7, 1>>) = {} /\ Matches(<<7, 2>>) = {}
<1>1. \A c \in CRITICAL_CLAUSES : ~IsPrefix(c, <<7, 1>>) /\ ~IsPrefix(c, <<7, 2>>)
  BY DEF CRITICAL_CLAUSES, IsPrefix
<1>2. \A c \in MAJOR_CLAUSES : ~IsPrefix(c, <<7, 1>>) /\ ~IsPrefix(c, <<7, 2>>)
  BY DEF MAJOR_CLAUSES, IsPrefix
<1>3. \A c \in MINOR_CLAUSES : ~IsPrefix(c, <<7, 1>>) /\ ~IsPrefix(c, <<7, 2>>)
  <2>1. \A c \in {<<6, 1>>, <<7, 10>>, <<7, 11>>, <<7, 15>>, <<7, 16>>} :
           ~IsPrefix(c, <<7, 1>>) /\ ~IsPrefix(c, <<7, 2>>)
    BY DEF IsPrefix
  <2>4. ~IsPrefix(<<5>>, <<7, 1>>) /\ ~IsPrefix(<<5>>, <<7, 2>>)
    BY DEF IsPrefix
  <2>2. \A c \in {<<7, 20>>, <<7, 21>>} : ~IsPrefix(c, <<7, 1>>) /\ ~IsPrefix(c, <<7, 2>>)
    BY DEF IsPrefix
  <2>3. \A c \in {<<7, 18, 2>>, <<7, 18, 6>>, <<7, 18, 8>>} :
           ~IsPrefix(c, <<7, 1>>) /\ ~IsPrefix(c, <<7, 2>>)
    BY DEF IsPrefix
  <2> QED BY <2>1, <2>2, <2>3, <2>4, Zenon DEF MINOR_CLAUSES
<1> QED BY <1>1, <1>2, <1>3, TableEntries, Zenon DEF Matches

\* For any clause, however deep, and any test number: the whole profile is
\* classified and nothing outside it, and no entry of the tables is idle
\* (severity.py classify).
THEOREM ReviewedRulesAreClassified == sample \in RuleSamples => OnlyReviewedRulesClassified
<1> SUFFICES ASSUME sample \in RuleSamples PROVE OnlyReviewedRulesClassified
  OBVIOUS
<1> DEFINE rule == sample.rule
<1> DEFINE unknown == Classify(rule[1], rule[2]) = "unclassified"
<1>1. rule \in FailedRules
  BY DEF RuleSamples
<1> HIDE DEF rule
<1>2. rule = <<rule[1], rule[2]>>
  BY <1>1, FailedRulesAssumption
<1>3. unknown <=> rule \notin DOMAIN RULE_SEVERITY /\ Matches(rule[1]) = {}
  BY <1>2, WhenUnclassified, Zenon
<1>4. rule \in Catalog => ~unknown
  BY <1>3, CatalogClauses, OthersMatch, Zenon
<1>5. /\ rule \notin Catalog
      /\ rule[1] \in {<<7, 1>>, <<7, 2>>} \/ \A c \in DOMAIN CLAUSE_SEVERITY : ~IsPrefix(c, rule[1])
      => unknown
  <2> HAVE /\ rule \notin Catalog
           /\ rule[1] \in {<<7, 1>>, <<7, 2>>} \/ \A c \in DOMAIN CLAUSE_SEVERITY : ~IsPrefix(c, rule[1])
  <2>1. rule \notin DOMAIN RULE_SEVERITY
    BY CatalogClauses, Zenon
  <2>2. Matches(rule[1]) = {}
    BY NoneAbove, Zenon DEF Matches
  <2> QED BY <1>3, <2>1, <2>2, Zenon
<1>6. \A c \in DOMAIN CLAUSE_SEVERITY : \E d \in {r[1] : r \in Catalog} : c \in Matches(d)
  <2> TAKE c \in DOMAIN CLAUSE_SEVERITY
  <2>1. PICK d \in OTHERS : c \in Matches(d)
    BY EntriesMatter, Zenon
  <2>2. <<d, 1>> \in Catalog /\ <<d, 1>>[1] = d
    BY CatalogClauses
  <2> QED BY <2>1, <2>2, Zenon
<1> QED BY <1>4, <1>5, <1>6, CatalogClauses, Zenon DEF OnlyReviewedRulesClassified, rule
=============================================================================
