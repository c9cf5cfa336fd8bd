------------------------------- MODULE Rules -------------------------------
(***************************************************************************)
(* What the scoring, comparison, severity and address rules promise, each  *)
(* for one input: the rules keep no state, and `sample` is the input of    *)
(* one of them.                                                            *)
(***************************************************************************)
EXTENDS QualityCommands, Severity, ClientIp

CONSTANTS
    Words,          \* words of a page
    MaxWords,       \* bound: words of a page and of its transcription
    Reports,        \* quality reports
    StagePdfs,      \* the PDF each stage writes: the document and its failed checks
    Baselines,      \* recorded fingerprints, by fixture
    Extractions,    \* fingerprints of a run, one for each fixture
    FailedRules,    \* veraPDF rules: clause and test number
    Origins,        \* addresses callers have
    Forged,         \* what a caller can write into X-Forwarded-For
    ForgedCf,       \* ... and into CF-Connecting-IP
    Edge,           \* an address of Cloudflare's
    FrontEnd        \* the platform's own address

-----------------------------------------------------------------------------
(* Inputs. *)

\* What a report measures is numbers.
IsReport(r) ==
    /\ \A k \in DOMAIN r.totals : r.totals[k] \in Nat
    /\ \A k \in DOMAIN r.verapdf.failed : r.verapdf.failed[k] \in Nat
    /\ \A p \in DOMAIN r.ocr_truth, k \in SCORE_KEYS : r.ocr_truth[p][k] \in Int

ASSUME ReportsAssumption == \A r \in Reports : IsReport(r)

\* A fingerprint is made by Fingerprint or by ExtractionFailed.
IsFingerprint(f) ==
    /\ f = [error |-> f.error, page_text |-> f.page_text, metadata |-> f.metadata,
            tags |-> f.tags]
    /\ f.page_text \in Seq(Seq(STRING))
    /\ f.error # "none" => f = ExtractionFailed(f.error)

ASSUME FingerprintsAssumption ==
    /\ \A b \in Baselines : \A i \in DOMAIN b : IsFingerprint(b[i])
    /\ \A e \in Extractions : e \in Seq(ToSet(e)) /\ \A i \in DOMAIN e : IsFingerprint(e[i])

\* Callers are not Cloudflare; what they write is text.
ASSUME RequestsAssumption ==
    /\ Origins \subseteq Addresses \ CloudflareAddresses
    /\ Forged \subseteq Seq(STRING)
    /\ Edge \in CloudflareAddresses

\* A rule is a clause, which is a sequence of numbers, and a test number.
ASSUME FailedRulesAssumption == FailedRules \subseteq Seq(Nat) \X Nat

TruthSamples ==
    [topic : {"truth"}, truth : BoundedSeq(Words, MaxWords), output : BoundedSeq(Words, MaxWords)]
TextSamples ==
    [topic : {"text"}, words : BoundedSeq({"a", "b"}, MaxWords + 1),
     original : BoundedSeq({"a", "b"}, MaxWords + 1)]
CompareSamples == [topic : {"compare"}, baseline : Reports, candidate : Reports]
StageSamples ==
    [topic : {"stages"}, first : {"ok", "unchecked"}, verapdf : BOOLEAN,
     outcomes : [1..Len(STAGES) -> {"ok", "fails", "unchecked"}]]
FingerprintSamples ==
    [topic : {"fingerprint"}, recorded : Baselines, current : Extractions]
RuleSamples == [topic : {"rule"}, rule : FailedRules]
RequestSamples ==
    [topic : {"request"}, origin : Origins, forged : Forged, cf : ForgedCf,
     via : {"platform", "cloudflare", "none"}]

VARIABLE sample

RuleInit ==
    \/ sample \in TruthSamples \/ sample \in TextSamples \/ sample \in CompareSamples
    \/ sample \in StageSamples \/ sample \in FingerprintSamples
    \/ sample \in RuleSamples \/ sample \in RequestSamples

-----------------------------------------------------------------------------
\* The word error rate rests on the fewest changes there are: what the table of
\* edit_distance yields is the cheapest of all ways to pair items in order,
\* with every unpaired item one change and every unequal pair one
\* (ocr_truth.py edit_distance).
EditDistanceIsMinimal ==
    sample.topic = "truth" =>
        LET a == sample.truth
            b == sample.output
            pairings == {m \in SUBSET ((1..Len(a)) \X (1..Len(b))) :
                            \A x \in m, y \in m : x[1] < y[1] <=> x[2] < y[2]}
            changes(m) == Len(a) + Len(b) - 2 * Cardinality(m)
                             + Cardinality({x \in m : a[x[1]] # b[x[2]]})
        IN EditDistance(a, b) = Min({changes(m) : m \in pairings})

\* The measures of a page agree, though each is computed its own way: the edits
\* account for every missing and every extra word, only equal pages score 0 on
\* words, and no number is missing without a missing word
\* (ocr_truth.py score_page).
MeasuresAgree ==
    sample.topic = "truth" =>
        LET score == ScorePage(sample.truth, sample.output, 10000)
        IN /\ EditDistance(sample.truth, sample.output)
                 >= Max({score.words_missing, score.words_extra})
           /\ score.word_error_rate = 0 <=> sample.truth = sample.output
           /\ score.char_error_rate = 0 <=> sample.truth = sample.output
           /\ score.numbers_missing =< score.words_missing
           /\ score.numbers_extra =< score.words_extra

\* Text laid down twice on a page shows as repeated phrases and not as missing
\* words, from the shortest text that has a phrase on, and a faithful copy shows
\* as neither (pdf_quality.py _text_against_source).
DoubledTextIsSeen ==
    sample.topic = "text" =>
        LET copies == RepeatedPhrases(sample.words, sample.original)
        IN /\ sample.words = sample.original => copies = 0
           /\ sample.words = sample.original \o sample.original
                 /\ Len(sample.original) >= PHRASE_LENGTH =>
                 copies > Len(sample.original) - PHRASE_LENGTH /\ Minus(sample.original, sample.words) = 0
           /\ Minus(sample.words, sample.original) - Minus(sample.original, sample.words)
                 = Len(sample.words) - Len(sample.original)

\* The measures of a page are right and do not contradict each other
\* (ocr_truth.py score_page, pdf_quality.py _text_against_source).
TextMeasuresAgree == EditDistanceIsMinimal /\ MeasuresAgree /\ DoubledTextIsSeen

\* What is worse when two reports are compared is better when they are swapped:
\* no rule, total or score is seen from one side only, such as a veraPDF rule
\* that fails in the candidate alone.  A report compared with itself shows
\* nothing, at a tolerance of zero neither, and fails only if it missed a step
\* (pdf_quality.py compare_reports, ocr_truth.py compare_scores,
\* pdf_quality_compare.py handle).
CompareMirrors ==
    sample.topic = "compare" =>
        LET r == sample.baseline
        IN /\ MeasuredWorse(r, sample.candidate) = Improvements(sample.candidate, r)
           /\ Regressions(r, r) = {} /\ Improvements(r, r) = {} /\ PageChanges(r, r) = {}
           /\ Regressed([x |-> r], [x |-> r, y |-> sample.candidate])
                 = IF r.failed_steps = {} THEN {} ELSE {"x"}

\* Whichever steps fail, the veraPDF verdict in a report is that of the PDF it
\* describes, and a PDF that missed a step never compares clean with one that
\* went through all (pdf_quality_report.py _run_stages, _report_from_pipeline;
\* pdf_quality_compare.py handle).
MissedStepNeverPasses ==
    sample.topic = "stages" =>
        LET run == RunStages(sample.first, sample.outcomes, sample.verapdf)
            good == RunStages("ok", [k \in 1..Len(STAGES) |-> "ok"], sample.verapdf)
            report(r) == ReportFromPipeline(r, StagePdfs, <<>>, <<>>)
        IN WritesReport(run) =>
             /\ sample.verapdf <=> report(run).verapdf.ran
             /\ sample.verapdf => report(run).verapdf.failed = StagePdfs[run.file].failed
             /\ (\E k \in 1..Len(STAGES) : sample.outcomes[k] = "fails")
                  => Regressed([x |-> report(good)], [x |-> report(run)]) = {"x"}

\* What a fingerprint says: a key whose value is None says nothing.
Known(dict) == [k \in {x \in DOMAIN dict : dict[x] # None} |-> dict[k]]
Says(f) == <<f.error, f.page_text, Known(f.metadata), Known(f.tags)>>

\* A fixture is reported as changed exactly when its fingerprint says something
\* else than the recorded one, up to the first without one, which ends the command
\* with an error; recording and checking again reports nothing.  The HTML report
\* shows every difference the command prints, but for a changed number of pages,
\* which it has no part for (check_ocr_regression.py _report_diff,
\* _render_html_report, handle).
NoSilentChange ==
    sample.topic = "fingerprint" =>
        LET recorded == sample.recorded
            current == sample.current
            check == CheckRegression(recorded, current, FALSE)
            again == CheckRegression(CheckRegression(recorded, current, TRUE).recorded,
                                     current, FALSE)
        IN /\ check.error <=> ~(DOMAIN current \subseteq DOMAIN recorded)
           /\ check.changed = {i \in DOMAIN current :
                                 1..i \subseteq DOMAIN recorded
                                   /\ Says(current[i]) # Says(recorded[i])}
           /\ again.changed = {} /\ ~again.error
           /\ \A i \in DOMAIN current \cap DOMAIN recorded :
                 ReportDiff(recorded[i], current[i]) \ {<<"page_count", 0>>}
                    = RenderHtmlReport(recorded[i], current[i])

\* Every rule of the profile is classified; a rule of 7.1 or 7.2 that is not in
\* it, and any clause that is not under a known one, is not (7.10 is no part of
\* 7.1, 50 none of 5); and every entry of the two tables decides some rule of the
\* profile (severity.py classify).
OnlyReviewedRulesClassified ==
    sample.topic = "rule" =>
        LET rule == sample.rule
            unknown == Classify(rule[1], rule[2]) = "unclassified"
        IN /\ rule \in Catalog => ~unknown
           /\ /\ rule \notin Catalog
              /\ rule[1] \in {<<7, 1>>, <<7, 2>>}
                    \/ \A c \in DOMAIN CLAUSE_SEVERITY : ~IsPrefix(c, rule[1])
              => unknown
           /\ DOMAIN RULE_SEVERITY \subseteq Catalog
           /\ \A c \in DOMAIN CLAUSE_SEVERITY : \E d \in {r[1] : r \in Catalog} : c \in Matches(d)

\* The request of the sample, under the number of proxies of its way in.
SampleRequest ==
    CASE sample.via = "platform" ->
            ViaPlatform(sample.origin, sample.forged, sample.cf, FrontEnd)
      [] sample.via = "cloudflare" ->
            ViaCloudflare(sample.origin, sample.forged, Edge, FrontEnd)
      [] OTHER -> Unproxied(sample.origin, sample.forged, sample.cf)

\* Whatever a caller writes into X-Forwarded-For and CF-Connecting-IP, and
\* whichever address of its /64 it calls from, it is counted under its own key
\* (client_ip.py client_ip).
CallerCannotChooseKey ==
    sample.topic = "request" =>
        CounterKey("client_ip", SampleRequest, IF sample.via = "none" THEN 0 ELSE 1)
            = <<"client_ip", KeyOf[sample.origin]>>
=============================================================================
