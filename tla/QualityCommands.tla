-------------------------- MODULE QualityCommands --------------------------
(***************************************************************************)
(* The commands beside the pipeline: pdf_quality_report, which runs four   *)
(* steps on a PDF and reports on the result, and check_ocr_regression,     *)
(* which compares fingerprints of OCR output with recorded ones.           *)
(***************************************************************************)
EXTENDS QualityReport

CONSTANT None   \* Python's None, no other value

STAGES == <<"ocr", "font_repair", "metadata", "link_tag">>

\* Mutant: a failed step is skipped and not recorded.
RunStageForgets(run, k, outcome, useVerapdf) ==
    IF run.aborted \/ outcome = "fails" THEN run
    ELSE [run EXCEPT !.file = k, !.checked = IF useVerapdf THEN k ELSE @]

\* One stage of a run.  run.file is the last stage that wrote a PDF (0: the
\* original), run.checked the PDF veraPDF last looked at.  The outcome is "ok",
\* "fails" or "unchecked": the step worked and veraPDF then raised, which
\* nothing catches.
RunStage(run, k, outcome, useVerapdf) ==
    IF run.aborted THEN run
    ELSE CASE outcome = "fails" -> [run EXCEPT !.failed = @ \cup {STAGES[k]}]
           [] outcome = "unchecked" /\ useVerapdf -> [run EXCEPT !.aborted = TRUE]
           [] OTHER -> [run EXCEPT !.file = k, !.checked = IF useVerapdf THEN k ELSE @]

\* veraPDF looks at the original first, and may raise on it already; its verdict
\* on the original is not the report's, so checked stays 0.
RunStages(original, outcomes, useVerapdf) ==
    LET run[k \in 0..Len(STAGES)] ==
            IF k = 0 THEN [file |-> 0, failed |-> {}, checked |-> 0,
                           aborted |-> useVerapdf /\ original = "unchecked"]
            ELSE RunStage(run[k-1], k, outcomes[k], useVerapdf)
    IN run[Len(STAGES)]

\* A report is written unless the run was aborted or no stage wrote a PDF.
\* stack[k] is what the PDF of stage k is like: the document and veraPDF's
\* failed checks.
WritesReport(run) == ~run.aborted /\ run.file # 0
ReportFromPipeline(run, stack, source, truth) ==
    [AnalyzePdf(stack[run.file].doc, source, truth) EXCEPT
        !.failed_steps = run.failed,
        !.verapdf = IF run.checked = 0 THEN NotRun
                    ELSE [ran |-> TRUE, failed |-> stack[run.checked].failed]]

-----------------------------------------------------------------------------
\* A fingerprint: the extraction error ("none" if there was none), or the text
\* lines of each page, the metadata, of which the encryption of a plain PDF is None,
\* and the number of elements with each tag.
TagCounts(doc) ==
    LET tags == {doc.nodes[n].tag : n \in Elements(doc)} \ {"OBJR"}
    IN [t \in tags |-> Cardinality({n \in Elements(doc) : doc.nodes[n].tag = t})]
Fingerprint(doc) ==
    [error |-> "none", page_text |-> doc.text, tags |-> TagCounts(doc),
     metadata |-> [title |-> IF "title" \in doc.meta THEN "set" ELSE "", encryption |-> None]]
ExtractionFailed(message) ==
    [error |-> message, page_text |-> <<>>, metadata |-> <<>>, tags |-> <<>>]

\* dict.get: a key that is not there reads like one whose value is None.
Get(dict, k) == IF k \in DOMAIN dict THEN dict[k] ELSE None

DictDiff(old, new) ==
    {k \in DOMAIN old \cup DOMAIN new : Get(old, k) # Get(new, k)}

\* Mutant: only the number of lines is compared.
PagesOfOtherLength(old, new) ==
    {p \in DOMAIN old.page_text \cap DOMAIN new.page_text :
        Len(old.page_text[p]) # Len(new.page_text[p])}

PagesThatDiffer(old, new) ==
    {p \in DOMAIN old.page_text \cap DOMAIN new.page_text : old.page_text[p] # new.page_text[p]}

\* What the command prints for a changed fixture; it says "no change" when
\* there is nothing to print.
ReportDiff(old, new) ==
    LET error == IF old.error # new.error THEN {<<"error", 0>>} ELSE {}
    IN IF old.error # "none" \/ new.error # "none" THEN error
       ELSE (IF Len(old.page_text) # Len(new.page_text) THEN {<<"page_count", 0>>} ELSE {})
            \cup {<<"metadata", k>> : k \in DictDiff(old.metadata, new.metadata)}
            \cup {<<"tags", k>> : k \in DictDiff(old.tags, new.tags)}
            \cup {<<"page", p>> : p \in PagesThatDiffer(old, new)}

\* The parts of the HTML report written for it.
RenderHtmlReport(old, new) ==
    LET error == IF old.error # new.error THEN {<<"error", 0>>} ELSE {}
    IN IF old.error # "none" \/ new.error # "none" THEN error
       ELSE {<<"metadata", k>> : k \in DictDiff(old.metadata, new.metadata)}
            \cup {<<"tags", k>> : k \in DictDiff(old.tags, new.tags)}
            \cup {<<"page", p>> : p \in PagesThatDiffer(old, new)}

\* The whole command: recorded is the baseline of each fixture that has one,
\* current the fingerprints of this run, in the fixtures' order.  Recording
\* replaces every baseline; otherwise the first fixture without one ends the
\* command with an error, after those before it were reported.
CheckRegression(recorded, current, record) ==
    LET missing == {i \in DOMAIN current : i \notin DOMAIN recorded}
        compared == IF missing = {} THEN DOMAIN current ELSE 1..(Min(missing) - 1)
    IN IF record
       THEN [recorded |-> [i \in DOMAIN recorded \cup DOMAIN current |->
                              IF i \in DOMAIN current THEN current[i] ELSE recorded[i]],
             changed |-> {}, error |-> FALSE]
       ELSE [recorded |-> recorded, error |-> missing # {},
             changed |-> {i \in compared : ReportDiff(recorded[i], current[i]) # {}}]
=============================================================================
