--------------------------- MODULE QualityReport ---------------------------
(***************************************************************************)
(* The quality report of a remediated PDF and the comparison of two        *)
(* reports.  doc.text[p] is the text of page p, a sequence of words.       *)
(***************************************************************************)
EXTENDS StructTree, OcrTruth

CONSTANTS
    PHRASE_LENGTH,      \* words of a phrase (5 in the code)
    EMPTY_PAGE_WORDS    \* a page with fewer words is empty (5 in the code)

ASSUME ReportAssumption == PHRASE_LENGTH \in Nat \ {0} /\ EMPTY_PAGE_WORDS \in Nat

WORSE_IF_HIGHER == {"empty_pages", "figures_without_alt", "figures_with_placeholder_alt",
                    "tables_without_headers", "heading_level_skips", "repeated_phrases",
                    "words_missing_from_source"}
WORSE_IF_LOWER == {"headings"}
NEUTRAL == {"words", "lists", "list_items", "tables", "figures", "links",
            "words_added_to_source"}

-----------------------------------------------------------------------------
(* The structure, page by page. *)

\* Mutant: a node without a /Pg of its own is not counted.
ReportOwnPage(doc, n) == IF doc.nodes[n].pg \in Pages(doc) THEN doc.nodes[n].pg ELSE 0

\* The page a node is counted on: its own, or else the nearest one above it that
\* is in the document.
ReportPage(doc, n) ==
    LET known == {m \in PathTo(doc.nodes)[n] \ {0} : doc.nodes[m].pg \in Pages(doc)}
    IN IF known = {} THEN 0 ELSE doc.nodes[Max(known)].pg

\* The nodes counted at all: those on some page, with a role.
Counted(doc) == {n \in Elements(doc) : ReportPage(doc, n) # 0 /\ doc.nodes[n].tag # "OBJR"}
WithTag(doc, tags) == {n \in Counted(doc) : doc.nodes[n].tag \in tags}
OnPage(doc, nodes, p) == {n \in nodes : ReportPage(doc, n) = p}

HeadingLevel == [H1 |-> 1, H2 |-> 2, H3 |-> 3]
HeadingLevels(doc, nodes) ==
    LET order == Ascending(nodes)
    IN [i \in 1..Len(order) |-> HeadingLevel[doc.nodes[order[i]].tag]]

ListItems(doc, list) == {m \in Kids(doc, list) : doc.nodes[m].tag = "LI"}
ListSizes(doc, nodes) ==
    LET order == Ascending(nodes)
    IN [i \in 1..Len(order) |-> Cardinality(ListItems(doc, order[i]))]

\* No header cell anywhere below the table.
Headerless(doc) == {n \in WithTag(doc, {"Table"}) :
                       \A m \in Below(doc, n) : doc.nodes[m].tag # "TH"}
Undescribed(doc) == {n \in WithTag(doc, {"Figure"}) : doc.nodes[n].alt = Blank}
Placeholders(doc) == {n \in WithTag(doc, {"Figure"}) : doc.nodes[n].alt \in {ImageN, FigureN}}

-----------------------------------------------------------------------------
(* The text, against the original's. *)

Phrases(words) ==
    [i \in 1..(IF Len(words) < PHRASE_LENGTH THEN 0 ELSE Len(words) - PHRASE_LENGTH + 1) |->
        SubSeq(words, i, i + PHRASE_LENGTH - 1)]

\* Phrases the page has more often than the original's page, which has them too.
RepeatedPhrases(words, source) ==
    Minus(SelectSeq(Phrases(words), LAMBDA x : CopiesOf(x, Phrases(source)) > 0), Phrases(source))

-----------------------------------------------------------------------------
PageEntry(doc, p) ==
    [words    |-> Len(doc.text[p]),
     headings |-> HeadingLevels(doc, OnPage(doc, WithTag(doc, HEADING_TAGS), p)),
     lists    |-> ListSizes(doc, OnPage(doc, WithTag(doc, {"L"}), p)),
     tables   |-> Cardinality(OnPage(doc, WithTag(doc, {"Table"}), p)),
     figures  |-> Cardinality(OnPage(doc, WithTag(doc, {"Figure"}), p)),
     signature |-> LET order == Ascending(OnPage(doc, Counted(doc), p))
                   IN [i \in 1..Len(order) |-> doc.nodes[order[i]].tag]]

\* What is counted word by word or item by item.
WordCount(doc) == MapThenSumSet(LAMBDA p : Len(doc.text[p]), Pages(doc))
ListItemCount(doc) ==
    MapThenSumSet(LAMBDA n : Cardinality(ListItems(doc, n)), WithTag(doc, {"L"}))

HeadingSkips(levels) == {i \in 2..Len(levels) : levels[i] > levels[i-1] + 1}
EmptyPages(doc) == {p \in Pages(doc) : Len(doc.text[p]) < EMPTY_PAGE_WORDS}

StructureTotals(doc) ==
    LET levels == HeadingLevels(doc, WithTag(doc, HEADING_TAGS))
    IN [words |-> WordCount(doc),
        empty_pages |-> Cardinality(EmptyPages(doc)),
        headings |-> Len(levels),
        heading_level_skips |-> Cardinality(HeadingSkips(levels)),
        lists |-> Cardinality(WithTag(doc, {"L"})),
        list_items |-> ListItemCount(doc),
        tables |-> Cardinality(WithTag(doc, {"Table"})),
        tables_without_headers |-> Cardinality(Headerless(doc)),
        figures |-> Cardinality(WithTag(doc, {"Figure"})),
        figures_without_alt |-> Cardinality(Undescribed(doc)),
        figures_with_placeholder_alt |-> Cardinality(Placeholders(doc)),
        links |-> Cardinality(WithTag(doc, {"Link"}))]

TextTotals(doc, source) ==
    LET sum(f(_)) == MapThenSumSet(f, Pages(doc))
    IN [repeated_phrases |-> sum(LAMBDA p : RepeatedPhrases(doc.text[p], source[p])),
        words_missing_from_source |-> sum(LAMBDA p : Minus(source[p], doc.text[p])),
        words_added_to_source |-> sum(LAMBDA p : Minus(doc.text[p], source[p]))]

\* The totals; the text's only when the original's text is given.
Totals(doc, source) ==
    IF source = <<>> THEN StructureTotals(doc)
    ELSE StructureTotals(doc) @@ TextTotals(doc, source)

\* The failed checks of each rule veraPDF reports, when it was run.
NotRun == [ran |-> FALSE, failed |-> <<>>]

\* What is reported of the document as a whole.  No step changes the outline or
\* the number of link annotations, which are reported too.
DocumentProperties(doc) == doc.meta \ {"pdfuaid"}

\* A report on doc: source is the original's text or <<>>.  analyze_pdf leaves
\* verapdf and the failed steps to the command.
AnalyzePdf(doc, source, truth) ==
    [document |-> DocumentProperties(doc), totals |-> Totals(doc, source),
     pages |-> [p \in Pages(doc) |-> PageEntry(doc, p)],
     verapdf |-> NotRun, failed_steps |-> {}, ocr_truth |-> truth]

-----------------------------------------------------------------------------
(* Two reports compared. *)

Invalid(baseline, candidate) == baseline.failed_steps # {} \/ candidate.failed_steps # {}

TotalsBothHave(baseline, candidate) == DOMAIN baseline.totals \cap DOMAIN candidate.totals

\* veraPDF's failed checks of one rule; a rule without an entry failed none.
FailedChecks(verapdf, rule) == IF rule \in DOMAIN verapdf.failed THEN verapdf.failed[rule] ELSE 0
\* Mutant: only the baseline's rules are compared.
VerapdfBaselineRules(baseline, candidate) ==
    IF baseline.verapdf.ran /\ candidate.verapdf.ran THEN DOMAIN baseline.verapdf.failed ELSE {}

VerapdfRules(baseline, candidate) ==
    IF baseline.verapdf.ran /\ candidate.verapdf.ran
    THEN DOMAIN baseline.verapdf.failed \cup DOMAIN candidate.verapdf.failed
    ELSE {}

\* What the comparison lists as better, and as worse: totals, veraPDF rules,
\* OCR scores.  Any change of a document property is worse.
Improvements(baseline, candidate) ==
    LET before == baseline.totals
        after == candidate.totals
    IN {<<"total", k>> : k \in {t \in TotalsBothHave(baseline, candidate) :
            \/ t \in WORSE_IF_HIGHER /\ after[t] < before[t]
            \/ t \in WORSE_IF_LOWER /\ after[t] > before[t]}}
       \cup {<<"rule", r>> : r \in {x \in VerapdfRules(baseline, candidate) :
            FailedChecks(candidate.verapdf, x) < FailedChecks(baseline.verapdf, x)}}
       \cup {<<"ocr", c>> : c \in BetterScores(baseline.ocr_truth, candidate.ocr_truth)}
MeasuredWorse(baseline, candidate) ==
    LET before == baseline.totals
        after == candidate.totals
    IN {<<"total", k>> : k \in {t \in TotalsBothHave(baseline, candidate) :
            \/ t \in WORSE_IF_HIGHER /\ after[t] > before[t]
            \/ t \in WORSE_IF_LOWER /\ after[t] < before[t]}}
       \cup {<<"rule", r>> : r \in {x \in VerapdfRules(baseline, candidate) :
            FailedChecks(candidate.verapdf, x) > FailedChecks(baseline.verapdf, x)}}
       \cup {<<"ocr", c>> : c \in WorseScores(baseline.ocr_truth, candidate.ocr_truth)}
Regressions(baseline, candidate) ==
    MeasuredWorse(baseline, candidate)
       \cup {<<"document", k>> : k \in (baseline.document \cup candidate.document)
                                       \ (baseline.document \cap candidate.document)}

\* The pages both have that are listed as changed.
PageChanges(baseline, candidate) ==
    {p \in DOMAIN baseline.pages \cap DOMAIN candidate.pages :
        baseline.pages[p] # candidate.pages[p]}

\* --fail-on-regression: the reports that make the comparison of two sets fail.
Regressed(baselines, candidates) ==
    {name \in DOMAIN baselines \cap DOMAIN candidates :
        \/ Invalid(baselines[name], candidates[name])
        \/ Regressions(baselines[name], candidates[name]) # {}}
=============================================================================
