------------------------------ MODULE Scoring ------------------------------
(***************************************************************************)
(* The heuristic scorer of a tagged PDF.  doc.facts says which of FACTS    *)
(* hold of the document.                                                   *)
(***************************************************************************)
EXTENDS StructTree, Functions

CONSTANTS
    SCORE_DEPTH,        \* how deep the scorer walks (20 in the code)
    HEADING_PAGES,      \* longer documents need headings (10 in the code)
    BOOKMARK_PAGES      \* longer documents need bookmarks (9 in the code)

ASSUME ScoringAssumption ==
    SCORE_DEPTH \in Nat /\ HEADING_PAGES \in Nat /\ BOOKMARK_PAGES \in Nat

\* What _assess reads outside the structure tree: a text layer, bookmarks, a
\* heading-like line of text, a font that is neither embedded nor one of the base
\* 14, a form field without a tooltip, a link that says "click here".  The font
\* step can change the two that are read from the text; no step the others.
FACTS == {"text", "bookmarks", "caps", "unembedded", "untipped", "vague"}

DEDUCTIONS ==
    [no_structure_tree |-> 18, no_text_layer |-> 20, missing_alt_text |-> 12,
     form_no_tooltips |-> 10, missing_headings |-> 10, missing_bookmarks |-> 6,
     unembedded_fonts |-> 6, vague_hyperlinks |-> 6, color_contrast |-> 5, complex_tables |-> 4]

GRADE_THRESHOLDS == <<<<90, "A">>, <<75, "B">>, <<60, "C">>, <<40, "D">>, <<0, "F">>>>

-----------------------------------------------------------------------------
ROW_GROUPS == {"THead", "TBody", "TFoot"}

\* The kids of a node the table checks see: only those in an array.
ArrayKids(doc, n) == IF doc.nodes[n].kids = "one" THEN {} ELSE Kids(doc, n)

\* The rows of a table: its own and those of its row groups.
TableRows(doc, table) ==
    LET groups == {g \in ArrayKids(doc, table) : doc.nodes[g].tag \in ROW_GROUPS}
    IN {m \in ArrayKids(doc, table) \cup UNION {ArrayKids(doc, g) : g \in groups} :
           doc.nodes[m].tag = "TR"}

\* The first row in document order.
FirstRow(doc, table) == Min(TableRows(doc, table))

\* Two rows or more, and no header cell in the first.  An MCID in the first row
\* raises, and the table is passed over.
LacksHeader(doc, table) ==
    /\ Cardinality(TableRows(doc, table)) >= 2
    /\ doc.nodes[FirstRow(doc, table)].kids # "mixed"
    /\ \A m \in ArrayKids(doc, FirstRow(doc, table)) : doc.nodes[m].tag # "TH"

Walked(doc) == {n \in Elements(doc) : Depth(doc, n) =< SCORE_DEPTH}
TablesWithoutHeaders(doc) ==
    {n \in Walked(doc) : doc.nodes[n].tag = "Table" /\ LacksHeader(doc, n)}
ImagesWithoutAlt(doc) ==
    {n \in Walked(doc) : doc.nodes[n].tag = "Figure" /\ doc.nodes[n].alt = Blank}
HasImages(doc) == \E p \in Pages(doc) : \E i \in DOMAIN doc.images[p] :
                      doc.images[p][i] \in {"large", "odd"}
HasHeadings(doc) ==
    "caps" \in doc.facts \/ \E n \in Walked(doc) : doc.nodes[n].tag \in HEADING_TAGS

\* The issues found, each with a deduction and a line of the manual review list.
Issues(doc) ==
    {i \in DOMAIN DEDUCTIONS :
        CASE i = "no_structure_tree" -> ~doc.tree
          [] i = "no_text_layer"     -> "text" \notin doc.facts
          [] i = "missing_alt_text"  -> ImagesWithoutAlt(doc) # {} /\ HasImages(doc)
          [] i = "form_no_tooltips"  -> "untipped" \in doc.facts
          [] i = "missing_headings"  -> ~HasHeadings(doc) /\ Len(doc.images) > HEADING_PAGES
          [] i = "missing_bookmarks" -> "bookmarks" \notin doc.facts
                                          /\ Len(doc.images) > BOOKMARK_PAGES
          [] i = "unembedded_fonts"  -> "unembedded" \in doc.facts
          [] i = "vague_hyperlinks"  -> "vague" \in doc.facts
          [] i = "color_contrast"    -> TRUE
          [] i = "complex_tables"    -> TablesWithoutHeaders(doc) # {}}

Deduction(issues, i) == IF i \in issues THEN DEDUCTIONS[i] ELSE 0
Score(doc) ==
    LET found == Issues(doc)
        deducted == Deduction(found, "no_structure_tree") + Deduction(found, "no_text_layer")
                    + Deduction(found, "missing_alt_text") + Deduction(found, "form_no_tooltips")
                    + Deduction(found, "missing_headings") + Deduction(found, "missing_bookmarks")
                    + Deduction(found, "unembedded_fonts") + Deduction(found, "vague_hyperlinks")
                    + Deduction(found, "color_contrast") + Deduction(found, "complex_tables")
    IN IF deducted > 100 THEN 0 ELSE 100 - deducted

Grade(score) ==
    GRADE_THRESHOLDS[SelectInSeq(GRADE_THRESHOLDS, LAMBDA t : score >= t[1])][2]
=============================================================================
