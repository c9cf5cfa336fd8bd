--------------------------- MODULE DocumentSteps ---------------------------
(***************************************************************************)
(* A tagged PDF on its way through the repair steps: what the adapters do  *)
(* to the document itself (module Pipeline has the bookkeeping).  A step   *)
(* that fails hands its input on.  The result may be submitted again; a    *)
(* second round then starts from the repaired document, when the tagging   *)
(* step fails or is switched off.  The tagger is external: a round starts  *)
(* with the document it leaves behind.                                     *)
(***************************************************************************)
EXTENDS Scoring, FontRepair, QualityReport

CONSTANTS
    Documents,      \* the tagged documents to start from
    MaxRounds,      \* bound: how often a document goes through the steps
    MaxStepFailures \* bound: steps that fail in one round

ASSUME RoundsAssumption == MaxRounds \in Nat \ {0} /\ MaxStepFailures \in Nat

METADATA == {"Marked", "Lang", "DisplayDocTitle", "title", "pdfuaid", "Tabs"}

\* The tree is in document order; its OBJRs sit in elements, and its pages are
\* those of the document or unknown ones.
IsTree(d) ==
    /\ InDocumentOrder(d.nodes)
    /\ ~d.tree => d.nodes = <<>>
    /\ \A n \in Elements(d) :
           /\ d.nodes[n].pg \in 0..(Len(d.images) + 1)
           /\ d.nodes[n].tag = "OBJR" =>
                  d.nodes[n].parent # 0 /\ d.nodes[d.nodes[n].parent].tag # "OBJR"

HasSoundFonts(d) ==
    /\ \A f \in DOMAIN d.fonts : d.fonts[f].desc \in {0} \cup DOMAIN d.descs
    /\ \A p \in DOMAIN d.resources : ToSet(d.resources[p]) \subseteq DOMAIN d.fonts
    /\ \A x \in DOMAIN d.descs :
           /\ \E y \in Visited(d) : DescAt(d, y) = x
           /\ \A y \in DOMAIN d.descs : d.descs[x].id = d.descs[y].id /\ x # y
                                           => d.descs[x].id = 0
    /\ DOMAIN d.shown = DOMAIN d.resources /\ DOMAIN d.reads = DOMAIN d.resources
    /\ \A p \in DOMAIN d.resources : \A k \in DOMAIN d.resources[p] :
           /\ k \in DOMAIN d.reads[p]
           /\ \A c \in ToSet(CodesShown(d, p, k)) : c + BestOffset(d, p, k) \in Nat

\* A document as the tagger leaves it.  A descriptor is there because a page's
\* font names it, and objects of their own have different ids; an offset that
\* moves a code below zero is not considered.
IsDocument(d) ==
    /\ d \in [tree : BOOLEAN,
              nodes : Seq([parent : Nat, tag : STRING, pg : Nat, alt : AUTHORED, obj : Nat,
                           kids : KFORMS]),
              annots : Seq([page : Nat, sub : STRING, id : Nat]),
              images : Seq(Seq(STRING)), text : Seq(Seq(STRING)),
              meta : SUBSET METADATA, facts : SUBSET FACTS,
              mended : [text : Seq(Seq(STRING)), facts : SUBSET TEXT_FACTS],
              fonts : Seq([identity : BOOLEAN, mapped : BOOLEAN,
                           toUnicode : SUBSET (Nat \X Nat), desc : Nat]),
              descs : Seq([id : Nat, cidset : Seq(SUBSET (0..7)), glyphs : Nat,
                           trueType : BOOLEAN]),
              resources : Seq(Seq(Nat)), shown : Seq(Seq([name : Nat, codes : Seq(Nat)])),
              reads : Seq(Seq(Int))]
    /\ IsTree(d)
    /\ \A i \in DOMAIN d.annots : d.annots[i].page \in Pages(d)
    /\ DOMAIN d.text = Pages(d) /\ DOMAIN d.mended.text = Pages(d)
    /\ HasSoundFonts(d)

ASSUME DocumentsAssumption == \A d \in Documents : IsDocument(d)

VARIABLES
    doc,            \* the document now
    before,         \* history: the document at the start of the round
    at,             \* the step that runs next
    alts,           \* alt text step: the answers so far, by reference
    completed,      \* history: the steps of this round that did not fail
    round,
    result          \* the score of the round, <<>> before there is one

docVars == <<doc, before, at, alts, completed, round, result>>

STEP_ORDER == <<"font_repair", "metadata", "link_tag", "alt_text", "scoring", "done">>
Place(step) == SelectInSeq(STEP_ORDER, LAMBDA s : s = step)
After(step) == STEP_ORDER[1 + Place(step)]

DocInit(d) ==
    /\ doc = d /\ before = d /\ at = "font_repair" /\ alts = <<>>
    /\ completed = {} /\ round = 1 /\ result = <<>>

-----------------------------------------------------------------------------
\* A step completes with the document it wrote.
Completes(step, output) ==
    /\ at = step
    /\ doc' = output
    /\ at' = After(step)
    /\ completed' = completed \cup {step}
    /\ UNCHANGED <<before, round>>

FontRepairStep == Completes("font_repair", RepairFonts(doc)) /\ UNCHANGED <<alts, result>>

FinalizeMetadata ==
    Completes("metadata", [doc EXCEPT !.meta = METADATA]) /\ UNCHANGED <<alts, result>>

TagLinks == Completes("link_tag", WithLinks(doc)) /\ UNCHANGED <<alts, result>>

\* What the vision service can answer when candidate is sent: a description of it,
\* nothing, or words that say no more than a placeholder.  A decorative image is
\* not sent.
Answers(candidate) ==
    IF candidate = Blank THEN {Blank} ELSE {candidate, Blank, ImageN, FigureN}

\* The figures are collected once, then described one by one.
Describe ==
    LET left == FigureRefs(doc) \ DOMAIN alts
    IN /\ at = "alt_text"
       /\ \E ref \in left :
              /\ \A r \in left : r = ref \/ Precedes(ref, r)
              /\ \E answer \in Answers(CandidateImage(doc, ref)) :
                     alts' = [r \in DOMAIN alts \cup {ref} |->
                                 IF r = ref THEN answer ELSE alts[r]]
       /\ UNCHANGED <<doc, before, at, completed, round, result>>

\* Once all are answered they are written to a fresh copy of the document.
WriteAltText ==
    /\ FigureRefs(doc) \subseteq DOMAIN alts
    /\ Completes("alt_text", WithAltText(doc, alts))
    /\ alts' = <<>>
    /\ UNCHANGED result

ScoreDocument ==
    /\ Completes("scoring", doc)
    /\ result' = <<Score(doc), Grade(Score(doc))>>
    /\ UNCHANGED alts

\* An adapter or the vision service raises: nothing of the step is kept.
StepFails ==
    /\ at # "done"
    /\ Place(at) - 1 - Cardinality(completed) < MaxStepFailures
    /\ at' = After(at)
    /\ alts' = <<>>
    /\ UNCHANGED <<doc, before, completed, round, result>>

Resubmit ==
    /\ at = "done"
    /\ round < MaxRounds
    /\ round' = round + 1
    /\ before' = doc
    /\ at' = "font_repair"
    /\ completed' = {}
    /\ result' = <<>>
    /\ UNCHANGED <<doc, alts>>

DocNext ==
    \/ FontRepairStep \/ FinalizeMetadata \/ TagLinks \/ Describe \/ WriteAltText
    \/ ScoreDocument \/ StepFails \/ Resubmit

DocSpec == (\E d \in Documents : DocInit(d)) /\ [][DocNext]_docVars

-----------------------------------------------------------------------------
\* Type invariant: the steps leave a tree in document order, whose OBJRs sit in
\* elements and whose pages are those of the document or unknown ones.
DocTypeOK ==
    /\ IsTree(doc)
    /\ doc.meta \subseteq METADATA /\ doc.facts \subseteq FACTS
    /\ at \in ToSet(STEP_ORDER)
    /\ completed \subseteq ToSet(STEP_ORDER)
    /\ \A r \in DOMAIN alts : r \in FigureRefs(doc)
    /\ round \in 1..MaxRounds
    /\ result # <<>> => result[1] \in 0..100 /\ result[2] \in {"A", "B", "C", "D", "F"}

References(d, id) ==
    Cardinality({n \in Elements(d) : d.nodes[n].tag = "OBJR" /\ d.nodes[n].obj = id})
ReferencesInReach(d, id) ==
    \A n \in Elements(d) : d.nodes[n].tag = "OBJR" /\ d.nodes[n].obj = id
                              => Depth(d, n) =< MAX_STRUCT_TREE_DEPTH + 1

\* After the link step every link annotation that is an object of its own is
\* referred to from the tree, and none gained a second reference: not when two
\* pages share it, not in a second round (link/pike_pdf.py _tag_link_annotations).
LinksReferencedOnce ==
    "link_tag" \in completed /\ doc.tree =>
        \A i \in DOMAIN doc.annots :
            LET id == doc.annots[i].id
            IN doc.annots[i].sub = "Link" /\ id # 0 /\ ReferencesInReach(before, id)
                  => References(doc, id) = Max({1, References(before, id)})

\* The steps leave a well-formed tree that refers to every link once
\* (link/pike_pdf.py _collect_tagged_annotation_objids).
TreeStaysSound == DocTypeOK /\ LinksReferencedOnce

\* The place of a figure among all figures of its page.
PlaceOnPage(d, n) ==
    Cardinality({m \in 1..n : d.nodes[m].tag = "Figure" /\ PgRef(d, m) = PgRef(d, n)
                                /\ Depth(d, m) =< MAX_STRUCT_TREE_DEPTH})

\* A description written to a figure is of the page the figure is on, and, when
\* no figure of that page had a description before, of the image that stands in
\* the figure's own place: the references survive from collection to writing
\* though the tree is walked anew.  What an author or an earlier round wrote is
\* not replaced; an answer that is no description can be written as it came
\* (alt_text/pike_pdf.py _collect_figure_elements, write_alt_text).
DescribedFromOwnImage ==
    \A n \in Elements(before) :
        LET alt == doc.nodes[n].alt
            page == PgRef(doc, n)
        IN alt # before.nodes[n].alt =>
               /\ before.nodes[n].tag = "Figure" /\ before.nodes[n].alt \in {Blank, ImageN}
               /\ alt \notin {ImageN, FigureN} =>
                     /\ Len(alt) > 1 /\ alt[2] = page
                     /\ \/ alt = <<"page", page>>
                        \/ alt = <<"image", page, PlaceOnPage(before, n)>>
                        \/ \E m \in Elements(before) :
                              /\ before.nodes[m].tag = "Figure" /\ PgRef(before, m) = page
                              /\ ~NeedsAlt(before.nodes[m].alt)

\* Some answer of the vision service is no better than a placeholder.
PlaceholderAnswered == \E r \in DOMAIN alts : alts[r] \in {ImageN, FigureN}

\* Text apart, the document that a step leaves scores no less and measures no worse
\* than the one it got, except for placeholders the vision service answered.
StepIsNoWorse ==
    doc' # doc =>
        LET next == ReadAs(doc', doc.text, doc.facts \cap TEXT_FACTS)
            worse == MeasuredWorse(AnalyzePdf(doc, <<>>, <<>>), AnalyzePdf(next, <<>>, <<>>))
        IN /\ Score(next) >= Score(doc)
           /\ worse # {} =>
                 worse = {<<"total", "figures_with_placeholder_alt">>} /\ PlaceholderAnswered

\* No step lowers the score or worsens a total of the quality report, except that
\* answers like "Figure 2" can raise the number of placeholders: an empty answer,
\* for one, must not replace a placeholder by an empty /Alt, which the scorer
\* counts.  A new character map changes the extracted text in ways nobody can
\* tell, so the documents are compared as if the text had stayed
\* (write_alt_text, scoring/pike_pdf.py _walk_struct_tree).
NoStepMakesItWorse == [][StepIsNoWorse]_docVars

\* Every figure the alt text step collects is one the quality report counts as
\* undescribed, on the same page, though the two walk the tree differently
\* (alt_text/pike_pdf.py _collect_figure_elements, pdf_quality.py visit).
CandidatesAreReported ==
    \A n \in Figures(doc) : /\ n \in Undescribed(doc) \cup Placeholders(doc)
                             /\ ReportPage(doc, n) = PgRef(doc, n)

\* A table of two rows or more that the report finds without any header cell is
\* one the scorer deducts for, as far down as it looks, unless its first row holds
\* page content of its own: looking at that raises, and the scorer passes over the
\* table (pdf_quality.py visit, scoring/pike_pdf.py _walk_struct_tree).
HeaderlessTablesAreScored ==
    \A n \in Headerless(doc) :
        /\ Depth(doc, n) =< SCORE_DEPTH /\ Cardinality(TableRows(doc, n)) >= 2
        /\ doc.nodes[FirstRow(doc, n)].kids # "mixed"
        => n \in TablesWithoutHeaders(doc)

\* The walks of the alt text step, the report and the scorer agree on what is
\* left to do (_collect_figure_elements, visit, _walk_struct_tree).
WalksAgree == CandidatesAreReported /\ HeaderlessTablesAreScored

\* After the font step a CIDSet that is repairable, and whose descriptor is an
\* object of its own, marks every glyph, and none past the last: at the byte
\* boundary too (font_repair/pike_pdf.py _repair_cidset).
CidsetMarksEveryGlyph ==
    "font_repair" \in completed =>
        \A d \in DOMAIN doc.descs :
            LET desc == doc.descs[d]
            IN desc.id # 0 /\ desc.cidset # <<>> /\ desc.trueType /\ desc.glyphs # 0 =>
                  /\ CidsetCoversAllGlyphs(desc.cidset, desc.glyphs)
                  /\ desc.cidset # before.descs[d].cidset =>
                        \A c \in desc.glyphs..(Len(desc.cidset) * 8 - 1) : ~Marks(desc.cidset, c)

\* Nothing but name k of page p shows the font it stands for.
ShownOnlyUnder(d, p, k) ==
    \A q \in DOMAIN d.resources : \A j \in DOMAIN d.resources[q] :
        d.resources[q][j] = d.resources[p][k] /\ <<q, j>> # <<p, k>> => CodesShown(d, q, j) = <<>>

\* After the font step a font that one page alone shows, under one name, and whose
\* text there reads as English, has every code it shows mapped to the right
\* character, if a map can name that character; other names of the font, and pages
\* that list it, do not take that map away
\* (font_repair/pike_pdf.py _repair_page_fonts).
ShownCodesAreMapped ==
    "font_repair" \in completed =>
        \A p \in DOMAIN doc.resources : \A k \in DOMAIN doc.resources[p] :
            LET f == doc.resources[p][k]
            IN /\ IsCandidate(before.fonts[f])
               /\ CodesShown(doc, p, k) # <<>> /\ BestOffset(doc, p, k) # 0
               /\ ShownOnlyUnder(doc, p, k)
               => \A c \in ToSet(CodesShown(doc, p, k)) :
                     c + doc.reads[p][k] =< MaxCharacter =>
                        <<c, c + doc.reads[p][k]>> \in doc.fonts[f].toUnicode

\* What the font step repairs it repairs whole: no glyph unmarked, no shown code
\* unmapped (font_repair/pike_pdf.py repair).
FontsAreRepaired == CidsetMarksEveryGlyph /\ ShownCodesAreMapped
=============================================================================
