------------------------------ MODULE MCRules ------------------------------
(***************************************************************************)
(* The documents the repair steps are checked on, and the inputs the       *)
(* scoring, comparison, severity and address rules are checked on.         *)
(***************************************************************************)
EXTENDS DocumentSteps, Rules

vars == <<docVars, sample>>

-----------------------------------------------------------------------------
(* Documents. *)

Node(parent, tag, pg, alt, obj) ==
    [parent |-> parent, tag |-> tag, pg |-> pg, alt |-> alt, obj |-> obj, kids |-> "array"]

PlainDoc ==
    [tree |-> TRUE, nodes |-> <<>>, annots |-> <<>>, images |-> <<<<>>, <<>>>>,
     text |-> <<<<"a">>, <<>>>>, meta |-> METADATA, facts |-> {"text"},
     mended |-> [text |-> <<<<>>, <<"b">>>>, facts |-> {"caps"}],
     fonts |-> <<>>, descs |-> <<>>, resources |-> <<<<>>, <<>>>>, shown |-> <<<<>>, <<>>>>,
     reads |-> <<<<>>, <<>>>>]

\* Links: a shared, a repeated and a direct annotation, OBJRs at every depth
\* around the limit, a document without a tree.
LinkDocs ==
    LET annot(page, sub, id) == [page |-> page, sub |-> sub, id |-> id]
        annots == {<<annot(1, "Link", 7)>>, <<annot(1, "Link", 7), annot(2, "Link", 7)>>,
                   <<annot(1, "Widget", 7), annot(1, "Link", 8), annot(2, "Link", 9)>>,
                   <<annot(1, "Link", 0), annot(1, "Link", 0), annot(2, "Link", 8)>>}
        chain(k, id) == [i \in 1..(k + 1) |->
                            IF i =< k THEN Node(i - 1, "P", 1, Blank, 0)
                            ELSE Node(k, "OBJR", 1, Blank, id)]
        trees == {<<>>, <<Node(0, "Link", 1, Blank, 0), Node(1, "OBJR", 1, Blank, 7),
                          Node(0, "Link", 2, Blank, 0), Node(3, "OBJR", 2, Blank, 7)>>}
                 \cup {chain(k, id) : k \in 1..(MAX_STRUCT_TREE_DEPTH + 1), id \in {0, 7, 8}}
    IN {[PlainDoc EXCEPT !.nodes = t, !.annots = a, !.meta = m] :
           t \in trees, a \in annots, m \in {METADATA, {"title"}}}
       \cup {[PlainDoc EXCEPT !.tree = FALSE, !.annots = a] : a \in annots}

\* Figures: nested or side by side, on their own or an inherited or an unknown
\* page, with every kind of alt text, on pages with fewer or other images.
FigureDocs ==
    LET figures == {Node(0, "Figure", pg, alt, 0) :
                       pg \in {0, 2, 3}, alt \in {Blank, ImageN, FigureN, ByAuthor}}
        trees == {t \in {<<Node(0, "Sect", pg, Blank, 0), [f EXCEPT !.parent = 1],
                           [g EXCEPT !.parent = up]>> :
                            pg \in {1, 3}, f \in figures, up \in 0..2,
                            g \in {x \in figures : x.pg # 3 /\ x.alt # FigureN}} :
                     InDocumentOrder(t)}
        images == {<<<<>>, <<"large">>>>, <<<<"tiny", "large">>, <<>>>>,
                   <<<<"odd", "medium">>, <<"large", "large">>>>}
    IN {[PlainDoc EXCEPT !.nodes = t, !.images = i] : t \in trees, i \in images}

\* Tables with and without row groups and header cells, lists and headings, at
\* the depth the scorer stops at.
TableDocs ==
    LET row(parent, cell, kids) ==
            <<[Node(parent, "TR", 1, Blank, 0) EXCEPT !.kids = kids],
              Node(parent + 1, cell, 0, Blank, 0)>>
        table(under, groups, first, second, kids) ==
            [i \in 1..under |-> Node(i - 1, "Sect", 1, Blank, 0)]
            \o <<Node(under, "Table", 1, Blank, 0)>>
            \o (IF groups THEN <<Node(under + 1, "THead", 1, Blank, 0)>> ELSE <<>>)
            \o row(under + (IF groups THEN 2 ELSE 1), first, kids)
            \o [k \in 1..2 |-> LET r == row(under + 1, second, "array")[k]
                               IN IF k = 1 THEN r
                                  ELSE [r EXCEPT !.parent = under + (IF groups THEN 5 ELSE 4)]]
            \o <<Node(0, "H1", 1, Blank, 0), Node(0, "H3", 1, Blank, 0),
                 Node(0, "L", 1, Blank, 0), Node(under + (IF groups THEN 9 ELSE 8), "LI", 1, Blank, 0)>>
    IN {[PlainDoc EXCEPT !.nodes = table(u, g, a, b, kids), !.facts = f] :
           u \in {0, SCORE_DEPTH - 1, SCORE_DEPTH}, g \in BOOLEAN, a \in {"TH", "TD"},
           b \in {"TH", "TD"}, kids \in KFORMS,
           f \in {{"text", "bookmarks", "caps"}, {"untipped", "unembedded", "vague"}}}

\* Fonts: candidates and others, shared by two pages or not, under one name or
\* two, shown in one or two operations; CIDSets around the byte boundary.
FontDocs ==
    LET font(identity, mapped, desc) ==
            [identity |-> identity, mapped |-> mapped, toUnicode |-> {}, desc |-> desc]
        show(codes) == [name |-> 1, codes |-> codes]
        under3(codes) == [name |-> 3, codes |-> codes]
        bytes == {<<>>, <<0..7>>, <<0..6>>, <<0..7, {0}>>}
        desc(id, cidset, glyphs, trueType) ==
            [id |-> id, cidset |-> cidset, glyphs |-> glyphs, trueType |-> trueType]
        fontDoc(m, descs, shown, r) ==
            [PlainDoc EXCEPT
                !.fonts = <<font(TRUE, m, 1), font(FALSE, FALSE, 2)>>, !.descs = descs,
                !.resources = <<<<1, 2, 1>>, <<1, 2>>>>, !.shown = shown,
                !.reads = <<<<3, 0, 4>>, <<r, 0>>>>]
    IN {fontDoc(TRUE, <<desc(id, b, g, t), desc(id * 2, <<0..6>>, 8, TRUE)>>, <<<<>>, <<>>>>, 0) :
           id \in {0, 5}, b \in bytes, g \in {0, 7, 8, 9}, t \in BOOLEAN}
       \cup {fontDoc(m, <<desc(5, <<>>, 8, TRUE), desc(10, <<0..6>>, 8, TRUE)>>, <<p, q>>, r) :
           m \in BOOLEAN, r \in {0, 3}, q \in {<<>>, <<show(<<2, MaxCharacter - 1>>)>>},
           p \in {<<>>, <<show(<<1>>)>>, <<show(<<1, 2>>), show(<<1>>)>>,
                   <<under3(<<1, 4>>)>>, <<show(<<1, 2>>), under3(<<1, 4>>)>>}}

MCDocuments == LinkDocs \cup FigureDocs \cup TableDocs \cup FontDocs

-----------------------------------------------------------------------------
(* Rule inputs. *)

Nothing == [topic |-> "none"]   \* no rule: a document is repaired
MCWords == {"a", "1", "1."}
MCStripped == [w \in MCWords |-> IF w = "1." THEN "1" ELSE w]

\* Reports that differ in their totals, veraPDF's verdict, OCR scores, a
\* document property, a page or a failed step.
MCReports ==
    LET base == AnalyzePdf(PlainDoc, <<>>, <<>>)
        totals == {[figures_without_alt |-> x, headings |-> y] : x \in 0..1, y \in 0..1}
                  \cup {[figures_without_alt |-> x, headings |-> 1, empty_pages |-> 0] : x \in 0..1}
        verdicts == {NotRun} \cup {[ran |-> TRUE, failed |-> f] :
                        f \in {<<>>, [r1 |-> 1], [r1 |-> 2], [r2 |-> 1]}}
        score(rate, order) ==
            [ScorePage(<<"a">>, <<"a">>, order) EXCEPT !.word_error_rate = rate]
    IN {[base EXCEPT !.totals = t, !.verapdf = v] : t \in totals, v \in verdicts}
       \cup {[base EXCEPT !.ocr_truth = <<score(r, o)>>, !.document = d] :
                r \in {0, 100, 101}, o \in {9799, 9800, 10000}, d \in {{}, {"Lang"}}}
       \cup {[base EXCEPT !.failed_steps = {"metadata"}]}

\* The PDFs of the stages, told apart by what fails in them.
MCStagePdfs == [k \in 1..Len(STAGES) |-> [doc |-> PlainDoc, failed |-> [r1 |-> k]]]

Fingerprints ==
    {ExtractionFailed(m) : m \in {"crash", "timeout"}} \cup
    {Fingerprint([PlainDoc EXCEPT !.text = t, !.meta = m, !.nodes = n]) :
        t \in {<<<<"x">>>>, <<<<"y">>>>, <<<<"x">>, <<>>>>}, m \in {{}, {"title"}},
        n \in {<<>>, <<Node(0, "P", 1, Blank, 0)>>,
               <<Node(0, "P", 1, Blank, 0), Node(1, "P", 1, Blank, 0)>>,
               <<Node(0, "P", 1, Blank, 0), Node(1, "H1", 1, Blank, 0)>>}}
\* Recorded before the encryption was part of a fingerprint, or of a PDF that is
\* encrypted.
OtherFingerprints ==
    {[Fingerprint(PlainDoc) EXCEPT !.metadata = m] :
        m \in {[title |-> "set"], [title |-> "set", encryption |-> "Standard"]}}

MCExtractions ==
    {<<Fingerprint(PlainDoc), f>> : f \in Fingerprints \cup OtherFingerprints}
MCBaselines ==
    UNION {[{1} \cup {f} -> {g}] \cup [{f} -> {g}] :
               f \in 2..3, g \in Fingerprints \cup OtherFingerprints}

\* Every clause of veraPDF's PDF/UA-1 profile, and some it does not have.
MCFailedRules ==
    ({r[1] : r \in Catalog} \cup {<<7>>, <<7, 6>>, <<7, 12>>, <<7, 18>>, <<7, 18, 9>>, <<7, 21, 9>>,
                                  <<7, 22>>, <<7, 1, 1>>, <<7, 2, 1>>, <<50>>, <<6>>}) \X (1..44)

MCKeyOf == [caller4 |-> "caller4", mapped4 |-> "caller4", caller6 |-> "net6",
            other6 |-> "net6", victim |-> "victim", edge |-> "edge", front |-> "front"]
MCForged == BoundedSeq({"victim", "edge", "junk", ""}, 2)

-----------------------------------------------------------------------------
Init ==
    \/ /\ \E d \in Documents : DocInit(d)
       /\ sample = Nothing
    \/ DocInit(PlainDoc) /\ RuleInit

Next == sample = Nothing /\ DocNext /\ UNCHANGED sample
Spec == Init /\ [][Next]_vars
=============================================================================
