----------------------------- MODULE StructTree -----------------------------
(***************************************************************************)
(* A tagged PDF as the PDF adapters see it, and the walks over its         *)
(* structure tree.                                                         *)
(*                                                                         *)
(* doc.nodes is the tree in document order: node n is nodes[n], its parent *)
(* an earlier node or the StructTreeRoot (0).  A node has a role tag, the  *)
(* page its /Pg names (0: no /Pg; a number beyond the pages: a page object *)
(* that is not in the document), an alt text, the object id of the         *)
(* annotation it refers to (role OBJR) and the form of its /K: one         *)
(* dictionary, an array of dictionaries, or an array mixed with page       *)
(* content ids (MCIDs).  The MCIDs themselves are no nodes: every walk     *)
(* skips them, but for the scorer's look at the first row of a table.      *)
(***************************************************************************)
EXTENDS Naturals, Sequences, FiniteSets, FiniteSetsExt, SequencesExt

CONSTANT
    MAX_STRUCT_TREE_DEPTH   \* how deep the link and figure walks go (30 in the code)

ASSUME DepthAssumption == MAX_STRUCT_TREE_DEPTH \in Nat

Pages(doc) == DOMAIN doc.images
Elements(doc) == DOMAIN doc.nodes
KFORMS == {"one", "array", "mixed"}
HEADING_TAGS == {"H1", "H2", "H3"}     \* of the seven, enough for a skipped level

\* What an /Alt can say.  OpenDataLoader stamps "image <n>"; the quality
\* report counts "Figure <n>" as a placeholder too.
Blank == <<>>
ImageN == <<"image">>
FigureN == <<"figure">>
ByAuthor == <<"author">>

\* What the tagger or an author can have left as /Alt; the alt text step adds
\* descriptions <<"image", page, place>> and <<"page", page>>.
AUTHORED == {Blank, ImageN, FigureN, ByAuthor}

\* The way from the root (0) down to each node.
PathTo(nodes) ==
    LET path[n \in 0..Len(nodes)] == IF n = 0 THEN {0} ELSE path[nodes[n].parent] \cup {n}
    IN path

Depth(doc, n) == Cardinality(PathTo(doc.nodes)[n]) - 1

\* The /Pg that applies to a node: its own or the nearest ancestor's.
PgRef(doc, n) ==
    LET named == {m \in PathTo(doc.nodes)[n] \ {0} : doc.nodes[m].pg # 0}
    IN IF named = {} THEN 0 ELSE doc.nodes[Max(named)].pg

\* The kids of n; doc.tree is FALSE when there is no StructTreeRoot.
Kids(doc, n) == {m \in Elements(doc) : doc.nodes[m].parent = n}

\* The nodes that are n or lie below it.
Below(doc, n) == {m \in Elements(doc) : n \in PathTo(doc.nodes)[m]}

\* Document order: every node follows its parent or a relative below that parent.
InDocumentOrder(nodes) ==
    /\ \A n \in DOMAIN nodes : nodes[n].parent \in 0..(n-1)
    /\ \A n \in DOMAIN nodes : nodes[n].parent \in PathTo(nodes)[n-1]

\* A set of numbers in ascending order.
Ascending(S) ==
    [k \in 1..Cardinality(S) |-> CHOOSE x \in S : Cardinality({y \in S : y =< x}) = k]

-----------------------------------------------------------------------------
(* The link adapter. *)

\* Mutant: the walk stops one level early.
TaggedAnnotationsEarly(doc) ==
    {doc.nodes[n].obj : n \in {m \in Elements(doc) :
        doc.nodes[m].tag = "OBJR" /\ Depth(doc, doc.nodes[m].parent) < MAX_STRUCT_TREE_DEPTH}}

\* Object ids of the annotations an OBJR refers to, within the depth limit.
\* A direct (inline) annotation has object id 0.
TaggedAnnotations(doc) ==
    {doc.nodes[n].obj : n \in {m \in Elements(doc) :
        doc.nodes[m].tag = "OBJR" /\ Depth(doc, doc.nodes[m].parent) =< MAX_STRUCT_TREE_DEPTH}}

\* The link annotations to tag: the first of each object id not tagged yet.
Untagged(doc) ==
    {i \in DOMAIN doc.annots :
        /\ doc.annots[i].sub = "Link"
        /\ doc.annots[i].id \notin TaggedAnnotations(doc)
        /\ \A j \in 1..(i-1) : doc.annots[j].sub = "Link" => doc.annots[j].id # doc.annots[i].id}

\* A Link element under the root for each of them, in page order, with its OBJR
\* kid.
WithLinks(doc) ==
    LET new == Ascending(Untagged(doc))
        base == Len(doc.nodes)
        element(k) ==
            LET annot == doc.annots[new[(k + 1) \div 2]]
            IN IF k % 2 = 1
               THEN [parent |-> 0, tag |-> "Link", pg |-> annot.page, alt |-> Blank,
                     obj |-> 0, kids |-> "array"]
               ELSE [parent |-> base + k - 1, tag |-> "OBJR", pg |-> annot.page, alt |-> Blank,
                     obj |-> annot.id, kids |-> "array"]
    IN IF doc.tree
       THEN [doc EXCEPT !.nodes = @ \o [k \in 1..(2 * Len(new)) |-> element(k)]]
       ELSE doc

-----------------------------------------------------------------------------
(* The alt text adapter. *)

NeedsAlt(alt) == alt \in {Blank, ImageN}

\* The figures to describe: those of them on a page of the document, ...
Figures(doc) ==
    {n \in Elements(doc) : /\ doc.nodes[n].tag = "Figure"
                           /\ Depth(doc, n) =< MAX_STRUCT_TREE_DEPTH
                           /\ NeedsAlt(doc.nodes[n].alt)
                           /\ PgRef(doc, n) \in Pages(doc)}

\* ... and the references to them: page and place among the page's.
RefOf(doc, n) ==
    LET page == PgRef(doc, n)
    IN <<page, Cardinality({m \in Figures(doc) : m =< n /\ PgRef(doc, m) = page})>>
FigureRefs(doc) == {RefOf(doc, n) : n \in Figures(doc)}

\* The order in which the references are collected.
Precedes(r, s) == r[1] < s[1] \/ (r[1] = s[1] /\ r[2] < s[2])

\* Mutant: an off-by-one between a figure's place and the page's images.
CandidateImageNext(doc, ref) ==
    IF ref[2] >= Len(doc.images[ref[1]]) THEN <<"page", ref[1]>>
    ELSE <<"image", ref[1], ref[2] + 1>>

\* What is sent to be described for a reference: the page's k-th image, or the
\* whole page when there is none or its format is not accepted; nothing for a
\* decorative (tiny) image.
CandidateImage(doc, ref) ==
    LET p == ref[1]
        k == ref[2]
    IN IF k > Len(doc.images[p]) THEN <<"page", p>>
       ELSE CASE doc.images[p][k] = "tiny" -> Blank
              [] doc.images[p][k] = "odd"  -> <<"page", p>>
              [] OTHER                     -> <<"image", p, k>>

\* Mutant: an empty description is written.
WorthWritingAlways(alt) == TRUE

\* A decorative figure and an empty answer leave /Alt as it is.
WorthWriting(alt) == alt # Blank

\* The document with the descriptions written back: the figures are collected
\* anew.
WithAltText(doc, altByRef) ==
    LET written == {n \in Figures(doc) : /\ RefOf(doc, n) \in DOMAIN altByRef
                                         /\ WorthWriting(altByRef[RefOf(doc, n)])}
    IN [doc EXCEPT !.nodes = [n \in DOMAIN @ |->
           IF n \in written THEN [@[n] EXCEPT !.alt = altByRef[RefOf(doc, n)]] ELSE @[n]]]
=============================================================================
