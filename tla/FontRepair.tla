----------------------------- MODULE FontRepair -----------------------------
(***************************************************************************)
(* The font repair adapter.                                                *)
(*                                                                         *)
(* doc.fonts[f] is a font object: identity (a Type0 font with an Identity  *)
(* encoding and a CID descendant), mapped (it has a /ToUnicode), toUnicode *)
(* (the code -> character pairs of that map) and desc, its FontDescriptor  *)
(* (0: none).  doc.descs[d] has an object id (0: a direct object), a CIDSet*)
(* (<<>>: none; else its bytes, each the set of its bits that are set,     *)
(* counted from the high-order one), the number of glyphs of its font      *)
(* program (0: cannot be parsed) and trueType.  A page names its fonts:    *)
(* doc.resources[p][k] is the font of the k-th name, in the order of the   *)
(* names, and two names may stand for one font.  doc.shown[p] has the show *)
(* operations of the page's content stream, each under a name.             *)
(* doc.reads[p][k] is the offset under which what page p shows under name  *)
(* k reads best as English, if it clears the printable and the common-word *)
(* bars (0: none does): the search over offsets itself is left out.        *)
(* doc.mended is what the text and the facts read from it become once the  *)
(* fonts have their maps.                                                  *)
(***************************************************************************)
EXTENDS Integers, Sequences, SequencesExt

CONSTANTS
    MIN_USED_CODES,     \* fewest codes an offset is searched for (8 in the code)
    MaxCharacter        \* the largest character a map can name (0xFFFF in the code)

ASSUME FontAssumption == MIN_USED_CODES \in Nat /\ MaxCharacter \in Nat

IsCandidate(font) == font.identity /\ ~font.mapped

\* The codes page p shows under name k, in the order they are shown.
CodesShown(doc, p, k) ==
    FlattenSeq([i \in 1..Len(doc.shown[p]) |->
                   IF doc.shown[p][i].name = k THEN doc.shown[p][i].codes ELSE <<>>])

BestOffset(doc, p, k) ==
    IF Len(CodesShown(doc, p, k)) < MIN_USED_CODES THEN 0 ELSE doc.reads[p][k]

ToUnicodeMap(codes, offset) ==
    {<<c, c + offset>> : c \in {x \in codes : x + offset \in 0..MaxCharacter}}

\* The names of font f on page p under which its codes can be read, ...
NamesThatRead(doc, p, f) ==
    {k \in DOMAIN doc.resources[p] : /\ doc.resources[p][k] = f
                                     /\ CodesShown(doc, p, k) # <<>>
                                     /\ BestOffset(doc, p, k) # 0}

\* ... and the pages that have such a name.
PagesThatRead(doc, f) == {p \in DOMAIN doc.resources : NamesThatRead(doc, p, f) # {}}

\* A candidate gets its map from the first of those pages, being none on later
\* ones, and under the last of the page's names: each map replaces the one before.
RepairFont(doc, f) ==
    LET p == Min(PagesThatRead(doc, f))
        k == Max(NamesThatRead(doc, p, f))
    IN IF ~IsCandidate(doc.fonts[f]) \/ PagesThatRead(doc, f) = {} THEN doc.fonts[f]
       ELSE [doc.fonts[f] EXCEPT
                !.mapped = TRUE,
                !.toUnicode = ToUnicodeMap(ToSet(CodesShown(doc, p, k)), BestOffset(doc, p, k))]

\* The facts read from the text, and the document with another text.
TEXT_FACTS == {"text", "caps"}
ReadAs(doc, text, facts) ==
    [doc EXCEPT !.text = text, !.facts = (@ \ TEXT_FACTS) \cup facts]

-----------------------------------------------------------------------------
\* CID c is bit c % 8 of byte c \div 8.
Marks(cidset, c) == (c % 8) \in cidset[(c \div 8) + 1]

CidsetCoversAllGlyphs(cidset, glyphs) ==
    /\ Len(cidset) * 8 >= glyphs
    /\ \A c \in 0..(glyphs-1) : Marks(cidset, c)

\* Mutant: the last, partly used byte is left out.
BuildCidsetCut(glyphs) == [i \in 1..(glyphs \div 8) |-> 0..7]

BuildFullCidset(glyphs) ==
    [i \in 1..((glyphs + 7) \div 8) |-> {b \in 0..7 : (i - 1) * 8 + b < glyphs}]

RepairCidset(desc) ==
    IF \/ desc.cidset = <<>> \/ ~desc.trueType \/ desc.glyphs = 0
       \/ CidsetCoversAllGlyphs(desc.cidset, desc.glyphs)
    THEN desc
    ELSE [desc EXCEPT !.cidset = BuildFullCidset(desc.glyphs)]

\* The places where a page's fonts name a descriptor, in the order they are
\* visited; each object id is repaired once, so of the direct ones only the first.
Visited(doc) ==
    UNION {{<<p, i>> : i \in {k \in DOMAIN doc.resources[p] :
                                 doc.fonts[doc.resources[p][k]].desc # 0}} :
           p \in DOMAIN doc.resources}
DescAt(doc, x) == doc.fonts[doc.resources[x[1]][x[2]]].desc
VisitedBefore(x, y) == x[1] < y[1] \/ (x[1] = y[1] /\ x[2] < y[2])
DescsToRepair(doc) ==
    {DescAt(doc, x) : x \in {y \in Visited(doc) : \A z \in Visited(doc) : VisitedBefore(z, y)
                                => doc.descs[DescAt(doc, z)].id # doc.descs[DescAt(doc, y)].id}}

\* A new map changes the text that is extracted.
RepairFonts(doc) ==
    LET fonts == [f \in DOMAIN doc.fonts |-> RepairFont(doc, f)]
        descs == [d \in DOMAIN doc.descs |->
                     IF d \in DescsToRepair(doc) THEN RepairCidset(doc.descs[d])
                     ELSE doc.descs[d]]
        read == IF fonts = doc.fonts THEN doc
                ELSE ReadAs(doc, doc.mended.text, doc.mended.facts)
    IN [read EXCEPT !.fonts = fonts, !.descs = descs]
=============================================================================
