--------------------------- MODULE DocumentProofs ---------------------------
(***************************************************************************)
(* What the repair steps do to a document, for any document, any depth     *)
(* limits and any number of rounds and failures.                           *)
(***************************************************************************)
EXTENDS DocumentSteps, FiniteSetTheorems, FunctionTheorems, WellFoundedInduction, TLAPS

-----------------------------------------------------------------------------
(* Numbers. *)

LEMMA LessRelation == \A x \in Nat, y \in Nat : y < x => <<y, x>> \in OpToRel(<, Nat)
<1> TAKE x \in Nat, y \in Nat
<1> HAVE y < x
<1> DEFINE R == {ss \in Nat \X Nat : ss[1] < ss[2]}
<1>1. <<y, x>> \in R
  OBVIOUS
<1>2. OpToRel(<, Nat) = R
  BY Zenon DEF OpToRel
<1> QED BY <1>1, <1>2, Zenon

\* Every nonempty set of numbers has a least one, ...
LEMMA LeastNumber ==
    ASSUME NEW S, S \subseteq Nat, S # {}
    PROVE  \E x \in S : \A y \in S : x =< y
<1>1. PICK x \in S : \A y \in S : ~(<<y, x>> \in OpToRel(<, Nat))
  BY NatLessThanWellFounded, WFMin, Zenon
<1>2. \A y \in S : ~(y < x)
  <2> TAKE y \in S
  <2>1. x \in Nat /\ y \in Nat
    OBVIOUS
  <2> QED BY <1>1, <2>1, LessRelation, Zenon
<1>3. \A y \in S : x =< y
  BY <1>2
<1> QED BY <1>3, Zenon

LEMMA MinIsLeast ==
    ASSUME NEW S, S \subseteq Nat, S # {}
    PROVE  Min(S) \in S /\ \A y \in S : Min(S) =< y
BY LeastNumber DEF Min

\* ... and, when it is bounded, a greatest one.
LEMMA MaxIsGreatest ==
    ASSUME NEW n \in Nat, NEW S, S \subseteq 0..n, S # {}
    PROVE  Max(S) \in S /\ \A y \in S : y =< Max(S)
<1> DEFINE up == {u \in 0..n : \A y \in S : y =< u}
<1>1. n \in up
  OBVIOUS
<1>2. PICK u \in up : \A v \in up : u =< v
  <2>1. up \subseteq Nat /\ up # {}
    BY <1>1
  <2> HIDE DEF up
  <2> QED BY <2>1, LeastNumber, Zenon
<1>3. u \in S
  <2> SUFFICES ASSUME u \notin S PROVE FALSE
    OBVIOUS
  <2>1. PICK s \in S : TRUE
    OBVIOUS
  <2>2. u \in Nat /\ \A y \in S : y \in Nat /\ y =< u /\ y # u
    OBVIOUS
  <2>3. \A y \in S : y =< u - 1
    BY <2>2
  <2>4. u - 1 \in up
    BY <2>1, <2>2, <2>3
  <2> QED BY <1>2, <2>2, <2>4
<1>4. \A y \in S : y =< u
  OBVIOUS
<1> QED BY <1>3, <1>4 DEF Max

-----------------------------------------------------------------------------
(* The way to a node. *)

\* Every node's parent is an earlier one or the root.
Ordered(nodes) == \A n \in 1..Len(nodes) : nodes[n].parent \in 0..(n-1)

\* The walk up from a node ends: there is a function as PathTo defines it.  The
\* way to n is what every set has that contains n and, of a node, the parent.
LEMMA PathsExist ==
    ASSUME NEW nodes, Len(nodes) \in Nat, Ordered(nodes)
    PROVE  \E f : f = [n \in 0..Len(nodes) |->
                          IF n = 0 THEN {0} ELSE f[nodes[n].parent] \cup {n}]
<1> DEFINE N == 0..Len(nodes)
<1> DEFINE up(n) == nodes[n].parent
<1> DEFINE closed(A) == \A m \in A : m # 0 => up(m) \in A
<1> DEFINE way(n) == {x \in N : \A A \in SUBSET N : closed(A) /\ n \in A => x \in A}
<1> DEFINE f == [n \in N |-> way(n)]
<1>1. \A n \in N : n # 0 => up(n) \in N
  BY DEF Ordered
<1>2. 0 \in N
  OBVIOUS
<1> HIDE DEF N, up
<1>3. way(0) = {0}
  <2>1. {0} \in SUBSET N /\ closed({0})
    BY <1>2, Zenon
  <2> QED BY <1>2, <2>1, Zenon
<1>4. ASSUME NEW n \in N, n # 0 PROVE way(n) = way(up(n)) \cup {n}
  <2>1. up(n) \in N
    BY <1>1, <1>4, Zenon
  <2>2. way(up(n)) \cup {n} \subseteq way(n)
    BY <1>4, Zenon
  <2>3. closed(way(up(n))) /\ up(n) \in way(up(n))
    BY <1>1, <2>1, Zenon
  <2>4. way(up(n)) \cup {n} \in SUBSET N /\ closed(way(up(n)) \cup {n})
    BY <1>4, <2>3, Zenon
  <2> QED BY <2>2, <2>4, Zenon
<1> HIDE DEF way
<1>5. f = [n \in N |-> IF n = 0 THEN {0} ELSE f[up(n)] \cup {n}]
  <2>1. \A n \in N : way(n) = IF n = 0 THEN {0} ELSE f[up(n)] \cup {n}
    BY <1>1, <1>3, <1>4, Zenon
  <2> QED BY <2>1, Zenon
<1> HIDE DEF f
<1> QED BY <1>5, Zenon DEF N, up

LEMMA PathUnfolds ==
    ASSUME NEW nodes, Len(nodes) \in Nat, Ordered(nodes)
    PROVE  /\ PathTo(nodes)[0] = {0}
           /\ \A n \in 1..Len(nodes) :
                 PathTo(nodes)[n] = PathTo(nodes)[nodes[n].parent] \cup {n}
<1> DEFINE path == PathTo(nodes)
<1>1. path = [n \in 0..Len(nodes) |-> IF n = 0 THEN {0} ELSE path[nodes[n].parent] \cup {n}]
  BY PathsExist DEF PathTo
<1> HIDE DEF path
<1>2. 0 \in 0..Len(nodes) /\ \A n \in 1..Len(nodes) : n \in 0..Len(nodes) /\ n # 0
  OBVIOUS
<1>3. path[0] = {0} /\ \A n \in 1..Len(nodes) : path[n] = path[nodes[n].parent] \cup {n}
  BY <1>1, <1>2, Zenon
<1> QED BY <1>3 DEF path

\* The way to a node leads from the root through earlier nodes only.
LEMMA PathsLeadDown ==
    ASSUME NEW nodes, Len(nodes) \in Nat, Ordered(nodes)
    PROVE  \A n \in 0..Len(nodes) : /\ PathTo(nodes)[n] \subseteq 0..n
                                    /\ 0 \in PathTo(nodes)[n] /\ n \in PathTo(nodes)[n]
<1> DEFINE path == PathTo(nodes)
<1> DEFINE good(n) == path[n] \subseteq 0..n /\ 0 \in path[n] /\ n \in path[n]
<1> DEFINE bad == {n \in 0..Len(nodes) : ~good(n)}
<1>1. SUFFICES ASSUME bad # {} PROVE FALSE
  BY Zenon
<1>2. bad \subseteq Nat
  OBVIOUS
<1>3. PICK n \in bad : \A m \in bad : n =< m
  <2> HIDE DEF bad
  <2> QED BY <1>1, <1>2, LeastNumber, Zenon
<1>4. path[0] = {0} /\ \A k \in 1..Len(nodes) : path[k] = path[nodes[k].parent] \cup {k}
  BY PathUnfolds, Zenon
<1> HIDE DEF path
<1>5. n # 0
  BY <1>3, <1>4
<1>6. n \in 1..Len(nodes)
  BY <1>3, <1>5
<1> DEFINE m == nodes[n].parent
<1>7. m \in 0..(n-1) /\ m \in 0..Len(nodes)
  BY <1>6 DEF Ordered
<1>8. good(m)
  <2>1. ~(n =< m)
    BY <1>6, <1>7
  <2> QED BY <1>3, <1>7, <2>1, Zenon
<1>9. path[n] = path[m] \cup {n}
  BY <1>4, <1>6
<1> HIDE DEF m
<1>10. good(n)
  BY <1>6, <1>7, <1>8, <1>9
<1> QED BY <1>3, <1>10, Zenon

\* The ways to the nodes of a tree are not changed by what is added behind them,
\* nor by what is written into them.
LEMMA PathsStay ==
    ASSUME NEW a, NEW b, Len(a) \in Nat, Len(b) \in Nat, Ordered(a), Ordered(b),
           Len(a) =< Len(b), \A n \in 1..Len(a) : a[n].parent = b[n].parent
    PROVE  \A n \in 0..Len(a) : PathTo(a)[n] = PathTo(b)[n]
<1> DEFINE pa == PathTo(a)
<1> DEFINE pb == PathTo(b)
<1> DEFINE bad == {n \in 0..Len(a) : pa[n] # pb[n]}
<1>1. SUFFICES ASSUME bad # {} PROVE FALSE
  BY Zenon
<1>2. bad \subseteq Nat
  OBVIOUS
<1>3. PICK n \in bad : \A m \in bad : n =< m
  <2> HIDE DEF bad
  <2> QED BY <1>1, <1>2, LeastNumber, Zenon
<1>4. /\ pa[0] = {0} /\ \A k \in 1..Len(a) : pa[k] = pa[a[k].parent] \cup {k}
      /\ pb[0] = {0} /\ \A k \in 1..Len(b) : pb[k] = pb[b[k].parent] \cup {k}
  BY PathUnfolds, Zenon
<1> HIDE DEF pa, pb
<1>5. n # 0
  BY <1>3, <1>4
<1>6. n \in 1..Len(a) /\ n \in 1..Len(b)
  BY <1>3, <1>5
<1> DEFINE m == a[n].parent
<1>7. m \in 0..(n-1) /\ m \in 0..Len(a) /\ m = b[n].parent
  BY <1>6 DEF Ordered
<1>8. pa[m] = pb[m]
  <2>1. ~(n =< m)
    BY <1>6, <1>7
  <2> QED BY <1>3, <1>7, <2>1, Zenon
<1>9. pa[n] = pa[m] \cup {n} /\ pb[n] = pb[m] \cup {n}
  BY <1>4, <1>6, <1>7
<1> QED BY <1>3, <1>8, <1>9, Zenon

-----------------------------------------------------------------------------
(* Documents. *)

Alts == AUTHORED \cup {<<"page", p>> : p \in Nat} \cup {<<"image", r[1], r[2]>> : r \in Nat \X Nat}
Tags == STRING \cup {"Link", "OBJR"}
Node == [parent : Nat, tag : Tags, pg : Nat, alt : Alts, obj : Nat, kids : KFORMS]
Annot == [page : Nat, sub : STRING, id : Nat]
FIELDS == {"tree", "nodes", "annots", "images", "text", "meta", "facts", "mended", "fonts",
           "descs", "resources", "shown", "reads"}

\* What a document is at any time; what is said of its fonts stands further below.
Sound(d) ==
    /\ d = [k \in FIELDS |-> d[k]]
    /\ d.tree \in BOOLEAN /\ d.nodes \in Seq(Node) /\ d.annots \in Seq(Annot)
    /\ d.images \in Seq(Seq(STRING))
    /\ d.meta \subseteq METADATA /\ d.facts \subseteq FACTS
    /\ d.mended.facts \subseteq TEXT_FACTS
    /\ IsTree(d)
    /\ \A i \in DOMAIN d.annots : d.annots[i].page \in Pages(d)

LEMMA SoundTree ==
    ASSUME NEW d, Sound(d)
    PROVE  /\ Len(d.nodes) \in Nat /\ Elements(d) = 1..Len(d.nodes)
           /\ Len(d.images) \in Nat /\ Pages(d) = 1..Len(d.images)
           /\ Ordered(d.nodes)
           /\ \A n \in Elements(d) : d.nodes[n] \in Node
<1>1. d.nodes \in Seq(Node) /\ d.images \in Seq(Seq(STRING)) /\ InDocumentOrder(d.nodes)
  BY Zenon DEF Sound, IsTree
<1>2. DOMAIN d.nodes = 1..Len(d.nodes) /\ DOMAIN d.images = 1..Len(d.images)
      /\ Len(d.nodes) \in Nat /\ Len(d.images) \in Nat
  BY <1>1
<1>3. \A n \in DOMAIN d.nodes : d.nodes[n] \in Node
  BY <1>1
<1>4. Ordered(d.nodes)
  BY <1>1, <1>2, Zenon DEF InDocumentOrder, Ordered
<1> QED BY <1>2, <1>3, <1>4, Zenon DEF Elements, Pages

\* The way to a node, for a document.
LEMMA SoundPaths ==
    ASSUME NEW d, Sound(d), NEW n \in Elements(d)
    PROVE  /\ n \in Nat \ {0} /\ d.nodes[n].parent \in 0..(n-1)
           /\ PathTo(d.nodes)[n] = PathTo(d.nodes)[d.nodes[n].parent] \cup {n}
           /\ PathTo(d.nodes)[n] \subseteq 0..n
           /\ 0 \in PathTo(d.nodes)[n] /\ n \in PathTo(d.nodes)[n]
<1>1. Len(d.nodes) \in Nat /\ n \in 1..Len(d.nodes) /\ Ordered(d.nodes)
  BY SoundTree, Zenon
<1>2. n \in Nat \ {0} /\ n \in 0..Len(d.nodes)
  BY <1>1
<1>3. d.nodes[n].parent \in 0..(n-1)
  BY <1>1, Zenon DEF Ordered
<1> QED BY <1>1, <1>2, <1>3, PathUnfolds, PathsLeadDown, Zenon

-----------------------------------------------------------------------------
(* The walks agree. *)

\* The report and the alt text step see a figure on the same page.
LEMMA SamePage ==
    ASSUME NEW d, Sound(d), NEW n \in Elements(d), PgRef(d, n) \in Pages(d)
    PROVE  ReportPage(d, n) = PgRef(d, n)
<1> DEFINE way == PathTo(d.nodes)[n] \ {0}
<1> DEFINE pg(m) == d.nodes[m].pg
<1> DEFINE named == {m \in way : pg(m) # 0}
<1> DEFINE known == {m \in way : pg(m) \in Pages(d)}
<1>1. n \in Nat /\ way \subseteq 0..n
  BY SoundPaths
<1>2. 0 \notin Pages(d)
  BY SoundTree
<1>3. PgRef(d, n) = IF named = {} THEN 0 ELSE pg(Max(named))
  BY DEF PgRef
<1>4. ReportPage(d, n) = IF known = {} THEN 0 ELSE pg(Max(known))
  BY DEF ReportPage
<1> HIDE DEF way, pg
<1>5. known \subseteq named
  BY <1>2, Zenon
<1>6. named # {}
  BY <1>2, <1>3
<1>7. named \subseteq 0..n /\ known \subseteq 0..n
  BY <1>1
<1>8. Max(named) \in named /\ \A y \in named : y =< Max(named)
  <2> HIDE DEF named, known
  <2> QED BY <1>1, <1>6, <1>7, MaxIsGreatest
<1>9. Max(named) \in known
  BY <1>3, <1>6, <1>8
<1>10. Max(known) \in known /\ \A y \in known : y =< Max(known)
  <2> HIDE DEF named, known
  <2> QED BY <1>1, <1>7, <1>9, MaxIsGreatest
<1> HIDE DEF named, known
<1>11. Max(known) = Max(named)
  <2>1. Max(known) \in 0..n /\ Max(named) \in 0..n
    BY <1>7, <1>8, <1>10
  <2>2. Max(known) =< Max(named) /\ Max(named) =< Max(known)
    BY <1>5, <1>8, <1>9, <1>10, Zenon
  <2> QED BY <2>1, <2>2
<1> QED BY <1>3, <1>4, <1>6, <1>9, <1>11, Zenon

LEMMA CandidatesReported ==
    ASSUME NEW d, Sound(d), NEW n \in Figures(d)
    PROVE  /\ n \in Undescribed(d) \cup Placeholders(d)
           /\ ReportPage(d, n) = PgRef(d, n)
<1>1. /\ n \in Elements(d) /\ d.nodes[n].tag = "Figure" /\ NeedsAlt(d.nodes[n].alt)
      /\ PgRef(d, n) \in Pages(d)
  BY Zenon DEF Figures
<1>2. ReportPage(d, n) = PgRef(d, n)
  BY <1>1, SamePage, Zenon
<1>3. ReportPage(d, n) # 0
  BY <1>1, <1>2, SoundTree
<1>4. n \in WithTag(d, {"Figure"})
  BY <1>1, <1>3 DEF WithTag, Counted
<1> QED BY <1>1, <1>2, <1>4, Zenon DEF Undescribed, Placeholders, NeedsAlt

\* What hangs below a kid of a node hangs below the node.
LEMMA KidsAreBelow ==
    ASSUME NEW d, Sound(d), NEW n \in Elements(d), NEW m \in Kids(d, n)
    PROVE  /\ m \in Elements(d) /\ n \in PathTo(d.nodes)[m]
           /\ \A x \in PathTo(d.nodes)[n] : x \in PathTo(d.nodes)[m]
<1>1. m \in Elements(d) /\ d.nodes[m].parent = n
  BY Zenon DEF Kids
<1>2. PathTo(d.nodes)[m] = PathTo(d.nodes)[n] \cup {m}
  BY <1>1, SoundPaths
<1>3. n \in PathTo(d.nodes)[n]
  BY SoundPaths
<1> QED BY <1>1, <1>2, <1>3, Zenon

LEMMA HeaderlessScored ==
    ASSUME NEW d, Sound(d), NEW n \in Headerless(d), Depth(d, n) =< SCORE_DEPTH,
           Cardinality(TableRows(d, n)) >= 2, d.nodes[FirstRow(d, n)].kids # "mixed"
    PROVE  n \in TablesWithoutHeaders(d)
<1> DEFINE rows == TableRows(d, n)
<1> DEFINE path == PathTo(d.nodes)
<1>1. /\ n \in Elements(d) /\ d.nodes[n].tag = "Table"
      /\ \A m \in Below(d, n) : d.nodes[m].tag # "TH"
  BY Zenon DEF Headerless, WithTag, Counted
<1>2. rows # {}
  BY FS_EmptySet
<1>3. \A r \in rows : r \in Elements(d) /\ n \in path[r]
  <2> TAKE r \in rows
  <2>1. CASE r \in ArrayKids(d, n)
    <3>1. r \in Kids(d, n)
      BY <2>1 DEF ArrayKids
    <3> QED BY <1>1, <3>1, KidsAreBelow, Zenon
  <2>2. CASE \E g \in ArrayKids(d, n) : r \in ArrayKids(d, g)
    <3>1. PICK g \in ArrayKids(d, n) : r \in ArrayKids(d, g)
      BY <2>2
    <3>2. g \in Kids(d, n) /\ r \in Kids(d, g)
      BY <3>1 DEF ArrayKids
    <3>3. g \in Elements(d) /\ n \in path[g]
      BY <1>1, <3>2, KidsAreBelow, Zenon
    <3> QED BY <3>2, <3>3, KidsAreBelow, Zenon
  <2> QED BY <2>1, <2>2, Zenon DEF TableRows
<1>4. rows \subseteq Nat
  <2>1. Elements(d) \subseteq Nat
    BY SoundTree
  <2> QED BY <1>3, <2>1, Zenon
<1> HIDE DEF rows
<1>5. Min(rows) \in rows
  BY <1>2, <1>4, MinIsLeast, Zenon
<1>6. \A m \in ArrayKids(d, Min(rows)) : d.nodes[m].tag # "TH"
  <2> TAKE m \in ArrayKids(d, Min(rows))
  <2>1. m \in Kids(d, Min(rows))
    BY DEF ArrayKids
  <2>2. m \in Elements(d) /\ n \in path[m]
    BY <1>3, <1>5, <2>1, KidsAreBelow, Zenon
  <2> QED BY <1>1, <2>2, Zenon DEF Below
<1> QED BY <1>1, <1>6, Zenon DEF TablesWithoutHeaders, Walked, LacksHeader, FirstRow, rows

-----------------------------------------------------------------------------
(* Sets in ascending order. *)

LEMMA SubsetCounts ==
    ASSUME NEW n \in Nat, NEW S, S \subseteq 0..n
    PROVE  /\ IsFiniteSet(S) /\ Cardinality(S) \in Nat
           /\ \A T \in SUBSET S : /\ IsFiniteSet(T) /\ Cardinality(T) \in Nat
                                  /\ Cardinality(T) =< Cardinality(S)
                                  /\ Cardinality(T) = Cardinality(S) => T = S
<1>1. IsFiniteSet(0..n)
  BY FS_Interval
<1>2. S \in SUBSET (0..n)
  OBVIOUS
<1>3. IsFiniteSet(S)
  BY <1>1, <1>2, FS_Subset, Zenon
<1> QED BY <1>3, FS_Subset, FS_CardinalityType

\* A set in ascending order has each of its members once.
LEMMA AscendingOnce ==
    ASSUME NEW n \in Nat, NEW S, S \subseteq 0..n
    PROVE  /\ Cardinality(S) \in Nat
           /\ Ascending(S) \in [1..Cardinality(S) -> S]
           /\ \A x \in S : \E k \in 1..Cardinality(S) : Ascending(S)[k] = x
           /\ \A j, k \in 1..Cardinality(S) : Ascending(S)[j] = Ascending(S)[k] => j = k
<1> DEFINE C == Cardinality(S)
<1> DEFINE upto(x) == {y \in S : y =< x}
<1> DEFINE rank == [x \in S |-> Cardinality(upto(x))]
<1>1. IsFiniteSet(S) /\ C \in Nat
  BY SubsetCounts, Zenon
<1>2. ASSUME NEW x \in S, NEW y \in S, x < y
      PROVE  Cardinality(upto(x)) # Cardinality(upto(y))
  <2>1. x \in Nat /\ y \in Nat /\ \A z \in S : z \in Nat
    OBVIOUS
  <2>2. upto(x) \subseteq upto(y) /\ y \in upto(y) /\ y \notin upto(x)
    <3>1. y =< y /\ ~(y =< x) /\ \A z \in S : z =< x => z =< y
      BY <1>2, <2>1
    <3> QED BY <3>1, Zenon
  <2>3. upto(y) \subseteq 0..n
    OBVIOUS
  <2> HIDE DEF upto
  <2> QED BY <2>2, <2>3, SubsetCounts
<1>3. \A x \in S : Cardinality(upto(x)) \in 1..C
  <2> TAKE x \in S
  <2>1. x \in upto(x) /\ upto(x) \subseteq S
    OBVIOUS
  <2> HIDE DEF upto
  <2>2. Cardinality(upto(x)) \in Nat /\ Cardinality(upto(x)) =< C /\ IsFiniteSet(upto(x))
    BY <2>1, SubsetCounts, Zenon
  <2>3. Cardinality(upto(x)) # 0
    BY <2>1, <2>2, FS_EmptySet
  <2> QED BY <1>1, <2>2, <2>3
<1>4. \A x, y \in S : Cardinality(upto(x)) = Cardinality(upto(y)) => x = y
  <2> TAKE x, y \in S
  <2>1. x \in Nat /\ y \in Nat
    OBVIOUS
  <2>2. x < y \/ y < x \/ x = y
    BY <2>1
  <2> HIDE DEF upto
  <2> QED BY <1>2, <2>2, Zenon
<1> HIDE DEF upto
<1>5. rank \in [S -> 1..C]
  BY <1>3
<1>6. rank \in Injection(S, 1..C)
  BY <1>4, <1>5, Fun_IsInj
<1>7. IsFiniteSet(1..C) /\ Cardinality(1..C) = C
  BY <1>1, FS_Interval
<1>8. rank \in Surjection(S, 1..C)
  BY <1>6, <1>7, FS_Injection
<1>9. \A k \in 1..C : \E x \in S : Cardinality(upto(x)) = k
  <2>1. \A k \in 1..C : \E x \in S : rank[x] = k
    <3> HIDE DEF rank, C
    <3> QED BY <1>8, Fun_SurjectionProperties
  <2> QED BY <2>1, Zenon
<1>10. Ascending(S) = [k \in 1..C |-> CHOOSE x \in S : Cardinality(upto(x)) = k]
  BY Zenon DEF Ascending, upto
<1> HIDE DEF C, rank
<1>11. \A k \in 1..C : Ascending(S)[k] \in S /\ Cardinality(upto(Ascending(S)[k])) = k
  <2> TAKE k \in 1..C
  <2>1. Ascending(S)[k] = CHOOSE x \in S : Cardinality(upto(x)) = k
    BY <1>10
  <2> QED BY <1>9, <2>1
<1>12. Ascending(S) \in [1..C -> S]
  BY <1>10, <1>11
<1>13. \A x \in S : \E k \in 1..C : Ascending(S)[k] = x
  <2> TAKE x \in S
  <2>1. Cardinality(upto(x)) \in 1..C
    BY <1>3
  <2>2. Ascending(S)[Cardinality(upto(x))] = x
    BY <1>4, <1>11, <2>1, Zenon
  <2> QED BY <2>1, <2>2, Zenon
<1>14. \A j, k \in 1..C : Ascending(S)[j] = Ascending(S)[k] => j = k
  BY <1>11, Zenon
<1> QED BY <1>1, <1>12, <1>13, <1>14, Zenon DEF C

-----------------------------------------------------------------------------
(* What a step writes. *)

\* One field of a document is replaced, the others stay.
LEMMA OneFieldWritten ==
    ASSUME NEW d, d = [k \in FIELDS |-> d[k]], NEW f \in FIELDS, NEW x
    PROVE  /\ [d EXCEPT ![f] = x] = [k \in FIELDS |-> [d EXCEPT ![f] = x][k]]
           /\ [d EXCEPT ![f] = x][f] = x
           /\ \A k \in FIELDS : k # f => [d EXCEPT ![f] = x][k] = d[k]
<1> HIDE DEF FIELDS
<1>1. DOMAIN d = FIELDS
  OBVIOUS
<1> QED BY <1>1

\* What IsTree says depends on the tree, its nodes and the number of pages.
LEMMA SameTree ==
    ASSUME NEW d, NEW e, e.nodes = d.nodes, e.tree = d.tree, e.images = d.images, IsTree(d)
    PROVE  IsTree(e)
BY Zenon DEF IsTree, Elements

Grown(a, b) ==
    /\ Len(a.nodes) =< Len(b.nodes)
    /\ \A n \in Elements(a) : /\ b.nodes[n].parent = a.nodes[n].parent
                              /\ b.nodes[n].tag = a.nodes[n].tag
                              /\ b.nodes[n].pg = a.nodes[n].pg
                              /\ b.nodes[n].obj = a.nodes[n].obj
                              /\ b.nodes[n].kids = a.nodes[n].kids
    /\ \A n \in Elements(b) \ Elements(a) : b.nodes[n].tag \in {"Link", "OBJR"}

\* In a tree that has grown every old node has its way, its depth and its page.
LEMMA GrownKeeps ==
    ASSUME NEW a, NEW b, Sound(a), Sound(b), Grown(a, b), NEW n \in Elements(a)
    PROVE  /\ n \in Elements(b) /\ PathTo(a.nodes)[n] = PathTo(b.nodes)[n]
           /\ Depth(a, n) = Depth(b, n) /\ PgRef(a, n) = PgRef(b, n)
<1>1. /\ Len(a.nodes) \in Nat /\ Elements(a) = 1..Len(a.nodes) /\ Ordered(a.nodes)
      /\ Len(b.nodes) \in Nat /\ Elements(b) = 1..Len(b.nodes) /\ Ordered(b.nodes)
  BY SoundTree, Zenon
<1>2. /\ Len(a.nodes) =< Len(b.nodes)
      /\ \A m \in Elements(a) : a.nodes[m].parent = b.nodes[m].parent
      /\ \A m \in Elements(a) : a.nodes[m].pg = b.nodes[m].pg
  BY Zenon DEF Grown
<1>3. \A m \in 0..Len(a.nodes) : PathTo(a.nodes)[m] = PathTo(b.nodes)[m]
  <2>1. \A m \in 1..Len(a.nodes) : a.nodes[m].parent = b.nodes[m].parent
    BY <1>1, <1>2
  <2> QED BY <1>1, <1>2, <2>1, PathsStay
<1>4. n \in Elements(b) /\ n \in 0..Len(a.nodes)
  BY <1>1, <1>2
<1>5. PathTo(a.nodes)[n] = PathTo(b.nodes)[n]
  BY <1>3, <1>4
<1>6. Depth(a, n) = Depth(b, n)
  BY <1>5, Zenon DEF Depth
<1>7. PgRef(a, n) = PgRef(b, n)
  <2> DEFINE way == PathTo(a.nodes)[n] \ {0}
  <2> DEFINE ma == {m \in way : a.nodes[m].pg # 0}
  <2> DEFINE mb == {m \in way : b.nodes[m].pg # 0}
  <2>1. way \subseteq Elements(a)
    <3>1. PathTo(a.nodes)[n] \subseteq 0..n /\ n \in 1..Len(a.nodes)
      BY <1>1, SoundPaths, Zenon
    <3> QED BY <1>1, <3>1
  <2>2. ma = mb
    BY <1>2, <2>1, Zenon
  <2>3. PgRef(a, n) = IF ma = {} THEN 0 ELSE a.nodes[Max(ma)].pg
    BY Zenon DEF PgRef
  <2>4. PgRef(b, n) = IF mb = {} THEN 0 ELSE b.nodes[Max(mb)].pg
    BY <1>5, Zenon DEF PgRef
  <2>5. ma # {} => Max(ma) \in Elements(a)
    <3>1. n \in Nat /\ ma \subseteq 0..n
      BY <1>1, SoundPaths
    <3>2. ma \subseteq Elements(a)
      BY <2>1, Zenon
    <3> HIDE DEF ma
    <3>3. ma # {} => Max(ma) \in ma
      BY <3>1, MaxIsGreatest, Zenon
    <3> QED BY <3>2, <3>3, Zenon
  <2> HIDE DEF ma, mb
  <2>6. CASE ma = {}
    BY <2>2, <2>3, <2>4, <2>6
  <2>7. CASE ma # {}
    <3>1. a.nodes[Max(ma)].pg = b.nodes[Max(ma)].pg
      BY <1>2, <2>5, <2>7
    <3> QED BY <2>2, <2>3, <2>4, <2>7, <3>1
  <2> QED BY <2>6, <2>7
<1> QED BY <1>4, <1>5, <1>6, <1>7, Zenon

LEMMA FunctionIsSequence ==
    ASSUME NEW S, NEW n \in Nat, NEW f \in [1..n -> S]
    PROVE  f \in Seq(S) /\ Len(f) = n
OBVIOUS

LEMMA Concatenation ==
    ASSUME NEW T, NEW s \in Seq(T), NEW t \in Seq(T)
    PROVE  /\ s \o t \in Seq(T) /\ Len(s \o t) = Len(s) + Len(t)
           /\ \A i \in 1..Len(s) : (s \o t)[i] = s[i]
           /\ \A i \in 1..Len(t) : (s \o t)[Len(s) + i] = t[i]
OBVIOUS

LEMMA NodeRecord ==
    ASSUME NEW parent \in Nat, NEW tag \in Tags, NEW pg \in Nat, NEW alt \in Alts,
           NEW obj \in Nat, NEW kids \in KFORMS
    PROVE  [parent |-> parent, tag |-> tag, pg |-> pg, alt |-> alt, obj |-> obj,
            kids |-> kids] \in Node
BY DEF Node

\* The elements the link step adds, for the k-th annotation at position i.
LinkElement(d, i) ==
    [parent |-> 0, tag |-> "Link", pg |-> d.annots[i].page, alt |-> Blank, obj |-> 0,
     kids |-> "array"]
ObjrElement(d, i, link) ==
    [parent |-> link, tag |-> "OBJR", pg |-> d.annots[i].page, alt |-> Blank,
     obj |-> d.annots[i].id, kids |-> "array"]

\* e is d with the elements for the annotations new[1], ..., new[L].
LinksAdded(d, e, base, L, new) ==
    /\ L \in Nat /\ base \in Nat
    /\ e = [k \in FIELDS |-> e[k]] /\ \A k \in FIELDS : k # "nodes" => e[k] = d[k]
    /\ e.nodes \in Seq(Node) /\ Len(e.nodes) = base + 2 * L
    /\ \A n \in 1..base : e.nodes[n] = d.nodes[n]
    /\ \A j \in 1..L :
          /\ new[j] \in Untagged(d)
          /\ e.nodes[base + 2 * j - 1] = LinkElement(d, new[j])
          /\ e.nodes[base + 2 * j] = ObjrElement(d, new[j], base + 2 * j - 1)

LEMMA LinksWritten ==
    ASSUME NEW d, Sound(d), d.tree = TRUE,
           NEW e, e = WithLinks(d), NEW base, base = Len(d.nodes),
           NEW L, L = Cardinality(Untagged(d)), NEW new, new = Ascending(Untagged(d))
    PROVE  LinksAdded(d, e, base, L, new)
<1> DEFINE elem(k) == IF k % 2 = 1 THEN LinkElement(d, new[(k + 1) \div 2])
                      ELSE ObjrElement(d, new[(k + 1) \div 2], base + k - 1)
<1> DEFINE tail == [k \in 1..(2 * L) |-> elem(k)]
<1>1. Untagged(d) \subseteq 0..Len(d.annots) /\ Len(d.annots) \in Nat
  BY DEF Untagged, Sound
<1>2. L \in Nat /\ new \in [1..L -> Untagged(d)]
  BY <1>1, AscendingOnce
<1>3. Len(new) = L
  BY <1>2, FunctionIsSequence
<1>4. base \in Nat /\ d.nodes \in Seq(Node) /\ d = [k \in FIELDS |-> d[k]]
  BY DEF Sound
<1>5. e = [d EXCEPT !.nodes = d.nodes \o tail]
  BY <1>3 DEF WithLinks, LinkElement, ObjrElement
<1>6. /\ e = [k \in FIELDS |-> e[k]] /\ e.nodes = d.nodes \o tail
      /\ \A k \in FIELDS : k # "nodes" => e[k] = d[k]
  BY <1>4, <1>5, OneFieldWritten DEF FIELDS
<1>7. \A i \in Untagged(d) : d.annots[i].page \in Nat /\ d.annots[i].id \in Nat
  <2>1. d.annots \in Seq(Annot)
    BY Zenon DEF Sound
  <2>2. \A i \in DOMAIN d.annots : d.annots[i] \in Annot
    BY <2>1
  <2>3. Untagged(d) \subseteq DOMAIN d.annots
    BY Zenon DEF Untagged
  <2> QED BY <2>2, <2>3 DEF Annot
<1>8. \A k \in 1..(2 * L) : elem(k) \in Node
  <2> TAKE k \in 1..(2 * L)
  <2> DEFINE j == (k + 1) \div 2
  <2>1. j \in 1..L /\ base + k - 1 \in Nat
    BY <1>2, <1>4
  <2> HIDE DEF j
  <2>2. new[j] \in Untagged(d)
    BY <1>2, <2>1
  <2>3. Blank \in Alts
    BY DEF Alts, AUTHORED
  <2>4. LinkElement(d, new[j]) \in Node /\ ObjrElement(d, new[j], base + k - 1) \in Node
    <3>1. 0 \in Nat
      OBVIOUS
    <3>2. "Link" \in Tags /\ "OBJR" \in Tags /\ "array" \in KFORMS
      BY Zenon DEF Tags, KFORMS
    <3> QED BY <1>7, <2>1, <2>2, <2>3, <3>1, <3>2, NodeRecord, Zenon DEF LinkElement, ObjrElement
  <2> QED BY <2>4 DEF j
<1>9. \A j \in 1..L : elem(2 * j - 1) = LinkElement(d, new[j])
                        /\ elem(2 * j) = ObjrElement(d, new[j], base + 2 * j - 1)
  <2> TAKE j \in 1..L
  <2>1. (2 * j - 1) % 2 = 1 /\ (2 * j) % 2 # 1
    BY <1>2
  <2>2. ((2 * j - 1) + 1) \div 2 = j /\ ((2 * j) + 1) \div 2 = j
    BY <1>2
  <2> QED BY <2>1, <2>2, Zenon
<1> HIDE DEF elem
<1>10. tail \in Seq(Node) /\ Len(tail) = 2 * L
  <2>1. tail \in [1..(2 * L) -> Node] /\ 2 * L \in Nat
    BY <1>2, <1>8
  <2> HIDE DEF tail
  <2> QED BY <2>1, FunctionIsSequence
<1>11. \A k \in 1..(2 * L) : tail[k] = elem(k)
  OBVIOUS
<1> HIDE DEF tail
<1> DEFINE nodes == d.nodes
<1> HIDE DEF nodes
<1>12. nodes \in Seq(Node) /\ Len(nodes) = base /\ e.nodes = nodes \o tail
  BY <1>4, <1>6 DEF nodes
<1>13. /\ nodes \o tail \in Seq(Node) /\ Len(nodes \o tail) = Len(nodes) + Len(tail)
       /\ \A i \in 1..Len(nodes) : (nodes \o tail)[i] = nodes[i]
       /\ \A i \in 1..Len(tail) : (nodes \o tail)[Len(nodes) + i] = tail[i]
  <2>1. nodes \in Seq(Node) /\ tail \in Seq(Node)
    BY <1>10, <1>12, Zenon
  <2> QED BY <2>1, Concatenation
<1>14. /\ e.nodes \in Seq(Node) /\ Len(e.nodes) = base + 2 * L
       /\ \A n \in 1..base : e.nodes[n] = nodes[n]
  BY <1>10, <1>12, <1>13, Zenon
<1>15. \A k \in 1..(2 * L) : e.nodes[base + k] = tail[k]
  BY <1>10, <1>12, <1>13, Zenon
<1>16. ASSUME NEW j \in 1..L
       PROVE  /\ new[j] \in Untagged(d)
              /\ e.nodes[base + 2 * j - 1] = LinkElement(d, new[j])
              /\ e.nodes[base + 2 * j] = ObjrElement(d, new[j], base + 2 * j - 1)
  <2>1. 2 * j - 1 \in 1..(2 * L) /\ 2 * j \in 1..(2 * L)
    BY <1>2
  <2>2. base + (2 * j - 1) = base + 2 * j - 1
    BY <1>2, <1>4
  <2>3. new[j] \in Untagged(d)
    BY <1>2
  <2> QED BY <1>9, <1>11, <1>15, <2>1, <2>2, <2>3
<1> QED BY <1>2, <1>4, <1>6, <1>14, <1>16 DEF nodes, LinksAdded

LEMMA AppendedPlaces ==
    ASSUME NEW base \in Nat, NEW L \in Nat, NEW n \in 1..(base + 2 * L)
    PROVE  n \in 1..base \/ \E j \in 1..L : n = base + 2 * j - 1 \/ n = base + 2 * j
<1>1. CASE n > base
  <2> DEFINE j == (n - base + 1) \div 2
  <2>1. j \in 1..L
    BY <1>1
  <2>2. n = base + 2 * j - 1 \/ n = base + 2 * j
    BY <1>1
  <2> QED BY <2>1, <2>2, Zenon
<1> QED BY <1>1

\* The link step leaves a sound document whose old nodes are as they were.
LEMMA LinksSound ==
    ASSUME NEW d, Sound(d), NEW e, e = WithLinks(d)
    PROVE  /\ Sound(e) /\ Grown(d, e) /\ \A k \in FIELDS : k # "nodes" => e[k] = d[k]
           /\ \A n \in Elements(d) : e.nodes[n] = d.nodes[n]
<1>1. CASE ~d.tree
  <2>1. e = d
    BY <1>1 DEF WithLinks
  <2>2. Grown(d, d)
    BY SoundTree DEF Grown
  <2> QED BY <2>1, <2>2
<1>2. CASE d.tree
  <2> DEFINE base == Len(d.nodes)
  <2> DEFINE L == Cardinality(Untagged(d))
  <2> DEFINE new == Ascending(Untagged(d))
  <2>0. base = Len(d.nodes) /\ L = Cardinality(Untagged(d)) /\ new = Ascending(Untagged(d))
    BY Zenon
  <2> HIDE DEF base, L, new
  <2>1. /\ L \in Nat /\ base \in Nat
        /\ e = [k \in FIELDS |-> e[k]] /\ \A k \in FIELDS : k # "nodes" => e[k] = d[k]
        /\ e.nodes \in Seq(Node) /\ Len(e.nodes) = base + 2 * L
        /\ \A n \in 1..base : e.nodes[n] = d.nodes[n]
        /\ \A j \in 1..L :
              /\ new[j] \in Untagged(d)
              /\ e.nodes[base + 2 * j - 1] = LinkElement(d, new[j])
              /\ e.nodes[base + 2 * j] = ObjrElement(d, new[j], base + 2 * j - 1)
    <3>1. d.tree = TRUE
      BY <1>2, Zenon DEF Sound
    <3>2. LinksAdded(d, e, base, L, new)
      BY <2>0, <3>1, LinksWritten, Zenon
    <3> QED BY <3>2, Zenon DEF LinksAdded
  <2>2. Elements(d) = 1..base /\ Ordered(d.nodes) /\ Pages(d) = 1..Len(d.images)
        /\ Len(d.images) \in Nat
    BY <2>0, SoundTree, Zenon
  <2> DEFINE N == base + 2 * L
  <2>3. Elements(e) = 1..N /\ N \in Nat /\ base =< N
    BY <2>1 DEF Elements
  <2>4. \A n \in 1..N : n \in 1..base \/ \E j \in 1..L : n = base + 2 * j - 1 \/ n = base + 2 * j
    BY <2>1, AppendedPlaces
  <2>5. \A i \in Untagged(d) : d.annots[i].page \in 1..Len(d.images)
    BY <2>2, Zenon DEF Sound, Untagged
  <2>6. ASSUME NEW n \in 1..N, n \notin 1..base
        PROVE  /\ e.nodes[n].tag \in {"Link", "OBJR"} /\ e.nodes[n].pg \in 1..Len(d.images)
               /\ e.nodes[n].parent \in {0, n - 1}
               /\ e.nodes[n].tag = "OBJR" => /\ e.nodes[n].parent = n - 1 /\ n - 1 # 0
                                             /\ e.nodes[n - 1].tag = "Link"
    <3>1. PICK j \in 1..L : n = base + 2 * j - 1 \/ n = base + 2 * j
      BY <2>4, <2>6
    <3>2. CASE n = base + 2 * j - 1
      <4>1. e.nodes[n] = LinkElement(d, new[j]) /\ new[j] \in Untagged(d)
        BY <2>1, <3>2
      <4> QED BY <2>5, <4>1 DEF LinkElement
    <3>3. CASE n = base + 2 * j
      <4>1. e.nodes[n] = ObjrElement(d, new[j], base + 2 * j - 1) /\ new[j] \in Untagged(d)
        BY <2>1, <3>3
      <4>2. e.nodes[base + 2 * j - 1] = LinkElement(d, new[j])
        BY <2>1
      <4>3. base + 2 * j - 1 = n - 1 /\ n - 1 # 0
        BY <2>1, <3>3
      <4> QED BY <2>5, <4>1, <4>2, <4>3 DEF LinkElement, ObjrElement
    <3> QED BY <3>1, <3>2, <3>3
  <2> HIDE DEF N
  <2>7. Ordered(e.nodes) /\ Len(e.nodes) = N
    <3>1. Len(e.nodes) = N
      BY <2>1 DEF N
    <3>2. ASSUME NEW n \in 1..N PROVE e.nodes[n].parent \in 0..(n - 1)
      <4>1. CASE n \in 1..base
        BY <2>1, <2>2, <4>1 DEF Ordered, base
      <4>2. CASE n \notin 1..base
        BY <2>3, <2>6, <4>2
      <4> QED BY <4>1, <4>2
    <3> QED BY <3>1, <3>2 DEF Ordered
  <2>8. Grown(d, e)
    <3>1. Len(d.nodes) =< Len(e.nodes)
      BY <2>3, <2>7 DEF base
    <3>2. \A n \in Elements(d) : e.nodes[n] = d.nodes[n]
      BY <2>1, <2>2, Zenon
    <3> QED BY <2>2, <2>3, <2>6, <3>1, <3>2, Zenon DEF Grown
  <2>9. IsTree(d) /\ e.tree = d.tree /\ e.images = d.images
    BY <2>1 DEF Sound, FIELDS
  <2>10. InDocumentOrder(e.nodes)
    <3>1. \A m \in 0..base : PathTo(d.nodes)[m] = PathTo(e.nodes)[m]
      <4>1. \A n \in 1..Len(d.nodes) : d.nodes[n].parent = e.nodes[n].parent
        BY <2>1 DEF base
      <4>2. Len(d.nodes) \in Nat /\ Len(e.nodes) \in Nat /\ Len(d.nodes) =< Len(e.nodes)
        BY <2>1, <2>3, <2>7 DEF base
      <4>3. \A m \in 0..Len(d.nodes) : PathTo(d.nodes)[m] = PathTo(e.nodes)[m]
        BY <2>2, <2>7, <4>1, <4>2, PathsStay, Zenon
      <4> QED BY <4>3 DEF base
    <3>2. DOMAIN e.nodes = 1..N
      BY <2>3, Zenon DEF Elements
    <3>3. ASSUME NEW n \in 1..N PROVE e.nodes[n].parent \in PathTo(e.nodes)[n - 1]
      <4>0. n - 1 \in 0..N
        BY <2>3
      <4>1. CASE n \in 1..base
        <5>1. d.nodes[n].parent \in PathTo(d.nodes)[n - 1]
          BY <2>2, <2>9, <4>1, Zenon DEF IsTree, InDocumentOrder, Elements
        <5>2. n - 1 \in 0..base
          BY <2>1, <4>1
        <5> QED BY <2>1, <3>1, <4>1, <5>1, <5>2
      <4>2. CASE n \notin 1..base
        <5>1. 0 \in PathTo(e.nodes)[n - 1] /\ n - 1 \in PathTo(e.nodes)[n - 1]
          BY <2>3, <2>7, <4>0, PathsLeadDown
        <5> QED BY <2>6, <4>2, <5>1
      <4> QED BY <4>1, <4>2
    <3> QED BY <2>7, <3>2, <3>3, Zenon DEF InDocumentOrder, Ordered
  <2>11. IsTree(e)
    <3>1. ASSUME NEW n \in 1..N
          PROVE  /\ e.nodes[n].pg \in 0..(Len(e.images) + 1)
                 /\ e.nodes[n].tag = "OBJR" => /\ e.nodes[n].parent # 0
                                               /\ e.nodes[e.nodes[n].parent].tag # "OBJR"
      <4>1. CASE n \in 1..base
        <5>1. /\ d.nodes[n].pg \in 0..(Len(d.images) + 1)
              /\ d.nodes[n].tag = "OBJR" => /\ d.nodes[n].parent # 0
                                            /\ d.nodes[d.nodes[n].parent].tag # "OBJR"
          BY <2>2, <2>9, <4>1, Zenon DEF IsTree
        <5>2. e.nodes[n] = d.nodes[n]
          BY <2>1, <4>1
        <5>3. d.nodes[n].parent # 0 => d.nodes[n].parent \in 1..base
          <6>1. d.nodes[n].parent \in 0..(n - 1)
            BY <2>2, <4>1 DEF Ordered, base
          <6> QED BY <2>1, <4>1, <6>1
        <5> QED BY <2>1, <2>9, <5>1, <5>2, <5>3
      <4>2. CASE n \notin 1..base
        BY <2>2, <2>6, <2>9, <4>2
      <4> QED BY <4>1, <4>2
    <3> QED BY <1>2, <2>3, <2>9, <2>10, <3>1, Zenon DEF IsTree
  <2>12. Sound(e)
    <3>1. e.annots = d.annots /\ e.meta = d.meta /\ e.facts = d.facts
          /\ e.mended = d.mended
      BY <2>1 DEF FIELDS
    <3> QED BY <2>1, <2>9, <2>11, <3>1, Zenon DEF Sound, Pages
  <2> QED BY <2>1, <2>2, <2>8, <2>12, Zenon
<1>3. d.tree \in BOOLEAN
  BY Zenon DEF Sound
<1> QED BY <1>1, <1>2

\* What can be sent for a figure, and its reference.
LEMMA CandidateKinds ==
    ASSUME NEW d, Sound(d), NEW n \in Figures(d)
    PROVE  /\ n \in Elements(d) /\ PgRef(d, n) \in Nat
           /\ RefOf(d, n)[1] = PgRef(d, n)
           /\ RefOf(d, n)[2] = Cardinality({m \in Figures(d) : m =< n /\ PgRef(d, m) = PgRef(d, n)})
           /\ RefOf(d, n)[2] \in Nat
           /\ CandidateImage(d, RefOf(d, n)) \in
                 {Blank, <<"page", PgRef(d, n)>>, <<"image", PgRef(d, n), RefOf(d, n)[2]>>}
           /\ CandidateImage(d, RefOf(d, n)) \in Alts
<1> DEFINE S == {m \in Figures(d) : m =< n /\ PgRef(d, m) = PgRef(d, n)}
<1> DEFINE p == PgRef(d, n)
<1> DEFINE k == Cardinality(S)
<1>1. n \in Elements(d) /\ p \in Pages(d)
  BY Zenon DEF Figures
<1>2. p \in Nat
  BY <1>1, SoundTree
<1>3. k \in Nat
  <2>1. Len(d.nodes) \in Nat /\ Elements(d) = 1..Len(d.nodes)
    BY SoundTree, Zenon
  <2>2. Figures(d) \subseteq Elements(d)
    BY Zenon DEF Figures
  <2>3. S \subseteq 0..Len(d.nodes)
    BY <2>1, <2>2
  <2> HIDE DEF S
  <2> QED BY <2>1, <2>3, SubsetCounts
<1>4. RefOf(d, n) = <<p, k>>
  BY Zenon DEF RefOf
<1> HIDE DEF p, k
<1>5. <<p, k>>[1] = p /\ <<p, k>>[2] = k
  OBVIOUS
<1>6. CandidateImage(d, <<p, k>>) \in {Blank, <<"page", p>>, <<"image", p, k>>}
  <2>1. CASE k > Len(d.images[p])
    BY <1>5, <2>1, Zenon DEF CandidateImage
  <2>2. CASE ~(k > Len(d.images[p]))
    <3> DEFINE choice == CASE d.images[p][k] = "tiny" -> Blank
                           [] d.images[p][k] = "odd"  -> <<"page", p>>
                           [] OTHER                   -> <<"image", p, k>>
    <3>1. CandidateImage(d, <<p, k>>) = choice
      BY <1>5, <2>2, Zenon DEF CandidateImage
    <3>2. choice \in {Blank, <<"page", p>>, <<"image", p, k>>}
      OBVIOUS
    <3> QED BY <3>1, <3>2, Zenon
  <2> QED BY <2>1, <2>2
<1>7. Blank \in Alts
  BY Zenon DEF Alts, AUTHORED
<1>8. <<"page", p>> \in Alts
  BY <1>2, Zenon DEF Alts
<1>9. <<"image", p, k>> \in Alts
  <2>1. <<p, k>> \in Nat \X Nat
    BY <1>2, <1>3
  <2> QED BY <1>5, <2>1 DEF Alts
<1> QED BY <1>1, <1>2, <1>3, <1>4, <1>5, <1>6, <1>7, <1>8, <1>9, Zenon DEF p, k

\* The figures that get a description, and it.
Written(d, alts2) ==
    {n \in Figures(d) : RefOf(d, n) \in DOMAIN alts2 /\ WorthWriting(alts2[RefOf(d, n)])}

LEMMA AltTextWritten ==
    ASSUME NEW d, Sound(d), NEW texts, \A r \in DOMAIN texts : texts[r] \in Alts,
           NEW e, e = WithAltText(d, texts)
    PROVE  /\ Sound(e) /\ Grown(d, e) /\ \A k \in FIELDS : k # "nodes" => e[k] = d[k]
           /\ Elements(e) = Elements(d)
           /\ \A n \in Elements(d) :
                 e.nodes[n].alt = IF n \in Written(d, texts) THEN texts[RefOf(d, n)]
                                  ELSE d.nodes[n].alt
<1> DEFINE alt(n) == IF n \in Written(d, texts) THEN texts[RefOf(d, n)] ELSE d.nodes[n].alt
<1> DEFINE node(n) == IF n \in Written(d, texts)
                      THEN [d.nodes[n] EXCEPT !.alt = texts[RefOf(d, n)]] ELSE d.nodes[n]
<1> DEFINE nodes == [n \in DOMAIN d.nodes |-> node(n)]
<1>1. e = [d EXCEPT !.nodes = nodes]
  BY Zenon DEF WithAltText, Written
<1>2. d = [k \in FIELDS |-> d[k]] /\ d.nodes \in Seq(Node) /\ IsTree(d)
  BY Zenon DEF Sound
<1>3. /\ e = [k \in FIELDS |-> e[k]] /\ e.nodes = nodes
      /\ \A k \in FIELDS : k # "nodes" => e[k] = d[k]
  <2> HIDE DEF nodes
  <2> QED BY <1>1, <1>2, OneFieldWritten DEF FIELDS
<1>4. /\ Len(d.nodes) \in Nat /\ DOMAIN d.nodes = 1..Len(d.nodes)
      /\ \A n \in DOMAIN d.nodes : d.nodes[n] \in Node
  BY SoundTree, Zenon DEF Elements
<1>5. ASSUME NEW n \in DOMAIN d.nodes
      PROVE  /\ node(n) \in Node /\ node(n).alt = alt(n)
             /\ node(n).parent = d.nodes[n].parent /\ node(n).tag = d.nodes[n].tag
             /\ node(n).pg = d.nodes[n].pg /\ node(n).obj = d.nodes[n].obj
             /\ node(n).kids = d.nodes[n].kids
  <2> DEFINE x == d.nodes[n]
  <2>1. x \in Node
    BY <1>4
  <2> HIDE DEF x
  <2>2. CASE n \in Written(d, texts)
    <3> DEFINE t == texts[RefOf(d, n)]
    <3>1. t \in Alts
      BY <2>2, Zenon DEF Written
    <3> HIDE DEF t
    <3>2. /\ [x EXCEPT !.alt = t] \in Node /\ [x EXCEPT !.alt = t].alt = t
          /\ [x EXCEPT !.alt = t].parent = x.parent /\ [x EXCEPT !.alt = t].tag = x.tag
          /\ [x EXCEPT !.alt = t].pg = x.pg /\ [x EXCEPT !.alt = t].obj = x.obj
          /\ [x EXCEPT !.alt = t].kids = x.kids
      BY <2>1, <3>1 DEF Node
    <3>3. node(n) = [x EXCEPT !.alt = t] /\ alt(n) = t
      BY <2>2, Zenon DEF x, t
    <3> QED BY <3>2, <3>3, Zenon DEF x
  <2>3. CASE n \notin Written(d, texts)
    BY <2>1, <2>3, Zenon DEF x
  <2> QED BY <2>2, <2>3
<1> HIDE DEF node, alt
<1>6. \A n \in DOMAIN d.nodes : e.nodes[n] = node(n)
  BY <1>3, Zenon
<1>7. e.nodes \in Seq(Node) /\ Len(e.nodes) = Len(d.nodes) /\ Elements(e) = Elements(d)
  <2>1. nodes \in [1..Len(d.nodes) -> Node]
    BY <1>4, <1>5, Zenon
  <2> HIDE DEF nodes
  <2> QED BY <1>3, <1>4, <2>1, FunctionIsSequence DEF Elements
<1>8. Grown(d, e)
  BY <1>4, <1>5, <1>6, <1>7 DEF Grown, Elements
<1>9. e.tree = d.tree /\ e.images = d.images /\ e.annots = d.annots /\ e.meta = d.meta
      /\ e.facts = d.facts /\ e.mended = d.mended
  BY <1>3 DEF FIELDS
<1>10. Ordered(e.nodes) /\ Ordered(d.nodes)
  <2>1. Ordered(d.nodes)
    BY SoundTree, Zenon
  <2>2. \A n \in 1..Len(d.nodes) : e.nodes[n].parent = d.nodes[n].parent
    BY <1>4, <1>5, <1>6, Zenon
  <2> QED BY <1>7, <2>1, <2>2 DEF Ordered
<1>11. \A n \in 0..Len(d.nodes) : PathTo(d.nodes)[n] = PathTo(e.nodes)[n]
  <2>1. \A n \in 1..Len(d.nodes) : d.nodes[n].parent = e.nodes[n].parent
    BY <1>4, <1>5, <1>6, Zenon
  <2>2. Len(d.nodes) =< Len(e.nodes) /\ Len(e.nodes) \in Nat
    BY <1>4, <1>7
  <2> QED BY <1>4, <1>10, <2>1, <2>2, PathsStay, Zenon
<1>12. InDocumentOrder(e.nodes)
  <2>1. DOMAIN e.nodes = 1..Len(d.nodes)
    BY <1>4, <1>7, Zenon DEF Elements
  <2>2. \A n \in 1..Len(d.nodes) : n - 1 \in 0..Len(d.nodes)
    BY <1>4
  <2>3. \A n \in 1..Len(d.nodes) : d.nodes[n].parent \in PathTo(d.nodes)[n - 1]
                                     /\ e.nodes[n].parent = d.nodes[n].parent
    BY <1>2, <1>4, <1>5, <1>6, Zenon DEF IsTree, InDocumentOrder
  <2>4. \A n \in 1..Len(d.nodes) : e.nodes[n].parent \in PathTo(e.nodes)[n - 1]
    BY <1>11, <2>2, <2>3, Zenon
  <2>5. \A n \in 1..Len(d.nodes) : e.nodes[n].parent \in 0..(n - 1)
    BY <1>7, <1>10, Zenon DEF Ordered
  <2> QED BY <2>1, <2>4, <2>5, Zenon DEF InDocumentOrder
<1>13. IsTree(e)
  <2>1. ~d.tree => e.nodes = <<>>
    <3>1. ASSUME ~d.tree PROVE Len(e.nodes) = 0
      BY <1>2, <1>7, <3>1 DEF IsTree
    <3> QED BY <1>7, <3>1
  <2>2. ASSUME NEW n \in Elements(d)
        PROVE  /\ e.nodes[n].pg \in 0..(Len(e.images) + 1)
               /\ e.nodes[n].tag = "OBJR" => /\ e.nodes[n].parent # 0
                                             /\ e.nodes[e.nodes[n].parent].tag # "OBJR"
    <3>1. /\ d.nodes[n].pg \in 0..(Len(d.images) + 1)
          /\ d.nodes[n].tag = "OBJR" => /\ d.nodes[n].parent # 0
                                        /\ d.nodes[d.nodes[n].parent].tag # "OBJR"
      BY <1>2, Zenon DEF IsTree
    <3>2. d.nodes[n].parent # 0 => d.nodes[n].parent \in Elements(d)
      <4>1. n \in 1..Len(d.nodes) /\ d.nodes[n].parent \in 0..(n - 1)
        BY <1>4, SoundPaths, Zenon DEF Elements
      <4> QED BY <1>4, <4>1 DEF Elements
    <3>3. \A m \in Elements(d) : /\ e.nodes[m].tag = d.nodes[m].tag
                                 /\ e.nodes[m].pg = d.nodes[m].pg
                                 /\ e.nodes[m].parent = d.nodes[m].parent
      BY <1>5, <1>6, Zenon DEF Elements
    <3> QED BY <1>9, <3>1, <3>2, <3>3, Zenon
  <2> QED BY <1>7, <1>9, <1>12, <2>1, <2>2, Zenon DEF IsTree
<1>14. Sound(e)
  BY <1>3, <1>7, <1>9, <1>13, Zenon DEF Sound, Pages
<1> QED BY <1>3, <1>5, <1>6, <1>7, <1>8, <1>14, Zenon DEF Elements, alt

\* A step that leaves the tree alone leaves a sound document.
LEMMA TreeUntouched ==
    ASSUME NEW d, Sound(d), NEW e, e = [k \in FIELDS |-> e[k]],
           e.nodes = d.nodes, e.tree = d.tree, e.images = d.images, e.annots = d.annots,
           e.facts \subseteq FACTS, e.mended = d.mended, e.meta \subseteq METADATA
    PROVE  Sound(e) /\ Grown(d, e)
<1>1. IsTree(e)
  BY SameTree, Zenon DEF Sound
<1>2. Sound(e)
  BY <1>1, Zenon DEF Sound, Pages
<1>3. Grown(d, e)
  BY SoundTree DEF Grown, Elements
<1> QED BY <1>2, <1>3

-----------------------------------------------------------------------------
(* Every link is referred to once. *)

LEMMA OneDeeper ==
    ASSUME NEW d, Sound(d), NEW n \in Elements(d)
    PROVE  Depth(d, d.nodes[n].parent) \in Int /\ Depth(d, n) = Depth(d, d.nodes[n].parent) + 1
<1> DEFINE p == d.nodes[n].parent
<1> DEFINE P == PathTo(d.nodes)[p]
<1>1. n \in Nat \ {0} /\ p \in 0..(n - 1) /\ PathTo(d.nodes)[n] = P \cup {n}
  BY SoundPaths, Zenon
<1>2. P \subseteq 0..p
  <2>1. Len(d.nodes) \in Nat /\ n \in 1..Len(d.nodes) /\ Ordered(d.nodes)
    BY SoundTree, Zenon
  <2>2. p \in 0..Len(d.nodes)
    BY <1>1, <2>1
  <2> QED BY <2>1, <2>2, PathsLeadDown, Zenon
<1>3. n \notin P /\ p \in Nat
  BY <1>1, <1>2
<1> HIDE DEF P
<1>4. IsFiniteSet(P) /\ Cardinality(P) \in Nat
  BY <1>2, <1>3, SubsetCounts
<1>5. Cardinality(P \cup {n}) = Cardinality(P) + 1
  BY <1>3, <1>4, FS_AddElement
<1>6. Depth(d, n) = Cardinality(P \cup {n}) - 1 /\ Depth(d, p) = Cardinality(P) - 1
  BY <1>1, Zenon DEF Depth, P
<1> HIDE DEF p
<1>7. Depth(d, p) \in Int /\ Depth(d, n) = Depth(d, p) + 1
  BY <1>4, <1>5, <1>6
<1> QED BY <1>7 DEF p

LEMMA LargerThanOne ==
    ASSUME NEW c \in Nat
    PROVE  /\ c = 0 => Max({1, c}) = 1
           /\ c # 0 => Max({1, c}) = c
<1>1. {1, c} \subseteq 0..(c + 1) /\ {1, c} # {}
  OBVIOUS
<1>2. Max({1, c}) \in {1, c} /\ \A y \in {1, c} : y =< Max({1, c})
  BY <1>1, MaxIsGreatest
<1> QED BY <1>2

Objrs(d, id) == {n \in Elements(d) : d.nodes[n].tag = "OBJR" /\ d.nodes[n].obj = id}

\* LinksReferencedOnce, of the document a round starts with and a later one.
LinkedOnce(a, e) ==
    e.tree =>
        \A i \in DOMAIN e.annots :
            /\ e.annots[i].sub = "Link" /\ e.annots[i].id # 0
            /\ ReferencesInReach(a, e.annots[i].id)
            => References(e, e.annots[i].id) = Max({1, References(a, e.annots[i].id)})

LEMMA LinksTaggedOnce ==
    ASSUME NEW d, Sound(d), NEW e, e = WithLinks(d)
    PROVE  LinkedOnce(d, e)
<1>1. e.tree = d.tree /\ e.annots = d.annots
  BY LinksSound DEF FIELDS
<1> SUFFICES ASSUME e.tree, NEW i \in DOMAIN d.annots, d.annots[i].sub = "Link",
                    d.annots[i].id # 0, ReferencesInReach(d, d.annots[i].id)
             PROVE  References(e, d.annots[i].id) = Max({1, References(d, d.annots[i].id)})
  BY <1>1, Zenon DEF LinkedOnce
<1> DEFINE id == d.annots[i].id
<1> DEFINE base == Len(d.nodes)
<1> DEFINE L == Cardinality(Untagged(d))
<1> DEFINE new == Ascending(Untagged(d))
<1>2. LinksAdded(d, e, base, L, new)
  <2>1. d.tree = TRUE
    BY <1>1, Zenon DEF Sound
  <2> QED BY <2>1, LinksWritten, Zenon
<1>3. /\ \A x \in Untagged(d) : \E k \in 1..L : new[k] = x
      /\ \A j, k \in 1..L : new[j] = new[k] => j = k
  <2>1. Untagged(d) \subseteq 0..Len(d.annots) /\ Len(d.annots) \in Nat
    BY DEF Untagged, Sound
  <2> QED BY <2>1, AscendingOnce, Zenon
<1> HIDE DEF L, new
<1>4. /\ L \in Nat /\ base \in Nat /\ Elements(e) = 1..(base + 2 * L)
      /\ Elements(d) = 1..base
      /\ \A n \in 1..base : e.nodes[n] = d.nodes[n]
      /\ \A j \in 1..L : /\ new[j] \in Untagged(d)
                         /\ e.nodes[base + 2 * j - 1] = LinkElement(d, new[j])
                         /\ e.nodes[base + 2 * j] = ObjrElement(d, new[j], base + 2 * j - 1)
  <2>1. e.nodes \in Seq(Node) /\ Len(e.nodes) = base + 2 * L
    BY <1>2, Zenon DEF LinksAdded
  <2>2. Elements(e) = 1..(base + 2 * L)
    BY <2>1 DEF Elements
  <2>3. Elements(d) = 1..base
    BY SoundTree, Zenon
  <2> QED BY <1>2, <2>2, <2>3, Zenon DEF LinksAdded
<1> HIDE DEF base
<1>5. ASSUME NEW n \in Objrs(e, id), n \notin Objrs(d, id)
      PROVE  \E j \in 1..L : n = base + 2 * j /\ d.annots[new[j]].id = id
  <2>1. n \in 1..(base + 2 * L) /\ e.nodes[n].tag = "OBJR" /\ e.nodes[n].obj = id
    BY <1>4, <1>5, Zenon DEF Objrs
  <2>2. n \notin 1..base
    BY <1>4, <1>5, <2>1, Zenon DEF Objrs
  <2>3. PICK j \in 1..L : n = base + 2 * j - 1 \/ n = base + 2 * j
    BY <1>4, <2>1, <2>2, AppendedPlaces
  <2>4. n # base + 2 * j - 1
    <3>1. e.nodes[base + 2 * j - 1] = LinkElement(d, new[j])
      BY <1>4, Zenon
    <3>2. LinkElement(d, new[j]).tag = "Link"
      BY DEF LinkElement
    <3>3. e.nodes[base + 2 * j - 1].tag # "OBJR"
      BY <3>1, <3>2
    <3> QED BY <2>1, <3>3, Zenon
  <2>5. n = base + 2 * j /\ e.nodes[n] = ObjrElement(d, new[j], base + 2 * j - 1)
    BY <1>4, <2>3, <2>4
  <2> QED BY <2>1, <2>5 DEF ObjrElement
<1>6. Objrs(d, id) \subseteq Objrs(e, id)
  <2>1. 1..base \subseteq 1..(base + 2 * L)
    BY <1>4
  <2> QED BY <1>4, <2>1, Zenon DEF Objrs
<1>7. References(e, id) = Cardinality(Objrs(e, id)) /\ References(d, id) = Cardinality(Objrs(d, id))
  BY Zenon DEF References, Objrs
<1>8. IsFiniteSet(Objrs(d, id)) /\ Cardinality(Objrs(d, id)) \in Nat
  <2>1. Objrs(d, id) \subseteq 0..base
    BY <1>4 DEF Objrs
  <2> QED BY <1>4, <2>1, SubsetCounts
<1> HIDE DEF id
<1>9. CASE id \in TaggedAnnotations(d)
  <2>1. \A x \in Untagged(d) : d.annots[x].id # id
    BY <1>9, Zenon DEF Untagged
  <2>2. Objrs(e, id) = Objrs(d, id)
    BY <1>4, <1>5, <1>6, <2>1, Zenon
  <2>3. Objrs(d, id) # {}
    BY <1>9 DEF TaggedAnnotations, Objrs
  <2>4. Cardinality(Objrs(d, id)) # 0
    BY <1>8, <2>3, FS_EmptySet
  <2> QED BY <1>7, <1>8, <2>2, <2>4, LargerThanOne DEF id
<1>10. CASE id \notin TaggedAnnotations(d)
  <2>1. Objrs(d, id) = {}
    <3> SUFFICES ASSUME NEW n \in Objrs(d, id) PROVE FALSE
      OBVIOUS
    <3>1. n \in Elements(d) /\ d.nodes[n].tag = "OBJR" /\ d.nodes[n].obj = id
      BY Zenon DEF Objrs
    <3>2. Depth(d, n) =< MAX_STRUCT_TREE_DEPTH + 1
      BY <3>1, Zenon DEF ReferencesInReach, id
    <3>3. Depth(d, d.nodes[n].parent) =< MAX_STRUCT_TREE_DEPTH
      BY <3>1, <3>2, OneDeeper, DepthAssumption
    <3> QED BY <1>10, <3>1, <3>3, Zenon DEF TaggedAnnotations
  <2> DEFINE same == {j \in DOMAIN d.annots : d.annots[j].sub = "Link" /\ d.annots[j].id = id}
  <2>2. i \in same
    BY Zenon DEF id
  <2>3. DOMAIN d.annots = 1..Len(d.annots) /\ Len(d.annots) \in Nat
    BY DEF Sound
  <2>4. same \subseteq Nat /\ same # {}
    BY <2>2, <2>3
  <2>5. PICK x \in same : \A y \in same : x =< y
    <3> HIDE DEF same
    <3> QED BY <2>4, LeastNumber, Zenon
  <2>6. x \in Untagged(d)
    <3>1. \A j \in 1..(x - 1) : j \in DOMAIN d.annots /\ ~(x =< j)
      BY <2>3
    <3>2. \A j \in 1..(x - 1) : d.annots[j].sub = "Link" => d.annots[j].id # d.annots[x].id
      BY <2>5, <3>1, Zenon
    <3> QED BY <1>10, <3>2, Zenon DEF Untagged
  <2>7. PICK k \in 1..L : new[k] = x
    BY <1>3, <2>6, Zenon
  <2>8. ASSUME NEW j \in 1..L, d.annots[new[j]].id = id PROVE j = k
    <3> DEFINE y == new[j]
    <3>1. y \in Untagged(d)
      BY <1>4, <2>8, Zenon
    <3>2. y \in same /\ y \in Nat /\ x \in Nat
      BY <2>3, <2>8, <3>1 DEF Untagged
    <3>3. x =< y
      BY <2>5, <3>2, Zenon
    <3>4. ~(x < y)
      <4> SUFFICES ASSUME x < y PROVE FALSE
        OBVIOUS
      <4>1. x \in 1..(y - 1)
        BY <2>3, <3>2
      <4> QED BY <2>5, <2>8, <3>1, <4>1, Zenon DEF Untagged
    <3>5. y = x
      BY <3>2, <3>3, <3>4
    <3>6. new[j] = new[k]
      BY <2>7, <3>5
    <3> QED BY <1>3, <2>7, <2>8, <3>6
  <2>9. base + 2 * k \in Objrs(e, id)
    <3>1. base + 2 * k \in Elements(e)
      BY <1>4
    <3>2. e.nodes[base + 2 * k] = ObjrElement(d, x, base + 2 * k - 1)
      BY <1>4, <2>7
    <3>3. d.annots[x].id = id
      BY <2>5, Zenon
    <3> QED BY <3>1, <3>2, <3>3 DEF Objrs, ObjrElement
  <2>10. Objrs(e, id) = {base + 2 * k}
    BY <1>5, <2>1, <2>8, <2>9, Zenon
  <2>11. Cardinality(Objrs(e, id)) = 1 /\ Cardinality(Objrs(d, id)) = 0
    BY <2>1, <2>10, FS_Singleton, FS_EmptySet, Zenon
  <2> QED BY <1>7, <2>11, LargerThanOne DEF id
<1> QED BY <1>9, <1>10

\* ... and stays so while the tree keeps its OBJRs.
LEMMA LinkedOnceStays ==
    ASSUME NEW a, NEW d, NEW e, LinkedOnce(a, d), Elements(e) = Elements(d),
           \A n \in Elements(d) : /\ e.nodes[n].tag = d.nodes[n].tag
                                  /\ e.nodes[n].obj = d.nodes[n].obj,
           e.tree = d.tree, e.annots = d.annots
    PROVE  LinkedOnce(a, e)
<1>1. \A id : Objrs(e, id) = Objrs(d, id)
  BY Zenon DEF Objrs
<1>2. \A id : References(e, id) = Cardinality(Objrs(e, id))
  BY Zenon DEF References, Objrs
<1>3. \A id : References(d, id) = Cardinality(Objrs(d, id))
  BY Zenon DEF References, Objrs
<1>4. \A id : References(e, id) = References(d, id)
  BY <1>1, <1>2, <1>3
<1> QED BY <1>4, Zenon DEF LinkedOnce

-----------------------------------------------------------------------------
(* A figure is described from its own image. *)

\* DescribedFromOwnImage, of the document a round starts with and a later one.
Described(a, e) ==
    \A n \in Elements(a) :
        e.nodes[n].alt # a.nodes[n].alt =>
            /\ a.nodes[n].tag = "Figure" /\ a.nodes[n].alt \in {Blank, ImageN}
            /\ e.nodes[n].alt \notin {ImageN, FigureN} =>
                  /\ Len(e.nodes[n].alt) > 1 /\ e.nodes[n].alt[2] = PgRef(e, n)
                  /\ \/ e.nodes[n].alt = <<"page", PgRef(e, n)>>
                     \/ e.nodes[n].alt = <<"image", PgRef(e, n), PlaceOnPage(a, n)>>
                     \/ \E m \in Elements(a) :
                           /\ a.nodes[m].tag = "Figure" /\ PgRef(a, m) = PgRef(e, n)
                           /\ ~NeedsAlt(a.nodes[m].alt)

CollectedUpTo(d, n) == {m \in Figures(d) : m =< n /\ PgRef(d, m) = PgRef(d, n)}
FiguresUpTo(a, n) ==
    {m \in 1..n : a.nodes[m].tag = "Figure" /\ PgRef(a, m) = PgRef(a, n)
                     /\ Depth(a, m) =< MAX_STRUCT_TREE_DEPTH}

\* A figure's place among those collected is its place among all of its page,
\* if none of these has a description.
LEMMA PlaceAmongAll ==
    ASSUME NEW a, NEW d, Sound(a), Sound(d), Grown(a, d),
           \A m \in Elements(a) : d.nodes[m].alt = a.nodes[m].alt,
           NEW n \in Elements(a), n \in Figures(d),
           \A m \in Elements(a) : a.nodes[m].tag = "Figure" /\ PgRef(a, m) = PgRef(d, n)
                                     => NeedsAlt(a.nodes[m].alt)
    PROVE  CollectedUpTo(d, n) = FiguresUpTo(a, n)
<1>1. /\ Elements(a) = 1..Len(a.nodes) /\ Len(a.nodes) \in Nat
      /\ Elements(d) = 1..Len(d.nodes) /\ Len(d.nodes) \in Nat /\ Len(a.nodes) =< Len(d.nodes)
  BY SoundTree, Zenon DEF Grown
<1>2. \A m \in Elements(a) : /\ m \in Elements(d) /\ Depth(a, m) = Depth(d, m)
                             /\ PgRef(a, m) = PgRef(d, m)
  BY GrownKeeps
<1>3. \A m \in Elements(a) : d.nodes[m].tag = a.nodes[m].tag
  BY Zenon DEF Grown
<1>4. PgRef(d, n) \in Pages(d)
  BY Zenon DEF Figures
<1>5. \A m \in Elements(d) : m =< n => m \in 1..n
  BY <1>1
<1>6. \A m \in 1..n : m \in Elements(a) /\ m =< n
  BY <1>1
<1>7. Figures(d) \subseteq Elements(d)
  BY Zenon DEF Figures
<1>8. ASSUME NEW m \in Figures(d), m =< n, PgRef(d, m) = PgRef(d, n)
      PROVE  m \in 1..n /\ a.nodes[m].tag = "Figure" /\ PgRef(a, m) = PgRef(a, n)
                /\ Depth(a, m) =< MAX_STRUCT_TREE_DEPTH
  <2>1. m \in 1..n /\ m \in Elements(a)
    BY <1>5, <1>6, <1>7, <1>8, Zenon
  <2>2. d.nodes[m].tag = "Figure" /\ Depth(d, m) =< MAX_STRUCT_TREE_DEPTH
    BY <1>8, Zenon DEF Figures
  <2> QED BY <1>2, <1>3, <1>8, <2>1, <2>2
<1>9. ASSUME NEW m \in 1..n, a.nodes[m].tag = "Figure", PgRef(a, m) = PgRef(a, n),
             Depth(a, m) =< MAX_STRUCT_TREE_DEPTH
      PROVE  m \in Figures(d) /\ m =< n /\ PgRef(d, m) = PgRef(d, n)
  <2>1. m \in Elements(a) /\ m =< n
    BY <1>6
  <2>2. PgRef(d, m) = PgRef(d, n) /\ PgRef(a, m) = PgRef(d, n) /\ m \in Elements(d)
        /\ Depth(d, m) =< MAX_STRUCT_TREE_DEPTH /\ d.nodes[m].tag = "Figure"
    BY <1>2, <1>3, <1>9, <2>1
  <2>3. NeedsAlt(a.nodes[m].alt)
    BY <1>9, <2>1, <2>2, Zenon
  <2>4. NeedsAlt(d.nodes[m].alt)
    BY <2>1, <2>3
  <2> QED BY <1>4, <2>1, <2>2, <2>4, Zenon DEF Figures
<1> QED BY <1>8, <1>9, Zenon DEF CollectedUpTo, FiguresUpTo

\* The answers the alt text step holds are those for the figures of the document.
AnswersHeld(d, texts) ==
    \A r \in DOMAIN texts : r \in FigureRefs(d) /\ texts[r] \in Answers(CandidateImage(d, r))

LEMMA AnswersAreTexts ==
    ASSUME NEW d, Sound(d), NEW texts, AnswersHeld(d, texts)
    PROVE  \A r \in DOMAIN texts : texts[r] \in Alts
<1> TAKE r \in DOMAIN texts
<1>1. PICK n \in Figures(d) : r = RefOf(d, n)
  BY DEF AnswersHeld, FigureRefs
<1>2. CandidateImage(d, r) \in Alts
  BY <1>1, CandidateKinds
<1>3. Blank \in Alts /\ ImageN \in Alts /\ FigureN \in Alts
  BY Zenon DEF Alts, AUTHORED
<1> QED BY <1>2, <1>3, Zenon DEF AnswersHeld, Answers

LEMMA DescribedByStep ==
    ASSUME NEW a, NEW d, Sound(a), Sound(d), Grown(a, d),
           \A m \in Elements(a) : d.nodes[m].alt = a.nodes[m].alt,
           NEW texts, AnswersHeld(d, texts), NEW e, e = WithAltText(d, texts)
    PROVE  Described(a, e)
<1>1. /\ Sound(e) /\ Grown(d, e)
      /\ \A n \in Elements(d) :
            e.nodes[n].alt = IF n \in Written(d, texts) THEN texts[RefOf(d, n)]
                             ELSE d.nodes[n].alt
  <2>1. \A r \in DOMAIN texts : texts[r] \in Alts
    BY AnswersAreTexts, Zenon
  <2> QED BY <2>1, AltTextWritten
<1> SUFFICES ASSUME NEW n \in Elements(a), e.nodes[n].alt # a.nodes[n].alt
    PROVE  /\ a.nodes[n].tag = "Figure" /\ a.nodes[n].alt \in {Blank, ImageN}
           /\ e.nodes[n].alt \notin {ImageN, FigureN} =>
                 /\ Len(e.nodes[n].alt) > 1 /\ e.nodes[n].alt[2] = PgRef(e, n)
                 /\ \/ e.nodes[n].alt = <<"page", PgRef(e, n)>>
                    \/ e.nodes[n].alt = <<"image", PgRef(e, n), PlaceOnPage(a, n)>>
                    \/ \E m \in Elements(a) :
                          /\ a.nodes[m].tag = "Figure" /\ PgRef(a, m) = PgRef(e, n)
                          /\ ~NeedsAlt(a.nodes[m].alt)
  BY Zenon DEF Described
<1>2. n \in Elements(d) /\ d.nodes[n].alt = a.nodes[n].alt /\ d.nodes[n].tag = a.nodes[n].tag
  BY GrownKeeps, Zenon DEF Grown
<1> DEFINE r == RefOf(d, n)
<1> DEFINE alt == e.nodes[n].alt
<1> DEFINE page == PgRef(d, n)
<1>3. n \in Written(d, texts) /\ alt = texts[r]
  BY <1>1, <1>2, Zenon
<1>4. n \in Figures(d) /\ r \in DOMAIN texts /\ texts[r] # Blank
  BY <1>3, Zenon DEF Written, WorthWriting
<1>5. alt \notin {ImageN, FigureN} => alt = CandidateImage(d, r)
  BY <1>3, <1>4, Zenon DEF AnswersHeld, Answers
<1>6. alt \notin {ImageN, FigureN} => alt \in {<<"page", page>>, <<"image", page, r[2]>>}
  BY <1>3, <1>4, <1>5, CandidateKinds, Zenon
<1>7. a.nodes[n].tag = "Figure" /\ a.nodes[n].alt \in {Blank, ImageN}
  BY <1>2, <1>4, Zenon DEF Figures, NeedsAlt
<1>8. PgRef(e, n) = page
  BY <1>1, <1>2, GrownKeeps
<1>9. r[2] = Cardinality({m \in Figures(d) : m =< n /\ PgRef(d, m) = page})
  BY <1>4, CandidateKinds, Zenon
<1>10. ASSUME \A m \in Elements(a) : a.nodes[m].tag = "Figure" /\ PgRef(a, m) = page
                                          => NeedsAlt(a.nodes[m].alt)
       PROVE  r[2] = PlaceOnPage(a, n)
  <2>1. CollectedUpTo(d, n) = FiguresUpTo(a, n)
    BY <1>4, <1>10, PlaceAmongAll
  <2> QED BY <1>9, <2>1, Zenon DEF PlaceOnPage, CollectedUpTo, FiguresUpTo
<1> DEFINE k == r[2]
<1> HIDE DEF page, alt, r, k
<1>11. alt \notin {ImageN, FigureN} => Len(alt) > 1 /\ alt[2] = page
  <2> HAVE alt \notin {ImageN, FigureN}
  <2>1. alt = <<"page", page>> \/ alt = <<"image", page, k>>
    BY <1>6, Zenon DEF k
  <2> QED BY <2>1
<1> QED BY <1>6, <1>7, <1>8, <1>10, <1>11, Zenon DEF alt, k

LEMMA DescribedStays ==
    ASSUME NEW a, NEW d, NEW e, Described(a, d), e.nodes = d.nodes
    PROVE  Described(a, e)
<1>1. \A n : PgRef(e, n) = PgRef(d, n)
  BY Zenon DEF PgRef
<1> QED BY <1>1, Zenon DEF Described

-----------------------------------------------------------------------------
(* The score. *)

Deducted(found) ==
    Deduction(found, "no_structure_tree") + Deduction(found, "no_text_layer")
    + Deduction(found, "missing_alt_text") + Deduction(found, "form_no_tooltips")
    + Deduction(found, "missing_headings") + Deduction(found, "missing_bookmarks")
    + Deduction(found, "unembedded_fonts") + Deduction(found, "vague_hyperlinks")
    + Deduction(found, "color_contrast") + Deduction(found, "complex_tables")

LEMMA DeductionKinds ==
    DOMAIN DEDUCTIONS = {"no_structure_tree", "no_text_layer", "missing_alt_text",
                         "form_no_tooltips", "missing_headings", "missing_bookmarks",
                         "unembedded_fonts", "vague_hyperlinks", "color_contrast",
                         "complex_tables"}
BY DEF DEDUCTIONS

\* Fewer issues are fewer points deducted.
LEMMA DeductedGrows ==
    ASSUME NEW A, NEW B, A \subseteq B
    PROVE  Deducted(A) \in Nat /\ Deducted(B) \in Nat /\ Deducted(A) =< Deducted(B)
<1>1. \A i \in DOMAIN DEDUCTIONS : /\ Deduction(A, i) \in Nat /\ Deduction(B, i) \in Nat
                                   /\ Deduction(A, i) =< Deduction(B, i)
  <2>1. \A i \in DOMAIN DEDUCTIONS : DEDUCTIONS[i] \in Nat
    BY DEF DEDUCTIONS
  <2> QED BY <2>1 DEF Deduction
<1> DEFINE a(i) == Deduction(A, i)
<1> DEFINE b(i) == Deduction(B, i)
<1>2. /\ a("no_structure_tree") \in Nat /\ b("no_structure_tree") \in Nat
      /\ a("no_structure_tree") =< b("no_structure_tree")
      /\ a("no_text_layer") \in Nat /\ b("no_text_layer") \in Nat
      /\ a("no_text_layer") =< b("no_text_layer")
      /\ a("missing_alt_text") \in Nat /\ b("missing_alt_text") \in Nat
      /\ a("missing_alt_text") =< b("missing_alt_text")
      /\ a("form_no_tooltips") \in Nat /\ b("form_no_tooltips") \in Nat
      /\ a("form_no_tooltips") =< b("form_no_tooltips")
      /\ a("missing_headings") \in Nat /\ b("missing_headings") \in Nat
      /\ a("missing_headings") =< b("missing_headings")
      /\ a("missing_bookmarks") \in Nat /\ b("missing_bookmarks") \in Nat
      /\ a("missing_bookmarks") =< b("missing_bookmarks")
      /\ a("unembedded_fonts") \in Nat /\ b("unembedded_fonts") \in Nat
      /\ a("unembedded_fonts") =< b("unembedded_fonts")
      /\ a("vague_hyperlinks") \in Nat /\ b("vague_hyperlinks") \in Nat
      /\ a("vague_hyperlinks") =< b("vague_hyperlinks")
      /\ a("color_contrast") \in Nat /\ b("color_contrast") \in Nat
      /\ a("color_contrast") =< b("color_contrast")
      /\ a("complex_tables") \in Nat /\ b("complex_tables") \in Nat
      /\ a("complex_tables") =< b("complex_tables")
  BY <1>1, DeductionKinds, Zenon
<1>3. /\ Deducted(A) = a("no_structure_tree") + a("no_text_layer") + a("missing_alt_text")
            + a("form_no_tooltips") + a("missing_headings") + a("missing_bookmarks")
            + a("unembedded_fonts") + a("vague_hyperlinks") + a("color_contrast")
            + a("complex_tables")
      /\ Deducted(B) = b("no_structure_tree") + b("no_text_layer") + b("missing_alt_text")
            + b("form_no_tooltips") + b("missing_headings") + b("missing_bookmarks")
            + b("unembedded_fonts") + b("vague_hyperlinks") + b("color_contrast")
            + b("complex_tables")
  BY Zenon DEF Deducted
<1> HIDE DEF a, b
<1> QED BY <1>2, <1>3

LEMMA ScoreDeducts ==
    ASSUME NEW d
    PROVE  Score(d) = IF Deducted(Issues(d)) > 100 THEN 0 ELSE 100 - Deducted(Issues(d))
BY Zenon DEF Score, Deducted

LEMMA ScoreBounds ==
    ASSUME NEW d
    PROVE  Score(d) \in 0..100
<1>1. Deducted(Issues(d)) \in Nat
  BY DeductedGrows
<1> QED BY <1>1, ScoreDeducts

LEMMA FewerIssues ==
    ASSUME NEW d, NEW e, Issues(e) \subseteq Issues(d)
    PROVE  Score(e) >= Score(d)
<1>1. /\ Deducted(Issues(e)) \in Nat /\ Deducted(Issues(d)) \in Nat
      /\ Deducted(Issues(e)) =< Deducted(Issues(d))
  BY DeductedGrows
<1> QED BY <1>1, ScoreDeducts

LEMMA GradeKinds ==
    ASSUME NEW s \in 0..100
    PROVE  Grade(s) \in {"A", "B", "C", "D", "F"}
<1> DEFINE I == {i \in 1..5 : s >= GRADE_THRESHOLDS[i][1]}
<1>1. 5 \in I
  BY DEF GRADE_THRESHOLDS
<1>2. Grade(s) = GRADE_THRESHOLDS[Min(I)][2]
  <2>1. Len(GRADE_THRESHOLDS) = 5
    BY DEF GRADE_THRESHOLDS
  <2> QED BY <1>1, <2>1 DEF Grade, SelectInSeq
<1>3. Min(I) \in 1..5
  BY <1>1 DEF Min
<1> QED BY <1>2, <1>3 DEF GRADE_THRESHOLDS

-----------------------------------------------------------------------------
(* The steps. *)

LEMMA StepOrder ==
    /\ ToSet(STEP_ORDER) = {"font_repair", "metadata", "link_tag", "alt_text", "scoring", "done"}
    /\ After("font_repair") = "metadata" /\ After("metadata") = "link_tag"
    /\ After("link_tag") = "alt_text" /\ After("alt_text") = "scoring"
    /\ After("scoring") = "done"
<1>1. /\ After("font_repair") = "metadata" /\ After("metadata") = "link_tag"
      /\ After("link_tag") = "alt_text" /\ After("alt_text") = "scoring"
      /\ After("scoring") = "done"
  BY DEF After, Place, STEP_ORDER, SelectInSeq, Min
<1>2. ToSet(STEP_ORDER) = {"font_repair", "metadata", "link_tag", "alt_text", "scoring", "done"}
  BY DEF STEP_ORDER, ToSet
<1> QED BY <1>1, <1>2

STEPS == {"font_repair", "metadata", "link_tag", "alt_text", "scoring", "done"}

\* What no step changes.
KEPT == {"tree", "annots", "images", "mended", "resources", "shown", "reads"}

IsResult(r) == r # <<>> => r[1] \in 0..100 /\ r[2] \in {"A", "B", "C", "D", "F"}

\* The inductive invariant of the tree.  Until the link step nothing is added to
\* it, until the answers are written no /Alt differs from the round's start, and
\* the answers held are those for the document as it is.
DocInv ==
    /\ Sound(doc) /\ Sound(before) /\ \A k \in KEPT : doc[k] = before[k]
    /\ at \in STEPS /\ completed \subseteq STEPS /\ round \in 1..MaxRounds /\ IsResult(result)
    /\ Grown(before, doc)
    /\ at \in {"font_repair", "metadata", "link_tag"} =>
           doc.nodes = before.nodes /\ "link_tag" \notin completed
    /\ at = "alt_text" => \A n \in Elements(before) : doc.nodes[n].alt = before.nodes[n].alt
    /\ AnswersHeld(doc, alts) /\ (at # "alt_text" => DOMAIN alts = {})
    /\ "link_tag" \in completed => LinkedOnce(before, doc)
    /\ Described(before, doc)

LEMMA NoAnswers == ASSUME NEW d, NEW texts, DOMAIN texts = {} PROVE AnswersHeld(d, texts)
BY DEF AnswersHeld

LEMMA NothingHeld == DOMAIN <<>> = {}
OBVIOUS

LEMMA NothingDescribed ==
    ASSUME NEW a, NEW e, \A n \in Elements(a) : e.nodes[n].alt = a.nodes[n].alt
    PROVE  Described(a, e)
BY Zenon DEF Described

LEMMA GrownSelf == ASSUME NEW d, Sound(d) PROVE Grown(d, d)
BY SoundTree DEF Grown

\* A document as the tagger leaves it is sound.
LEMMA StartIsSound ==
    ASSUME NEW d, IsDocument(d)
    PROVE  Sound(d)
<1>1. /\ d = [k \in FIELDS |-> d[k]] /\ d.tree \in BOOLEAN /\ d.annots \in Seq(Annot)
      /\ d.images \in Seq(Seq(STRING)) /\ d.meta \subseteq METADATA /\ d.facts \subseteq FACTS
      /\ d.mended.facts \subseteq TEXT_FACTS
  BY DEF IsDocument, FIELDS, Annot
<1>2. d.nodes \in Seq(Node)
  <2> DEFINE N == [parent : Nat, tag : STRING, pg : Nat, alt : AUTHORED, obj : Nat, kids : KFORMS]
  <2>1. d.nodes \in Seq(N)
    BY DEF IsDocument
  <2>2. AUTHORED \subseteq Alts /\ STRING \subseteq Tags
    BY Zenon DEF Alts, Tags
  <2>3. N \subseteq Node
    BY <2>2 DEF Node
  <2> HIDE DEF N
  <2> QED BY <2>1, <2>3
<1> QED BY <1>1, <1>2, Zenon DEF IsDocument, Sound

LEMMA DocInvStarts == ASSUME \E d \in Documents : DocInit(d) PROVE DocInv
<1>1. PICK d \in Documents : DocInit(d)
  OBVIOUS
<1>2. Sound(doc) /\ doc = before /\ at = "font_repair" /\ alts = <<>> /\ completed = {}
      /\ round = 1 /\ result = <<>>
  BY <1>1, DocumentsAssumption, StartIsSound, Zenon DEF DocInit
<1>3. Grown(before, doc) /\ Described(before, doc)
  BY <1>2, GrownSelf, NothingDescribed, Zenon
<1>4. AnswersHeld(doc, alts) /\ DOMAIN alts = {}
  BY <1>2, NoAnswers, NothingHeld, Zenon
<1>5. round \in 1..MaxRounds
  BY <1>2, RoundsAssumption
<1> QED BY <1>2, <1>3, <1>4, <1>5 DEF DocInv, STEPS, IsResult

\* A document is a record of its fields.
HasFields(d) == d = [k \in FIELDS |-> d[k]]

\* A document with another text is otherwise the same.
LEMMA OtherText ==
    ASSUME NEW d, d = [k \in FIELDS |-> d[k]], NEW text, NEW facts,
           NEW e, e = ReadAs(d, text, facts)
    PROVE  /\ HasFields(e)
           /\ e.text = text /\ e.facts = (d.facts \ TEXT_FACTS) \cup facts
           /\ \A k \in FIELDS : k \notin {"text", "facts"} => e[k] = d[k]
<1> DEFINE new == (d.facts \ TEXT_FACTS) \cup facts
<1> DEFINE m == [d EXCEPT !["text"] = text]
<1>1. e = [m EXCEPT !["facts"] = new]
  <2>1. m.facts = d.facts
    BY OneFieldWritten DEF FIELDS
  <2> QED BY <2>1, Zenon DEF ReadAs
<1> HIDE DEF new
<1>2. /\ m = [k \in FIELDS |-> m[k]] /\ m["text"] = text
      /\ \A k \in FIELDS : k # "text" => m[k] = d[k]
  BY OneFieldWritten DEF FIELDS
<1> HIDE DEF m
<1>3. /\ e = [k \in FIELDS |-> e[k]] /\ e["facts"] = new
      /\ \A k \in FIELDS : k # "facts" => e[k] = m[k]
  BY <1>1, <1>2, OneFieldWritten DEF FIELDS
<1>4. e.text = text /\ e.facts = new
  BY <1>2, <1>3 DEF FIELDS
<1> QED BY <1>2, <1>3, <1>4, Zenon DEF new, HasFields

\* The font step writes the fonts and the descriptors, and what is read of the
\* text.
FontsWritten(d, e) ==
    /\ e = [k \in FIELDS |-> e[k]]
    /\ \A k \in FIELDS : k \notin {"fonts", "descs", "text", "facts"} => e[k] = d[k]
    /\ e.facts = d.facts \/ e.facts = (d.facts \ TEXT_FACTS) \cup d.mended.facts
    /\ e.fonts = [f \in DOMAIN d.fonts |-> RepairFont(d, f)]
    /\ e.descs = [x \in DOMAIN d.descs |->
                    IF x \in DescsToRepair(d) THEN RepairCidset(d.descs[x]) ELSE d.descs[x]]

LEMMA RepairKeepsFields ==
    ASSUME NEW d, d = [k \in FIELDS |-> d[k]], NEW e, e = RepairFonts(d)
    PROVE  FontsWritten(d, e)
<1> DEFINE fonts == [f \in DOMAIN d.fonts |-> RepairFont(d, f)]
<1> DEFINE descs == [x \in DOMAIN d.descs |->
                        IF x \in DescsToRepair(d) THEN RepairCidset(d.descs[x]) ELSE d.descs[x]]
<1> DEFINE read == IF fonts = d.fonts THEN d ELSE ReadAs(d, d.mended.text, d.mended.facts)
<1>1. e = [[read EXCEPT !.fonts = fonts] EXCEPT !.descs = descs]
  BY Zenon DEF RepairFonts
<1> HIDE DEF fonts, descs
<1>0. /\ read = [k \in FIELDS |-> read[k]]
      /\ \A k \in FIELDS : k \notin {"text", "facts"} => read[k] = d[k]
      /\ read.facts = d.facts \/ read.facts = (d.facts \ TEXT_FACTS) \cup d.mended.facts
  <2>1. CASE fonts = d.fonts
    <3>1. read = d
      BY <2>1, Zenon
    <3> HIDE DEF read
    <3> QED BY <3>1, Zenon
  <2>2. CASE fonts # d.fonts
    <3>1. read = ReadAs(d, d.mended.text, d.mended.facts)
      BY <2>2, Zenon
    <3> HIDE DEF read
    <3>2. /\ HasFields(read) /\ read.facts = (d.facts \ TEXT_FACTS) \cup d.mended.facts
          /\ \A k \in FIELDS : k \notin {"text", "facts"} => read[k] = d[k]
      BY <3>1, OtherText
    <3> QED BY <3>2, Zenon DEF HasFields
  <2> QED BY <2>1, <2>2, Zenon
<1> HIDE DEF read
<1> DEFINE m == [read EXCEPT !["fonts"] = fonts]
<1>2. /\ m = [k \in FIELDS |-> m[k]] /\ m["fonts"] = fonts
      /\ \A k \in FIELDS : k # "fonts" => m[k] = read[k]
  BY <1>0, OneFieldWritten DEF FIELDS
<1> HIDE DEF m
<1>3. e = [m EXCEPT !["descs"] = descs]
  BY <1>1 DEF m
<1>4. /\ e = [k \in FIELDS |-> e[k]] /\ e["descs"] = descs
      /\ \A k \in FIELDS : k # "descs" => e[k] = m[k]
  BY <1>2, <1>3, OneFieldWritten DEF FIELDS
<1>5. e.fonts = fonts /\ e.facts = read.facts
  BY <1>2, <1>4 DEF FIELDS
<1>6. \A k \in FIELDS : k \notin {"fonts", "descs", "text", "facts"} => e[k] = d[k]
  BY <1>0, <1>2, <1>4, Zenon
<1> QED BY <1>0, <1>4, <1>5, <1>6, Zenon DEF fonts, descs, FontsWritten

LEMMA GrownTwice ==
    ASSUME NEW a, NEW b, NEW c, Sound(a), Sound(b), Sound(c), Grown(a, b), Grown(b, c)
    PROVE  Grown(a, c)
<1>1. /\ Len(a.nodes) \in Nat /\ Elements(a) = 1..Len(a.nodes)
      /\ Len(b.nodes) \in Nat /\ Elements(b) = 1..Len(b.nodes)
      /\ Len(c.nodes) \in Nat /\ Elements(c) = 1..Len(c.nodes)
  BY SoundTree, Zenon
<1>2. Len(a.nodes) =< Len(b.nodes) /\ Len(b.nodes) =< Len(c.nodes)
  BY Zenon DEF Grown
<1>3. Len(a.nodes) =< Len(c.nodes) /\ \A n \in Elements(a) : n \in Elements(b)
  BY <1>1, <1>2
<1>4. \A n \in Elements(a) : /\ c.nodes[n].parent = a.nodes[n].parent
                             /\ c.nodes[n].tag = a.nodes[n].tag
                             /\ c.nodes[n].pg = a.nodes[n].pg
                             /\ c.nodes[n].obj = a.nodes[n].obj
                             /\ c.nodes[n].kids = a.nodes[n].kids
  BY <1>3, Zenon DEF Grown
<1>5. \A n \in Elements(c) \ Elements(a) : c.nodes[n].tag \in {"Link", "OBJR"}
  <2> TAKE n \in Elements(c) \ Elements(a)
  <2>1. CASE n \in Elements(b)
    BY <2>1, Zenon DEF Grown
  <2>2. CASE n \notin Elements(b)
    BY <2>2, Zenon DEF Grown
  <2> QED BY <2>1, <2>2
<1> QED BY <1>3, <1>4, <1>5, Zenon DEF Grown

\* A step that leaves the tree alone: the font step, the metadata step.
LEMMA TreeStepKeeps ==
    ASSUME DocInv, NEW step \in {"font_repair", "metadata"}, NEW output, Completes(step, output),
           UNCHANGED <<alts, result>>,
           output = [k \in FIELDS |-> output[k]],
           \A k \in FIELDS :
               k \notin {"fonts", "descs", "text", "facts", "meta"} => output[k] = doc[k],
           output.meta \subseteq METADATA, output.facts \subseteq FACTS
    PROVE  DocInv'
<1>1. /\ at = step /\ doc' = output /\ completed' = completed \cup {step} /\ before' = before
      /\ round' = round /\ alts' = alts /\ result' = result /\ at' = After(step)
  BY Zenon DEF Completes
<1>2. /\ output.nodes = doc.nodes /\ output.tree = doc.tree /\ output.images = doc.images
      /\ output.annots = doc.annots /\ output.mended = doc.mended
      /\ \A k \in KEPT : output[k] = doc[k]
  BY DEF FIELDS, KEPT
<1>3. Sound(doc) /\ Sound(before) /\ Grown(before, doc) /\ doc.nodes = before.nodes
      /\ "link_tag" \notin completed
  BY <1>1, Zenon DEF DocInv
<1>4. Sound(output) /\ Grown(doc, output)
  BY <1>2, <1>3, TreeUntouched, Zenon
<1>5. Grown(before, output)
  BY <1>3, <1>4, GrownTwice, Zenon
<1>6. Described(before, output)
  BY <1>2, <1>3, NothingDescribed, Zenon
<1>7. DOMAIN alts = {} /\ AnswersHeld(output, alts)
  BY <1>1, NoAnswers, Zenon DEF DocInv
<1>8. at' \in {"metadata", "link_tag"} /\ completed' \subseteq STEPS /\ "link_tag" \notin completed'
  <2>1. completed \subseteq STEPS
    BY Zenon DEF DocInv
  <2> QED BY <1>1, <1>3, <2>1, StepOrder DEF STEPS
<1>9. \A k \in KEPT : output[k] = before[k]
  BY <1>2, Zenon DEF DocInv
<1>10. Sound(doc') /\ Sound(before') /\ (\A k \in KEPT : doc'[k] = before'[k])
  BY <1>1, <1>3, <1>4, <1>9, Zenon
<1>11. /\ at' \in STEPS /\ round' \in 1..MaxRounds /\ IsResult(result')
  BY <1>1, <1>8, Zenon DEF DocInv, STEPS
<1>12. Grown(before', doc') /\ Described(before', doc') /\ AnswersHeld(doc', alts') /\ DOMAIN alts' = {}
  BY <1>1, <1>5, <1>6, <1>7, Zenon
<1>13. at' # "alt_text" /\ doc'.nodes = before'.nodes
  BY <1>1, <1>2, <1>3, <1>8
<1> QED BY <1>8, <1>10, <1>11, <1>12, <1>13, Zenon DEF DocInv

LEMMA LinkStepKeeps == ASSUME DocInv, TagLinks PROVE DocInv'
<1> DEFINE e == WithLinks(doc)
<1>1. /\ at = "link_tag" /\ doc' = e /\ completed' = completed \cup {"link_tag"}
      /\ before' = before /\ round' = round /\ alts' = alts /\ result' = result
      /\ at' = After("link_tag")
  BY Zenon DEF Completes, TagLinks
<1>0. e = WithLinks(doc)
  OBVIOUS
<1> HIDE DEF e
<1>2. Sound(doc) /\ Sound(before) /\ Grown(before, doc) /\ doc.nodes = before.nodes
  BY <1>1, Zenon DEF DocInv
<1>3. /\ Sound(e) /\ Grown(doc, e) /\ \A k \in FIELDS : k # "nodes" => e[k] = doc[k]
      /\ \A n \in Elements(doc) : e.nodes[n] = doc.nodes[n]
  BY <1>0, <1>2, LinksSound
<1>4. Grown(before, e)
  BY <1>2, <1>3, GrownTwice, Zenon
<1>5. \A n \in Elements(before) : e.nodes[n].alt = before.nodes[n].alt
  BY <1>2, <1>3, Zenon DEF Elements
<1>6. Described(before, e)
  BY <1>5, NothingDescribed, Zenon
<1>7. LinkedOnce(before, e)
  <2>1. LinkedOnce(doc, e)
    BY <1>0, <1>2, LinksTaggedOnce, Zenon
  <2>2. \A id : ReferencesInReach(before, id) = ReferencesInReach(doc, id)
    BY <1>2, Zenon DEF ReferencesInReach, Elements, Depth
  <2>3. \A id : References(before, id) = References(doc, id)
    BY <1>2, Zenon DEF References, Elements
  <2> QED BY <2>1, <2>2, <2>3, Zenon DEF LinkedOnce
<1>8. DOMAIN alts = {} /\ AnswersHeld(e, alts)
  BY <1>1, NoAnswers, Zenon DEF DocInv
<1>9. \A k \in KEPT : e[k] = before[k]
  <2>1. KEPT \subseteq FIELDS /\ "nodes" \notin KEPT
    BY DEF KEPT, FIELDS
  <2> QED BY <1>3, <2>1, Zenon DEF DocInv
<1>10. at' = "alt_text" /\ completed' \subseteq STEPS
  <2>1. completed \subseteq STEPS
    BY Zenon DEF DocInv
  <2> QED BY <1>1, <2>1, StepOrder DEF STEPS
<1>11. /\ at' \in STEPS /\ round' \in 1..MaxRounds /\ IsResult(result')
  BY <1>1, <1>10, Zenon DEF DocInv, STEPS
<1>12. /\ Sound(doc') /\ Sound(before') /\ \A k \in KEPT : doc'[k] = before'[k]
  BY <1>1, <1>2, <1>3, <1>9, Zenon
<1>13. /\ Grown(before', doc') /\ Described(before', doc') /\ AnswersHeld(doc', alts')
       /\ DOMAIN alts' = {} /\ LinkedOnce(before', doc')
       /\ \A n \in Elements(before') : doc'.nodes[n].alt = before'.nodes[n].alt
  BY <1>1, <1>4, <1>5, <1>6, <1>7, <1>8, Zenon
<1>14. at' \notin {"font_repair", "metadata", "link_tag"}
  BY <1>10
<1> QED BY <1>10, <1>11, <1>12, <1>13, <1>14, Zenon DEF DocInv

LEMMA DescribeKeeps == ASSUME DocInv, Describe PROVE DocInv'
<1>1. at = "alt_text" /\ UNCHANGED <<doc, before, at, completed, round, result>>
  BY Zenon DEF Describe
<1>2. PICK ref \in FigureRefs(doc) : \E answer \in Answers(CandidateImage(doc, ref)) :
         alts' = [r \in DOMAIN alts \cup {ref} |-> IF r = ref THEN answer ELSE alts[r]]
  BY Zenon DEF Describe
<1>3. PICK answer \in Answers(CandidateImage(doc, ref)) :
         alts' = [r \in DOMAIN alts \cup {ref} |-> IF r = ref THEN answer ELSE alts[r]]
  BY <1>2
<1>4. AnswersHeld(doc, alts)
  BY Zenon DEF DocInv
<1>5. /\ DOMAIN alts' = DOMAIN alts \cup {ref} /\ alts'[ref] = answer
      /\ \A r \in DOMAIN alts : r # ref => alts'[r] = alts[r]
  BY <1>3
<1>6. AnswersHeld(doc, alts')
  <2> SUFFICES ASSUME NEW r \in DOMAIN alts'
               PROVE  r \in FigureRefs(doc) /\ alts'[r] \in Answers(CandidateImage(doc, r))
    BY Zenon DEF AnswersHeld
  <2>1. CASE r = ref
    BY <1>3, <1>5, <2>1, Zenon
  <2>2. CASE r # ref
    BY <1>4, <1>5, <2>2, Zenon DEF AnswersHeld
  <2> QED BY <2>1, <2>2
<1> QED BY <1>1, <1>6, Zenon DEF DocInv

LEMMA WriteKeeps == ASSUME DocInv, WriteAltText PROVE DocInv'
<1> DEFINE e == WithAltText(doc, alts)
<1>1. /\ at = "alt_text" /\ doc' = e /\ completed' = completed \cup {"alt_text"}
      /\ before' = before /\ round' = round /\ alts' = <<>> /\ result' = result
      /\ at' = After("alt_text")
  BY Zenon DEF Completes, WriteAltText
<1>0. e = WithAltText(doc, alts)
  OBVIOUS
<1> HIDE DEF e
<1>2. /\ Sound(doc) /\ Sound(before) /\ Grown(before, doc) /\ AnswersHeld(doc, alts)
      /\ \A n \in Elements(before) : doc.nodes[n].alt = before.nodes[n].alt
  BY <1>1, Zenon DEF DocInv
<1>3. \A r \in DOMAIN alts : alts[r] \in Alts
  BY <1>2, AnswersAreTexts, Zenon
<1>4. /\ Sound(e) /\ Grown(doc, e) /\ \A k \in FIELDS : k # "nodes" => e[k] = doc[k]
      /\ Elements(e) = Elements(doc)
  BY <1>0, <1>2, <1>3, AltTextWritten
<1>5. Grown(before, e)
  BY <1>2, <1>4, GrownTwice, Zenon
<1>6. Described(before, e)
  BY <1>0, <1>2, DescribedByStep
<1>7. "link_tag" \in completed => LinkedOnce(before, e)
  <2> HAVE "link_tag" \in completed
  <2>1. LinkedOnce(before, doc)
    BY Zenon DEF DocInv
  <2>2. \A n \in Elements(doc) : e.nodes[n].tag = doc.nodes[n].tag /\ e.nodes[n].obj = doc.nodes[n].obj
    BY <1>4, Zenon DEF Grown
  <2>3. e.tree = doc.tree /\ e.annots = doc.annots
    BY <1>4 DEF FIELDS
  <2> QED BY <1>4, <2>1, <2>2, <2>3, LinkedOnceStays
<1>8. DOMAIN alts' = {} /\ AnswersHeld(e, alts')
  BY <1>1, NoAnswers, NothingHeld, Zenon
<1>9. \A k \in KEPT : e[k] = before[k]
  <2>1. KEPT \subseteq FIELDS /\ "nodes" \notin KEPT
    BY DEF KEPT, FIELDS
  <2> QED BY <1>4, <2>1, Zenon DEF DocInv
<1>10. at' = "scoring" /\ completed' \subseteq STEPS /\ ("link_tag" \in completed' => "link_tag" \in completed)
  <2>1. completed \subseteq STEPS
    BY Zenon DEF DocInv
  <2> QED BY <1>1, <2>1, StepOrder DEF STEPS
<1>11. /\ at' \in STEPS /\ round' \in 1..MaxRounds /\ IsResult(result')
  BY <1>1, <1>10, Zenon DEF DocInv, STEPS
<1>12. /\ Sound(doc') /\ Sound(before') /\ \A k \in KEPT : doc'[k] = before'[k]
  BY <1>1, <1>2, <1>4, <1>9, Zenon
<1>13. /\ Grown(before', doc') /\ Described(before', doc') /\ AnswersHeld(doc', alts')
       /\ DOMAIN alts' = {} /\ ("link_tag" \in completed' => LinkedOnce(before', doc'))
  BY <1>1, <1>5, <1>6, <1>7, <1>8, <1>10, Zenon
<1>14. at' \notin {"font_repair", "metadata", "link_tag", "alt_text"}
  BY <1>10
<1> QED BY <1>10, <1>11, <1>12, <1>13, <1>14, Zenon DEF DocInv

LEMMA ScoreKeeps == ASSUME DocInv, ScoreDocument PROVE DocInv'
<1>1. /\ at = "scoring" /\ doc' = doc /\ completed' = completed \cup {"scoring"}
      /\ before' = before /\ round' = round /\ alts' = alts
      /\ result' = <<Score(doc), Grade(Score(doc))>> /\ at' = After("scoring")
  BY Zenon DEF Completes, ScoreDocument
<1>2. IsResult(result')
  <2>1. Score(doc) \in 0..100
    BY ScoreBounds
  <2>2. Grade(Score(doc)) \in {"A", "B", "C", "D", "F"}
    BY <2>1, GradeKinds
  <2> QED BY <1>1, <2>1, <2>2 DEF IsResult
<1>3. at' = "done" /\ completed' \subseteq STEPS /\ ("link_tag" \in completed' => "link_tag" \in completed)
  <2>1. completed \subseteq STEPS
    BY Zenon DEF DocInv
  <2> QED BY <1>1, <2>1, StepOrder DEF STEPS
<1>4. at' \in STEPS /\ at' \notin {"font_repair", "metadata", "link_tag", "alt_text"}
  BY <1>3 DEF STEPS
<1>5. DOMAIN alts = {}
  BY <1>1, Zenon DEF DocInv
<1> QED BY <1>1, <1>2, <1>3, <1>4, <1>5, Zenon DEF DocInv

LEMMA FailKeeps == ASSUME DocInv, StepFails PROVE DocInv'
<1>1. /\ at # "done" /\ at' = After(at) /\ alts' = <<>>
      /\ UNCHANGED <<doc, before, completed, round, result>>
  BY Zenon DEF StepFails
<1>2. DOMAIN alts' = {} /\ AnswersHeld(doc, alts')
  BY <1>1, NoAnswers, NothingHeld, Zenon
<1>3. /\ at' \in STEPS
      /\ at' \in {"font_repair", "metadata", "link_tag"} => at \in {"font_repair", "metadata"}
      /\ at' = "alt_text" => at = "link_tag"
  <2>1. at \in STEPS
    BY Zenon DEF DocInv
  <2> QED BY <1>1, <2>1, StepOrder DEF STEPS
<1>4. at' \in {"font_repair", "metadata", "link_tag"} =>
         doc.nodes = before.nodes /\ "link_tag" \notin completed
  BY <1>3, Zenon DEF DocInv
<1>5. at' = "alt_text" => \A n \in Elements(before) : doc.nodes[n].alt = before.nodes[n].alt
  BY <1>3, Zenon DEF DocInv
<1> QED BY <1>1, <1>2, <1>3, <1>4, <1>5, Zenon DEF DocInv

LEMMA ResubmitKeeps == ASSUME DocInv, Resubmit PROVE DocInv'
<1>1. /\ at = "done" /\ round < MaxRounds /\ round' = round + 1 /\ before' = doc
      /\ at' = "font_repair" /\ completed' = {} /\ result' = <<>> /\ doc' = doc /\ alts' = alts
  BY Zenon DEF Resubmit
<1>2. Sound(doc) /\ DOMAIN alts = {}
  BY <1>1 DEF DocInv
<1>3. Grown(doc, doc) /\ Described(doc, doc) /\ AnswersHeld(doc, alts)
  BY <1>2, GrownSelf, NothingDescribed, NoAnswers
<1>4. round' \in 1..MaxRounds
  BY <1>1, RoundsAssumption DEF DocInv
<1>5. at' # "alt_text" /\ at' \in STEPS /\ "link_tag" \notin completed' /\ completed' \subseteq STEPS
  BY <1>1 DEF STEPS
<1>6. IsResult(result')
  BY <1>1, Zenon DEF IsResult
<1> QED BY <1>1, <1>2, <1>3, <1>4, <1>5, <1>6, Zenon DEF DocInv

LEMMA DocInvKept == ASSUME DocInv, [DocNext]_docVars PROVE DocInv'
<1>1. CASE FontRepairStep
  <2> DEFINE e == RepairFonts(doc)
  <2>1. Completes("font_repair", e) /\ UNCHANGED <<alts, result>>
    BY <1>1, Zenon DEF FontRepairStep
  <2>0. e = RepairFonts(doc)
    OBVIOUS
  <2> HIDE DEF e
  <2>2. /\ doc = [k \in FIELDS |-> doc[k]] /\ doc.meta \subseteq METADATA
        /\ doc.facts \subseteq FACTS /\ doc.mended.facts \subseteq FACTS
    <3>1. TEXT_FACTS \subseteq FACTS
      BY DEF TEXT_FACTS, FACTS
    <3> QED BY <3>1, Zenon DEF DocInv, Sound
  <2>3. /\ e = [k \in FIELDS |-> e[k]]
        /\ \A k \in FIELDS : k \notin {"fonts", "descs", "text", "facts"} => e[k] = doc[k]
        /\ e.facts = doc.facts \/ e.facts = (doc.facts \ TEXT_FACTS) \cup doc.mended.facts
    <3>1. FontsWritten(doc, e)
      BY <2>0, <2>2, RepairKeepsFields
    <3> QED BY <3>1, Zenon DEF FontsWritten
  <2>4. e.meta \subseteq METADATA
    BY <2>2, <2>3 DEF FIELDS
  <2>5. e.facts \subseteq FACTS
    BY <2>2, <2>3, Zenon
  <2> QED BY <2>1, <2>3, <2>4, <2>5, TreeStepKeeps
<1>2. CASE FinalizeMetadata
  <2> DEFINE e == [doc EXCEPT !["meta"] = METADATA]
  <2>1. Completes("metadata", e) /\ UNCHANGED <<alts, result>>
    BY <1>2, Zenon DEF FinalizeMetadata
  <2>2. doc = [k \in FIELDS |-> doc[k]]
    BY Zenon DEF DocInv, Sound
  <2>3. /\ e = [k \in FIELDS |-> e[k]] /\ e["meta"] = METADATA
        /\ \A k \in FIELDS : k # "meta" => e[k] = doc[k]
    BY <2>2, OneFieldWritten DEF FIELDS
  <2> HIDE DEF e
  <2>4. e.facts \subseteq FACTS
    <3>1. e.facts = doc.facts
      BY <2>3 DEF FIELDS
    <3> QED BY <3>1, Zenon DEF DocInv, Sound
  <2> QED BY <2>1, <2>3, <2>4, TreeStepKeeps
<1>3. CASE TagLinks
  BY <1>3, LinkStepKeeps
<1>4. CASE Describe
  BY <1>4, DescribeKeeps
<1>5. CASE WriteAltText
  BY <1>5, WriteKeeps
<1>6. CASE ScoreDocument
  BY <1>6, ScoreKeeps
<1>7. CASE StepFails
  BY <1>7, FailKeeps
<1>8. CASE Resubmit
  BY <1>8, ResubmitKeeps
<1>9. CASE UNCHANGED docVars
  BY <1>9, Zenon DEF DocInv, docVars
<1> QED BY <1>1, <1>2, <1>3, <1>4, <1>5, <1>6, <1>7, <1>8, <1>9, Zenon DEF DocNext

LEMMA DocInvHolds == DocSpec => []DocInv
<1>1. (\E d \in Documents : DocInit(d)) => DocInv
  BY DocInvStarts
<1>2. DocInv /\ [DocNext]_docVars => DocInv'
  BY DocInvKept
<1> QED BY <1>1, <1>2, PTL DEF DocSpec

-----------------------------------------------------------------------------
\* The walks of the alt text step, the quality report and the scorer agree on what
\* is left to do, whatever the document, the depth limits and the steps that fail
\* (alt_text/pike_pdf.py _collect_figure_elements, pdf_quality.py visit,
\* scoring/pike_pdf.py _walk_struct_tree).
THEOREM WalksAlwaysAgree == DocSpec => []WalksAgree
<1>1. DocInv => WalksAgree
  <2> HAVE DocInv
  <2>1. Sound(doc)
    BY Zenon DEF DocInv
  <2>2. CandidatesAreReported
    BY <2>1, CandidatesReported DEF CandidatesAreReported
  <2>3. HeaderlessTablesAreScored
    BY <2>1, HeaderlessScored DEF HeaderlessTablesAreScored
  <2> QED BY <2>2, <2>3, Zenon DEF WalksAgree
<1> QED BY <1>1, DocInvHolds, PTL

\* The steps, in any order of failures and over any number of rounds, leave a
\* well-formed tree that refers to every link annotation once
\* (link/pike_pdf.py _collect_tagged_annotation_objids, _tag_link_annotations).
THEOREM TreeAlwaysSound == DocSpec => []TreeStaysSound
<1>1. DocInv => TreeStaysSound
  <2> HAVE DocInv
  <2>1. /\ IsTree(doc) /\ doc.meta \subseteq METADATA /\ doc.facts \subseteq FACTS
    BY Zenon DEF DocInv, Sound
  <2>2. at \in ToSet(STEP_ORDER) /\ completed \subseteq ToSet(STEP_ORDER)
    BY StepOrder, Zenon DEF DocInv, STEPS
  <2>3. \A r \in DOMAIN alts : r \in FigureRefs(doc)
    BY Zenon DEF DocInv, AnswersHeld
  <2>4. DocTypeOK
    BY <2>1, <2>2, <2>3, Zenon DEF DocTypeOK, DocInv, IsResult
  <2>5. LinksReferencedOnce
    <3>1. "link_tag" \in completed => LinkedOnce(before, doc)
      BY Zenon DEF DocInv
    <3>2. LinkedOnce(before, doc) /\ doc.tree =>
             \A i \in DOMAIN doc.annots :
                doc.annots[i].sub = "Link" /\ doc.annots[i].id # 0
                   /\ ReferencesInReach(before, doc.annots[i].id)
                => References(doc, doc.annots[i].id) = Max({1, References(before, doc.annots[i].id)})
      BY Zenon DEF LinkedOnce
    <3> QED BY <3>1, <3>2, Zenon DEF LinksReferencedOnce
  <2> QED BY <2>4, <2>5, Zenon DEF TreeStaysSound
<1> QED BY <1>1, DocInvHolds, PTL

\* A description is written to the figure whose image (or page) was sent, and to no
\* figure an author or an earlier round described: the references survive from the
\* collection to the writing (alt_text/pike_pdf.py _collect_figure_elements,
\* write_alt_text).
THEOREM AlwaysDescribedFromOwnImage == DocSpec => []DescribedFromOwnImage
<1>1. DocInv => DescribedFromOwnImage
  BY Zenon DEF DocInv, DescribedFromOwnImage, Described
<1> QED BY <1>1, DocInvHolds, PTL

-----------------------------------------------------------------------------
(* No step makes it worse. *)

\* What every step does to the document, the text apart: the tree grows by links,
\* and an /Alt that changes does not become empty.
NoWorse(d, e) ==
    /\ Sound(d) /\ Sound(e) /\ Grown(d, e)
    /\ e.tree = d.tree /\ e.images = d.images /\ e.text = d.text /\ e.facts = d.facts
    /\ \A n \in Elements(d) : \/ e.nodes[n].alt = d.nodes[n].alt
                              \/ e.nodes[n].alt # Blank

\* No /Alt becomes a placeholder.
NoPlaceholders(d, e) ==
    \A n \in Elements(d) : \/ e.nodes[n].alt = d.nodes[n].alt
                           \/ e.nodes[n].alt \notin {ImageN, FigureN}

\* An old node is as it was, a new one a link.
LEMMA OldNodes ==
    ASSUME NEW d, NEW e, NoWorse(d, e)
    PROVE  /\ \A n \in Elements(d) : /\ n \in Elements(e) /\ e.nodes[n].tag = d.nodes[n].tag
                                     /\ e.nodes[n].kids = d.nodes[n].kids
                                     /\ e.nodes[n].parent = d.nodes[n].parent
                                     /\ Depth(e, n) = Depth(d, n)
                                     /\ PathTo(e.nodes)[n] = PathTo(d.nodes)[n]
           /\ \A n \in Elements(e) : e.nodes[n].tag \notin {"Link", "OBJR"} => n \in Elements(d)
<1>1. Sound(d) /\ Sound(e) /\ Grown(d, e)
  BY Zenon DEF NoWorse
<1>2. \A n \in Elements(d) : /\ n \in Elements(e) /\ Depth(d, n) = Depth(e, n)
                             /\ PathTo(d.nodes)[n] = PathTo(e.nodes)[n]
  BY <1>1, GrownKeeps
<1> QED BY <1>1, <1>2, Zenon DEF Grown

LEMMA SameReportPage ==
    ASSUME NEW d, NEW e, NoWorse(d, e), NEW n \in Elements(d)
    PROVE  ReportPage(e, n) = ReportPage(d, n)
<1> DEFINE way == PathTo(d.nodes)[n] \ {0}
<1> DEFINE kd == {m \in way : d.nodes[m].pg \in Pages(d)}
<1> DEFINE ke == {m \in way : e.nodes[m].pg \in Pages(e)}
<1>1. Sound(d) /\ Grown(d, e) /\ Pages(e) = Pages(d) /\ PathTo(e.nodes)[n] = PathTo(d.nodes)[n]
  <2>1. PathTo(e.nodes)[n] = PathTo(d.nodes)[n]
    BY OldNodes
  <2> QED BY <2>1, Zenon DEF NoWorse, Pages
<1>2. n \in Nat /\ way \subseteq 0..n /\ way \subseteq Elements(d)
  <2>1. PathTo(d.nodes)[n] \subseteq 0..n /\ n \in Nat \ {0}
    BY <1>1, SoundPaths, Zenon
  <2>2. Elements(d) = 1..Len(d.nodes) /\ Len(d.nodes) \in Nat
    BY <1>1, SoundTree, Zenon
  <2> QED BY <2>1, <2>2
<1>3. \A m \in Elements(d) : e.nodes[m].pg = d.nodes[m].pg
  BY <1>1, Zenon DEF Grown
<1>4. ReportPage(d, n) = IF kd = {} THEN 0 ELSE d.nodes[Max(kd)].pg
  BY Zenon DEF ReportPage
<1>5. ReportPage(e, n) = IF ke = {} THEN 0 ELSE e.nodes[Max(ke)].pg
  BY <1>1, Zenon DEF ReportPage
<1> HIDE DEF way
<1>6. ke = kd /\ kd \subseteq 0..n /\ kd \subseteq Elements(d)
  BY <1>1, <1>2, <1>3, Zenon
<1> HIDE DEF kd, ke
<1>7. kd # {} => Max(kd) \in kd
  BY <1>2, <1>6, MaxIsGreatest, Zenon
<1>8. CASE kd = {}
  BY <1>4, <1>5, <1>6, <1>8
<1>9. CASE kd # {}
  BY <1>3, <1>4, <1>5, <1>6, <1>7, <1>9
<1> QED BY <1>8, <1>9

\* What is counted by its role is counted as before, but for links.
LEMMA SameTags ==
    ASSUME NEW d, NEW e, NoWorse(d, e), NEW tags, "Link" \notin tags, "OBJR" \notin tags
    PROVE  /\ WithTag(e, tags) = WithTag(d, tags) /\ WithTag(d, tags) \subseteq Elements(d)
           /\ \A n \in WithTag(d, tags) : d.nodes[n].tag \in tags
<1>1. \A n \in WithTag(e, tags) : n \in WithTag(d, tags)
  <2> TAKE n \in WithTag(e, tags)
  <2>1. n \in Elements(e) /\ ReportPage(e, n) # 0 /\ e.nodes[n].tag # "OBJR" /\ e.nodes[n].tag \in tags
    BY Zenon DEF WithTag, Counted
  <2>2. n \in Elements(d)
    BY <2>1, OldNodes
  <2>3. e.nodes[n].tag = d.nodes[n].tag /\ ReportPage(e, n) = ReportPage(d, n)
    BY <2>2, OldNodes, SameReportPage
  <2> QED BY <2>1, <2>2, <2>3, Zenon DEF WithTag, Counted
<1>2. \A n \in WithTag(d, tags) : n \in WithTag(e, tags)
  <2> TAKE n \in WithTag(d, tags)
  <2>1. n \in Elements(d) /\ ReportPage(d, n) # 0 /\ d.nodes[n].tag # "OBJR" /\ d.nodes[n].tag \in tags
    BY Zenon DEF WithTag, Counted
  <2>2. n \in Elements(e) /\ e.nodes[n].tag = d.nodes[n].tag /\ ReportPage(e, n) = ReportPage(d, n)
    BY <2>1, OldNodes, SameReportPage
  <2> QED BY <2>1, <2>2, Zenon DEF WithTag, Counted
<1>3. WithTag(d, tags) \subseteq Elements(d) /\ \A n \in WithTag(d, tags) : d.nodes[n].tag \in tags
  BY Zenon DEF WithTag, Counted
<1> QED BY <1>1, <1>2, <1>3, Zenon

\* The scorer finds no table without headers it did not find before.
LEMMA SameTables ==
    ASSUME NEW d, NEW e, NoWorse(d, e), NEW n \in Elements(d), LacksHeader(e, n)
    PROVE  LacksHeader(d, n)
<1>1. ASSUME NEW g \in Elements(d)
      PROVE  /\ ArrayKids(d, g) \subseteq ArrayKids(e, g) /\ ArrayKids(d, g) \subseteq Elements(d)
             /\ \A m \in ArrayKids(e, g) : e.nodes[m].tag \notin {"Link", "OBJR"} => m \in ArrayKids(d, g)
  <2>1. /\ \A m \in Elements(d) : /\ m \in Elements(e) /\ e.nodes[m].kids = d.nodes[m].kids
                                  /\ e.nodes[m].parent = d.nodes[m].parent
        /\ \A m \in Elements(e) : e.nodes[m].tag \notin {"Link", "OBJR"} => m \in Elements(d)
    BY OldNodes
  <2> QED BY <2>1, Zenon DEF ArrayKids, Kids
<1> DEFINE gd == {g \in ArrayKids(d, n) : d.nodes[g].tag \in ROW_GROUPS}
<1> DEFINE ge == {g \in ArrayKids(e, n) : e.nodes[g].tag \in ROW_GROUPS}
<1>2. \A m \in Elements(d) : e.nodes[m].tag = d.nodes[m].tag
  BY OldNodes
<1>3. "Link" \notin ROW_GROUPS /\ "OBJR" \notin ROW_GROUPS
  BY DEF ROW_GROUPS
<1>4. ge = gd /\ gd \subseteq Elements(d)
  BY <1>1, <1>2, <1>3, Zenon
<1>5. TableRows(d, n) = {m \in ArrayKids(d, n) \cup UNION {ArrayKids(d, g) : g \in gd} :
                            d.nodes[m].tag = "TR"}
  BY Zenon DEF TableRows
<1>6. TableRows(e, n) = {m \in ArrayKids(e, n) \cup UNION {ArrayKids(e, g) : g \in ge} :
                            e.nodes[m].tag = "TR"}
  BY Zenon DEF TableRows
<1> HIDE DEF gd, ge
<1>7. TableRows(e, n) = TableRows(d, n)
  <2>1. ASSUME NEW m \in TableRows(e, n) PROVE m \in TableRows(d, n)
    <3>1. e.nodes[m].tag = "TR" /\ e.nodes[m].tag \notin {"Link", "OBJR"}
      BY <1>6, <2>1
    <3>2. CASE m \in ArrayKids(e, n)
      <4>1. m \in ArrayKids(d, n) /\ m \in Elements(d)
        BY <1>1, <3>1, <3>2, Zenon
      <4> QED BY <1>2, <1>5, <3>1, <4>1, Zenon
    <3>3. CASE \E g \in ge : m \in ArrayKids(e, g)
      <4>1. PICK g \in gd : m \in ArrayKids(e, g)
        BY <1>4, <3>3, Zenon
      <4>2. m \in ArrayKids(d, g) /\ m \in Elements(d)
        BY <1>1, <1>4, <3>1, <4>1, Zenon
      <4> QED BY <1>2, <1>5, <3>1, <4>2, Zenon
    <3> QED BY <1>6, <2>1, <3>2, <3>3, Zenon
  <2>2. ASSUME NEW m \in TableRows(d, n) PROVE m \in TableRows(e, n)
    <3>1. d.nodes[m].tag = "TR"
      BY <1>5, <2>2, Zenon
    <3>2. CASE m \in ArrayKids(d, n)
      <4>1. m \in ArrayKids(e, n) /\ m \in Elements(d)
        BY <1>1, <3>2, Zenon
      <4> QED BY <1>2, <1>6, <3>1, <4>1, Zenon
    <3>3. CASE \E g \in gd : m \in ArrayKids(d, g)
      <4>1. PICK g \in gd : m \in ArrayKids(d, g)
        BY <3>3, Zenon
      <4>2. m \in ArrayKids(e, g) /\ m \in Elements(d)
        BY <1>1, <1>4, <4>1, Zenon
      <4> QED BY <1>2, <1>4, <1>6, <3>1, <4>1, <4>2, Zenon
    <3> QED BY <1>5, <2>2, <3>2, <3>3, Zenon
  <2> QED BY <2>1, <2>2, Zenon
<1> DEFINE first == Min(TableRows(d, n))
<1>8. /\ Cardinality(TableRows(d, n)) >= 2 /\ e.nodes[first].kids # "mixed"
      /\ \A m \in ArrayKids(e, first) : e.nodes[m].tag # "TH"
  BY <1>7, Zenon DEF LacksHeader, FirstRow
<1>9. first \in Elements(d)
  <2> DEFINE rows == TableRows(d, n)
  <2>1. rows \subseteq Elements(d)
    BY <1>1, <1>4, <1>5, Zenon
  <2>2. Elements(d) = 1..Len(d.nodes) /\ Len(d.nodes) \in Nat
    BY SoundTree, Zenon DEF NoWorse
  <2> HIDE DEF rows
  <2>3. rows # {}
    BY <1>8, FS_EmptySet DEF rows
  <2>4. rows \subseteq Nat
    BY <2>1, <2>2
  <2>5. Min(rows) \in rows
    BY <2>3, <2>4, MinIsLeast
  <2> QED BY <2>1, <2>5, Zenon DEF rows
<1> HIDE DEF first
<1>10. \A m \in ArrayKids(d, first) : d.nodes[m].tag # "TH"
  BY <1>1, <1>2, <1>8, <1>9, Zenon
<1>11. d.nodes[first].kids # "mixed"
  BY <1>8, <1>9, OldNodes
<1> QED BY <1>8, <1>10, <1>11, Zenon DEF LacksHeader, FirstRow, first

LEMMA FewerFound ==
    ASSUME NEW d, NEW e, NoWorse(d, e)
    PROVE  Issues(e) \subseteq Issues(d)
<1>1. e.tree = d.tree /\ e.facts = d.facts /\ e.images = d.images
  BY Zenon DEF NoWorse
<1>2. ImagesWithoutAlt(e) \subseteq ImagesWithoutAlt(d)
  <2> SUFFICES ASSUME NEW n \in ImagesWithoutAlt(e) PROVE n \in ImagesWithoutAlt(d)
    BY Zenon
  <2>1. n \in Elements(e) /\ Depth(e, n) =< SCORE_DEPTH /\ e.nodes[n].tag = "Figure" /\ e.nodes[n].alt = Blank
    BY Zenon DEF ImagesWithoutAlt, Walked
  <2>2. n \in Elements(d) /\ Depth(e, n) = Depth(d, n) /\ e.nodes[n].tag = d.nodes[n].tag
    BY <2>1, OldNodes
  <2>3. d.nodes[n].alt = Blank
    BY <2>1, <2>2, Zenon DEF NoWorse
  <2> QED BY <2>1, <2>2, <2>3, Zenon DEF ImagesWithoutAlt, Walked
<1>3. HasImages(e) = HasImages(d)
  BY <1>1, Zenon DEF HasImages, Pages
<1>4. HasHeadings(d) => HasHeadings(e)
  <2>1. \A n \in Walked(d) : n \in Walked(e) /\ e.nodes[n].tag = d.nodes[n].tag
    <3>1. \A n \in Elements(d) : /\ n \in Elements(e) /\ e.nodes[n].tag = d.nodes[n].tag
                                 /\ Depth(e, n) = Depth(d, n)
      BY OldNodes
    <3> QED BY <3>1, Zenon DEF Walked
  <2> QED BY <1>1, <2>1, Zenon DEF HasHeadings
<1>5. TablesWithoutHeaders(e) \subseteq TablesWithoutHeaders(d)
  <2> SUFFICES ASSUME NEW n \in TablesWithoutHeaders(e) PROVE n \in TablesWithoutHeaders(d)
    BY Zenon
  <2>1. n \in Elements(e) /\ Depth(e, n) =< SCORE_DEPTH /\ e.nodes[n].tag = "Table" /\ LacksHeader(e, n)
    BY Zenon DEF TablesWithoutHeaders, Walked
  <2>2. n \in Elements(d) /\ Depth(e, n) = Depth(d, n) /\ e.nodes[n].tag = d.nodes[n].tag
    BY <2>1, OldNodes
  <2>3. LacksHeader(d, n)
    BY <2>1, <2>2, SameTables
  <2> QED BY <2>1, <2>2, <2>3, Zenon DEF TablesWithoutHeaders, Walked
<1> DEFINE img(x) == ImagesWithoutAlt(x) # {} /\ HasImages(x)
<1> DEFINE tab(x) == TablesWithoutHeaders(x) # {}
<1>6. (img(e) => img(d)) /\ (tab(e) => tab(d))
  BY <1>2, <1>3, <1>5, Zenon
<1> HIDE DEF img, tab
<1> SUFFICES ASSUME NEW i \in Issues(e) PROVE i \in Issues(d)
  BY Zenon
<1>7. i \in DOMAIN DEDUCTIONS
  BY Zenon DEF Issues
<1>8. CASE i = "missing_alt_text"
  <2>1. img(e)
    BY <1>8 DEF Issues, img
  <2>2. img(d)
    BY <1>6, <2>1
  <2> QED BY <1>7, <1>8, <2>2 DEF Issues, img
<1>9. CASE i = "complex_tables"
  <2>1. tab(e)
    BY <1>9 DEF Issues, tab
  <2>2. tab(d)
    BY <1>6, <2>1
  <2> QED BY <1>7, <1>9, <2>2 DEF Issues, tab
<1>10. CASE i = "missing_headings"
  <2>1. ~HasHeadings(e) /\ Len(e.images) > HEADING_PAGES
    BY <1>10 DEF Issues
  <2>2. ~HasHeadings(d) /\ Len(d.images) > HEADING_PAGES
    BY <1>1, <1>4, <2>1, Zenon
  <2> QED BY <1>7, <1>10, <2>2 DEF Issues
<1>11. CASE i \notin {"missing_alt_text", "complex_tables", "missing_headings"}
  <2>1. i \in {"no_structure_tree", "no_text_layer", "form_no_tooltips", "missing_bookmarks",
               "unembedded_fonts", "vague_hyperlinks", "color_contrast"}
    BY <1>7, <1>11, DeductionKinds
  <2> QED BY <1>1, <1>7, <2>1 DEF Issues
<1> QED BY <1>8, <1>9, <1>10, <1>11

\* A total the comparison judges, of a document and of a later one.
Count(d, t) == StructureTotals(d)[t]
JUDGED == {"empty_pages", "figures_without_alt", "figures_with_placeholder_alt",
           "tables_without_headers", "heading_level_skips"}

LEMMA SameHeadings ==
    ASSUME NEW d, NEW e, NoWorse(d, e), NEW S, S = WithTag(d, HEADING_TAGS)
    PROVE  /\ WithTag(e, HEADING_TAGS) = S /\ HeadingLevels(e, S) = HeadingLevels(d, S)
           /\ Len(HeadingLevels(d, S)) \in Nat
<1>1. "Link" \notin HEADING_TAGS /\ "OBJR" \notin HEADING_TAGS
  BY DEF HEADING_TAGS
<1>2. WithTag(e, HEADING_TAGS) = S /\ S \subseteq Elements(d)
  BY <1>1, SameTags
<1>3. Len(d.nodes) \in Nat /\ S \subseteq 0..Len(d.nodes)
  <2>1. Elements(d) = 1..Len(d.nodes) /\ Len(d.nodes) \in Nat
    BY SoundTree, Zenon DEF NoWorse
  <2> QED BY <1>2, <2>1
<1> DEFINE C == Cardinality(S)
<1> DEFINE order == Ascending(S)
<1>4. C \in Nat /\ order \in [1..C -> S]
  BY <1>3, AscendingOnce, Zenon
<1> HIDE DEF C
<1>5. Len(order) = C
  <2> HIDE DEF order
  <2> QED BY <1>4, FunctionIsSequence
<1>6. \A n \in S : e.nodes[n].tag = d.nodes[n].tag
  BY <1>2, OldNodes
<1>7. HeadingLevels(d, S) = [i \in 1..C |-> HeadingLevel[d.nodes[order[i]].tag]]
  BY <1>5, Zenon DEF HeadingLevels
<1>8. HeadingLevels(e, S) = [i \in 1..C |-> HeadingLevel[e.nodes[order[i]].tag]]
  BY <1>5, Zenon DEF HeadingLevels
<1> HIDE DEF order
<1>9. \A i \in 1..C : HeadingLevel[e.nodes[order[i]].tag] = HeadingLevel[d.nodes[order[i]].tag]
  BY <1>4, <1>6
<1>10. HeadingLevels(e, S) = HeadingLevels(d, S)
  BY <1>7, <1>8, <1>9, Zenon
<1>11. Len(HeadingLevels(d, S)) = C
  <2> DEFINE levels == HeadingLevels(d, S)
  <2> DEFINE T == {HeadingLevel[d.nodes[order[i]].tag] : i \in 1..C}
  <2>1. levels \in [1..C -> T]
    BY <1>7
  <2> HIDE DEF T, levels
  <2>2. Len(levels) = C
    BY <1>4, <2>1, FunctionIsSequence
  <2> QED BY <2>2 DEF levels
<1> QED BY <1>2, <1>4, <1>10, <1>11

LEMMA FewerFigures ==
    ASSUME NEW d, NEW e, NoWorse(d, e)
    PROVE  /\ Undescribed(e) \subseteq Undescribed(d)
           /\ NoPlaceholders(d, e) => Placeholders(e) \subseteq Placeholders(d)
           /\ Headerless(e) \subseteq Headerless(d)
<1>1. /\ WithTag(e, {"Figure"}) = WithTag(d, {"Figure"}) /\ WithTag(d, {"Figure"}) \subseteq Elements(d)
  BY SameTags
<1>2. /\ WithTag(e, {"Table"}) = WithTag(d, {"Table"}) /\ WithTag(d, {"Table"}) \subseteq Elements(d)
  BY SameTags
<1>3. \A n \in Elements(d) : \/ e.nodes[n].alt = d.nodes[n].alt
                             \/ e.nodes[n].alt # Blank
  BY Zenon DEF NoWorse
<1>4. Undescribed(e) \subseteq Undescribed(d)
  BY <1>1, <1>3, Zenon DEF Undescribed
<1>5. NoPlaceholders(d, e) => Placeholders(e) \subseteq Placeholders(d)
  BY <1>1, Zenon DEF Placeholders, NoPlaceholders
<1>6. \A n \in Elements(d) : \A m \in Below(d, n) : m \in Below(e, n) /\ e.nodes[m].tag = d.nodes[m].tag
  <2>1. \A m \in Elements(d) : /\ m \in Elements(e) /\ e.nodes[m].tag = d.nodes[m].tag
                               /\ PathTo(e.nodes)[m] = PathTo(d.nodes)[m]
    BY OldNodes
  <2> QED BY <2>1, Zenon DEF Below
<1>7. Headerless(e) \subseteq Headerless(d)
  BY <1>2, <1>6, Zenon DEF Headerless
<1> QED BY <1>4, <1>5, <1>7

LEMMA CountsNoWorse ==
    ASSUME NEW d, NEW e, NoWorse(d, e)
    PROVE  /\ \A t \in JUDGED :
                 (t = "figures_with_placeholder_alt" => NoPlaceholders(d, e))
                    => Count(e, t) \in Nat /\ Count(d, t) \in Nat /\ Count(e, t) =< Count(d, t)
           /\ Count(e, "headings") = Count(d, "headings") /\ Count(d, "headings") \in Nat
<1>1. /\ Count(d, "empty_pages") = Cardinality(EmptyPages(d))
      /\ Count(d, "figures_without_alt") = Cardinality(Undescribed(d))
      /\ Count(d, "figures_with_placeholder_alt") = Cardinality(Placeholders(d))
      /\ Count(d, "tables_without_headers") = Cardinality(Headerless(d))
      /\ Count(d, "heading_level_skips") =
            Cardinality(HeadingSkips(HeadingLevels(d, WithTag(d, HEADING_TAGS))))
      /\ Count(d, "headings") = Len(HeadingLevels(d, WithTag(d, HEADING_TAGS)))
  BY DEF Count, StructureTotals
<1>2. /\ Count(e, "empty_pages") = Cardinality(EmptyPages(e))
      /\ Count(e, "figures_without_alt") = Cardinality(Undescribed(e))
      /\ Count(e, "figures_with_placeholder_alt") = Cardinality(Placeholders(e))
      /\ Count(e, "tables_without_headers") = Cardinality(Headerless(e))
      /\ Count(e, "heading_level_skips") =
            Cardinality(HeadingSkips(HeadingLevels(e, WithTag(e, HEADING_TAGS))))
      /\ Count(e, "headings") = Len(HeadingLevels(e, WithTag(e, HEADING_TAGS)))
  BY DEF Count, StructureTotals
<1> DEFINE levels == HeadingLevels(d, WithTag(d, HEADING_TAGS))
<1>3. HeadingLevels(e, WithTag(e, HEADING_TAGS)) = levels /\ Len(levels) \in Nat
  <2> DEFINE S == WithTag(d, HEADING_TAGS)
  <2>1. WithTag(e, HEADING_TAGS) = S /\ HeadingLevels(e, S) = HeadingLevels(d, S)
        /\ Len(HeadingLevels(d, S)) \in Nat
    BY SameHeadings
  <2> QED BY <2>1, Zenon
<1> HIDE DEF levels
<1>4. Cardinality(HeadingSkips(levels)) \in Nat
  <2>1. HeadingSkips(levels) \subseteq 0..Len(levels)
    BY <1>3 DEF HeadingSkips
  <2> QED BY <1>3, <2>1, SubsetCounts, Zenon
<1>5. EmptyPages(e) = EmptyPages(d) /\ Cardinality(EmptyPages(d)) \in Nat
  <2>1. EmptyPages(e) = EmptyPages(d)
    BY Zenon DEF EmptyPages, Pages, NoWorse
  <2>2. Pages(d) = 1..Len(d.images) /\ Len(d.images) \in Nat
    BY SoundTree, Zenon DEF NoWorse
  <2>3. EmptyPages(d) \subseteq Pages(d)
    BY Zenon DEF EmptyPages
  <2>4. EmptyPages(d) \subseteq 0..Len(d.images)
    BY <2>2, <2>3
  <2> QED BY <2>1, <2>2, <2>4, SubsetCounts, Zenon
<1>6. ASSUME NEW S, NEW T, S \subseteq T, T \subseteq Elements(d)
      PROVE  Cardinality(S) \in Nat /\ Cardinality(T) \in Nat /\ Cardinality(S) =< Cardinality(T)
  <2>1. Elements(d) = 1..Len(d.nodes) /\ Len(d.nodes) \in Nat
    BY SoundTree, Zenon DEF NoWorse
  <2>2. T \subseteq 0..Len(d.nodes)
    BY <1>6, <2>1
  <2>3. S \in SUBSET T
    BY <1>6
  <2> QED BY <2>1, <2>2, <2>3, SubsetCounts, Zenon
<1>7. Undescribed(d) \subseteq Elements(d) /\ Placeholders(d) \subseteq Elements(d)
      /\ Headerless(d) \subseteq Elements(d)
  BY Zenon DEF Undescribed, Placeholders, Headerless, WithTag, Counted
<1>8. ASSUME NEW t \in JUDGED, t = "figures_with_placeholder_alt" => NoPlaceholders(d, e)
      PROVE  Count(e, t) \in Nat /\ Count(d, t) \in Nat /\ Count(e, t) =< Count(d, t)
  <2>1. CASE t = "empty_pages"
    BY <1>1, <1>2, <1>5, <2>1
  <2>2. CASE t = "heading_level_skips"
    BY <1>1, <1>2, <1>3, <1>4, <2>2 DEF levels
  <2>3. CASE t = "figures_without_alt"
    BY <1>1, <1>2, <1>6, <1>7, <2>3, FewerFigures, Zenon
  <2>4. CASE t = "figures_with_placeholder_alt"
    <3>1. Placeholders(e) \subseteq Placeholders(d)
      BY <1>8, <2>4, FewerFigures
    <3> QED BY <1>1, <1>2, <1>6, <1>7, <2>4, <3>1, Zenon
  <2>5. CASE t = "tables_without_headers"
    BY <1>1, <1>2, <1>6, <1>7, <2>5, FewerFigures, Zenon
  <2> QED BY <1>8, <2>1, <2>2, <2>3, <2>4, <2>5 DEF JUDGED
<1>9. Count(e, "headings") = Count(d, "headings") /\ Count(d, "headings") \in Nat
  BY <1>1, <1>2, <1>3, Zenon DEF levels
<1> QED BY <1>8, <1>9

LEMMA NothingMeasuredWorse ==
    ASSUME NEW d, NEW e, NoWorse(d, e), NEW measured,
           measured = MeasuredWorse(AnalyzePdf(d, <<>>, <<>>), AnalyzePdf(e, <<>>, <<>>))
    PROVE  /\ measured \subseteq {<<"total", "figures_with_placeholder_alt">>}
           /\ NoPlaceholders(d, e) => measured = {}
<1> DEFINE r == AnalyzePdf(d, <<>>, <<>>)
<1> DEFINE s == AnalyzePdf(e, <<>>, <<>>)
<1>1. /\ r.totals = StructureTotals(d) /\ s.totals = StructureTotals(e)
      /\ r.ocr_truth = <<>> /\ s.ocr_truth = <<>> /\ r.verapdf = NotRun /\ s.verapdf = NotRun
  <2>1. \A x : Totals(x, <<>>) = StructureTotals(x)
    BY Zenon DEF Totals
  <2> QED BY <2>1 DEF AnalyzePdf
<1> HIDE DEF r, s
<1>2. VerapdfRules(r, s) = {}
  <2>1. NotRun.ran = FALSE
    BY DEF NotRun
  <2> QED BY <1>1, <2>1 DEF VerapdfRules
<1>3. WorseScores(r.ocr_truth, s.ocr_truth) = {}
  <2>1. DOMAIN <<>> = {}
    OBVIOUS
  <2>2. (DOMAIN r.ocr_truth \cap DOMAIN s.ocr_truth) \X SCORE_KEYS = {}
    BY <1>1, <2>1
  <2> QED BY <2>2, Zenon DEF WorseScores, ScoreChanges
<1>4. \A t \in TotalsBothHave(r, s) : t \in WORSE_IF_HIGHER => t \in JUDGED
  <2>1. DOMAIN StructureTotals(d) =
          {"words", "empty_pages", "headings", "heading_level_skips", "lists", "list_items", "tables",
           "tables_without_headers", "figures", "figures_without_alt", "figures_with_placeholder_alt",
           "links"}
    BY DEF StructureTotals
  <2>2. TotalsBothHave(r, s) \subseteq DOMAIN StructureTotals(d)
    BY <1>1, Zenon DEF TotalsBothHave
  <2> QED BY <2>1, <2>2 DEF WORSE_IF_HIGHER, JUDGED
<1>5. \A t \in TotalsBothHave(r, s) :
         (t = "figures_with_placeholder_alt" => NoPlaceholders(d, e)) =>
         ~(\/ t \in WORSE_IF_HIGHER /\ s.totals[t] > r.totals[t]
           \/ t \in WORSE_IF_LOWER /\ s.totals[t] < r.totals[t])
  <2> TAKE t \in TotalsBothHave(r, s)
  <2>0. HAVE t = "figures_with_placeholder_alt" => NoPlaceholders(d, e)
  <2>1. s.totals[t] = Count(e, t) /\ r.totals[t] = Count(d, t)
    BY <1>1, Zenon DEF Count
  <2>2. CASE t \in WORSE_IF_HIGHER
    <3>1. Count(e, t) \in Nat /\ Count(d, t) \in Nat /\ Count(e, t) =< Count(d, t)
      BY <1>4, <2>0, <2>2, CountsNoWorse
    <3>2. t \notin WORSE_IF_LOWER
      BY <2>2 DEF WORSE_IF_HIGHER, WORSE_IF_LOWER
    <3> QED BY <2>1, <3>1, <3>2
  <2>3. CASE t \in WORSE_IF_LOWER
    <3>1. t = "headings" /\ t \notin WORSE_IF_HIGHER
      BY <2>3 DEF WORSE_IF_LOWER, WORSE_IF_HIGHER
    <3>2. Count(e, t) = Count(d, t) /\ Count(d, t) \in Nat
      BY <3>1, CountsNoWorse
    <3> QED BY <2>1, <3>1, <3>2
  <2> QED BY <2>2, <2>3
<1> DEFINE worse == {t \in TotalsBothHave(r, s) :
                        \/ t \in WORSE_IF_HIGHER /\ s.totals[t] > r.totals[t]
                        \/ t \in WORSE_IF_LOWER /\ s.totals[t] < r.totals[t]}
<1>6. /\ worse \subseteq {"figures_with_placeholder_alt"}
      /\ NoPlaceholders(d, e) => worse = {}
  BY <1>5, Zenon
<1>7. measured =
         {<<"total", k>> : k \in worse}
            \cup {<<"rule", x>> : x \in {y \in VerapdfRules(r, s) :
                     FailedChecks(s.verapdf, y) > FailedChecks(r.verapdf, y)}}
            \cup {<<"ocr", c>> : c \in WorseScores(r.ocr_truth, s.ocr_truth)}
  BY Zenon DEF MeasuredWorse, r, s
<1> HIDE DEF worse
<1>8. measured = {<<"total", k>> : k \in worse}
  BY <1>2, <1>3, <1>7, Zenon
<1> QED BY <1>6, <1>8

\* No /Alt becomes empty, and nothing the scorer counts changes but by the tree.
NoneBlanked(d, e) ==
    /\ e.tree = d.tree /\ e.images = d.images /\ e.facts \ TEXT_FACTS = d.facts \ TEXT_FACTS
    /\ \A n \in Elements(d) : e.nodes[n].alt = d.nodes[n].alt \/ e.nodes[n].alt # Blank

\* A step that writes e does no worse, whatever the text becomes.
LEMMA TextApart ==
    ASSUME NEW d, Sound(d), NEW e, Sound(e), Grown(d, e), NoneBlanked(d, e),
           NEW next, next = ReadAs(e, d.text, d.facts \cap TEXT_FACTS)
    PROVE  NoWorse(d, next) /\ next.nodes = e.nodes
<1>1. e = [k \in FIELDS |-> e[k]] /\ e.facts \subseteq FACTS /\ e.meta \subseteq METADATA
  BY Zenon DEF Sound
<1>0. /\ e.tree = d.tree /\ e.images = d.images /\ e.facts \ TEXT_FACTS = d.facts \ TEXT_FACTS
      /\ \A n \in Elements(d) : e.nodes[n].alt = d.nodes[n].alt \/ e.nodes[n].alt # Blank
  BY Zenon DEF NoneBlanked
<1>2. /\ HasFields(next)
      /\ next.text = d.text /\ next.facts = (e.facts \ TEXT_FACTS) \cup (d.facts \cap TEXT_FACTS)
      /\ \A k \in FIELDS : k \notin {"text", "facts"} => next[k] = e[k]
  <2>1. e = [k \in FIELDS |-> e[k]]
    BY <1>1, Zenon
  <2> QED BY <2>1, OtherText
<1>3. next.facts = d.facts
  BY <1>0, <1>2
<1>4. /\ next.nodes = e.nodes /\ next.tree = e.tree /\ next.images = e.images
      /\ next.annots = e.annots /\ next.mended = e.mended /\ next.meta = e.meta
  BY <1>2 DEF FIELDS
<1>5. next.facts \subseteq FACTS
  BY <1>3, Zenon DEF Sound
<1>6. Sound(next)
  BY <1>0, <1>1, <1>2, <1>4, <1>5, TreeUntouched, Zenon DEF HasFields
<1>7. Grown(d, next)
  BY <1>4, Zenon DEF Grown, Elements
<1> QED BY <1>0, <1>2, <1>3, <1>4, <1>6, <1>7, Zenon DEF NoWorse

LEMMA StepsNoWorse ==
    ASSUME DocInv, [DocNext]_docVars, doc' # doc,
           NEW next, next = ReadAs(doc', doc.text, doc.facts \cap TEXT_FACTS)
    PROVE  NoWorse(doc, next) /\ (~PlaceholderAnswered => NoPlaceholders(doc, next))
<1>1. Sound(doc) /\ AnswersHeld(doc, alts)
  BY Zenon DEF DocInv
<1>0. /\ doc = [k \in FIELDS |-> doc[k]] /\ doc.meta \subseteq METADATA
      /\ doc.facts \subseteq FACTS /\ doc.mended.facts \subseteq TEXT_FACTS
      /\ TEXT_FACTS \subseteq FACTS
  <2>1. TEXT_FACTS \subseteq FACTS
    BY DEF TEXT_FACTS, FACTS
  <2> QED BY <1>1, <2>1, Zenon DEF Sound
<1>8. ASSUME NEW e, doc' = e, Sound(e), Grown(doc, e), NoneBlanked(doc, e)
      PROVE  NoWorse(doc, next) /\ next.nodes = e.nodes
  <2>1. next = ReadAs(e, doc.text, doc.facts \cap TEXT_FACTS)
    BY <1>8, Zenon
  <2> QED BY <1>1, <1>8, <2>1, TextApart, Zenon
<1>2. ASSUME NEW e, e = [k \in FIELDS |-> e[k]], e.meta \subseteq METADATA,
             \A k \in FIELDS : k \notin {"fonts", "descs", "text", "facts", "meta"} => e[k] = doc[k],
             e.facts = doc.facts \/ e.facts = (doc.facts \ TEXT_FACTS) \cup doc.mended.facts,
             doc' = e
      PROVE  NoWorse(doc, next) /\ NoPlaceholders(doc, next)
  <2>1. /\ e.nodes = doc.nodes /\ e.tree = doc.tree /\ e.images = doc.images
        /\ e.annots = doc.annots /\ e.mended = doc.mended
    BY <1>2 DEF FIELDS
  <2>2. e.facts \subseteq FACTS /\ e.facts \ TEXT_FACTS = doc.facts \ TEXT_FACTS
    BY <1>0, <1>2, Zenon
  <2>3. Sound(e) /\ Grown(doc, e)
    BY <1>1, <1>2, <2>1, <2>2, TreeUntouched, Zenon
  <2>4. NoWorse(doc, next) /\ next.nodes = e.nodes
    BY <1>2, <1>8, <2>1, <2>2, <2>3, Zenon DEF NoneBlanked
  <2> QED BY <2>1, <2>4, Zenon DEF NoPlaceholders
<1>3. CASE FontRepairStep
  <2> DEFINE e == RepairFonts(doc)
  <2>1. doc' = e
    BY <1>3, Zenon DEF FontRepairStep, Completes
  <2>3. FontsWritten(doc, e)
    BY <1>0, RepairKeepsFields
  <2> HIDE DEF e
  <2>4. /\ e = [k \in FIELDS |-> e[k]]
        /\ \A k \in FIELDS : k \notin {"fonts", "descs", "text", "facts"} => e[k] = doc[k]
        /\ e.facts = doc.facts \/ e.facts = (doc.facts \ TEXT_FACTS) \cup doc.mended.facts
    BY <2>3, Zenon DEF FontsWritten
  <2>5. e.meta \subseteq METADATA
    BY <1>0, <2>4 DEF FIELDS
  <2> QED BY <1>2, <2>1, <2>4, <2>5
<1>4. CASE FinalizeMetadata
  <2> DEFINE e == [doc EXCEPT !["meta"] = METADATA]
  <2>1. doc' = e
    BY <1>4, Zenon DEF FinalizeMetadata, Completes
  <2>3. /\ e = [k \in FIELDS |-> e[k]] /\ e["meta"] = METADATA
        /\ \A k \in FIELDS : k # "meta" => e[k] = doc[k]
    BY <1>0, OneFieldWritten DEF FIELDS
  <2> HIDE DEF e
  <2>4. e.facts = doc.facts
    BY <2>3 DEF FIELDS
  <2> QED BY <1>2, <2>1, <2>3, <2>4
<1>5. CASE TagLinks
  <2> DEFINE e == WithLinks(doc)
  <2>1. doc' = e
    BY <1>5, Zenon DEF TagLinks, Completes
  <2>0. e = WithLinks(doc)
    OBVIOUS
  <2> HIDE DEF e
  <2>2. /\ Sound(e) /\ Grown(doc, e) /\ \A k \in FIELDS : k # "nodes" => e[k] = doc[k]
        /\ \A n \in Elements(doc) : e.nodes[n] = doc.nodes[n]
    BY <1>1, <2>0, LinksSound
  <2>3. e.tree = doc.tree /\ e.images = doc.images /\ e.facts = doc.facts
    BY <2>2 DEF FIELDS
  <2>4. NoWorse(doc, next) /\ next.nodes = e.nodes
    BY <1>8, <2>1, <2>2, <2>3, Zenon DEF NoneBlanked
  <2> QED BY <2>2, <2>4, Zenon DEF NoPlaceholders
<1>6. CASE WriteAltText
  <2> DEFINE e == WithAltText(doc, alts)
  <2>1. doc' = e
    BY <1>6, Zenon DEF WriteAltText, Completes
  <2>0. e = WithAltText(doc, alts)
    OBVIOUS
  <2> HIDE DEF e
  <2>2. \A r \in DOMAIN alts : alts[r] \in Alts
    BY <1>1, AnswersAreTexts, Zenon
  <2>3. /\ Sound(e) /\ Grown(doc, e) /\ \A k \in FIELDS : k # "nodes" => e[k] = doc[k]
        /\ \A n \in Elements(doc) :
              e.nodes[n].alt = IF n \in Written(doc, alts) THEN alts[RefOf(doc, n)]
                               ELSE doc.nodes[n].alt
    BY <1>1, <2>0, <2>2, AltTextWritten
  <2>4. e.tree = doc.tree /\ e.images = doc.images /\ e.facts = doc.facts
    BY <2>3 DEF FIELDS
  <2>5. \A n \in Written(doc, alts) : RefOf(doc, n) \in DOMAIN alts /\ alts[RefOf(doc, n)] # Blank
    BY Zenon DEF Written, WorthWriting
  <2>6. \A n \in Elements(doc) : e.nodes[n].alt = doc.nodes[n].alt \/ e.nodes[n].alt # Blank
    BY <2>3, <2>5, Zenon
  <2>7. NoWorse(doc, next) /\ next.nodes = e.nodes
    BY <1>8, <2>1, <2>3, <2>4, <2>6, Zenon DEF NoneBlanked
  <2>8. ~PlaceholderAnswered => NoPlaceholders(doc, next)
    BY <2>3, <2>5, <2>7, Zenon DEF NoPlaceholders, PlaceholderAnswered
  <2> QED BY <2>7, <2>8
<1>7. CASE Describe \/ ScoreDocument \/ StepFails \/ Resubmit \/ UNCHANGED docVars
  BY <1>7, Zenon DEF Describe, ScoreDocument, Completes, StepFails, Resubmit, docVars
<1> QED BY <1>2, <1>3, <1>4, <1>5, <1>6, <1>7, Zenon DEF DocNext

\* No step of the pipeline lowers the score or worsens a total of the quality
\* report, the text that a new character map changes apart, except that answers
\* like "Figure 2" can raise the number of placeholders (scoring/pike_pdf.py
\* _assess, pdf_quality.py analyze_pdf, compare_reports; alt_text/pike_pdf.py
\* write_alt_text).
THEOREM StepsNeverMakeItWorse == DocSpec => NoStepMakesItWorse
<1>1. DocInv /\ [DocNext]_docVars => [StepIsNoWorse]_docVars
  <2> SUFFICES ASSUME DocInv, [DocNext]_docVars, doc' # doc PROVE StepIsNoWorse
    BY Zenon DEF StepIsNoWorse
  <2> DEFINE next == ReadAs(doc', doc.text, doc.facts \cap TEXT_FACTS)
  <2> DEFINE worse == MeasuredWorse(AnalyzePdf(doc, <<>>, <<>>), AnalyzePdf(next, <<>>, <<>>))
  <2>1. NoWorse(doc, next) /\ (~PlaceholderAnswered => NoPlaceholders(doc, next))
    BY StepsNoWorse
  <2>2. Score(next) >= Score(doc)
    BY <2>1, FewerFound, FewerIssues, Zenon
  <2>3. /\ worse \subseteq {<<"total", "figures_with_placeholder_alt">>}
        /\ NoPlaceholders(doc, next) => worse = {}
    <3> HIDE DEF next
    <3> QED BY <2>1, NothingMeasuredWorse
  <2>4. worse # {} => worse = {<<"total", "figures_with_placeholder_alt">>} /\ PlaceholderAnswered
    <3> HIDE DEF worse
    <3> QED BY <2>1, <2>3
  <2> QED BY <2>2, <2>4, Zenon DEF StepIsNoWorse
<1> QED BY <1>1, DocInvHolds, PTL DEF DocSpec, NoStepMakesItWorse

-----------------------------------------------------------------------------
(* The font step. *)

\* Every byte of the written CIDSet marks the glyphs there are, and only those.
LEMMA FullCidset ==
    ASSUME NEW glyphs \in Nat \ {0}
    PROVE  /\ CidsetCoversAllGlyphs(BuildFullCidset(glyphs), glyphs)
           /\ \A c \in glyphs..(Len(BuildFullCidset(glyphs)) * 8 - 1) : ~Marks(BuildFullCidset(glyphs), c)
<1> DEFINE N == (glyphs + 7) \div 8
<1> DEFINE set == BuildFullCidset(glyphs)
<1>1. N \in Nat /\ N * 8 >= glyphs
  OBVIOUS
<1>2. set = [i \in 1..N |-> {b \in 0..7 : (i - 1) * 8 + b < glyphs}]
  BY Zenon DEF BuildFullCidset
<1> HIDE DEF N, set
<1>3. Len(set) = N
  <2>1. set \in [1..N -> SUBSET (0..7)]
    BY <1>2
  <2> QED BY <1>1, <2>1, FunctionIsSequence
<1>4. ASSUME NEW c \in 0..(N * 8 - 1)
      PROVE  Marks(set, c) <=> c < glyphs
  <2>1. c \in Nat /\ c % 8 \in 0..7 /\ (c \div 8) \in Nat /\ c = (c \div 8) * 8 + (c % 8)
    BY <1>1
  <2>2. (c \div 8) + 1 \in 1..N
    BY <1>1
  <2> DEFINE i == (c \div 8) + 1
  <2>3. set[i] = {b \in 0..7 : (i - 1) * 8 + b < glyphs}
    BY <1>2, <2>2, Zenon
  <2>4. (i - 1) * 8 + (c % 8) = c
    BY <2>1
  <2>5. Marks(set, c) <=> (c % 8) \in set[i]
    BY Zenon DEF Marks
  <2> HIDE DEF i
  <2> QED BY <2>1, <2>3, <2>4, <2>5, Zenon
<1>5. ASSUME NEW c \in 0..(glyphs - 1) PROVE Marks(set, c)
  <2>1. c \in 0..(N * 8 - 1) /\ c < glyphs
    BY <1>1
  <2> QED BY <1>4, <2>1, Zenon
<1>6. ASSUME NEW c \in glyphs..(N * 8 - 1) PROVE ~Marks(set, c)
  <2>1. c \in 0..(N * 8 - 1) /\ ~(c < glyphs)
    BY <1>1
  <2> QED BY <1>4, <2>1, Zenon
<1>7. CidsetCoversAllGlyphs(set, glyphs)
  BY <1>1, <1>3, <1>5, Zenon DEF CidsetCoversAllGlyphs
<1>8. \A c \in glyphs..(Len(set) * 8 - 1) : ~Marks(set, c)
  BY <1>3, <1>6, Zenon
<1> QED BY <1>7, <1>8, Zenon DEF set

\* Of the places visited there is a first.
LEMMA FirstVisited ==
    ASSUME NEW S, S # {}, \A x \in S : x[1] \in Nat /\ x[2] \in Nat
    PROVE  \E y \in S : \A z \in S : ~VisitedBefore(z, y)
<1> DEFINE A == {x[1] : x \in S}
<1>1. Min(A) \in A /\ \A m \in A : Min(A) =< m
  <2>1. A \subseteq Nat /\ A # {}
    BY Zenon
  <2> HIDE DEF A
  <2> QED BY <2>1, MinIsLeast
<1> DEFINE a == Min(A)
<1> DEFINE B == {x[2] : x \in {u \in S : u[1] = a}}
<1>2. PICK v \in S : v[1] = a
  BY <1>1, Zenon
<1>3. Min(B) \in B /\ \A m \in B : Min(B) =< m
  <2>1. B \subseteq Nat /\ B # {}
    BY <1>2, Zenon
  <2> HIDE DEF B
  <2> QED BY <2>1, MinIsLeast
<1>4. PICK y \in S : y[1] = a /\ y[2] = Min(B)
  BY <1>3, Zenon
<1>5. ASSUME NEW z \in S PROVE ~VisitedBefore(z, y)
  <2>1. a =< z[1] /\ (z[1] = a => Min(B) =< z[2])
    BY <1>1, <1>3, Zenon
  <2>2. z[1] \in Nat /\ z[2] \in Nat /\ y[1] \in Nat /\ y[2] \in Nat
    BY Zenon
  <2> HIDE DEF a, B
  <2>3. ~(z[1] < y[1] \/ (z[1] = y[1] /\ z[2] < y[2]))
    BY <1>4, <2>1, <2>2
  <2> QED BY <2>3, Zenon DEF VisitedBefore
<1> QED BY <1>5

FONT == {"identity", "mapped", "toUnicode", "desc"}
DESC == {"id", "cidset", "glyphs", "trueType"}

\* What is said of the fonts at any time.
SoundFonts(d) ==
    /\ d.resources \in Seq(Seq(Nat))
    /\ \A f \in DOMAIN d.fonts : d.fonts[f] = [k \in FONT |-> d.fonts[f][k]]
    /\ \A x \in DOMAIN d.descs : /\ d.descs[x] = [k \in DESC |-> d.descs[x][k]]
                                 /\ d.descs[x].glyphs \in Nat
    /\ HasSoundFonts(d)

\* What RepairFont and RepairCidset keep.
LEMMA RepairedFont ==
    ASSUME NEW d, NEW f \in DOMAIN d.fonts, d.fonts[f] = [k \in FONT |-> d.fonts[f][k]]
    PROVE  /\ RepairFont(d, f) = [k \in FONT |-> RepairFont(d, f)[k]]
           /\ RepairFont(d, f).desc = d.fonts[f].desc
<1> DEFINE x == d.fonts[f]
<1>1. ASSUME NEW u PROVE LET y == [x EXCEPT !.mapped = TRUE, !.toUnicode = u]
                         IN y = [k \in FONT |-> y[k]] /\ y.desc = x.desc
  <2> HIDE DEF x
  <2>1. x = [k \in FONT |-> x[k]]
    BY DEF x
  <2> QED BY <2>1 DEF FONT
<1> DEFINE p == Min(PagesThatRead(d, f))
<1> DEFINE k == Max(NamesThatRead(d, p, f))
<1> DEFINE map == ToUnicodeMap(ToSet(CodesShown(d, p, k)), BestOffset(d, p, k))
<1>2. RepairFont(d, f) = x \/ RepairFont(d, f) = [x EXCEPT !.mapped = TRUE, !.toUnicode = map]
  BY Zenon DEF RepairFont
<1> HIDE DEF map, x
<1> QED BY <1>1, <1>2, Zenon DEF x

LEMMA RepairedCidset ==
    ASSUME NEW x, x = [k \in DESC |-> x[k]]
    PROVE  /\ RepairCidset(x) = [k \in DESC |-> RepairCidset(x)[k]]
           /\ RepairCidset(x).id = x.id /\ RepairCidset(x).glyphs = x.glyphs
           /\ RepairCidset(x).trueType = x.trueType
           /\ \/ RepairCidset(x) = x
              \/ RepairCidset(x).cidset = BuildFullCidset(x.glyphs)
<1> DEFINE y == [x EXCEPT !.cidset = BuildFullCidset(x.glyphs)]
<1>1. /\ y = [k \in DESC |-> y[k]] /\ y.id = x.id /\ y.glyphs = x.glyphs
      /\ y.trueType = x.trueType /\ y.cidset = BuildFullCidset(x.glyphs)
  BY DEF DESC
<1>2. RepairCidset(x) = x \/ RepairCidset(x) = y
  BY Zenon DEF RepairCidset
<1> HIDE DEF y
<1>3. CASE RepairCidset(x) = x
  BY <1>3
<1>4. CASE RepairCidset(x) = y
  BY <1>1, <1>4
<1> QED BY <1>2, <1>3, <1>4

\* The places visited and the descriptors there are those before the repair.
LEMMA SameVisits ==
    ASSUME NEW d, NEW e, SoundFonts(d), e.resources = d.resources,
           DOMAIN e.fonts = DOMAIN d.fonts,
           \A f \in DOMAIN d.fonts : e.fonts[f].desc = d.fonts[f].desc
    PROVE  /\ Visited(e) = Visited(d) /\ \A y \in Visited(d) : DescAt(e, y) = DescAt(d, y)
           /\ \A y \in Visited(d) : y[1] \in Nat /\ y[2] \in Nat /\ DescAt(d, y) \in DOMAIN d.descs
<1>1. /\ \A p \in DOMAIN d.resources : ToSet(d.resources[p]) \subseteq DOMAIN d.fonts
      /\ \A f \in DOMAIN d.fonts : d.fonts[f].desc \in {0} \cup DOMAIN d.descs
      /\ d.resources \in Seq(Seq(Nat))
  BY Zenon DEF SoundFonts, HasSoundFonts
<1>2. \A p \in DOMAIN d.resources : \A k \in DOMAIN d.resources[p] : d.resources[p][k] \in DOMAIN d.fonts
  BY <1>1, Zenon DEF ToSet
<1>3. \A p \in DOMAIN d.resources : \A k \in DOMAIN d.resources[p] : p \in Nat /\ k \in Nat
  BY <1>1
<1> DEFINE named(c, p) == {k \in DOMAIN c.resources[p] : c.fonts[c.resources[p][k]].desc # 0}
<1> DEFINE places(c, p) == {<<p, i>> : i \in named(c, p)}
<1>4. Visited(e) = UNION {places(e, p) : p \in DOMAIN d.resources}
      /\ Visited(d) = UNION {places(d, p) : p \in DOMAIN d.resources}
  BY Zenon DEF Visited
<1>5. \A p \in DOMAIN d.resources : named(e, p) = named(d, p)
  BY <1>2, Zenon
<1>6. \A p \in DOMAIN d.resources : places(e, p) = places(d, p)
  BY <1>5, Zenon
<1>7. ASSUME NEW y \in Visited(d)
      PROVE  /\ y[1] \in DOMAIN d.resources /\ y[2] \in DOMAIN d.resources[y[1]]
             /\ d.fonts[d.resources[y[1]][y[2]]].desc # 0
  <2>1. PICK p \in DOMAIN d.resources : y \in places(d, p)
    BY <1>4, Zenon
  <2>2. PICK i \in named(d, p) : y = <<p, i>>
    BY <2>1
  <2>3. y[1] = p /\ y[2] = i
    BY <2>2
  <2> QED BY <2>2, <2>3, Zenon
<1>8. Visited(e) = Visited(d)
  <2> HIDE DEF places
  <2> QED BY <1>4, <1>6, Zenon
<1>9. ASSUME NEW y \in Visited(d)
      PROVE  DescAt(e, y) = DescAt(d, y) /\ DescAt(d, y) \in DOMAIN d.descs
  <2>1. d.resources[y[1]][y[2]] \in DOMAIN d.fonts
    BY <1>2, <1>7, Zenon
  <2> QED BY <1>1, <1>7, <2>1, Zenon DEF DescAt
<1> QED BY <1>3, <1>7, <1>8, <1>9, Zenon

\* A step that keeps what the pages show and the ids of the descriptors keeps the
\* fonts sound.
LEMMA FontsStaySound ==
    ASSUME NEW d, NEW e, SoundFonts(d),
           e.resources = d.resources, e.shown = d.shown, e.reads = d.reads,
           DOMAIN e.fonts = DOMAIN d.fonts, DOMAIN e.descs = DOMAIN d.descs,
           \A f \in DOMAIN d.fonts : /\ e.fonts[f] = [k \in FONT |-> e.fonts[f][k]]
                                     /\ e.fonts[f].desc = d.fonts[f].desc,
           \A x \in DOMAIN d.descs : /\ e.descs[x] = [k \in DESC |-> e.descs[x][k]]
                                     /\ e.descs[x].id = d.descs[x].id
                                     /\ e.descs[x].glyphs = d.descs[x].glyphs
    PROVE  SoundFonts(e)
<1>1. HasSoundFonts(d) /\ \A x \in DOMAIN d.descs : d.descs[x].glyphs \in Nat
  BY Zenon DEF SoundFonts
<1>2. /\ Visited(e) = Visited(d) /\ \A y \in Visited(d) : DescAt(e, y) = DescAt(d, y)
  BY SameVisits
<1>3. \A p, k : CodesShown(e, p, k) = CodesShown(d, p, k)
  BY Zenon DEF CodesShown
<1>4. \A p, k : BestOffset(e, p, k) = BestOffset(d, p, k)
  <2> TAKE p, k
  <2>1. BestOffset(e, p, k) = IF Len(CodesShown(e, p, k)) < MIN_USED_CODES THEN 0 ELSE d.reads[p][k]
    BY Zenon DEF BestOffset
  <2>2. BestOffset(d, p, k) = IF Len(CodesShown(d, p, k)) < MIN_USED_CODES THEN 0 ELSE d.reads[p][k]
    BY Zenon DEF BestOffset
  <2>3. CodesShown(e, p, k) = CodesShown(d, p, k)
    BY <1>3, Zenon
  <2> QED BY <2>1, <2>2, <2>3
<1>5. /\ \A f \in DOMAIN e.fonts : e.fonts[f].desc \in {0} \cup DOMAIN e.descs
      /\ \A p \in DOMAIN e.resources : ToSet(e.resources[p]) \subseteq DOMAIN e.fonts
  BY <1>1, Zenon DEF HasSoundFonts
<1>6. \A x \in DOMAIN e.descs :
         /\ \E y \in Visited(e) : DescAt(e, y) = x
         /\ \A y \in DOMAIN e.descs : e.descs[x].id = e.descs[y].id /\ x # y => e.descs[x].id = 0
  <2> TAKE x \in DOMAIN e.descs
  <2>1. \E y \in Visited(d) : DescAt(d, y) = x
    BY <1>1, Zenon DEF HasSoundFonts
  <2>2. \A y \in DOMAIN d.descs : d.descs[x].id = d.descs[y].id /\ x # y => d.descs[x].id = 0
    BY <1>1, Zenon DEF HasSoundFonts
  <2> QED BY <1>2, <2>1, <2>2, Zenon
<1>7. DOMAIN e.shown = DOMAIN e.resources /\ DOMAIN e.reads = DOMAIN e.resources
  BY <1>1, Zenon DEF HasSoundFonts
<1>9. ASSUME NEW p \in DOMAIN e.resources, NEW k \in DOMAIN e.resources[p]
      PROVE  /\ k \in DOMAIN e.reads[p]
             /\ \A c \in ToSet(CodesShown(e, p, k)) : c + BestOffset(e, p, k) \in Nat
  <2>1. /\ k \in DOMAIN d.reads[p]
        /\ \A c \in ToSet(CodesShown(d, p, k)) : c + BestOffset(d, p, k) \in Nat
    BY <1>1, Zenon DEF HasSoundFonts
  <2>2. CodesShown(e, p, k) = CodesShown(d, p, k) /\ BestOffset(e, p, k) = BestOffset(d, p, k)
    BY <1>3, <1>4, Zenon
  <2> QED BY <2>1, <2>2, Zenon
<1>8. HasSoundFonts(e)
  BY <1>5, <1>6, <1>7, <1>9, Zenon DEF HasSoundFonts
<1> QED BY <1>1, <1>8, Zenon DEF SoundFonts

LEMMA RepairKeepsSound ==
    ASSUME NEW d, SoundFonts(d), NEW e, FontsWritten(d, e)
    PROVE  SoundFonts(e)
<1>1. e.resources = d.resources /\ e.shown = d.shown /\ e.reads = d.reads
  <2>1. \A k \in {"resources", "shown", "reads"} :
           k \in FIELDS /\ k \notin {"fonts", "descs", "text", "facts"}
    BY DEF FIELDS
  <2> QED BY <2>1, Zenon DEF FontsWritten
<1>2. DOMAIN e.fonts = DOMAIN d.fonts /\ \A f \in DOMAIN d.fonts : e.fonts[f] = RepairFont(d, f)
  BY Zenon DEF FontsWritten
<1>3. /\ DOMAIN e.descs = DOMAIN d.descs
      /\ \A x \in DOMAIN d.descs : e.descs[x] = RepairCidset(d.descs[x]) \/ e.descs[x] = d.descs[x]
  BY Zenon DEF FontsWritten
<1>4. \A f \in DOMAIN d.fonts : /\ e.fonts[f] = [k \in FONT |-> e.fonts[f][k]]
                                /\ e.fonts[f].desc = d.fonts[f].desc
  <2> TAKE f \in DOMAIN d.fonts
  <2>1. d.fonts[f] = [k \in FONT |-> d.fonts[f][k]]
    BY Zenon DEF SoundFonts
  <2>2. /\ RepairFont(d, f) = [k \in FONT |-> RepairFont(d, f)[k]]
        /\ RepairFont(d, f).desc = d.fonts[f].desc
    BY <2>1, RepairedFont, Zenon
  <2> QED BY <1>2, <2>2, Zenon
<1>5. \A x \in DOMAIN d.descs : /\ e.descs[x] = [k \in DESC |-> e.descs[x][k]]
                                /\ e.descs[x].id = d.descs[x].id
                                /\ e.descs[x].glyphs = d.descs[x].glyphs
  <2> TAKE x \in DOMAIN d.descs
  <2>1. d.descs[x] = [k \in DESC |-> d.descs[x][k]]
    BY Zenon DEF SoundFonts
  <2> DEFINE b == d.descs[x]
  <2>2. /\ RepairCidset(b) = [k \in DESC |-> RepairCidset(b)[k]]
        /\ RepairCidset(b).id = b.id /\ RepairCidset(b).glyphs = b.glyphs
    BY <2>1, RepairedCidset, Zenon
  <2>3. CASE e.descs[x] = b
    BY <2>1, <2>3, Zenon
  <2>4. CASE e.descs[x] = RepairCidset(b)
    BY <2>2, <2>4, Zenon
  <2> QED BY <1>3, <2>3, <2>4
<1> QED BY <1>1, <1>2, <1>3, <1>4, <1>5, FontsStaySound

LEMMA MemberOfSequence ==
    ASSUME NEW S, NEW s \in Seq(S), NEW i \in DOMAIN s
    PROVE  s[i] \in S
OBVIOUS

LEMMA StartFontsSound ==
    ASSUME NEW d, IsDocument(d)
    PROVE  SoundFonts(d)
<1>1. HasSoundFonts(d) /\ d.resources \in Seq(Seq(Nat))
  BY Zenon DEF IsDocument
<1>2. d.fonts \in Seq([identity : BOOLEAN, mapped : BOOLEAN, toUnicode : SUBSET (Nat \X Nat), desc : Nat])
  BY Zenon DEF IsDocument
<1>3. d.descs \in Seq([id : Nat, cidset : Seq(SUBSET (0..7)), glyphs : Nat, trueType : BOOLEAN])
  BY Zenon DEF IsDocument
<1>4. \A f \in DOMAIN d.fonts : d.fonts[f] = [k \in FONT |-> d.fonts[f][k]]
  <2> TAKE f \in DOMAIN d.fonts
  <2>1. d.fonts[f] \in [identity : BOOLEAN, mapped : BOOLEAN, toUnicode : SUBSET (Nat \X Nat), desc : Nat]
    BY <1>2, MemberOfSequence, Zenon
  <2> QED BY <2>1 DEF FONT
<1>5. \A x \in DOMAIN d.descs : /\ d.descs[x] = [k \in DESC |-> d.descs[x][k]]
                                /\ d.descs[x].glyphs \in Nat
  <2> TAKE x \in DOMAIN d.descs
  <2>1. d.descs[x] \in [id : Nat, cidset : Seq(SUBSET (0..7)), glyphs : Nat, trueType : BOOLEAN]
    BY <1>3, MemberOfSequence, Zenon
  <2> QED BY <2>1 DEF DESC
<1> QED BY <1>1, <1>4, <1>5, Zenon DEF SoundFonts

\* e has the fonts and descriptors of a, repaired.
Repaired(a, e) ==
    /\ e.fonts = [f \in DOMAIN a.fonts |-> RepairFont(a, f)]
    /\ e.descs = [x \in DOMAIN a.descs |->
                    IF x \in DescsToRepair(a) THEN RepairCidset(a.descs[x]) ELSE a.descs[x]]

\* A descriptor that is an object of its own is repaired: it is the first with its
\* id where it is first visited.
LEMMA OwnDescRepaired ==
    ASSUME NEW a, SoundFonts(a), NEW x \in DOMAIN a.descs, a.descs[x].id # 0
    PROVE  x \in DescsToRepair(a)
<1> DEFINE id(y) == a.descs[DescAt(a, y)].id
<1> DEFINE S == {y \in Visited(a) : id(y) = a.descs[x].id}
<1>1. \A y \in Visited(a) : y[1] \in Nat /\ y[2] \in Nat /\ DescAt(a, y) \in DOMAIN a.descs
  BY SameVisits
<1>2. S # {} /\ \A y \in S : y[1] \in Nat /\ y[2] \in Nat
  <2>1. \E y \in Visited(a) : DescAt(a, y) = x
    BY Zenon DEF SoundFonts, HasSoundFonts
  <2> QED BY <1>1, <2>1, Zenon
<1>3. PICK y \in S : \A z \in S : ~VisitedBefore(z, y)
  <2> HIDE DEF S
  <2> QED BY <1>2, FirstVisited, Zenon
<1>4. y \in Visited(a) /\ DescAt(a, y) = x
  <2>1. DescAt(a, y) \in DOMAIN a.descs /\ a.descs[x].id = a.descs[DescAt(a, y)].id
    BY <1>1, <1>3, Zenon
  <2>2. x # DescAt(a, y) => a.descs[x].id = 0
    BY <2>1, Zenon DEF SoundFonts, HasSoundFonts
  <2> QED BY <1>3, <2>2, Zenon
<1>5. \A z \in Visited(a) : VisitedBefore(z, y) => id(z) # id(y)
  BY <1>3, Zenon
<1> QED BY <1>4, <1>5, Zenon DEF DescsToRepair

LEMMA CidsetsRepaired ==
    ASSUME NEW a, SoundFonts(a), NEW e, Repaired(a, e), NEW x \in DOMAIN e.descs,
           e.descs[x].id # 0, e.descs[x].cidset # <<>>, e.descs[x].trueType = TRUE,
           e.descs[x].glyphs # 0
    PROVE  /\ CidsetCoversAllGlyphs(e.descs[x].cidset, e.descs[x].glyphs)
           /\ e.descs[x].cidset # a.descs[x].cidset =>
                 \A c \in e.descs[x].glyphs..(Len(e.descs[x].cidset) * 8 - 1) :
                    ~Marks(e.descs[x].cidset, c)
<1> DEFINE b == a.descs[x]
<1>1. /\ x \in DOMAIN a.descs
      /\ e.descs[x] = IF x \in DescsToRepair(a) THEN RepairCidset(b) ELSE b
  BY Zenon DEF Repaired
<1>2. b = [k \in DESC |-> b[k]] /\ b.glyphs \in Nat
  BY <1>1, Zenon DEF SoundFonts
<1>3. /\ RepairCidset(b).id = b.id /\ RepairCidset(b).glyphs = b.glyphs
      /\ RepairCidset(b).trueType = b.trueType
      /\ RepairCidset(b) = b \/ RepairCidset(b).cidset = BuildFullCidset(b.glyphs)
  BY <1>2, RepairedCidset
<1>4. b.id # 0
  BY <1>1, <1>3, Zenon
<1>5. e.descs[x] = RepairCidset(b)
  BY <1>1, <1>4, OwnDescRepaired
<1>6. CASE RepairCidset(b).cidset = BuildFullCidset(b.glyphs)
  <2>1. b.glyphs \in Nat \ {0}
    BY <1>2, <1>3, <1>5
  <2>2. /\ CidsetCoversAllGlyphs(BuildFullCidset(b.glyphs), b.glyphs)
        /\ \A c \in b.glyphs..(Len(BuildFullCidset(b.glyphs)) * 8 - 1) :
              ~Marks(BuildFullCidset(b.glyphs), c)
    BY <2>1, FullCidset, Zenon
  <2> QED BY <1>3, <1>5, <1>6, <2>2, Zenon
<1>7. CASE RepairCidset(b).cidset # BuildFullCidset(b.glyphs)
  <2>1. RepairCidset(b) = b
    BY <1>3, <1>7, Zenon
  <2>2. CidsetCoversAllGlyphs(b.cidset, b.glyphs)
    <3>1. ASSUME ~CidsetCoversAllGlyphs(b.cidset, b.glyphs) PROVE FALSE
      <4>1. b.cidset # <<>> /\ b.trueType = TRUE /\ b.glyphs # 0
        BY <1>5, <2>1, Zenon
      <4>2. RepairCidset(b) = [b EXCEPT !.cidset = BuildFullCidset(b.glyphs)]
        BY <3>1, <4>1, Zenon DEF RepairCidset
      <4>3. [b EXCEPT !.cidset = BuildFullCidset(b.glyphs)].cidset = BuildFullCidset(b.glyphs)
        <5> HIDE DEF b
        <5> QED BY <1>2 DEF DESC
      <4> QED BY <1>7, <4>2, <4>3, Zenon
    <3> QED BY <3>1, Zenon
  <2> QED BY <1>5, <2>1, <2>2, Zenon
<1> QED BY <1>6, <1>7

\* A font that one name alone shows gets its map under that name.
LEMMA CodesMapped ==
    ASSUME NEW a, SoundFonts(a), NEW e, Repaired(a, e),
           e.resources = a.resources, e.shown = a.shown, e.reads = a.reads,
           NEW p \in DOMAIN e.resources, NEW k \in DOMAIN e.resources[p],
           NEW f, f = e.resources[p][k],
           IsCandidate(a.fonts[f]), CodesShown(e, p, k) # <<>>, BestOffset(e, p, k) # 0,
           ShownOnlyUnder(e, p, k),
           NEW c \in ToSet(CodesShown(e, p, k)), c + e.reads[p][k] =< MaxCharacter
    PROVE  <<c, c + e.reads[p][k]>> \in e.fonts[f].toUnicode
<1>1. \A q, j : CodesShown(e, q, j) = CodesShown(a, q, j)
  BY Zenon DEF CodesShown
<1>2. BestOffset(e, p, k) = BestOffset(a, p, k) /\ BestOffset(a, p, k) = e.reads[p][k]
  <2>1. BestOffset(e, p, k) = IF Len(CodesShown(e, p, k)) < MIN_USED_CODES THEN 0 ELSE a.reads[p][k]
    BY Zenon DEF BestOffset
  <2>2. BestOffset(a, p, k) = IF Len(CodesShown(a, p, k)) < MIN_USED_CODES THEN 0 ELSE a.reads[p][k]
    BY Zenon DEF BestOffset
  <2>3. CodesShown(e, p, k) = CodesShown(a, p, k)
    BY <1>1, Zenon
  <2>4. BestOffset(e, p, k) = BestOffset(a, p, k)
    BY <2>1, <2>2, <2>3
  <2> QED BY <2>1, <2>4, Zenon
<1>3. p \in DOMAIN a.resources /\ k \in DOMAIN a.resources[p] /\ p \in Nat /\ k \in Nat
  <2>1. p \in DOMAIN a.resources /\ k \in DOMAIN a.resources[p] /\ a.resources \in Seq(Seq(Nat))
    BY Zenon DEF SoundFonts
  <2> QED BY <2>1
<1>4. /\ f = a.resources[p][k] /\ f \in DOMAIN a.fonts /\ e.fonts[f] = RepairFont(a, f)
      /\ a.fonts[f] = [m \in FONT |-> a.fonts[f][m]]
  <2>1. f = a.resources[p][k] /\ ToSet(a.resources[p]) \subseteq DOMAIN a.fonts
    BY <1>3, Zenon DEF SoundFonts, HasSoundFonts
  <2>2. f \in DOMAIN a.fonts
    BY <1>3, <2>1, Zenon DEF ToSet
  <2> QED BY <2>1, <2>2, Zenon DEF Repaired, SoundFonts
<1>5. \A q \in DOMAIN a.resources : \A j \in DOMAIN a.resources[q] :
         a.resources[q][j] = f /\ ~(q = p /\ j = k) => CodesShown(a, q, j) = <<>>
  <2> TAKE q \in DOMAIN a.resources
  <2> TAKE j \in DOMAIN a.resources[q]
  <2> HAVE a.resources[q][j] = f /\ ~(q = p /\ j = k)
  <2>1. <<q, j>> # <<p, k>>
    OBVIOUS
  <2>2. CodesShown(e, q, j) = <<>>
    BY <2>1, Zenon DEF ShownOnlyUnder
  <2> QED BY <1>1, <2>2, Zenon
<1>6. NamesThatRead(a, p, f) = {k}
  <2>1. k \in NamesThatRead(a, p, f)
    BY <1>1, <1>2, <1>3, <1>4, Zenon DEF NamesThatRead
  <2>2. \A j \in NamesThatRead(a, p, f) : j = k
    BY <1>3, <1>5, Zenon DEF NamesThatRead
  <2> QED BY <2>1, <2>2, Zenon
<1>7. PagesThatRead(a, f) = {p}
  <2>1. p \in PagesThatRead(a, f)
    BY <1>3, <1>6, Zenon DEF PagesThatRead
  <2>2. ASSUME NEW q \in PagesThatRead(a, f) PROVE q = p
    <3>1. PICK j \in NamesThatRead(a, q, f) : q \in DOMAIN a.resources
      BY <2>2, Zenon DEF PagesThatRead
    <3>2. j \in DOMAIN a.resources[q] /\ a.resources[q][j] = f /\ CodesShown(a, q, j) # <<>>
      BY <3>1, Zenon DEF NamesThatRead
    <3> QED BY <1>5, <3>1, <3>2, Zenon
  <2> QED BY <2>1, <2>2, Zenon
<1>8. Min(PagesThatRead(a, f)) = p /\ Max(NamesThatRead(a, p, f)) = k
  <2>1. {p} \subseteq Nat /\ {p} # {} /\ {k} \subseteq 0..k /\ {k} # {} /\ k \in Nat
    BY <1>3
  <2>2. Min({p}) \in {p} /\ Max({k}) \in {k}
    BY <2>1, MinIsLeast, MaxIsGreatest
  <2> QED BY <1>6, <1>7, <2>2
<1> DEFINE map == ToUnicodeMap(ToSet(CodesShown(a, p, k)), BestOffset(a, p, k))
<1> DEFINE x == a.fonts[f]
<1>9. RepairFont(a, f) = [x EXCEPT !.mapped = TRUE, !.toUnicode = map]
  <2>1. PagesThatRead(a, f) # {}
    BY <1>7, Zenon
  <2> QED BY <1>8, <2>1, Zenon DEF RepairFont
<1>10. RepairFont(a, f).toUnicode = map
  <2> HIDE DEF x, map
  <2>1. x = [m \in FONT |-> x[m]]
    BY <1>4 DEF x
  <2> QED BY <1>9, <2>1 DEF FONT
<1>11. c \in ToSet(CodesShown(a, p, k)) /\ c + BestOffset(a, p, k) \in 0..MaxCharacter
  <2>1. c \in ToSet(CodesShown(a, p, k))
    BY <1>1, Zenon
  <2>2. c + BestOffset(a, p, k) \in Nat
    BY <1>3, <2>1, Zenon DEF SoundFonts, HasSoundFonts
  <2>3. c + BestOffset(a, p, k) =< MaxCharacter
    BY <1>2, Zenon
  <2> QED BY <2>1, <2>2, <2>3, FontAssumption
<1>12. <<c, c + BestOffset(a, p, k)>> \in map
  BY <1>11, Zenon DEF ToUnicodeMap
<1> QED BY <1>2, <1>4, <1>10, <1>12, Zenon

\* The inductive invariant of the fonts: until the font step the document is the
\* one the round started with, and afterwards its fonts are those repaired.
FontInv ==
    /\ SoundFonts(doc) /\ SoundFonts(before)
    /\ at = "font_repair" => doc = before /\ "font_repair" \notin completed
    /\ "font_repair" \in completed => Repaired(before, doc)

\* A later step: it leaves what is said of the fonts as it is.
LEMMA FontsUntouched ==
    ASSUME FontInv, before' = before, at' # "font_repair",
           "font_repair" \in completed' => "font_repair" \in completed,
           \A k \in {"fonts", "descs", "resources", "shown", "reads"} : doc'[k] = doc[k]
    PROVE  FontInv'
<1> DEFINE e == doc'
<1>1. /\ e.fonts = doc.fonts /\ e.descs = doc.descs /\ e.resources = doc.resources
      /\ e.shown = doc.shown /\ e.reads = doc.reads
  OBVIOUS
<1>2. SoundFonts(doc)
  BY Zenon DEF FontInv
<1> HIDE DEF e
<1>3. \A f \in DOMAIN doc.fonts : /\ e.fonts[f] = [k \in FONT |-> e.fonts[f][k]]
                                  /\ e.fonts[f].desc = doc.fonts[f].desc
  BY <1>1, <1>2, Zenon DEF SoundFonts
<1>4. \A x \in DOMAIN doc.descs : /\ e.descs[x] = [k \in DESC |-> e.descs[x][k]]
                                  /\ e.descs[x].id = doc.descs[x].id
                                  /\ e.descs[x].glyphs = doc.descs[x].glyphs
  BY <1>1, <1>2, Zenon DEF SoundFonts
<1>5. SoundFonts(e)
  BY <1>1, <1>2, <1>3, <1>4, FontsStaySound
<1>6. SoundFonts(doc')
  BY <1>5 DEF e
<1>7. "font_repair" \in completed' => Repaired(before, e)
  BY <1>1, Zenon DEF FontInv, Repaired
<1>8. "font_repair" \in completed' => Repaired(before', doc')
  BY <1>7, Zenon DEF e
<1>9. SoundFonts(before')
  BY Zenon DEF FontInv
<1> QED BY <1>6, <1>8, <1>9, Zenon DEF FontInv

LEMMA FontInvKept == ASSUME DocInv, FontInv, [DocNext]_docVars PROVE FontInv'
<1>0. Sound(doc) /\ AnswersHeld(doc, alts) /\ at \in STEPS
  BY Zenon DEF DocInv
<1> DEFINE kinds == {"fonts", "descs", "resources", "shown", "reads"}
<1>1. CASE FontRepairStep
  <2> DEFINE e == RepairFonts(doc)
  <2>1. /\ doc' = e /\ at = "font_repair" /\ at' = After("font_repair") /\ before' = before
        /\ completed' = completed \cup {"font_repair"}
    BY <1>1, Zenon DEF FontRepairStep, Completes
  <2>2. doc = before /\ SoundFonts(doc)
    BY <2>1, Zenon DEF FontInv
  <2>3. FontsWritten(doc, e)
    <3>1. doc = [k \in FIELDS |-> doc[k]]
      BY <1>0, Zenon DEF Sound
    <3> QED BY <3>1, RepairKeepsFields
  <2> HIDE DEF e
  <2>4. SoundFonts(e)
    BY <2>2, <2>3, RepairKeepsSound
  <2>5. Repaired(before, e)
    BY <2>2, <2>3, Zenon DEF Repaired, FontsWritten
  <2>6. at' # "font_repair"
    BY <2>1, StepOrder
  <2>7. SoundFonts(doc') /\ SoundFonts(before') /\ Repaired(before', doc')
    BY <2>1, <2>2, <2>4, <2>5, Zenon
  <2> QED BY <2>6, <2>7, Zenon DEF FontInv
<1>2. CASE FinalizeMetadata
  <2> DEFINE e == [doc EXCEPT !["meta"] = METADATA]
  <2>1. /\ doc' = e /\ at' = After("metadata") /\ before' = before
        /\ completed' = completed \cup {"metadata"}
    BY <1>2, Zenon DEF FinalizeMetadata, Completes
  <2>2. doc = [k \in FIELDS |-> doc[k]]
    BY <1>0, Zenon DEF Sound
  <2>3. \A k \in FIELDS : k # "meta" => e[k] = doc[k]
    BY <2>2, OneFieldWritten DEF FIELDS
  <2> HIDE DEF e
  <2>4. \A k \in kinds : doc'[k] = doc[k]
    BY <2>1, <2>3 DEF FIELDS
  <2>5. at' # "font_repair" /\ ("font_repair" \in completed' => "font_repair" \in completed)
    BY <2>1, StepOrder
  <2> QED BY <2>1, <2>4, <2>5, FontsUntouched
<1>3. CASE TagLinks
  <2> DEFINE e == WithLinks(doc)
  <2>1. /\ doc' = e /\ at' = After("link_tag") /\ before' = before
        /\ completed' = completed \cup {"link_tag"}
    BY <1>3, Zenon DEF TagLinks, Completes
  <2>2. \A k \in FIELDS : k # "nodes" => e[k] = doc[k]
    BY <1>0, LinksSound
  <2> HIDE DEF e
  <2>4. \A k \in kinds : doc'[k] = doc[k]
    BY <2>1, <2>2 DEF FIELDS
  <2>5. at' # "font_repair" /\ ("font_repair" \in completed' => "font_repair" \in completed)
    BY <2>1, StepOrder
  <2> QED BY <2>1, <2>4, <2>5, FontsUntouched
<1>4. CASE WriteAltText
  <2> DEFINE e == WithAltText(doc, alts)
  <2>1. /\ doc' = e /\ at' = After("alt_text") /\ before' = before
        /\ completed' = completed \cup {"alt_text"}
    BY <1>4, Zenon DEF WriteAltText, Completes
  <2>0. e = WithAltText(doc, alts)
    OBVIOUS
  <2> HIDE DEF e
  <2>2. \A r \in DOMAIN alts : alts[r] \in Alts
    BY <1>0, AnswersAreTexts, Zenon
  <2>3. \A k \in FIELDS : k # "nodes" => e[k] = doc[k]
    BY <1>0, <2>0, <2>2, AltTextWritten
  <2>4. \A k \in kinds : doc'[k] = doc[k]
    BY <2>1, <2>3 DEF FIELDS
  <2>5. at' # "font_repair" /\ ("font_repair" \in completed' => "font_repair" \in completed)
    BY <2>1, StepOrder
  <2> QED BY <2>1, <2>4, <2>5, FontsUntouched
<1>5. CASE Describe
  <2>1. UNCHANGED <<doc, before, at, completed>> /\ at = "alt_text"
    BY <1>5, Zenon DEF Describe
  <2> QED BY <2>1, FontsUntouched
<1>6. CASE ScoreDocument
  <2>1. /\ doc' = doc /\ before' = before /\ at' = After("scoring")
        /\ completed' = completed \cup {"scoring"}
    BY <1>6, Zenon DEF ScoreDocument, Completes
  <2>2. at' # "font_repair" /\ ("font_repair" \in completed' => "font_repair" \in completed)
    BY <2>1, StepOrder
  <2> QED BY <2>1, <2>2, FontsUntouched
<1>7. CASE StepFails
  <2>1. UNCHANGED <<doc, before, completed>> /\ at # "done" /\ at' = After(at)
    BY <1>7, Zenon DEF StepFails
  <2>2. at' # "font_repair"
    BY <1>0, <2>1, StepOrder DEF STEPS
  <2> QED BY <2>1, <2>2, FontsUntouched
<1>8. CASE Resubmit
  <2>1. doc' = doc /\ before' = doc /\ completed' = {}
    BY <1>8, Zenon DEF Resubmit
  <2> QED BY <2>1, Zenon DEF FontInv
<1>9. CASE UNCHANGED docVars
  BY <1>9, Zenon DEF FontInv, docVars
<1> QED BY <1>1, <1>2, <1>3, <1>4, <1>5, <1>6, <1>7, <1>8, <1>9, Zenon DEF DocNext

\* After the font step every repairable CIDSet marks all the glyphs of its font and
\* none past the last, and a font that one name on one page alone shows has every
\* code mapped to the right character: for any fonts, code counts and glyph counts
\* (font_repair/pike_pdf.py _repair_cidset, _repair_page_fonts).
THEOREM FontsAlwaysRepaired == DocSpec => []FontsAreRepaired
<1>1. (\E d \in Documents : DocInit(d)) => FontInv
  <2> HAVE \E d \in Documents : DocInit(d)
  <2>1. PICK d \in Documents : DocInit(d)
    OBVIOUS
  <2>2. doc = d /\ before = d /\ completed = {}
    BY <2>1, Zenon DEF DocInit
  <2>3. SoundFonts(d)
    BY DocumentsAssumption, StartFontsSound
  <2> QED BY <2>2, <2>3, Zenon DEF FontInv
<1>2. DocInv /\ FontInv /\ [DocNext]_docVars => FontInv'
  BY FontInvKept
<1>3. DocInv /\ FontInv => FontsAreRepaired
  <2> HAVE DocInv /\ FontInv
  <2>1. "font_repair" \in completed => Repaired(before, doc)
    BY Zenon DEF FontInv
  <2>2. SoundFonts(before)
    BY Zenon DEF FontInv
  <2>3. CidsetMarksEveryGlyph
    <3> SUFFICES ASSUME "font_repair" \in completed, NEW x \in DOMAIN doc.descs,
                        doc.descs[x].id # 0, doc.descs[x].cidset # <<>>, doc.descs[x].trueType,
                        doc.descs[x].glyphs # 0
                 PROVE  /\ CidsetCoversAllGlyphs(doc.descs[x].cidset, doc.descs[x].glyphs)
                        /\ doc.descs[x].cidset # before.descs[x].cidset =>
                              \A c \in doc.descs[x].glyphs..(Len(doc.descs[x].cidset) * 8 - 1) :
                                 ~Marks(doc.descs[x].cidset, c)
      BY Zenon DEF CidsetMarksEveryGlyph
    <3>1. Repaired(before, doc)
      BY <2>1
    <3> QED BY <2>2, <3>1, CidsetsRepaired
  <2>4. ShownCodesAreMapped
    <3>1. /\ doc.resources = before.resources /\ doc.shown = before.shown
          /\ doc.reads = before.reads
      BY DEF DocInv, KEPT
    <3> SUFFICES ASSUME "font_repair" \in completed,
                        NEW p \in DOMAIN doc.resources, NEW k \in DOMAIN doc.resources[p],
                        NEW f, f = doc.resources[p][k],
                        IsCandidate(before.fonts[f]),
                        CodesShown(doc, p, k) # <<>>, BestOffset(doc, p, k) # 0,
                        ShownOnlyUnder(doc, p, k),
                        NEW c \in ToSet(CodesShown(doc, p, k)), c + doc.reads[p][k] =< MaxCharacter
                 PROVE  <<c, c + doc.reads[p][k]>> \in doc.fonts[f].toUnicode
      BY Zenon DEF ShownCodesAreMapped
    <3>2. Repaired(before, doc)
      BY <2>1
    <3> QED BY <2>2, <3>1, <3>2, CodesMapped
  <2> QED BY <2>3, <2>4, Zenon DEF FontsAreRepaired
<1> QED BY <1>1, <1>2, <1>3, DocInvHolds, PTL DEF DocSpec
=============================================================================
