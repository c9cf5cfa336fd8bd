------------------------------ MODULE Severity ------------------------------
(***************************************************************************)
(* The severity of a failed veraPDF rule.  A clause is the sequence of its *)
(* numbers, so that "7.10" is <<7, 10>>; a rule is a clause and a test     *)
(* number.                                                                 *)
(***************************************************************************)
EXTENDS Naturals, Sequences, SequencesExt

\* The rules of veraPDF 1.30.2's PDF/UA-1 profile.
Catalog ==
    LET tests(clauses, numbers) == clauses \X numbers
    IN tests({<<7, 1>>}, 1..12) \cup tests({<<7, 2>>}, (2..34) \cup (36..43))
       \cup tests({<<5>>}, 1..5) \cup tests({<<7, 21, 6>>}, 1..4)
       \cup tests({<<7, 4, 4>>, <<7, 18, 1>>, <<7, 21, 3, 3>>}, 1..3)
       \cup tests({<<7, 5>>, <<7, 9>>, <<7, 10>>, <<7, 18, 4>>, <<7, 18, 5>>, <<7, 18, 6, 2>>,
                   <<7, 20>>, <<7, 21, 4, 1>>, <<7, 21, 4, 2>>, <<7, 21, 7>>}, 1..2)
       \cup tests({<<6, 1>>, <<6, 2>>, <<7, 3>>, <<7, 4, 2>>, <<7, 7>>, <<7, 11>>, <<7, 15>>,
                   <<7, 16>>, <<7, 18, 2>>, <<7, 18, 3>>, <<7, 18, 8>>, <<7, 21, 3, 1>>,
                   <<7, 21, 3, 2>>, <<7, 21, 5>>, <<7, 21, 8>>}, {1})

\* The rules of clauses 7.1 and 7.2, one by one.
RULE_SEVERITY ==
    [rule \in (({<<7, 1>>} \X (1..12)) \cup ({<<7, 2>>} \X ((2..34) \cup (36..43)))) |->
        CASE rule[1] = <<7, 1>> /\ rule[2] \in {1, 2, 3, 9, 10, 11} -> "critical"
          [] rule[1] = <<7, 1>> /\ rule[2] \in {5, 7, 12}           -> "major"
          [] rule[1] = <<7, 1>>                                    -> "minor"
          [] rule[2] \in {2} \cup (21..25) \cup (29..34)            -> "critical"
          [] OTHER                                                 -> "major"]

\* The other clauses, each with every clause below it.
CRITICAL_CLAUSES == {<<6, 2>>, <<7, 3>>, <<7, 4>>, <<7, 18, 1>>, <<7, 18, 4>>, <<7, 18, 5>>}
MAJOR_CLAUSES == {<<7, 5>>, <<7, 7>>, <<7, 9>>, <<7, 18, 3>>}
MINOR_CLAUSES == {<<5>>, <<6, 1>>, <<7, 10>>, <<7, 11>>, <<7, 15>>, <<7, 16>>, <<7, 18, 2>>,
                  <<7, 18, 6>>, <<7, 18, 8>>, <<7, 20>>, <<7, 21>>}
CLAUSE_SEVERITY ==
    [c \in CRITICAL_CLAUSES \cup MAJOR_CLAUSES \cup MINOR_CLAUSES |->
        CASE c \in CRITICAL_CLAUSES -> "critical"
          [] c \in MAJOR_CLAUSES    -> "major"
          [] OTHER                  -> "minor"]

\* Mutant: a prefix that need not end at a dot ("50" starts with "5").
MatchesWithoutDot(clause) ==
    {c \in DOMAIN CLAUSE_SEVERITY :
        /\ Len(c) =< Len(clause) /\ IsPrefix(Front(c), clause)
        /\ Last(c) \in {clause[Len(c)], clause[Len(c)] \div 10}}

\* The known clauses a clause equals or lies under.
Matches(clause) == {c \in DOMAIN CLAUSE_SEVERITY : IsPrefix(c, clause)}

Classify(clause, test) ==
    IF <<clause, test>> \in DOMAIN RULE_SEVERITY THEN RULE_SEVERITY[<<clause, test>>]
    ELSE IF Matches(clause) = {} THEN "unclassified"
    ELSE CLAUSE_SEVERITY[CHOOSE c \in Matches(clause) :
                            \A d \in Matches(clause) : Len(d) =< Len(c)]
=============================================================================
