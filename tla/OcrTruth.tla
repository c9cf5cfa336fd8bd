------------------------------ MODULE OcrTruth ------------------------------
(***************************************************************************)
(* How OCR output is scored against a transcription, page by page, and two *)
(* scores compared.  A word is a member of a small set; NumberWords are    *)
(* those with a digit, Stripped[w] such a word without the punctuation     *)
(* around it.  Rates are counted in ten-thousandths, as score_page rounds  *)
(* them.  The reading order score (difflib's SequenceMatcher) is an input. *)
(***************************************************************************)
EXTENDS Integers, Sequences, FiniteSets, FiniteSetsExt, SequencesExt

CONSTANTS NumberWords, Stripped

ASSUME TruthAssumption == NumberWords \subseteq DOMAIN Stripped

RATE_TOLERANCE == 100
ORDER_TOLERANCE == 200

\* Mutant: equal items cost a swap too.
SwapCostAlways(x, y) == 1
SwapCost(x, y) == IF x # y THEN 1 ELSE 0

\* The rows of the dynamic programme: cell (i, j) is the distance between the
\* first i items of a and the first j of b.
EditDistance(a, b) ==
    LET cell[i \in 0..Len(a), j \in 0..Len(b)] ==
            IF i = 0 THEN j
            ELSE IF j = 0 THEN i
            ELSE Min({cell[i-1, j] + 1, cell[i, j-1] + 1,
                      cell[i-1, j-1] + SwapCost(a[i], b[j])})
    IN cell[Len(a), Len(b)]

\* Mutant: a whole-number division.
ErrorRateWhole(truth, output) ==
    IF truth = <<>> THEN IF output = <<>> THEN 0 ELSE 10000
    ELSE 10000 * (EditDistance(truth, output) \div Len(truth))

\* Rounded to four digits.
ErrorRate(truth, output) ==
    IF truth = <<>> THEN IF output = <<>> THEN 0 ELSE 10000
    ELSE (EditDistance(truth, output) * 20000 + Len(truth)) \div (2 * Len(truth))

\* How many items of a are left when those of b are taken away, counting copies.
CopiesOf(x, s) == Cardinality({i \in DOMAIN s : s[i] = x})
Minus(a, b) ==
    MapThenSumSet(LAMBDA x : IF CopiesOf(x, a) > CopiesOf(x, b)
                             THEN CopiesOf(x, a) - CopiesOf(x, b) ELSE 0, ToSet(a))

Numbers(words) ==
    LET found == SelectSeq(words, LAMBDA w : w \in NumberWords)
    IN [i \in 1..Len(found) |-> Stripped[found[i]]]

\* Words of one character each, joined with spaces.
Characters(words) ==
    IF words = <<>> THEN <<>>
    ELSE [i \in 1..(2 * Len(words) - 1) |-> IF i % 2 = 1 THEN words[(i + 1) \div 2] ELSE " "]

ScorePage(truth, output, order) ==
    [word_error_rate |-> ErrorRate(truth, output),
     char_error_rate |-> ErrorRate(Characters(truth), Characters(output)),
     words_missing   |-> Minus(truth, output),
     words_extra     |-> Minus(output, truth),
     numbers_missing |-> Minus(Numbers(truth), Numbers(output)),
     numbers_extra   |-> Minus(Numbers(output), Numbers(truth)),
     reading_order   |-> order]

SCORE_KEYS == {"word_error_rate", "char_error_rate", "words_missing", "words_extra",
               "numbers_missing", "numbers_extra", "reading_order"}

Tolerance(key) ==
    CASE key \in {"word_error_rate", "char_error_rate"} -> RATE_TOLERANCE
      [] key = "reading_order"                          -> ORDER_TOLERANCE
      [] OTHER                                          -> 0

IsNoise(key, before, after) ==
    after - before =< Tolerance(key) /\ before - after =< Tolerance(key)

\* The scores of the pages both sides have that changed by more than noise,
\* and which of them got worse; the others got better.
ScoreChanges(before, after) ==
    {c \in (DOMAIN before \cap DOMAIN after) \X SCORE_KEYS :
        ~IsNoise(c[2], before[c[1]][c[2]], after[c[1]][c[2]])}
WorseScores(before, after) ==
    {c \in ScoreChanges(before, after) :
        (after[c[1]][c[2]] > before[c[1]][c[2]]) <=> (c[2] # "reading_order")}
BetterScores(before, after) == ScoreChanges(before, after) \ WorseScores(before, after)
=============================================================================
