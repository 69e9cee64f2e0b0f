----------------------------- MODULE QueryPlan -----------------------------
(***************************************************************************)
(* Choosing candidates for a pattern that is not a query of the query      *)
(* language: the plans of query_plan.rs and the literal prefix by which    *)
(* the pattern search of multi_search.rs looks a regular expression up.    *)
(* A regular expression is a sequence of items:                            *)
(*   char      a byte that is no metacharacter                             *)
(*   escaped   a metacharacter behind a backslash                          *)
(*   letter    another byte v behind a backslash, which stands for a set;  *)
(*             shorthand says that it is one of d D w W s S b B            *)
(*   class     brackets, and the set between them                          *)
(*   any       the dot                                                     *)
(*   plus, opt, star, or                                                   *)
(***************************************************************************)
EXTENDS MatchText

IsLiteral(item) == item.is \in {"char", "escaped"}

\* extract_literal_runs: any item that is no literal ends the run before it.
ExtractLiteralRuns(pattern) ==
  {[i \in 1..(to - from + 1) |-> pattern[from + i - 1].v] :
     <<from, to>> \in {r \in (1..Len(pattern)) \X (1..Len(pattern)) :
       /\ r[1] <= r[2]
       /\ \A i \in r[1]..r[2] : IsLiteral(pattern[i])
       /\ r[1] = 1 \/ ~IsLiteral(pattern[r[1] - 1])
       /\ r[2] = Len(pattern) \/ ~IsLiteral(pattern[r[2] + 1])}}

\* Each of some trigrams with the length of its list, a set as the order only saves time.
Scored(trigrams, contents) ==
  {[trigram |-> t, estimated_count |-> Cardinality({f \in DOMAIN contents : t \in Trigrams(contents[f])})] :
     t \in trigrams}

PlanLiteralQuery(text, contents) ==
  [trigram_plan |-> Scored(Trigrams(text), contents), is_empty |-> Len(text) < 3]

\* The trigrams of all runs; a run below three bytes has none.
PlanRegexQuery(pattern, contents) ==
  LET scored == Scored(UNION {Trigrams(run) : run \in ExtractLiteralRuns(pattern)}, contents) IN
  [trigram_plan |-> scored, is_empty |-> scored = {}]

CanShortCircuit(plan) == plan.is_empty \/ \E t \in plan.trigram_plan : t.estimated_count = 0

\* regex_literal_prefix: an escaped letter that is no shorthand is taken for itself.
InPrefix(item) == IsLiteral(item) \/ (item.is = "letter" /\ ~item.shorthand)

RegexLiteralPrefix(pattern) ==
  LET end == CHOOSE n \in 0..Len(pattern) :
        /\ \A i \in 1..n : InPrefix(pattern[i])
        /\ n = Len(pattern) \/ ~InPrefix(pattern[n + 1])
  IN  [i \in 1..end |-> pattern[i].v]

\* search_single_segment_with_pattern: the files looked into.
PatternCandidates(text, isRegex, contents) ==
  IF Len(text) >= 3 THEN {f \in DOMAIN contents : Trigrams(text) \subseteq Trigrams(contents[f])}
  ELSE IF isRegex THEN DOMAIN contents
  ELSE {}

-----------------------------------------------------------------------------
(* What the engine takes the pattern for.                                  *)

\* The bytes an item matches.
BytesOf(item) ==
  CASE IsLiteral(item)                 -> {item.v}
    [] item.is \in {"letter", "class"} -> item.set
    [] item.is = "any"                 -> Byte \ {Newline}
    [] OTHER                           -> {}

\* Whether the pattern matches somewhere in the content.
Finds(pattern, content) ==
  LET follows(i) == IF i < Len(pattern) THEN pattern[i + 1].is ELSE ""
      from[i \in 1..(Len(pattern) + 2), k \in 0..Len(content)] ==
        LET hit == k < Len(content) /\ content[k + 1] \in BytesOf(pattern[i]) IN
        IF i > Len(pattern) \/ pattern[i].is = "or" THEN TRUE
        ELSE CASE follows(i) = "plus" -> hit /\ (from[i, k + 1] \/ from[i + 2, k + 1])
               [] follows(i) = "opt"  -> from[i + 2, k] \/ (hit /\ from[i + 2, k + 1])
               [] follows(i) = "star" -> from[i + 2, k] \/ (hit /\ from[i, k + 1])
               [] OTHER               -> hit /\ from[i + 1, k + 1]
  IN  \E k \in 0..Len(content) : \E i \in 1..(Len(pattern) + 1) :
        (i = 1 \/ pattern[i - 1].is = "or") /\ from[i, k]

\* Patterns of which every item must be met.
Straight(pattern) == \A i \in 1..Len(pattern) : pattern[i].is \notin {"opt", "star", "or"}
=============================================================================
