-------------------------- MODULE MCQueryLanguage --------------------------
(* Two small corpora and the queries of up to three tokens asked of them,  *)
(* with some longer ones that reach the cap on branches.                   *)
EXTENDS QueryLanguage, QueryPlan

CONSTANTS a, b, A, n, x, y, z, src

rust == "Rust"
java == "Java"

MCFold == [c \in {a, b, A, n} |-> IF c = A THEN a ELSE c]

\* No content of these corpora has an invalid byte.
MCLossy(content) == content

aba == <<a, b, a>>
bab == <<b, a, b>>
abb == <<a, b, b>>

MCContents == {
  <<>>,
  <<A, b, a, n, b, b>>,
  <<b, a, b, n, n, n, a, b, a, n, b, n, b, a, b>>,
  <<a, b, a, b, b, n>>,
  <<b, b, n, a, b>> }

MCCorpora == {
  [f \in {x, y, z} |->
    IF f = x THEN [lang |-> rust, under |-> {src}, content |-> <<A, b, a, n, b, b>>]
    ELSE IF f = y THEN [lang |-> java, under |-> {},
                        content |-> <<b, a, b, n, n, n, a, b, a, n, b, n, b, a, b>>]
    ELSE [lang |-> rust, under |-> {}, content |-> <<a, b, a, b, b, n>>]],
  [f \in {x, y, z} |->
    IF f = x THEN [lang |-> java, under |-> {src}, content |-> <<>>]
    ELSE IF f = y THEN [lang |-> rust, under |-> {src}, content |-> <<b, b, n, a, b>>]
    ELSE [lang |-> java, under |-> {}, content |-> <<A, b, a, n, b, b>>]] }

Word(k) == [kind |-> k, v |-> k]

MCToken ==
  {Word("not"), Word("or"), Word("case"), Word("bad"),
   [kind |-> "literal", v |-> aba], [kind |-> "literal", v |-> <<b, b>>],
   [kind |-> "phrase", v |-> bab],
   [kind |-> "regex", v |-> <<[pre |-> {aba}, suf |-> {}], [pre |-> {bab}, suf |-> {abb}]>>],
   [kind |-> "regex", v |-> <<[pre |-> {aba, bab}, suf |-> {<<b>>}]>>],
   [kind |-> "path", v |-> src], [kind |-> "lang", v |-> "rs"], [kind |-> "lang", v |-> "java"],
   [kind |-> "lang", v |-> "cobol"]}

Alternation == [kind |-> "regex", v |-> <<[pre |-> {bab}, suf |-> {}], [pre |-> {aba}, suf |-> {}]>>]
Both        == [kind |-> "regex", v |-> <<[pre |-> {abb}, suf |-> {}], [pre |-> {bab}, suf |-> {}]>>]

\* Two quotation marks with nothing between them.
Nothing == [kind |-> "phrase", v |-> <<>>]

MCFlags ==
  {[kind |-> "flags", v |-> t, regex |-> FALSE, compiles |-> TRUE, case_mode |-> c, language |-> l] :
     t \in {aba, <<A, b, a>>, <<b, b>>}, c \in {"sensitive", "insensitive", "smart"},
     l \in {"", "java", "cobol"}}
  \cup {[kind |-> "flags", v |-> Alternation.v, regex |-> TRUE, compiles |-> ok, case_mode |-> "smart",
          language |-> "rs"] : ok \in BOOLEAN}

MCTokens == MCToken \cup {Alternation, Both, Nothing} \cup MCFlags

MCInputs ==
  UNION {[1..k -> MCToken] : k \in 0..3}
  \cup {<<t>> : t \in MCFlags}
  \cup {<<Alternation, Both>>, <<Both, Alternation, [kind |-> "lang", v |-> "rs"]>>,
        <<Alternation, Both, Alternation>>, <<Nothing>>, <<Word("case"), Nothing, Both>>}
  \cup {<<[kind |-> "phrase", v |-> bab], Word("or"), t, Both, Alternation>> : t \in MCToken}
  \cup {<<Word("case"), [kind |-> "path", v |-> src], Word("not"), t, Word("or"), t>> : t \in MCToken}

\* The tables agree: a name of a filter that is also an extension means the language
\* the extension is detected as, and files are found by the name their language is
\* shown with, but for those shown as "Plain Text" and "Unknown"; so are symbols by
\* the label of their kind, and every capture of a symbol query has a kind (types.rs,
\* query.rs, symbol_extractor.rs).
ASSUME TablesAgree ==
  /\ \A k \in 1..Len(Lang!KindTable) : Lang!FromStrLoose(Lang!ShortLabel(k)) = k
  /\ \A l \in DOMAIN Lang!LanguageConfig : \A c \in Lang!Captured(l) : Lang!KindFromCapture(c) # 0
  /\ \A l \in Lang!LanguageName :
    /\ Lang!FromU16(Lang!ToU16[l]) = l
    /\ \A k \in 1..Len(Lang!LanguageTable) : \A e \in Lang!LanguageTable[k].extensions :
         Lang!MatchLanguage(e) \in {Lang!FromExtension(e), Lang!Unknown}
    /\ l \notin {"PlainText", Lang!Unknown} => Lang!MatchLanguage(Lang!Display(l)) = l

Item(b1) == [is |-> "char", v |-> b1]
Op(o)    == [is |-> o]

MCItems ==
  {Item(a), Item(b), [is |-> "escaped", v |-> a],
   [is |-> "letter", v |-> b, set |-> {a, b}, shorthand |-> TRUE],
   [is |-> "letter", v |-> b, set |-> {n}, shorthand |-> FALSE],
   [is |-> "class", set |-> {a, A}], Op("any")}

\* Every item alone or repeated, up to four of them, and literals of both cases.
MCPatterns ==
  LET atoms == {<<i>> : i \in MCItems} \cup {<<Item(b), Op("plus")>>} IN
  {p[1] \o p[2] \o p[3] \o p[4] : p \in [1..4 -> atoms]}

MCTexts == {<<a, b, a>>, <<A, b, a, n>>, <<b, a>>, <<b, b, b>>}

\* Neither a plan nor a literal prefix leaves out a file in which a pattern is found
\* whose items must all be met; the prefix only where no escaped letter stands for
\* another byte, and a literal is too short only for the pattern search
\* (query_plan.rs plan_regex_query, multi_search.rs regex_literal_prefix).
ASSUME PlansPruneNothing ==
  \A corp \in MCCorpora :
    LET contents == [f \in FileId |-> corp[f].content]
        has(plan, f) == \A t \in plan.trigram_plan : t.trigram \in Trigrams(contents[f])
    IN
    /\ \A p \in MCPatterns :
         LET plan == PlanRegexQuery(p, contents)
             odd(i) == p[i].is = "letter" /\ ~p[i].shorthand
         IN  \A f \in FileId : Straight(p) /\ Finds(p, contents[f]) =>
               /\ has(plan, f) /\ (CanShortCircuit(plan) => plan.is_empty)
               /\ (\A i \in 1..Len(p) : ~odd(i)) =>
                    f \in PatternCandidates(RegexLiteralPrefix(p), TRUE, contents)
    /\ \A text \in MCTexts : \A f \in FileId :
         LET plan == PlanLiteralQuery(text, contents) IN
         FoldedOccurrences(text, contents[f]) # {} /\ Len(text) >= 3 =>
           /\ has(plan, f) /\ ~CanShortCircuit(plan)
           /\ f \in PatternCandidates(text, FALSE, contents)
=============================================================================
