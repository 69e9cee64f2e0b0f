--------------------------- MODULE QueryLanguage ---------------------------
(***************************************************************************)
(* A query from its tokens, or from the flags of a command-line search, to *)
(* the files it returns: the recursive-descent parser of query.rs, the     *)
(* trigrams taken from the tree (query_trigrams.rs), the candidates they   *)
(* select, and the check of each candidate against filters and content     *)
(* (query_match.rs and the query half of multi_search.rs), for one         *)
(* segment.                                                                *)
(*                                                                         *)
(* The grammar has no parentheses, so the tree the parser builds is always *)
(* a disjunction of conjunctions of possibly negated terms, and is kept as *)
(* a sequence of sequences.  A regular expression is the disjunction of    *)
(* its branches; a branch is one of the literals it begins with, then      *)
(* anything on the line, then one of the literals it ends with (none: the  *)
(* beginning is all of it).                                                *)
(***************************************************************************)
EXTENDS MatchText

CONSTANTS
  FileId,        \* the files of the segment
  Prefix,        \* the values of path: filters
  Corpora,       \* what the segment may hold
  Token,         \* what the parser may meet
  Inputs,        \* the queries asked
  OrText,        \* the letters of OR, taken for a literal
  MaxDepth,      \* MAX_PARSE_DEPTH
  MaxBranches    \* the cap in merge_and

Lang == INSTANCE Languages

Literals == {"literal", "phrase"}
Filters  == {"path", "lang"}
Primary  == Literals \cup Filters \cup {"regex"}

Branch == [pre : SUBSET Text, suf : SUBSET Text]

File == [lang : Lang!LanguageName, under : SUBSET Prefix, content : Contents]

ASSUME QueryAssumption ==
  /\ OrText \in Text
  /\ MaxDepth \in Nat \ {0} /\ MaxBranches \in Nat \ {0}
  /\ Corpora \subseteq [FileId -> File]
  /\ \A in \in Inputs : in \in Seq(Token)
  /\ \A t \in Token :
       /\ t.kind \in Primary \cup {"not", "or", "case", "bad", "flags"}
       /\ t.kind \in Literals => t.v \in Text
       /\ t.kind = "regex" => t.v \in Seq(Branch)
       /\ t.kind = "path" => t.v \in Prefix
       /\ t.kind = "flags" =>
            /\ t.regex \in BOOLEAN /\ t.case_mode \in {"sensitive", "insensitive", "smart"}
            /\ t.v \in IF t.regex THEN Seq(Branch) ELSE Text

VARIABLES
  corpus,      \* the segment
  input,       \* the tokens of the query
  phase,
  pos,         \* Parser.pos
  cs,          \* Parser.case_sensitive
  nots,        \* the NOTs around the term being parsed
  nest,        \* Parser.depth inside that term
  conj,        \* parse_and's children
  query,       \* the disjuncts parsed
  di, ti,      \* the term whose trigrams are taken next
  merged,      \* extract_query_trigrams: the conjunction so far; << >> is None
  branches,    \* the disjunction so far
  unprunable,  \* a disjunct had no trigrams
  capped,      \* merge_and has dropped branches
  todo,        \* candidates still to be verified
  results

parseVars   == <<pos, cs, nots, nest, conj, query>>
extractVars == <<di, ti, merged, branches, unprunable, capped>>
verifyVars  == <<todo, results>>
vars        == <<corpus, input, phase, parseVars, extractVars, verifyVars>>

Init ==
  /\ corpus \in Corpora /\ input \in Inputs /\ phase = "parse"
  /\ pos = 1 /\ cs = FALSE /\ nots = 0 /\ nest = 0 /\ conj = <<>> /\ query = <<>>
  /\ di = 1 /\ ti = 1 /\ merged = <<>> /\ branches = <<>>
  /\ unprunable = FALSE /\ capped = FALSE
  /\ todo = {} /\ results = {}

-----------------------------------------------------------------------------
(* The parser.  Every error ends the query: one inside a later term makes  *)
(* parse_and stop in front of it, and parse_query then finds input left.   *)

Parsing(kinds) ==
  /\ phase = "parse" /\ pos <= Len(input) /\ input[pos].kind \in kinds

\* parse_unary's depth check, for the operand of NOT or case:yes.
Deeper ==
  /\ nest' = nest + 1
  /\ phase' = IF nest' + 1 > MaxDepth THEN "error" ELSE phase

ParseNot ==
  /\ Parsing({"not"}) /\ Deeper
  /\ pos' = pos + 1 /\ nots' = nots + 1
  /\ UNCHANGED <<corpus, input, cs, conj, query, extractVars, verifyVars>>

\* parse_case_modifier.
ParseCase ==
  /\ Parsing({"case"}) /\ Deeper
  /\ pos' = pos + 1 /\ cs' = TRUE
  /\ UNCHANGED <<corpus, input, nots, conj, query, extractVars, verifyVars>>

\* The keyword is met only behind a complete term.
AtKeyword == conj # <<>> /\ nest = 0

\* A parser that keeps the flag until a literal or phrase uses it.
CaseFlagAfterLiteral(kind) == kind \notin Literals /\ cs

\* case_sensitive after a primary: filters do not reset it.
CaseFlagAfter(kind) == kind \in Filters /\ cs

ParseLiteral(text)  == [nots |-> nots, kind |-> "literal", v |-> text, cs |-> cs]
ParsePhrase(text)   == [nots |-> nots, kind |-> "phrase", v |-> text, cs |-> cs]
ParseRegex(r)       == [nots |-> nots, kind |-> "regex", v |-> r, cs |-> TRUE]
ParsePathFilter(p)  == [nots |-> nots, kind |-> "path", v |-> p, cs |-> FALSE]
ParseLanguageFilter(s) == [nots |-> nots, kind |-> "lang", v |-> Lang!MatchLanguage(s), cs |-> FALSE]

\* parse_primary: an OR that cannot be the keyword is a literal.
ParsePrimary(tok) ==
  CASE tok.kind = "regex"   -> ParseRegex(tok.v)
    [] tok.kind = "phrase"  -> ParsePhrase(tok.v)
    [] tok.kind = "path"    -> ParsePathFilter(tok.v)
    [] tok.kind = "lang"    -> ParseLanguageFilter(tok.v)
    [] tok.kind = "or"      -> ParseLiteral(OrText)
    [] tok.kind = "literal" -> ParseLiteral(tok.v)

\* Errors of parse_phrase, parse_regex and the filters: no closing delimiter, no value, an invalid regex, an unknown language.
Malformed(tok) == tok.kind = "bad" \/ (tok.kind = "lang" /\ Lang!MatchLanguage(tok.v) = Lang!Unknown)

ParseTerm ==
  /\ Parsing(Primary \cup {"or"}) /\ (input[pos].kind = "or" => ~AtKeyword)
  /\ ~Malformed(input[pos])
  /\ conj' = Append(conj, ParsePrimary(input[pos]))
  /\ cs' = CaseFlagAfter(input[pos].kind)
  /\ pos' = pos + 1 /\ nots' = 0 /\ nest' = 0
  /\ UNCHANGED <<corpus, input, phase, query, extractVars, verifyVars>>

ParseBad ==
  /\ Parsing({"bad", "lang"}) /\ Malformed(input[pos])
  /\ phase' = "error"
  /\ UNCHANGED <<corpus, input, parseVars, extractVars, verifyVars>>

ParseOr ==
  /\ Parsing({"or"}) /\ AtKeyword
  /\ query' = Append(query, conj) /\ conj' = <<>> /\ pos' = pos + 1
  /\ UNCHANGED <<corpus, input, phase, cs, nots, nest, extractVars, verifyVars>>

\* The end of the input: an error where a term is due, an empty query included.
ParseEnd ==
  /\ phase = "parse" /\ pos > Len(input)
  /\ IF AtKeyword
     THEN phase' = "extract" /\ query' = Append(query, conj) /\ conj' = <<>>
     ELSE phase' = "error" /\ UNCHANGED <<query, conj>>
  /\ UNCHANGED <<corpus, input, pos, cs, nots, nest, extractVars, verifyVars>>

-----------------------------------------------------------------------------
(* A search of the command line, which comes as one pattern with its       *)
(* flags instead (search_cmd.rs, DaemonRequest::Search).                   *)

Upper(b) == Fold[b] # b

\* resolve_match_pattern: a literal with a capital is searched as it is written.
ResolveMatchPattern(flags) ==
  IF flags.regex THEN [nots |-> 0, kind |-> "regex", v |-> flags.v, cs |-> TRUE]
  ELSE [nots |-> 0, kind |-> "literal", v |-> flags.v,
        cs |-> CASE flags.case_mode = "sensitive"   -> TRUE
                 [] flags.case_mode = "insensitive" -> FALSE
                 [] flags.case_mode = "smart"       -> \E i \in 1..Len(flags.v) : Upper(flags.v[i])]

NoLanguage == ""

\* flags_to_query: the language filter before the pattern.
FlagsToQuery(flags) ==
  (IF flags.language = NoLanguage THEN <<>>
   ELSE <<[nots |-> 0, kind |-> "lang", v |-> Lang!MatchLanguage(flags.language), cs |-> FALSE]>>)
  \o <<ResolveMatchPattern(flags)>>

\* A regular expression that does not compile is an error, and so is an unknown language.
ParseFlags ==
  /\ Parsing({"flags"})
  /\ IF \/ input[pos].regex /\ ~input[pos].compiles
        \/ input[pos].language # NoLanguage /\ Lang!MatchLanguage(input[pos].language) = Lang!Unknown
     THEN phase' = "error" /\ UNCHANGED query
     ELSE phase' = "extract" /\ query' = <<FlagsToQuery(input[pos])>>
  /\ pos' = pos + 1
  /\ UNCHANGED <<corpus, input, cs, nots, nest, conj, extractVars, verifyVars>>

-----------------------------------------------------------------------------
(* Trigrams.  A TrigramQuery is the sequence of its branches: none for     *)
(* None, one for All, several for Any.                                     *)

\* extract_literal_trigrams.
LiteralBranches(p) == IF Len(p) < 3 THEN <<>> ELSE <<Trigrams(p)>>

\* extract_trigrams_from_hir: those of every literal the branch can begin or end with, taken together.
BranchTrigrams(b) == UNION {Trigrams(p) : p \in b.pre \cup b.suf}

\* extract_regex_trigrams: one branch without trigrams spoils the rest.
RegexBranches(r) ==
  IF \E i \in 1..Len(r) : BranchTrigrams(r[i]) = {} THEN <<>>
  ELSE [i \in 1..Len(r) |-> BranchTrigrams(r[i])]

\* An extraction that prunes by the trigrams of a negated term.
TermBranchesNegated(t) ==
  IF t.kind \in Filters THEN <<>>
  ELSE IF t.kind = "regex" THEN RegexBranches(t.v) ELSE LiteralBranches(t.v)

\* extract_query_trigrams of one term.
TermBranches(t) ==
  IF t.nots > 0 \/ t.kind \in Filters THEN <<>>
  ELSE IF t.kind = "regex" THEN RegexBranches(t.v) ELSE LiteralBranches(t.v)

Overflows(a, b) == Len(a) > 1 /\ Len(b) > 1 /\ Len(a) * Len(b) > MaxBranches

\* merge_and: the cross product, row by row, cut at the cap.
MergeAnd(a, b) ==
  IF a = <<>> THEN b ELSE IF b = <<>> THEN a
  ELSE [k \in 1..(IF Overflows(a, b) THEN MaxBranches ELSE Len(a) * Len(b)) |->
          a[((k - 1) \div Len(b)) + 1] \cup b[((k - 1) % Len(b)) + 1]]

ExtractTerm ==
  /\ phase = "extract" /\ di <= Len(query) /\ ti <= Len(query[di])
  /\ LET tq == TermBranches(query[di][ti]) IN
     /\ merged' = MergeAnd(merged, tq)
     /\ capped' = (capped \/ Overflows(merged, tq))
  /\ ti' = ti + 1
  /\ UNCHANGED <<corpus, input, phase, parseVars, di, branches, unprunable, verifyVars>>

\* A conjunction is complete; as one side of an OR it adds its branches or makes the whole None.
ExtractBranch ==
  /\ phase = "extract" /\ di <= Len(query) /\ ti > Len(query[di])
  /\ branches' = branches \o merged
  /\ unprunable' = (unprunable \/ merged = <<>>)
  /\ di' = di + 1 /\ ti' = 1 /\ merged' = <<>>
  /\ UNCHANGED <<corpus, input, phase, parseVars, capped, verifyVars>>

-----------------------------------------------------------------------------
(* Candidates and their verification.                                      *)

\* lookup_trigram_candidates, the posting lists being exact (see SegmentFiles).
Candidates ==
  IF unprunable THEN FileId
  ELSE {f \in FileId : \E i \in 1..Len(branches) : branches[i] \subseteq Trigrams(corpus[f].content)}

Lookup ==
  /\ phase = "extract" /\ di > Len(query)
  /\ todo' = Candidates /\ phase' = "verify"
  /\ UNCHANGED <<corpus, input, parseVars, extractVars, results>>

Terms(q) == UNION {{q[d][t] : t \in 1..Len(q[d])} : d \in 1..Len(q)}

\* extract_pre_filters: the filters of the whole tree, wherever they stand.
Values(q, kind) == {t.v : t \in {u \in Terms(q) : u.kind = kind}}

\* A pre-filter satisfied by any filter of either kind.
PassesAnyFilter(q, file) ==
  \/ Values(q, "lang") \cup Values(q, "path") = {}
  \/ file.lang \in Values(q, "lang")
  \/ \E p \in Values(q, "path") : p \in file.under

\* passes_pre_filters.
PassesPreFilters(q, file) ==
  /\ Values(q, "lang") # {} => file.lang \in Values(q, "lang")
  /\ Values(q, "path") # {} => \E p \in Values(q, "path") : p \in file.under

\* The starts of a branch's matches: its end is searched on the same line.
BranchStarts(content, b) ==
  LET text == Lossy(content) IN
  UNION {{k \in Occurrences(p, text) :
            b.suf = {} \/ \E s \in b.suf : \E m \in Occurrences(s, text) :
              /\ k + Len(p) <= m
              /\ \A i \in (k + Len(p) + 1)..m : text[i] # Newline} : p \in b.pre}

RegexStarts(content, r) ==
  IF Len(content) = 0 THEN {}
  ELSE UNION {BranchStarts(content, r[i]) : i \in 1..Len(r)}

\* Where a term without its negations is found.
Starts(t, content) ==
  IF t.kind = "regex" THEN RegexStarts(content, t.v) ELSE LiteralStarts(content, t.v, t.cs)

Odd(n) == n % 2 = 1

\* QueryMatcher::eval of a term: filters hold, each NOT inverts.
EvalTerm(t, content) ==
  (t.kind \in Filters \/ Starts(t, content) # {}) # Odd(t.nots)

EvalConj(c, content) == \A i \in 1..Len(c) : EvalTerm(c[i], content)

Eval(q, content) == \E d \in 1..Len(q) : EvalConj(q[d], content)

\* The lines eval returns: a negation, even a double one, contributes none.
HitLines(q, content) ==
  UNION {UNION {{LineAtByte(content, k) : k \in Starts(t, content)} :
                t \in {u \in Terms(<<q[d]>>) : u.kind \notin Filters /\ u.nots = 0}} :
         d \in {e \in 1..Len(q) : EvalConj(q[e], content)}}

\* verify_candidate.
VerifyCandidate(f) ==
  /\ phase = "verify" /\ f \in todo
  /\ todo' = todo \ {f}
  /\ results' = IF PassesPreFilters(query, corpus[f]) /\ Eval(query, corpus[f].content)
                THEN results \cup {f} ELSE results
  /\ UNCHANGED <<corpus, input, phase, parseVars, extractVars>>

Answer ==
  /\ phase = "verify" /\ todo = {}
  /\ phase' = "done"
  /\ UNCHANGED <<corpus, input, parseVars, extractVars, verifyVars>>

Next ==
  \/ ParseNot \/ ParseCase \/ ParseTerm \/ ParseBad \/ ParseOr \/ ParseEnd \/ ParseFlags
  \/ ExtractTerm \/ ExtractBranch \/ Lookup
  \/ \E f \in FileId : VerifyCandidate(f)
  \/ Answer

Spec == Init /\ [][Next]_vars

-----------------------------------------------------------------------------
(* What a query means: by query.rs' table of the syntax, and by README.md  *)
(* 'language:python TODO OR FIXME', a filter speaks of the whole query.    *)

\* A term without its negations holds of a file.
Holds(t, file) ==
  IF t.kind = "lang" THEN file.lang = t.v
  ELSE IF t.kind = "path" THEN t.v \in file.under
  ELSE IF t.kind = "regex" THEN \E i \in 1..Len(t.v) : BranchStarts(file.content, t.v[i]) # {}
  ELSE IF t.cs THEN Occurrences(t.v, file.content) # {}
  ELSE FoldedOccurrences(t.v, file.content) # {}

Satisfies(t, file) == Holds(t, file) # Odd(t.nots)

FiltersHold(q, file) == \A t \in Terms(q) : t.kind \in Filters => Satisfies(t, file)

ConjMeans(c, file) == \A i \in 1..Len(c) : c[i].kind \notin Filters => Satisfies(c[i], file)

Means(q, file) == FiltersHold(q, file) /\ \E d \in 1..Len(q) : ConjMeans(q[d], file)

\* The queries whose answers the code gets right: no negated filter, no empty
\* literal, and no literal of a regex branch is one of several.
PlainTerm(t) ==
  /\ t.kind \in Filters => t.nots = 0
  /\ t.kind \in Literals => Len(t.v) > 0
  /\ t.kind = "regex" => \A i \in 1..Len(t.v) :
       /\ \A p, r \in t.v[i].pre : p = r /\ Len(p) > 0
       /\ \A p, r \in t.v[i].suf : p = r

Plain(q) == \A t \in Terms(q) : PlainTerm(t)

\* No term is found at the empty string: a match of nothing behind the last newline is
\* shown on a line the file does not have.
NeverEmpty(q) ==
  \A t \in Terms(q) :
    /\ t.kind \in Literals => Len(t.v) > 0
    /\ t.kind = "regex" => \A i \in 1..Len(t.v) : \A p \in t.v[i].pre : Len(p) > 0

(* Properties.                                                             *)

\* Completeness of the whole pipeline: a file that satisfies a plain query is
\* in its answer.  The trigrams chosen for terms, negations, alternatives and
\* their cross products never exclude a file the verifier would accept, as
\* long as case folding is ASCII, the file is UTF-8 and merge_and has dropped
\* no branch.
NothingMissed ==
  phase = "done" /\ Plain(query) /\ ~capped /\ Ascii =>
    \A f \in FileId : Valid(corpus[f].content) /\ Means(query, corpus[f]) => f \in results

\* Soundness: with at most one language and one path among its filters, every
\* file a plain query returns satisfies it, although eval takes filters for
\* true and leaves them to a check made once for the whole tree.
OnlyMatches ==
  Plain(query) /\ (\A k \in Filters : Cardinality(Values(query, k)) <= 1) =>
    \A f \in results : Valid(corpus[f].content) => Means(query, corpus[f])

\* The position of the OR keywords: each follows a term.
Keyword(in) ==
  LET kw[i \in 0..Len(in)] ==
        /\ i > 1 /\ in[i].kind = "or"
        /\ in[i - 1].kind \in Primary \cup {"or"} /\ ~kw[i - 1]
  IN  {i \in 1..Len(in) : kw[i]}

\* The tree says what was written: its terms are the terms of the input in
\* their order, divided at the OR keywords, each under the NOTs that precede
\* it and case-sensitive exactly when a case:yes stands between it and the
\* literal or regex before it.
ParsedAsWritten ==
  phase \notin {"parse", "error"} /\ (\A i \in 1..Len(input) : input[i].kind # "flags") =>
    LET isTerm(i) == input[i].kind \in Primary \cup {"or"} /\ i \notin Keyword(input)
        places    == {i \in 1..Len(input) : isTerm(i)}
        starts    == {0} \cup Keyword(input)
        ofConj(d) == {i \in places : Cardinality({k \in starts : k < i}) = d}
        content(i) == i \in places /\ input[i].kind \notin Filters
        before(i) == {j \in 1..(i - 1) : \A k \in j..(i - 1) : input[k].kind \in {"not", "case"}}
        flagged(i) == \E j \in 1..(i - 1) :
                        /\ input[j].kind = "case"
                        /\ \A k \in j..(i - 1) : ~content(k)
    IN  /\ Len(query) = Cardinality(starts)
        /\ \A d \in 1..Len(query) : Len(query[d]) = Cardinality(ofConj(d))
        /\ \A d \in 1..Len(query) : \A i \in ofConj(d) :
             LET t == query[d][Cardinality({j \in ofConj(d) : j <= i})] IN
             /\ t.v = CASE input[i].kind = "or" -> OrText
                       [] input[i].kind = "lang" -> Lang!MatchLanguage(input[i].v)
                       [] OTHER -> input[i].v
             /\ t.nots = Cardinality({j \in before(i) : input[j].kind = "not"})
             /\ t.kind \in Literals => (t.cs <=> flagged(i))

\* Every range a literal is shown at, on the line it is shown on, holds the
\* literal: the line index and the ranges agree with the content.
MatchesWhereShown ==
  NeverEmpty(query) => \A f \in results : \A t \in Terms(query) :
    Valid(corpus[f].content) /\ t.kind \in Literals =>
      \A r \in VerifyLiteral(corpus[f].content, t.v, t.cs) :
        LET content == corpus[f].content
            at      == LineStart(content, r.line) + r.start
        IN  /\ r.line \in 1..LineCount(content) /\ r.start >= 0
            /\ at + Len(t.v) <= Len(content)
            /\ \A i \in 1..Len(t.v) : CaseFold[content[at + i]] = CaseFold[t.v[i]]
            /\ \A k \in (LineStart(content, r.line) + 1)..at : content[k] # Newline

\* With context, no line of a file is shown twice and none outside of it,
\* however close its matches are.
LinesShownOnce ==
  phase = "done" /\ NeverEmpty(query) => \A f \in results : Valid(corpus[f].content) => \A c \in 1..3 :
    LET content == corpus[f].content
        groups  == Groups(HitLines(query, content), c)
        shown(g) == Before(g, c) \cup g \cup After(g, c, LineCount(content))
    IN  /\ \A g \in groups : shown(g) \subseteq 1..LineCount(content)
        /\ \A g, h \in groups : g # h => shown(g) \cap shown(h) = {}
        /\ \A g \in groups : Before(g, c) \cap g = {} /\ After(g, c, LineCount(content)) \cap g = {}

=============================================================================
