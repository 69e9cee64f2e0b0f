------------------------ MODULE QueryLanguageProofs ------------------------
(***************************************************************************)
(* What the query pipeline promises for every corpus, alphabet and query:  *)
(* no file that satisfies a plain query is missing from its answer, and    *)
(* the answer has no other; every match stands where it is shown and no    *)
(* line is shown twice; the tree is what was written.                      *)
(***************************************************************************)
EXTENDS QueryLanguage, SequenceTheorems, FiniteSetTheorems, WellFoundedInduction, TLAPS

-----------------------------------------------------------------------------
(* Types.                                                                  *)

\* The names filters are given.
Named ==
  {t.v : t \in {u \in Token : u.kind = "lang"}}
  \cup {t.language : t \in {u \in Token : u.kind = "flags"}}

Term ==
  [nots : Nat, kind : Literals, v : Text, cs : BOOLEAN]
  \cup [nots : Nat, kind : {"regex"}, v : Seq(Branch), cs : {TRUE}]
  \cup [nots : Nat, kind : {"path"}, v : Prefix, cs : {FALSE}]
  \cup [nots : Nat, kind : {"lang"}, v : {Lang!MatchLanguage(s) : s \in Named}, cs : {FALSE}]

TypeInv ==
  /\ corpus \in [FileId -> File]
  /\ input \in Seq(Token)
  /\ phase \in {"parse", "error", "extract", "verify", "done"}
  /\ pos \in Nat \ {0} /\ cs \in BOOLEAN /\ nots \in Nat /\ nest \in Nat
  /\ conj \in Seq(Term) /\ query \in Seq(Seq(Term))
  /\ di \in 1 .. Len(query) + 1 /\ ti \in Nat \ {0}
  /\ phase = "parse" => di = 1 /\ ti = 1
  /\ merged \in Seq(SUBSET Trigram) /\ branches \in Seq(SUBSET Trigram)
  /\ unprunable \in BOOLEAN /\ capped \in BOOLEAN
  /\ todo \in SUBSET FileId /\ results \in SUBSET FileId

\* A term has one of four shapes.
LEMMA TermFacts ==
  ASSUME NEW t \in Term
  PROVE  /\ t.nots \in Nat /\ t.kind \in Primary /\ t.cs \in BOOLEAN
         /\ t.kind \in Literals => t.v \in Text
         /\ t.kind = "regex" => t.v \in Seq(Branch)
BY DEF Term, Primary, Literals, Filters

\* What the parser makes of a token is a term.
LEMMA PrimaryIsTerm ==
  ASSUME NEW tok \in Token, tok.kind \in Primary \cup {"or"}, nots \in Nat, cs \in BOOLEAN
  PROVE  ParsePrimary(tok) \in Term
<1>1. CASE tok.kind = "regex"
  BY <1>1, QueryAssumption DEF ParsePrimary, ParseRegex, Term
<1>2. CASE tok.kind = "phrase"
  BY <1>2, QueryAssumption DEF ParsePrimary, ParsePhrase, Term, Literals
<1>3. CASE tok.kind = "path"
  BY <1>3, QueryAssumption DEF ParsePrimary, ParsePathFilter, Term
<1>4. CASE tok.kind = "lang"
  <2>1. tok.v \in Named
    BY <1>4 DEF Named
  <2>. QED BY <1>4, <2>1 DEF ParsePrimary, ParseLanguageFilter, Term
<1>5. CASE tok.kind = "or"
  BY <1>5, QueryAssumption DEF ParsePrimary, ParseLiteral, Term, Literals
<1>6. CASE tok.kind = "literal"
  BY <1>6, QueryAssumption DEF ParsePrimary, ParseLiteral, Term, Literals
<1>. QED BY <1>1, <1>2, <1>3, <1>4, <1>5, <1>6 DEF Primary, Literals, Filters

\* What flags_to_query makes of the flags is a conjunction of terms.
LEMMA FlagsAreTerms ==
  ASSUME NEW tok \in Token, tok.kind = "flags"
  PROVE  FlagsToQuery(tok) \in Seq(Term)
<1>1. ResolveMatchPattern(tok) \in Term
  <2>1. CASE tok.regex
    BY <2>1, QueryAssumption DEF ResolveMatchPattern, Term
  <2>2. CASE ~tok.regex
    <3>. DEFINE smart == \E i \in 1..Len(tok.v) : Upper(tok.v[i])
                sens == CASE tok.case_mode = "sensitive"   -> TRUE
                          [] tok.case_mode = "insensitive" -> FALSE
                          [] tok.case_mode = "smart"       -> smart
    <3>0. smart \in BOOLEAN
      OBVIOUS
    <3>. HIDE DEF smart
    <3>1. sens \in BOOLEAN
      BY <3>0, QueryAssumption
    <3>2. ResolveMatchPattern(tok) = [nots |-> 0, kind |-> "literal", v |-> tok.v, cs |-> sens]
      BY <2>2 DEF ResolveMatchPattern, smart
    <3>. HIDE DEF sens
    <3>3. tok.v \in Text
      BY <2>2, QueryAssumption
    <3>. QED BY <3>1, <3>2, <3>3 DEF Term, Literals
  <2>. QED BY <2>1, <2>2, QueryAssumption
<1>2. [nots |-> 0, kind |-> "lang", v |-> Lang!MatchLanguage(tok.language), cs |-> FALSE] \in Term
  <2>1. tok.language \in Named
    BY DEF Named
  <2>. QED BY <2>1 DEF Term
<1>. DEFINE r == ResolveMatchPattern(tok)
            l == [nots |-> 0, kind |-> "lang", v |-> Lang!MatchLanguage(tok.language), cs |-> FALSE]
<1>. HIDE DEF r, l
<1>3. FlagsToQuery(tok) = <<>> \o <<r>> \/ FlagsToQuery(tok) = <<l>> \o <<r>>
  BY DEF FlagsToQuery, r, l
<1>4. r \in Term /\ l \in Term
  BY <1>1, <1>2 DEF r, l
<1>5. <<r>> \in Seq(Term) /\ <<l>> \in Seq(Term) /\ <<>> \in Seq(Term)
  BY <1>4
<1>6. <<>> \o <<r>> \in Seq(Term) /\ <<l>> \o <<r>> \in Seq(Term)
  BY <1>5, ConcatProperties
<1>. QED BY <1>3, <1>6

-----------------------------------------------------------------------------
(* Trigrams.                                                               *)

\* Where a pattern is found up to case, its trigrams are trigrams of the content.
LEMMA FoundTrigrams ==
  ASSUME NEW p \in Text, NEW x \in Text, NEW k \in 0 .. Len(x) - Len(p),
         \A i \in 1 .. Len(p) : Fold[x[k + i]] = Fold[p[i]]
  PROVE  Trigrams(p) \subseteq Trigrams(x)
<1>. SUFFICES ASSUME NEW i \in 1 .. Len(p) - 2
              PROVE  <<Fold[p[i]], Fold[p[i + 1]], Fold[p[i + 2]]>> \in Trigrams(x)
  BY DEF Trigrams
<1>0. Len(p) \in Nat /\ Len(x) \in Nat
  BY DEF Text
<1>1. i \in 1 .. Len(p) /\ i + 1 \in 1 .. Len(p) /\ i + 2 \in 1 .. Len(p)
  BY <1>0
<1>2. /\ Fold[x[k + i]] = Fold[p[i]]
      /\ Fold[x[k + (i + 1)]] = Fold[p[i + 1]]
      /\ Fold[x[k + (i + 2)]] = Fold[p[i + 2]]
  BY <1>1
<1>3. k + i \in 1 .. Len(x) - 2 /\ k + (i + 1) = (k + i) + 1 /\ k + (i + 2) = (k + i) + 2
  BY <1>0
<1>. QED BY <1>2, <1>3 DEF Trigrams

\* The trigrams of a literal that is found are trigrams of the content.
LEMMA OccurrencesTrigrams ==
  ASSUME NEW p \in Text, NEW x \in Text, Occurrences(p, x) # {}
  PROVE  Trigrams(p) \subseteq Trigrams(x)
<1>1. PICK k \in 0 .. Len(x) - Len(p) : \A i \in 1 .. Len(p) : x[k + i] = p[i]
  BY DEF Occurrences
<1>2. \A i \in 1 .. Len(p) : Fold[x[k + i]] = Fold[p[i]]
  BY <1>1
<1>. QED BY <1>2, FoundTrigrams

\* The same for one found up to case, when case folding is ASCII.
LEMMA FoldedTrigrams ==
  ASSUME NEW p \in Text, NEW x \in Text, Ascii, FoldedOccurrences(p, x) # {}
  PROVE  Trigrams(p) \subseteq Trigrams(x)
<1>0. Len(p) \in Nat /\ Len(x) \in Nat
  BY DEF Text
<1>1. PICK k \in 0 .. Len(x) - Len(p) : \A i \in 1 .. Len(p) : CaseFold[x[k + i]] = CaseFold[p[i]]
  BY DEF FoldedOccurrences
<1>2. ASSUME NEW i \in 1 .. Len(p) PROVE Fold[x[k + i]] = Fold[p[i]]
  <2>1. k + i \in 1 .. Len(x)
    BY <1>0
  <2>2. x[k + i] \in Byte /\ p[i] \in Byte
    BY <2>1 DEF Text
  <2>. QED BY <1>1, <2>2 DEF Ascii
<1>. QED BY <1>2, FoundTrigrams

\* Every trigram is made of three folded bytes.
LEMMA TrigramsType ==
  ASSUME NEW s \in Text PROVE Trigrams(s) \in SUBSET Trigram
<1>. SUFFICES ASSUME NEW i \in 1 .. Len(s) - 2
              PROVE  <<Fold[s[i]], Fold[s[i + 1]], Fold[s[i + 2]]>> \in Trigram
  BY DEF Trigrams
<1>1. Len(s) \in Nat
  BY DEF Text
<1>2. s[i] \in Byte /\ s[i + 1] \in Byte /\ s[i + 2] \in Byte
  BY <1>1 DEF Text
<1>. QED BY <1>2, TextAssumption DEF Trigram

\* A union stays in what bounds its members.
LEMMA UnionBound ==
  ASSUME NEW S, NEW T, \A p \in S : Trigrams(p) \subseteq T
  PROVE  UNION {Trigrams(p) : p \in S} \subseteq T
BY Zenon

\* The trigrams of one term are a sequence of sets of trigrams.
LEMMA TermBranchesType ==
  ASSUME NEW t \in Term PROVE TermBranches(t) \in Seq(SUBSET Trigram)
<1>1. CASE t.nots > 0 \/ t.kind \in Filters
  BY <1>1 DEF TermBranches
<1>2. CASE ~(t.nots > 0 \/ t.kind \in Filters) /\ t.kind = "regex"
  <2>1. t.v \in Seq(Branch)
    BY <1>2, TermFacts
  <2>2. ASSUME NEW i \in 1 .. Len(t.v) PROVE BranchTrigrams(t.v[i]) \in SUBSET Trigram
    <3>1. t.v[i] \in Branch
      BY <2>1
    <3>2. t.v[i].pre \cup t.v[i].suf \subseteq Text
      BY <3>1 DEF Branch
    <3>3. \A p \in t.v[i].pre \cup t.v[i].suf : Trigrams(p) \subseteq Trigram
      BY <3>2, TrigramsType
    <3>. QED BY <3>3, UnionBound DEF BranchTrigrams
  <2>3. [i \in 1 .. Len(t.v) |-> BranchTrigrams(t.v[i])] \in Seq(SUBSET Trigram)
    BY <2>1, <2>2
  <2>. QED BY <1>2, <2>3 DEF TermBranches, RegexBranches
<1>3. CASE ~(t.nots > 0 \/ t.kind \in Filters) /\ t.kind # "regex"
  <2>1. t.v \in Text
    BY <1>3, TermFacts DEF Primary
  <2>2. Trigrams(t.v) \in SUBSET Trigram
    BY <2>1, TrigramsType
  <2>3. <<Trigrams(t.v)>> \in Seq(SUBSET Trigram)
    BY <2>2
  <2>4. TermBranches(t) = <<>> \/ TermBranches(t) = <<Trigrams(t.v)>>
    BY <1>3 DEF TermBranches, LiteralBranches
  <2>5. <<>> \in Seq(SUBSET Trigram)
    OBVIOUS
  <2>. QED BY <2>3, <2>4, <2>5, Zenon
<1>. QED BY <1>1, <1>2, <1>3

\* One of the branches bs lies in content x: the candidates bs selects include x.
Selects(bs, x) == \E i \in 1 .. Len(bs) : bs[i] \subseteq Trigrams(x)

\* A file without invalid bytes is searched as it is.
LEMMA LossyValid ==
  ASSUME NEW x \in Contents, Valid(x) PROVE Lossy(x) = x /\ x \in Text
BY TextAssumption DEF Valid, Text

\* A match of a branch of a regular expression has one of its beginnings, and one of its
\* ends if it has any.
LEMMA BranchFound ==
  ASSUME NEW x \in Contents, Valid(x), NEW b \in Branch, BranchStarts(x, b) # {}
  PROVE  /\ \E p \in b.pre : Occurrences(p, x) # {}
         /\ b.suf = {} \/ \E s \in b.suf : Occurrences(s, x) # {}
<1>0. Lossy(x) = x
  BY LossyValid
<1>1. PICK p \in b.pre : \E k \in Occurrences(p, x) :
            b.suf = {} \/ \E s \in b.suf : \E m \in Occurrences(s, x) : TRUE
  BY <1>0 DEF BranchStarts
<1>. QED BY <1>1

\* The trigrams of a term do not exclude a file in which it is found.
LEMMA TermSelects ==
  ASSUME NEW t \in Term, PlainTerm(t), Ascii, NEW x \in Contents, Valid(x),
         EvalTerm(t, x), TermBranches(t) # <<>>
  PROVE  Selects(TermBranches(t), x)
<1>0. x \in Text /\ Lossy(x) = x
  BY LossyValid
<1>1. t.nots = 0 /\ t.kind \notin Filters
  BY TermFacts DEF TermBranches
<1>2. Starts(t, x) # {}
  BY <1>1 DEF EvalTerm, Odd
<1>3. CASE t.kind = "regex"
  <2>0. t.v \in Seq(Branch) /\ Len(t.v) \in Nat
    BY <1>3, TermFacts
  <2>1. TermBranches(t) = RegexBranches(t.v)
    BY <1>1, <1>3 DEF TermBranches
  <2>2. TermBranches(t) = [i \in 1 .. Len(t.v) |-> BranchTrigrams(t.v[i])]
    BY <2>1 DEF RegexBranches
  <2>3. PICK i \in 1 .. Len(t.v) : BranchStarts(x, t.v[i]) # {}
    <3>1. RegexStarts(x, t.v) # {}
      BY <1>2, <1>3 DEF Starts
    <3>2. UNION {BranchStarts(x, t.v[i]) : i \in 1 .. Len(t.v)} # {}
      BY <3>1 DEF RegexStarts
    <3>. QED BY <3>2, Zenon
  <2>. DEFINE b == t.v[i]
  <2>4. b \in Branch
    BY <2>0
  <2>5. b.pre \subseteq Text /\ b.suf \subseteq Text
    BY <2>4 DEF Branch
  <2>6. /\ \E p \in b.pre : Occurrences(p, x) # {}
        /\ b.suf = {} \/ \E s \in b.suf : Occurrences(s, x) # {}
    BY <2>3, <2>4, BranchFound
  <2>7. \A p, r \in b.pre : p = r
    BY <1>3 DEF PlainTerm
  <2>8. \A p, r \in b.suf : p = r
    BY <1>3 DEF PlainTerm
  <2>9. \A p \in b.pre \cup b.suf : Occurrences(p, x) # {}
    BY <2>6, <2>7, <2>8
  <2>10. \A p \in b.pre \cup b.suf : Trigrams(p) \subseteq Trigrams(x)
    BY <1>0, <2>5, <2>9, OccurrencesTrigrams
  <2>11. BranchTrigrams(b) \subseteq Trigrams(x)
    BY <2>10, UnionBound DEF BranchTrigrams
  <2>12. TermBranches(t)[i] = BranchTrigrams(b) /\ Len(TermBranches(t)) = Len(t.v)
    BY <2>0, <2>2
  <2>. QED BY <2>11, <2>12 DEF Selects
<1>4. CASE t.kind # "regex"
  <2>0. t.v \in Text
    BY <1>1, <1>4, TermFacts DEF Primary
  <2>1. TermBranches(t) = <<Trigrams(t.v)>>
    BY <1>1, <1>4 DEF TermBranches, LiteralBranches
  <2>2. LiteralStarts(x, t.v, t.cs) # {}
    BY <1>2, <1>4 DEF Starts
  <2>3. Occurrences(t.v, x) # {} \/ FoldedOccurrences(t.v, x) # {}
    BY <2>2, <1>0 DEF LiteralStarts
  <2>4. Trigrams(t.v) \subseteq Trigrams(x)
    BY <1>0, <2>0, <2>3, OccurrencesTrigrams, FoldedTrigrams
  <2>5. Len(TermBranches(t)) = 1 /\ TermBranches(t)[1] = Trigrams(t.v)
    BY <2>1
  <2>. QED BY <2>4, <2>5 DEF Selects
<1>. QED BY <1>3, <1>4

\* The remainder of a division that is written out.
LEMMA RowAndColumn ==
  ASSUME NEW u \in Nat, NEW v \in Nat, NEW n \in Nat, v < n
  PROVE  (u * n + v) \div n = u /\ (u * n + v) % n = v
<1>. DEFINE w == u * n + v
            q == w \div n
            r == w % n
<1>0. u * n \in Nat /\ w \in Nat /\ n > 0
  OBVIOUS
<1>1. q \in Nat /\ r \in Nat /\ r < n /\ w = n * q + r
  BY <1>0
<1>2. q = u
  <2>1. CASE q < u
    <3>1. n * (q + 1) <= n * u
      BY <1>1, <2>1
    <3>2. n * (q + 1) = n * q + n /\ n * u = u * n
      BY <1>1
    <3>. QED BY <1>0, <1>1, <3>1, <3>2
  <2>2. CASE q > u
    <3>1. n * (u + 1) <= n * q
      BY <1>1, <2>2
    <3>2. n * (u + 1) = u * n + n
      BY <1>1
    <3>. QED BY <1>0, <1>1, <3>1, <3>2
  <2>. QED BY <2>1, <2>2, <1>1
<1>3. r = v
  BY <1>0, <1>1, <1>2
<1>. QED BY <1>2, <1>3

\* merge_and's product has the union of any two branches, unless it is cut.
LEMMA MergeSelects ==
  ASSUME NEW a \in Seq(SUBSET Trigram), NEW b \in Seq(SUBSET Trigram), NEW x,
         ~Overflows(a, b), a = <<>> \/ Selects(a, x), b = <<>> \/ Selects(b, x)
  PROVE  MergeAnd(a, b) = <<>> \/ Selects(MergeAnd(a, b), x)
<1>1. CASE a = <<>> \/ b = <<>>
  BY <1>1 DEF MergeAnd
<1>2. CASE a # <<>> /\ b # <<>>
  <2>. DEFINE m == MergeAnd(a, b)
  <2>0. Len(a) \in Nat /\ Len(b) \in Nat
    OBVIOUS
  <2>1. PICK i \in 1 .. Len(a) : a[i] \subseteq Trigrams(x)
    BY <1>2 DEF Selects
  <2>2. PICK j \in 1 .. Len(b) : b[j] \subseteq Trigrams(x)
    BY <1>2 DEF Selects
  <2>. DEFINE k == (i - 1) * Len(b) + j
              total == Len(a) * Len(b)
  <2>3. total \in Nat /\ k \in 1 .. total
    <3>1. (i - 1) * Len(b) \in Nat /\ total \in Nat
      BY <2>0
    <3>2. i * Len(b) <= Len(a) * Len(b)
      BY <2>0
    <3>3. i * Len(b) = (i - 1) * Len(b) + Len(b)
      BY <2>0
    <3>. QED BY <2>0, <3>1, <3>2, <3>3
  <2>4. m = [n \in 1 .. total |-> a[((n - 1) \div Len(b)) + 1] \cup b[((n - 1) % Len(b)) + 1]]
    BY <1>2 DEF MergeAnd
  <2>. DEFINE u == i - 1
              v == j - 1
              w == Len(b)
  <2>5. k - 1 = u * w + v /\ u \in Nat /\ v \in Nat /\ w \in Nat /\ v < w
    BY <2>0
  <2>6. (k - 1) \div Len(b) = i - 1 /\ (k - 1) % Len(b) = j - 1
    <3>. HIDE DEF k, u, v, w
    <3>1. (u * w + v) \div w = u /\ (u * w + v) % w = v
      BY <2>5, RowAndColumn
    <3>. QED BY <2>5, <3>1 DEF u, v, w
  <2>. HIDE DEF k, total
  <2>7. m[k] = a[i] \cup b[j]
    BY <2>3, <2>4, <2>6
  <2>8. Len(m) = total
    BY <2>3, <2>4
  <2>. QED BY <2>1, <2>2, <2>3, <2>7, <2>8 DEF Selects
<1>. QED BY <1>1, <1>2

\* The quotient of what is below a product.
LEMMA QuotientBelow ==
  ASSUME NEW m \in Nat, NEW n \in Nat, n > 0, NEW k \in Nat, k < m * n
  PROVE  k \div n \in Nat /\ k \div n < m /\ k % n \in 0 .. n - 1
<1>. DEFINE q == k \div n
            r == k % n
<1>1. q \in Nat /\ r \in Nat /\ r < n /\ k = n * q + r
  OBVIOUS
<1>2. ASSUME q >= m PROVE FALSE
  <2>1. n * m <= n * q
    BY <1>1, <1>2
  <2>2. n * m = m * n /\ n * m \in Nat /\ n * q \in Nat
    BY <1>1
  <2>. HIDE DEF q, r
  <2>. QED BY <1>1, <2>1, <2>2
<1>. QED BY <1>1, <1>2

\* merge_and makes a sequence of sets of trigrams.
LEMMA MergeType ==
  ASSUME NEW a \in Seq(SUBSET Trigram), NEW b \in Seq(SUBSET Trigram)
  PROVE  MergeAnd(a, b) \in Seq(SUBSET Trigram)
<1>1. CASE a = <<>> \/ b = <<>>
  BY <1>1 DEF MergeAnd
<1>2. CASE a # <<>> /\ b # <<>>
  <2>. DEFINE total == IF Overflows(a, b) THEN MaxBranches ELSE Len(a) * Len(b)
  <2>0. Len(a) \in Nat /\ Len(b) \in Nat /\ Len(b) > 0 /\ Len(a) * Len(b) \in Nat
    BY <1>2
  <2>1. total \in Nat /\ total <= Len(a) * Len(b)
    BY <2>0, QueryAssumption DEF Overflows
  <2>2. ASSUME NEW k \in 1 .. total
        PROVE  a[((k - 1) \div Len(b)) + 1] \cup b[((k - 1) % Len(b)) + 1] \in SUBSET Trigram
    <3>. HIDE DEF total
    <3>1. k - 1 \in Nat /\ k - 1 < Len(a) * Len(b)
      BY <2>0, <2>1
    <3>2. /\ (k - 1) \div Len(b) \in Nat /\ (k - 1) \div Len(b) < Len(a)
          /\ (k - 1) % Len(b) \in 0 .. Len(b) - 1
      BY <2>0, <3>1, QuotientBelow
    <3>3. ((k - 1) \div Len(b)) + 1 \in 1 .. Len(a) /\ ((k - 1) % Len(b)) + 1 \in 1 .. Len(b)
      BY <2>0, <3>2
    <3>4. a[((k - 1) \div Len(b)) + 1] \in SUBSET Trigram /\ b[((k - 1) % Len(b)) + 1] \in SUBSET Trigram
      BY <3>3, ElementOfSeq
    <3>. QED BY <3>4
  <2>3. MergeAnd(a, b) = [k \in 1 .. total |-> a[((k - 1) \div Len(b)) + 1] \cup b[((k - 1) % Len(b)) + 1]]
    BY <1>2 DEF MergeAnd
  <2>. HIDE DEF total
  <2>. QED BY <2>1, <2>2, <2>3
<1>. QED BY <1>1, <1>2

-----------------------------------------------------------------------------
(* The type invariant.                                                     *)

\* The variables are of their types at the start.
LEMMA TypeInit == ASSUME Init PROVE TypeInv
<1>1. corpus \in [FileId -> File] /\ input \in Seq(Token)
  BY QueryAssumption DEF Init
<1>2. conj \in Seq(Term) /\ query \in Seq(Seq(Term)) /\ Len(query) = 0
  BY DEF Init
<1>3. merged \in Seq(SUBSET Trigram) /\ branches \in Seq(SUBSET Trigram)
  BY DEF Init
<1>4. pos \in Nat \ {0} /\ nots \in Nat /\ nest \in Nat
  BY DEF Init
<1>8. cs \in BOOLEAN
  BY DEF Init
<1>5. di \in 1 .. Len(query) + 1 /\ ti \in Nat \ {0} /\ (phase = "parse" => di = 1 /\ ti = 1)
  BY <1>2 DEF Init
<1>6. unprunable \in BOOLEAN /\ capped \in BOOLEAN /\ todo \in SUBSET FileId /\ results \in SUBSET FileId
  BY DEF Init
<1>7. phase \in {"parse", "error", "extract", "verify", "done"}
  BY DEF Init
<1>. QED BY <1>1, <1>2, <1>3, <1>4, <1>5, <1>6, <1>7, <1>8 DEF TypeInv

\* Each step keeps the variables in their types.
LEMMA TypeNext == ASSUME TypeInv, [Next]_vars PROVE TypeInv'
<1>. USE DEF parseVars, extractVars, verifyVars
<1>1. CASE ParseNot
  BY <1>1 DEF ParseNot, Parsing, Deeper, TypeInv
<1>2. CASE ParseCase
  BY <1>2 DEF ParseCase, Parsing, Deeper, TypeInv
<1>3. CASE ParseTerm
  <2>1. input[pos] \in Token /\ input[pos].kind \in Primary \cup {"or"}
    BY <1>3 DEF ParseTerm, Parsing, TypeInv
  <2>2. ParsePrimary(input[pos]) \in Term
    BY <2>1, PrimaryIsTerm DEF TypeInv
  <2>3. conj' \in Seq(Term)
    BY <1>3, <2>2 DEF ParseTerm, TypeInv
  <2>4. cs' \in BOOLEAN
    BY <1>3 DEF ParseTerm, CaseFlagAfter
  <2>. QED BY <1>3, <2>3, <2>4 DEF ParseTerm, TypeInv
<1>4. CASE ParseBad
  BY <1>4 DEF ParseBad, TypeInv
<1>5. CASE ParseOr
  <2>1. query' \in Seq(Seq(Term)) /\ Len(query') = Len(query) + 1
    BY <1>5 DEF ParseOr, TypeInv
  <2>. QED BY <1>5, <2>1 DEF ParseOr, TypeInv
<1>6. CASE ParseEnd
  <2>1. query' \in Seq(Seq(Term)) /\ Len(query') >= Len(query) /\ conj' \in Seq(Term)
    <3>1. CASE AtKeyword
      <4>1. query' = Append(query, conj) /\ conj' = <<>>
        BY <1>6, <3>1 DEF ParseEnd
      <4>2. query \in Seq(Seq(Term)) /\ conj \in Seq(Term)
        BY DEF TypeInv
      <4>3. Append(query, conj) \in Seq(Seq(Term)) /\ Len(Append(query, conj)) = Len(query) + 1
        BY <4>2
      <4>. QED BY <4>1, <4>2, <4>3
    <3>2. CASE ~AtKeyword
      BY <1>6, <3>2 DEF ParseEnd, TypeInv
    <3>. QED BY <3>1, <3>2
  <2>2. phase' \in {"error", "extract"}
    <3>1. CASE AtKeyword
      BY <1>6, <3>1 DEF ParseEnd
    <3>2. CASE ~AtKeyword
      BY <1>6, <3>2 DEF ParseEnd
    <3>. QED BY <3>1, <3>2
  <2>3. Len(query) \in Nat /\ Len(query') \in Nat
    BY <2>1 DEF TypeInv
  <2>4. di \in 1 .. Len(query') + 1
    BY <2>1, <2>3 DEF TypeInv
  <2>. QED BY <1>6, <2>1, <2>2, <2>4 DEF ParseEnd, TypeInv
<1>7. CASE ParseFlags
  <2>1. input[pos] \in Token /\ input[pos].kind = "flags"
    BY <1>7 DEF ParseFlags, Parsing, TypeInv
  <2>2. <<FlagsToQuery(input[pos])>> \in Seq(Seq(Term))
    BY <2>1, FlagsAreTerms
  <2>4. \/ phase' = "error" /\ query' = query
        \/ phase' = "extract" /\ query' = <<FlagsToQuery(input[pos])>>
    BY <1>7 DEF ParseFlags
  <2>3. query' \in Seq(Seq(Term)) /\ (phase' = "extract" => Len(query') = 1)
    BY <2>2, <2>4 DEF TypeInv
  <2>5. di = 1 /\ ti = 1 /\ phase' # "parse"
    BY <1>7, <2>4 DEF ParseFlags, Parsing, TypeInv
  <2>6. di \in 1 .. Len(query') + 1
    BY <2>3, <2>4, <2>5 DEF TypeInv
  <2>. QED BY <1>7, <2>3, <2>4, <2>5, <2>6 DEF ParseFlags, TypeInv
<1>8. CASE ExtractTerm
  <2>1. query[di][ti] \in Term
    BY <1>8 DEF ExtractTerm, TypeInv
  <2>2. TermBranches(query[di][ti]) \in Seq(SUBSET Trigram)
    BY <2>1, TermBranchesType
  <2>3. merged' \in Seq(SUBSET Trigram)
    BY <1>8, <2>2, MergeType DEF ExtractTerm, TypeInv
  <2>4. capped' \in BOOLEAN
    BY <1>8 DEF ExtractTerm, Overflows, TypeInv
  <2>. QED BY <1>8, <2>3, <2>4 DEF ExtractTerm, TypeInv
<1>9. CASE ExtractBranch
  <2>1. branches' \in Seq(SUBSET Trigram)
    BY <1>9, ConcatProperties DEF ExtractBranch, TypeInv
  <2>. QED BY <1>9, <2>1 DEF ExtractBranch, TypeInv
<1>10. CASE Lookup
  BY <1>10 DEF Lookup, Candidates, TypeInv
<1>11. ASSUME NEW f \in FileId, VerifyCandidate(f) PROVE TypeInv'
  BY <1>11 DEF VerifyCandidate, TypeInv
<1>12. CASE Answer
  BY <1>12 DEF Answer, TypeInv
<1>13. CASE UNCHANGED vars
  BY <1>13 DEF vars, TypeInv
<1>. QED
  BY <1>1, <1>2, <1>3, <1>4, <1>5, <1>6, <1>7, <1>8, <1>9, <1>10, <1>11, <1>12, <1>13 DEF Next

-----------------------------------------------------------------------------
(* What the verifier accepts is what a plain query means.                  *)

\* A member of the terms of a query is one of its terms.
LEMMA TermsFacts ==
  ASSUME NEW q \in Seq(Seq(Term))
  PROVE  /\ \A d \in 1 .. Len(q) : \A i \in 1 .. Len(q[d]) : q[d][i] \in Terms(q) /\ q[d][i] \in Term
         /\ Terms(q) \subseteq Term
<1>1. ASSUME NEW d \in 1 .. Len(q), NEW i \in 1 .. Len(q[d]) PROVE q[d][i] \in Term
  OBVIOUS
<1>2. ASSUME NEW d \in 1 .. Len(q), NEW i \in 1 .. Len(q[d]) PROVE q[d][i] \in Terms(q)
  <2>1. q[d][i] \in {q[d][t] : t \in 1 .. Len(q[d])}
    OBVIOUS
  <2>. QED BY <2>1 DEF Terms
<1>3. ASSUME NEW t \in Terms(q) PROVE t \in Term
  <2>1. PICK d \in 1 .. Len(q) : t \in {q[d][i] : i \in 1 .. Len(q[d])}
    BY Zenon DEF Terms
  <2>2. PICK i \in 1 .. Len(q[d]) : t = q[d][i]
    BY <2>1, Zenon
  <2>. QED BY <2>2, <1>1
<1>. QED BY <1>1, <1>2, <1>3

\* A term of a plain query that is not a filter holds of a file exactly where the verifier finds it.
LEMMA HoldsStarts ==
  ASSUME NEW t \in Term, PlainTerm(t), t.kind \notin Filters, NEW file \in File, Valid(file.content)
  PROVE  Holds(t, file) <=> Starts(t, file.content) # {}
<1>. DEFINE x == file.content
<1>0. x \in Contents /\ Valid(x) /\ Lossy(x) = x /\ x \in Text /\ Len(x) \in Nat
  <2>1. x \in Contents
    BY DEF File
  <2>2. Lossy(x) = x /\ x \in Text
    BY <2>1, LossyValid
  <2>. QED BY <2>1, <2>2 DEF Text
<1>. HIDE DEF x
<1>1. CASE t.kind = "regex"
  <2>0. t.v \in Seq(Branch)
    BY <1>1, TermFacts
  <2>1. Holds(t, file) <=> \E i \in 1 .. Len(t.v) : BranchStarts(x, t.v[i]) # {}
    BY <1>1 DEF Holds, x
  <2>2. CASE Len(x) # 0
    <3>1. Starts(t, x) = UNION {BranchStarts(x, t.v[i]) : i \in 1 .. Len(t.v)}
      BY <1>1, <2>2 DEF Starts, RegexStarts
    <3>2. Starts(t, x) # {} <=> \E i \in 1 .. Len(t.v) : BranchStarts(x, t.v[i]) # {}
      <4>1. ASSUME NEW i \in 1 .. Len(t.v), BranchStarts(x, t.v[i]) # {} PROVE Starts(t, x) # {}
        BY <3>1, <4>1
      <4>2. ASSUME Starts(t, x) # {} PROVE \E i \in 1 .. Len(t.v) : BranchStarts(x, t.v[i]) # {}
        <5>1. PICK k : k \in UNION {BranchStarts(x, t.v[i]) : i \in 1 .. Len(t.v)}
          BY <3>1, <4>2
        <5>. QED BY <5>1, Zenon
      <4>. QED BY <4>1, <4>2
    <3>. QED BY <2>1, <3>2 DEF x
  <2>3. CASE Len(x) = 0
    <3>1. Starts(t, x) = {}
      BY <1>1, <2>3 DEF Starts, RegexStarts
    <3>2. ASSUME NEW i \in 1 .. Len(t.v), BranchStarts(x, t.v[i]) # {} PROVE FALSE
      <4>0. t.v[i] \in Branch
        BY <2>0
      <4>1. t.v[i] \in Branch /\ t.v[i].pre \subseteq Text
        BY <4>0 DEF Branch
      <4>2. PICK p \in t.v[i].pre : Occurrences(p, x) # {}
        BY <1>0, <3>2, <4>1, BranchFound
      <4>3. Len(p) \in Nat /\ Len(p) > 0
        BY <1>1, <4>1, <4>2 DEF PlainTerm, Text
      <4>. QED BY <2>3, <4>2, <4>3 DEF Occurrences
    <3>. QED BY <2>1, <3>1, <3>2 DEF x
  <2>. QED BY <2>2, <2>3
<1>2. CASE t.kind # "regex"
  <2>0. t.v \in Text /\ t.kind \in Literals /\ t.kind \notin {"lang", "path"}
    BY <1>2, TermFacts DEF Primary, Filters
  <2>1. Len(t.v) \in Nat /\ Len(t.v) > 0
    BY <2>0 DEF PlainTerm, Text
  <2>2. Starts(t, x) = LiteralStarts(x, t.v, t.cs)
    BY <1>2 DEF Starts
  <2>3. Holds(t, file) <=> IF t.cs THEN Occurrences(t.v, x) # {} ELSE FoldedOccurrences(t.v, x) # {}
    BY <1>2, <2>0 DEF Holds, x
  <2>4. CASE Len(x) = 0
    <3>1. Occurrences(t.v, x) = {} /\ FoldedOccurrences(t.v, x) = {}
      BY <2>1, <2>4 DEF Occurrences, FoldedOccurrences
    <3>. QED BY <2>2, <2>3, <2>4, <3>1 DEF LiteralStarts, x
  <2>5. CASE Len(x) # 0
    <3>1. LiteralStarts(x, t.v, t.cs) = IF t.cs THEN Occurrences(t.v, x) ELSE FoldedOccurrences(t.v, x)
      BY <1>0, <2>1, <2>5 DEF LiteralStarts
    <3>. QED BY <2>2, <2>3, <3>1 DEF x
  <2>. QED BY <2>4, <2>5
<1>. QED BY <1>1, <1>2

\* A term holds or does not.
LEMMA HoldsIsBoolean ==
  ASSUME NEW t, NEW file PROVE Holds(t, file) \in BOOLEAN
<1>1. CASE t.kind = "lang"
  <2>1. Holds(t, file) = (file.lang = t.v)
    BY <1>1 DEF Holds
  <2>. QED BY <2>1
<1>2. CASE t.kind = "path"
  <2>1. Holds(t, file) = (t.v \in file.under)
    BY <1>2 DEF Holds
  <2>. QED BY <2>1
<1>3. CASE t.kind = "regex"
  <2>1. Holds(t, file) = \E i \in 1 .. Len(t.v) : BranchStarts(file.content, t.v[i]) # {}
    BY <1>3 DEF Holds
  <2>. QED BY <2>1
<1>4. CASE t.kind \notin {"lang", "path", "regex"} /\ t.cs
  <2>1. Holds(t, file) = (Occurrences(t.v, file.content) # {})
    BY <1>4 DEF Holds
  <2>. QED BY <2>1
<1>5. CASE t.kind \notin {"lang", "path", "regex"} /\ ~t.cs
  <2>1. Holds(t, file) = (FoldedOccurrences(t.v, file.content) # {})
    BY <1>5 DEF Holds
  <2>. QED BY <2>1
<1>. QED BY <1>1, <1>2, <1>3, <1>4, <1>5

\* eval agrees with the meaning of a term that is not a filter, and takes a filter for true.
LEMMA TermMeans ==
  ASSUME NEW t \in Term, PlainTerm(t), NEW file \in File, Valid(file.content)
  PROVE  /\ t.kind \notin Filters => (Satisfies(t, file) <=> EvalTerm(t, file.content))
         /\ t.kind \in Filters => EvalTerm(t, file.content) /\ (Satisfies(t, file) <=> Holds(t, file))
<1>1. ASSUME t.kind \notin Filters PROVE Satisfies(t, file) <=> EvalTerm(t, file.content)
  <2>1. Holds(t, file) <=> Starts(t, file.content) # {}
    BY <1>1, HoldsStarts
  <2>2. Holds(t, file) \in BOOLEAN /\ Odd(t.nots) \in BOOLEAN
    BY HoldsIsBoolean DEF Odd
  <2>. QED BY <1>1, <2>1, <2>2 DEF Satisfies, EvalTerm
<1>2. ASSUME t.kind \in Filters
      PROVE  EvalTerm(t, file.content) /\ (Satisfies(t, file) <=> Holds(t, file))
  <2>1. t.nots = 0
    BY <1>2 DEF PlainTerm
  <2>2. Odd(t.nots) = FALSE
    BY <2>1 DEF Odd
  <2>3. Holds(t, file) \in BOOLEAN
    BY HoldsIsBoolean
  <2>. QED BY <1>2, <2>2, <2>3 DEF Satisfies, EvalTerm
<1>. QED BY <1>1, <1>2

\* A file a plain query means passes its pre-filters and is accepted by eval.
LEMMA MeantIsAccepted ==
  ASSUME NEW q \in Seq(Seq(Term)), Plain(q), NEW file \in File, Valid(file.content), Means(q, file)
  PROVE  PassesPreFilters(q, file) /\ Eval(q, file.content)
<1>1. ASSUME NEW t \in Terms(q), t.kind \in Filters PROVE Holds(t, file)
  <2>1. t \in Term /\ PlainTerm(t)
    BY TermsFacts DEF Plain
  <2>2. Satisfies(t, file)
    BY <1>1 DEF Means, FiltersHold
  <2>. QED BY <1>1, <2>1, <2>2, TermMeans
<1>2. Values(q, "lang") # {} => file.lang \in Values(q, "lang")
  <2>. SUFFICES ASSUME NEW t \in Terms(q), t.kind = "lang" PROVE file.lang \in Values(q, "lang")
    BY Zenon DEF Values
  <2>1. file.lang = t.v
    BY <1>1 DEF Holds, Filters
  <2>. QED BY <2>1 DEF Values
<1>3. Values(q, "path") # {} => \E p \in Values(q, "path") : p \in file.under
  <2>. SUFFICES ASSUME NEW t \in Terms(q), t.kind = "path" PROVE \E p \in Values(q, "path") : p \in file.under
    BY Zenon DEF Values
  <2>1. t.v \in file.under
    BY <1>1 DEF Holds, Filters
  <2>2. t.v \in Values(q, "path")
    BY DEF Values
  <2>. QED BY <2>1, <2>2
<1>4. PICK d \in 1 .. Len(q) : ConjMeans(q[d], file)
  BY DEF Means
<1>5. ASSUME NEW i \in 1 .. Len(q[d]) PROVE EvalTerm(q[d][i], file.content)
  <2>1. q[d][i] \in Term /\ PlainTerm(q[d][i])
    BY TermsFacts DEF Plain
  <2>2. q[d][i].kind \notin Filters => Satisfies(q[d][i], file)
    BY <1>4 DEF ConjMeans
  <2>. QED BY <2>1, <2>2, TermMeans
<1>6. Eval(q, file.content)
  BY <1>5 DEF Eval, EvalConj
<1>. QED BY <1>2, <1>3, <1>6 DEF PassesPreFilters

\* An alternative list of fewer than two values names one value at most.
LEMMA OneValue ==
  ASSUME NEW S, IsFiniteSet(S), Cardinality(S) <= 1, NEW v \in S, NEW w \in S
  PROVE  v = w
<1>1. Cardinality(S) \in Nat /\ Cardinality(S) # 0
  BY FS_CardinalityType, FS_EmptySet
<1>2. Cardinality(S) = 1
  BY <1>1
<1>3. \E u : S = {u}
  BY <1>2, FS_Singleton
<1>. QED BY <1>3

\* The image of a finite set under a function is finite.
LEMMA ImageFinite ==
  ASSUME NEW S, IsFiniteSet(S), NEW f PROVE IsFiniteSet({f[s] : s \in S})
<1>. DEFINE T == {f[s] : s \in S}
            g == [s \in S |-> f[s]]
<1>1. g \in Surjection(S, T)
  BY DEF Surjection
<1>. HIDE DEF g, T
<1>2. IsFiniteSet(T)
  BY <1>1, FS_Surjection
<1>. QED BY <1>2 DEF T

\* A query has finitely many filters of a kind.
LEMMA ValuesFinite ==
  ASSUME NEW q \in Seq(Seq(Term)), NEW k PROVE IsFiniteSet(Values(q, k))
<1>1. ASSUME NEW d \in 1 .. Len(q) PROVE IsFiniteSet({q[d][t] : t \in 1 .. Len(q[d])})
  <2>1. Len(q[d]) \in Nat
    OBVIOUS
  <2>2. IsFiniteSet(1 .. Len(q[d]))
    BY <2>1, FS_Interval
  <2>. QED BY <2>2, ImageFinite
<1>2. IsFiniteSet({{q[d][t] : t \in 1 .. Len(q[d])} : d \in 1 .. Len(q)})
  <2>1. IsFiniteSet(1 .. Len(q))
    BY FS_Interval
  <2>. DEFINE f == [d \in 1 .. Len(q) |-> {q[d][t] : t \in 1 .. Len(q[d])}]
  <2>2. IsFiniteSet({f[d] : d \in 1 .. Len(q)})
    <3>. HIDE DEF f
    <3>. QED BY <2>1, ImageFinite
  <2>3. {f[d] : d \in 1 .. Len(q)} = {{q[d][t] : t \in 1 .. Len(q[d])} : d \in 1 .. Len(q)}
    OBVIOUS
  <2>. QED BY <2>2, <2>3
<1>3. IsFiniteSet(Terms(q))
  <2>1. \A T \in {{q[d][t] : t \in 1 .. Len(q[d])} : d \in 1 .. Len(q)} : IsFiniteSet(T)
    BY <1>1
  <2>. QED BY <1>2, <2>1, FS_UNION DEF Terms
<1>4. IsFiniteSet({u \in Terms(q) : u.kind = k})
  BY <1>3, FS_Subset
<1>5. IsFiniteSet({t.v : t \in {u \in Terms(q) : u.kind = k}})
  <2>. DEFINE S == {u \in Terms(q) : u.kind = k}
              f == [t \in S |-> t.v]
  <2>. HIDE DEF S
  <2>1. IsFiniteSet({f[t] : t \in S})
    <3>. HIDE DEF f
    <3>. QED BY <1>4, ImageFinite DEF S
  <2>2. {f[t] : t \in S} = {t.v : t \in S}
    OBVIOUS
  <2>. QED BY <2>1, <2>2 DEF S
<1>. QED BY <1>5 DEF Values

\* A file that passes the pre-filters and is accepted by eval is one a plain query means, if no
\* two of its filters of one kind differ.
LEMMA AcceptedIsMeant ==
  ASSUME NEW q \in Seq(Seq(Term)), Plain(q), NEW file \in File, Valid(file.content),
         \A k \in Filters : Cardinality(Values(q, k)) <= 1,
         PassesPreFilters(q, file), Eval(q, file.content)
  PROVE  Means(q, file)
<1>1. ASSUME NEW t \in Terms(q), t.kind \in Filters PROVE Satisfies(t, file)
  <2>1. t \in Term /\ PlainTerm(t)
    BY TermsFacts DEF Plain
  <2>2. t.v \in Values(q, t.kind)
    BY DEF Values
  <2>3. \A w \in Values(q, t.kind) : w = t.v
    BY <1>1, <2>2, ValuesFinite, OneValue
  <2>4. CASE t.kind = "lang"
    <3>1. file.lang \in Values(q, "lang")
      BY <2>2, <2>4 DEF PassesPreFilters
    <3>2. file.lang = t.v
      BY <2>3, <2>4, <3>1
    <3>3. Holds(t, file)
      BY <2>4, <3>2 DEF Holds
    <3>. QED BY <1>1, <2>1, <3>3, TermMeans
  <2>5. CASE t.kind = "path"
    <3>1. PICK p \in Values(q, "path") : p \in file.under
      BY <2>2, <2>5 DEF PassesPreFilters
    <3>2. t.v \in file.under
      BY <2>3, <2>5, <3>1
    <3>3. Holds(t, file)
      BY <2>5, <3>2 DEF Holds
    <3>. QED BY <1>1, <2>1, <3>3, TermMeans
  <2>. QED BY <1>1, <2>4, <2>5 DEF Filters
<1>2. PICK d \in 1 .. Len(q) : EvalConj(q[d], file.content)
  BY DEF Eval
<1>3. ASSUME NEW i \in 1 .. Len(q[d]), q[d][i].kind \notin Filters PROVE Satisfies(q[d][i], file)
  <2>1. q[d][i] \in Term /\ PlainTerm(q[d][i])
    BY TermsFacts DEF Plain
  <2>2. EvalTerm(q[d][i], file.content)
    BY <1>2 DEF EvalConj
  <2>. QED BY <1>3, <2>1, <2>2, TermMeans
<1>. QED BY <1>1, <1>2, <1>3 DEF Means, FiltersHold, ConjMeans

-----------------------------------------------------------------------------
(* The inductive invariant of the pipeline.                                *)

\* The terms of conjunction c taken so far, those before the n-th, hold in x.
TakenHold(c, n, x) == \A i \in 1 .. Len(c) : i < n => EvalTerm(c[i], x)

\* The branches collected for the terms taken so far do not exclude x: neither those of the
\* conjunction being taken nor those of the disjuncts behind it.
NotExcluded(x) ==
  /\ di <= Len(query) /\ TakenHold(query[di], ti, x) => merged = <<>> \/ Selects(merged, x)
  /\ \A d \in 1 .. Len(query) : d < di /\ EvalConj(query[d], x) => unprunable \/ Selects(branches, x)

Accepted(f) == PassesPreFilters(query, corpus[f]) /\ Eval(query, corpus[f].content)

\* What the extraction keeps true, up to the lookup.
ExtractInv ==
  /\ phase = "parse" => merged = <<>> /\ results = {}
  /\ phase = "extract" /\ Plain(query) /\ ~capped /\ Ascii =>
       \A x \in Contents : Valid(x) => NotExcluded(x)

\* What the verification keeps true.
VerifyInv ==
  /\ phase \in {"verify", "done"} /\ Plain(query) /\ ~capped /\ Ascii =>
       \A f \in FileId : Valid(corpus[f].content) /\ Accepted(f) => f \in todo \cup results
  /\ phase = "done" => todo = {}
  /\ phase \in {"parse", "error", "extract"} => results = {}
  /\ \A f \in results : Accepted(f)

IInv == TypeInv /\ ExtractInv /\ VerifyInv

\* A file's content is one of the contents.
LEMMA ContentType ==
  ASSUME TypeInv, NEW f \in FileId PROVE corpus[f] \in File /\ corpus[f].content \in Contents
<1>1. corpus[f] \in File
  BY DEF TypeInv
<1>. QED BY <1>1 DEF File

\* What holds before the first term: nothing is excluded yet.
LEMMA NothingExcludedFirst ==
  ASSUME TypeInv, di = 1, merged = <<>>, NEW x PROVE NotExcluded(x)
<1>1. \A d \in 1 .. Len(query) : ~(d < di)
  BY DEF TypeInv
<1>. QED BY <1>1 DEF NotExcluded

\* Taking the trigrams of one more term excludes no content in which it holds.
LEMMA ExtractTermStep ==
  ASSUME TypeInv, ExtractTerm, Plain(query), ~capped', Ascii,
         NEW x \in Contents, Valid(x), NotExcluded(x)
  PROVE  NotExcluded(x)'
<1>. DEFINE t == query[di][ti]
            tq == TermBranches(t)
<1>1. /\ di <= Len(query) /\ ti <= Len(query[di]) /\ ti' = ti + 1 /\ merged' = MergeAnd(merged, tq)
      /\ capped' = (capped \/ Overflows(merged, tq))
      /\ query' = query /\ di' = di /\ branches' = branches /\ unprunable' = unprunable
  BY DEF ExtractTerm, parseVars
<1>2. di \in 1 .. Len(query) /\ ti \in 1 .. Len(query[di]) /\ query \in Seq(Seq(Term))
  BY <1>1 DEF TypeInv
<1>3. t \in Term /\ PlainTerm(t)
  BY <1>2, TermsFacts DEF Plain
<1>4. tq \in Seq(SUBSET Trigram) /\ merged \in Seq(SUBSET Trigram)
  BY <1>3, TermBranchesType DEF TypeInv
<1>5. ~Overflows(merged, tq)
  BY <1>1
<1>6. ASSUME TakenHold(query[di], ti + 1, x) PROVE MergeAnd(merged, tq) = <<>> \/ Selects(MergeAnd(merged, tq), x)
  <2>1. EvalTerm(t, x)
    BY <1>2, <1>6 DEF TakenHold
  <2>2. TakenHold(query[di], ti, x)
    <3>1. \A i \in 1 .. Len(query[di]) : i < ti => i < ti + 1
      BY <1>2
    <3>. QED BY <1>6, <3>1 DEF TakenHold
  <2>3. merged = <<>> \/ Selects(merged, x)
    BY <1>1, <2>2 DEF NotExcluded
  <2>4. tq = <<>> \/ Selects(tq, x)
    BY <1>3, <2>1, TermSelects
  <2>. HIDE DEF tq
  <2>. QED BY <1>4, <1>5, <2>3, <2>4, MergeSelects
<1>. QED
  <2>. HIDE DEF t, tq
  <2>2. \A d \in 1 .. Len(query') : d < di' /\ EvalConj(query'[d], x) => unprunable' \/ Selects(branches', x)
    BY <1>1 DEF NotExcluded
  <2>3. TakenHold(query'[di'], ti', x) => merged' = <<>> \/ Selects(merged', x)
    BY <1>1, <1>6
  <2>. QED BY <2>2, <2>3 DEF NotExcluded

\* A disjunct that is complete adds branches that select it, or makes every file a candidate.
LEMMA ExtractBranchStep ==
  ASSUME TypeInv, ExtractBranch, NEW x, NotExcluded(x)
  PROVE  NotExcluded(x)'
<1>1. /\ di <= Len(query) /\ ti > Len(query[di]) /\ branches' = branches \o merged
      /\ unprunable' = (unprunable \/ merged = <<>>)
      /\ di' = di + 1 /\ ti' = 1 /\ merged' = <<>> /\ query' = query
  BY DEF ExtractBranch, parseVars
<1>2. branches \in Seq(SUBSET Trigram) /\ merged \in Seq(SUBSET Trigram) /\ di \in Nat /\ Len(query) \in Nat
  BY DEF TypeInv
<1>3. /\ Len(branches \o merged) = Len(branches) + Len(merged)
      /\ \A i \in 1 .. Len(branches) : (branches \o merged)[i] = branches[i]
      /\ \A i \in 1 .. Len(merged) : (branches \o merged)[Len(branches) + i] = merged[i]
  BY <1>2
<1>4. Selects(branches, x) => Selects(branches', x)
  <2>. SUFFICES ASSUME NEW i \in 1 .. Len(branches), branches[i] \subseteq Trigrams(x) PROVE Selects(branches', x)
    BY DEF Selects
  <2>1. i \in 1 .. Len(branches') /\ branches'[i] = branches[i]
    BY <1>1, <1>2, <1>3
  <2>. QED BY <2>1 DEF Selects
<1>5. Selects(merged, x) => Selects(branches', x)
  <2>. SUFFICES ASSUME NEW i \in 1 .. Len(merged), merged[i] \subseteq Trigrams(x) PROVE Selects(branches', x)
    BY DEF Selects
  <2>1. Len(branches) + i \in 1 .. Len(branches') /\ branches'[Len(branches) + i] = merged[i]
    BY <1>1, <1>2, <1>3
  <2>. QED BY <2>1 DEF Selects
<1>6. ASSUME NEW d \in 1 .. Len(query), d < di + 1, EvalConj(query[d], x)
      PROVE  unprunable' \/ Selects(branches', x)
  <2>1. CASE d < di
    BY <1>1, <1>4, <1>6, <2>1 DEF NotExcluded
  <2>2. CASE d = di
    <3>1. TakenHold(query[di], ti, x)
      BY <1>6, <2>2 DEF TakenHold, EvalConj
    <3>. QED BY <1>1, <1>5, <3>1 DEF NotExcluded
  <2>. QED BY <1>2, <1>6, <2>1, <2>2
<1>. QED BY <1>1, <1>6 DEF NotExcluded

\* Once every disjunct is taken, no content that is accepted has been excluded.
LEMMA LookupStep ==
  ASSUME TypeInv, ExtractInv, Lookup, Plain(query), ~capped, Ascii,
         NEW f \in FileId, Valid(corpus[f].content), Eval(query, corpus[f].content)
  PROVE  f \in Candidates
<1>. DEFINE x == corpus[f].content
<1>1. x \in Contents /\ di > Len(query) /\ phase = "extract"
  BY ContentType DEF Lookup
<1>2. NotExcluded(x)
  BY <1>1 DEF ExtractInv
<1>3. PICK d \in 1 .. Len(query) : EvalConj(query[d], x)
  BY DEF Eval
<1>4. d < di
  BY <1>1, <1>3 DEF TypeInv
<1>5. unprunable \/ Selects(branches, x)
  BY <1>2, <1>3, <1>4 DEF NotExcluded
<1>. QED BY <1>5 DEF Candidates, Selects

\* The extraction keeps its invariant.
LEMMA ExtractNext == ASSUME IInv, [Next]_vars PROVE ExtractInv'
<1>. USE DEF IInv, parseVars, extractVars, verifyVars
<1>0. TypeInv'
  BY TypeNext
<1>1. CASE phase' = "parse"
  <2>1. phase = "parse" /\ merged' = merged /\ results' = results
    BY <1>1 DEF Next, vars, ParseNot, ParseCase, ParseTerm, ParseBad, ParseOr, ParseEnd, ParseFlags,
                Deeper, Parsing, ExtractTerm, ExtractBranch, Lookup, VerifyCandidate, Answer, TypeInv
  <2>. QED BY <1>1, <2>1 DEF ExtractInv
<1>2. CASE phase' = "extract" /\ phase = "parse"
  <2>1. merged' = merged /\ di' = di
    BY <1>2 DEF Next, vars, ParseNot, ParseCase, ParseTerm, ParseBad, ParseOr, ParseEnd, ParseFlags,
                ExtractTerm, ExtractBranch, Lookup, VerifyCandidate, Answer
  <2>2. di' = 1 /\ merged' = <<>>
    BY <1>2, <2>1 DEF TypeInv, ExtractInv
  <2>3. ASSUME NEW x PROVE NotExcluded(x)'
    <3>1. \A d \in 1 .. Len(query') : ~(d < di')
      BY <1>0, <2>2 DEF TypeInv
    <3>. QED BY <2>2, <3>1 DEF NotExcluded
  <2>. QED BY <1>2, <2>3 DEF ExtractInv
<1>3. CASE phase' = "extract" /\ phase # "parse"
  <2>1. phase = "extract" /\ (ExtractTerm \/ ExtractBranch \/ UNCHANGED vars)
    BY <1>3 DEF Next, vars, ParseNot, ParseCase, ParseTerm, ParseBad, ParseOr, ParseEnd, ParseFlags,
                Deeper, Parsing, ExtractTerm, ExtractBranch, Lookup, VerifyCandidate, Answer
  <2>2. query' = query /\ (capped => capped')
    <3>1. CASE ExtractTerm
      <4>1. query' = query /\ capped' = (capped \/ Overflows(merged, TermBranches(query[di][ti])))
        BY <3>1 DEF ExtractTerm
      <4>. QED BY <4>1
    <3>2. CASE ExtractBranch
      BY <3>2 DEF ExtractBranch
    <3>3. CASE UNCHANGED vars
      BY <3>3 DEF vars
    <3>. QED BY <2>1, <3>1, <3>2, <3>3
  <2>3. ASSUME Plain(query), ~capped', Ascii, NEW x \in Contents, Valid(x) PROVE NotExcluded(x)'
    <3>1. NotExcluded(x)
      BY <2>1, <2>2, <2>3 DEF ExtractInv
    <3>2. CASE ExtractTerm
      BY <2>3, <3>1, <3>2, ExtractTermStep
    <3>3. CASE ExtractBranch
      BY <3>1, <3>3, ExtractBranchStep
    <3>4. CASE UNCHANGED vars
      BY <3>1, <3>4 DEF vars, NotExcluded
    <3>. QED BY <2>1, <3>2, <3>3, <3>4
  <2>4. Plain(query') = Plain(query)
    BY <2>2
  <2>. QED BY <1>3, <2>2, <2>3, <2>4 DEF ExtractInv
<1>. QED BY <1>1, <1>2, <1>3 DEF ExtractInv

\* The verification keeps its invariant: a candidate leaves todo only for the answer, or because
\* it is not accepted.
LEMMA VerifyNext == ASSUME IInv, [Next]_vars PROVE VerifyInv'
<1>. USE DEF IInv, parseVars, extractVars, verifyVars
<1>1. CASE phase \in {"parse", "error", "extract"} /\ phase' \in {"parse", "error", "extract"}
  <2>1. results' = results
    BY <1>1 DEF Next, vars, ParseNot, ParseCase, ParseTerm, ParseBad, ParseOr, ParseEnd, ParseFlags,
                ExtractTerm, ExtractBranch, Lookup, VerifyCandidate, Answer
  <2>. QED BY <1>1, <2>1 DEF VerifyInv
<1>2. CASE Lookup
  <2>1. /\ query' = query /\ corpus' = corpus /\ capped' = capped /\ todo' = Candidates
        /\ results' = results /\ phase' = "verify" /\ phase = "extract"
    BY <1>2 DEF Lookup
  <2>2. ASSUME Plain(query), ~capped, Ascii, NEW f \in FileId, Valid(corpus[f].content), Accepted(f)
        PROVE  f \in todo'
    BY <1>2, <2>1, <2>2, LookupStep DEF Accepted
  <2>3. results' = {}
    BY <2>1 DEF VerifyInv
  <2>. QED BY <2>1, <2>2, <2>3 DEF VerifyInv, Accepted
<1>3. ASSUME NEW f \in FileId, VerifyCandidate(f) PROVE VerifyInv'
  <2>1. /\ query' = query /\ corpus' = corpus /\ capped' = capped /\ todo' = todo \ {f}
        /\ phase' = "verify" /\ phase = "verify"
        /\ results' = IF Accepted(f) THEN results \cup {f} ELSE results
    BY <1>3 DEF VerifyCandidate, Accepted
  <2>2. \A g : Accepted(g)' <=> Accepted(g)
    BY <2>1 DEF Accepted
  <2>3. \A g \in results' : Accepted(g)
    BY <2>1 DEF VerifyInv
  <2>4. \A g \in FileId : g \in todo \cup results /\ Accepted(g) => g \in todo' \cup results'
    BY <2>1
  <2>. HIDE DEF Accepted
  <2>. QED BY <2>1, <2>2, <2>3, <2>4 DEF VerifyInv
<1>4. CASE Answer
  <2>1. /\ query' = query /\ corpus' = corpus /\ capped' = capped /\ todo' = todo /\ results' = results
        /\ phase = "verify" /\ phase' = "done" /\ todo = {}
    BY <1>4 DEF Answer
  <2>. QED BY <2>1 DEF VerifyInv, Accepted
<1>5. CASE UNCHANGED vars
  BY <1>5 DEF vars, VerifyInv, Accepted
<1>6. \/ phase \in {"parse", "error", "extract"} /\ phase' \in {"parse", "error", "extract"}
      \/ Lookup \/ (\E f \in FileId : VerifyCandidate(f)) \/ Answer \/ UNCHANGED vars
  BY DEF Next, ParseNot, ParseCase, ParseTerm, ParseBad, ParseOr, ParseEnd, ParseFlags, Parsing,
         Deeper, ExtractTerm, ExtractBranch
<1>. QED BY <1>1, <1>2, <1>3, <1>4, <1>5, <1>6

\* The invariant is inductive.
LEMMA Inductive == Spec => []IInv
<1>1. ASSUME Init PROVE IInv
  <2>1. TypeInv
    BY <1>1, TypeInit
  <2>. QED BY <1>1, <2>1 DEF Init, IInv, ExtractInv, VerifyInv
<1>2. ASSUME IInv, [Next]_vars PROVE IInv'
  BY <1>2, TypeNext, ExtractNext, VerifyNext DEF IInv
<1>. QED BY <1>1, <1>2, PTL DEF Spec

\* For every corpus, alphabet and query, and every cap: a file that satisfies a plain query is in
\* its answer, unless merge_and has dropped branches, the file is not UTF-8 or case folding is not
\* ASCII.  The trigrams taken from terms, negations and products exclude no file that would match.
THEOREM NothingMissedHolds == Spec => []NothingMissed
<1>1. ASSUME IInv PROVE NothingMissed
  <2>. USE <1>1 DEF IInv
  <2>. SUFFICES ASSUME phase = "done", Plain(query), ~capped, Ascii,
                       NEW f \in FileId, Valid(corpus[f].content), Means(query, corpus[f])
                PROVE  f \in results
    BY DEF NothingMissed
  <2>1. Accepted(f)
    BY ContentType, MeantIsAccepted DEF Accepted, TypeInv
  <2>2. f \in todo \cup results
    BY <2>1 DEF VerifyInv
  <2>. QED BY <2>2 DEF VerifyInv
<1>. QED BY <1>1, Inductive, PTL

\* For every corpus and query: every file a plain query returns satisfies it, if its filters name
\* at most one language and one path.
THEOREM OnlyMatchesHolds == Spec => []OnlyMatches
<1>1. ASSUME IInv PROVE OnlyMatches
  <2>. USE <1>1 DEF IInv
  <2>. SUFFICES ASSUME Plain(query), \A k \in Filters : Cardinality(Values(query, k)) <= 1,
                       NEW f \in results, Valid(corpus[f].content)
                PROVE  Means(query, corpus[f])
    BY DEF OnlyMatches
  <2>1. Accepted(f) /\ f \in FileId
    BY DEF VerifyInv, TypeInv
  <2>. QED BY <2>1, ContentType, AcceptedIsMeant DEF Accepted, TypeInv
<1>. QED BY <1>1, Inductive, PTL

-----------------------------------------------------------------------------
(* Lines.                                                                  *)

\* A non-empty set of numbers has a least element.
LEMMA LeastNumber ==
  ASSUME NEW S \in SUBSET Nat, S # {}
  PROVE  \E n \in S : \A k \in S : n <= k
<1>. DEFINE R == {ss \in Nat \X Nat : ss[1] < ss[2]}
<1>1. IsWellFoundedOn(R, Nat)
  BY NatLessThanWellFounded DEF OpToRel
<1>. HIDE DEF R
<1>2. PICK n \in S : \A k \in S : ~ (<<k, n>> \in R)
  BY <1>1, WFMin
<1>3. ASSUME NEW k \in S PROVE n <= k
  <2>1. <<k, n>> \in Nat \X Nat /\ ~ (<<k, n>> \in R)
    BY <1>2
  <2>2. ~ (k < n)
    BY <2>1 DEF R
  <2>. QED BY <2>2
<1>. QED BY <1>3

\* A non-empty bounded set of numbers has a greatest element.
LEMMA GreatestNumber ==
  ASSUME NEW N \in Nat, NEW S \in SUBSET (0 .. N), S # {}
  PROVE  \E n \in S : \A k \in S : k <= n
<1>. DEFINE T == {n \in 0 .. N : N - n \in S}
<1>0. PICK s \in S : TRUE
  OBVIOUS
<1>1. N - s \in T
  OBVIOUS
<1>2. T \in SUBSET Nat /\ T # {}
  BY <1>1
<1>3. \A k \in S : N - k \in T
  OBVIOUS
<1>. HIDE DEF T
<1>4. PICK m \in T : \A k \in T : m <= k
  BY <1>2, LeastNumber
<1>5. N - m \in S /\ m \in 0 .. N
  BY <1>4 DEF T
<1>. QED BY <1>4, <1>3, <1>5

\* The newlines before an offset.
NewlinesBefore(x, k) == {i \in Newlines(x) : i < k}

\* They are finitely many, and a newline is one more than those before it.
LEMMA CountNewlines ==
  ASSUME NEW x \in Text, NEW k \in Nat
  PROVE  /\ IsFiniteSet(Newlines(x)) /\ Newlines(x) \in SUBSET (0 .. Len(x) - 1)
         /\ Cardinality(Newlines(x)) \in Nat
         /\ Cardinality(NewlinesBefore(x, k)) \in Nat
         /\ Cardinality(NewlinesBefore(x, k)) <= Cardinality(Newlines(x))
         /\ LineAtByte(x, k) = Cardinality(NewlinesBefore(x, k)) + 1
<1>0. Len(x) \in Nat
  BY DEF Text
<1>1. Newlines(x) \in SUBSET (0 .. Len(x) - 1)
  BY DEF Newlines
<1>2. IsFiniteSet(0 .. Len(x) - 1)
  BY <1>0, FS_Interval
<1>3. IsFiniteSet(Newlines(x))
  BY <1>1, <1>2, FS_Subset
<1>4. NewlinesBefore(x, k) \in SUBSET Newlines(x)
  BY DEF NewlinesBefore
<1>5. /\ IsFiniteSet(NewlinesBefore(x, k))
      /\ Cardinality(NewlinesBefore(x, k)) <= Cardinality(Newlines(x))
  BY <1>3, <1>4, FS_Subset
<1>6. Cardinality(Newlines(x)) \in Nat /\ Cardinality(NewlinesBefore(x, k)) \in Nat
  BY <1>3, <1>5, FS_CardinalityType
<1>. QED BY <1>1, <1>3, <1>5, <1>6 DEF LineAtByte, NewlinesBefore

\* Behind a newline the line is a later one.
LEMMA LaterLine ==
  ASSUME NEW x \in Text, NEW k \in Nat, NEW m \in Newlines(x), m < k
  PROVE  LineAtByte(x, m) < LineAtByte(x, k)
<1>0. Newlines(x) \in SUBSET (0 .. Len(x) - 1) /\ m \in Nat /\ IsFiniteSet(Newlines(x))
  BY CountNewlines DEF Text
<1>1. NewlinesBefore(x, m) \in SUBSET NewlinesBefore(x, k)
  BY <1>0 DEF NewlinesBefore
<1>2. m \in NewlinesBefore(x, k) /\ m \notin NewlinesBefore(x, m)
  BY <1>0 DEF NewlinesBefore
<1>3. IsFiniteSet(NewlinesBefore(x, k))
  <2>1. NewlinesBefore(x, k) \in SUBSET Newlines(x)
    BY DEF NewlinesBefore
  <2>. QED BY <1>0, <2>1, FS_Subset
<1>4. /\ Cardinality(NewlinesBefore(x, m)) <= Cardinality(NewlinesBefore(x, k))
      /\ Cardinality(NewlinesBefore(x, m)) # Cardinality(NewlinesBefore(x, k))
  BY <1>1, <1>2, <1>3, FS_Subset
<1>5. /\ LineAtByte(x, m) = Cardinality(NewlinesBefore(x, m)) + 1
      /\ LineAtByte(x, k) = Cardinality(NewlinesBefore(x, k)) + 1
      /\ Cardinality(NewlinesBefore(x, m)) \in Nat /\ Cardinality(NewlinesBefore(x, k)) \in Nat
  BY <1>0, CountNewlines
<1>. QED BY <1>4, <1>5

\* A byte of the content is on one of its lines.
LEMMA LineInFile ==
  ASSUME NEW x \in Text, NEW k \in 0 .. Len(x) - 1
  PROVE  LineAtByte(x, k) \in 1 .. LineCount(x) /\ LineCount(x) \in Nat
<1>0. Len(x) \in Nat /\ Len(x) > 0 /\ k \in Nat
  BY DEF Text
<1>1. /\ IsFiniteSet(Newlines(x)) /\ Cardinality(Newlines(x)) \in Nat
      /\ Cardinality(NewlinesBefore(x, k)) \in Nat
      /\ Cardinality(NewlinesBefore(x, k)) <= Cardinality(Newlines(x))
      /\ LineAtByte(x, k) = Cardinality(NewlinesBefore(x, k)) + 1
  BY <1>0, CountNewlines
<1>2. CASE x[Len(x)] # Newline
  <2>1. LineCount(x) = Cardinality(Newlines(x)) + 1
    BY <1>0, <1>2 DEF LineCount
  <2>. QED BY <1>1, <2>1
<1>3. CASE x[Len(x)] = Newline
  <2>1. LineCount(x) = Cardinality(Newlines(x))
    BY <1>0, <1>1, <1>3 DEF LineCount
  <2>2. Len(x) - 1 \in Newlines(x)
    <3>1. Len(x) - 1 \in 0 .. Len(x) - 1 /\ (Len(x) - 1) + 1 = Len(x)
      BY <1>0
    <3>. QED BY <1>3, <3>1 DEF Newlines
  <2>3. Len(x) - 1 \notin NewlinesBefore(x, k) /\ NewlinesBefore(x, k) \in SUBSET Newlines(x)
    BY <1>0 DEF NewlinesBefore
  <2>4. Cardinality(NewlinesBefore(x, k)) # Cardinality(Newlines(x))
    BY <1>1, <2>2, <2>3, FS_Subset
  <2>. QED BY <1>1, <2>1, <2>4
<1>. QED BY <1>2, <1>3

\* The line of a byte starts behind the last newline before the byte.
LEMMA LineStartFound ==
  ASSUME NEW x \in Text, NEW k \in 0 .. Len(x) - 1
  PROVE  LET s == LineStart(x, LineAtByte(x, k))
         IN  s \in 0 .. k /\ \A j \in (s + 1) .. k : x[j] # Newline
<1>0. Len(x) \in Nat /\ k \in Nat
  BY DEF Text
<1>1. /\ Newlines(x) \in SUBSET (0 .. Len(x) - 1) /\ Newlines(x) \in SUBSET Nat
      /\ IsFiniteSet(Newlines(x))
      /\ LineAtByte(x, k) = Cardinality(NewlinesBefore(x, k)) + 1
  <2>1. /\ Newlines(x) \in SUBSET (0 .. Len(x) - 1) /\ IsFiniteSet(Newlines(x))
        /\ LineAtByte(x, k) = Cardinality(NewlinesBefore(x, k)) + 1
    BY <1>0, CountNewlines
  <2>. QED BY <1>0, <2>1
<1>2. \A j \in 1 .. k : x[j] = Newline => j - 1 \in NewlinesBefore(x, k)
  <2>. SUFFICES ASSUME NEW j \in 1 .. k, x[j] = Newline PROVE j - 1 \in NewlinesBefore(x, k)
    OBVIOUS
  <2>1. j - 1 \in 0 .. Len(x) - 1 /\ (j - 1) + 1 = j /\ j - 1 < k
    BY <1>0
  <2>. QED BY <2>1 DEF Newlines, NewlinesBefore
<1>3. NewlinesBefore(x, k) \in SUBSET Newlines(x) /\ IsFiniteSet(NewlinesBefore(x, k))
  <2>1. NewlinesBefore(x, k) \in SUBSET Newlines(x)
    BY DEF NewlinesBefore
  <2>. QED BY <1>1, <2>1, FS_Subset
<1>4. CASE NewlinesBefore(x, k) = {}
  <2>1. LineAtByte(x, k) = 1
    BY <1>1, <1>4, FS_EmptySet
  <2>2. LineStart(x, LineAtByte(x, k)) = 0
    BY <2>1 DEF LineStart
  <2>. QED BY <1>0, <1>2, <1>4, <2>2
<1>5. CASE NewlinesBefore(x, k) # {}
  <2>1. NewlinesBefore(x, k) \in SUBSET (0 .. k)
    BY <1>1, <1>3 DEF NewlinesBefore
  <2>2. PICK m \in NewlinesBefore(x, k) : \A i \in NewlinesBefore(x, k) : i <= m
    BY <1>0, <1>5, <2>1, GreatestNumber
  <2>3. m \in Newlines(x) /\ m \in Nat /\ m < k
    BY <1>1, <2>2 DEF NewlinesBefore
  <2>4. NewlinesBefore(x, k) = NewlinesBefore(x, m) \cup {m} /\ m \notin NewlinesBefore(x, m)
    BY <1>1, <2>2, <2>3 DEF NewlinesBefore
  <2>5. IsFiniteSet(NewlinesBefore(x, m))
    <3>1. NewlinesBefore(x, m) \in SUBSET Newlines(x)
      BY DEF NewlinesBefore
    <3>. QED BY <1>1, <3>1, FS_Subset
  <2>6. /\ Cardinality(NewlinesBefore(x, k)) = Cardinality(NewlinesBefore(x, m)) + 1
        /\ Cardinality(NewlinesBefore(x, m)) \in Nat
    BY <2>4, <2>5, FS_AddElement, FS_CardinalityType
  <2>7. LineAtByte(x, m) = LineAtByte(x, k) - 1 /\ LineAtByte(x, k) # 1
    <3>1. LineAtByte(x, m) = Cardinality(NewlinesBefore(x, m)) + 1
      BY <2>3, CountNewlines
    <3>. QED BY <1>1, <2>6, <3>1
  <2>8. ASSUME NEW i \in Newlines(x), LineAtByte(x, i) = LineAtByte(x, k) - 1 PROVE i = m
    <3>1. i \in Nat
      BY <1>1
    <3>2. LineAtByte(x, i) \in Nat /\ LineAtByte(x, m) \in Nat
      <4>1. /\ LineAtByte(x, i) = Cardinality(NewlinesBefore(x, i)) + 1
            /\ Cardinality(NewlinesBefore(x, i)) \in Nat
        BY <3>1, CountNewlines
      <4>2. LineAtByte(x, m) = Cardinality(NewlinesBefore(x, m)) + 1
        BY <2>3, CountNewlines
      <4>. QED BY <2>6, <4>1, <4>2
    <3>3. ~(i < m) /\ ~(m < i)
      BY <2>3, <2>7, <2>8, <3>1, <3>2, LaterLine
    <3>. QED BY <2>3, <3>1, <3>3
  <2>9. LineStart(x, LineAtByte(x, k)) = m + 1
    BY <2>3, <2>7, <2>8 DEF LineStart
  <2>10. ASSUME NEW j \in (m + 1 + 1) .. k PROVE x[j] # Newline
    <3>1. j \in 1 .. k /\ j - 1 > m /\ j - 1 \in Nat
      BY <2>3
    <3>2. j - 1 \notin NewlinesBefore(x, k)
      BY <2>2, <2>3, <3>1
    <3>. QED BY <1>2, <3>1, <3>2
  <2>. QED BY <1>0, <2>3, <2>9, <2>10
<1>. QED BY <1>4, <1>5

-----------------------------------------------------------------------------
(* The ranges a literal is shown at.                                       *)

\* find_iter shows only places where the pattern is found.
LEMMA LeftmostFound ==
  ASSUME NEW starts \in SUBSET Nat, NEW step \in Nat, NEW end \in Nat
  PROVE  Leftmost(starts, step, end) \subseteq starts
<1>. DEFINE later(k) == {m \in starts : m >= k}
            first(k) == CHOOSE m \in later(k) : \A n \in later(k) : m <= n
            next(k)  == first(k) + (IF step = 0 THEN 1 ELSE step)
            Body(g, k) == IF later(k) = {} THEN {}
                          ELSE {first(k)} \cup (IF next(k) <= end + 1 THEN g[next(k)] ELSE {})
            Solves(g) == g = [k \in 0 .. (end + 1) |-> Body(g, k)]
            from == CHOOSE g : Solves(g)
<1>1. Leftmost(starts, step, end) = from[0]
  BY DEF Leftmost
<1>2. ASSUME NEW k \in 0 .. end + 1, later(k) # {}
      PROVE  first(k) \in starts /\ next(k) \in Nat /\ next(k) > k
  <2>1. \E m \in later(k) : \A n \in later(k) : m <= n
    <3>1. later(k) \in SUBSET Nat
      OBVIOUS
    <3>. HIDE DEF later
    <3>. QED BY <1>2, <3>1, LeastNumber
  <2>2. first(k) \in later(k)
    <3>. HIDE DEF later
    <3>. QED BY <2>1
  <2>. HIDE DEF first
  <2>3. first(k) \in starts /\ first(k) \in Nat /\ first(k) >= k
    BY <2>2
  <2>. QED BY <2>3
<1>. HIDE DEF later, first, next
<1>. DEFINE Partial(j) == \E g \in [0 .. end + 1 -> SUBSET Nat] :
                            \A k \in 0 .. end + 1 : k >= j => g[k] = Body(g, k)
<1>3. \E g : Solves(g)
  <2>1. Partial(end + 2)
    <3>. DEFINE g == [k \in 0 .. end + 1 |-> {}]
    <3>1. g \in [0 .. end + 1 -> SUBSET Nat]
      OBVIOUS
    <3>2. \A k \in 0 .. end + 1 : ~(k >= end + 2)
      OBVIOUS
    <3>. QED BY <3>1, <3>2
  <2>2. ASSUME NEW j \in 0 .. end + 1, Partial(j + 1) PROVE Partial(j)
    <3>1. PICK g \in [0 .. end + 1 -> SUBSET Nat] : \A k \in 0 .. end + 1 : k >= j + 1 => g[k] = Body(g, k)
      BY <2>2
    <3>. DEFINE h == [g EXCEPT ![j] = Body(g, j)]
    <3>2. Body(g, j) \in SUBSET Nat
      <4>1. CASE later(j) = {}
        BY <4>1
      <4>2. CASE later(j) # {}
        <5>1. first(j) \in Nat /\ next(j) \in Nat
          BY <1>2, <4>2
        <5>2. next(j) <= end + 1 => g[next(j)] \in SUBSET Nat
          BY <5>1
        <5>. QED BY <5>1, <5>2
      <4>. QED BY <4>1, <4>2
    <3>. HIDE DEF Body
    <3>3. h \in [0 .. end + 1 -> SUBSET Nat] /\ \A k \in 0 .. end + 1 : h[k] = IF k = j THEN Body(g, j) ELSE g[k]
      BY <3>2
    <3>. HIDE DEF h
    <3>4. ASSUME NEW k \in 0 .. end + 1, k >= j PROVE Body(h, k) = Body(g, k)
      <4>1. CASE later(k) = {}
        BY <4>1 DEF Body
      <4>2. CASE later(k) # {}
        <5>1. next(k) \in Nat /\ next(k) > k
          BY <1>2, <4>2
        <5>2. next(k) <= end + 1 => h[next(k)] = g[next(k)]
          BY <3>3, <3>4, <5>1
        <5>. QED BY <4>2, <5>2 DEF Body
      <4>. QED BY <4>1, <4>2
    <3>5. ASSUME NEW k \in 0 .. end + 1, k >= j PROVE h[k] = Body(h, k)
      <4>1. CASE k = j
        BY <3>3, <3>4, <3>5, <4>1
      <4>2. CASE k # j
        BY <3>1, <3>3, <3>4, <3>5, <4>2
      <4>. QED BY <4>1, <4>2
    <3>. QED BY <3>3, <3>5
  <2>. HIDE DEF Partial
  <2>3. Partial(0)
    <3>. DEFINE Good == {j \in 0 .. end + 2 : Partial(j)}
    <3>1. end + 2 \in Good
      BY <2>1
    <3>2. Good \in SUBSET Nat /\ Good # {}
      BY <3>1
    <3>. HIDE DEF Good
    <3>3. PICK n \in Good : \A k \in Good : n <= k
      BY <3>2, LeastNumber
    <3>4. n \in 0 .. end + 2 /\ Partial(n)
      BY <3>3 DEF Good
    <3>5. CASE n = 0
      BY <3>4, <3>5
    <3>6. CASE n # 0
      <4>1. n - 1 \in 0 .. end + 1 /\ (n - 1) + 1 = n
        BY <3>4, <3>6
      <4>2. Partial(n - 1)
        BY <2>2, <3>4, <4>1
      <4>3. n - 1 \in Good
        BY <4>1, <4>2 DEF Good
      <4>. QED BY <3>3, <3>4, <4>3
    <3>. QED BY <3>5, <3>6
  <2>4. PICK g \in [0 .. end + 1 -> SUBSET Nat] : \A k \in 0 .. end + 1 : k >= 0 => g[k] = Body(g, k)
    BY <2>3 DEF Partial
  <2>. HIDE DEF Body
  <2>5. g = [k \in 0 .. end + 1 |-> Body(g, k)]
    BY <2>4
  <2>. QED BY <2>5
<1>4. Solves(from)
  <2>. HIDE DEF Solves
  <2>. QED BY <1>3
<1>. HIDE DEF from
<1>5. \A k \in 0 .. end + 1 : from[k] = Body(from, k)
  <2>. HIDE DEF Body
  <2>. QED BY <1>4
<1>6. ASSUME NEW k \in 0 .. end + 1, ~(from[k] \subseteq starts) PROVE FALSE
  <2>. DEFINE S == {j \in 0 .. end + 1 : ~(from[j] \subseteq starts)}
  <2>1. k \in S /\ S \in SUBSET (0 .. end + 1)
    BY <1>6
  <2>. DEFINE N == end + 1
  <2>0. N \in Nat /\ S \in SUBSET (0 .. N) /\ S # {}
    BY <2>1
  <2>. HIDE DEF S
  <2>2. PICK n \in S : \A j \in S : j <= n
    <3>. HIDE DEF N
    <3>. QED BY <2>0, GreatestNumber
  <2>3. n \in 0 .. end + 1 /\ ~(from[n] \subseteq starts)
    BY <2>2 DEF S
  <2>4. from[n] = Body(from, n)
    <3>. HIDE DEF Body
    <3>. QED BY <1>5, <2>3
  <2>5. later(n) # {}
    <3>1. later(n) = {} => Body(from, n) = {}
      OBVIOUS
    <3>. HIDE DEF Body
    <3>. QED BY <2>3, <2>4, <3>1
  <2>6. first(n) \in starts /\ next(n) \in Nat /\ next(n) > n
    BY <1>2, <2>3, <2>5
  <2>7. next(n) <= end + 1 => from[next(n)] \subseteq starts
    <3>1. ASSUME next(n) <= end + 1 PROVE next(n) \notin S
      BY <2>2, <2>3, <2>6
    <3>. QED BY <2>6, <3>1 DEF S
  <2>. QED BY <2>3, <2>4, <2>6, <2>7
<1>7. 0 \in 0 .. end + 1
  OBVIOUS
<1>. QED BY <1>1, <1>6, <1>7

\* A literal or a regular expression that never matches the empty string is found at bytes of the
\* content, and a literal where the content holds it, up to case.
LEMMA LiteralFound ==
  ASSUME NEW x \in Contents, Valid(x), NEW p \in Text, Len(p) > 0, NEW c \in BOOLEAN,
         NEW k \in LiteralStarts(x, p, c)
  PROVE  /\ k \in Nat /\ k \in 0 .. Len(x) - 1 /\ k + Len(p) <= Len(x)
         /\ \A i \in 1 .. Len(p) : CaseFold[x[k + i]] = CaseFold[p[i]]
<1>0. Lossy(x) = x /\ x \in Text /\ Len(x) \in Nat /\ Len(p) \in Nat
  <2>1. Lossy(x) = x /\ x \in Text
    BY LossyValid
  <2>. QED BY <2>1 DEF Text
<1>1. k \in Occurrences(p, x) \/ k \in FoldedOccurrences(p, x)
  BY <1>0 DEF LiteralStarts
<1>2. k \in 0 .. Len(x) - Len(p) /\ \A i \in 1 .. Len(p) : CaseFold[x[k + i]] = CaseFold[p[i]]
  <2>1. CASE k \in Occurrences(p, x)
    BY <2>1 DEF Occurrences
  <2>2. CASE k \in FoldedOccurrences(p, x)
    BY <2>2 DEF FoldedOccurrences
  <2>. QED BY <1>1, <2>1, <2>2
<1>. QED BY <1>0, <1>2

\* Every range a literal is shown at begins where the literal is found.
LEMMA RangesFound ==
  ASSUME NEW x \in Contents, Valid(x), NEW p \in Text, Len(p) > 0, NEW c \in BOOLEAN,
         NEW r \in VerifyLiteral(x, p, c)
  PROVE  \E k \in LiteralStarts(x, p, c) :
           r = [line |-> LineAtByte(x, k), start |-> k - LineStart(x, LineAtByte(x, k)),
                end |-> k - LineStart(x, LineAtByte(x, k)) + Len(p)]
<1>. DEFINE starts == LiteralStarts(x, p, c)
            found  == IF c THEN starts ELSE Leftmost(starts, Len(p), Len(Lossy(x)))
            range(k) == [line |-> LineAtByte(x, k), start |-> k - LineStart(x, LineAtByte(x, k)),
                         end |-> k - LineStart(x, LineAtByte(x, k)) + Len(p)]
<1>1. starts \in SUBSET Nat
  BY LiteralFound
<1>2. Len(p) \in Nat /\ Len(Lossy(x)) \in Nat
  BY LossyValid DEF Text
<1>. HIDE DEF starts
<1>3. found \subseteq starts
  BY <1>1, <1>2, LeftmostFound
<1>4. VerifyLiteral(x, p, c) = {range(k) : k \in found}
  BY DEF VerifyLiteral, starts
<1>. HIDE DEF found, range
<1>5. PICK k \in found : r = range(k)
  BY <1>4
<1>. QED BY <1>3, <1>5 DEF starts, range

\* For every content: each range a literal is shown at lies on a line of the file, within that
\* line up to the literal's start, and holds the literal: verify's line index, its ranges and the
\* content agree.
THEOREM MatchesWhereShownHolds == Spec => []MatchesWhereShown
<1>1. ASSUME IInv PROVE MatchesWhereShown
  <2>. USE <1>1 DEF IInv
  <2>. SUFFICES ASSUME NeverEmpty(query), NEW f \in results, NEW t \in Terms(query),
                       Valid(corpus[f].content), t.kind \in Literals,
                       NEW r \in VerifyLiteral(corpus[f].content, t.v, t.cs)
                PROVE  LET content == corpus[f].content
                           at      == LineStart(content, r.line) + r.start
                       IN  /\ r.line \in 1..LineCount(content) /\ r.start >= 0
                           /\ at + Len(t.v) <= Len(content)
                           /\ \A i \in 1..Len(t.v) : CaseFold[content[at + i]] = CaseFold[t.v[i]]
                           /\ \A k \in (LineStart(content, r.line) + 1)..at : content[k] # Newline
    BY DEF MatchesWhereShown
  <2>. DEFINE x == corpus[f].content
              p == t.v
  <2>1. f \in FileId /\ t \in Term
    BY TermsFacts DEF TypeInv
  <2>2. x \in Contents /\ x \in Text /\ p \in Text /\ t.cs \in BOOLEAN
    BY <2>1, ContentType, LossyValid, TermFacts
  <2>3. Len(p) > 0
    BY DEF NeverEmpty
  <2>4. PICK k \in LiteralStarts(x, p, t.cs) :
          r = [line |-> LineAtByte(x, k), start |-> k - LineStart(x, LineAtByte(x, k)),
               end |-> k - LineStart(x, LineAtByte(x, k)) + Len(p)]
    BY <2>2, <2>3, RangesFound
  <2>5. /\ k \in Nat /\ k \in 0 .. Len(x) - 1 /\ k + Len(p) <= Len(x)
        /\ \A i \in 1 .. Len(p) : CaseFold[x[k + i]] = CaseFold[p[i]]
    BY <2>2, <2>3, LiteralFound
  <2>. DEFINE s == LineStart(x, LineAtByte(x, k))
  <2>6. s \in 0 .. k /\ \A j \in (s + 1) .. k : x[j] # Newline
    BY <2>2, <2>5, LineStartFound
  <2>7. LineAtByte(x, k) \in 1 .. LineCount(x)
    BY <2>2, <2>5, LineInFile
  <2>8. r.line = LineAtByte(x, k) /\ r.start = k - s
    BY <2>4
  <2>9. LineStart(x, r.line) = s
    BY <2>8
  <2>. HIDE DEF s, x, p
  <2>10. s + r.start = k /\ r.start >= 0
    BY <2>5, <2>6, <2>8
  <2>. QED BY <2>5, <2>6, <2>7, <2>8, <2>9, <2>10 DEF x, p
<1>. QED BY <1>1, Inductive, PTL

-----------------------------------------------------------------------------
(* Matches with context.                                                   *)

\* Lines a and b are in one group: from a to b no gap between matches is wider than both contexts.
Joined(lines, c, a, b) ==
  \A l \in lines : a <= l /\ l < b => \E m \in lines : l < m /\ m <= l + 2 * c + 1 /\ m <= b

Grouped(lines, c, a, b) == (a <= b /\ Joined(lines, c, a, b)) \/ (b <= a /\ Joined(lines, c, b, a))

GroupOf(lines, c, a) == {b \in lines : Grouped(lines, c, a, b)}

\* Groups is the set of the groups of its lines.
LEMMA GroupsAreGroups ==
  ASSUME NEW lines, NEW c PROVE Groups(lines, c) = {GroupOf(lines, c, a) : a \in lines}
BY DEF Groups, GroupOf, Grouped, Joined

\* Joining is transitive, and passes to the lines between.
LEMMA JoinedFacts ==
  ASSUME NEW lines \in SUBSET Nat, NEW c \in Nat, NEW a \in lines, NEW b \in lines, NEW e \in lines,
         a <= b, b <= e
  PROVE  Joined(lines, c, a, e) <=> Joined(lines, c, a, b) /\ Joined(lines, c, b, e)
<1>1. ASSUME Joined(lines, c, a, e) PROVE Joined(lines, c, a, b) /\ Joined(lines, c, b, e)
  <2>1. ASSUME NEW l \in lines, a <= l, l < b PROVE \E m \in lines : l < m /\ m <= l + 2 * c + 1 /\ m <= b
    <3>1. PICK m \in lines : l < m /\ m <= l + 2 * c + 1 /\ m <= e
      BY <1>1, <2>1 DEF Joined
    <3>2. CASE m <= b
      BY <3>1, <3>2
    <3>3. CASE m > b
      BY <2>1, <3>1, <3>3
    <3>. QED BY <3>2, <3>3
  <2>2. ASSUME NEW l \in lines, b <= l, l < e PROVE \E m \in lines : l < m /\ m <= l + 2 * c + 1 /\ m <= e
    BY <1>1, <2>2 DEF Joined
  <2>. QED BY <2>1, <2>2 DEF Joined
<1>2. ASSUME Joined(lines, c, a, b), Joined(lines, c, b, e) PROVE Joined(lines, c, a, e)
  <2>. SUFFICES ASSUME NEW l \in lines, a <= l, l < e
                PROVE  \E m \in lines : l < m /\ m <= l + 2 * c + 1 /\ m <= e
    BY DEF Joined
  <2>1. CASE l < b
    <3>1. PICK m \in lines : l < m /\ m <= l + 2 * c + 1 /\ m <= b
      BY <1>2, <2>1 DEF Joined
    <3>. QED BY <3>1
  <2>2. CASE l >= b
    BY <1>2, <2>2 DEF Joined
  <2>. QED BY <2>1, <2>2
<1>. QED BY <1>1, <1>2

\* Two lines of one group have the same group.
LEMMA SameGroup ==
  ASSUME NEW lines \in SUBSET Nat, NEW c \in Nat, NEW a \in lines, NEW b \in lines,
         Grouped(lines, c, a, b)
  PROVE  GroupOf(lines, c, a) = GroupOf(lines, c, b)
<1>1. ASSUME NEW u \in lines, NEW v \in lines, NEW w \in lines, Grouped(lines, c, u, v), Grouped(lines, c, v, w)
      PROVE  Grouped(lines, c, u, w)
  <2>. DEFINE J(i, j) == Joined(lines, c, i, j)
  <2>0. \A i, j, k \in lines : i <= j /\ j <= k => (J(i, k) <=> J(i, j) /\ J(j, k))
    BY JoinedFacts
  <2>1. (u <= v /\ J(u, v)) \/ (v <= u /\ J(v, u))
    BY <1>1 DEF Grouped
  <2>2. (v <= w /\ J(v, w)) \/ (w <= v /\ J(w, v))
    BY <1>1 DEF Grouped
  <2>3. u \in Nat /\ v \in Nat /\ w \in Nat
    OBVIOUS
  <2>. HIDE DEF J
  <2>4. (u <= w /\ J(u, w)) \/ (w <= u /\ J(w, u))
    <3>1. CASE u <= v /\ v <= w
      BY <2>0, <2>1, <2>2, <2>3, <3>1
    <3>2. CASE u <= v /\ w <= v
      BY <2>0, <2>1, <2>2, <2>3, <3>2
    <3>3. CASE v <= u /\ v <= w
      BY <2>0, <2>1, <2>2, <2>3, <3>3
    <3>4. CASE v <= u /\ w <= v
      BY <2>0, <2>1, <2>2, <2>3, <3>4
    <3>. QED BY <2>3, <3>1, <3>2, <3>3, <3>4
  <2>. QED BY <2>4 DEF Grouped, J
<1>2. \A u, v \in lines : Grouped(lines, c, u, v) => Grouped(lines, c, v, u)
  BY DEF Grouped
<1>. QED BY <1>1, <1>2 DEF GroupOf

\* Between two groups lies a gap wider than the context behind the one and before the other.
LEMMA GroupsApart ==
  ASSUME NEW lines \in SUBSET Nat, NEW c \in Nat, NEW a \in lines, NEW b \in lines,
         a <= b, ~Grouped(lines, c, a, b)
  PROVE  \E l \in lines : /\ \A e \in GroupOf(lines, c, a) : e <= l
                          /\ \A e \in GroupOf(lines, c, b) : e > l + 2 * c + 1
<1>1. ~Joined(lines, c, a, b)
  BY DEF Grouped
<1>2. PICK l \in lines : a <= l /\ l < b /\ \A m \in lines : ~(l < m /\ m <= l + 2 * c + 1 /\ m <= b)
  BY <1>1 DEF Joined
<1>3. b > l + 2 * c + 1
  BY <1>2
<1>4. ASSUME NEW e \in GroupOf(lines, c, a), e > l PROVE FALSE
  <2>1. e \in lines /\ a <= e /\ Joined(lines, c, a, e)
    BY <1>2, <1>4 DEF GroupOf, Grouped
  <2>2. PICK m \in lines : l < m /\ m <= l + 2 * c + 1 /\ m <= e
    BY <1>2, <1>4, <2>1 DEF Joined
  <2>. QED BY <1>2, <1>3, <2>2
<1>5. ASSUME NEW e \in GroupOf(lines, c, b), ~(e > l + 2 * c + 1) PROVE FALSE
  <2>1. e \in lines /\ e < b /\ Joined(lines, c, e, b)
    BY <1>3, <1>5 DEF GroupOf, Grouped
  <2>2. CASE e <= l
    BY <1>2, <2>1, <2>2 DEF Joined
  <2>3. CASE e > l
    BY <1>2, <1>5, <2>1, <2>3
  <2>. QED BY <2>1, <2>2, <2>3
<1>6. GroupOf(lines, c, a) \subseteq lines /\ GroupOf(lines, c, b) \subseteq lines
  BY DEF GroupOf
<1>7. ASSUME NEW e \in GroupOf(lines, c, a) PROVE e <= l
  <2>1. ~(e > l) /\ e \in Nat /\ l \in Nat
    BY <1>4, <1>6
  <2>. QED BY <2>1
<1>8. \A e \in GroupOf(lines, c, b) : e > l + 2 * c + 1
  BY <1>5
<1>. QED BY <1>7, <1>8

Shown(g, c, total) == Before(g, c) \cup g \cup After(g, c, total)

\* What is shown of a group reaches from the context before its first line to that behind its
\* last, and no line of the group is one of its context.
LEMMA ShownBounds ==
  ASSUME NEW total \in Nat, NEW c \in Nat, NEW g \in SUBSET (1 .. total), g # {}
  PROVE  /\ \E lo \in g : \E hi \in g : \A n \in Shown(g, c, total) :
                n \in 1 .. total /\ lo - c <= n /\ n <= hi + c
         /\ Before(g, c) \cap g = {} /\ After(g, c, total) \cap g = {}
<1>0. g \in SUBSET Nat /\ g \in SUBSET (0 .. total)
  OBVIOUS
<1>1. First(g) \in g /\ \A m \in g : First(g) <= m
  <2>1. \E l \in g : \A m \in g : l <= m
    BY <1>0, LeastNumber
  <2>. QED BY <2>1 DEF First
<1>2. Last(g) \in g /\ \A m \in g : m <= Last(g)
  <2>1. \E l \in g : \A m \in g : m <= l
    BY <1>0, GreatestNumber
  <2>. QED BY <2>1 DEF Last
<1>3. First(g) \in 1 .. total /\ Last(g) \in 1 .. total
  BY <1>1, <1>2
<1>. DEFINE lo == First(g)
            hi == Last(g)
<1>4. ASSUME NEW n \in Before(g, c) PROVE n \in 1 .. total /\ lo - c <= n /\ n < lo
  BY <1>3 DEF Before
<1>5. ASSUME NEW n \in After(g, c, total) PROVE n \in 1 .. total /\ n <= hi + c /\ hi < n
  BY <1>3 DEF After
<1>. HIDE DEF lo, hi
<1>6. lo \in g /\ hi \in g /\ lo \in 1 .. total /\ hi \in 1 .. total /\ \A m \in g : lo <= m /\ m <= hi
  BY <1>1, <1>2, <1>3 DEF lo, hi
<1>7. lo <= hi
  BY <1>6
<1>8. ASSUME NEW n \in Shown(g, c, total) PROVE n \in 1 .. total /\ lo - c <= n /\ n <= hi + c
  <2>1. CASE n \in Before(g, c)
    BY <1>4, <1>6, <1>7, <2>1
  <2>2. CASE n \in After(g, c, total)
    BY <1>5, <1>6, <1>7, <2>2
  <2>3. CASE n \in g
    BY <1>6, <2>3
  <2>. QED BY <2>1, <2>2, <2>3 DEF Shown
<1>9. Before(g, c) \cap g = {}
  BY <1>4, <1>6
<1>10. After(g, c, total) \cap g = {}
  BY <1>5, <1>6
<1>. QED BY <1>6, <1>8, <1>9, <1>10

\* No line is shown by two groups.
LEMMA ShownApart ==
  ASSUME NEW total \in Nat, NEW c \in Nat, NEW lines \in SUBSET (1 .. total),
         NEW a \in lines, NEW b \in lines, GroupOf(lines, c, a) # GroupOf(lines, c, b)
  PROVE  Shown(GroupOf(lines, c, a), c, total) \cap Shown(GroupOf(lines, c, b), c, total) = {}
<1>1. ASSUME NEW u \in lines, NEW v \in lines, u <= v, ~Grouped(lines, c, u, v),
             NEW n \in Shown(GroupOf(lines, c, u), c, total), n \in Shown(GroupOf(lines, c, v), c, total)
      PROVE  FALSE
  <2>. DEFINE g == GroupOf(lines, c, u)
              h == GroupOf(lines, c, v)
  <2>1. lines \in SUBSET Nat
    OBVIOUS
  <2>2. PICK l \in lines : (\A e \in g : e <= l) /\ \A e \in h : e > l + 2 * c + 1
    BY <1>1, <2>1, GroupsApart
  <2>3. g \in SUBSET (1 .. total) /\ h \in SUBSET (1 .. total)
    BY DEF GroupOf
  <2>4. u \in g /\ v \in h
    BY DEF GroupOf, Grouped, Joined
  <2>. HIDE DEF g, h
  <2>5. PICK hi \in g : \A k \in Shown(g, c, total) : k \in 1 .. total /\ k <= hi + c
    BY <2>3, <2>4, ShownBounds
  <2>6. PICK lo \in h : \A k \in Shown(h, c, total) : lo - c <= k
    BY <2>3, <2>4, ShownBounds
  <2>7. n \in Nat /\ n <= hi + c /\ lo - c <= n
    BY <1>1, <2>5, <2>6 DEF g, h
  <2>8. hi <= l /\ lo > l + 2 * c + 1 /\ hi \in Nat /\ lo \in Nat /\ l \in Nat
    BY <2>1, <2>2, <2>3
  <2>. QED BY <2>7, <2>8
<1>2. lines \in SUBSET Nat
  OBVIOUS
<1>3. ~Grouped(lines, c, a, b) /\ ~Grouped(lines, c, b, a)
  BY <1>2, SameGroup
<1>4. a <= b \/ b <= a
  OBVIOUS
<1>. QED BY <1>1, <1>3, <1>4

\* A match of a query that never matches the empty string is on a line of the file.
LEMMA HitLinesInFile ==
  ASSUME NEW q \in Seq(Seq(Term)), NeverEmpty(q), NEW x \in Contents, Valid(x)
  PROVE  HitLines(q, x) \subseteq 1 .. LineCount(x) /\ LineCount(x) \in Nat
<1>0. x \in Text /\ Lossy(x) = x /\ Len(x) \in Nat
  <2>1. x \in Text /\ Lossy(x) = x
    BY LossyValid
  <2>. QED BY <2>1 DEF Text
<1>1. ASSUME NEW n \in HitLines(q, x) PROVE n \in 1 .. LineCount(x)
  <2>1. PICK d \in 1 .. Len(q) : \E t \in Terms(<<q[d]>>) : /\ t.kind \notin Filters
                                                            /\ \E k \in Starts(t, x) : n = LineAtByte(x, k)
    <3>. DEFINE ofTerm(t) == {LineAtByte(x, k) : k \in Starts(t, x)}
                ofConj(d) == UNION {ofTerm(t) : t \in {u \in Terms(<<q[d]>>) : u.kind \notin Filters /\ u.nots = 0}}
    <3>1. HitLines(q, x) = UNION {ofConj(d) : d \in {e \in 1 .. Len(q) : EvalConj(q[e], x)}}
      BY DEF HitLines
    <3>2. PICK d \in 1 .. Len(q) : n \in ofConj(d)
      <4>. HIDE DEF ofConj
      <4>. QED BY <1>1, <3>1, Zenon
    <3>3. PICK t \in Terms(<<q[d]>>) : t.kind \notin Filters /\ n \in ofTerm(t)
      <4>. HIDE DEF ofTerm
      <4>. QED BY <3>2, Zenon
    <3>4. \E k \in Starts(t, x) : n = LineAtByte(x, k)
      BY <3>3, Zenon
    <3>. QED BY <3>3, <3>4
  <2>2. PICK t \in Terms(<<q[d]>>) : t.kind \notin Filters /\ \E k \in Starts(t, x) : n = LineAtByte(x, k)
    BY <2>1
  <2>3. PICK k \in Starts(t, x) : n = LineAtByte(x, k)
    BY <2>2
  <2>4. t \in Terms(q) /\ t \in Term
    <3>1. PICK i \in 1 .. Len(q[d]) : t = q[d][i]
      <4>1. PICK e \in 1 .. Len(<<q[d]>>) : t \in {<<q[d]>>[e][i] : i \in 1 .. Len(<<q[d]>>[e])}
        BY <2>2, Zenon DEF Terms
      <4>2. e = 1 /\ <<q[d]>>[e] = q[d]
        BY <4>1
      <4>. QED BY <4>1, <4>2
    <3>. QED BY <3>1, TermsFacts
  <2>5. k \in 0 .. Len(x) - 1
    <3>1. CASE t.kind = "regex"
      <4>1. t.v \in Seq(Branch)
        BY <2>4, <3>1, TermFacts
      <4>2. k \in UNION {BranchStarts(x, t.v[i]) : i \in 1 .. Len(t.v)}
        BY <2>3, <3>1 DEF Starts, RegexStarts
      <4>3. PICK i \in 1 .. Len(t.v) : k \in BranchStarts(x, t.v[i])
        BY <4>2, Zenon
      <4>4. PICK p \in t.v[i].pre : k \in Occurrences(p, x)
        BY <1>0, <4>3 DEF BranchStarts
      <4>5. t.v[i] \in Branch
        BY <4>1
      <4>6. p \in Text
        BY <4>4, <4>5 DEF Branch
      <4>7. Len(p) \in Nat /\ Len(p) > 0
        BY <2>4, <3>1, <4>3, <4>4, <4>6 DEF NeverEmpty, Text
      <4>. QED BY <1>0, <4>4, <4>7 DEF Occurrences
    <3>2. CASE t.kind # "regex"
      <4>1. t.kind \in Literals /\ t.v \in Text /\ t.cs \in BOOLEAN
        BY <2>2, <2>4, <3>2, TermFacts DEF Primary
      <4>2. Len(t.v) > 0
        BY <2>4, <4>1 DEF NeverEmpty
      <4>3. k \in LiteralStarts(x, t.v, t.cs)
        BY <2>3, <3>2 DEF Starts
      <4>. QED BY <4>1, <4>2, <4>3, LiteralFound
    <3>. QED BY <3>1, <3>2
  <2>. QED BY <1>0, <2>3, <2>5, LineInFile
<1>2. LineCount(x) \in Nat
  <2>0. 0 \in Nat
    OBVIOUS
  <2>1. Cardinality(Newlines(x)) \in Nat
    BY <1>0, <2>0, CountNewlines
  <2>. QED BY <2>1 DEF LineCount
<1>. QED BY <1>1, <1>2

\* For every content, query and number of context lines: the groups with their contexts cover no
\* line twice and none the file does not have.
THEOREM LinesShownOnceHolds == Spec => []LinesShownOnce
<1>1. ASSUME IInv PROVE LinesShownOnce
  <2>. USE <1>1 DEF IInv
  <2>. SUFFICES ASSUME NeverEmpty(query), NEW f \in results, Valid(corpus[f].content), NEW c \in 1 .. 3
                PROVE  LET content == corpus[f].content
                           groups  == Groups(HitLines(query, content), c)
                           shown(g) == Before(g, c) \cup g \cup After(g, c, LineCount(content))
                       IN  /\ \A g \in groups : shown(g) \subseteq 1..LineCount(content)
                           /\ \A g, h \in groups : g # h => shown(g) \cap shown(h) = {}
                           /\ \A g \in groups : /\ Before(g, c) \cap g = {}
                                                /\ After(g, c, LineCount(content)) \cap g = {}
    BY DEF LinesShownOnce
  <2>. DEFINE x == corpus[f].content
              total == LineCount(x)
              lines == HitLines(query, x)
  <2>1. f \in FileId /\ query \in Seq(Seq(Term))
    BY DEF TypeInv
  <2>2. x \in Contents
    BY <2>1, ContentType
  <2>3. total \in Nat /\ lines \in SUBSET (1 .. total) /\ c \in Nat
    BY <2>1, <2>2, HitLinesInFile
  <2>. HIDE DEF x, total, lines
  <2>4. Groups(lines, c) = {GroupOf(lines, c, a) : a \in lines}
    BY GroupsAreGroups
  <2>5. ASSUME NEW g \in Groups(lines, c) PROVE g \in SUBSET (1 .. total) /\ g # {}
    <3>1. PICK a \in lines : g = GroupOf(lines, c, a)
      BY <2>4
    <3>2. a \in Nat
      BY <2>3
    <3>3. a \in GroupOf(lines, c, a)
      BY <3>2 DEF GroupOf, Grouped, Joined
    <3>4. GroupOf(lines, c, a) \subseteq lines
      BY DEF GroupOf
    <3>. QED BY <2>3, <3>1, <3>3, <3>4
  <2>6. ASSUME NEW g \in Groups(lines, c)
        PROVE  /\ Shown(g, c, total) \subseteq 1 .. total
               /\ Before(g, c) \cap g = {} /\ After(g, c, total) \cap g = {}
    BY <2>3, <2>5, ShownBounds
  <2>7. ASSUME NEW g \in Groups(lines, c), NEW h \in Groups(lines, c), g # h
        PROVE  Shown(g, c, total) \cap Shown(h, c, total) = {}
    <3>1. PICK a \in lines : g = GroupOf(lines, c, a)
      BY <2>4
    <3>2. PICK b \in lines : h = GroupOf(lines, c, b)
      BY <2>4
    <3>. QED BY <2>3, <2>7, <3>1, <3>2, ShownApart
  <2>. QED BY <2>6, <2>7 DEF x, total, lines, Shown
<1>. QED BY <1>1, Inductive, PTL

-----------------------------------------------------------------------------
(* The tree is what was written.  The operators below name the parts of    *)
(* ParsedAsWritten for an input of which only the first tokens are read.   *)

\* An OR is a keyword exactly behind a term that is not one itself.
LEMMA KeywordFacts ==
  ASSUME NEW in \in Seq(Token)
  PROVE  /\ Keyword(in) \subseteq 1 .. Len(in)
         /\ \A i \in 1 .. Len(in) :
              i \in Keyword(in) <=>
                /\ i > 1 /\ in[i].kind = "or"
                /\ in[i - 1].kind \in Primary \cup {"or"} /\ i - 1 \notin Keyword(in)
<1>. DEFINE n == Len(in)
            Body(g, i) == /\ i > 1 /\ in[i].kind = "or"
                          /\ in[i - 1].kind \in Primary \cup {"or"} /\ ~g[i - 1]
            Solves(g) == g = [i \in 0 .. n |-> Body(g, i)]
            kw == CHOOSE g : Solves(g)
<1>0. n \in Nat
  OBVIOUS
<1>1. Keyword(in) = {i \in 1 .. n : kw[i]}
  BY DEF Keyword
<1>. HIDE DEF n
<1>2. \A g, i : Body(g, i) \in BOOLEAN
  OBVIOUS
<1>3. \A g, h : \A i \in 0 .. n : (i > 1 => g[i - 1] = h[i - 1]) => Body(g, i) = Body(h, i)
  OBVIOUS
<1>. HIDE DEF Body
<1>. DEFINE Partial(j) == \E g \in [0 .. n -> BOOLEAN] : \A i \in 0 .. n : i <= j => g[i] = Body(g, i)
<1>4. ASSUME NEW j \in Nat, j + 1 <= n, Partial(j) PROVE Partial(j + 1)
  <2>1. PICK g \in [0 .. n -> BOOLEAN] : \A i \in 0 .. n : i <= j => g[i] = Body(g, i)
    BY <1>4
  <2>. DEFINE h == [g EXCEPT ![j + 1] = Body(g, j + 1)]
  <2>2. /\ h \in [0 .. n -> BOOLEAN]
        /\ \A i \in 0 .. n : h[i] = IF i = j + 1 THEN Body(g, j + 1) ELSE g[i]
    BY <1>2
  <2>. HIDE DEF h
  <2>3. ASSUME NEW i \in 0 .. n, i <= j + 1 PROVE h[i] = Body(h, i)
    <3>1. i > 1 => g[i - 1] = h[i - 1]
      BY <1>0, <1>4, <2>2, <2>3
    <3>2. Body(g, i) = Body(h, i)
      BY <1>3, <3>1
    <3>3. CASE i = j + 1
      BY <2>2, <3>2, <3>3
    <3>4. CASE i # j + 1
      BY <2>1, <2>2, <2>3, <3>2, <3>4
    <3>. QED BY <3>3, <3>4
  <2>. QED BY <2>2, <2>3
<1>5. Partial(0)
  <2>. DEFINE e == [i \in 0 .. n |-> FALSE]
              g == [i \in 0 .. n |-> Body(e, i)]
  <2>1. g \in [0 .. n -> BOOLEAN] /\ g[0] = Body(e, 0)
    BY <1>0, <1>2
  <2>2. Body(e, 0) = Body(g, 0)
    BY <1>0, <1>3
  <2>. HIDE DEF g, e
  <2>3. \A i \in 0 .. n : i <= 0 => g[i] = Body(g, i)
    BY <1>0, <2>1, <2>2
  <2>. QED BY <2>1, <2>3
<1>. HIDE DEF Partial
<1>6. Partial(n)
  <2>. DEFINE Missing == {j \in 0 .. n : ~Partial(j)}
  <2>1. ASSUME Missing # {} PROVE FALSE
    <3>1. Missing \in SUBSET Nat
      OBVIOUS
    <3>. HIDE DEF Missing
    <3>2. PICK j \in Missing : \A k \in Missing : j <= k
      BY <2>1, <3>1, LeastNumber
    <3>3. j \in 0 .. n /\ ~Partial(j) /\ j # 0
      BY <1>5, <3>2 DEF Missing
    <3>4. j - 1 \in Nat /\ (j - 1) + 1 <= n /\ (j - 1) + 1 = j /\ j - 1 \in 0 .. n
      BY <1>0, <3>3
    <3>5. j - 1 \notin Missing
      BY <3>2, <3>3
    <3>6. Partial(j - 1)
      BY <3>4, <3>5 DEF Missing
    <3>7. Partial((j - 1) + 1)
      BY <1>4, <3>4, <3>6
    <3>. QED BY <3>3, <3>4, <3>7
  <2>. QED BY <1>0, <2>1
<1>7. \E g : Solves(g)
  <2>1. PICK g \in [0 .. n -> BOOLEAN] : \A i \in 0 .. n : i <= n => g[i] = Body(g, i)
    BY <1>6 DEF Partial
  <2>2. \A i \in 0 .. n : g[i] = Body(g, i)
    BY <1>0, <2>1
  <2>3. g = [i \in 0 .. n |-> Body(g, i)]
    BY <2>2
  <2>. QED BY <2>3
<1>8. Solves(kw)
  <2>. HIDE DEF Solves
  <2>. QED BY <1>7
<1>. HIDE DEF kw
<1>9. \A i \in 0 .. n : kw[i] = Body(kw, i)
  BY <1>8
<1>10. ASSUME NEW i \in 1 .. n
       PROVE  i \in Keyword(in) <=>
                /\ i > 1 /\ in[i].kind = "or"
                /\ in[i - 1].kind \in Primary \cup {"or"} /\ i - 1 \notin Keyword(in)
  <2>1. i \in Keyword(in) <=> Body(kw, i)
    BY <1>0, <1>1, <1>9
  <2>2. i > 1 => (i - 1 \in Keyword(in) <=> kw[i - 1])
    BY <1>0, <1>1
  <2>. QED BY <2>1, <2>2 DEF Body
<1>11. Keyword(in) \subseteq 1 .. n
  BY <1>1
<1>. QED BY <1>10, <1>11 DEF n

IsTerm(in, i) == in[i].kind \in Primary \cup {"or"} /\ i \notin Keyword(in)

Places(in) == {i \in 1 .. Len(in) : IsTerm(in, i)}

Divisions(in) == {0} \cup Keyword(in)

\* The conjunction a token at i belongs to.
ConjAt(in, i) == Cardinality({k \in Divisions(in) : k < i})

OfConj(in, d) == {i \in Places(in) : ConjAt(in, i) = d}

Below(in, d, p) == {i \in OfConj(in, d) : i < p}

Rank(in, d, i) == Cardinality({j \in OfConj(in, d) : j <= i})

ContentAt(in, i) == i \in Places(in) /\ in[i].kind \notin Filters

Prefixed(in, i) == {j \in 1 .. (i - 1) : \A k \in j .. (i - 1) : in[k].kind \in {"not", "case"}}

NotsBefore(in, i) == Cardinality({j \in Prefixed(in, i) : in[j].kind = "not"})

Flagged(in, i) ==
  \E j \in 1 .. (i - 1) : in[j].kind = "case" /\ \A k \in j .. (i - 1) : ~ContentAt(in, k)

\* Term t is what token i stands for.
Written(in, i, t) ==
  /\ t.v = CASE in[i].kind = "or" -> OrText
             [] in[i].kind = "lang" -> Lang!MatchLanguage(in[i].v)
             [] OTHER -> in[i].v
  /\ t.nots = NotsBefore(in, i)
  /\ t.kind \in Literals => (t.cs <=> Flagged(in, i))

\* The tree holds the tokens before p as they were written.
TreeOf(in, tree, p) ==
  /\ Len(tree) = ConjAt(in, p)
  /\ \A d \in 1 .. Len(tree) : Len(tree[d]) = Cardinality(Below(in, d, p))
  /\ \A d \in 1 .. Len(tree) : \A i \in Below(in, d, p) : Written(in, i, tree[d][Rank(in, d, i)])

\* What the parser has read is in its tree, and its flags are those of what it is about to read.
ParseInv ==
  (\A i \in 1 .. Len(input) : input[i].kind # "flags") =>
    /\ phase = "parse" =>
         /\ pos \in 1 .. Len(input) + 1
         /\ AtKeyword <=> pos > 1 /\ IsTerm(input, pos - 1)
         /\ nots = NotsBefore(input, pos)
         /\ cs <=> Flagged(input, pos)
         /\ TreeOf(input, Append(query, conj), pos)
    /\ phase \notin {"parse", "error"} => TreeOf(input, query, Len(input) + 1)

\* The divisions before a token are finitely many, and an OR keyword is one more.
LEMMA ConjAtFacts ==
  ASSUME NEW in \in Seq(Token), NEW p \in 1 .. Len(in) + 1
  PROVE  /\ ConjAt(in, p) \in Nat
         /\ ConjAt(in, p + 1) = ConjAt(in, p) + (IF p \in Keyword(in) THEN 1 ELSE 0)
         /\ \A i \in 1 .. p : ConjAt(in, i) \in Nat /\ ConjAt(in, i) <= ConjAt(in, p)
<1>0. Divisions(in) \subseteq 0 .. Len(in) /\ Len(in) \in Nat
  BY KeywordFacts DEF Divisions
<1>1. IsFiniteSet(0 .. Len(in))
  BY <1>0, FS_Interval
<1>2. ASSUME NEW i PROVE IsFiniteSet({k \in Divisions(in) : k < i}) /\ ConjAt(in, i) \in Nat
  <2>1. {k \in Divisions(in) : k < i} \in SUBSET (0 .. Len(in))
    BY <1>0
  <2>. QED BY <1>1, <2>1, FS_Subset, FS_CardinalityType DEF ConjAt
<1>3. ASSUME NEW i \in 1 .. p PROVE ConjAt(in, i) <= ConjAt(in, p)
  <2>1. {k \in Divisions(in) : k < i} \in SUBSET {k \in Divisions(in) : k < p}
    BY <1>0
  <2>. QED BY <1>2, <2>1, FS_Subset DEF ConjAt
<1>4. ConjAt(in, p + 1) = ConjAt(in, p) + (IF p \in Keyword(in) THEN 1 ELSE 0)
  <2>1. CASE p \in Keyword(in)
    <3>1. /\ {k \in Divisions(in) : k < p + 1} = {k \in Divisions(in) : k < p} \cup {p}
          /\ p \notin {k \in Divisions(in) : k < p}
      BY <1>0, <2>1 DEF Divisions
    <3>. DEFINE S == {k \in Divisions(in) : k < p}
    <3>2. Cardinality(S \cup {p}) = Cardinality(S) + 1
      <4>1. IsFiniteSet(S) /\ p \notin S
        BY <1>2, <3>1
      <4>. HIDE DEF S
      <4>. QED BY <4>1, FS_AddElement
    <3>3. ConjAt(in, p + 1) = ConjAt(in, p) + 1
      BY <3>1, <3>2 DEF ConjAt
    <3>. QED BY <2>1, <3>3
  <2>2. CASE p \notin Keyword(in)
    <3>1. {k \in Divisions(in) : k < p + 1} = {k \in Divisions(in) : k < p}
      BY <1>0, <2>2 DEF Divisions
    <3>2. ConjAt(in, p + 1) = ConjAt(in, p)
      BY <3>1 DEF ConjAt
    <3>3. ConjAt(in, p) \in Nat
      BY <1>2
    <3>. QED BY <2>2, <3>2, <3>3
  <2>. QED BY <2>1, <2>2
<1>. QED BY <1>2, <1>3, <1>4

\* The terms of a conjunction are finitely many; the one at p comes behind those before it.
LEMMA BelowFacts ==
  ASSUME NEW in \in Seq(Token), NEW p \in 1 .. Len(in), NEW d
  PROVE  /\ Cardinality(Below(in, d, p)) \in Nat
         /\ Below(in, d, p + 1) = IF p \in OfConj(in, d) THEN Below(in, d, p) \cup {p} ELSE Below(in, d, p)
         /\ p \in OfConj(in, d) =>
              /\ Cardinality(Below(in, d, p + 1)) = Cardinality(Below(in, d, p)) + 1
              /\ Rank(in, d, p) = Cardinality(Below(in, d, p)) + 1
         /\ \A i \in Below(in, d, p) : Rank(in, d, i) \in 1 .. Cardinality(Below(in, d, p))
<1>0. OfConj(in, d) \subseteq 1 .. Len(in) /\ Len(in) \in Nat
  BY DEF OfConj, Places
<1>1. IsFiniteSet(1 .. Len(in))
  BY <1>0, FS_Interval
<1>2. \A T \in SUBSET OfConj(in, d) : IsFiniteSet(T) /\ Cardinality(T) \in Nat
  <2>1. \A T \in SUBSET OfConj(in, d) : T \in SUBSET (1 .. Len(in))
    BY <1>0
  <2>. QED BY <1>1, <2>1, FS_Subset, FS_CardinalityType
<1>3. Below(in, d, p) \in SUBSET OfConj(in, d)
  BY DEF Below
<1>4. IsFiniteSet(Below(in, d, p)) /\ Cardinality(Below(in, d, p)) \in Nat
  BY <1>2, <1>3
<1>5. Below(in, d, p + 1) = IF p \in OfConj(in, d) THEN Below(in, d, p) \cup {p} ELSE Below(in, d, p)
  BY <1>0 DEF Below
<1>6. ASSUME p \in OfConj(in, d)
      PROVE  /\ Cardinality(Below(in, d, p + 1)) = Cardinality(Below(in, d, p)) + 1
             /\ Rank(in, d, p) = Cardinality(Below(in, d, p)) + 1
  <2>1. p \notin Below(in, d, p)
    BY DEF Below
  <2>2. Cardinality(Below(in, d, p) \cup {p}) = Cardinality(Below(in, d, p)) + 1
    BY <1>4, <2>1, FS_AddElement
  <2>3. {j \in OfConj(in, d) : j <= p} = Below(in, d, p) \cup {p}
    BY <1>0, <1>6 DEF Below
  <2>. QED BY <1>5, <1>6, <2>2, <2>3 DEF Rank
<1>7. ASSUME NEW i \in Below(in, d, p) PROVE Rank(in, d, i) \in 1 .. Cardinality(Below(in, d, p))
  <2>. DEFINE S == {j \in OfConj(in, d) : j <= i}
  <2>1. i \in S /\ S \in SUBSET Below(in, d, p) /\ S \in SUBSET OfConj(in, d)
    BY <1>0 DEF Below
  <2>. HIDE DEF S
  <2>2. Cardinality(S) <= Cardinality(Below(in, d, p)) /\ IsFiniteSet(S) /\ Cardinality(S) \in Nat
    BY <1>2, <1>4, <2>1, FS_Subset
  <2>3. Cardinality(S) # 0
    BY <2>1, <2>2, FS_EmptySet
  <2>4. Rank(in, d, i) = Cardinality(S)
    BY DEF Rank, S
  <2>. QED BY <1>4, <2>2, <2>3, <2>4
<1>. QED BY <1>4, <1>5, <1>6, <1>7

\* A token that is neither a term nor a keyword leaves the tree as it is.
LEMMA TreeSkips ==
  ASSUME NEW in \in Seq(Token), NEW p \in 1 .. Len(in), NEW tree,
         TreeOf(in, tree, p), p \notin Places(in), p \notin Keyword(in)
  PROVE  TreeOf(in, tree, p + 1)
<1>0. p \in 1 .. Len(in) + 1
  OBVIOUS
<1>1. ConjAt(in, p + 1) = ConjAt(in, p)
  BY <1>0, ConjAtFacts
<1>2. \A d : Below(in, d, p + 1) = Below(in, d, p)
  BY BelowFacts DEF OfConj
<1>. QED BY <1>1, <1>2 DEF TreeOf

\* A term is appended to the last conjunction.
LEMMA TreeGrows ==
  ASSUME NEW in \in Seq(Token), NEW p \in Places(in), NEW q \in Seq(Seq(Term)), NEW c \in Seq(Term),
         TreeOf(in, Append(q, c), p), NEW t \in Term, Written(in, p, t)
  PROVE  TreeOf(in, Append(q, Append(c, t)), p + 1)
<1>. DEFINE old == Append(q, c)
            new == Append(q, Append(c, t))
            n == Len(q) + 1
<1>0. p \in 1 .. Len(in) /\ p \in 1 .. Len(in) + 1 /\ p \notin Keyword(in)
  BY DEF Places, IsTerm
<1>1. /\ Len(old) = n /\ Len(new) = n /\ n \in Nat
      /\ old[n] = c /\ new[n] = Append(c, t)
      /\ \A d \in 1 .. n : d # n => new[d] = old[d]
  OBVIOUS
<1>2. ConjAt(in, p + 1) = n /\ ConjAt(in, p) = n
  <2>1. ConjAt(in, p) = n
    BY <1>1 DEF TreeOf
  <2>2. ConjAt(in, p + 1) = ConjAt(in, p) + 0
    BY <1>0, ConjAtFacts
  <2>. HIDE DEF n
  <2>. QED BY <1>1, <2>1, <2>2
<1>. HIDE DEF old, new
<1>3. p \in OfConj(in, n) /\ \A d : d # n => p \notin OfConj(in, d)
  BY <1>2 DEF OfConj
<1>4. ASSUME NEW d \in 1 .. n
      PROVE  /\ Len(new[d]) = Cardinality(Below(in, d, p + 1))
             /\ \A i \in Below(in, d, p + 1) : Written(in, i, new[d][Rank(in, d, i)])
  <2>0. /\ Len(old[d]) = Cardinality(Below(in, d, p))
        /\ \A i \in Below(in, d, p) : Written(in, i, old[d][Rank(in, d, i)])
    BY <1>1 DEF TreeOf, old
  <2>1. CASE d # n
    <3>1. Below(in, d, p + 1) = Below(in, d, p) /\ new[d] = old[d]
      BY <1>0, <1>1, <1>3, <2>1, BelowFacts
    <3>. QED BY <2>0, <3>1
  <2>2. CASE d = n
    <3>. DEFINE B == Below(in, n, p)
    <3>1. /\ Below(in, n, p + 1) = B \cup {p} /\ Cardinality(B) \in Nat
          /\ Cardinality(Below(in, n, p + 1)) = Cardinality(B) + 1
          /\ Rank(in, n, p) = Cardinality(B) + 1
          /\ \A i \in B : Rank(in, n, i) \in 1 .. Cardinality(B)
      BY <1>0, <1>3, BelowFacts
    <3>2. Len(c) = Cardinality(B) /\ \A i \in B : Written(in, i, c[Rank(in, n, i)])
      BY <1>1, <2>0, <2>2
    <3>. HIDE DEF B
    <3>3. /\ Len(Append(c, t)) = Cardinality(B) + 1 /\ Append(c, t)[Cardinality(B) + 1] = t
          /\ \A k \in 1 .. Cardinality(B) : Append(c, t)[k] = c[k]
      BY <3>2
    <3>4. \A i \in B \cup {p} : Written(in, i, Append(c, t)[Rank(in, n, i)])
      BY <3>1, <3>2, <3>3
    <3>. QED BY <1>1, <2>2, <3>1, <3>3, <3>4
  <2>. QED BY <2>1, <2>2
<1>5. Len(new) = ConjAt(in, p + 1)
  BY <1>1, <1>2
<1>. QED BY <1>1, <1>4, <1>5 DEF TreeOf, new

\* A keyword opens a conjunction.
LEMMA TreeDivides ==
  ASSUME NEW in \in Seq(Token), NEW p \in Keyword(in), NEW q \in Seq(Seq(Term)),
         TreeOf(in, q, p)
  PROVE  TreeOf(in, Append(q, <<>>), p + 1)
<1>. DEFINE new == Append(q, <<>>)
            n == Len(q)
<1>0. p \in 1 .. Len(in) /\ p \in 1 .. Len(in) + 1 /\ p \notin Places(in)
  BY KeywordFacts DEF Places, IsTerm
<1>1. Len(new) = n + 1 /\ n \in Nat /\ new[n + 1] = <<>> /\ \A d \in 1 .. n : new[d] = q[d]
  OBVIOUS
<1>2. ConjAt(in, p) = n /\ ConjAt(in, p + 1) = n + 1 /\ \A i \in 1 .. p : ConjAt(in, i) <= n
  BY <1>0, ConjAtFacts DEF TreeOf
<1>3. \A d : Below(in, d, p + 1) = Below(in, d, p)
  BY <1>0, BelowFacts DEF OfConj
<1>4. Below(in, n + 1, p + 1) = {}
  <2>. SUFFICES ASSUME NEW i \in Below(in, n + 1, p) PROVE FALSE
    BY <1>3
  <2>1. i \in 1 .. p /\ ConjAt(in, i) = n + 1
    BY <1>0 DEF Below, OfConj, Places
  <2>. QED BY <1>1, <1>2, <2>1
<1>5. Len(new[n + 1]) = Cardinality(Below(in, n + 1, p + 1))
  BY <1>1, <1>4, FS_EmptySet
<1>. HIDE DEF new
<1>6. ASSUME NEW d \in 1 .. n + 1
      PROVE  /\ Len(new[d]) = Cardinality(Below(in, d, p + 1))
             /\ \A i \in Below(in, d, p + 1) : Written(in, i, new[d][Rank(in, d, i)])
  <2>1. CASE d = n + 1
    BY <1>4, <1>5, <2>1
  <2>2. CASE d # n + 1
    <3>1. d \in 1 .. n
      BY <1>1, <2>2
    <3>. QED BY <1>1, <1>3, <3>1 DEF TreeOf
  <2>. QED BY <2>1, <2>2
<1>. QED BY <1>1, <1>2, <1>6 DEF TreeOf, new

\* The NOTs before the next token: one more behind a NOT, as many behind case:yes, none else.
LEMMA NotsBeforeFacts ==
  ASSUME NEW in \in Seq(Token), NEW p \in 1 .. Len(in)
  PROVE  /\ in[p].kind = "not" => NotsBefore(in, p + 1) = NotsBefore(in, p) + 1
         /\ in[p].kind = "case" => NotsBefore(in, p + 1) = NotsBefore(in, p)
         /\ in[p].kind \notin {"not", "case"} => NotsBefore(in, p + 1) = 0
<1>. DEFINE S(i) == {j \in Prefixed(in, i) : in[j].kind = "not"}
<1>0. Len(in) \in Nat /\ (p + 1) - 1 = p
  OBVIOUS
<1>1. IsFiniteSet(S(p))
  <2>1. S(p) \in SUBSET (1 .. p)
    BY DEF Prefixed
  <2>2. IsFiniteSet(1 .. p)
    BY FS_Interval
  <2>. HIDE DEF S
  <2>. QED BY <2>1, <2>2, FS_Subset
<1>2. ASSUME in[p].kind \in {"not", "case"} PROVE Prefixed(in, p + 1) = Prefixed(in, p) \cup {p}
  <2>1. ASSUME NEW j \in 1 .. p - 1
        PROVE  (\A k \in j .. p : in[k].kind \in {"not", "case"}) <=> \A k \in j .. p - 1 : in[k].kind \in {"not", "case"}
    <3>1. \A k \in j .. p : k = p \/ k \in j .. p - 1
      OBVIOUS
    <3>2. \A k \in j .. p - 1 : k \in j .. p
      OBVIOUS
    <3>. QED BY <1>2, <3>1, <3>2
  <2>2. \A k \in p .. p : k = p
    OBVIOUS
  <2>3. p \in Prefixed(in, p + 1)
    BY <1>0, <1>2, <2>2 DEF Prefixed
  <2>4. \A j \in 1 .. p : j = p \/ j \in 1 .. p - 1
    OBVIOUS
  <2>5. \A j \in 1 .. p - 1 : j \in 1 .. p
    OBVIOUS
  <2>6. ASSUME NEW j \in Prefixed(in, p + 1) PROVE j \in Prefixed(in, p) \cup {p}
    BY <1>0, <2>1, <2>4 DEF Prefixed
  <2>7. ASSUME NEW j \in Prefixed(in, p) PROVE j \in Prefixed(in, p + 1)
    BY <1>0, <2>1, <2>5 DEF Prefixed
  <2>. QED BY <2>3, <2>6, <2>7
<1>3. p \notin S(p)
  BY DEF Prefixed
<1>4. ASSUME in[p].kind = "not" PROVE NotsBefore(in, p + 1) = NotsBefore(in, p) + 1
  <2>1. S(p + 1) = S(p) \cup {p}
    BY <1>2, <1>4
  <2>. HIDE DEF S
  <2>2. Cardinality(S(p) \cup {p}) = Cardinality(S(p)) + 1
    BY <1>1, <1>3, FS_AddElement
  <2>. QED BY <2>1, <2>2 DEF NotsBefore, S
<1>5. ASSUME in[p].kind = "case" PROVE NotsBefore(in, p + 1) = NotsBefore(in, p)
  <2>1. S(p + 1) = S(p)
    BY <1>2, <1>5
  <2>. QED BY <2>1 DEF NotsBefore
<1>6. ASSUME in[p].kind \notin {"not", "case"} PROVE NotsBefore(in, p + 1) = 0
  <2>1. Prefixed(in, p + 1) = {}
    <3>1. \A j \in 1 .. p : p \in j .. p
      OBVIOUS
    <3>. QED BY <1>0, <1>6, <3>1 DEF Prefixed
  <2>2. S(p + 1) = {}
    BY <2>1
  <2>. HIDE DEF S
  <2>. QED BY <2>2, FS_EmptySet DEF NotsBefore, S
<1>. QED BY <1>4, <1>5, <1>6

\* A case:yes is in force behind it until a literal, a phrase or a regular expression.
LEMMA FlaggedFacts ==
  ASSUME NEW in \in Seq(Token), NEW p \in 1 .. Len(in)
  PROVE  Flagged(in, p + 1) <=> ~ContentAt(in, p) /\ (in[p].kind = "case" \/ Flagged(in, p))
<1>0. Len(in) \in Nat /\ (p + 1) - 1 = p
  OBVIOUS
<1>1. ASSUME NEW j \in 1 .. p, in[j].kind = "case", \A k \in j .. p : ~ContentAt(in, k)
      PROVE  ~ContentAt(in, p) /\ (in[p].kind = "case" \/ Flagged(in, p))
  <2>1. p \in j .. p /\ \A k \in j .. p - 1 : k \in j .. p
    OBVIOUS
  <2>2. j = p \/ j \in 1 .. p - 1
    OBVIOUS
  <2>. QED BY <1>1, <2>1, <2>2 DEF Flagged
<1>2. ASSUME ~ContentAt(in, p), in[p].kind = "case" PROVE Flagged(in, p + 1)
  <2>1. p \in 1 .. p /\ \A k \in p .. p : k = p
    OBVIOUS
  <2>. QED BY <1>0, <1>2, <2>1 DEF Flagged
<1>3. ASSUME ~ContentAt(in, p), Flagged(in, p) PROVE Flagged(in, p + 1)
  <2>1. PICK j \in 1 .. p - 1 : in[j].kind = "case" /\ \A k \in j .. p - 1 : ~ContentAt(in, k)
    BY <1>3 DEF Flagged
  <2>2. j \in 1 .. p /\ \A k \in j .. p : k = p \/ k \in j .. p - 1
    OBVIOUS
  <2>. QED BY <1>0, <1>3, <2>1, <2>2 DEF Flagged
<1>4. ASSUME Flagged(in, p + 1) PROVE ~ContentAt(in, p) /\ (in[p].kind = "case" \/ Flagged(in, p))
  BY <1>0, <1>1, <1>4 DEF Flagged
<1>. QED BY <1>2, <1>3, <1>4

\* What parse_primary makes of a term is what was written.
LEMMA PrimaryWritten ==
  ASSUME NEW in \in Seq(Token), NEW p \in 1 .. Len(in), in[p].kind \in Primary \cup {"or"},
         nots = NotsBefore(in, p), cs \in BOOLEAN, cs <=> Flagged(in, p)
  PROVE  Written(in, p, ParsePrimary(in[p]))
<1>. DEFINE tok == in[p]
            t == ParsePrimary(tok)
<1>0. Flagged(in, p) \in BOOLEAN
  BY DEF Flagged
<1>1. CASE tok.kind = "regex"
  <2>1. t = [nots |-> nots, kind |-> "regex", v |-> tok.v, cs |-> TRUE]
    BY <1>1 DEF ParsePrimary, ParseRegex
  <2>. HIDE DEF t
  <2>. QED BY <1>1, <2>1 DEF Written, Literals, t
<1>2. CASE tok.kind = "phrase"
  <2>1. t = [nots |-> nots, kind |-> "phrase", v |-> tok.v, cs |-> cs]
    BY <1>2 DEF ParsePrimary, ParsePhrase
  <2>. HIDE DEF t
  <2>. QED BY <1>2, <2>1 DEF Written, Literals, t
<1>3. CASE tok.kind = "path"
  <2>1. t = [nots |-> nots, kind |-> "path", v |-> tok.v, cs |-> FALSE]
    BY <1>3 DEF ParsePrimary, ParsePathFilter
  <2>. HIDE DEF t
  <2>. QED BY <1>3, <2>1 DEF Written, Literals, t
<1>4. CASE tok.kind = "lang"
  <2>1. t = [nots |-> nots, kind |-> "lang", v |-> Lang!MatchLanguage(tok.v), cs |-> FALSE]
    BY <1>4 DEF ParsePrimary, ParseLanguageFilter
  <2>. HIDE DEF t
  <2>. QED BY <1>4, <2>1 DEF Written, Literals, t
<1>5. CASE tok.kind = "or"
  <2>1. t = [nots |-> nots, kind |-> "literal", v |-> OrText, cs |-> cs]
    BY <1>5 DEF ParsePrimary, ParseLiteral
  <2>. HIDE DEF t
  <2>. QED BY <1>5, <2>1 DEF Written, Literals, t
<1>6. CASE tok.kind = "literal"
  <2>1. t = [nots |-> nots, kind |-> "literal", v |-> tok.v, cs |-> cs]
    BY <1>6 DEF ParsePrimary, ParseLiteral
  <2>. HIDE DEF t
  <2>. QED BY <1>6, <2>1 DEF Written, Literals, t
<1>. QED BY <1>1, <1>2, <1>3, <1>4, <1>5, <1>6 DEF Primary, Literals, Filters

\* The tokens not, case and flags are no terms.
LEMMA NotTerms == "not" \notin Primary \cup {"or"} /\ "case" \notin Primary \cup {"or"}
BY DEF Primary, Literals, Filters

\* The parser meets a keyword exactly where the input has one.
LEMMA KeywordMet ==
  ASSUME TypeInv, pos \in 1 .. Len(input), AtKeyword <=> pos > 1 /\ IsTerm(input, pos - 1)
  PROVE  pos \in Keyword(input) <=> input[pos].kind = "or" /\ AtKeyword
BY KeywordFacts DEF TypeInv, IsTerm

\* Each step of the parser reads a token into the tree as it is written.
LEMMA ParseNext == ASSUME TypeInv, ParseInv, [Next]_vars PROVE ParseInv'
<1>. USE DEF parseVars, extractVars, verifyVars
<1>0. input' = input /\ input \in Seq(Token) /\ Len(input) \in Nat
  <2>1. input' = input
    BY DEF Next, vars, ParseNot, ParseCase, ParseTerm, ParseBad, ParseOr, ParseEnd, ParseFlags,
           ExtractTerm, ExtractBranch, Lookup, VerifyCandidate, Answer
  <2>. QED BY <2>1 DEF TypeInv
<1>. SUFFICES ASSUME \A i \in 1 .. Len(input) : input[i].kind # "flags"
              PROVE  /\ phase' = "parse" =>
                          /\ pos' \in 1 .. Len(input) + 1
                          /\ AtKeyword' <=> pos' > 1 /\ IsTerm(input, pos' - 1)
                          /\ nots' = NotsBefore(input, pos')
                          /\ cs' <=> Flagged(input, pos')
                          /\ TreeOf(input, Append(query', conj'), pos')
                     /\ phase' \notin {"parse", "error"} => TreeOf(input, query', Len(input) + 1)
  BY <1>0 DEF ParseInv
<1>. DEFINE Goal == /\ phase' = "parse" =>
                          /\ pos' \in 1 .. Len(input) + 1
                          /\ AtKeyword' <=> pos' > 1 /\ IsTerm(input, pos' - 1)
                          /\ nots' = NotsBefore(input, pos')
                          /\ cs' <=> Flagged(input, pos')
                          /\ TreeOf(input, Append(query', conj'), pos')
                    /\ phase' \notin {"parse", "error"} => TreeOf(input, query', Len(input) + 1)
<1>1. ASSUME phase = "parse"
      PROVE  /\ pos \in 1 .. Len(input) + 1
             /\ AtKeyword <=> pos > 1 /\ IsTerm(input, pos - 1)
             /\ nots = NotsBefore(input, pos)
             /\ cs <=> Flagged(input, pos)
             /\ TreeOf(input, Append(query, conj), pos)
             /\ (pos + 1) - 1 = pos /\ pos + 1 > 1 /\ (pos <= Len(input) => pos \in 1 .. Len(input) /\ pos + 1 \in 1 .. Len(input) + 1)
  <2>1. pos \in 1 .. Len(input) + 1
    BY <1>1 DEF ParseInv
  <2>. QED BY <1>0, <1>1, <2>1 DEF ParseInv
<1>. HIDE DEF Goal
<1>2. CASE ParseNot
  <2>1. /\ phase = "parse" /\ pos <= Len(input) /\ input[pos].kind = "not" /\ phase' \in {"parse", "error"}
        /\ pos' = pos + 1 /\ nots' = nots + 1 /\ nest' = nest + 1 /\ cs' = cs /\ conj' = conj /\ query' = query
    BY <1>2 DEF ParseNot, Parsing, Deeper
  <2>2. pos \in 1 .. Len(input) /\ pos \notin Places(input) /\ pos \notin Keyword(input) /\ ~ContentAt(input, pos)
    BY <1>0, <1>1, <2>1, NotTerms, KeywordFacts DEF Places, IsTerm, ContentAt
  <2>3. ~AtKeyword' /\ ~IsTerm(input, pos)
    BY <2>1, NotTerms DEF AtKeyword, IsTerm, TypeInv
  <2>4. TreeOf(input, Append(query, conj), pos + 1)
    BY <1>0, <1>1, <2>1, <2>2, TreeSkips
  <2>5. nots' = NotsBefore(input, pos + 1)
    BY <1>0, <1>1, <2>1, <2>2, NotsBeforeFacts
  <2>6. cs' <=> Flagged(input, pos + 1)
    BY <1>0, <1>1, <2>1, <2>2, FlaggedFacts
  <2>. QED BY <1>1, <2>1, <2>3, <2>4, <2>5, <2>6 DEF Goal
<1>3. CASE ParseCase
  <2>1. /\ phase = "parse" /\ pos <= Len(input) /\ input[pos].kind = "case" /\ phase' \in {"parse", "error"}
        /\ pos' = pos + 1 /\ nots' = nots /\ nest' = nest + 1 /\ cs' = TRUE /\ conj' = conj /\ query' = query
    BY <1>3 DEF ParseCase, Parsing, Deeper
  <2>2. pos \in 1 .. Len(input) /\ pos \notin Places(input) /\ pos \notin Keyword(input) /\ ~ContentAt(input, pos)
    BY <1>0, <1>1, <2>1, NotTerms, KeywordFacts DEF Places, IsTerm, ContentAt
  <2>3. ~AtKeyword' /\ ~IsTerm(input, pos)
    BY <2>1, NotTerms DEF AtKeyword, IsTerm, TypeInv
  <2>4. TreeOf(input, Append(query, conj), pos + 1)
    BY <1>0, <1>1, <2>1, <2>2, TreeSkips
  <2>5. nots' = NotsBefore(input, pos + 1)
    BY <1>0, <1>1, <2>1, <2>2, NotsBeforeFacts
  <2>6. cs' <=> Flagged(input, pos + 1)
    BY <1>0, <2>1, <2>2, FlaggedFacts
  <2>. QED BY <1>1, <2>1, <2>3, <2>4, <2>5, <2>6 DEF Goal
<1>4. CASE ParseTerm
  <2>1. /\ phase = "parse" /\ pos <= Len(input) /\ input[pos].kind \in Primary \cup {"or"} /\ phase' = "parse"
        /\ input[pos].kind = "or" => ~AtKeyword
        /\ pos' = pos + 1 /\ nots' = 0 /\ nest' = 0 /\ query' = query
        /\ cs' = CaseFlagAfter(input[pos].kind) /\ conj' = Append(conj, ParsePrimary(input[pos]))
    BY <1>4 DEF ParseTerm, Parsing
  <2>2. pos \in 1 .. Len(input) /\ input[pos] \in Token
    BY <1>0, <1>1, <2>1
  <2>3. pos \notin Keyword(input)
    BY <1>1, <2>1, <2>2, KeywordMet
  <2>4. pos \in Places(input) /\ IsTerm(input, pos) /\ input[pos].kind \notin {"not", "case"}
    BY <2>1, <2>2, <2>3, NotTerms DEF Places, IsTerm
  <2>5. ParsePrimary(input[pos]) \in Term
    BY <2>1, <2>2, PrimaryIsTerm DEF TypeInv
  <2>6. Written(input, pos, ParsePrimary(input[pos]))
    BY <1>0, <1>1, <2>1, <2>2, PrimaryWritten DEF TypeInv
  <2>7. TreeOf(input, Append(query', conj'), pos + 1)
    BY <1>0, <1>1, <2>1, <2>4, <2>5, <2>6, TreeGrows DEF TypeInv
  <2>8. nots' = NotsBefore(input, pos + 1)
    BY <1>0, <2>1, <2>2, <2>4, NotsBeforeFacts
  <2>9. cs' <=> Flagged(input, pos + 1)
    <3>1. Flagged(input, pos + 1) <=> input[pos].kind \in Filters /\ Flagged(input, pos)
      BY <1>0, <2>2, <2>4, FlaggedFacts DEF ContentAt
    <3>. QED BY <1>1, <2>1, <3>1 DEF CaseFlagAfter
  <2>10. AtKeyword'
    <3>1. Len(conj') = Len(conj) + 1 /\ Len(conj) \in Nat
      BY <2>1, <2>5 DEF TypeInv
    <3>2. conj' # <<>>
      BY <3>1
    <3>. QED BY <2>1, <3>2 DEF AtKeyword
  <2>. QED BY <1>1, <2>1, <2>4, <2>7, <2>8, <2>9, <2>10 DEF Goal
<1>5. CASE ParseBad
  BY <1>5 DEF ParseBad, Goal
<1>6. CASE ParseOr
  <2>1. /\ phase = "parse" /\ pos <= Len(input) /\ input[pos].kind = "or" /\ AtKeyword /\ phase' = "parse"
        /\ pos' = pos + 1 /\ nots' = nots /\ nest' = nest /\ cs' = cs
        /\ query' = Append(query, conj) /\ conj' = <<>>
    BY <1>6 DEF ParseOr, Parsing
  <2>2. pos \in 1 .. Len(input) /\ query' \in Seq(Seq(Term))
    BY <1>1, <2>1 DEF TypeInv
  <2>3. pos \in Keyword(input)
    BY <1>1, <2>1, <2>2, KeywordMet
  <2>4. ~IsTerm(input, pos) /\ ~ContentAt(input, pos) /\ ~AtKeyword'
    BY <2>1, <2>3 DEF IsTerm, ContentAt, Places, AtKeyword
  <2>5. TreeOf(input, Append(query', conj'), pos + 1)
    BY <1>0, <1>1, <2>1, <2>2, <2>3, TreeDivides
  <2>6. cs' <=> Flagged(input, pos + 1)
    BY <1>0, <1>1, <2>1, <2>2, <2>4, FlaggedFacts
  <2>7. nots' = NotsBefore(input, pos + 1)
    <3>1. pos - 1 \in 1 .. Len(input) /\ input[pos - 1].kind \notin {"not", "case"} /\ (pos - 1) + 1 = pos
      BY <1>0, <1>1, <2>1, <2>2, NotTerms DEF IsTerm
    <3>2. NotsBefore(input, (pos - 1) + 1) = 0
      BY <1>0, <3>1, NotsBeforeFacts
    <3>3. NotsBefore(input, pos + 1) = 0
      BY <1>0, <2>1, <2>2, NotsBeforeFacts
    <3>4. nots = 0
      BY <1>1, <2>1, <3>1, <3>2
    <3>. QED BY <2>1, <3>3, <3>4
  <2>. QED BY <1>1, <2>1, <2>4, <2>5, <2>6, <2>7 DEF Goal
<1>7. CASE ParseEnd
  <2>1. CASE AtKeyword
    <3>1. phase = "parse" /\ pos > Len(input) /\ phase' = "extract" /\ query' = Append(query, conj)
      BY <1>7, <2>1 DEF ParseEnd
    <3>2. pos = Len(input) + 1
      BY <1>0, <1>1, <3>1
    <3>. QED BY <1>1, <3>1, <3>2 DEF Goal
  <2>2. CASE ~AtKeyword
    BY <1>7, <2>2 DEF ParseEnd, Goal
  <2>. QED BY <2>1, <2>2
<1>8. CASE ParseFlags
  BY <1>1, <1>8 DEF ParseFlags, Parsing
<1>9. CASE phase \notin {"parse", "error"} /\ phase' \notin {"parse", "error"} /\ query' = query
  BY <1>9 DEF ParseInv, Goal
<1>10. CASE UNCHANGED vars
  BY <1>10 DEF ParseInv, Goal, vars, AtKeyword
<1>11. ASSUME ExtractTerm \/ ExtractBranch \/ Lookup \/ (\E f \in FileId : VerifyCandidate(f)) \/ Answer
       PROVE  phase \notin {"parse", "error"} /\ phase' \notin {"parse", "error"} /\ query' = query
  <2>1. CASE ExtractTerm
    BY <2>1 DEF ExtractTerm
  <2>2. CASE ExtractBranch
    BY <2>2 DEF ExtractBranch
  <2>3. CASE Lookup
    BY <2>3 DEF Lookup
  <2>4. CASE \E f \in FileId : VerifyCandidate(f)
    BY <2>4 DEF VerifyCandidate
  <2>5. CASE Answer
    BY <2>5 DEF Answer
  <2>. QED BY <1>11, <2>1, <2>2, <2>3, <2>4, <2>5
<1>. QED BY <1>2, <1>3, <1>4, <1>5, <1>6, <1>7, <1>8, <1>9, <1>10, <1>11 DEF Goal, Next

\* Before the first token the tree is one empty conjunction.
LEMMA ParseStart == ASSUME Init PROVE ParseInv
<1>0. TypeInv
  BY TypeInit
<1>1. /\ phase = "parse" /\ pos = 1 /\ cs = FALSE /\ nots = 0 /\ conj = <<>> /\ query = <<>>
      /\ input \in Seq(Token) /\ Len(input) \in Nat
  BY <1>0 DEF Init, TypeInv
<1>2. pos \in 1 .. Len(input) + 1
  BY <1>1
<1>3. ~AtKeyword /\ ~(pos > 1)
  BY <1>1 DEF AtKeyword
<1>4. NotsBefore(input, 1) = 0
  <2>1. {j \in Prefixed(input, 1) : input[j].kind = "not"} = {}
    BY DEF Prefixed
  <2>. QED BY <2>1, FS_EmptySet DEF NotsBefore
<1>5. ~Flagged(input, 1)
  BY DEF Flagged
<1>6. TreeOf(input, <<<<>>>>, 1)
  <2>1. {k \in Divisions(input) : k < 1} = {0}
    BY <1>1, KeywordFacts DEF Divisions
  <2>2. ConjAt(input, 1) = 1
    BY <2>1, FS_Singleton DEF ConjAt
  <2>3. Below(input, 1, 1) = {}
    BY DEF Below, OfConj, Places
  <2>4. Cardinality(Below(input, 1, 1)) = 0
    BY <2>3, FS_EmptySet
  <2>5. Len(<<<<>>>>) = 1 /\ \A d \in 1 .. 1 : d = 1 /\ <<<<>>>>[d] = <<>> /\ Len(<<>>) = 0
    OBVIOUS
  <2>. QED BY <2>2, <2>3, <2>4, <2>5 DEF TreeOf
<1>7. Append(query, conj) = <<<<>>>>
  BY <1>1
<1>. QED BY <1>1, <1>2, <1>3, <1>4, <1>5, <1>6, <1>7 DEF ParseInv

\* For every input of tokens: the tree has the terms of the input in their order, divided at its OR
\* keywords, each under the NOTs before it and case-sensitive exactly when a case:yes stands
\* between it and the literal or regex before it.
THEOREM ParsedAsWrittenHolds == Spec => []ParsedAsWritten
<1>1. ASSUME TypeInv, ParseInv PROVE ParsedAsWritten
  <2>. SUFFICES ASSUME phase \notin {"parse", "error"}, \A i \in 1 .. Len(input) : input[i].kind # "flags"
                PROVE  /\ Len(query) = Cardinality(Divisions(input))
                       /\ \A d \in 1 .. Len(query) : Len(query[d]) = Cardinality(OfConj(input, d))
                       /\ \A d \in 1 .. Len(query) : \A i \in OfConj(input, d) :
                            Written(input, i, query[d][Rank(input, d, i)])
    BY DEF ParsedAsWritten, Divisions, OfConj, Places, IsTerm, ConjAt, Rank, Written, NotsBefore,
           Prefixed, Flagged, ContentAt
  <2>1. TreeOf(input, query, Len(input) + 1)
    BY <1>1 DEF ParseInv
  <2>2. input \in Seq(Token) /\ Len(input) \in Nat
    BY <1>1 DEF TypeInv
  <2>3. {k \in Divisions(input) : k < Len(input) + 1} = Divisions(input)
    BY <2>2, KeywordFacts DEF Divisions
  <2>4. ConjAt(input, Len(input) + 1) = Cardinality(Divisions(input))
    BY <2>3 DEF ConjAt
  <2>5. \A d : Below(input, d, Len(input) + 1) = OfConj(input, d)
    BY <2>2 DEF Below, OfConj, Places
  <2>. QED BY <2>1, <2>4, <2>5 DEF TreeOf
<1>2. ASSUME TypeInv, ParseInv, [Next]_vars PROVE (TypeInv /\ ParseInv)'
  BY <1>2, TypeNext, ParseNext
<1>3. ASSUME Init PROVE TypeInv /\ ParseInv
  BY <1>3, TypeInit, ParseStart
<1>. QED BY <1>1, <1>2, <1>3, PTL DEF Spec
=============================================================================
