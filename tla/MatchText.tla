----------------------------- MODULE MatchText -----------------------------
(***************************************************************************)
(* Text as the index and the verifier see it (trigram.rs, verify.rs and    *)
(* the context code of query_match.rs): folded trigrams, occurrences of a  *)
(* pattern, the mapping from byte offsets to lines, and the grouping of    *)
(* matching lines into blocks with context.  Offsets count from 0 and      *)
(* lines from 1, as in the code.                                           *)
(***************************************************************************)
EXTENDS Integers, Sequences, FiniteSets

CONSTANTS
  Byte,       \* the symbols content is made of
  Fold,       \* ascii_fold_byte
  CaseFold,   \* what the regex engine's (?i) takes for equal
  Newline,
  Bad,        \* a byte that is not UTF-8
  Lossy(_),   \* String::from_utf8_lossy
  Contents    \* the contents a file can have

ASSUME TextAssumption ==
  /\ Fold \in [Byte -> Byte] /\ CaseFold \in [Byte -> Byte]
  /\ \A b, c \in Byte : Fold[b] = Fold[c] => CaseFold[b] = CaseFold[c]
  /\ Newline \in Byte
  /\ Contents \subseteq Seq(Byte)
  /\ \A s \in Contents : (\A i \in 1..Len(s) : s[i] # Bad) => Lossy(s) = s

Text == Seq(Byte)

Valid(content) == \A i \in 1..Len(content) : content[i] # Bad

\* Inputs are ASCII: the two notions of case agree.
Ascii == \A b, c \in Byte : CaseFold[b] = CaseFold[c] => Fold[b] = Fold[c]

-----------------------------------------------------------------------------
(* Trigrams.                                                               *)

Trigram == Byte \X Byte \X Byte

\* extract_unique_trigrams_folded: one per window of three.
Trigrams(s) == {<<Fold[s[i]], Fold[s[i + 1]], Fold[s[i + 2]]>> : i \in 1..(Len(s) - 2)}

\* The offsets at which pattern p occurs in s, byte by byte.
Occurrences(p, s) == {k \in 0..(Len(s) - Len(p)) : \A i \in 1..Len(p) : s[k + i] = p[i]}

\* The same for a pattern compiled with (?i).
FoldedOccurrences(p, s) ==
  {k \in 0..(Len(s) - Len(p)) : \A i \in 1..Len(p) : CaseFold[s[k + i]] = CaseFold[p[i]]}

-----------------------------------------------------------------------------
(* verify.rs.  The line index is built from the content, the pattern is    *)
(* searched in its UTF-8 form, in which an invalid byte takes more room.   *)

Newlines(content) == {i \in 0..(Len(content) - 1) : content[i + 1] = Newline}

\* LineIndex::line_count: a trailing newline adds no line.
LineCount(content) ==
  IF Len(content) = 0 THEN 0
  ELSE Cardinality(Newlines(content)) + (IF content[Len(content)] = Newline THEN 0 ELSE 1)

\* LineIndex::line_at_byte.
LineAtByte(content, offset) == Cardinality({i \in Newlines(content) : i < offset}) + 1

\* A line that starts with the newline before it.
LineStartAtNewline(content, line) ==
  IF line = 1 THEN 0
  ELSE CHOOSE i \in Newlines(content) : LineAtByte(content, i) = line - 1

\* line_start_offset.
LineStart(content, line) ==
  IF line = 1 THEN 0
  ELSE (CHOOSE i \in Newlines(content) : LineAtByte(content, i) = line - 1) + 1

\* find_iter: matches from the left, none overlapping another.
Leftmost(starts, step, end) ==
  LET from[k \in 0..(end + 1)] ==
        LET later == {m \in starts : m >= k}
            first == CHOOSE m \in later : \A n \in later : m <= n
            next  == first + (IF step = 0 THEN 1 ELSE step)
        IN  IF later = {} THEN {}
            ELSE {first} \cup (IF next <= end + 1 THEN from[next] ELSE {})
  IN  from[0]

\* Where a literal starts in the text: overlapping occurrences of a case-sensitive one are all found, and an empty one is not.
LiteralStarts(content, p, caseSensitive) ==
  IF Len(content) = 0 \/ (caseSensitive /\ Len(p) = 0) THEN {}
  ELSE IF caseSensitive THEN Occurrences(p, Lossy(content))
  ELSE FoldedOccurrences(p, Lossy(content))

\* ContentVerifier::verify for a literal: the ranges, each with its line.
VerifyLiteral(content, p, caseSensitive) ==
  LET starts == LiteralStarts(content, p, caseSensitive)
      found  == IF caseSensitive THEN starts ELSE Leftmost(starts, Len(p), Len(Lossy(content)))
  IN  {LET line == LineAtByte(content, k) IN
       [line |-> line, start |-> k - LineStart(content, line),
        end |-> k - LineStart(content, line) + Len(p)] : k \in found}

-----------------------------------------------------------------------------
(* verify_with_context and attach_context: matching lines whose contexts   *)
(* would overlap form a group; the first line of a group carries the       *)
(* context before it, the last one the context behind it.                  *)

\* Grouping that joins two matches only where one's context reaches the other.
GroupsNarrow(lines, c) ==
  LET joined(a, b) == \A l \in lines : a <= l /\ l < b =>
        \E m \in lines : l < m /\ m <= l + c + 1 /\ m <= b
  IN  {{b \in lines : (a <= b /\ joined(a, b)) \/ (b <= a /\ joined(b, a))} : a \in lines}

Groups(lines, c) ==
  LET joined(a, b) == \A l \in lines : a <= l /\ l < b =>
        \E m \in lines : l < m /\ m <= l + 2 * c + 1 /\ m <= b
  IN  {{b \in lines : (a <= b /\ joined(a, b)) \/ (b <= a /\ joined(b, a))} : a \in lines}

First(g) == CHOOSE l \in g : \A m \in g : l <= m
Last(g)  == CHOOSE l \in g : \A m \in g : m <= l

Before(g, c) == (IF First(g) > c THEN First(g) - c ELSE 1)..(First(g) - 1)

After(g, c, total) == (Last(g) + 1)..(IF Last(g) + c < total THEN Last(g) + c ELSE total)
=============================================================================
