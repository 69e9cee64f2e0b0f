---------------------------- MODULE SymbolIndex -----------------------------
(***************************************************************************)
(* Symbols: what is taken from the syntax tree of a file                   *)
(* (symbol_extractor.rs, tree_sitter_process.rs), how it is kept           *)
(* (symbols.bin and sym_trigrams.bin, symbol_index.rs) and the search over *)
(* the segments of a snapshot.  The parser and its query engine are        *)
(* external: Tree gives, for a content and a language, the matches of the  *)
(* symbol query and the spans of the highlight query.                      *)
(***************************************************************************)
EXTENDS PostingLists, Languages

CONSTANTS
  Tree(_, _),   \* what tree-sitter finds: [parsed, spans, matches] before the query
  MaxColumn     \* u16::MAX

ASSUME SymbolAssumption == MaxColumn \in Nat

\* The codes of token kinds that are named here.
Plain == 0

-----------------------------------------------------------------------------
(* symbol_extractor.rs.  A capture is [name, text, utf8, row, column].     *)

\* The last capture of a match that satisfies a condition, if any.
LastCapture(captures, test(_)) == SelectLastInSeq(captures, test)

\* extract_symbols_from_tree: a match counts when it has a readable name and a known kind.
ExtractSymbols(matches) ==
  LET nameOf(m) == LastCapture(m, LAMBDA c : c.name = "name" /\ c.utf8)
      kindOf(m) == LastCapture(m, LAMBDA c : c.name # "name" /\ KindFromCapture(c.name) # 0)
      whole     == SelectSeq(matches, LAMBDA m : nameOf(m) # 0 /\ kindOf(m) # 0)
  IN  Map(whole, LAMBDA m :
        [name |-> m[nameOf(m)].text, kind |-> KindFromCapture(m[kindOf(m)].name),
         line |-> m[nameOf(m)].row, column |-> m[nameOf(m)].column % (MaxColumn + 1)])

\* The definitions of a tree that a language's symbol query matches.
Matches(tree, language) ==
  SelectSeq(tree.matches, LAMBDA m : \A c \in ToSet(m) : c.name \in {"name"} \cup Captured(language))

\* process_file: the symbols of a file and its spans, which are missing where there is no grammar or no tree.
ProcessFile(content, language) ==
  IF language \notin DOMAIN LanguageConfig THEN [highlighted |-> FALSE, spans |-> <<>>, symbols |-> <<>>]
  ELSE IF content = <<>> THEN [highlighted |-> TRUE, spans |-> <<>>, symbols |-> <<>>]
  ELSE LET tree == Tree(content, language) IN
       IF ~tree.parsed THEN [highlighted |-> FALSE, spans |-> <<>>, symbols |-> <<>>]
       ELSE [highlighted |-> TRUE, spans |-> tree.spans,
             symbols |-> ExtractSymbols(Matches(tree, language))]

-----------------------------------------------------------------------------
(* SymbolIndexWriter and SymbolIndexReader.                                *)

\* The records of a segment: the symbols of its files, in their order.
SymbolRecords(perFile) ==
  FlattenSeq([i \in 1..Len(perFile) |->
    Map(perFile[i], LAMBDA s : [file |-> i - 1, name |-> s.name, kind |-> s.kind,
                                line |-> s.line, column |-> s.column])])

\* SymbolIndexWriter::write: names in a pool, trigrams of the names beside it.
WriteSymbols(records) ==
  LET names == Map(records, LAMBDA r : r.name) IN
  [count |-> Len(records),
   entries |-> [k \in 1..Len(records) |->
     [file |-> records[k].file, nameOffset |-> OffsetOf(names, k),
      nameLen |-> Len(records[k].name), line |-> records[k].line,
      column |-> records[k].column, kind |-> ToU8(records[k].kind)]],
   pool |-> FlattenSeq(names), index |-> WriteIndex(Postings(names, FALSE))]

\* SymbolIndexReader::open: as many entries as the header says, and the trigrams beside them.
OpenSymbols(file) == Len(file.entries) >= file.count /\ OpenIndex(file.index).ok

\* get.
GetSymbol(file, id) ==
  LET e == file.entries[id + 1] IN
  IF e.nameOffset + e.nameLen > Len(file.pool) \/ FromU8(e.kind) = 0 THEN Err
  ELSE Ok([id |-> id, file |-> e.file, kind |-> FromU8(e.kind), line |-> e.line, column |-> e.column,
           name |-> Slice(file.pool, e.nameOffset, e.nameOffset + e.nameLen)])

Folded(text) == Map(text, Fold)

ContainsFolded(text, part) ==
  \E k \in 0..(Len(text) - Len(part)) : Folded(SubSeq(text, k + 1, k + Len(part))) = Folded(part)

StartsFolded(text, part) ==
  Len(part) <= Len(text) /\ Folded(SubSeq(text, 1, Len(part))) = Folded(part)

\* The candidates without the query's own check, as if the trigrams decided.
SearchByTrigrams(file, query, kind) ==
  LET index == OpenIndex(file.index).v
      ids   == IF Len(query) < 3 THEN [k \in 1..file.count |-> k - 1]
               ELSE FindCandidates(index, query)
  IN  SelectSeq(Map(ids, LAMBDA i : GetSymbol(file, i).v),
                LAMBDA h : kind \in {0, h.kind})

\* search_filtered; kind 0 asks for any.
SearchFiltered(file, query, kind) ==
  LET index == OpenIndex(file.index).v
      ids   == IF Len(query) < 3 THEN [k \in 1..file.count |-> k - 1]
               ELSE FindCandidates(index, query)
  IN  SelectSeq(Map(ids, LAMBDA i : GetSymbol(file, i).v),
                LAMBDA h : ContainsFolded(h.name, query) /\ kind \in {0, h.kind})

-----------------------------------------------------------------------------
(* search_symbols.  A hit carries its path, language and segment.          *)

\* 1.0, 0.8 and 0.5 in tenths.
SymbolScore(name, query) ==
  IF Folded(name) = Folded(query) THEN 10 ELSE IF StartsFolded(name, query) THEN 8 ELSE 5

\* str::cmp.
TextBefore(a, b) ==
  \/ IsStrictPrefix(a, b)
  \/ \E k \in 1..Len(a) : k <= Len(b) /\ SubSeq(a, 1, k - 1) = SubSeq(b, 1, k - 1) /\ a[k] < b[k]

\* Of the hits of one path, name and line the first stays: the newest segment's.
FirstOfEach(hits) ==
  LET key(i) == <<hits[i].path, hits[i].name, hits[i].line>>
      kept   == {i \in 1..Len(hits) : \A j \in 1..(i - 1) : key(j) # key(i)}
  IN  Map(SortedBy(kept, <), LAMBDA i : hits[i])

\* Best score first, then by name; equal ones stay in their order.
RankSymbols(hits) ==
  LET before(i, j) ==
        \/ hits[i].score > hits[j].score
        \/ hits[i].score = hits[j].score /\ TextBefore(hits[i].name, hits[j].name)
        \/ hits[i].score = hits[j].score /\ hits[i].name = hits[j].name /\ i < j
  IN  Map(SortedBy(1..Len(hits), before), LAMBDA i : hits[i])

\* A page, with the caller's limit capped (daemon.rs).
PageOf(hits, offset, max) ==
  LET start == IF offset < Len(hits) THEN offset ELSE Len(hits)
      end   == IF start + max < Len(hits) THEN start + max ELSE Len(hits)
  IN  Slice(hits, start, end)
=============================================================================
