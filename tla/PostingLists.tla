---------------------------- MODULE PostingLists ----------------------------
(***************************************************************************)
(* The inverted index of a segment as it is kept in trigrams.bin:          *)
(* posting.rs collects the lists, codec.rs packs them, index_writer.rs     *)
(* lays the file out, index_reader.rs finds a list in it again and         *)
(* intersection.rs combines lists.  The same file, with symbol numbers for *)
(* file ids, is the index of symbol names (sym_trigrams.bin).              *)
(* A file is its table and the bytes behind it; a byte of a varint is a    *)
(* number below 2 * Base whose upper half says that more bytes follow.     *)
(***************************************************************************)
EXTENDS Integers, SequencesExt

CONSTANTS
  Bytes,      \* the number of byte values (256)
  Fold(_),    \* ascii_fold_byte
  Base,       \* what one byte of a varint holds (128)
  MaxU32

ASSUME PostingAssumption == Bytes \in Nat \ {0} /\ Base \in Nat \ {0, 1} /\ MaxU32 \in Nat

\* The elements of a set in a strict total order.
SortedBy(S, before(_, _)) ==
  [k \in 1..Cardinality(S) |-> CHOOSE x \in S : Cardinality({y \in S : before(y, x)}) = k - 1]

\* What an operation that may fail returns.
Ok(v) == [ok |-> TRUE, v |-> v]
Err   == [ok |-> FALSE, v |-> <<>>]

-----------------------------------------------------------------------------
(* posting.rs.                                                             *)

\* extract_trigrams_folded, each as the number to_u32 orders it by.
Windows(content) ==
  [i \in 1..(IF Len(content) < 3 THEN 0 ELSE Len(content) - 2) |->
     (Fold(content[i]) * Bytes + Fold(content[i + 1])) * Bytes + Fold(content[i + 2])]

\* add_file for the files in turn, their ids counting from 0: one push per window.
AddFiles(contents) ==
  FlattenSeq([i \in 1..Len(contents) |->
    [o \in 1..Len(Windows(contents[i])) |->
       [file |-> i - 1, offset |-> o - 1, trigram |-> Windows(contents[i])[o]]]])

\* Vec::dedup: of equal neighbours one stays.
Dedup(s) == FoldLeft(LAMBDA kept, x :
              IF kept # <<>> /\ Last(kept) = x THEN kept ELSE Append(kept, x), <<>>, s)

Map(s, f(_)) == [i \in 1..Len(s) |-> f(s[i])]

\* The lists after finalize.  Ids were pushed in order, so that they need no sorting; the segment builder stores no positions.
Postings(contents, storePositions) ==
  LET pushed == AddFiles(contents)
      of(t)  == SelectSeq(pushed, LAMBDA p : p.trigram = t)
  IN  [t \in {p.trigram : p \in ToSet(pushed)} |->
         [files |-> Dedup(Map(of(t), LAMBDA p : p.file)),
          positions |-> IF storePositions THEN Map(of(t), LAMBDA p : <<p.file, p.offset>>)
                        ELSE <<>>]]

-----------------------------------------------------------------------------
(* codec.rs.                                                               *)

\* write_varint.
Varint[n \in Nat] == IF n < Base THEN <<n>> ELSE <<Base + (n % Base)>> \o Varint[n \div Base]

\* read_varint until the data ends; an unfinished one at the end is dropped.
Varints(data) ==
  FoldLeft(LAMBDA s, b :
    IF b < Base THEN [out |-> Append(s.out, s.value + b * s.place), value |-> 0, place |-> 1]
    ELSE [s EXCEPT !.value = @ + (b - Base) * s.place, !.place = @ * Base],
    [out |-> <<>>, value |-> 0, place |-> 1], data).out

\* wrapping_sub and saturating_add.
Minus(a, b) == (a - b) % (MaxU32 + 1)
Plus(a, b)  == IF a + b > MaxU32 THEN MaxU32 ELSE a + b

EncodeDelta(values) ==
  FlattenSeq([i \in 1..Len(values) |->
    Varint[Minus(values[i], IF i = 1 THEN 0 ELSE values[i - 1])]])

DecodeDelta(data) ==
  FoldLeft(LAMBDA out, d : Append(out, Plus(IF out = <<>> THEN 0 ELSE Last(out), d)),
           <<>>, Varints(data))

\* encode_positional_postings: per file its id, its number of offsets and their deltas.
EncodePositions(positions) ==
  LET files   == Dedup(Map(positions, LAMBDA p : p[1]))
      of(f)   == Map(SelectSeq(positions, LAMBDA p : p[1] = f), LAMBDA p : p[2])
  IN  FlattenSeq(Map(files, LAMBDA f : Varint[f] \o Varint[Len(of(f))] \o EncodeDelta(of(f))))

DecodePositions(data) ==
  FoldLeft(LAMBDA s, d :
    CASE s.wants = "file"   -> [s EXCEPT !.file = d, !.wants = "count"]
      [] s.wants = "count"  -> [s EXCEPT !.left = d, !.at = 0,
                                         !.wants = IF d = 0 THEN "file" ELSE "offset"]
      [] s.wants = "offset" -> [s EXCEPT !.at = Plus(s.at, d), !.left = @ - 1,
                                         !.out = Append(@, <<s.file, Plus(s.at, d)>>),
                                         !.wants = IF s.left = 1 THEN "file" ELSE "offset"],
    [out |-> <<>>, file |-> 0, left |-> 0, at |-> 0, wants |-> "file"], Varints(data)).out

-----------------------------------------------------------------------------
(* index_writer.rs and index_reader.rs.                                    *)

\* Where the k-th of some blocks laid end to end begins.
OffsetOf(blocks, k) == Len(FlattenSeq(SubSeq(blocks, 1, k - 1)))

\* TrigramIndexWriter::write: a table sorted by trigram, the file lists, the position lists.
WriteIndex(postings) ==
  LET order     == SortedBy(DOMAIN postings, <)
      files     == Map(order, LAMBDA t : EncodeDelta(postings[t].files))
      positions == Map(order, LAMBDA t : EncodePositions(postings[t].positions))
  IN  [table |-> [k \in 1..Len(order) |->
         [trigram |-> order[k],
          fileOffset |-> OffsetOf(files, k), fileLen |-> Len(postings[order[k]].files),
          posOffset |-> OffsetOf(positions, k), posLen |-> Len(postings[order[k]].positions)]],
       data |-> FlattenSeq(files) \o FlattenSeq(positions)]

\* The bytes [from, to) of the data, counted from 0.
Slice(data, from, to) == SubSeq(data, from + 1, to)

\* TrigramIndexReader::open: the lists end where the last of them ends, which only decoding it can tell.
OpenIndex(file) ==
  LET last == Last(file.table)
      ends == SortedBy({i \in (last.fileOffset + 1)..Len(file.data) : file.data[i] < Base}, <)
  IN  IF file.table = <<>> THEN Ok([table |-> <<>>, data |-> file.data, boundary |-> 0])
      ELSE IF last.fileOffset >= Len(file.data) \/ Len(ends) < last.fileLen THEN Err
      ELSE Ok([table |-> file.table, data |-> file.data, boundary |-> ends[last.fileLen]])

\* binary_search_trigram: the entry of a trigram, 0 if it has none.
BinarySearch(table, t) ==
  LET find[lo, hi \in 0..Len(table)] ==
        LET mid == lo + (hi - lo) \div 2 IN
        IF lo >= hi THEN 0
        ELSE IF table[mid + 1].trigram < t THEN find[mid + 1, hi]
        ELSE IF table[mid + 1].trigram > t THEN find[lo, mid]
        ELSE mid + 1
  IN  find[0, Len(table)]

\* lookup_file_ids: a list ends where the next begins.
LookupFileIds(index, t) ==
  LET k   == BinarySearch(index.table, t)
      end == IF k < Len(index.table) THEN index.table[k + 1].fileOffset ELSE index.boundary
  IN  IF k = 0 \/ index.table[k].fileLen = 0 THEN <<>>
      ELSE DecodeDelta(Slice(index.data, index.table[k].fileOffset, end))

\* lookup_positions.
LookupPositions(index, t) ==
  LET k   == BinarySearch(index.table, t)
      end == IF k < Len(index.table) THEN index.boundary + index.table[k + 1].posOffset
             ELSE Len(index.data)
  IN  IF k = 0 \/ index.table[k].posLen = 0 THEN <<>>
      ELSE DecodePositions(Slice(index.data, index.boundary + index.table[k].posOffset, end))

\* estimate_posting_list_size.
EstimateSize(index, t) ==
  LET k == BinarySearch(index.table, t) IN IF k = 0 THEN 0 ELSE index.table[k].fileLen

-----------------------------------------------------------------------------
(* intersection.rs.                                                        *)

\* intersect_two: both lists are walked once.
IntersectTwo(a, b) ==
  LET from[i \in 1..(Len(a) + 1), j \in 1..(Len(b) + 1)] ==
        IF i > Len(a) \/ j > Len(b) THEN <<>>
        ELSE IF a[i] < b[j] THEN from[i + 1, j]
        ELSE IF a[i] > b[j] THEN from[i, j + 1]
        ELSE <<a[i]>> \o from[i + 1, j + 1]
  IN  from[1, 1]

\* intersect_file_ids, the shortest list first.
IntersectAll(lists) ==
  LET order == SortedBy(1..Len(lists), LAMBDA i, j :
                 Len(lists[i]) < Len(lists[j]) \/ (Len(lists[i]) = Len(lists[j]) /\ i < j))
  IN  IF lists = <<>> THEN <<>>
      ELSE FoldLeft(LAMBDA r, i : IntersectTwo(r, lists[i]), lists[order[1]], Tail(order))

\* find_candidates: nothing for a query too short for a trigram.
FindCandidates(index, query) ==
  IntersectAll(Map(SortedBy(ToSet(Windows(query)), <), LAMBDA t : LookupFileIds(index, t)))
=============================================================================
