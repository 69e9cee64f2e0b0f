--------------------------- MODULE MCSegmentFiles ---------------------------
(* Segments of up to three files over an alphabet of three letters and a   *)
(* newline, with paths that share trigrams, contents that share some, and  *)
(* symbols whose names contain, start with or merely resemble the query.   *)
EXTENDS SegmentFiles

\* 0 is the newline, 3 the upper case of 1.
MCFold(b) == IF b = 3 THEN 1 ELSE b

rs == <<1, 2>>
py == <<1, 2, 1>>
md == <<2>>

MCNameOf(path) ==
  [stem |-> "main", extension |-> IF path = md THEN "md" ELSE IF path = rs THEN "rs" ELSE "py"]

long  == <<3, 2, 1, 2, 2, 0, 2>>
short == <<2, 1, 2, 1>>
other == <<2, 1, 2, 0>>

first ==
  <<[path |-> rs, content |-> long, mtime |-> 1], [path |-> md, content |-> <<>>, mtime |-> 2],
    [path |-> py, content |-> short, mtime |-> 3]>>
again ==
  <<[path |-> rs, content |-> other, mtime |-> 4], [path |-> md, content |-> short, mtime |-> 4]>>

MCInputs == {again}

\* Ids that fit two binary digits, and the last one that does.
MCStarts == {<<>>, [id \in {0, 2} |-> IF id = 0 THEN first ELSE again], [id \in {3} |-> again]}

MCListing == <<"symbols", "content", "highlights", "meta", "paths", "tombstones", "trigrams">>

MCQueries == {<<1, 2, 1>>, <<2, 1, 2, 2>>}

Name(text, utf8, row, column) ==
  [name |-> "name", text |-> text, utf8 |-> utf8, row |-> row, column |-> column]
Def(capture) == [name |-> capture, text |-> <<>>, utf8 |-> TRUE, row |-> 0, column |-> 0]

\* A function that is also a method, a match without a kind, a name that is not UTF-8.
MCTree(content, language) ==
  [parsed |-> TRUE,
   spans |-> <<[start |-> 1, end |-> 2, kind |-> 2], [start |-> 0, end |-> 5, kind |-> 1]>>,
   matches |->
     IF content = long
     THEN << <<Def("Function"), Name(<<3, 2, 1, 2>>, TRUE, 0, 0)>>,
             <<Def("Method"), Name(<<3, 2, 1, 2>>, TRUE, 0, 5)>>,
             <<Name(<<1, 2, 1>>, TRUE, 1, 0), Def("Method")>>,
             <<Def("Function"), Name(<<1, 2>>, FALSE, 1, 1)>>,
             <<Def("reference"), Name(<<2, 1, 2>>, TRUE, 1, 1)>> >>
     ELSE << <<Def("Function"), Name(<<1, 2, 1, 1, 2, 2>>, TRUE, 0, 0)>>,
             <<Def("Function"), Name(<<3, 2, 1, 2>>, TRUE, 0, 0)>> >>]

\* 1212 has the trigrams of 121122 1... but is no part of it.
MCSymbolRequests ==
  {[query |-> q, kind |-> "", language |-> l, path |-> <<>>] :
     q \in {<<1, 2>>, <<1, 2, 1, 2>>, <<2, 1, 1, 2, 1>>}, l \in {"", "rs"}}
  \cup {[query |-> q, kind |-> "method", language |-> "", path |-> md] :
           q \in {<<>>, <<1, 2>>, <<1, 2, 1, 2>>}}
  \cup {[query |-> <<>>, kind |-> "", language |-> "", path |-> <<>>]}
  \cup {[query |-> <<1, 2>>, kind |-> "gadget", language |-> "", path |-> <<>>],
        [query |-> <<1, 2>>, kind |-> "def", language |-> "cobol", path |-> <<>>],
        [query |-> <<1, 2>>, kind |-> "def", language |-> "python", path |-> <<>>]}

\* An index that keeps positions, which the segment builder does not ask for, returns
\* every place of every trigram, and the same files (codec.rs, index_reader.rs).
ASSUME PositionsKept ==
  \A c \in [1..3 -> {long, <<1, 2>>, <<2, 2, 2, 2, 1>>}] :
    LET contents == <<c[1], c[2], c[3]>>
        full     == OpenIndex(WriteIndex(Postings(contents, TRUE))).v
        only     == OpenIndex(WriteIndex(Postings(contents, FALSE))).v
        places(t) == SelectSeq(AddFiles(contents), LAMBDA p : p.trigram = t)
    IN  \A t \in {p.trigram : p \in ToSet(AddFiles(contents))} :
          /\ LookupPositions(full, t) = Map(places(t), LAMBDA p : <<p.file, p.offset>>)
          /\ LookupFileIds(full, t) = Dedup(Map(places(t), LAMBDA p : p.file))
          /\ LookupFileIds(only, t) = LookupFileIds(full, t)
          /\ EstimateSize(only, t) = Len(LookupFileIds(full, t))
=============================================================================
