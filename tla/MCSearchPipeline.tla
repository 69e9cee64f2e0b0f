-------------------------- MODULE MCSearchPipeline --------------------------
(* Snapshots of two and three segments: copies of one path that are both   *)
(* live, tombstoned ones, unreadable files and unreadable tombstones.      *)
EXTENDS SearchPipeline

C(p, score)  == [path |-> p, dead |-> FALSE, broken |-> FALSE, match |-> TRUE, lines |-> 1 + (p % 2),
                 depth |-> p, named |-> score = 3, density |-> 10 * score, fresh |-> 50]
Dead(p)      == [C(p, 1) EXCEPT !.dead = TRUE]
Broken(p)    == [C(p, 1) EXCEPT !.broken = TRUE]
Miss(p)      == [C(p, 1) EXCEPT !.match = FALSE]
Seg(files)   == [files |-> files, readable |-> TRUE]

MCIndexes == {
  <<>>,
  <<Seg(<<C(1, 1), Dead(2)>>), Seg(<<C(2, 2), C(3, 1), Miss(4)>>)>>,
  <<Seg(<<C(1, 1), C(2, 1), C(3, 3)>>), Seg(<<C(1, 2)>>), Seg(<<Dead(3), C(4, 2)>>)>>,
  <<Seg(<<C(1, 1), C(4, 1), Dead(2)>>), Seg(<<C(2, 2), Dead(3)>>), Seg(<<C(3, 1)>>)>>,
  <<Seg(<<C(2, 1), Broken(1)>>), Seg(<<Broken(4), C(3, 1)>>)>>,
  <<[files |-> <<C(1, 1)>>, readable |-> FALSE], Seg(<<C(2, 1), C(3, 1)>>)>> }

MCRequests ==
  [mode : {"batch"}, verifier : {"literal", "pattern", "regex", "query"}, limit : {0}, page : 0..3,
   perPage : 0..3, glob : {{1, 2, 3, 4}}]
  \cup [mode : {"stream"}, verifier : {"pattern", "query"}, limit : {0, 1, 2, 9}, page : {1},
        perPage : {1}, glob : {{1, 2, 3, 4}, {1, 3}}]
=============================================================================
