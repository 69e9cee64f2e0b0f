--------------------------- MODULE MCRepositories ---------------------------
(* Two repositories of one name for TLC, and a directory inside the first. *)
EXTENDS Repositories

Upwards == [d \in Dirs |-> IF d = "sub" THEN <<"sub", "r1">> ELSE <<d>>]

\* The first repository has one file to index, which the user may delete.
TwoTrees == [r \in Repos |-> [p \in Paths |-> IF r = "r1" /\ p = "b" THEN Missing ELSE "t"]]

SameName == [r \in Repos |-> "x"]
=============================================================================
