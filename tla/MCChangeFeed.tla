---------------------------- MODULE MCChangeFeed ----------------------------
(* Instances of ChangeFeed: which user actions happen in which stage of the daemon. *)
EXTENDS ChangeFeed, TLC

\* Contents are only compared.
Symmetry == Permutations(Content)

Never == [ph \in Phase |-> {}]

EditsAnytime ==
    [Never EXCEPT !["down"] = UserAct, !["starting"] = UserAct, !["live"] = {"write"}]

EditsWhileLive == [Never EXCEPT !["live"] = UserAct, !["deaf"] = {"write"}]
=============================================================================
