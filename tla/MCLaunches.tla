------------------------------ MODULE MCLaunches ------------------------------
(***************************************************************************)
(* Launches for TLC: one analyst, or two; three launches, two at a time.    *)
(***************************************************************************)
EXTENDS Launches, TLC

MCSections ==
    [sel \in {"one", "two"} |-> IF sel = "one" THEN <<"market.md">>
                                ELSE <<"market.md", "news.md">>]

Symmetry == Permutations(Processes)
=============================================================================
