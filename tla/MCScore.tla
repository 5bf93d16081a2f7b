------------------------------- MODULE MCScore -------------------------------
(***************************************************************************)
(* DataLayer and Score for TLC: six days of which the third is the as-of    *)
(* date, bars that are flat or swing, a benchmark that trades every day.    *)
(***************************************************************************)
EXTENDS Score

MCNoBar == [low |-> 0, high |-> 0, close |-> 0]
MCShapes == {[low |-> 2, high |-> 2, close |-> 2], [low |-> 1, high |-> 3, close |-> 3]}

\* A period that ends on the as-of date is filed two days later.
MCFilings == {[period |-> 1, filed |-> 2], [period |-> 3, filed |-> 5], [period |-> 4, filed |-> 6]}
MCInsiders == {[date |-> 2, reported |-> 3], [date |-> 4, reported |-> 5]}

\* A figure is revised after the as-of date.
MCReleases == {[period |-> 2, released |-> 2], [period |-> 2, released |-> 3],
               [period |-> 2, released |-> 4], [period |-> 3, released |-> 4]}

\* In the past, and for longer than the tool may take.
MCRetryAfters == {-1, 60}

MCBenchmark == [d \in Days |-> IF d < 5 THEN 2 ELSE 3]
=============================================================================
