-------------------------------- MODULE Score --------------------------------
(***************************************************************************)
(* The grading of one cell of a backtest (score.py, with path_after,        *)
(* return_after and hold_band of data.py), composed with the world of       *)
(* DataLayer: a cell may be graded on any day, before, while and after its  *)
(* holding period's bars come in, and each of the four questions it asks of *)
(* the price source may fail.  Returns are fractions: they are compared by  *)
(* their numerators and denominators, prices being positive.                *)
(***************************************************************************)
EXTENDS DataLayer

CONSTANTS
    Holding,            \* RunConfig.holding_days
    Benchmark,          \* the benchmark's close of each day, 0 without a bar
    IsBenchmark,        \* the cell's ticker is the benchmark
    Stops, NoStop,      \* the trader's stop_loss
    BandNum, BandDen    \* the band a Hold is allowed, a fraction

ASSUME ScoreAssumption ==
    /\ Holding \in Nat \ {0}
    /\ Benchmark \in [Days -> Nat]
    /\ IsBenchmark \in BOOLEAN
    /\ Stops \subseteq Nat \ {0} /\ NoStop \notin Stops
    /\ BandNum \in Nat /\ BandDen \in Nat \ {0}
    /\ Shapes \subseteq [low : Nat \ {0}, high : Nat \ {0}, close : Nat \ {0}]

VARIABLE verdict        \* what the last grading printed, and its exit code

scoreVars == <<dataVars, verdict>>

Ratings == {"Buy", "Overweight", "Hold", "Underweight", "Sell"}

Direction(rating) ==
    IF rating \in {"Buy", "Overweight"} THEN 1
    ELSE IF rating \in {"Underweight", "Sell"} THEN -1
    ELSE 0

\* Mutant of Oldest: the last n bars there are.
OldestOfLate(S, n) == Latest(S, n)

\* df.head(n)
Oldest(S, n) == {d \in S : Cardinality({x \in S : x < d}) < n}

-----------------------------------------------------------------------------
(* data.py: what followed the trade date.  The horizon of three days a session
   and ten is longer than the bounded calendar. *)

After == {d \in Days : d > AsOf /\ bars[d] # NoBar}
PathKnown == Cardinality(After) >= Holding
Path == Oldest(After, Holding)

\* Mutant of FromTradeDate: the first bar after the trade date is the entry.
FromDayAfter(closes) == {d \in Days : d > AsOf /\ d <= today /\ closes[d] # 0}

FromTradeDate(closes) == {d \in Days : d >= AsOf /\ d <= today /\ closes[d] # 0}

Closes == [d \in Days |-> IF bars[d] = NoBar THEN 0 ELSE bars[d].close]

\* return_after: from the first close to the one Holding bars on.
ReturnKnown(closes) == Cardinality(FromTradeDate(closes)) > Holding
FirstClose(closes) == closes[Min(FromTradeDate(closes))]
LastClose(closes) == closes[Max(Oldest(FromTradeDate(closes), Holding + 1))]

-----------------------------------------------------------------------------
(* score.py *)

\* The sessions on which the stop is touched.
Touches(dir, stop) ==
    {d \in Path : \/ dir = 1 /\ bars[d].low <= stop
                  \/ dir = -1 /\ bars[d].high >= stop}

\* realised: the price the position is left at.
ExitPrice(dir, stop) ==
    IF stop # NoStop /\ Touches(dir, stop) # {} THEN stop ELSE bars[Max(Path)].close

\* grade, of the alpha num / den.
Right(dir, num, den) ==
    IF dir = 0
    THEN num * BandDen <= BandNum * den /\ -num * BandDen <= BandNum * den
    ELSE dir * num > 0

\* as_of_close is recovered from the return; alpha is the position's return less
\* the benchmark's, or the raw return when the ticker is the benchmark.
Graded(rating, stop) ==
    LET dir == Direction(rating)
        entryNum == bars[Max(Path)].close * FirstClose(Closes)
        entryDen == LastClose(Closes)
        exit == ExitPrice(dir, stop)
        first == IF IsBenchmark THEN 1 ELSE FirstClose(Benchmark)
        last == IF IsBenchmark THEN 1 ELSE LastClose(Benchmark)
    IN  Right(dir, exit * entryDen * first - last * entryNum, entryNum * first)

Blocked == [code |-> 75, line |-> "BLOCKED"]
Traceback == [code |-> 1, line |-> "none"]

\* The question to the source that fails, if any: it gets nothing, a LookupError,
\* or another exception.
AllOk == [at |-> "none", how |-> "ok"]
Failures == [at : {"path", "entry", "bench", "band"}, how : {"nothing", "raises"}]

\* score(): path_after takes a LookupError for an empty frame and nothing else,
\* return_after any exception for None, hold_band catches none.
Score(rating, stop, fixed, failure) ==
    IF rating \notin Ratings THEN Blocked
    ELSE IF failure = [at |-> "path", how |-> "raises"] THEN Traceback
    ELSE IF failure.at = "path" \/ ~PathKnown THEN Blocked
    ELSE IF failure.at = "entry" \/ ~ReturnKnown(Closes) THEN Blocked
    ELSE IF ~IsBenchmark /\ (failure.at = "bench" \/ ~ReturnKnown(Benchmark)) THEN Blocked
    ELSE IF ~fixed /\ (failure.at = "band" \/ History(1, AsOf, today) = {}) THEN Traceback
    ELSE IF Graded(rating, stop) THEN [code |-> 0, line |-> "PASS"]
    ELSE [code |-> 1, line |-> "FAIL"]

NotGraded == [code |-> 75, line |-> "none", rating |-> "none", stop |-> NoStop]

\* The grader runs; a cell without a readable state has no rating.  A state that is
\* JSON but no object, which write_report never leaves, is left out.
Grade ==
    /\ given = NoAnswer /\ verdict = NotGraded
    /\ \E rating \in Ratings \cup {"none"}, stop \in Stops \cup {NoStop},
          fixed \in BOOLEAN, failure \in Failures \cup {AllOk} :
             LET v == Score(rating, stop, fixed, failure)
             IN  verdict' = [code |-> v.code, line |-> v.line, rating |-> rating, stop |-> stop]
    /\ UNCHANGED dataVars

ScoreInit == Init /\ verdict = NotGraded

ScoreNext ==
    \/ verdict = NotGraded /\ Next /\ UNCHANGED verdict
    \/ Grade
    \/ verdict # NotGraded /\ verdict' = NotGraded /\ UNCHANGED dataVars

ScoreSpec == ScoreInit /\ [][ScoreNext]_scoreVars

-----------------------------------------------------------------------------
(* Properties. *)

\* The days whose bars a verdict reads.
Read == Path \cup Oldest(FromTradeDate(Closes), Holding + 1)

\* A cell that has been graded on bars of days that are over keeps its verdict,
\* whatever bars are published later.
VerdictStands ==
    [][world' # world =>
          \A rating \in Ratings, stop \in Stops \cup {NoStop} :
             LET v == Score(rating, stop, TRUE, AllOk)
             IN  v.code # 75 /\ Max(Read) < today =>
                    (Score(rating, stop, TRUE, AllOk))' = v]_scoreVars

\* The days on which the position is held, entered at the trade date's close.
Held == {d \in After : Cardinality({x \in After : x <= d}) <= Holding}

\* Reference: what an investor who bought at the as-of close and left at the
\* stop or at the last of the sessions has over one who held the benchmark.
Position(rating, stop) ==
    LET dir == Direction(rating)
        out == CHOOSE d \in Held : \A x \in Held : x <= d
        stopped == \E d \in Held : \/ dir = 1 /\ bars[d].low <= stop
                                   \/ dir = -1 /\ bars[d].high >= stop
        exit == IF stop # NoStop /\ stopped THEN stop ELSE bars[out].close
        entry == bars[AsOf].close
    IN  IF IsBenchmark THEN Right(dir, exit - entry, entry)
        ELSE Right(dir, exit * Benchmark[AsOf] - Benchmark[out] * entry,
                   entry * Benchmark[AsOf])

\* Both trade on the trade date, and on the same days of the holding period.
SameSessions ==
    /\ bars[AsOf] # NoBar
    /\ \A d \in AsOf..Max(Path) : bars[d] = NoBar <=> Benchmark[d] = 0

\* The verdict is the position's: entry price recovered from a return, bars
\* counted in two frames and the benchmark's in a third agree, when the trade
\* date is a session and the two calendars are one.
VerdictIsThePosition ==
    verdict.line \in {"PASS", "FAIL"} /\ SameSessions =>
        (verdict.line = "PASS" <=> Position(verdict.rating, verdict.stop))

-----------------------------------------------------------------------------
(* A statement of the sources the code does not keep. *)

\* score.py: exit code 1 means the call was wrong; a cell that cannot be graded
\* exits with 75.
WrongOnlyWhenGraded == verdict.code = 1 => verdict.line = "FAIL"
=============================================================================
