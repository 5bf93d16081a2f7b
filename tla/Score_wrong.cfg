\* The grader as its exit code is documented: a failing source must not read as a
\* wrong call.
SPECIFICATION ScoreSpec
CONSTANTS
    LastDay = 6
    AsOf = 3
    MaxStale = 1
    NoBar <- MCNoBar
    Shapes <- MCShapes
    Lookbacks = {1, 2}
    AskDates = {2, 5}
    RecentCloses = 2
    TradingDays = {2, 3, 4, 5, 6}
    PressDays = {1, 3, 4}
    FeedSpan = 5
    Filings <- MCFilings
    Insiders <- MCInsiders
    Releases <- MCReleases
    Subs = {1, 2, 3}
    RetryAfters <- MCRetryAfters
    WaitCap = 5
    Timeout = 10
    Prompt = 1
    Deadline = 25
    Holding = 2
    Benchmark <- MCBenchmark
    IsBenchmark = FALSE
    Stops = {1, 3}
    NoStop = 0
    BandNum = 1
    BandDen = 4
INVARIANTS
    WrongOnlyWhenGraded
