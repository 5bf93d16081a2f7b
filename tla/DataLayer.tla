------------------------------ MODULE DataLayer ------------------------------
(***************************************************************************)
(* The market-data layer (data.py) and the host tools over it (tools.py):   *)
(* what a run "as of" a date is handed while the world goes on.             *)
(*                                                                         *)
(* The world is external: the day it is, the daily bars (the bar of the     *)
(* current day moves until the day is over), the days on which an article   *)
(* was published.  Filings, insider trades and releases of macro figures    *)
(* come out on given days.  A fact is what an answer tells, with the date   *)
(* the code gives it; how it is worded is left out.  The model may ask any  *)
(* tool anything at any time, and any source may fail or stop early.        *)
(***************************************************************************)
EXTENDS Integers, FiniteSets, FiniteSetsExt

CONSTANTS
    LastDay,            \* bound: the days are 1..LastDay
    AsOf,               \* the run's trade date
    MaxStale,           \* RunConfig.max_stale_days
    Shapes,             \* the bars a day may have: [low, high, close]
    NoBar,              \* a day without one
    Lookbacks,          \* the windows the model asks for, in days
    AskDates,           \* the dates it asks for
    RecentCloses,       \* RECENT_CLOSES
    TradingDays,        \* bound: the days on which there may be a bar
    PressDays,          \* bound: the days on which something may be published
    FeedSpan,           \* days the recent-only feeds reach back
    Filings,            \* statements: [period, filed]
    Insiders,           \* insider trades: [date, reported]
    Releases,           \* macro figures: [period, released]
    Subs,               \* the subreddits
    RetryAfters,        \* what a 429 may ask for, in seconds
    WaitCap, Timeout,   \* reddit_posts: retry_wait_cap, timeout
    Prompt,             \* seconds a GET takes that nothing holds up
    Deadline            \* of a host tool, in seconds

Days == 1..LastDay

ASSUME DataAssumption ==
    /\ LastDay \in Nat /\ AsOf \in Days /\ MaxStale \in Nat
    /\ NoBar \notin Shapes
    /\ Lookbacks \subseteq Nat \ {0} /\ AskDates \subseteq Days
    /\ RecentCloses \in Nat \ {0}
    /\ FeedSpan \in Nat \ {0}
    /\ Filings \subseteq [period : Days, filed : Days]
    /\ Insiders \subseteq [date : Days, reported : Days]
    /\ Releases \subseteq [period : Days, released : Days]
    /\ RetryAfters \subseteq Int
    /\ WaitCap \in Nat /\ Timeout \in Nat /\ Prompt \in Nat /\ Deadline \in Nat

VARIABLES
    today,
    bars,               \* the bar of each day
    articles,           \* the days with an article, post or message
    given               \* the answer that is looked at

world == <<today, bars, articles>>
dataVars == <<world, given>>

-----------------------------------------------------------------------------
(* Answers. *)

Fact(what, date, val) == [what |-> what, date |-> date, val |-> val]
Told(facts) == [kind |-> "facts", facts |-> facts]
Unavailable == [kind |-> "unavailable", facts |-> {}]
NoData == [kind |-> "no_data", facts |-> {}]

\* Mutant of Clamp: the date the model asks for is taken as it is.
AnyDate(date) == date

\* min(_date(end_date), _date(as_of))
Clamp(date) == IF date < AsOf THEN date ELSE AsOf

\* df.tail(n), items[:limit]: the n latest.
Latest(S, n) == {d \in S : Cardinality({x \in S : x > d}) < n}

-----------------------------------------------------------------------------
(* Prices.  The source hands out the bars it has up to the day `upto`, none at
   all when it fails. *)

History(start, end, upto) ==
    {d \in Days : start <= d /\ d <= end /\ d <= upto /\ bars[d] # NoBar}

\* _require_fresh, and the LookupError of an empty frame.
Fresh(h, asked) == h # {} /\ asked - Max(h) <= MaxStale

Window(h, end, n) == {d \in h : d > end - n}

Ohlcv(start, end, upto) ==
    LET e == Clamp(end)
        h == History(start, e, upto)
    IN  IF Fresh(h, e) THEN Told({Fact("bar", d, bars[d]) : d \in h}) ELSE Unavailable

\* compute_indicators: a moving figure of day d is made from the bars up to d.
Moving(h, d) == [x \in {y \in h : y <= d} |-> bars[x]]

Indicators(n, upto) ==
    LET h == History(1, AsOf, upto)
        w == Window(h, AsOf, n)
    IN  IF Fresh(h, AsOf) /\ w # {}
        THEN Told({Fact("indicator", d, Moving(h, d)) : d \in w})
        ELSE Unavailable

\* The first day of the window on which the price is the extreme one.
Earliest(S) == {d \in S : \A x \in S : d <= x}
Highest(w) == Earliest({d \in w : \A x \in w : bars[x].high <= bars[d].high})
Lowest(w) == Earliest({d \in w : \A x \in w : bars[d].low <= bars[x].low})
Newest(h) == Latest(h, 1)

SnapshotFacts(h, w) ==
    {Fact("last", d, bars[d].close) : d \in Newest(h)}
    \cup {Fact("high", d, bars[d].high) : d \in Highest(w)}
    \cup {Fact("low", d, bars[d].low) : d \in Lowest(w)}
    \cup {Fact("change", d, {<<bars[f].close, bars[d].close>> : f \in Earliest(w)}) :
              d \in Newest(h)}
    \cup {Fact("indicator", d, Moving(h, d)) : d \in Newest(h)}
    \cup {Fact("close", d, bars[d].close) : d \in Latest(h, RecentCloses)}

Snapshot(n, upto) ==
    LET h == History(1, AsOf, upto)
        w == Window(h, AsOf, n)
    IN  IF Fresh(h, AsOf) /\ w # {} THEN Told(SnapshotFacts(h, w)) ELSE Unavailable

-----------------------------------------------------------------------------
(* The company. *)

Historical == today - AsOf > MaxStale

\* The identity has no date; the ratios of the info block are today's.
Fundamentals(up) ==
    IF ~up THEN Unavailable
    ELSE Told({Fact("identity", 0, 0)}
              \cup IF Historical THEN {} ELSE {Fact("ratio", today, 0)})

\* Columns by the end of their period, of the statements filed so far.
Statement(up) ==
    LET keep == {f \in Filings : f.filed <= today /\ f.period <= AsOf}
    IN  IF ~up \/ keep = {} THEN Unavailable
        ELSE Told({Fact("statement", f.period, f.filed) : f \in keep})

\* Trades up to the as-of date when the frame has a column whose name says "date";
\* without one (`col is None`) all there are.  The limit of rows is left out.
InsiderTransactions(up, dated) ==
    LET known == {t \in Insiders : t.reported <= today}
    IN  IF ~up \/ known = {} THEN Unavailable
        ELSE IF dated
        THEN Told({Fact("insider", t.date, t.reported) : t \in {u \in known : u.date <= AsOf}})
        ELSE Told({Fact("undated_insider", t.date, t.reported) : t \in known})

\* Mutant of Vintage: the figures as they read today.
Revised(n) == {r \in Releases : r.released <= today /\ r.period <= AsOf /\ r.period >= AsOf - n}

\* realtime_start = realtime_end = as_of: of each period, what was known then.
Vintage(n) ==
    {r \in Releases : r.released <= AsOf /\ r.released <= today
                      /\ r.period <= AsOf /\ r.period >= AsOf - n}

Macro(n, up) ==
    LET known == Vintage(n)
        obs == {r \in known : \A o \in known : o.period = r.period => o.released <= r.released}
    IN  IF ~up \/ obs = {} THEN Unavailable
        ELSE Told({Fact("macro", r.released, r.period) : r \in obs})

-----------------------------------------------------------------------------
(* News. *)

\* Mutant of FormatNews: nothing in the window is a list without lines.
FormatEmptyNews(kept, served, limit) ==
    IF served = 0 THEN Unavailable
    ELSE Told({Fact("article", d, 0) : d \in Latest(kept, limit)})

\* _format_news: `kept` of the `served` articles lie in the window.
FormatNews(kept, served, limit) ==
    IF kept # {} THEN Told({Fact("article", d, 0) : d \in Latest(kept, limit)})
    ELSE IF served = 0 THEN Unavailable
    ELSE NoData

\* The source takes the window; an item without a date is dropped.
News(start, end, up, undated, limit) ==
    LET kept == {d \in articles : start <= d /\ d <= Clamp(end)}
    IN  IF ~up THEN Unavailable
        ELSE FormatNews(kept, Cardinality(kept) + undated, limit)

\* The general feed carries the last days only.
Feed == {d \in articles : d > today - FeedSpan}

\* Mutant of Covered: any window may be spoken of.
AnyWindow(start, end) == TRUE

Covered(start, end) == ~(end < Min(Feed) \/ start > Max(Feed))

GlobalNews(n, up, limit) ==
    IF ~up \/ Feed = {} \/ ~Covered(AsOf - n, AsOf) THEN Unavailable
    ELSE FormatNews({d \in Feed : AsOf - n <= d /\ d <= AsOf}, Cardinality(Feed), limit)

-----------------------------------------------------------------------------
(* Social feeds. *)

\* _in_window drops what is undated; the stream is recent-only.
InWindow(S, start, end) == {d \in S : start <= d /\ d <= Clamp(end)}

StocktwitsMessages(start, end, up, limit) ==
    LET msgs == InWindow(Feed, start, end)
    IN  IF ~up THEN Unavailable
        ELSE IF msgs = {} THEN NoData
        ELSE Told({Fact("message", d, 0) : d \in Latest(msgs, limit)})

\* Two GETs of a subreddit's feed at most: each brings the feed, fails (refused, or
\* no Atom), or is limited, a 429 that asks to retry after so many seconds.
Outcomes == {"feed", "failed"}
Fetches == [first : Outcomes, after : {0}, second : {"none"}]
           \cup [first : {"limited"}, after : RetryAfters, second : Outcomes]

\* Mutant of Wait: the server says how long.
WaitAsTold(after) == after

Wait(after) == IF after < WaitCap THEN after ELSE WaitCap

\* time.sleep refuses a negative wait, and nothing on the way up catches that.
Escapes(got) == got.first = "limited" /\ Wait(got.after) < 0

\* _reddit_feed: a second attempt after a 429, once.
FeedParsed(got) ==
    \/ got.first = "feed"
    \/ got.first = "limited" /\ got.second = "feed"

\* Seconds, when a GET takes `pace`.
FeedTime(got, pace) ==
    pace + IF got.first = "limited" /\ ~Escapes(got) THEN Wait(got.after) + pace ELSE 0

RedditTime(fetched, pace) == MapThenSumSet(LAMBDA s : FeedTime(fetched[s], pace), Subs)

Failed(fetched) == {s \in Subs : ~FeedParsed(fetched[s])}

\* reddit_posts, one subreddit after the other; with_deadline turns what escapes,
\* and what takes too long, into a sentence.
RedditPosts(start, end, fetched, pace) ==
    LET posts == InWindow(Feed, start, end)
    IN  IF \E s \in Subs : Escapes(fetched[s]) THEN Unavailable
        ELSE IF RedditTime(fetched, pace) > Deadline THEN Unavailable
        ELSE IF Subs # {} /\ Failed(fetched) = Subs THEN Unavailable
        ELSE Told({Fact("post", d, s) : d \in posts, s \in Subs \ Failed(fetched)})

-----------------------------------------------------------------------------
(* The world. *)

\* Of a call to Reddit: the seconds a GET took, and the whole call; whether a feed
\* came, and whether a wait escaped.
NoTime == [pace |-> 0, took |-> 0, came |-> FALSE, escaped |-> FALSE]
NoAnswer ==
    [tool |-> "none", kind |-> "none", facts |-> {}, from |-> 0, to |-> 0, time |-> NoTime]

Init ==
    /\ today = 1
    /\ bars = [d \in Days |-> NoBar]
    /\ articles = {}
    /\ given = NoAnswer

NextDay ==
    /\ given = NoAnswer /\ today < LastDay
    /\ today' = today + 1
    /\ UNCHANGED <<bars, articles, given>>

\* The bar of the day appears, or moves.
Trade ==
    /\ given = NoAnswer /\ today \in TradingDays
    /\ \E b \in Shapes : bars' = [bars EXCEPT ![today] = b]
    /\ UNCHANGED <<today, articles, given>>

Publish ==
    /\ given = NoAnswer /\ today \in PressDays
    /\ articles' = articles \cup {today}
    /\ UNCHANGED <<today, bars, given>>

\* The tools keep nothing, so an answer is looked at by itself and then put away.
PutAway ==
    /\ given # NoAnswer
    /\ given' = NoAnswer
    /\ UNCHANGED world

-----------------------------------------------------------------------------
(* The tools: each closes over AsOf, the model chooses the rest. *)

Give(tool, answer, from, to, time) ==
    /\ given = NoAnswer
    /\ given' = [tool |-> tool, kind |-> answer.kind, facts |-> answer.facts,
                 from |-> from, to |-> to, time |-> time]
    /\ UNCHANGED world

GetPriceHistory ==
    \E start, end \in AskDates, upto \in 0..today :
        Give("prices", Ohlcv(start, end, upto), start, end, NoTime)

GetIndicators ==
    \E n \in Lookbacks, upto \in 0..today :
        Give("indicators", Indicators(n, upto), AsOf - n + 1, AsOf, NoTime)

GetVerifiedSnapshot ==
    \E n \in Lookbacks, upto \in 0..today :
        Give("snapshot", Snapshot(n, upto), AsOf - n + 1, AsOf, NoTime)

GetFundamentals ==
    \E up \in BOOLEAN : Give("fundamentals", Fundamentals(up), 0, today, NoTime)

\* Balance sheet, cash flow and income statement alike.
GetStatement ==
    \E up \in BOOLEAN : Give("statement", Statement(up), 0, AsOf, NoTime)

GetInsiderTransactions ==
    \E up, dated \in BOOLEAN :
        Give("insiders", InsiderTransactions(up, dated), 0, AsOf, NoTime)

GetMacroSeries ==
    \E n \in Lookbacks, up \in BOOLEAN : Give("macro", Macro(n, up), AsOf - n, AsOf, NoTime)

GetCompanyNews ==
    \E start, end \in AskDates, up \in BOOLEAN, undated \in 0..1, limit \in 1..2 :
        Give("news", News(start, end, up, undated, limit), start, Clamp(end), NoTime)

GetGlobalNews ==
    \E n \in Lookbacks, up \in BOOLEAN, limit \in 1..2 :
        Give("global_news", GlobalNews(n, up, limit), AsOf - n, AsOf, NoTime)

GetStocktwitsMessages ==
    \E start, end \in AskDates, up \in BOOLEAN :
        Give("stocktwits", StocktwitsMessages(start, end, up, 1), start, Clamp(end), NoTime)

GetRedditPosts ==
    \E start, end \in AskDates, fetched \in [Subs -> Fetches], pace \in {Prompt, Timeout} :
        Give("reddit", RedditPosts(start, end, fetched, pace), start, Clamp(end),
             [pace |-> pace, took |-> RedditTime(fetched, pace),
              came |-> Failed(fetched) # Subs,
              escaped |-> \E s \in Subs : Escapes(fetched[s])])

Ask ==
    \/ GetPriceHistory \/ GetIndicators \/ GetVerifiedSnapshot
    \/ GetFundamentals \/ GetStatement \/ GetInsiderTransactions \/ GetMacroSeries
    \/ GetCompanyNews \/ GetGlobalNews \/ GetStocktwitsMessages \/ GetRedditPosts

Next == NextDay \/ Trade \/ Publish \/ Ask \/ PutAway

DataSpec == Init /\ [][Next]_dataVars

-----------------------------------------------------------------------------
(* Properties. *)

\* The world is one that has happened so far, and an answer has facts or says
\* that it has none; an empty table is left to the trades of insiders, and to
\* subreddits that name their silence one by one.
DataTypeOK ==
    /\ today \in Days
    /\ bars \in [Days -> Shapes \cup {NoBar}]
    /\ \A d \in Days : d > today => bars[d] = NoBar
    /\ articles \subseteq 1..today
    /\ given.kind \in {"none", "facts", "no_data", "unavailable"}
    /\ given.kind # "facts" => given.facts = {}
    /\ given.kind = "facts" /\ given.facts = {} => given.tool \in {"insiders", "reddit"}

\* No tool hands the model a fact dated after the as-of date, whatever it asks
\* for and however much has happened since, but for two: the info block's ratios,
\* younger by no more than the run's staleness limit, and the trades of insiders
\* when the source's frame has no column of dates, which nothing filters then.
NothingAfterAsOf ==
    \A f \in given.facts :
        \/ f.date <= AsOf
        \/ f.what = "ratio" /\ f.date - AsOf <= MaxStale
        \/ f.what = "undated_insider"

\* What the prices, the macro figures and the company news say as of a day that
\* is over, from sources that answer.
Seen ==
    [prices |-> [start \in AskDates |-> [end \in AskDates |-> Ohlcv(start, end, today)]],
     indicators |-> [n \in Lookbacks |-> Indicators(n, today)],
     snapshot |-> [n \in Lookbacks |-> Snapshot(n, today)],
     macro |-> [n \in Lookbacks |-> Macro(n, TRUE)],
     news |-> [start \in AskDates |-> [end \in AskDates |-> News(start, end, TRUE, 0, 1)]]]

\* The cells of a backtest see one market: once the as-of day is over, prices,
\* indicators, the snapshot, macro figures and company news say on every later day
\* what they said, when their sources answer, so that arms run weeks apart are
\* handed the same.  Statements, ratios, insiders, the general news, StockTwits and
\* Reddit are not among them: what they say of a day that is over does change.
CellSeesOneMarket == [][today > AsOf /\ world' # world => Seen' = Seen]_dataVars

\* A news window is called quiet only when that was observed: nothing dated was
\* published in it, and a feed that takes no dates reaches beyond both its ends.
QuietIsObserved ==
    given.kind = "no_data" =>
        /\ given.tool \in {"news", "global_news"} =>
              \A d \in given.from..given.to : d \notin articles
        /\ given.tool = "global_news" =>
              (\E d \in Feed : d < given.from) /\ \E d \in Feed : d > given.to

\* The waits a rate limit asks for never use up the tool's deadline: while the GETs
\* themselves are prompt the call ends before it, however many subreddits ask to
\* retry and however late, and a feed that came is not thrown away with the others.
\* Two things cost the whole answer all the same: no subreddit gives its feed (two
\* 429s in each will do), or one asks for a negative wait, which time.sleep refuses.
\* (Slow GETs are outside the premise: three that time out do not fit.)
RedditAnswersInTime ==
    given.time.pace <= Prompt =>
        /\ given.time.took <= Deadline
        /\ given.time.came /\ ~given.time.escaped => given.kind = "facts"

=============================================================================
