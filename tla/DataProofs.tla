----------------------------- MODULE DataProofs -----------------------------
(***************************************************************************)
(* DataLayer and Score for every calendar, every market and every run:      *)
(* nothing handed out is dated after the as-of date but ratios and trades    *)
(* without dates, what the prices, the macro figures and the company news   *)
(* say of a day that is over never changes, a window of news is called      *)
(* quiet only when nothing was published in it, the waits of a rate limit   *)
(* fit the deadline of reddit_posts, and a verdict stands and is that of    *)
(* the position it grades.                                                  *)
(***************************************************************************)
EXTENDS Score, FiniteSetTheorems, WellFoundedInduction, TLAPS

\* The part of the type invariant both arguments need: the world is one that
\* has happened so far.
WorldOK ==
    /\ today \in Days
    /\ bars \in [Days -> Shapes \cup {NoBar}]
    /\ articles \subseteq 1..today

\* A day that passes only adds to the world, and asking adds nothing.
LEMMA AskIsQuiet ==
  ASSUME Ask \/ PutAway
  PROVE  UNCHANGED world
  BY DEF PutAway, Ask, Give, GetPriceHistory, GetIndicators, GetVerifiedSnapshot,
         GetFundamentals, GetStatement, GetInsiderTransactions, GetMacroSeries,
         GetCompanyNews, GetGlobalNews, GetStocktwitsMessages, GetRedditPosts

\* Every step keeps the world one that has happened so far.
LEMMA WorldStep ==
  ASSUME WorldOK, [Next]_dataVars
  PROVE  WorldOK'
<1> USE DataAssumption DEF WorldOK, Days
<1>1. CASE NextDay
  BY <1>1 DEF NextDay
<1>2. CASE Trade
  BY <1>2 DEF Trade
<1>3. CASE Publish
  BY <1>3 DEF Publish
<1>4. CASE UNCHANGED world
  BY <1>4 DEF world
<1> QED
  BY <1>1, <1>2, <1>3, <1>4, AskIsQuiet DEF Next, dataVars

\* Nothing has happened on the first day.
LEMMA WorldStays == DataSpec => []WorldOK
<1>1. Init => WorldOK
  BY DataAssumption DEF Init, WorldOK, Days
<1> QED
  BY <1>1, WorldStep, PTL DEF DataSpec

-----------------------------------------------------------------------------
(* Nothing after the as-of date. *)

\* The facts of an answer respect the as-of date.
Dated(facts) ==
    \A f \in facts :
        \/ f.date <= AsOf
        \/ f.what = "ratio" /\ f.date - AsOf <= MaxStale
        \/ f.what = "undated_insider"

\* A window that ends at or before the as-of date holds only such days.
LEMMA ClampIsEarlier ==
  ASSUME NEW date \in Days
  PROVE  Clamp(date) \in Days /\ Clamp(date) <= AsOf /\ Clamp(date) <= date
  BY DataAssumption DEF Clamp, Days

\* The three price tools.
LEMMA PricesDated ==
  ASSUME NEW start \in Days, NEW end \in Days, NEW upto, NEW n
  PROVE  /\ Dated(Ohlcv(start, end, upto).facts)
         /\ Dated(Indicators(n, upto).facts)
         /\ Dated(Snapshot(n, upto).facts)
<1> USE DataAssumption
<1>1. Dated(Ohlcv(start, end, upto).facts)
  BY ClampIsEarlier DEF Dated, Ohlcv, History, Told, Unavailable, Fact, Days
<1>2. \A d \in History(1, AsOf, upto) : d <= AsOf
  BY DEF History
<1>3. Dated(Indicators(n, upto).facts)
  BY <1>2 DEF Dated, Indicators, Window, Told, Unavailable, Fact
<1>4. Dated(Snapshot(n, upto).facts)
  <2> DEFINE h == History(1, AsOf, upto)
  <2> DEFINE w == Window(h, AsOf, n)
  <2>1. w \subseteq h
    BY DEF Window
  <2>2. /\ Newest(h) \subseteq h /\ Latest(h, RecentCloses) \subseteq h
        /\ Highest(w) \subseteq w /\ Lowest(w) \subseteq w
    BY DEF Newest, Latest, Highest, Lowest, Earliest
  <2>3. \A f \in SnapshotFacts(h, w) : f.date \in h
    BY <2>1, <2>2 DEF SnapshotFacts, Fact
  <2> QED
    BY <1>2, <2>3 DEF Dated, Snapshot, Told, Unavailable
<1> QED
  BY <1>1, <1>3, <1>4

\* The tools about the company.
LEMMA CompanyDated ==
  ASSUME WorldOK, NEW up \in BOOLEAN, NEW dated \in BOOLEAN, NEW n
  PROVE  /\ Dated(Fundamentals(up).facts)
         /\ Dated(Statement(up).facts)
         /\ Dated(InsiderTransactions(up, dated).facts)
         /\ Dated(Macro(n, up).facts)
<1> USE DataAssumption DEF WorldOK, Dated, Told, Unavailable, Fact, Days
<1>1. Dated(Fundamentals(up).facts)
  BY DEF Fundamentals, Historical
<1>2. Dated(Statement(up).facts)
  BY DEF Statement
<1>3. Dated(InsiderTransactions(up, dated).facts)
  BY DEF InsiderTransactions
<1>4. Dated(Macro(n, up).facts)
  BY DEF Macro, Vintage
<1> QED
  BY <1>1, <1>2, <1>3, <1>4

\* The tools about what was published.
LEMMA PressDated ==
  ASSUME WorldOK, NEW start \in Days, NEW end \in Days, NEW up \in BOOLEAN,
         NEW undated, NEW limit, NEW n, NEW fetched, NEW pace
  PROVE  /\ Dated(News(start, end, up, undated, limit).facts)
         /\ Dated(GlobalNews(n, up, limit).facts)
         /\ Dated(StocktwitsMessages(start, end, up, limit).facts)
         /\ Dated(RedditPosts(start, end, fetched, pace).facts)
<1> USE DataAssumption, ClampIsEarlier DEF WorldOK, Dated, Told, Unavailable, NoData, Fact
<1>1. ASSUME NEW kept, NEW served, \A d \in kept : d <= AsOf
      PROVE  Dated(FormatNews(kept, served, limit).facts)
  <2>1. CASE kept # {}
    <3>1. Latest(kept, limit) \subseteq kept
      BY DEF Latest
    <3>2. FormatNews(kept, served, limit).facts = {Fact("article", d, 0) : d \in Latest(kept, limit)}
      BY <2>1 DEF FormatNews
    <3> QED
      BY <1>1, <3>1, <3>2
  <2>2. CASE kept = {}
    BY <2>2 DEF FormatNews
  <2> QED
    BY <2>1, <2>2
<1>2. Dated(News(start, end, up, undated, limit).facts)
  <2> DEFINE kept == {d \in articles : start <= d /\ d <= Clamp(end)}
  <2>1. \A d \in kept : d <= AsOf
    BY DEF Days
  <2>2. Dated(FormatNews(kept, Cardinality(kept) + undated, limit).facts)
    BY <1>1, <2>1
  <2> QED
    BY <2>2 DEF News
<1>3. Dated(GlobalNews(n, up, limit).facts)
  <2> DEFINE kept == {d \in Feed : AsOf - n <= d /\ d <= AsOf}
  <2>1. Dated(FormatNews(kept, Cardinality(Feed), limit).facts)
    BY <1>1
  <2> QED
    BY <2>1 DEF GlobalNews
<1>4. \A e \in Days : \A d \in InWindow(Feed, start, e) : d <= AsOf
  BY DEF InWindow, Feed, Days
<1>5. Dated(StocktwitsMessages(start, end, up, limit).facts)
  <2> DEFINE msgs == InWindow(Feed, start, end)
  <2> DEFINE told == {Fact("message", d, 0) : d \in Latest(msgs, limit)}
  <2>1. Latest(msgs, limit) \subseteq msgs
    BY DEF Latest
  <2>2. \A f \in told : f.date <= AsOf
    BY <1>4, <2>1
  <2>3. StocktwitsMessages(start, end, up, limit).facts \in {{}, told}
    BY DEF StocktwitsMessages
  <2> QED
    BY <2>2, <2>3
<1>6. Dated(RedditPosts(start, end, fetched, pace).facts)
  <2> DEFINE posts == InWindow(Feed, start, end)
  <2> DEFINE told == {Fact("post", d, s) : d \in posts, s \in Subs \ Failed(fetched)}
  <2>1. \A f \in told : f.date <= AsOf
    BY <1>4
  <2>2. RedditPosts(start, end, fetched, pace).facts \in {{}, told}
    BY DEF RedditPosts
  <2> QED
    BY <2>1, <2>2
<1> QED
  BY <1>2, <1>3, <1>5, <1>6

\* Whatever tool is asked, the answer is dated.
LEMMA AskDated ==
  ASSUME WorldOK, Ask
  PROVE  Dated(given'.facts)
<1> USE DataAssumption
<1>1. \A tool, answer, from, to, time :
         Give(tool, answer, from, to, time) /\ Dated(answer.facts) => Dated(given'.facts)
  BY DEF Give, Dated
<1>2. CASE GetPriceHistory
  BY <1>1, <1>2, PricesDated DEF GetPriceHistory
<1>3. CASE GetIndicators
  BY <1>1, <1>3, PricesDated DEF GetIndicators
<1>4. CASE GetVerifiedSnapshot
  BY <1>1, <1>4, PricesDated DEF GetVerifiedSnapshot
<1>5. CASE GetFundamentals
  BY <1>1, <1>5, CompanyDated DEF GetFundamentals
<1>6. CASE GetStatement
  BY <1>1, <1>6, CompanyDated DEF GetStatement
<1>7. CASE GetInsiderTransactions
  BY <1>1, <1>7, CompanyDated DEF GetInsiderTransactions
<1>8. CASE GetMacroSeries
  BY <1>1, <1>8, CompanyDated DEF GetMacroSeries
<1>9. CASE GetCompanyNews
  BY <1>1, <1>9, PressDated DEF GetCompanyNews, WorldOK
<1>10. CASE GetGlobalNews
  BY <1>1, <1>10, PressDated DEF GetGlobalNews, WorldOK
<1>11. CASE GetStocktwitsMessages
  BY <1>1, <1>11, PressDated DEF GetStocktwitsMessages, WorldOK
<1>12. CASE GetRedditPosts
  BY <1>1, <1>12, PressDated DEF GetRedditPosts, WorldOK
<1> QED
  BY <1>2, <1>3, <1>4, <1>5, <1>6, <1>7, <1>8, <1>9, <1>10, <1>11, <1>12 DEF Ask

\* No answer of any tool holds a fact dated after the as-of date, data.py's first
\* rule, but for ratios of a day within the staleness limit, and insider trades
\* handed out as the source has them when no column of theirs is called a date.
THEOREM NeverAfterAsOf == DataSpec => []NothingAfterAsOf
<1>1. Init => NothingAfterAsOf
  BY DEF Init, NoAnswer, NothingAfterAsOf
<1>2. WorldOK /\ NothingAfterAsOf /\ [Next]_dataVars => NothingAfterAsOf'
  <2> SUFFICES ASSUME WorldOK, NothingAfterAsOf, [Next]_dataVars PROVE NothingAfterAsOf'
    OBVIOUS
  <2>1. CASE Ask
    BY <2>1, AskDated DEF Dated, NothingAfterAsOf
  <2>2. CASE UNCHANGED given
    BY <2>2 DEF NothingAfterAsOf
  <2>3. CASE PutAway
    BY <2>3 DEF PutAway, NoAnswer, NothingAfterAsOf
  <2>4. NextDay \/ Trade \/ Publish => UNCHANGED given
    BY DEF NextDay, Trade, Publish
  <2> QED
    BY <2>1, <2>2, <2>3, <2>4 DEF Next, dataVars
<1> QED
  BY <1>1, <1>2, WorldStays, PTL DEF DataSpec

-----------------------------------------------------------------------------
(* A day that is over. *)

\* A step of the world after the as-of date changes nothing up to that date.
LEMMA PastStands ==
  ASSUME WorldOK, Next, world' # world, today > AsOf
  PROVE  /\ today' \in Days /\ today' >= today
         /\ \A d \in Days : d <= AsOf => bars'[d] = bars[d]
         /\ \A d \in Days : d <= AsOf => (d \in articles' <=> d \in articles)
<1> USE DataAssumption DEF WorldOK, Days
<1>1. CASE NextDay
  BY <1>1 DEF NextDay
<1>2. CASE Trade
  BY <1>2 DEF Trade
<1>3. CASE Publish
  BY <1>3 DEF Publish
<1> QED
  BY <1>1, <1>2, <1>3, AskIsQuiet DEF Next

\* So the bars a tool sees, and what it makes of them, stand.
LEMMA PricesStand ==
  ASSUME WorldOK, Next, world' # world, today > AsOf,
         NEW start \in Days, NEW end \in Days, end <= AsOf
  PROVE  /\ History(start, end, today)' = History(start, end, today)
         /\ \A d \in History(start, end, today) : bars'[d] = bars[d]
         /\ \A d : Moving(History(start, end, today), d)' = Moving(History(start, end, today), d)
<1>1. /\ History(start, end, today)' = History(start, end, today)
      /\ \A d \in History(start, end, today) : bars'[d] = bars[d]
  BY PastStands, DataAssumption DEF History, Days, WorldOK
<1>2. ASSUME NEW d
      PROVE  Moving(History(start, end, today), d)' = Moving(History(start, end, today), d)
  <2> DEFINE upTo == {y \in History(start, end, today) : y <= d}
  <2>1. upTo' = upTo
    BY <1>1
  <2>2. \A x \in upTo : bars'[x] = bars[x]
    BY <1>1
  <2>3. [x \in upTo |-> bars'[x]] = [x \in upTo |-> bars[x]]
    BY <2>2
  <2> QED
    BY <2>1, <2>3 DEF Moving
<1> QED
  BY <1>1, <1>2

\* The price history asked for again, whatever its dates.
LEMMA OhlcvStands ==
  ASSUME WorldOK, Next, world' # world, today > AsOf, NEW start \in Days, NEW end \in Days
  PROVE  Ohlcv(start, end, today)' = Ohlcv(start, end, today)
<1> DEFINE e == Clamp(end)
<1> DEFINE h == History(start, e, today)
<1>1. e \in Days /\ e <= AsOf
  BY ClampIsEarlier
<1>2. h' = h /\ \A d \in h : bars'[d] = bars[d]
  BY <1>1, PricesStand
<1>3. {Fact("bar", d, bars'[d]) : d \in h} = {Fact("bar", d, bars[d]) : d \in h}
  BY <1>2
<1> QED
  BY <1>2, <1>3 DEF Ohlcv, Fresh

\* The indicators.
LEMMA IndicatorsStand ==
  ASSUME WorldOK, Next, world' # world, today > AsOf, NEW n
  PROVE  Indicators(n, today)' = Indicators(n, today)
<1> DEFINE h == History(1, AsOf, today)
<1> DEFINE w == Window(h, AsOf, n)
<1>1. /\ h' = h
      /\ \A d : Moving(h, d)' = Moving(h, d)
  BY PricesStand, DataAssumption DEF Days
<1>2. w' = w
  BY <1>1 DEF Window
<1>3. {Fact("indicator", d, Moving(h, d)) : d \in w}' = {Fact("indicator", d, Moving(h, d)) : d \in w}
  BY <1>1, <1>2
<1> QED
  BY <1>1, <1>2, <1>3 DEF Indicators, Fresh

\* The snapshot.
LEMMA SnapshotStands ==
  ASSUME WorldOK, Next, world' # world, today > AsOf, NEW n
  PROVE  Snapshot(n, today)' = Snapshot(n, today)
<1> DEFINE h == History(1, AsOf, today)
<1> DEFINE w == Window(h, AsOf, n)
<1>1. /\ h' = h
      /\ \A d \in h : bars'[d] = bars[d]
      /\ \A d : Moving(h, d)' = Moving(h, d)
  BY PricesStand, DataAssumption DEF Days
<1>2. w' = w /\ w \subseteq h
  BY <1>1 DEF Window
<1>3. \A d \in w : bars'[d] = bars[d]
  BY <1>1, <1>2
<1>4. Highest(w)' = Highest(w) /\ Lowest(w)' = Lowest(w)
  <2>1. {d \in w : \A x \in w : bars'[x].high <= bars'[d].high}
          = {d \in w : \A x \in w : bars[x].high <= bars[d].high}
    BY <1>3
  <2>2. {d \in w : \A x \in w : bars'[d].low <= bars'[x].low}
          = {d \in w : \A x \in w : bars[d].low <= bars[x].low}
    BY <1>3
  <2> QED
    BY <1>2, <2>1, <2>2 DEF Highest, Lowest
<1>5. /\ Highest(w) \subseteq h /\ Lowest(w) \subseteq h /\ Earliest(w) \subseteq h
      /\ Newest(h) \subseteq h /\ Latest(h, RecentCloses) \subseteq h
  BY <1>2 DEF Highest, Lowest, Earliest, Newest, Latest
<1> DEFINE lasts == {Fact("last", d, bars[d].close) : d \in Newest(h)}
<1> DEFINE highs == {Fact("high", d, bars[d].high) : d \in Highest(w)}
<1> DEFINE lows == {Fact("low", d, bars[d].low) : d \in Lowest(w)}
<1> DEFINE since(d) == {<<bars[f].close, bars[d].close>> : f \in Earliest(w)}
<1> DEFINE changes == {Fact("change", d, since(d)) : d \in Newest(h)}
<1> DEFINE moving == {Fact("indicator", d, Moving(h, d)) : d \in Newest(h)}
<1> DEFINE recent == {Fact("close", d, bars[d].close) : d \in Latest(h, RecentCloses)}
<1>6. lasts' = lasts /\ recent' = recent
  BY <1>1, <1>5
<1>7. highs' = highs /\ lows' = lows
  BY <1>1, <1>4, <1>5
<1>8. changes' = changes
  <2>1. \A d \in Newest(h) : since(d)' = since(d)
    BY <1>1, <1>2, <1>5
  <2>2. Newest(h)' = Newest(h)
    BY <1>1
  <2> HIDE DEF since
  <2> QED
    BY <2>1, <2>2
<1>9. moving' = moving
  BY <1>1
<1>10. SnapshotFacts(h, w)' = SnapshotFacts(h, w)
  <2>1. SnapshotFacts(h, w) = lasts \cup highs \cup lows \cup changes \cup moving \cup recent
    BY DEF SnapshotFacts
  <2>2. SnapshotFacts(h, w)' = lasts' \cup highs' \cup lows' \cup changes' \cup moving' \cup recent'
    BY DEF SnapshotFacts
  <2> HIDE DEF lasts, highs, lows, changes, moving, recent
  <2> QED
    BY <1>6, <1>7, <1>8, <1>9, <2>1, <2>2
<1> QED
  BY <1>1, <1>2, <1>10 DEF Snapshot, Fresh

\* The macro series and the company news.
LEMMA ReportsStand ==
  ASSUME WorldOK, Next, world' # world, today > AsOf, NEW start \in Days, NEW end \in Days, NEW n
  PROVE  /\ Macro(n, TRUE)' = Macro(n, TRUE)
         /\ News(start, end, TRUE, 0, 1)' = News(start, end, TRUE, 0, 1)
<1>1. Vintage(n)' = Vintage(n)
  BY PastStands, DataAssumption DEF Vintage, Days, WorldOK
<1>2. Macro(n, TRUE)' = Macro(n, TRUE)
  BY <1>1 DEF Macro
<1> DEFINE kept == {d \in articles : start <= d /\ d <= Clamp(end)}
<1>3. articles \subseteq Days /\ articles' \subseteq Days
  <2>1. WorldOK'
    BY WorldStep
  <2>2. \A t \in Days : 1..t \subseteq Days
    BY DataAssumption DEF Days
  <2> QED
    BY <2>1, <2>2 DEF WorldOK
<1>4. kept' = kept
  <2>1. Clamp(end) <= AsOf /\ Clamp(end) \in Days
    BY ClampIsEarlier
  <2>2. \A d \in Days : d <= Clamp(end) => (d \in articles' <=> d \in articles)
    BY <2>1, PastStands, DataAssumption DEF Days
  <2>3. Clamp(end)' = Clamp(end)
    BY DEF Clamp
  <2> QED
    BY <1>3, <2>2, <2>3
<1>5. News(start, end, TRUE, 0, 1)' = News(start, end, TRUE, 0, 1)
  BY <1>4 DEF News
<1> QED
  BY <1>2, <1>5

\* Once the as-of day is over a question about it has one answer: two arms of a
\* backtest that run at different times read the same market.
THEOREM OneMarket == DataSpec => CellSeesOneMarket
<1>1. WorldOK /\ [Next]_dataVars
        => [today > AsOf /\ world' # world => Seen' = Seen]_dataVars
  <2> SUFFICES ASSUME WorldOK, Next, world' # world, today > AsOf PROVE Seen' = Seen
    BY DEF dataVars
  <2>1. \A start, end \in AskDates : Ohlcv(start, end, today)' = Ohlcv(start, end, today)
    BY OhlcvStands, DataAssumption
  <2>2. \A n \in Lookbacks : /\ Indicators(n, today)' = Indicators(n, today)
                             /\ Snapshot(n, today)' = Snapshot(n, today)
    BY IndicatorsStand, SnapshotStands
  <2>3. \A n \in Lookbacks : Macro(n, TRUE)' = Macro(n, TRUE)
    BY ReportsStand, DataAssumption
  <2>4. \A start, end \in AskDates :
           News(start, end, TRUE, 0, 1)' = News(start, end, TRUE, 0, 1)
    BY ReportsStand, DataAssumption
  <2> DEFINE prices == [start \in AskDates |-> [end \in AskDates |-> Ohlcv(start, end, today)]]
  <2> DEFINE indicators == [n \in Lookbacks |-> Indicators(n, today)]
  <2> DEFINE snapshot == [n \in Lookbacks |-> Snapshot(n, today)]
  <2> DEFINE macro == [n \in Lookbacks |-> Macro(n, TRUE)]
  <2> DEFINE news == [start \in AskDates |-> [end \in AskDates |-> News(start, end, TRUE, 0, 1)]]
  <2>5. prices' = prices
    BY <2>1
  <2>6. indicators' = indicators /\ snapshot' = snapshot
    BY <2>2
  <2>7. macro' = macro
    BY <2>3
  <2>8. news' = news
    BY <2>4
  <2>9. Seen = [prices |-> prices, indicators |-> indicators, snapshot |-> snapshot,
                macro |-> macro, news |-> news]
    BY DEF Seen
  <2>10. Seen' = [prices |-> prices', indicators |-> indicators', snapshot |-> snapshot',
                  macro |-> macro', news |-> news']
    BY DEF Seen
  <2> HIDE DEF prices, indicators, snapshot, macro, news
  <2> QED
    BY <2>5, <2>6, <2>7, <2>8, <2>9, <2>10
<1> QED
  BY <1>1, WorldStays, PTL DEF DataSpec, CellSeesOneMarket

-----------------------------------------------------------------------------
(* The shape of an answer, and when it may say that there was nothing. *)

\* Days have a first and a last.
LEMMA FirstAndLast ==
  ASSUME NEW S \in SUBSET Days, S # {}
  PROVE  /\ Min(S) \in S /\ \A d \in S : Min(S) <= d
         /\ Max(S) \in S /\ \A d \in S : Max(S) >= d
<1> DEFINE R == {ss \in Nat \X Nat : ss[1] < ss[2]}
           Below == {LastDay - d : d \in S}
<1>1. IsWellFoundedOn(R, Nat)
  BY NatLessThanWellFounded, Zenon DEF OpToRel
<1>2. \A d \in S : d \in Nat /\ LastDay - d \in Nat
  BY DataAssumption DEF Days
<1>3. S \subseteq Nat /\ Below \subseteq Nat /\ Below # {}
  BY <1>2
<1>4. \A x, y \in Nat : <<x, y>> \notin R => y <= x
  OBVIOUS
<1> HIDE DEF R
<1>5. PICK a \in S : \A d \in S : <<d, a>> \notin R
  BY <1>1, <1>3, WFMin
<1>6. \A d \in S : a <= d
  BY <1>2, <1>4, <1>5
<1>7. Min(S) \in S /\ \A d \in S : Min(S) <= d
  BY <1>6 DEF Min
<1>8. PICK b \in Below : \A c \in Below : <<c, b>> \notin R
  BY <1>1, <1>3, WFMin
<1>9. PICK z \in S : b = LastDay - z
  BY <1>8
<1>10. ASSUME NEW d \in S PROVE z >= d
  <2>1. LastDay - d \in Below /\ LastDay - d \in Nat /\ b \in Nat
    BY <1>2, <1>3
  <2>2. b <= LastDay - d
    BY <1>4, <1>8, <2>1
  <2> QED
    BY <1>2, <1>9, <2>2, DataAssumption
<1>11. Max(S) \in S /\ \A d \in S : Max(S) >= d
  BY <1>10 DEF Max
<1> QED
  BY <1>7, <1>11

\* Of some days the latest are some.
LEMMA SomeAreLatest ==
  ASSUME NEW S \in SUBSET Days, S # {}, NEW n \in Nat \ {0}
  PROVE  Latest(S, n) # {}
<1> DEFINE m == Max(S)
           later == {x \in S : x > m}
<1>1. m \in S /\ \A d \in S : m >= d
  BY FirstAndLast
<1>2. S \subseteq Int
  BY DataAssumption DEF Days
<1> HIDE DEF m
<1>3. later = {}
  <2>1. m \in Int
    BY <1>1, <1>2
  <2>2. ASSUME NEW x \in S PROVE ~(x > m)
    <3>1. x \in Int /\ m >= x
      BY <1>1, <1>2
    <3> QED
      BY <2>1, <3>1
  <2> QED
    BY <2>2, Zenon DEF later
<1>4. Cardinality(later) = 0
  BY <1>3, FS_EmptySet
<1>5. Latest(S, n) = {d \in S : Cardinality({x \in S : x > d}) < n}
  BY DEF Latest
<1>6. m \in Latest(S, n)
  <2> HIDE DEF later
  <2>1. Cardinality(later) < n
    BY <1>4
  <2> USE DEF later
  <2> QED
    BY <1>1, <1>5, <2>1
<1> QED
  BY <1>6

\* What an answer is: facts, some unless the tool may have none to tell, or one
\* of the two ways of saying that there are none.
Shaped(tool, answer) ==
    /\ answer.kind \in {"facts", "no_data", "unavailable"}
    /\ answer.kind # "facts" => answer.facts = {}
    /\ answer.kind = "facts" /\ answer.facts = {} => tool \in {"insiders", "reddit"}

\* The price tools tell something or are unavailable.
LEMMA PricesShaped ==
  ASSUME NEW start, NEW end, NEW upto, NEW n
  PROVE  /\ Shaped("prices", Ohlcv(start, end, upto))
         /\ Shaped("indicators", Indicators(n, upto))
         /\ Shaped("snapshot", Snapshot(n, upto))
<1> USE DEF Shaped, Told, Unavailable
<1>1. Shaped("prices", Ohlcv(start, end, upto))
  BY DEF Ohlcv, Fresh
<1>2. Shaped("indicators", Indicators(n, upto))
  BY DEF Indicators
<1>3. Shaped("snapshot", Snapshot(n, upto))
  <2> DEFINE h == History(1, AsOf, upto)
             w == Window(h, AsOf, n)
  <2>1. CASE Fresh(h, AsOf) /\ w # {}
    <3>1. h \subseteq Days /\ h # {}
      BY <2>1 DEF Fresh, History
    <3>2. PICK d \in Newest(h) : TRUE
      BY <3>1, SomeAreLatest DEF Newest
    <3>3. Fact("last", d, bars[d].close) \in SnapshotFacts(h, w)
      BY <3>2 DEF SnapshotFacts
    <3>4. Snapshot(n, upto) = Told(SnapshotFacts(h, w))
      BY <2>1 DEF Snapshot
    <3> HIDE DEF h, w
    <3> QED
      BY <3>3, <3>4
  <2>2. CASE ~(Fresh(h, AsOf) /\ w # {})
    BY <2>2 DEF Snapshot
  <2> QED
    BY <2>1, <2>2
<1> QED
  BY <1>1, <1>2, <1>3

\* So do the tools about the company, but for the table of insider trades.
LEMMA CompanyShaped ==
  ASSUME NEW up \in BOOLEAN, NEW dated \in BOOLEAN, NEW n
  PROVE  /\ Shaped("fundamentals", Fundamentals(up))
         /\ Shaped("statement", Statement(up))
         /\ Shaped("insiders", InsiderTransactions(up, dated))
         /\ Shaped("macro", Macro(n, up))
<1> USE DEF Shaped, Told, Unavailable
<1>1. Shaped("fundamentals", Fundamentals(up))
  BY DEF Fundamentals
<1>2. Shaped("statement", Statement(up))
  BY DEF Statement
<1>3. Shaped("insiders", InsiderTransactions(up, dated))
  BY DEF InsiderTransactions
<1>4. Shaped("macro", Macro(n, up))
  BY DEF Macro
<1> QED
  BY <1>1, <1>2, <1>3, <1>4

\* What was published so far was published on some days.
LEMMA WorldHasDays ==
  ASSUME WorldOK
  PROVE  articles \subseteq Days /\ Feed \subseteq Days
<1>1. \A t \in Days : 1..t \subseteq Days
  BY DataAssumption DEF Days
<1>2. articles \subseteq Days
  BY <1>1 DEF WorldOK
<1> QED
  BY <1>2 DEF Feed

\* The tools about what was published.
LEMMA PressShaped ==
  ASSUME WorldOK, NEW start, NEW end, NEW up \in BOOLEAN, NEW undated,
         NEW limit \in Nat \ {0}, NEW n, NEW fetched, NEW pace
  PROVE  /\ Shaped("news", News(start, end, up, undated, limit))
         /\ Shaped("global_news", GlobalNews(n, up, limit))
         /\ Shaped("stocktwits", StocktwitsMessages(start, end, up, limit))
         /\ Shaped("reddit", RedditPosts(start, end, fetched, pace))
<1> USE DEF Shaped, Told, Unavailable, NoData
<1>1. articles \subseteq Days /\ Feed \subseteq Days
  BY WorldHasDays
<1>2. ASSUME NEW what, NEW S \in SUBSET Days, S # {}
      PROVE  {Fact(what, d, 0) : d \in Latest(S, limit)} # {}
  BY <1>2, SomeAreLatest
<1>3. ASSUME NEW tool, NEW kept \in SUBSET Days, NEW served
      PROVE  Shaped(tool, FormatNews(kept, served, limit))
  BY <1>2 DEF FormatNews
<1>4. Shaped("news", News(start, end, up, undated, limit))
  <2> DEFINE kept == {d \in articles : start <= d /\ d <= Clamp(end)}
  <2>1. Shaped("news", FormatNews(kept, Cardinality(kept) + undated, limit))
    BY <1>1, <1>3
  <2> QED
    BY <2>1 DEF News
<1>5. Shaped("global_news", GlobalNews(n, up, limit))
  <2> DEFINE kept == {d \in Feed : AsOf - n <= d /\ d <= AsOf}
  <2>1. Shaped("global_news", FormatNews(kept, Cardinality(Feed), limit))
    BY <1>1, <1>3
  <2> QED
    BY <2>1 DEF GlobalNews
<1>6. Shaped("stocktwits", StocktwitsMessages(start, end, up, limit))
  BY <1>1, <1>2 DEF StocktwitsMessages, InWindow
<1>7. Shaped("reddit", RedditPosts(start, end, fetched, pace))
  BY DEF RedditPosts
<1> QED
  BY <1>4, <1>5, <1>6, <1>7

\* Whatever tool is asked, the answer is one of these.
LEMMA AskShaped ==
  ASSUME WorldOK, Ask
  PROVE  Shaped(given'.tool, given')
<1> USE DataAssumption
<1>1. \A tool, answer, from, to, time :
         Give(tool, answer, from, to, time) /\ Shaped(tool, answer) => Shaped(given'.tool, given')
  BY DEF Give, Shaped
<1>2. CASE GetPriceHistory
  BY <1>1, <1>2, PricesShaped DEF GetPriceHistory
<1>3. CASE GetIndicators
  BY <1>1, <1>3, PricesShaped DEF GetIndicators
<1>4. CASE GetVerifiedSnapshot
  BY <1>1, <1>4, PricesShaped DEF GetVerifiedSnapshot
<1>5. CASE GetFundamentals
  BY <1>1, <1>5, CompanyShaped DEF GetFundamentals
<1>6. CASE GetStatement
  BY <1>1, <1>6, CompanyShaped DEF GetStatement
<1>7. CASE GetInsiderTransactions
  BY <1>1, <1>7, CompanyShaped DEF GetInsiderTransactions
<1>8. CASE GetMacroSeries
  BY <1>1, <1>8, CompanyShaped DEF GetMacroSeries
<1>9. \A limit \in 1..2 : limit \in Nat \ {0}
  OBVIOUS
<1>10. CASE GetCompanyNews
  BY <1>1, <1>9, <1>10, PressShaped DEF GetCompanyNews
<1>11. CASE GetGlobalNews
  BY <1>1, <1>9, <1>11, PressShaped DEF GetGlobalNews
<1>12. CASE GetStocktwitsMessages
  BY <1>1, <1>12, PressShaped DEF GetStocktwitsMessages
<1>13. CASE GetRedditPosts
  BY <1>1, <1>13, PressShaped DEF GetRedditPosts
<1> QED
  BY <1>2, <1>3, <1>4, <1>5, <1>6, <1>7, <1>8, <1>10, <1>11, <1>12, <1>13 DEF Ask

\* The world has happened so far, and every answer of every tool has facts or
\* says that it has none (data.py's answers, tools._spec).
THEOREM DataTypeCorrect == DataSpec => []DataTypeOK
<1>1. Init => DataTypeOK
  BY DataAssumption DEF Init, DataTypeOK, NoAnswer, Days
<1>2. DataTypeOK => WorldOK
  BY DEF DataTypeOK, WorldOK
<1>3. DataTypeOK /\ [Next]_dataVars => DataTypeOK'
  <2> SUFFICES ASSUME DataTypeOK, [Next]_dataVars PROVE DataTypeOK'
    OBVIOUS
  <2>1. WorldOK'
    BY <1>2, WorldStep
  <2>2. \A d \in Days : d > today' => bars'[d] = NoBar
    <3> USE DataAssumption DEF DataTypeOK, Days
    <3>1. CASE NextDay
      BY <3>1 DEF NextDay
    <3>2. CASE Trade
      BY <3>2 DEF Trade
    <3>3. CASE Publish
      BY <3>3 DEF Publish
    <3>4. CASE UNCHANGED world
      BY <3>4 DEF world
    <3> QED
      BY <3>1, <3>2, <3>3, <3>4, AskIsQuiet DEF Next, dataVars
  <2>3. /\ given'.kind \in {"none", "facts", "no_data", "unavailable"}
        /\ given'.kind # "facts" => given'.facts = {}
        /\ given'.kind = "facts" /\ given'.facts = {} => given'.tool \in {"insiders", "reddit"}
    <3>1. CASE Ask
      BY <1>2, <3>1, AskShaped DEF Shaped
    <3>2. CASE UNCHANGED given
      BY <3>2 DEF DataTypeOK
    <3>3. CASE PutAway
      BY <3>3 DEF PutAway, NoAnswer
    <3>4. NextDay \/ Trade \/ Publish => UNCHANGED given
      BY DEF NextDay, Trade, Publish
    <3> QED
      BY <3>1, <3>2, <3>3, <3>4 DEF Next, dataVars
  <2> QED
    BY <2>1, <2>2, <2>3 DEF DataTypeOK, WorldOK
<1> QED
  BY <1>1, <1>3, PTL DEF DataSpec

\* What the general feed is silent about, when it reaches beyond the window.
LEMMA FeedIsQuiet ==
  ASSUME WorldOK, NEW n \in Nat, NEW limit, GlobalNews(n, TRUE, limit).kind = "no_data"
  PROVE  /\ \A d \in (AsOf - n)..AsOf : d \notin articles
         /\ \E d \in Feed : d < AsOf - n
         /\ \E d \in Feed : d > AsOf
<1> DEFINE kept == {d \in Feed : AsOf - n <= d /\ d <= AsOf}
<1> DEFINE mn == Min(Feed)
           mx == Max(Feed)
           from == AsOf - n
<1>0. Days \subseteq Int
  BY DataAssumption DEF Days
<1>1. /\ articles \subseteq Days /\ Feed \subseteq Days
      /\ AsOf \in Int /\ from \in Int /\ today \in Int /\ FeedSpan \in Int
  BY <1>0, WorldHasDays, DataAssumption DEF WorldOK
<1>2. Feed # {} /\ Covered(AsOf - n, AsOf)
  BY DEF GlobalNews, Unavailable
<1>3. kept = {}
  <2>1. FormatNews(kept, Cardinality(Feed), limit).kind = "no_data"
    BY <1>2 DEF GlobalNews
  <2> QED
    BY <2>1 DEF FormatNews, Told
<1>4. mn \in Feed /\ mx \in Feed
  BY <1>1, <1>2, FirstAndLast
<1>5. ~(AsOf < mn) /\ ~(from > mx)
  BY <1>2 DEF Covered
<1> HIDE DEF mn, mx, from
<1>6. mn \in Int /\ mx \in Int
  BY <1>0, <1>1, <1>4
<1>7. mn < from /\ mx > AsOf
  <2>1. ~(from <= mn /\ mn <= AsOf) /\ ~(from <= mx /\ mx <= AsOf)
    BY <1>3, <1>4 DEF from
  <2> QED
    BY <1>1, <1>5, <1>6, <2>1
<1>8. ASSUME NEW d \in from..AsOf, d \in articles PROVE FALSE
  <2>1. d \in Int /\ from <= d /\ d <= AsOf
    BY <1>1
  <2>2. d \notin Feed
    BY <1>3, <2>1 DEF from
  <2>3. ~(d > today - FeedSpan) /\ mn > today - FeedSpan
    BY <1>4, <1>8, <2>2 DEF Feed
  <2> QED
    BY <1>1, <1>6, <1>7, <2>1, <2>3
<1> QED
  BY <1>4, <1>7, <1>8 DEF from

\* A window of news is called quiet only when nothing dated was published in it,
\* and the general feed's only when the feed reaches beyond both its ends
\* (data._format_news, data.global_news), whatever the world and the questions.
THEOREM QuietWasObserved == DataSpec => []QuietIsObserved
<1>1. Init => QuietIsObserved
  BY DEF Init, NoAnswer, QuietIsObserved
<1>2. WorldOK /\ QuietIsObserved /\ [Next]_dataVars => QuietIsObserved'
  <2> SUFFICES ASSUME WorldOK, QuietIsObserved, [Next]_dataVars PROVE QuietIsObserved'
    OBVIOUS
  <2>1. CASE Ask
    <3>1. UNCHANGED world /\ Feed' = Feed
      BY <2>1, AskIsQuiet DEF world, Feed
    <3>2. CASE GetCompanyNews
      <4>1. PICK start, end \in AskDates, up \in BOOLEAN, undated \in 0..1, limit \in 1..2 :
               Give("news", News(start, end, up, undated, limit), start, Clamp(end), NoTime)
        BY <3>2 DEF GetCompanyNews
      <4> DEFINE kept == {d \in articles : start <= d /\ d <= Clamp(end)}
      <4>2. ASSUME given'.kind = "no_data" PROVE kept = {}
        <5>1. News(start, end, up, undated, limit).kind = "no_data"
          BY <4>1, <4>2 DEF Give
        <5>2. FormatNews(kept, Cardinality(kept) + undated, limit).kind = "no_data"
          BY <5>1 DEF News, Unavailable
        <5> QED
          BY <5>2 DEF FormatNews, Told
      <4>3. given'.tool = "news" /\ given'.from = start /\ given'.to = Clamp(end)
        BY <4>1 DEF Give
      <4>4. \A d \in start..Clamp(end) : start <= d /\ d <= Clamp(end)
        OBVIOUS
      <4> QED
        BY <3>1, <4>2, <4>3, <4>4 DEF QuietIsObserved, world
    <3>3. CASE GetGlobalNews
      <4>1. PICK n \in Lookbacks, up \in BOOLEAN, limit \in 1..2 :
               Give("global_news", GlobalNews(n, up, limit), AsOf - n, AsOf, NoTime)
        BY <3>3 DEF GetGlobalNews
      <4>2. given'.tool = "global_news" /\ given'.from = AsOf - n /\ given'.to = AsOf
        BY <4>1 DEF Give
      <4>3. ASSUME given'.kind = "no_data"
            PROVE  /\ \A d \in (AsOf - n)..AsOf : d \notin articles
                   /\ \E d \in Feed : d < AsOf - n
                   /\ \E d \in Feed : d > AsOf
        <5>1. GlobalNews(n, up, limit).kind = "no_data"
          BY <4>1, <4>3 DEF Give
        <5>2. up = TRUE
          BY <5>1 DEF GlobalNews, Unavailable
        <5>3. n \in Nat
          BY DataAssumption
        <5> QED
          BY <5>1, <5>2, <5>3, FeedIsQuiet
      <4> QED
        BY <3>1, <4>2, <4>3 DEF QuietIsObserved, world
    <3>4. \/ GetCompanyNews \/ GetGlobalNews
          \/ given'.tool \notin {"news", "global_news"}
      BY <2>1 DEF Ask, Give, GetPriceHistory, GetIndicators, GetVerifiedSnapshot,
         GetFundamentals, GetStatement, GetInsiderTransactions, GetMacroSeries,
         GetStocktwitsMessages, GetRedditPosts
    <3> QED
      BY <3>2, <3>3, <3>4 DEF QuietIsObserved
  <2>2. CASE PutAway
    BY <2>2 DEF PutAway, NoAnswer, QuietIsObserved
  <2>3. CASE NextDay \/ Trade \/ Publish
    BY <2>3 DEF NextDay, Trade, Publish, NoAnswer, QuietIsObserved
  <2>4. CASE UNCHANGED dataVars
    BY <2>4 DEF dataVars, world, QuietIsObserved, Feed
  <2> QED
    BY <2>1, <2>2, <2>3, <2>4 DEF Next
<1> QED
  BY <1>1, <1>2, WorldStays, PTL DEF DataSpec

-----------------------------------------------------------------------------
(* Scoring. *)

\* The grader reads the world and leaves it as it is.
LEMMA GradingReads == ScoreSpec => DataSpec
<1>1. ScoreInit => Init
  BY DEF ScoreInit
<1>2. [ScoreNext]_scoreVars => [Next]_dataVars
  BY DEF ScoreNext, scoreVars, Grade
<1> QED
  BY <1>1, <1>2, PTL DEF ScoreSpec, DataSpec

\* Sets of days are finite, and a smaller one has fewer days.
LEMMA DaysCount ==
  ASSUME NEW S \in SUBSET Days, NEW B \in SUBSET S
  PROVE  /\ IsFiniteSet(S) /\ IsFiniteSet(B)
         /\ Cardinality(S) \in Nat /\ Cardinality(B) \in Nat
         /\ Cardinality(B) <= Cardinality(S)
<1>1. IsFiniteSet(Days)
  BY FS_Interval, DataAssumption DEF Days
<1>2. IsFiniteSet(S) /\ IsFiniteSet(B)
  BY <1>1, FS_Subset
<1> QED
  BY <1>2, FS_Subset, FS_CardinalityType

\* The first of some days is among the oldest.
LEMMA FirstIsOldest ==
  ASSUME NEW S \in SUBSET Days, S # {}, NEW n \in Nat \ {0}
  PROVE  Min(S) \in Oldest(S, n) /\ \A d \in S : Min(S) <= d
<1>1. Min(S) \in S /\ \A d \in S : Min(S) <= d
  BY FirstAndLast
<1>2. {x \in S : x < Min(S)} = {}
  <2>1. \A d \in S : d \in Nat
    BY DataAssumption DEF Days
  <2>2. \A d \in S : ~(d < Min(S))
    BY <1>1, <2>1
  <2> QED
    BY <2>2
<1>3. Cardinality({x \in S : x < Min(S)}) = 0
  BY <1>2, FS_EmptySet
<1> QED
  BY <1>1, <1>3 DEF Oldest

\* What happens from the day t on does not change the n oldest days when they are
\* earlier than t.
LEMMA OldestStand ==
  ASSUME NEW S \in SUBSET Days, NEW T \in SUBSET Days, NEW t \in Nat, NEW n \in Nat \ {0},
         \A d \in S \cup T : d <= t,
         \A d \in Days : d < t => (d \in S <=> d \in T),
         Cardinality(S) >= n, \A d \in Oldest(S, n) : d < t
  PROVE  /\ Oldest(T, n) = Oldest(S, n) /\ Cardinality(T) >= n
         /\ Min(T) = Min(S) /\ Min(S) \in Oldest(S, n)
<1> DEFINE B == {x \in S : x < t}
<1>1. \A d \in Days : d \in Nat
  BY DataAssumption DEF Days
<1>2. B = {x \in T : x < t} /\ B \subseteq S /\ B \subseteq T
  BY <1>1
<1>3. Cardinality(B) >= n /\ Cardinality(B) \in Nat
  <2>1. CASE t \in S
    <3>1. t \notin Oldest(S, n)
      BY <2>1, <1>1
    <3>2. ~(Cardinality(B) < n)
      BY <2>1, <3>1 DEF Oldest
    <3> QED
      BY <3>2, DaysCount
  <2>2. CASE t \notin S
    <3>1. B = S
      BY <2>2, <1>1
    <3> QED
      BY <3>1, DaysCount
  <2> QED
    BY <2>1, <2>2
<1>4. Cardinality(T) >= n /\ Cardinality(T) \in Nat
  BY <1>2, <1>3, DaysCount
<1>5. ASSUME NEW d \in T PROVE d \in Oldest(T, n) <=> d \in S /\ d \in Oldest(S, n)
  <2>1. CASE d < t
    <3>1. {x \in T : x < d} = {x \in S : x < d} /\ d \in S
      BY <1>1, <2>1
    <3> QED
      BY <3>1 DEF Oldest
  <2>2. CASE ~(d < t)
    <3>1. d = t
      BY <1>1, <2>2
    <3>2. ~(Cardinality({x \in T : x < d}) < n)
      BY <1>2, <1>3, <3>1
    <3>3. d \notin Oldest(T, n) /\ d \notin Oldest(S, n)
      BY <2>2, <3>2 DEF Oldest
    <3> QED
      BY <3>3
  <2> QED
    BY <2>1, <2>2
<1>6. \A d \in Oldest(S, n) : d \in T
  BY DEF Oldest
<1>7. Oldest(T, n) \subseteq T /\ Oldest(S, n) \subseteq S
  BY DEF Oldest
<1>8. Oldest(T, n) = Oldest(S, n)
  BY <1>5, <1>6, <1>7
<1>9. S # {} /\ T # {}
  BY <1>4, FS_EmptySet
<1>10. Min(S) \in Oldest(S, n) /\ \A d \in S : Min(S) <= d
  BY <1>9, FirstIsOldest
<1>11. Min(T) \in Oldest(T, n) /\ \A d \in T : Min(T) <= d
  BY <1>9, FirstIsOldest
<1>12. Min(S) <= Min(T) /\ Min(T) <= Min(S) /\ Min(S) \in Nat /\ Min(T) \in Nat
  BY <1>1, <1>7, <1>8, <1>10, <1>11
<1> QED
  BY <1>4, <1>8, <1>10, <1>12

\* The days a grading may read are days.
LEMMA ReadIsDays ==
  ASSUME WorldOK, NEW closes
  PROVE  /\ After \subseteq Days /\ Path \subseteq After
         /\ FromTradeDate(closes) \subseteq Days
         /\ Oldest(FromTradeDate(closes), Holding + 1) \subseteq FromTradeDate(closes)
  BY DEF After, Path, Oldest, FromTradeDate

\* What a verdict reads of the ticker's bars, when the world changes from the day
\* t on and the verdict read earlier days only.
LEMMA BarsReadStand ==
  ASSUME DataTypeOK, DataTypeOK', NEW t \in Nat,
         today <= t, today' <= t, today >= t - 1, today' >= t - 1,
         \A d \in Days : d < t => bars'[d] = bars[d],
         PathKnown, ReturnKnown(Closes), \A d \in Read : d < t
  PROVE  /\ Path' = Path /\ PathKnown' /\ ReturnKnown(Closes)'
         /\ \A d \in Path : bars'[d] = bars[d]
         /\ FirstClose(Closes)' = FirstClose(Closes)
         /\ LastClose(Closes)' = LastClose(Closes)
<1> DEFINE A == After
           A2 == After'
           F == FromTradeDate(Closes)
           F2 == FromTradeDate(Closes)'
<1>1. /\ Holding \in Nat \ {0} /\ Holding + 1 \in Nat \ {0} /\ today \in Nat /\ today' \in Nat
      /\ \A d \in Days : d \in Nat
  BY ScoreAssumption, DataAssumption DEF DataTypeOK, Days
<1>2. A \subseteq Days /\ A2 \subseteq Days /\ F \subseteq Days /\ F2 \subseteq Days
  BY DEF After, FromTradeDate
<1>3. /\ \A d \in A \cup A2 : d <= t
      /\ \A d \in Days : d < t => (d \in A <=> d \in A2)
  BY <1>1 DEF After, DataTypeOK
<1>4. \A d \in Days : d < t => Closes'[d] = Closes[d]
  BY DEF Closes
<1>5. /\ \A d \in F \cup F2 : d <= t
      /\ \A d \in Days : d < t => (d \in F <=> d \in F2)
  BY <1>1, <1>4 DEF FromTradeDate
<1>6. Cardinality(A) >= Holding /\ Cardinality(F) >= Holding + 1
  BY <1>1, <1>2, DaysCount DEF PathKnown, ReturnKnown
<1>7. (\A d \in Oldest(A, Holding) : d < t) /\ (\A d \in Oldest(F, Holding + 1) : d < t)
  BY DEF Read, Path
<1>8. Oldest(A, Holding) \subseteq Days /\ Oldest(F, Holding + 1) \subseteq Days
  BY <1>2 DEF Oldest
<1>9. Path = Oldest(A, Holding) /\ Path' = Oldest(A2, Holding)
  BY DEF Path, Oldest
<1>10. /\ FirstClose(Closes) = Closes[Min(F)] /\ FirstClose(Closes)' = Closes'[Min(F2)]
       /\ LastClose(Closes) = Closes[Max(Oldest(F, Holding + 1))]
       /\ LastClose(Closes)' = Closes'[Max(Oldest(F2, Holding + 1))]
       /\ PathKnown' = (Cardinality(A2) >= Holding)
       /\ ReturnKnown(Closes)' = (Cardinality(F2) > Holding)
  BY DEF FirstClose, LastClose, PathKnown, ReturnKnown, Oldest
<1> HIDE DEF A, A2, F, F2
<1>11. Oldest(A2, Holding) = Oldest(A, Holding) /\ Cardinality(A2) >= Holding
  BY <1>1, <1>2, <1>3, <1>6, <1>7, OldestStand
<1>12. /\ Oldest(F2, Holding + 1) = Oldest(F, Holding + 1) /\ Cardinality(F2) >= Holding + 1
       /\ Min(F2) = Min(F) /\ Min(F) \in Oldest(F, Holding + 1)
  BY <1>1, <1>2, <1>5, <1>6, <1>7, OldestStand
<1>13. Max(Oldest(F, Holding + 1)) \in Oldest(F, Holding + 1)
  BY <1>8, <1>12, FirstAndLast
<1>14. /\ Closes'[Min(F)] = Closes[Min(F)]
       /\ Closes'[Max(Oldest(F, Holding + 1))] = Closes[Max(Oldest(F, Holding + 1))]
  BY <1>4, <1>7, <1>8, <1>12, <1>13
<1>15. \A d \in Path : bars'[d] = bars[d]
  BY <1>7, <1>8, <1>9
<1>16. Cardinality(F2) > Holding
  BY <1>1, <1>2, <1>12, DaysCount
<1> QED
  BY <1>9, <1>10, <1>11, <1>12, <1>14, <1>15, <1>16

\* What a verdict reads of the benchmark, whose closes are given.
LEMMA BenchmarkReadStands ==
  ASSUME DataTypeOK, DataTypeOK', today' = today \/ today' = today + 1,
         ReturnKnown(Benchmark)
  PROVE  /\ ReturnKnown(Benchmark)'
         /\ FirstClose(Benchmark)' = FirstClose(Benchmark)
         /\ LastClose(Benchmark)' = LastClose(Benchmark)
<1> DEFINE F == FromTradeDate(Benchmark)
           F2 == FromTradeDate(Benchmark)'
<1>1. /\ Holding \in Nat \ {0} /\ Holding + 1 \in Nat \ {0} /\ today \in Nat /\ today + 1 \in Nat
      /\ \A d \in Days : d \in Nat
  BY ScoreAssumption, DataAssumption DEF DataTypeOK, Days
<1>2. F \subseteq Days /\ F2 \subseteq Days
  BY DEF FromTradeDate
<1>3. /\ \A d \in F \cup F2 : d <= today + 1
      /\ \A d \in Days : d < today + 1 => (d \in F <=> d \in F2)
      /\ \A d \in F : d < today + 1
  BY <1>1 DEF FromTradeDate
<1>4. Cardinality(F) >= Holding + 1 /\ \A d \in Oldest(F, Holding + 1) : d < today + 1
  BY <1>1, <1>2, <1>3, DaysCount DEF ReturnKnown, Oldest
<1>5. /\ FirstClose(Benchmark) = Benchmark[Min(F)] /\ FirstClose(Benchmark)' = Benchmark[Min(F2)]
      /\ LastClose(Benchmark) = Benchmark[Max(Oldest(F, Holding + 1))]
      /\ LastClose(Benchmark)' = Benchmark[Max(Oldest(F2, Holding + 1))]
      /\ ReturnKnown(Benchmark)' = (Cardinality(F2) > Holding)
  BY DEF FirstClose, LastClose, ReturnKnown, Oldest
<1> HIDE DEF F, F2
<1>6. /\ Oldest(F2, Holding + 1) = Oldest(F, Holding + 1) /\ Cardinality(F2) >= Holding + 1
      /\ Min(F2) = Min(F)
  BY <1>1, <1>2, <1>3, <1>4, OldestStand
<1>7. Cardinality(F2) > Holding
  BY <1>1, <1>2, <1>6, DaysCount
<1> QED
  BY <1>5, <1>6, <1>7

\* A grading of days that are over has its verdict again.
LEMMA ScoreStands ==
  ASSUME DataTypeOK, DataTypeOK', [Next]_dataVars, world' # world,
         NEW rating \in Ratings, NEW stop \in Stops \cup {NoStop},
         Score(rating, stop, TRUE, AllOk).code # 75, Max(Read) < today
  PROVE  Score(rating, stop, TRUE, AllOk)' = Score(rating, stop, TRUE, AllOk)
<1>1. /\ PathKnown /\ ReturnKnown(Closes)
      /\ ~IsBenchmark => ReturnKnown(Benchmark)
  BY DEF Score, AllOk, Blocked
<1>2. WorldOK /\ today \in Nat
  BY DataAssumption DEF DataTypeOK, WorldOK, Days
<1>3. Path # {} /\ Path \subseteq Days /\ Read \subseteq Days
  <2>1. Path \subseteq Days /\ Read \subseteq Days
    BY <1>2, ReadIsDays DEF Read
  <2>2. After # {}
    <3>1. Holding \in Nat \ {0} /\ Cardinality(After) >= Holding
      BY <1>1, ScoreAssumption DEF PathKnown
    <3> QED
      BY <3>1, FS_EmptySet
  <2>3. Min(After) \in Path
    BY <1>2, <2>2, FirstIsOldest, ReadIsDays, ScoreAssumption DEF Path
  <2> QED
    BY <2>1, <2>3
<1>4. \A d \in Read : d < today
  <2>1. Read # {}
    BY <1>3 DEF Read
  <2>2. Max(Read) \in Read /\ \A d \in Read : Max(Read) >= d
    BY <1>3, <2>1, FirstAndLast
  <2>3. \A d \in Days : d \in Nat
    BY DataAssumption DEF Days
  <2> QED
    BY <1>2, <1>3, <2>2, <2>3
<1>5. CASE NextDay \/ Trade \/ Publish
  <2>1. PICK t \in Nat : /\ today <= t /\ today' <= t /\ today >= t - 1 /\ today' >= t - 1
                         /\ \A d \in Days : d < t => bars'[d] = bars[d]
                         /\ \A d \in Read : d < t
    <3>1. CASE NextDay \/ Publish
      <4>1. bars' = bars /\ (today' = today + 1 \/ today' = today)
        BY <3>1 DEF NextDay, Publish
      <4> QED
        BY <1>2, <1>3, <1>4, <4>1, DataAssumption DEF Days
    <3>2. CASE Trade
      <4>1. today' = today /\ \E b \in Shapes : bars' = [bars EXCEPT ![today] = b]
        BY <3>2 DEF Trade
      <4>2. \A d \in Days : d < today => bars'[d] = bars[d]
        BY <1>2, <4>1, DataAssumption DEF WorldOK, Days
      <4> QED
        BY <1>2, <1>4, <4>1, <4>2
    <3> QED
      BY <1>5, <3>1, <3>2
  <2>2. /\ Path' = Path /\ PathKnown' /\ ReturnKnown(Closes)'
        /\ \A d \in Path : bars'[d] = bars[d]
        /\ FirstClose(Closes)' = FirstClose(Closes)
        /\ LastClose(Closes)' = LastClose(Closes)
    BY <1>1, <2>1, BarsReadStand
  <2>3. ~IsBenchmark => /\ ReturnKnown(Benchmark)'
                        /\ FirstClose(Benchmark)' = FirstClose(Benchmark)
                        /\ LastClose(Benchmark)' = LastClose(Benchmark)
    <3>1. today' = today \/ today' = today + 1
      BY <1>5 DEF NextDay, Trade, Publish
    <3> QED
      BY <1>1, <3>1, BenchmarkReadStands
  <2>4. bars'[Max(Path)] = bars[Max(Path)]
    BY <1>3, <2>2, FirstAndLast
  <2>5. \A dir : Touches(dir, stop)' = Touches(dir, stop)
    <3>1. ASSUME NEW dir PROVE Touches(dir, stop)' = Touches(dir, stop)
      BY <2>2 DEF Touches
    <3> QED
      BY <3>1
  <2>6. \A dir : ExitPrice(dir, stop)' = ExitPrice(dir, stop)
    BY <2>2, <2>4, <2>5 DEF ExitPrice
  <2>7. Graded(rating, stop)' = Graded(rating, stop)
    <3> DEFINE dir == Direction(rating)
    <3>1. ExitPrice(dir, stop)' = ExitPrice(dir, stop)
      BY <2>6 DEF Direction
    <3>2. CASE IsBenchmark
      BY <2>2, <2>4, <3>1, <3>2 DEF Graded
    <3>3. CASE ~IsBenchmark
      BY <2>2, <2>3, <2>4, <3>1, <3>3 DEF Graded
    <3> QED
      BY <3>2, <3>3
  <2>8. Score(rating, stop, TRUE, AllOk)
          = IF Graded(rating, stop) THEN [code |-> 0, line |-> "PASS"]
            ELSE [code |-> 1, line |-> "FAIL"]
    BY <1>1 DEF Score, AllOk
  <2>9. Score(rating, stop, TRUE, AllOk)'
          = IF Graded(rating, stop)' THEN [code |-> 0, line |-> "PASS"]
            ELSE [code |-> 1, line |-> "FAIL"]
    BY <2>2, <2>3 DEF Score, AllOk
  <2> QED
    BY <2>7, <2>8, <2>9
<1> QED
  BY <1>5, AskIsQuiet DEF Next, dataVars

\* A cell that has been graded on bars of days that are over keeps its verdict,
\* whatever bars are published later (score.py run again on a later day).
THEOREM VerdictsStand == ScoreSpec => VerdictStands
<1> DEFINE Stand ==
      world' # world =>
          \A rating \in Ratings, stop \in Stops \cup {NoStop} :
             LET v == Score(rating, stop, TRUE, AllOk)
             IN  v.code # 75 /\ Max(Read) < today =>
                    (Score(rating, stop, TRUE, AllOk))' = v
<1>1. [ScoreNext]_scoreVars => [Next]_dataVars
  BY DEF ScoreNext, scoreVars, Grade
<1>2. DataTypeOK /\ DataTypeOK' /\ [ScoreNext]_scoreVars => Stand
  BY <1>1, ScoreStands
<1> HIDE DEF Stand
<1>3. DataTypeOK /\ DataTypeOK' /\ [ScoreNext]_scoreVars => [Stand]_scoreVars
  BY <1>2
<1>4. ScoreSpec => [][Stand]_scoreVars
  BY <1>3, GradingReads, DataTypeCorrect, PTL DEF ScoreSpec
<1> QED
  BY <1>4 DEF Stand, VerdictStands

\* The n oldest of some days are n, if there are that many.
LEMMA OldestCount ==
  ASSUME NEW S \in SUBSET Days, NEW n \in Nat \ {0}, Cardinality(S) >= n
  PROVE  Cardinality(Oldest(S, n)) >= n
<1> DEFINE B == Oldest(S, n)
           R == S \ B
<1>1. B \subseteq S /\ R \subseteq Days
  BY DEF Oldest
<1>2. CASE R = {}
  <2>1. B = S
    BY <1>1, <1>2
  <2> QED
    BY <2>1
<1>3. CASE R # {}
  <2>1. Min(R) \in R /\ \A d \in R : Min(R) <= d
    BY <1>1, <1>3, FirstAndLast
  <2>2. \A d \in Days : d \in Nat
    BY DataAssumption DEF Days
  <2> DEFINE earlier == {x \in S : x < Min(R)}
  <2>3. earlier \subseteq B
    BY <1>1, <2>1, <2>2
  <2>4. ~(Cardinality(earlier) < n)
    BY <2>1 DEF Oldest
  <2>5. /\ Cardinality(earlier) \in Nat /\ Cardinality(B) \in Nat
        /\ Cardinality(earlier) <= Cardinality(B)
    <3>1. B \in SUBSET Days
      BY <1>1
    <3> HIDE DEF B, earlier
    <3> QED
      BY <2>3, <3>1, DaysCount
  <2> HIDE DEF B, earlier
  <2>6. Cardinality(B) >= n
    BY <2>4, <2>5
  <2> QED
    BY <2>6 DEF B
<1> QED
  BY <1>2, <1>3

\* One day more.
LEMMA OneMore ==
  ASSUME NEW S \in SUBSET Days, NEW d \in Days \ S
  PROVE  Cardinality(S \cup {d}) = Cardinality(S) + 1 /\ Cardinality(S) \in Nat
  BY DaysCount, FS_AddElement

\* A verdict depends on the ratio of its two numbers.
LEMMA RightScales ==
  ASSUME NEW dir \in {-1, 0, 1}, NEW c \in Nat \ {0}, NEW num \in Int, NEW den \in Nat
  PROVE  Right(dir, c * num, c * den) <=> Right(dir, num, den)
<1>1. \A a, b \in Int : c * a <= c * b <=> a <= b
  OBVIOUS
<1>2. BandNum \in Int /\ BandDen \in Int
  BY ScoreAssumption
<1>3. /\ (c * num) * BandDen = c * (num * BandDen)
      /\ -(c * num) * BandDen = c * (-num * BandDen)
      /\ BandNum * (c * den) = c * (BandNum * den)
      /\ num * BandDen \in Int /\ -num * BandDen \in Int /\ BandNum * den \in Int
  BY <1>2
<1>4. dir = 0 => (Right(dir, c * num, c * den) <=> Right(dir, num, den))
  BY <1>1, <1>3 DEF Right
<1>5. dir = 1 => (dir * (c * num) > 0 <=> dir * num > 0)
  OBVIOUS
<1>6. dir = -1 => (dir * (c * num) > 0 <=> dir * num > 0)
  OBVIOUS
<1> QED
  BY <1>4, <1>5, <1>6 DEF Right

\* The sessions the position is held are those of the path.
LEMMA PathIsHeld ==
  ASSUME WorldOK, PathKnown
  PROVE  /\ Held = Path /\ Path # {} /\ Path \subseteq Days
         /\ Max(Path) \in Path /\ \A d \in Path : d <= Max(Path)
         /\ (CHOOSE d \in Held : \A x \in Held : x <= d) = Max(Path)
         /\ Cardinality(Path) >= Holding
<1>1. Holding \in Nat \ {0} /\ \A d \in Days : d \in Nat
  BY ScoreAssumption, DataAssumption DEF Days
<1>2. After \subseteq Days /\ Path \subseteq After /\ Cardinality(After) >= Holding
  BY ReadIsDays DEF PathKnown
<1>3. ASSUME NEW d \in After
      PROVE  d \in Held <=> d \in Path
  <2> DEFINE S == {x \in After : x < d}
  <2>1. {x \in After : x <= d} = S \cup {d}
    BY <1>1, <1>2
  <2>2. S \in SUBSET Days /\ d \in Days \ S
    BY <1>1, <1>2
  <2>3. (d \in Held <=> Cardinality(S \cup {d}) <= Holding) /\ (d \in Path <=> Cardinality(S) < Holding)
    BY <2>1 DEF Held, Path, Oldest
  <2> HIDE DEF S
  <2> QED
    BY <1>1, <2>2, <2>3, OneMore
<1>4. Held = Path
  BY <1>2, <1>3 DEF Held
<1>5. Cardinality(Path) >= Holding
  BY <1>1, <1>2, OldestCount DEF Path
<1>6. Path # {} /\ Path \subseteq Days
  BY <1>1, <1>2, <1>5, FS_EmptySet
<1>7. Max(Path) \in Path /\ \A d \in Path : d <= Max(Path)
  BY <1>1, <1>6, FirstAndLast
<1>8. \A d \in Path : (\A x \in Path : x <= d) => d = Max(Path)
  BY <1>1, <1>6, <1>7
<1>9. (CHOOSE d \in Path : \A x \in Path : x <= d) = Max(Path)
  BY <1>7, <1>8
<1> QED
  BY <1>4, <1>5, <1>6, <1>7, <1>9

\* From the trade date on: its bar, and those after it.
LEMMA EntryAndExit ==
  ASSUME DataTypeOK, PathKnown, bars[AsOf] # NoBar
  PROVE  /\ FromTradeDate(Closes) = After \cup {AsOf}
         /\ Oldest(FromTradeDate(Closes), Holding + 1) = Path \cup {AsOf}
         /\ FirstClose(Closes) = bars[AsOf].close
         /\ LastClose(Closes) = bars[Max(Path)].close
<1> DEFINE F == FromTradeDate(Closes)
<1>1. /\ Holding \in Nat \ {0} /\ today \in Nat /\ AsOf \in Days
      /\ \A d \in Days : d \in Nat
  BY ScoreAssumption, DataAssumption DEF DataTypeOK, Days
<1>2. WorldOK
  BY DEF DataTypeOK, WorldOK
<1>3. /\ After \subseteq Days /\ Path \subseteq After /\ Path # {}
      /\ Max(Path) \in Path /\ \A d \in Path : d <= Max(Path)
  BY <1>2, PathIsHeld, ReadIsDays
<1>4. \A d \in Days : bars[d] # NoBar => d <= today /\ bars[d].close \in Nat \ {0}
  BY <1>1, ScoreAssumption DEF DataTypeOK
<1>5. \A d \in Days : Closes[d] = IF bars[d] = NoBar THEN 0 ELSE bars[d].close
  BY DEF Closes
<1>6. \A d \in Days : Closes[d] # 0 <=> bars[d] # NoBar
  BY <1>4, <1>5
<1>7. F = After \cup {AsOf}
  BY <1>1, <1>4, <1>6 DEF FromTradeDate, After
<1>8. \A d \in After : AsOf < d
  BY DEF After
<1>9. Oldest(F, Holding + 1) = Path \cup {AsOf}
  <2>1. AsOf \in Oldest(F, Holding + 1)
    <3>1. {x \in F : x < AsOf} = {}
      BY <1>1, <1>3, <1>7, <1>8
    <3>2. Cardinality({x \in F : x < AsOf}) < Holding + 1
      BY <1>1, <3>1, FS_EmptySet
    <3> QED
      BY <1>7, <3>2 DEF Oldest
  <2>2. ASSUME NEW d \in After PROVE d \in Oldest(F, Holding + 1) <=> d \in Path
    <3> DEFINE S == {x \in After : x < d}
    <3>1. {x \in F : x < d} = S \cup {AsOf}
      BY <1>7, <1>8
    <3>2. S \in SUBSET Days /\ AsOf \in Days \ S
      BY <1>1, <1>3, <1>8
    <3>3. /\ d \in Oldest(F, Holding + 1) <=> Cardinality(S \cup {AsOf}) < Holding + 1
          /\ d \in Path <=> Cardinality(S) < Holding
      BY <1>7, <3>1 DEF Path, Oldest
    <3> HIDE DEF S
    <3> QED
      BY <1>1, <3>2, <3>3, OneMore
  <2>3. Oldest(F, Holding + 1) \subseteq F
    BY DEF Oldest
  <2> QED
    BY <1>3, <1>7, <2>1, <2>2, <2>3
<1>10. Min(F) = AsOf
  <2>1. F \in SUBSET Days /\ F # {}
    BY <1>1, <1>3, <1>7
  <2>2. Min(F) \in F /\ \A d \in F : Min(F) <= d
    BY <2>1, FirstAndLast
  <2> QED
    BY <1>1, <1>3, <1>7, <1>8, <2>2
<1>11. Max(Path \cup {AsOf}) = Max(Path)
  <2> DEFINE S == Path \cup {AsOf}
  <2>1. S \in SUBSET Days /\ S # {}
    BY <1>1, <1>3
  <2>2. Max(S) \in S /\ \A d \in S : Max(S) >= d
    BY <2>1, FirstAndLast
  <2>3. Max(S) \in Nat /\ Max(Path) \in Nat /\ Max(S) >= Max(Path) /\ AsOf < Max(Path)
    BY <1>1, <1>3, <1>8, <2>1, <2>2
  <2>4. Max(S) <= Max(Path)
    BY <1>1, <1>3, <2>2, <2>3
  <2> QED
    BY <2>3, <2>4
<1>12. Closes[AsOf] = bars[AsOf].close /\ Closes[Max(Path)] = bars[Max(Path)].close
  BY <1>1, <1>3, <1>5 DEF After, Path, Oldest
<1> QED
  BY <1>7, <1>9, <1>10, <1>11, <1>12 DEF FirstClose, LastClose

\* On the same sessions the benchmark is read on the same two days.
LEMMA BenchmarkIsTheSame ==
  ASSUME DataTypeOK, PathKnown, SameSessions, ReturnKnown(Benchmark)
  PROVE  /\ FirstClose(Benchmark) = Benchmark[AsOf] /\ Benchmark[AsOf] \in Nat \ {0}
         /\ LastClose(Benchmark) = Benchmark[Max(Path)] /\ Benchmark[Max(Path)] \in Nat \ {0}
<1> DEFINE F == FromTradeDate(Closes)
           G == FromTradeDate(Benchmark)
           out == Max(Path)
<1>1. /\ Holding \in Nat \ {0} /\ today \in Nat /\ AsOf \in Days
      /\ \A d \in Days : d \in Nat
      /\ Benchmark \in [Days -> Nat]
  BY ScoreAssumption, DataAssumption DEF DataTypeOK, Days
<1>2. WorldOK /\ bars[AsOf] # NoBar
  BY DEF DataTypeOK, WorldOK, SameSessions
<1>3. /\ Path \subseteq After /\ Path \subseteq Days /\ Path # {}
      /\ out \in Path /\ \A d \in Path : d <= out
      /\ Cardinality(Path) >= Holding
  BY <1>2, PathIsHeld, ReadIsDays
<1>4. F = After \cup {AsOf} /\ Oldest(F, Holding + 1) = Path \cup {AsOf}
  BY <1>2, EntryAndExit
<1>5. /\ After = {d \in Days : d > AsOf /\ bars[d] # NoBar}
      /\ \A d \in Days : bars[d] # NoBar => d <= today
  BY <1>1 DEF After, DataTypeOK
<1>6. G = {d \in Days : d >= AsOf /\ d <= today /\ Benchmark[d] # 0}
  BY DEF FromTradeDate
<1>7. out \in Nat /\ out \in Days /\ AsOf < out /\ out <= today
  BY <1>1, <1>3, <1>5
<1>8. \A d \in AsOf..out : bars[d] = NoBar <=> Benchmark[d] = 0
  BY DEF SameSessions
<1>9. \A d \in Days : d <= out => (d \in F <=> d \in G)
  <2>1. ASSUME NEW d \in Days, d <= out, d >= AsOf
        PROVE  d \in F <=> d \in G
    <3>1. d \in AsOf..out
      BY <1>1, <1>7, <2>1
    <3>2. bars[d] = NoBar <=> Benchmark[d] = 0
      BY <1>8, <3>1
    <3>3. d <= today
      BY <1>1, <1>7, <2>1
    <3>4. d \in F <=> bars[d] # NoBar
      BY <1>1, <1>2, <1>4, <1>5, <2>1
    <3> QED
      BY <1>6, <2>1, <3>2, <3>3, <3>4
  <2>2. ASSUME NEW d \in Days, ~(d >= AsOf)
        PROVE  d \notin F /\ d \notin G
    BY <1>1, <1>4, <1>5, <1>6, <2>2
  <2> QED
    BY <2>1, <2>2
<1>10. AsOf \in G /\ out \in G /\ G \subseteq Days
  BY <1>1, <1>3, <1>4, <1>6, <1>7, <1>9
<1>11. Min(G) = AsOf
  <2>1. Min(G) \in G /\ \A d \in G : Min(G) <= d
    BY <1>10, FirstAndLast
  <2>2. Min(G) <= AsOf /\ Min(G) >= AsOf /\ Min(G) \in Nat
    BY <1>1, <1>6, <1>10, <2>1
  <2> QED
    BY <1>1, <2>2
<1>12. out \in Oldest(G, Holding + 1)
  <2>1. {x \in G : x < out} = {x \in F : x < out}
    BY <1>1, <1>4, <1>5, <1>6, <1>7, <1>9
  <2>2. Cardinality({x \in F : x < out}) < Holding + 1
    <3>1. out \in Oldest(F, Holding + 1)
      BY <1>3, <1>4
    <3> QED
      BY <3>1 DEF Oldest
  <2> QED
    BY <1>10, <2>1, <2>2 DEF Oldest
<1>13. ASSUME NEW d \in Oldest(G, Holding + 1), d > out
       PROVE  FALSE
  <2> DEFINE B == {x \in G : x < d}
  <2>1. d \in G /\ Cardinality(B) < Holding + 1
    BY <1>13 DEF Oldest
  <2>2. Path \cup {AsOf} \subseteq B /\ B \subseteq Days
    <3>1. ASSUME NEW x \in Path \cup {AsOf} PROVE x \in B
      <4>1. x \in Days /\ x <= out /\ x \in F
        BY <1>1, <1>3, <1>4, <1>7
      <4>2. x \in G /\ x < d
        BY <1>1, <1>7, <1>9, <1>10, <1>13, <2>1, <4>1
      <4> QED
        BY <4>2
    <3> QED
      BY <1>10, <3>1
  <2>3. AsOf \in Days \ Path /\ Path \in SUBSET Days
    BY <1>1, <1>3, <1>5
  <2>4. Cardinality(Path \cup {AsOf}) = Cardinality(Path) + 1 /\ Cardinality(Path) \in Nat
    BY <2>3, OneMore
  <2>5. Cardinality(Path \cup {AsOf}) <= Cardinality(B) /\ Cardinality(B) \in Nat
    <3> HIDE DEF B
    <3> QED
      BY <2>2, DaysCount
  <2> QED
    BY <1>1, <1>3, <2>1, <2>4, <2>5
<1>14. Max(Oldest(G, Holding + 1)) = out
  <2> DEFINE S == Oldest(G, Holding + 1)
  <2>1. S \in SUBSET Days /\ S # {} /\ out \in S
    BY <1>10, <1>12 DEF Oldest
  <2>2. \A d \in S : ~(d > out)
    BY <1>13
  <2> HIDE DEF S
  <2>3. Max(S) \in S /\ \A d \in S : Max(S) >= d
    BY <2>1, FirstAndLast
  <2>4. Max(S) \in Nat /\ Max(S) >= out /\ ~(Max(S) > out)
    BY <1>1, <2>1, <2>2, <2>3
  <2>5. Max(S) = out
    BY <1>7, <2>4
  <2> QED
    BY <2>5 DEF S
<1>15. Benchmark[AsOf] \in Nat \ {0} /\ Benchmark[out] \in Nat \ {0}
  BY <1>1, <1>6, <1>7, <1>10
<1> QED
  BY <1>11, <1>14, <1>15 DEF FirstClose, LastClose

\* The grade is that of the position: the entry price recovered from a return, and
\* bars counted in two frames or three, come to the investor's own figures.
LEMMA GradeIsThePosition ==
  ASSUME DataTypeOK, NEW rating \in Ratings, NEW stop \in Stops \cup {NoStop},
         PathKnown, ~IsBenchmark => ReturnKnown(Benchmark), SameSessions
  PROVE  Graded(rating, stop) <=> Position(rating, stop)
<1> DEFINE dir == Direction(rating)
           out == Max(Path)
           c == bars[out].close
           e == bars[AsOf].close
           exit == ExitPrice(dir, stop)
<1>1. dir \in {-1, 0, 1}
  BY DEF Direction
<1>2. WorldOK /\ bars[AsOf] # NoBar /\ AsOf \in Days
  BY DataAssumption DEF DataTypeOK, WorldOK, SameSessions
<1>3. Held = Path /\ (CHOOSE d \in Held : \A x \in Held : x <= d) = out /\ out \in Path
  BY <1>2, PathIsHeld
<1>4. out \in Days /\ bars[out] # NoBar
  BY <1>3 DEF Path, Oldest, After
<1>5. c \in Nat \ {0} /\ e \in Nat \ {0}
  BY <1>2, <1>4, ScoreAssumption DEF DataTypeOK
<1>6. exit \in Nat
  <2>1. stop # NoStop => stop \in Nat
    BY ScoreAssumption
  <2> QED
    BY <1>5, <2>1 DEF ExitPrice
<1>7. FirstClose(Closes) = e /\ LastClose(Closes) = c
  BY <1>2, EntryAndExit
<1>8. exit = IF /\ stop # NoStop
                /\ \E d \in Held : \/ dir = 1 /\ bars[d].low <= stop
                                   \/ dir = -1 /\ bars[d].high >= stop
             THEN stop ELSE c
  <2>1. Touches(dir, stop) # {} <=>
           \E d \in Held : \/ dir = 1 /\ bars[d].low <= stop
                           \/ dir = -1 /\ bars[d].high >= stop
    BY <1>3 DEF Touches
  <2> QED
    BY <2>1 DEF ExitPrice
<1>9. Position(rating, stop) =
        IF IsBenchmark THEN Right(dir, exit - e, e)
        ELSE Right(dir, exit * Benchmark[AsOf] - Benchmark[out] * e, e * Benchmark[AsOf])
  <2> DEFINE left == CHOOSE d \in Held : \A x \in Held : x <= d
             stopped == \E d \in Held : \/ dir = 1 /\ bars[d].low <= stop
                                        \/ dir = -1 /\ bars[d].high >= stop
             price == IF stop # NoStop /\ stopped THEN stop ELSE bars[left].close
  <2>1. Position(rating, stop) =
          IF IsBenchmark THEN Right(dir, price - bars[AsOf].close, bars[AsOf].close)
          ELSE Right(dir, price * Benchmark[AsOf] - Benchmark[left] * bars[AsOf].close,
                     bars[AsOf].close * Benchmark[AsOf])
    BY DEF Position
  <2>2. left = out
    BY <1>3
  <2>3. price = exit
    BY <1>8, <2>2
  <2> HIDE DEF left, stopped, price, out, exit
  <2> QED
    BY <2>1, <2>2, <2>3
<1>10. CASE IsBenchmark
  <2>1. Graded(rating, stop) = Right(dir, exit * c * 1 - 1 * (c * e), c * e * 1)
    BY <1>7, <1>10 DEF Graded
  <2> HIDE DEF dir, out, c, e, exit
  <2>2. exit * c * 1 - 1 * (c * e) = c * (exit - e) /\ c * e * 1 = c * e /\ exit - e \in Int
    BY <1>5, <1>6
  <2>3. Right(dir, c * (exit - e), c * e) <=> Right(dir, exit - e, e)
    BY <1>1, <1>5, <2>2, RightScales
  <2>4. Position(rating, stop) <=> Right(dir, exit - e, e)
    BY <1>9, <1>10
  <2>5. Graded(rating, stop) <=> Right(dir, c * (exit - e), c * e)
    BY <2>1, <2>2
  <2> QED
    BY <2>3, <2>4, <2>5
<1>11. CASE ~IsBenchmark
  <2> DEFINE b == Benchmark[AsOf]
             l == Benchmark[out]
  <2>1. b \in Nat \ {0} /\ l \in Nat \ {0} /\ FirstClose(Benchmark) = b /\ LastClose(Benchmark) = l
    BY <1>11, BenchmarkIsTheSame
  <2>2. Graded(rating, stop) = Right(dir, exit * c * b - l * (c * e), c * e * b)
    BY <1>7, <1>11, <2>1 DEF Graded
  <2> HIDE DEF dir, out, c, e, exit, b, l
  <2>3. /\ exit * c * b - l * (c * e) = c * (exit * b - l * e) /\ c * e * b = c * (e * b)
        /\ exit * b - l * e \in Int /\ e * b \in Nat
    BY <1>5, <1>6, <2>1
  <2>4. Position(rating, stop) <=> Right(dir, exit * b - l * e, e * b)
    BY <1>9, <1>11 DEF b, l
  <2>5. Right(dir, c * (exit * b - l * e), c * (e * b)) <=> Right(dir, exit * b - l * e, e * b)
    BY <1>1, <1>5, <2>3, RightScales
  <2>6. Graded(rating, stop) <=> Right(dir, c * (exit * b - l * e), c * (e * b))
    BY <2>2, <2>3
  <2> QED
    BY <2>4, <2>5, <2>6
<1> QED
  BY <1>10, <1>11

\* What the last grading printed, of the world it read.
Printed ==
    verdict.line \in {"PASS", "FAIL"} =>
        /\ verdict.rating \in Ratings /\ verdict.stop \in Stops \cup {NoStop}
        /\ PathKnown /\ (~IsBenchmark => ReturnKnown(Benchmark))
        /\ verdict.line = "PASS" <=> Graded(verdict.rating, verdict.stop)

\* A grading prints PASS or FAIL of what it has computed, and the world waits.
LEMMA NextPrinted == Printed /\ [ScoreNext]_scoreVars => Printed'
<1> SUFFICES ASSUME Printed, [ScoreNext]_scoreVars PROVE Printed'
  OBVIOUS
<1>1. CASE verdict = NotGraded /\ UNCHANGED verdict
  BY <1>1 DEF NotGraded, Printed
<1>2. CASE verdict' = NotGraded
  BY <1>2 DEF NotGraded, Printed
<1>3. CASE Grade
  <2>1. PICK rating \in Ratings \cup {"none"}, stop \in Stops \cup {NoStop},
             fixed \in BOOLEAN, failure \in Failures \cup {AllOk} :
          verdict' = [code |-> Score(rating, stop, fixed, failure).code,
                      line |-> Score(rating, stop, fixed, failure).line,
                      rating |-> rating, stop |-> stop]
    BY <1>3 DEF Grade
  <2>2. UNCHANGED <<today, bars>>
    BY <1>3 DEF Grade, dataVars, world
  <2>3. Score(rating, stop, fixed, failure).line \in {"PASS", "FAIL"} =>
          /\ rating \in Ratings
          /\ PathKnown /\ (~IsBenchmark => ReturnKnown(Benchmark))
          /\ Score(rating, stop, fixed, failure).line = "PASS" <=> Graded(rating, stop)
    BY DEF Score, Blocked, Traceback
  <2>4. /\ PathKnown' <=> PathKnown
        /\ ReturnKnown(Benchmark)' <=> ReturnKnown(Benchmark)
        /\ Graded(rating, stop)' = Graded(rating, stop)
    BY <2>2 DEF PathKnown, ReturnKnown, Graded, ExitPrice, Touches, Path, After, Oldest,
                FromTradeDate, FirstClose, LastClose, Closes
  <2>5. /\ verdict'.line = Score(rating, stop, fixed, failure).line
        /\ verdict'.rating = rating /\ verdict'.stop = stop
    BY <2>1
  <2> QED
    BY <2>3, <2>4, <2>5 DEF Printed
<1>4. CASE UNCHANGED scoreVars
  BY <1>4 DEF scoreVars, dataVars, world, Printed, PathKnown, ReturnKnown, Graded, ExitPrice,
              Touches, Path, After, Oldest, FromTradeDate, FirstClose, LastClose, Closes
<1> QED
  BY <1>1, <1>2, <1>3, <1>4 DEF ScoreNext

\* A verdict is that of the position it stands for, on whatever day the cell is
\* graded, when the trade date is a session and the two calendars are one
\* (score.grade and realised, data.path_after and return_after).
THEOREM VerdictsAreRight == ScoreSpec => []VerdictIsThePosition
<1>1. ScoreInit => Printed
  BY DEF ScoreInit, NotGraded, Printed
<1>2. DataTypeOK /\ Printed => VerdictIsThePosition
  BY GradeIsThePosition DEF Printed, VerdictIsThePosition
<1> QED
  BY <1>1, <1>2, NextPrinted, GradingReads, DataTypeCorrect, PTL DEF ScoreSpec

-----------------------------------------------------------------------------
(* Time. *)

\* g is the sum of f over each of the sets of D, element by element.
Some(s) == CHOOSE x \in s : TRUE
Sums(g, f, D) == g = [s \in D |-> IF s = {} THEN 0 ELSE f[Some(s)] + g[s \ {Some(s)}]]

\* What is wrong for some number is wrong for a least one.
LEMMA LeastNumber ==
  ASSUME NEW Bad \in SUBSET Nat, Bad # {}
  PROVE  \E n \in Bad : n = 0 \/ (n - 1 \in Nat /\ n - 1 \notin Bad)
<1> DEFINE R == {ss \in Nat \X Nat : ss[1] < ss[2]}
<1>1. IsWellFoundedOn(R, Nat)
  BY NatLessThanWellFounded, Zenon DEF OpToRel
<1>2. \A x, y \in Nat : x < y => <<x, y>> \in R
  OBVIOUS
<1> HIDE DEF R
<1>3. PICK n \in Bad : \A m \in Bad : <<m, n>> \notin R
  BY <1>1, WFMin
<1>4. n # 0 => n - 1 \in Nat /\ n - 1 < n
  OBVIOUS
<1> QED
  BY <1>2, <1>3, <1>4

\* A set with an element less is smaller by one.
LEMMA OneLess ==
  ASSUME NEW S, IsFiniteSet(S), NEW s \in SUBSET S, s # {}
  PROVE  /\ Some(s) \in s /\ s \ {Some(s)} \in SUBSET S
         /\ Cardinality(s) \in Nat \ {0}
         /\ Cardinality(s \ {Some(s)}) = Cardinality(s) - 1
<1>1. Some(s) \in s
  BY DEF Some
<1>2. IsFiniteSet(s)
  BY FS_Subset
<1>3. Cardinality(s) \in Nat /\ Cardinality(s) # 0
  BY <1>2, FS_CardinalityType, FS_EmptySet
<1> QED
  BY <1>1, <1>2, <1>3, FS_RemoveElement

\* A finite set has the sums of all its parts.
LEMMA SumsExist ==
  ASSUME NEW S, IsFiniteSet(S), NEW f
  PROVE  \E g : Sums(g, f, SUBSET S)
<1> DEFINE UpTo(n) == {s \in SUBSET S : Cardinality(s) <= n}
           Bad == {n \in Nat : ~\E g : Sums(g, f, UpTo(n))}
<1>1. \A s \in SUBSET S : IsFiniteSet(s) /\ Cardinality(s) \in Nat
  BY FS_Subset, FS_CardinalityType
<1>2. Bad = {}
  <2> SUFFICES ASSUME Bad # {} PROVE FALSE
    OBVIOUS
  <2>1. PICK n \in Bad : n = 0 \/ (n - 1 \in Nat /\ n - 1 \notin Bad)
    <3> HIDE DEF Bad
    <3>1. Bad \in SUBSET Nat
      BY DEF Bad
    <3> QED
      BY <3>1, LeastNumber
  <2>2. CASE n = 0
    <3> DEFINE g == [s \in UpTo(0) |-> 0]
    <3>1. \A s \in UpTo(0) : s = {}
      <4>1. \A s \in UpTo(0) : Cardinality(s) = 0
        BY <1>1
      <4> QED
        BY <1>1, <4>1, FS_EmptySet
    <3>2. g = [s \in UpTo(0) |-> IF s = {} THEN 0 ELSE f[Some(s)] + g[s \ {Some(s)}]]
      BY <3>1
    <3>3. Sums(g, f, UpTo(0))
      BY <3>2 DEF Sums
    <3> QED
      BY <2>1, <2>2, <3>3
  <2>3. CASE n - 1 \in Nat /\ n - 1 \notin Bad
    <3>1. PICK g : Sums(g, f, UpTo(n - 1))
      BY <2>3
    <3> DEFINE h == [s \in UpTo(n) |-> IF s = {} THEN 0 ELSE f[Some(s)] + g[s \ {Some(s)}]]
    <3>2. ASSUME NEW s \in UpTo(n), s # {}
          PROVE  h[s \ {Some(s)}] = g[s \ {Some(s)}]
      <4> DEFINE t == s \ {Some(s)}
      <4>1. t \in SUBSET S /\ Cardinality(t) = Cardinality(s) - 1 /\ Cardinality(s) \in Nat
        BY <3>2, OneLess
      <4>2. Cardinality(s) <= n /\ n \in Nat
        BY <2>1
      <4>3. Cardinality(t) <= n - 1 /\ Cardinality(t) <= n
        BY <4>1, <4>2
      <4>4. t \in UpTo(n - 1) /\ t \in UpTo(n)
        BY <4>1, <4>3
      <4>5. g[t] = IF t = {} THEN 0 ELSE f[Some(t)] + g[t \ {Some(t)}]
        BY <3>1, <4>4 DEF Sums
      <4> HIDE DEF t, UpTo
      <4>6. h[t] = IF t = {} THEN 0 ELSE f[Some(t)] + g[t \ {Some(t)}]
        BY <4>4
      <4>7. h[t] = g[t]
        BY <4>5, <4>6
      <4> QED
        BY <4>7 DEF t
    <3> DEFINE h2 == [s \in UpTo(n) |-> IF s = {} THEN 0 ELSE f[Some(s)] + h[s \ {Some(s)}]]
    <3>3. h = h2
      <4> HIDE DEF UpTo
      <4>1. \A s \in UpTo(n) : s # {} => h[s \ {Some(s)}] = g[s \ {Some(s)}]
        BY <3>2
      <4>2. \A s \in UpTo(n) : (IF s = {} THEN 0 ELSE f[Some(s)] + g[s \ {Some(s)}])
                             = (IF s = {} THEN 0 ELSE f[Some(s)] + h[s \ {Some(s)}])
        BY <4>1
      <4> QED
        BY <4>2
    <3>4. Sums(h, f, UpTo(n))
      BY <3>3 DEF Sums
    <3> QED
      BY <2>1, <3>4
  <2> QED
    BY <2>1, <2>2, <2>3
<1>3. Cardinality(S) \in Nat /\ UpTo(Cardinality(S)) = SUBSET S
  BY FS_Subset, FS_CardinalityType
<1> QED
  BY <1>2, <1>3

\* A sum is no more than its length times what each summand is at most.
LEMMA SumsBounded ==
  ASSUME NEW S, IsFiniteSet(S), NEW f, NEW g, Sums(g, f, SUBSET S), NEW most \in Nat,
         \A x \in S : f[x] \in Int /\ f[x] <= most
  PROVE  g[S] \in Int /\ g[S] <= Cardinality(S) * most
<1> DEFINE Fits(s) == g[s] \in Int /\ g[s] <= Cardinality(s) * most
           Bad == {n \in Nat : \E s \in SUBSET S : Cardinality(s) = n /\ ~Fits(s)}
<1>1. \A s \in SUBSET S : IsFiniteSet(s) /\ Cardinality(s) \in Nat
  BY FS_Subset, FS_CardinalityType
<1>2. Bad = {}
  <2> SUFFICES ASSUME Bad # {} PROVE FALSE
    OBVIOUS
  <2>1. PICK n \in Bad : n = 0 \/ (n - 1 \in Nat /\ n - 1 \notin Bad)
    <3> HIDE DEF Bad
    <3>1. Bad \in SUBSET Nat
      BY DEF Bad
    <3> QED
      BY <3>1, LeastNumber
  <2>2. PICK s \in SUBSET S : Cardinality(s) = n /\ ~Fits(s)
    BY <2>1
  <2>3. g[s] = IF s = {} THEN 0 ELSE f[Some(s)] + g[s \ {Some(s)}]
    BY DEF Sums
  <2>4. CASE s = {}
    <3>1. g[s] = 0 /\ Cardinality(s) = 0
      BY <2>3, <2>4, FS_EmptySet
    <3> QED
      BY <2>2, <3>1
  <2>5. CASE s # {}
    <3> DEFINE x == Some(s)
               t == s \ {x}
    <3>1. x \in s /\ t \in SUBSET S /\ n \in Nat \ {0} /\ Cardinality(t) = n - 1
      BY <2>2, <2>5, OneLess
    <3>2. Fits(t)
      BY <2>1, <3>1
    <3>3. g[s] = f[x] + g[t] /\ f[x] \in Int /\ f[x] <= most
      BY <2>3, <2>5, <3>1
    <3>4. g[t] \in Int /\ g[t] <= (n - 1) * most
      BY <3>1, <3>2
    <3> HIDE DEF x, t, Fits
    <3>5. (n - 1) * most + most = n * most /\ (n - 1) * most \in Int /\ n * most \in Int
      BY <3>1
    <3>6. g[s] \in Int /\ g[s] <= n * most
      BY <3>3, <3>4, <3>5
    <3> QED
      BY <2>2, <3>6 DEF Fits
  <2> QED
    BY <2>4, <2>5
<1>3. Fits(S)
  <2>1. Cardinality(S) \in Nat /\ S \in SUBSET S
    BY <1>1
  <2> QED
    BY <1>2, <2>1
<1> QED
  BY <1>3

\* Prompt GETs, and waits that the cap has cut.
LEMMA FeedsAreQuick ==
  ASSUME NEW fetched \in [Subs -> Fetches], NEW pace \in Nat, pace <= Prompt,
         IsFiniteSet(Subs)
  PROVE  /\ RedditTime(fetched, pace) \in Int
         /\ RedditTime(fetched, pace) <= Cardinality(Subs) * (2 * Prompt + WaitCap)
<1> DEFINE f == [s \in Subs |-> FeedTime(fetched[s], pace)]
           most == 2 * Prompt + WaitCap
           Folding(g) == g = [s \in SUBSET Subs |->
                               IF s = {} THEN 0
                               ELSE FeedTime(fetched[CHOOSE x \in s : TRUE], pace)
                                      + g[s \ {CHOOSE x \in s : TRUE}]]
           time == CHOOSE g : Folding(g)
<1>1. RedditTime(fetched, pace) = time[Subs]
  BY DEF RedditTime, MapThenSumSet, MapThenFoldSet
<1>2. PICK g : Sums(g, f, SUBSET Subs)
  BY SumsExist
<1>3. \A s \in SUBSET Subs : s # {} => f[Some(s)] = FeedTime(fetched[CHOOSE x \in s : TRUE], pace)
  BY DEF Some
<1>4. \A h : Folding(h) <=> Sums(h, f, SUBSET Subs)
  <2> TAKE h
  <2> HIDE DEF f
  <2>1. \A s \in SUBSET Subs :
          (IF s = {} THEN 0 ELSE FeedTime(fetched[CHOOSE x \in s : TRUE], pace)
                                   + h[s \ {CHOOSE x \in s : TRUE}])
            = (IF s = {} THEN 0 ELSE f[Some(s)] + h[s \ {Some(s)}])
    BY <1>3 DEF Some
  <2> QED
    BY <2>1 DEF Sums
<1>5. Sums(time, f, SUBSET Subs)
  <2> HIDE DEF Folding, f
  <2>1. Folding(time)
    BY <1>2, <1>4
  <2> QED
    BY <1>4, <2>1
<1>6. \A s \in Subs : f[s] \in Int /\ f[s] <= most
  <2> SUFFICES ASSUME NEW s \in Subs
               PROVE  FeedTime(fetched[s], pace) \in Int /\ FeedTime(fetched[s], pace) <= most
    OBVIOUS
  <2>1. Prompt \in Nat /\ WaitCap \in Nat
    BY DataAssumption
  <2>2. fetched[s].first = "limited" => fetched[s].after \in Int
    BY DataAssumption DEF Fetches, Outcomes
  <2>3. fetched[s].first = "limited" =>
           Wait(fetched[s].after) \in Int /\ Wait(fetched[s].after) <= WaitCap
    BY <2>1, <2>2 DEF Wait
  <2> QED
    BY <2>1, <2>3 DEF FeedTime
<1>7. most \in Nat
  BY DataAssumption
<1> HIDE DEF f, time, most
<1>8. time[Subs] \in Int /\ time[Subs] <= Cardinality(Subs) * most
  BY <1>5, <1>6, <1>7, SumsBounded
<1> QED
  BY <1>1, <1>8 DEF most

\* If the deadline has room for two prompt GETs and one wait, cut by the cap, for
\* each subreddit, then no rate limit makes reddit_posts miss it, and what came is
\* told unless no feed came or a wait escaped (data._reddit_feed, reddit_posts).
THEOREM RedditIsInTime ==
  ASSUME IsFiniteSet(Subs), Cardinality(Subs) * (2 * Prompt + WaitCap) <= Deadline
  PROVE  DataSpec => []RedditAnswersInTime
<1>1. Init => RedditAnswersInTime
  BY DataAssumption DEF Init, NoAnswer, NoTime, RedditAnswersInTime
<1>2. RedditAnswersInTime /\ [Next]_dataVars => RedditAnswersInTime'
  <2> SUFFICES ASSUME RedditAnswersInTime, [Next]_dataVars PROVE RedditAnswersInTime'
    OBVIOUS
  <2>1. CASE GetRedditPosts
    <3>1. PICK start, end \in AskDates, fetched \in [Subs -> Fetches], pace \in {Prompt, Timeout} :
            Give("reddit", RedditPosts(start, end, fetched, pace), start, Clamp(end),
                 [pace |-> pace, took |-> RedditTime(fetched, pace),
                  came |-> Failed(fetched) # Subs,
                  escaped |-> \E s \in Subs : Escapes(fetched[s])])
      BY <2>1 DEF GetRedditPosts
    <3> DEFINE answer == RedditPosts(start, end, fetched, pace)
               took == RedditTime(fetched, pace)
               came == Failed(fetched) # Subs
               escaped == \E s \in Subs : Escapes(fetched[s])
    <3>2. /\ given'.kind = answer.kind
          /\ given'.time = [pace |-> pace, took |-> took, came |-> came, escaped |-> escaped]
      BY <3>1 DEF Give
    <3>3. pace \in Nat /\ Deadline \in Nat /\ Prompt \in Nat /\ WaitCap \in Nat
      BY DataAssumption
    <3>4. pace <= Prompt => took \in Int /\ took <= Cardinality(Subs) * (2 * Prompt + WaitCap)
      BY <3>3, FeedsAreQuick
    <3>5. Cardinality(Subs) * (2 * Prompt + WaitCap) \in Int
      BY <3>3, FS_CardinalityType
    <3>6. pace <= Prompt => took \in Int /\ took <= Deadline
      BY <3>3, <3>4, <3>5
    <3>7. took \in Int /\ took <= Deadline /\ came /\ ~escaped => answer.kind = "facts"
      BY <3>3 DEF RedditPosts, Told
    <3> HIDE DEF answer, took, came, escaped
    <3>8. /\ given'.time.pace = pace /\ given'.time.took = took
          /\ given'.time.came = came /\ given'.time.escaped = escaped
      BY <3>2
    <3> QED
      BY <3>2, <3>6, <3>7, <3>8 DEF RedditAnswersInTime
  <2>2. CASE given'.time = NoTime
    BY <2>2, DataAssumption DEF NoTime, RedditAnswersInTime
  <2>3. CASE UNCHANGED given
    BY <2>3 DEF RedditAnswersInTime
  <2>4. CASE PutAway
    BY <2>2, <2>4 DEF PutAway, NoAnswer
  <2>5. NextDay \/ Trade \/ Publish => UNCHANGED given
    BY DEF NextDay, Trade, Publish
  <2>6. Ask => GetRedditPosts \/ given'.time = NoTime
    BY DEF Ask, Give, GetPriceHistory, GetIndicators, GetVerifiedSnapshot,
         GetFundamentals, GetStatement, GetInsiderTransactions, GetMacroSeries,
         GetCompanyNews, GetGlobalNews, GetStocktwitsMessages
  <2> QED
    BY <2>1, <2>2, <2>3, <2>4, <2>5, <2>6 DEF Next, dataVars
<1> QED
  BY <1>1, <1>2, PTL DEF DataSpec
=============================================================================
