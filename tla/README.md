# A TLA+ verification project for ta_cascade

`ta_cascade` runs a panel of language-model agents over one ticker and one
trade date: four analysts write reports, a bull and a bear debate them, a
research manager and a trader decide, three risk voices debate the trade, and a
portfolio manager gives the rating. The agents run in sessions of an external
daemon; this program is the *driver* that opens the sessions, asks, checks,
keeps what was produced so that a run that died can go on, and hands the
results over. This project models the driver and what it keeps on disk.

## 1. Inventory

| part | state | operations | talks to |
|---|---|---|---|
| **run driver** `pipeline.py` | `RunState` in memory, the sessions of the current stage | `run`, `_analysts`, `_investment_debate`, `_judge`, `_risk_debate`, `_resolve_pending`, `_replay` | all below |
| **resume journal** `journal.py`, `state.py` | one JSON file per run key, its `.tmp` sibling | `load`, `save`, `clear`; `to_dict`, `from_dict` | driver |
| **decision log** `memory.py` | one JSONL file, by default shared by all runs of a user | `record`, `pending`, `resolve`, `past_context` | driver |
| **stage sessions** `sessions.py` | open sessions, the observer's task | `open_stage`/`_accounted`, `check_tool_budgets`, `observing` | daemon, session log, event log, board |
| **session log, event log** `sessionlog.py`, `eventlog.py` | append-only JSONL per ticker and date | `write`/`append`, `read` | sessions; read by `runview`, `sweep` |
| **host tools** `tools.py`, `data.py` | evidence in the run state, worker threads | `_spec.guarded`, `with_deadline`, `snapshot` | daemon, price and news sources |
| **board** `board.py`, `richboard.py` | the steps and their states | `plan`, `start`, `finish`, `close` | driver, observer |
| **report tree** `report.py`, `chart.py` | files under `results/<ticker>/<date>` | `write_report`, `render` | driver |
| **readers** `runview.py`, `sweep.py`, `plan.py`, `ui/` | none | `survey`, `_money`, `_in_flight`, `merge` | session log, report tree |
| **backtest, scoring** `backtest.py`, `score.py` | none | `date_grid`, `write_tasks`, `score`, `grade`, `realised` | jaato-eval, report tree, data |
| **data rules** `data.py` | none; the sources move under it | freshness, windows, look-ahead, retries, `path_after`, `return_after` | price, macro, news and social sources |
| **configuration** `config.py`, `cli.py`, `contract.py`, `version.py` | none | run key, `--no-journal`, `--clear-journal`, exit codes | driver |

What makes it hard: the driver may be killed at any step and is then relaunched
by hand with the same command; a debate is a conversation in sessions that do
not survive the driver; every file may be left half written; an external
daemon times host-tool calls while the worker behind them cannot be stopped; the
decision log has many writers and no lock, and neither have the journals and the
report tree; a backtest asks about a day long past sources that answer for today;
a second task (the observer) fails independently of the run; and a sweep is read
while arms run, die and are run again. What must be right of each part:

- *driver and journal*: nothing journaled is lost, redone or reworded; no stage
  runs before what it reads; a resumed debater is told what it missed; the
  journal is deleted only after delivery; the run comes to its end; a launch
  never goes on from another configuration's work; the exit code is true.
- *decision log*: entries stay, one per ticker and date; nothing is learned from
  the future.
- *sessions and their log*: every session is accounted for, and the lines say
  how it ended.
- *host tools*: the answer beats the daemon's budget, and the evidence is what
  the analyst was given.
- *data rules*: nothing of a later day is told, what prices, macro figures and
  company news say of a day that is over stays, silence is claimed only where it was
  observed, and a rate limit does not use up a tool's deadline.
- *scoring*: the verdict is that of the position it stands for, and stays.
- *board and readers*: they agree with the run; a bill is the whole bill.

## 2. Modules

| module | models | role |
|---|---|---|
| `RunProgress` | the promise of the journal: units become durable one at a time, none is lost, the run is forgotten only after delivery | abstract specification |
| `Pipeline` | `run()` and all its phases, `journal.py`, `state.py`, the write order of `report.py`, `observing()`, kills and relaunches | core model |
| `PipelineProps` | its properties and the refinement mapping to `RunProgress` | `Pipeline_debates.cfg`, `Pipeline_pump.cfg` |
| `PipelineProofs` | its types and its order, with the invariant `IInv` | proofs |
| `ProgressProofs` | what a death costs, what was handed over, what every side has heard, the refinement of `RunProgress`, and the board | proofs |
| `RunBoard` | `board.py`, composed with `Pipeline` action by action; its run also checks the safety properties of `PipelineProps` | `RunBoard.cfg` |
| `DecisionLog` | `memory.py` under any number of drivers | component |
| `MCDecisionLog` | its instance for TLC: which keys are run, which drivers are alike | `DecisionLog.cfg`, `DecisionLog_lost.cfg` |
| `LogProofs` | its types, keys, look-ahead and that entries stay | proofs |
| `Launches` | launches of one ticker and date that share the journal directory and the report tree, with other analysts or the same, at the same time or later; the switches and exit codes of `cli.py` | component |
| `MCLaunches` | its instance: the report files of two selections | `Launches.cfg` |
| `LaunchProofs` | whose work a launch goes on from, whose journal it finds, and what its exit code tells | proofs |
| `SessionLog` | `_accounted`, `sessionlog.py`, and what a reader makes of one session's lines | component |
| `RunView`, `MCRunView` | `runview.survey` and `plan.py`: cards, counts, money and the merged plan, over the lines of `SessionLog` | `SessionLog.cfg`, `SessionLog_ended.cfg` |
| `SessionProofs` | the brackets, the ends, the losses, the bill and the page | proofs |
| `HostTools` | deadlines, workers, evidence | `HostTools.cfg` |
| `HostProofs` | the deadline arithmetic and the evidence | proofs |
| `DataLayer` | `data.py` and the eleven tools of `tools.py`: what a run "as of" a date is handed while the world goes on | component |
| `DataProofs` | the look-ahead rule, the quiet windows and the retries of `DataLayer`, the verdicts of `Score` | proofs |
| `Score`, `MCScore` | `score.py`, `path_after`, `return_after`, `hold_band`, composed with `DataLayer`'s world | `Score.cfg`, `Score_wrong.cfg` |
| `Sweep`, `MCSweep` | the tasks `backtest.py` writes, the arms made of them, and `sweep.survey` | `Sweep.cfg` |
| `SweepProofs` | the bill and the cells of a sweep | proofs |

A definition whose comment begins "Mutant of" is a wrong variant of the one it
names, as a plausible bug would make it. No specification uses one; substituting
it for the original must violate the property PROJECT.json pairs it with, which
shows the property can fail.

### Pipeline

A *unit* of work is an analyst report, a debate turn or a verdict. A product is
represented by the number of the launch that made it, 0 if it is missing: that
is all that tells it from the one that would replace it after a death. `journal`,
`tmp`, `decisions` and `report` survive the process; `state`, `briefed`, `seen`,
`todo`, `reflecting`, `pump` do not (`Exit`). `pc` is the place in `run()`,
`phase` the phase function:

    off -> load -> (resolve <-> reflect) -> begin -> save -> replace -> head
    head -> asking -> closing -> save -> replace -> head  analysts
    head -> asking -> save -> replace -> head             judges
    head -> turn -> asking -> save -> replace -> turn    debates
    head -> leave -> sections -> whole -> record -> clear -> off

`seen[s]` is what the session of side `s` has read or said: the prompts of
`_investment_debate` and `_risk_debate` are modelled by the turns they quote
(`Prompted`). `journal.save` is two steps, the sibling file (which a kill may
leave torn) and the rename. Failures are separate actions: `StageFails` (what
`run()` turns into `StageFailed`), `Escapes` (any other exception, at the places
where the code can raise one), `PumpFails`/`PumpRaises` (the observer), `Kill`
(anywhere). An analyst's report is put into the run state while its session is still
held (`pipeline.py:369`), and leaving the session asks the daemon what it spent
(`sessions.py:156-160`); only then is the board told and the journal saved. That is
`closing`, where a kill or an exception loses the report. A judge's answer is put
into the state after its session was left, and a debate saves inside its sessions,
turn by turn. A reflection that fails is absorbed, as in `_resolve_pending`.

### RunBoard

The board adds no scheduling: each of its actions is an action of `Pipeline`
together with the `start`, `finish`, `close` and `_replay` calls made there. The
board of a launch that is gone stays as its last frame. While an analyst's session
is being left the run holds a report that the board shows at work; `BoardTellsTheRun`
names that moment, and nothing else, as the exception to "done where the run holds
it". With `--debate-rounds 0` a
debate has no turns, nothing starts its heading, and it stays pending on the board
of a finished run; `BoardAtTheEnd` says so.

### DecisionLog

Drivers run independently; every step between reading the log and renaming the
sibling over it is an action. Open descriptors follow the file, not its name,
so a driver may write into a file another has already renamed. A day is a price
bar: a decision of day d resolves on day d + `Holding`. `overlap` is history: the
drivers whose read-change-rename ran at the same time as another's, which is
when an entry may be lost.

### Launches

`Pipeline` follows one launch after the other; here several are alive at once,
and a run's inside shrinks to a count of units, each remembering the launch that
produced it. A launch has a selection (the signature `config.run_key` hashes:
analysts, rounds, asset type), and may come with `--no-journal` or
`--clear-journal`. `mkdir`, the opening of the sibling, its writing and the rename
are steps of their own, and an open descriptor follows the file (`fd`), so that
two launches of one key may write into each other's files. `--clear-journal`
removes file by file; `write_report` writes file by file; `journal.clear` looks
and then unlinks. `code` is the exit code: 0, 1, and `blocked`, which is 75 under
the evaluation contract and 2 without it. `disturbed` and `alone` are history:
keys whose files somebody else had a hand in, launches nobody delivered next to. A file that somebody else has written since it was opened, or has open, may
come out of a writing as what json cannot read; that two texts of one key interleave
into a third that json does read is left out. Assumed: different selections have different keys (`run_key` keeps sixteen hex
digits of a digest), and the power may fail only so that a journal the disk has
not caught up with reads as cut short; an old journal that comes back after its
unlink, and a report torn by a power cut, are left out.

### SessionLog

A stage enters `width` sessions, each inside the previous one, and leaves them
innermost first whether it answered or raised. `lines` are the lines that parse;
`tail` says whether the file ends in a whole line, in a fragment, or in a line
without its newline, because the next line is glued to it. `fate` and `writes`
are history: how each session really ended, and how the writes went.

### RunView

The page has no state: its definitions are functions of `lines`, so every state of
`SessionLog` is a moment at which somebody may look. A card is known by the number
of its started line and a planned stage by its place in the plan, whose order is
the order in which they are drawn, the planned ones first. A session costs one when it
was priced. Only the list of the run is modelled; what the drawer of a single
session shows (its events, tool calls and budgets) is not.

### HostTools

Time is in ticks. A call travels to the driver, its handler runs in a thread,
`with_deadline` gives up after `Deadline = Budget - Margin`, the answer travels
back; the daemon's own timer runs from the call. Both trips of a call together
take at most `TripMax`. `Tick` is not enabled while a timer is due or a trip
overdue: timers fire on time, workers take as long as they like. That calls run
at the same time and that a timer fires on time are assumptions about the SDK
and the event loop, which are external. Programming errors in a handler, which
`with_deadline` raises on purpose, are left out.

### DataLayer

Days are numbers. The world is external and goes on: a day passes, the bar of the
current day appears and moves, something is published; statements, insider trades
and macro figures carry both the date the code sees and the day they came out. A
source may fail, or hand out less than there is (`upto`). An answer is a set of
facts with the dates the code gives them, or one of the two sentences without
facts: unavailable, and a window observed to be quiet. `given` holds one answer
to be looked at; the tools keep nothing. Reddit's waits are counted in the
code's own seconds (three subreddits, a timeout of 10, a cap of 5, a deadline of
25); a GET takes one second or the whole timeout, those of one call alike. A moving
indicator is represented by the bars it is computed from. The rows a table is cut to
(`insider_transactions`' twenty) are left out.

### Score

Grading happens on any day, each of its four questions may fail, by an empty
frame or by an exception. Returns are fractions and compared by cross
multiplication. `Position` is the reference: the investor who bought at the
as-of close and left at the stop or with the last session. A `state.json` that is
JSON but no object would end the grader in a traceback; `write_report` writes an
object, and a file cut short is no JSON, so such a state is left out.

### Sweep

Tasks, cells and rows are as `backtest.py` and `sweep.py` name them; a ticker is the
sequence of its parts, because a task's directory is cut at the first dash. How
jaato-eval starts, records, stops and resumes is external and modelled as
`sweep.py`, its tests and `docs/gaps.md` tell it: on SIGINT it stops recording
while its drivers go on (`docs/gaps.md:1796`), and an arm that failed is started
again. The workspaces are listed in any order, as `glob` does. BLOCKED goes with
ERROR: neither is graded.

## 3. What the runs check

| run | question | result |
|---|---|---|
| `run_and_board` | 2 analysts, 1 round of each debate, an earlier decision that may be pending, 2 launches told apart, and their board | `TypeOK`, `AtMostOneUnitAtRisk`, `RunInOrder`, `DeliveredBeforeCleared`, `JournalOnlyGrows`, `DecisionsAdvance`, `ImplementsRunProgress`, `BoardTypeOK`, `BoardTellsTheRun`, `BoardShowsTheWork`, `BoardAtTheEnd` hold (345 000 states) |
| `pipeline_debates` | 2 rounds of each debate, so that every side also rebuts; fair launches; launches that all die | `HeardEverything`, `RunFinishes`, `DurableWorkCounts` hold (154 000) |
| `pipeline_pump` | "The pump NEVER fails the run" (`sessions.py:178`) | `PumpNeverFailsRun` is violated |
| `launches` | 3 launches, 2 at a time, with one analyst or two, killed, without power, with `--no-journal` and `--clear-journal` | `NoForeignWork`, `KeysApart`, `ExitTells` hold (2.9 million) |
| `log` | two drivers on one log, dying anywhere, one ticker on two days and another on one | `LogTypeOK`, `OneEntryPerKey`, `NoLookAhead`, `EntriesStay` hold (1.4 million) |
| `log_lost` | "append-only" (`memory.py:3`), two drivers | `AppendOnly` is violated |
| `sessions` | three sessions, single and nested, kills and broken writes, and the page of the run at every moment | `SessionTypeOK`, `LinesBracket`, `ShownAsItWas`, `LossIsBounded`, `BillIsWhole`, `PageShowsTheWork` hold (505 000) |
| `sessions_ended` | an ended line "for a stage that raised too" (`sessions.py:139`) | `EveryEndIsWritten` is violated |
| `tools` | two calls at once, workers that may never end, trips as long as the margin | `HostTypeOK`, `NoTransportError`, `GivenIsRecorded`, `EveryCallIsAnswered` hold (13 000) |
| `data` | six days, the third the as-of date: every tool asked and every cell graded on each of them | `DataTypeOK`, `NothingAfterAsOf`, `CellSeesOneMarket`, `QuietIsObserved`, `RedditAnswersInTime`, `VerdictIsThePosition`, `VerdictStands` hold (597 000) |
| `score_wrong` | "a cell that cannot be graded ... not as a wrong call" (`score.py:36-40`) | `WrongOnlyWhenGraded` is violated |
| `sweep` | a grid of two tickers, two repeats, arms that end, are cut short, run again or outlive their engine | `SweepBill`, `CellsTell` hold (2.2 million) |

Each violated statement is one of the sources' own about the program; the
counterexample is a behaviour of the code, and PROJECT.json's findings quote
both. `EntriesStay` is what does hold in the place of `AppendOnly`: as long as no
two changes overlap, whatever dies in the middle of one, the log keeps its
entries.

More statements of the sources differ from the code, or are true only under a
condition, in ways met while modelling. The models contain the behaviour, and no
run is given to them:

- `board.py:92` says a closed board claims nothing is running. An exception that
  is none of the three `pipeline.py:338-346` handles leaves the board unclosed,
  so `BoardAtTheEnd` says that nothing is shown running only of a board that has
  a verdict.
- `sessionlog.py:87` says that of a torn last line "the rest still reads". The
  next launch appends to the fragment, and the glued line is lost too;
  `LossIsBounded` says that two lines is the worst of it.
- `sessionlog.py:27-29` wants a partial cost withheld entirely. `runview.py:315-321`
  withholds it for a session that is measured and unpriced, and sums past one
  that is unmeasured.
- `sweep.py:117` says "cells with an open session right now". A cell whose driver
  was killed in a stage looks the same, so `ShownAsItWas` allows for both.
- `state.py:48-51` says that evidence attests what the analyst was given. The
  worker of a call that was given up (`data.py:61-66`) goes on and may record
  (`data.py:291-292`) facts nobody was given; `GivenIsRecorded` is the direction
  that holds.
- `cli.py:304` asks to run the same command again to resume. After a power loss,
  or after two launches of one key wrote into each other's files, the journal may
  be cut short; `load` then raises on every relaunch until the file is removed by
  hand. `KeysApart` says that this is the only way to such a journal.
- `report.py:79` writes the sections there are and removes none. After an earlier
  run of the same day with more analysts, their sections and the chart stay in
  the tree beside the new report; `ExitTells` is about the files a launch writes.
- `data.py:369-390` chooses statements by the end of their period, and says so in
  its note; a figure filed after the as-of date is handed out. `NothingAfterAsOf`
  goes by the dates the code sees, which are the periods'.
- `data.py:3-7` makes "nothing after the as-of date" the first rule. The trades of
  insiders are cut by a column whose name contains "date" (`data.py:399-402`); if
  the source's frame has none, all of them are handed out, later ones too.
  `NothingAfterAsOf` has that frame, and the ratios of a run that is not historical,
  as its two exceptions.
- The cells of a backtest are not shown one world. `CellSeesOneMarket` holds of
  prices, indicators, the snapshot, macro figures and company news, from sources that
  answer. What the other tools say of a day that is over changes as time goes on:
  statements and insider trades are filed later, ratios are withheld after
  `max_stale_days`, and the general news, StockTwits and Reddit carry recent days
  only.
- `reddit_posts` says that a 429 is retried "after a short wait; anything longer
  is treated as a failed fetch". The wait is clamped before it is compared with
  the cap (`data.py:807-812`), so a longer one is cut and retried. A negative
  Retry-After passes the clamp, and `time.sleep` raises out of the loop over the
  subreddits: the whole tool answers that it is unavailable, also of feeds that came,
  though `tools.py` promises each subreddit's own. Two 429s in a row fail a subreddit,
  and in every one of them the tool. `RedditAnswersInTime` says what is left: the waits
  never use up the deadline, and but for those two cases what came is told.
- `with_deadline` replaces a late answer as a whole. Three subreddits whose GETs all
  take their ten seconds, or one that is slow beside two that ask to retry, do not
  fit in the 25 seconds of a tool (`docs/gaps.md`, CLOSED HERE 2026-10-14, says
  the same of Finnhub's retry), and then the posts that did arrive are not told
  either. `RedditAnswersInTime` has prompt GETs as its premise.
- Reddit is asked for the last week only (`t=week`), and for an older window a
  subreddit is told to have "no posts ... dated" in it; StockTwits' stream is as
  recent, and its sentence says so. `QuietIsObserved` is about the two news tools, and
  leaves both wordings out.
- The bar of the current day is a bar like any other to `path_after` and
  `return_after`, and moves: a cell graded on it may be graded otherwise a day later.
  `VerdictStands` is about gradings whose bars are all of days that are over.
- A trade date without a bar, and two calendars (a coin against a stock index),
  make `path_after` and `return_after` count different sessions; `VerdictIsThePosition`
  has `SameSessions` as its premise.
- `runview._money` counts sessions that have an ended line. A session killed with
  its driver is in no count and no sum, so `BillIsWhole` claims a whole bill only
  with nothing shown running and no line lost.
- `sweep.planned` cuts a task's directory at the first dash: BRK-B or BTC-USD is
  planned as a cell no row ever names and stays pending, while its arms are in the
  money. `CellsTell` leaves tickers with a dash out, the instance has one.
- A cell shows the arm recorded last, after one of its repeats as well as after
  all; between two stages of a running arm it shows pending; and of several
  workspaces of one cell `glob`'s order decides. `CellsTell` allows for each.
- `docs/preregistration-2026-10.md:261` says that `--resume` skips every `task_id`
  already present, `sweep.py:104` that it runs a failed arm again. The model follows
  the source.

**Bounds.** The launch number is the only history in `Pipeline`: with two
launches told apart a product can differ from the one that replaced it, and a
third launch does nothing a second cannot. Two analysts are the fewest with an
order between them; two rounds are the fewest in which a risk voice rebuts, and
there the transcript is what matters, so that run has one analyst and no
decisions to resolve. `MaxEntries`, `MaxDay`, `MaxSessions` bound how long the
logs get; one ticker on two days and another on one make an entry of the past, of
the future and of another ticker possible, and two entries per log leave room
for one to be lost. In `HostTools` a budget of four and a margin of two leave a
handler time to be early, on time and late, and trips that may take the whole
margin let errors happen, so that the property that explains them is put to use.
In
`Launches` two processes at a time and three launches are the fewest in which one
launch meets two others, one of its own key and one of another, or follows one
that died beside a second; a run is one unit, as more units only repeat the save,
and two selections of which one's files are a part of the other's tell stale from
fresh. The calendar of `data` has two days before the as-of date, so that there
are windows, and three after it, a holding period of two and one more day; two
shapes of a bar make a stop touched or not and a position win or lose. In `sweep`
three arms are the fewest with a repeat of a cell and a run again of one of them.

The processes of `Launches` and the drivers of `DecisionLog` are interchangeable,
which is the symmetry their runs use; neither run checks a liveness property.

**Fairness.** `RunFinishes` has the premise `Fairness`: an operator launches the
command again after it ended (what the message of `cli.py:304` asks for), the
driver goes on while it can (it is one sequential program, and sessions answer
or fail), and faults stop at some time. It does not assume that a reflection
succeeds. `DurableWorkCounts` assumes nothing but its premise: new units go on
being journaled. `HostFairSpec` assumes that time passes, due timers fire and
messages arrive; never that a worker ends. `CHECK_DEADLOCK FALSE` stands where a
bounded supply runs out (session ids in `SessionLog*.cfg`, calls in
`HostTools.cfg`, launches in `Launches.cfg`, arms in `Sweep.cfg`) and where a torn
log stops every later run (`DecisionLog.cfg`).

## 4. What is proved

Every safety property of the passing runs, invariant, action property and
refinement, is also a theorem of its specification: the run shows it on the small
instance, the theorem for every value of the constants that the named assumptions
allow. The three liveness properties are not. PROJECT.json's `theorems` lists them
with the property each one states.

**Assumptions.** Besides the ranges of the constants (`ConfigAssumption`,
`LogAssumption`, `LaunchAssumption`, `SessionAssumption`, `HostAssumption`,
`DataAssumption`, `ScoreAssumption`, `SweepAssumption`, `PageAssumption`), the proofs
use that a file which is missing or cut short is not mistaken for content
(`NoFileAssumption`, `TornAssumption`, and the last line of `LaunchAssumption`); that a
stage gives its sessions different names; that a ticker is a sequence with a first
part; and that prices are positive. TLC evaluates each of them on every run of the
module that states it. `RedditIsInTime` has two hypotheses of its own: there are
finitely many subreddits, and two prompt GETs and one capped wait for each of them
fit in the deadline, which in the code is 3 * (2 * 1 + 5) <= 25.

**Driver and journal** (`PipelineProofs`, `ProgressProofs`), for every number of
analysts, rounds, dates and launches.

- `TypeCorrect`, `RunIsInOrder`. `RunInOrder` is not inductive by itself. That a
  verdict is given only when everything before it is there follows from where the
  driver is, so `IInv` adds *Control* (where a run state exists, and what phase the
  driver may be in), *Durable* (the sibling file and the journal hold what the memory
  holds or a part of it) and *Ordered* (journal and memory are in order and
  everything before the current phase is complete).
- `OneUnitAtRisk`, `DeliveryPrecedesClear`, `EverybodyHasHeard`. `PInv` adds to `IInv`
  that while a unit is saved the state is exactly one ahead of the journal
  (*Counted*), what has been handed over at each of the last steps (*HandedOver*), and
  what every session of a debate has heard (*Heard*): between its turns a side was
  told nothing yet, or has read or said everything up to a turn of its own in the
  last round. That a side is told exactly what it missed rests on it.
- `JournalGrows`, `DecisionsOnlyAdvance`, `PipelineImplementsRunProgress`: action by action
  from `PInv`. For the refinement each step of the driver is shown to be one of
  `RunProgress` or a stutter, the initial states map to its initial state; the units
  of a run are counted with the cardinality theorems of the library.
- `BoardTypeCorrect`, `BoardIsTrue`, `BoardShowsWork`, `BoardEndsTrue`. The invariant
  `OnScreen` says of every planned step what it shows, as a function of where the driver
  is and what the run holds (*WorkShown*), and of a report whose session is being left
  that it is not in the journal (*Unsaved*).

**Decision log** (`LogProofs`), for every number of drivers, tickers and days, and
with everybody dying anywhere: `LogTypeCorrect`, `KeysAreUnique`, `NobodyLooksAhead`,
`EntriesAreKept`. The invariant `LInv` says that whatever is or may become the log is
sound (*AllSound*: no key twice, nothing resolved later than today), be it the log, the
sibling or what a driver has read; that what a run was shown was known on its day
(*ContextKnown*); that drivers that change the log together are all marked
(*OverlapMarked*); and that one which is not marked finds the files as it left them
(*Alone*).

**Launches** (`LaunchProofs`), for every number of processes, launches, selections and
units. `NoForeignWorkHolds`: a launch reads its journal, but what is in the journal
came by a rename from the sibling, and what is in the sibling from some launch's
memory, perhaps by a descriptor that had been renamed under it. `OwnWork` therefore
says of memory, journals and siblings alike that every unit was produced by a launch
of the key they belong to, or that the file is cut short; a descriptor needs no
clause, since it is only ever open on files of its own key. `KeysStayApart`: `Apart`
adds that two launches at one key have disturbed it (*Lone*), that one which nobody
disturbed finds journal, sibling and descriptor at each of its steps as it left
them (*InItself*), and that a journal is torn only at a disturbed key. `ExitCodesTell`:
`Delivered` adds how far the report tree has got (*Delivering*).

**Sessions and page** (`SessionProofs`), for any number of sessions, names of stages,
kills and broken writes. `SInv` says that the sessions held are nested and younger ones
are inside (*Nested*), that lines are in the order of the sessions (*InOrder*), that no
end of a held session is there and since it began only ends of sessions inside it
(*OfTheHeld*), that ends which
are written are true, that without a failed write every line is there (*AllThere*), and
what the end of the file will still cost (*Accounted*, from which `LossStaysBounded`
follows by arithmetic). From it come `LinesStayBracketed`, `ShownEndsAreTrue` and
`BillStaysWhole`. `PageIsTheWork` needs more: that of the sessions of a stage the open one
is the last, because open sessions have ids that follow each other and the started
lines since the outermost are this stage's, each name once (*Placed*).

**Host tools** (`HostProofs`). `NoTransportErrorEver`: a call ends in the daemon's
transport error only if its trips took at least the margin, for every budget, margin,
bound on the trips and set of calls; the invariant `InTime` is that a call's age is the
time of its trips and of its handler, that the handler takes at most `Deadline` or no
time at all, that no call is made unless `Deadline` is positive, and that an error went
with trips of at least `Margin`. `HostTypeCorrect`, `EvidenceIsWhole`: by `Once`, a call is in
the evidence from the moment its worker put it there, once, and facts are only
answered from there.

**Data and scoring** (`DataProofs`), for every calendar, market, window and staleness
limit, with the exceptions section 3 names. `NeverAfterAsOf` and `OneMarket` need only that the world is one that has happened so
far (`WorldOK`). The first follows tool by tool from the clamp; the second says that
what a tool reads of a market after the as-of date is over is a function of days the
world no longer touches, and is stated of the tools listed there. `DataTypeCorrect` and `QuietWasObserved` follow an answer through the
tool that gave it. `VerdictsStand` is the second argument again for the bars a grading
reads. `VerdictsAreRight` shows for every path of bars that entry price, exit day, return
and excess of the code are those of the reference position, by the counting of
sessions in two calendars. `RedditIsInTime` bounds the community fold that adds up
the subreddits, by a least counterexample; what it says of the answer follows from the
order of the tests in `reddit_posts`.

**Sweep** (`SweepProofs`), for every grid, number of repeats and set of tickers:
`BillIsTheArms` and `CellsShowTheArms`, from `BInv`: every row tells what its arm came to,
and no arm has two.

The models were written so that the prover can read them: the context of
`DecisionLog` is a set of places in the log instead of a filtered sequence, the cards
of `RunView` are known by the numbers of their lines, and an open board's verdict is
`"open"`, the code's empty string. `BoardAtTheEnd` was too strong before its proof was
tried: it said that a finished run shows everything done, which the heading of a debate
of no rounds does not.

Only model-checked: `RunFinishes`, `DurableWorkCounts` and `EveryCallIsAnswered`. They are
liveness under fairness, whose proof rests on ENABLED and on leads-to rules over the
launches and ticks still to come, which the installed provers do not have. The four
statements the code does not keep are refuted by TLC and stay so.

## 5. Not modelled

- The content of prompts, reports and figures, and how a board, chart or page is
  drawn (`richboard.py`, `chart.py`, `ui/`): layout, without control.
- The daemon, the HTTP requests and the parsing of their answers: external.
- The event log and the observer's filter: the log is written and read as the
  session log is, and which events are kept is a pure filter.
- The drawer of one session in `runview.py`, and `effort` and `graded` of `sweep.py`:
  sums over lines, like the money, without a state of their own.
- The output processors: each validates one payload and keeps nothing; the driver
  sees a payload or a failed stage.
- Parsing of arguments, of the contract and of the environment.
- Which launch the `past_context` of a resumed run should be of: the code keeps
  that of the first, and nothing says whether it should.

## 6. Plan

1. *Core (done)*: `RunProgress`, `Pipeline`, `PipelineProps`, `RunBoard`,
   `DecisionLog`, `SessionLog`, `HostTools`; first theorems.
2. *Readers, rules and launches (done)*: `RunView`, `DataLayer`, `Score`, `Sweep`,
   `Launches`; `DataProofs`, `LaunchProofs`.
3. *Proofs (done)*: `ProgressProofs`, `LogProofs`, `SessionProofs`, `SweepProofs`; the rest of
   `HostProofs`, `LaunchProofs` and `DataProofs`.
4. *Left*: an abstract specification of the decision log (a map from ticker and date
   to an entry, changed one key at a time) that `DecisionLog` implements while no two
   changes overlap, and its refinement proof; that `Pipeline`'s journal is what
   one undisturbed launch of `Launches` does; shorter proofs of the long lemmas.
