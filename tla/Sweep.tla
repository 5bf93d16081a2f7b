-------------------------------- MODULE Sweep --------------------------------
(***************************************************************************)
(* A sweep as its board shows it: the tasks backtest.py writes, one per     *)
(* ticker and date of the grid, the arms jaato-eval makes of them, and what *)
(* sweep.survey reads off the disk at any moment.  jaato-eval is not here:  *)
(* its steps are what sweep.py, its tests and the docs say of it.  It runs  *)
(* arms in workspaces of their own, appends a line to results.jsonl for     *)
(* each that ends, may be stopped while the drivers go on, and is run again *)
(* with --resume.                                                           *)
(***************************************************************************)
EXTENDS Integers, Sequences, FiniteSets, FiniteSetsExt

CONSTANTS
    Tickers,            \* each the sequence of its parts: NVDA one, BRK-B two
    Calendar,           \* the days there are, in order
    From, To, Every,    \* the grid, as positions in the calendar
    Repeats,
    Keep,               \* --keep-workspaces
    MaxRuns, MaxStages  \* bounds: arms started, stages of an arm

ASSUME SweepAssumption ==
    /\ From \in DOMAIN Calendar /\ To \in DOMAIN Calendar /\ From <= To
    /\ Every \in Nat \ {0} /\ Repeats \in Nat \ {0}
    /\ Keep \in BOOLEAN /\ MaxRuns \in Nat /\ MaxStages \in Nat
    /\ \A ticker \in Tickers : ticker # <<>> /\ ticker \in Seq({ticker[i] : i \in DOMAIN ticker})

VARIABLES
    runs,               \* of each arm started: its task and repeat, the stages it
                        \* began and ended, and how it stands
    results,            \* the lines of results.jsonl that parse
    torn                \* the file ends in a part of a line

sweepVars == <<runs, results, torn>>

\* BLOCKED goes with ERROR: neither is graded.
Verdicts == {"PASS", "FAIL", "ERROR"}
Working == {"running", "orphan"}

-----------------------------------------------------------------------------
(* backtest.py *)

\* date_grid
DateGrid == {Calendar[i] : i \in {j \in From..To : (j - From) % Every = 0}}

\* write_tasks: a directory <TICKER>-<DATE> per task.
Tasks == Tickers \X DateGrid
Arms == Tasks \X (1..Repeats)

\* The cell a run's lines and rows name: the ticker, the date.
CellOf(task) == <<task[1], <<task[2]>>>>

\* planned: the cell read back from the directory's name, cut at the first dash.
PlannedCell(task) ==
    LET name == Append(task[1], task[2])
    IN  <<<<Head(name)>>, Tail(name)>>

-----------------------------------------------------------------------------
(* jaato-eval and its drivers. *)

SweepInit == runs = <<>> /\ results = <<>> /\ torn = FALSE

Standing(state) == {i \in DOMAIN runs : runs[i].state = state}
RunsOf(arm) == {i \in DOMAIN runs : runs[i].arm = arm}

\* An arm is started when no other run of it is under way and none has passed;
\* one that failed is started again on --resume.
StartArm ==
    /\ Len(runs) < MaxRuns
    /\ \E arm \in Arms :
        /\ \A i \in RunsOf(arm) : runs[i].state \notin {"running", "PASS"}
        /\ runs' = Append(runs, [arm |-> arm, began |-> 0, ended |-> 0, state |-> "running"])
    /\ UNCHANGED <<results, torn>>

\* The driver's lines in its workspace's sessions.jsonl.
BeginStage(i) ==
    /\ runs[i].state \in Working
    /\ runs[i].began = runs[i].ended /\ runs[i].began < MaxStages
    /\ runs' = [runs EXCEPT ![i].began = @ + 1]
    /\ UNCHANGED <<results, torn>>

EndStage(i) ==
    /\ runs[i].state \in Working /\ runs[i].began > runs[i].ended
    /\ runs' = [runs EXCEPT ![i].ended = @ + 1]
    /\ UNCHANGED <<results, torn>>

\* The arm ends, between its stages or killed in one: its line is appended, whole
\* or cut short, and glued to a part that is there already.
FinishArm(i) ==
    /\ runs[i].state = "running"
    /\ \E verdict \in Verdicts, priced \in BOOLEAN :
        /\ verdict \in {"PASS", "FAIL"} => runs[i].began = runs[i].ended
        /\ runs' = [runs EXCEPT ![i].state = verdict]
        /\ LET row == [run |-> i, cell |-> CellOf(runs[i].arm[1]), state |-> verdict,
                       priced |-> priced]
           IN  \/ results' = (IF torn THEN results ELSE Append(results, row)) /\ torn' = FALSE
               \/ results' = results /\ torn' = TRUE

\* SIGINT to the parent: it records nothing more, and the drivers work on.
EngineStops ==
    /\ Standing("running") # {}
    /\ runs' = [i \in DOMAIN runs |->
                  IF runs[i].state = "running" THEN [runs[i] EXCEPT !.state = "orphan"]
                  ELSE runs[i]]
    /\ UNCHANGED <<results, torn>>

\* An orphan comes to its end, or is killed: nobody writes its line.
OrphanEnds(i) ==
    /\ runs[i].state = "orphan"
    /\ runs' = [runs EXCEPT ![i].state = "untold"]
    /\ UNCHANGED <<results, torn>>

SweepNext ==
    \/ StartArm \/ EngineStops
    \/ \E i \in DOMAIN runs : BeginStage(i) \/ EndStage(i) \/ FinishArm(i) \/ OrphanEnds(i)

SweepSpec == SweepInit /\ [][SweepNext]_sweepVars

-----------------------------------------------------------------------------
(* survey *)

RowsOf(cell) == {k \in DOMAIN results : results[k].cell = cell}

\* Mutant of Decides: the first arm of a cell decides.
FirstDecides(cell) == Min(RowsOf(cell))

\* _fold_cells: the last arm in the file decides for its cell.
Decides(cell) == Max(RowsOf(cell))

\* _in_flight: the workspaces with a log of the cell; the last one glob comes to
\* is the one shown, and it comes to them in any order.
Logs(cell) ==
    {i \in DOMAIN runs :
        /\ CellOf(runs[i].arm[1]) = cell /\ runs[i].began > 0
        /\ runs[i].state \in Verdicts => Keep}
Open(i) == runs[i].began > runs[i].ended

\* What the board may show for a planned cell.
MayShow(cell) ==
    IF RowsOf(cell) # {} THEN {results[Decides(cell)].state}
    ELSE IF Logs(cell) = {} THEN {"pending"}
    ELSE {IF Open(i) THEN "running" ELSE "pending" : i \in Logs(cell)}

Withheld == -1

\* Mutant of Spent: the last arm of each cell, which is how $51 read as $9.16.
SpentByCell == {Decides(results[k].cell) : k \in DOMAIN results}

\* The money is the arms', not the cells'.
Spent == DOMAIN results

\* _money: an arm costs one; no total unless every arm is priced.
Money ==
    IF Spent # {} /\ \A k \in Spent : results[k].priced THEN Cardinality(Spent) ELSE Withheld

-----------------------------------------------------------------------------
(* Properties. *)

Undashed == {task \in Tasks : Len(task[1]) = 1}
Ended == {i \in DOMAIN runs : runs[i].state \in Verdicts}
Lost == Ended \ {results[k].run : k \in DOMAIN results}
Latest(cell) ==
    LET told == {k \in DOMAIN results : CellOf(runs[results[k].run].arm[1]) = cell}
    IN  results[Max(told)].run

\* A total is what every arm that ended cost, those that were run again and the
\* other repeats of a cell included; only arms whose line was cut short are
\* missing, and what the engine did not live to record.
SweepBill == Money # Withheld => Money = Cardinality(Ended) - Cardinality(Lost)

\* A cell the board calls settled has an arm that ended, and shows the verdict of
\* the one recorded last; one it calls running has no verdict and an open session
\* in some workspace; one arm at work in a stage, alone with its cell and with no
\* verdict yet, is shown.  Tickers with a dash are left out: their rows never
\* meet their plan.
CellsTell ==
    \A task \in Undashed :
        LET cell == PlannedCell(task)
            mine == {i \in DOMAIN runs : runs[i].arm[1] = task}
        IN  \A shown \in MayShow(cell) :
                /\ shown \in Verdicts =>
                      runs[Latest(cell)].state = shown /\ Latest(cell) \in mine
                /\ shown = "running" =>
                      mine \cap Ended \subseteq Lost /\ \E i \in mine : Open(i)
                /\ shown = "pending" =>
                      /\ mine \cap Ended \subseteq Lost
                      /\ \A i \in mine : mine = {i} /\ runs[i].state \in Working => ~Open(i)
=============================================================================
