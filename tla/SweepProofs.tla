----------------------------- MODULE SweepProofs -----------------------------
(***************************************************************************)
(* Proofs about Sweep, for any grid, tickers, repeats and number of arms:   *)
(* what a total is the sum of, and that a cell shows what its arms came to. *)
(***************************************************************************)
EXTENDS Sweep, FiniteSetTheorems, SequenceTheorems, WellFoundedInduction, TLAPS

-----------------------------------------------------------------------------
(* The inductive invariant. *)

Stand == Verdicts \cup Working \cup {"untold"}
Run == [arm : Arms, began : Nat, ended : Nat, state : Stand]
Row == [run : Nat, cell : {CellOf(task) : task \in Tasks}, state : Verdicts, priced : BOOLEAN]

\* A row is of an arm that ended, with its cell and its verdict.
IsTrue(row) ==
    /\ row.run \in DOMAIN runs
    /\ row.state = runs[row.run].state
    /\ row.cell = CellOf(runs[row.run].arm[1])

\* Every row is true, and no arm has two.
BInv ==
    /\ runs \in Seq(Run) /\ results \in Seq(Row) /\ torn \in BOOLEAN
    /\ \A k \in DOMAIN results : IsTrue(results[k])
    /\ \A k, l \in DOMAIN results : results[k].run = results[l].run => k = l

-----------------------------------------------------------------------------
(* The steps. *)

\* No arm, no row.
LEMMA InitRows == SweepInit => BInv
<1> SUFFICES ASSUME SweepInit PROVE BInv
  OBVIOUS
<1>1. runs = <<>> /\ results = <<>> /\ torn = FALSE
  BY DEF SweepInit
<1>2. runs \in Seq(Run) /\ results \in Seq(Row)
  BY <1>1
<1>3. DOMAIN results = {}
  BY <1>1
<1> QED
  BY <1>1, <1>2, <1>3 DEF BInv

\* Arms are added or go on; those that have ended stay as they are.
LEMMA RowsStay ==
  ASSUME BInv, runs' \in Seq(Run), results' = results, torn' = torn,
         \A i \in DOMAIN runs :
            /\ i \in DOMAIN runs' /\ runs'[i].arm = runs[i].arm
            /\ runs[i].state \in Verdicts => runs'[i].state = runs[i].state
  PROVE  BInv'
<1>1. ASSUME NEW k \in DOMAIN results PROVE IsTrue(results[k])'
  <2>1. IsTrue(results[k]) /\ results[k] \in Row
    BY DEF BInv
  <2>2. results[k].state \in Verdicts
    BY <2>1 DEF Row
  <2> QED
    BY <2>1, <2>2 DEF IsTrue
<1> QED
  BY <1>1 DEF BInv

\* An arm that is at work goes on, or comes to an end nobody writes down.
LEMMA ArmGoesOn ==
  ASSUME BInv, NEW i \in DOMAIN runs, BeginStage(i) \/ EndStage(i) \/ OrphanEnds(i)
  PROVE  BInv'
<1>1. runs \in Seq(Run) /\ runs[i] \in Run /\ results' = results /\ torn' = torn
  BY DEF BInv, BeginStage, EndStage, OrphanEnds
<1>2. PICK r \in Run : /\ runs' = [runs EXCEPT ![i] = r] /\ r.arm = runs[i].arm
                       /\ runs[i].state \in Verdicts => r.state = runs[i].state
  <2>1. CASE BeginStage(i)
    <3>1. runs' = [runs EXCEPT ![i] = [runs[i] EXCEPT !.began = @ + 1]]
      BY <2>1 DEF BeginStage
    <3>2. [runs[i] EXCEPT !.began = @ + 1] \in Run
      BY <1>1 DEF Run
    <3> QED
      BY <1>1, <3>1, <3>2 DEF Run
  <2>2. CASE EndStage(i)
    <3>1. runs' = [runs EXCEPT ![i] = [runs[i] EXCEPT !.ended = @ + 1]]
      BY <2>2 DEF EndStage
    <3>2. [runs[i] EXCEPT !.ended = @ + 1] \in Run
      BY <1>1 DEF Run
    <3> QED
      BY <1>1, <3>1, <3>2 DEF Run
  <2>3. CASE OrphanEnds(i)
    <3>1. runs' = [runs EXCEPT ![i] = [runs[i] EXCEPT !.state = "untold"]]
          /\ runs[i].state \notin Verdicts
      BY <2>3 DEF OrphanEnds, Verdicts
    <3>2. [runs[i] EXCEPT !.state = "untold"] \in Run
      BY <1>1 DEF Run, Stand
    <3> QED
      BY <1>1, <3>1, <3>2 DEF Run
  <2> QED
    BY <2>1, <2>2, <2>3
<1>3. runs' \in Seq(Run) /\ DOMAIN runs' = DOMAIN runs
  BY <1>1, <1>2
<1> QED
  BY <1>1, <1>2, <1>3, RowsStay

\* One more arm.
LEMMA ArmStarts ==
  ASSUME BInv, StartArm
  PROVE  BInv'
<1>1. PICK arm \in Arms :
         runs' = Append(runs, [arm |-> arm, began |-> 0, ended |-> 0, state |-> "running"])
  BY DEF StartArm
<1>2. [arm |-> arm, began |-> 0, ended |-> 0, state |-> "running"] \in Run
  BY DEF Run, Stand, Working
<1>3. runs \in Seq(Run) /\ results' = results /\ torn' = torn
  BY DEF BInv, StartArm
<1>4. runs' \in Seq(Run) /\ \A i \in DOMAIN runs : i \in DOMAIN runs' /\ runs'[i] = runs[i]
  BY <1>1, <1>2, <1>3
<1> QED
  BY <1>3, <1>4, RowsStay

\* The engine is stopped: the arms at work are orphans.
LEMMA ArmsAreLeft ==
  ASSUME BInv, EngineStops
  PROVE  BInv'
<1>1. /\ runs \in Seq(Run) /\ results' = results /\ torn' = torn
      /\ runs' = [i \in DOMAIN runs |->
                    IF runs[i].state = "running" THEN [runs[i] EXCEPT !.state = "orphan"]
                    ELSE runs[i]]
  BY DEF BInv, EngineStops
<1>2. ASSUME NEW i \in DOMAIN runs
      PROVE  /\ runs'[i] \in Run /\ runs'[i].arm = runs[i].arm
             /\ runs[i].state \in Verdicts => runs'[i].state = runs[i].state
  <2>1. runs[i] \in Run
    BY <1>1
  <2>2. [runs[i] EXCEPT !.state = "orphan"] \in Run
    BY <2>1 DEF Run, Stand, Working
  <2> QED
    BY <1>1, <2>1, <2>2 DEF Verdicts, Run
<1>3. runs' \in Seq(Run) /\ DOMAIN runs' = DOMAIN runs
  <2>1. DOMAIN runs = 1..Len(runs) /\ Len(runs) \in Nat
    BY <1>1
  <2>2. runs' \in [1..Len(runs) -> Run]
    BY <1>1, <1>2, <2>1
  <2> QED
    BY <2>1, <2>2
<1> QED
  BY <1>1, <1>2, <1>3, RowsStay

\* An arm ends, and its line is there, or was cut short.
LEMMA ArmEnds ==
  ASSUME BInv, NEW i \in DOMAIN runs, FinishArm(i)
  PROVE  BInv'
<1>1. PICK verdict \in Verdicts, priced \in BOOLEAN :
        /\ runs' = [runs EXCEPT ![i].state = verdict]
        /\ LET row == [run |-> i, cell |-> CellOf(runs[i].arm[1]), state |-> verdict,
                       priced |-> priced]
           IN  \/ results' = (IF torn THEN results ELSE Append(results, row)) /\ torn' = FALSE
               \/ results' = results /\ torn' = TRUE
  BY DEF FinishArm
<1> DEFINE row == [run |-> i, cell |-> CellOf(runs[i].arm[1]), state |-> verdict,
                   priced |-> priced]
<1>2. runs \in Seq(Run) /\ results \in Seq(Row) /\ runs[i] \in Run /\ runs[i].state = "running"
  BY DEF BInv, FinishArm
<1>3. row \in Row
  <2>1. runs[i].arm[1] \in Tasks
    BY <1>2 DEF Run, Arms
  <2>2. i \in Nat
    BY <1>2
  <2> QED
    BY <2>1, <2>2 DEF Row
<1>4. /\ runs' \in Seq(Run) /\ DOMAIN runs' = DOMAIN runs /\ runs'[i].arm = runs[i].arm
      /\ runs'[i].state = verdict
      /\ \A j \in DOMAIN runs : j # i => runs'[j] = runs[j]
  <2>1. runs' = [runs EXCEPT ![i] = [runs[i] EXCEPT !.state = verdict]]
    BY <1>1
  <2>2. [runs[i] EXCEPT !.state = verdict] \in Run
    BY <1>2 DEF Run, Stand
  <2>3. PICK new \in Run : new = [runs[i] EXCEPT !.state = verdict]
    BY <2>2
  <2>4. new.arm = runs[i].arm /\ new.state = verdict
    BY <1>2, <2>3 DEF Run
  <2>5. runs' = [runs EXCEPT ![i] = new]
    BY <2>1, <2>3
  <2> QED
    BY <1>2, <2>4, <2>5
<1>5. ASSUME NEW r \in Row, IsTrue(r)
      PROVE  IsTrue(r)' /\ r.run # i
  <2>1. /\ r.run \in DOMAIN runs /\ r.state = runs[r.run].state
        /\ r.cell = CellOf(runs[r.run].arm[1]) /\ r.state \in Verdicts
    BY <1>5 DEF IsTrue, Row
  <2>2. r.run # i
    BY <1>2, <2>1 DEF Verdicts
  <2> QED
    BY <1>4, <2>1, <2>2 DEF IsTrue
<1>6. \A k \in DOMAIN results :
         results[k] \in Row /\ IsTrue(results[k]) /\ results[k].run # i
  BY <1>2, <1>5 DEF BInv
<1>7. PICK r0 \in Row : r0 = row
  BY <1>3
<1>8. IsTrue(r0)' /\ r0.run = i
  BY <1>4, <1>7 DEF IsTrue
<1>9. CASE results' = results
  <2>1. torn' \in BOOLEAN
    BY <1>1
  <2>2. \A k \in DOMAIN results' : IsTrue(results[k])'
    <3> SUFFICES ASSUME NEW k \in DOMAIN results' PROVE IsTrue(results[k])'
      OBVIOUS
    <3>1. PICK r \in Row : r = results[k] /\ IsTrue(r)
      BY <1>6, <1>9
    <3>2. IsTrue(r)' /\ r = results'[k]
      BY <1>5, <1>9, <3>1
    <3> QED
      BY <3>2 DEF IsTrue
  <2> QED
    BY <1>2, <1>4, <1>9, <2>1, <2>2 DEF BInv
<1>10. CASE results' = Append(results, row) /\ torn' = FALSE
  <2> HIDE DEF row
  <2>1. /\ results' \in Seq(Row) /\ DOMAIN results' = DOMAIN results \cup {Len(results) + 1}
        /\ results'[Len(results) + 1] = r0
        /\ \A k \in DOMAIN results : results'[k] = results[k] /\ k # Len(results) + 1
    BY <1>2, <1>3, <1>7, <1>10
  <2>2. ASSUME NEW k \in DOMAIN results' PROVE IsTrue(results[k])'
    <3>1. PICK r \in Row : r = results'[k] /\ IsTrue(r)'
      <4>1. CASE k \in DOMAIN results
        <5>1. results[k] \in Row /\ IsTrue(results[k]) /\ results'[k] = results[k]
          BY <1>6, <2>1, <4>1
        <5>2. PICK r \in Row : r = results[k] /\ IsTrue(r) /\ r = results'[k]
          BY <5>1
        <5> QED
          BY <1>5, <5>2
      <4>2. CASE k = Len(results) + 1
        BY <1>8, <2>1, <4>2
      <4> QED
        BY <2>1, <2>2, <4>1, <4>2
    <3> QED
      BY <3>1 DEF IsTrue
  <2>3. ASSUME NEW k \in DOMAIN results', NEW l \in DOMAIN results', results'[k].run = results'[l].run
        PROVE  k = l
    BY <1>6, <1>8, <2>1, <2>3 DEF BInv
  <2> QED
    BY <1>4, <1>10, <2>1, <2>2, <2>3 DEF BInv
<1> QED
  BY <1>1, <1>9, <1>10

\* No arm, row or signal to the engine breaks the invariant.
THEOREM RowsInductive == SweepSpec => []BInv
<1>1. BInv /\ [SweepNext]_sweepVars => BInv'
  <2> SUFFICES ASSUME BInv, [SweepNext]_sweepVars PROVE BInv'
    OBVIOUS
  <2>1. CASE UNCHANGED sweepVars
    BY <2>1 DEF sweepVars, BInv, IsTrue
  <2> QED
    BY <2>1, ArmStarts, ArmsAreLeft, ArmGoesOn, ArmEnds DEF SweepNext
<1> QED
  BY <1>1, InitRows, PTL DEF SweepSpec

-----------------------------------------------------------------------------
(* The bill. *)

\* A total is what every arm that ended cost, those that were run again and the
\* other repeats of a cell included, but for those whose line was lost
\* (sweep.survey, sweep._money), however many arms there were.
THEOREM BillIsTheArms == SweepSpec => []SweepBill
<1>1. ASSUME BInv PROVE SweepBill
  <2> SUFFICES ASSUME Money # Withheld PROVE Money = Cardinality(Ended) - Cardinality(Lost)
    BY DEF SweepBill
  <2>1. Money = Cardinality(DOMAIN results)
    BY DEF Money, Spent
  <2> DEFINE Told == {results[k].run : k \in DOMAIN results}
             runOf == [k \in DOMAIN results |-> results[k].run]
  <2>2. /\ results \in Seq(Row) /\ DOMAIN results = 1..Len(results) /\ Len(results) \in Nat
        /\ runs \in Seq(Run) /\ DOMAIN runs = 1..Len(runs) /\ Len(runs) \in Nat
    BY <1>1 DEF BInv
  <2>3. IsFiniteSet(DOMAIN results) /\ IsFiniteSet(DOMAIN runs)
    BY <2>2, FS_Interval
  <2>4. runOf \in Bijection(DOMAIN results, Told)
    <3>1. runOf \in Injection(DOMAIN results, Told)
      BY <1>1 DEF BInv, Injection, IsInjective
    <3>2. runOf \in Surjection(DOMAIN results, Told)
      BY DEF Surjection
    <3> QED
      BY <3>1, <3>2 DEF Bijection
  <2>5. Cardinality(Told) = Cardinality(DOMAIN results)
    <3>1. ExistsBijection(DOMAIN results, Told)
      BY <2>4 DEF ExistsBijection
    <3> HIDE DEF Told, runOf
    <3> QED
      BY <2>3, <3>1, FS_Bijection
  <2>6. Told \subseteq Ended
    <3> SUFFICES ASSUME NEW k \in DOMAIN results PROVE results[k].run \in Ended
      OBVIOUS
    <3>1. IsTrue(results[k]) /\ results[k].state \in Verdicts
      <4>1. results[k] \in Row
        BY <2>2
      <4> QED
        BY <1>1, <4>1 DEF BInv, Row
    <3> QED
      BY <3>1 DEF IsTrue, Ended
  <2>7. IsFiniteSet(Ended)
    BY <2>3, FS_Subset DEF Ended
  <2>8. Cardinality(Lost) = Cardinality(Ended) - Cardinality(Told)
    <3>1. Lost = Ended \ Told /\ Ended \cap Told = Told
      BY <2>6 DEF Lost
    <3> HIDE DEF Told
    <3> QED
      BY <2>7, <3>1, FS_Difference
  <2>9. Cardinality(Ended) \in Nat /\ Cardinality(Told) \in Nat
    <3>1. IsFiniteSet(Told)
      BY <2>6, <2>7, FS_Subset
    <3> QED
      BY <2>7, <3>1, FS_CardinalityType
  <2> DEFINE e == Cardinality(Ended)  t == Cardinality(Told)  l == Cardinality(Lost)
  <2>10. l = e - t /\ e \in Nat /\ t \in Nat /\ Money = t
    BY <2>1, <2>5, <2>8, <2>9
  <2> HIDE DEF e, t, l
  <2>11. Money = e - l
    BY <2>10
  <2> QED
    BY <2>11 DEF e, l
<1> QED
  BY <1>1, RowsInductive, PTL

-----------------------------------------------------------------------------
(* The cells. *)

\* A set of numbers up to n has a greatest one.
LEMMA Greatest ==
  ASSUME NEW n \in Nat, NEW S \in SUBSET (1..n), S # {}
  PROVE  Max(S) \in S /\ \A j \in S : Max(S) >= j
<1> DEFINE R == {ss \in Nat \X Nat : ss[1] < ss[2]}
           Below == {n - i : i \in S}
<1>1. IsWellFoundedOn(R, Nat)
  BY NatLessThanWellFounded, Zenon DEF OpToRel
<1>2. Below \subseteq Nat /\ Below # {}
  <2>1. \A i \in S : i \in Int /\ n - i \in Nat
    OBVIOUS
  <2> QED
    BY <2>1
<1> HIDE DEF R
<1>3. PICK b \in Below : \A c \in Below : <<c, b>> \notin R
  BY <1>1, <1>2, WFMin
<1>4. PICK i \in S : b = n - i
  BY <1>3
<1>5. ASSUME NEW j \in S PROVE i >= j
  <2>1. i \in Int /\ j \in Int /\ n - j \in Nat /\ b \in Nat
    BY <1>2, <1>3
  <2>0. n - j \in Below
    OBVIOUS
  <2>2. n - j < b => <<n - j, b>> \in R
    BY <2>1 DEF R
  <2>3. ~(n - j < n - i)
    BY <1>3, <1>4, <2>0, <2>2
  <2> QED
    BY <2>1, <2>3
<1> QED
  BY <1>5 DEF Max

\* A sequence of one.
LEMMA OneLong ==
  ASSUME NEW S, NEW s \in Seq(S), Len(s) = 1
  PROVE  s = <<s[1]>>
<1>1. s \in [1..1 -> S]
  BY LenProperties
<1>2. s = [i \in 1..1 |-> s[i]] /\ 1..1 = {1}
  BY <1>1
<1>3. <<s[1]>> = [i \in {1} |-> s[1]]
  OBVIOUS
<1> QED
  BY <1>2, <1>3

\* The head and the tail of one to which another is appended.
LEMMA TwoLong ==
  ASSUME NEW S, NEW s \in Seq(S), Len(s) = 1, NEW e \in S
  PROVE  Head(Append(s, e)) = s[1] /\ Tail(Append(s, e)) = <<e>>
<1>1. Append(s, e) \in Seq(S) /\ Append(s, e) # <<>>
  BY AppendProperties
<1>2. Append(s, e)[1] = s[1]
  OBVIOUS
<1>3. Len(Append(s, e)) = Len(s) + 1
  BY AppendProperties
<1>4. Append(s, e)[Len(s) + 1] = e
  BY AppendProperties
<1>5. PICK t \in Seq(S) : t = Append(s, e)
  BY <1>1
<1>6. t # <<>> /\ Len(t) = 2 /\ t[1] = s[1] /\ t[2] = e
  BY <1>1, <1>2, <1>3, <1>4, <1>5
<1>7. Tail(t) \in Seq(S) /\ Len(Tail(t)) = Len(t) - 1
  BY <1>6, HeadTailProperties
<1>8. \A i \in 1..Len(Tail(t)) : Tail(t)[i] = t[i + 1]
  BY <1>6, HeadTailProperties
<1>9. PICK u \in Seq(S) : u = Tail(t)
  BY <1>7
<1>10. Len(u) = 1 /\ \A i \in 1..Len(u) : u[i] = t[i + 1]
  BY <1>6, <1>7, <1>8, <1>9
<1>11. u[1] = e
  BY <1>6, <1>10
<1>12. u = <<e>>
  BY <1>10, <1>11, OneLong
<1>13. Head(t) = t[1]
  BY <1>6
<1> QED
  BY <1>5, <1>6, <1>9, <1>12, <1>13

\* A ticker of one part is read back from its directory's name, and two tasks
\* have two cells.
LEMMA CellsOfTasks ==
  ASSUME NEW task \in Tasks
  PROVE  /\ Len(task[1]) = 1 => PlannedCell(task) = CellOf(task)
         /\ \A other \in Tasks : CellOf(other) = CellOf(task) => other = task
<1>1. task[1] \in Tickers /\ task = <<task[1], task[2]>>
  BY DEF Tasks
<1>2. ASSUME Len(task[1]) = 1 PROVE PlannedCell(task) = CellOf(task)
  <2> DEFINE ticker == task[1]  date == task[2]
             Parts == {ticker[i] : i \in DOMAIN ticker} \cup {date}
  <2>1. ticker \in Seq({ticker[i] : i \in DOMAIN ticker})
    BY <1>1, SweepAssumption
  <2>2. ticker \in Seq(Parts) /\ date \in Parts /\ Len(ticker) = 1
    BY <1>2, <2>1
  <2> HIDE DEF ticker, date, Parts
  <2>3. ticker = <<ticker[1]>>
    BY <2>2, OneLong
  <2>4. Head(Append(ticker, date)) = ticker[1] /\ Tail(Append(ticker, date)) = <<date>>
    BY <2>2, TwoLong
  <2>5. PlannedCell(task) = <<<<ticker[1]>>, <<date>>>>
    BY <2>4 DEF PlannedCell, ticker, date
  <2> QED
    BY <2>3, <2>5 DEF CellOf, ticker, date
<1>3. ASSUME NEW other \in Tasks, CellOf(other) = CellOf(task) PROVE other = task
  <2>1. other = <<other[1], other[2]>>
    BY DEF Tasks
  <2>2. other[1] = task[1] /\ <<other[2]>> = <<task[2]>>
    BY <1>3 DEF CellOf
  <2> QED
    BY <1>1, <2>1, <2>2
<1> QED
  BY <1>2, <1>3

\* A cell the board calls settled shows the verdict of the arm recorded last, one
\* it calls running or pending has none (sweep.survey, sweep._fold_cells,
\* sweep._in_flight), for every ticker with no dash.
THEOREM CellsShowTheArms == SweepSpec => []CellsTell
<1>1. ASSUME BInv, NEW task \in Undashed, NEW shown \in MayShow(PlannedCell(task))
      PROVE  LET cell == PlannedCell(task)
                 mine == {i \in DOMAIN runs : runs[i].arm[1] = task}
             IN  /\ shown \in Verdicts =>
                       runs[Latest(cell)].state = shown /\ Latest(cell) \in mine
                 /\ shown = "running" =>
                       mine \cap Ended \subseteq Lost /\ \E i \in mine : Open(i)
                 /\ shown = "pending" =>
                       /\ mine \cap Ended \subseteq Lost
                       /\ \A i \in mine : mine = {i} /\ runs[i].state \in Working => ~Open(i)
  <2> DEFINE cell == CellOf(task)
             mine == {i \in DOMAIN runs : runs[i].arm[1] = task}
  <2>1. task \in Tasks /\ PlannedCell(task) = cell
    BY CellsOfTasks DEF Undashed
  <2>2. /\ results \in Seq(Row) /\ DOMAIN results = 1..Len(results) /\ Len(results) \in Nat
        /\ runs \in Seq(Run)
    BY <1>1 DEF BInv
  <2>3. ASSUME NEW i \in DOMAIN runs, CellOf(runs[i].arm[1]) = cell PROVE i \in mine
    <3>1. runs[i].arm[1] \in Tasks
      <4>1. runs[i] \in Run
        BY <2>2
      <4> QED
        BY <4>1 DEF Run, Arms
    <3> QED
      BY <2>1, <2>3, <3>1, CellsOfTasks
  <2>4. \A k \in DOMAIN results :
           /\ results[k].run \in DOMAIN runs /\ results[k].state = runs[results[k].run].state
           /\ results[k].cell = CellOf(runs[results[k].run].arm[1])
           /\ results[k].state \in Verdicts
    <3>1. \A k \in DOMAIN results : results[k] \in Row
      BY <2>2
    <3> QED
      BY <1>1, <3>1 DEF BInv, IsTrue, Row
  <2>5. ASSUME RowsOf(cell) = {} PROVE mine \cap Ended \subseteq Lost
    <3> SUFFICES ASSUME NEW i \in mine, i \in Ended, i \notin Lost PROVE FALSE
      OBVIOUS
    <3>1. PICK k \in DOMAIN results : results[k].run = i
      BY DEF Lost
    <3>2. results[k].cell = cell
      BY <2>4, <3>1
    <3> QED
      BY <2>5, <3>2 DEF RowsOf
  <2>6. CASE RowsOf(cell) # {}
    <3>1. shown = results[Max(RowsOf(cell))].state
      BY <1>1, <2>1, <2>6 DEF MayShow, Decides
    <3>2. Max(RowsOf(cell)) \in RowsOf(cell)
      BY <2>2, <2>6, Greatest DEF RowsOf
    <3>3. {k \in DOMAIN results : CellOf(runs[results[k].run].arm[1]) = cell} = RowsOf(cell)
      BY <2>4 DEF RowsOf
    <3>4. Latest(cell) = results[Max(RowsOf(cell))].run
      BY <3>3 DEF Latest
    <3>5. shown \in Verdicts /\ runs[Latest(cell)].state = shown /\ Latest(cell) \in mine
      BY <2>3, <2>4, <3>1, <3>2, <3>4 DEF RowsOf
    <3>6. shown # "running" /\ shown # "pending"
      BY <3>5 DEF Verdicts
    <3> QED
      BY <2>1, <3>5, <3>6
  <2>7. CASE RowsOf(cell) = {}
    <3>1. \/ Logs(cell) = {} /\ shown = "pending"
          \/ \E i \in Logs(cell) : shown = IF Open(i) THEN "running" ELSE "pending"
      BY <1>1, <2>1, <2>7 DEF MayShow
    <3>2. \A i \in Logs(cell) : i \in mine
      BY <2>3 DEF Logs
    <3>3. shown \notin Verdicts
      BY <3>1 DEF Verdicts
    <3>4. shown = "running" => \E i \in mine : Open(i)
      BY <3>1, <3>2
    <3>5. ASSUME shown = "pending", NEW i \in mine, mine = {i}, runs[i].state \in Working, Open(i)
          PROVE  FALSE
      <4>1. i \in Logs(cell)
        <5>1. runs[i].began \in Nat /\ runs[i].ended \in Nat
          <6>1. runs[i] \in Run
            BY <2>2
          <6> QED
            BY <6>1 DEF Run
        <5>2. runs[i].began > 0
          BY <3>5, <5>1 DEF Open
        <5> QED
          BY <3>5, <5>2 DEF Logs, Working, Verdicts
      <4> QED
        BY <3>1, <3>2, <3>5, <4>1
    <3> QED
      BY <2>1, <2>5, <2>7, <3>3, <3>4, <3>5
  <2> QED
    BY <2>6, <2>7
<1>2. BInv => CellsTell
  BY <1>1 DEF CellsTell
<1> QED
  BY <1>2, RowsInductive, PTL
=============================================================================
