---------------------------- MODULE ProgressProofs ----------------------------
(***************************************************************************)
(* Proofs about the progress of a run, for every configuration: the units  *)
(* of work are counted, the journal is never more than one of them behind, *)
(* gains one at a time and is cleared only once the results are out, so    *)
(* Pipeline implements RunProgress; and no debater speaks before its       *)
(* session has heard the whole debate.  Then the board the run is watched  *)
(* on: it shows what the run holds and what is being asked, and no more.   *)
(***************************************************************************)
EXTENDS PipelineProofs, RunBoard, FiniteSetTheorems, WellFoundedInduction

-----------------------------------------------------------------------------
(* What PipelineProofs!IInv is strengthened with. *)

\* While a unit is being saved, the state is one unit ahead of the journal.
Counted ==
    pc \in Saving /\ journal # Nothing => Units(state) = Units(journal) + 1

\* What has been handed over so far: first the report, then the decision.
HandedOver ==
    /\ pc \in {"record", "clear"} => report = state
    /\ pc = "clear" /\ RecordDecision => decisions[Own] # "absent"

\* Nobody has told the session of side s anything, or it has heard the debate
\* up to turn k, which it spoke itself and which lies within the last round
\* that begins after turn from.
Kept(s, from) ==
    \/ s \notin briefed /\ seen[s] = {}
    \/ \E k \in 1..Len(Turns(state, phase)) :
        /\ s \in briefed
        /\ k > from
        /\ (k - 1) % Sides(phase) = s
        /\ seen[s] = Spoken(Turns(state, phase), 1, k)

\* Length of the debate of the current phase less the number of its sides: the
\* turns after it are the last round.
RoundBefore == Len(Turns(state, phase)) - Sides(phase)

\* What the debate's sessions have heard.
Heard ==
    phase \in Debates =>
        /\ pc \in {"turn"} \cup Saving => \A s \in Side : Kept(s, RoundBefore)
        /\ pc = "asking" =>
            /\ NextSide(state, phase) \in briefed
            /\ seen[NextSide(state, phase)] =
                   Spoken(Turns(state, phase), 1, Len(Turns(state, phase)))
            /\ \A s \in Side \ {NextSide(state, phase)} : Kept(s, RoundBefore + 1)

PInv == IInv /\ Counted /\ HandedOver /\ Heard

-----------------------------------------------------------------------------
(* Counting the units of a run state. *)

\* The judges whose verdict st has.
Judged(st) == {p \in Judges : Verdict(st, p) # 0}

\* The reports and verdicts of a run state are finitely many, and no more
\* reports than there are analysts.
LEMMA CountFacts ==
    ASSUME NEW st \in RunState
    PROVE  /\ IsFiniteSet(Held(st))
           /\ Cardinality(Held(st)) \in Nat /\ Cardinality(Held(st)) <= NAnalysts
           /\ Held(st) = 1..NAnalysts => Cardinality(Held(st)) = NAnalysts
           /\ IsFiniteSet(Judged(st))
           /\ Cardinality(Judged(st)) \in Nat /\ Cardinality(Judged(st)) <= 3
           /\ Len(st.investment) \in Nat /\ Len(st.risk) \in Nat
           /\ Units(st) = Cardinality(Held(st)) + Len(st.investment) + Len(st.risk)
                            + Cardinality(Judged(st))
           /\ Units(st) \in Nat
<1> USE ConfigAssumption
<1>1. IsFiniteSet(1..NAnalysts) /\ Cardinality(1..NAnalysts) = NAnalysts
  BY FS_Interval
<1>2. Held(st) \in SUBSET (1..NAnalysts)
  BY DEF Held
<1>3. /\ IsFiniteSet(Held(st)) /\ Cardinality(Held(st)) <= NAnalysts
      /\ Cardinality(Held(st)) = NAnalysts => Held(st) = 1..NAnalysts
  BY <1>1, <1>2, FS_Subset
<1>4. Cardinality(Held(st)) \in Nat
  BY <1>3, FS_CardinalityType
<1>5. IsFiniteSet(Judges) /\ Cardinality(Judges) = 3
  <2>1. IsFiniteSet({"research_manager"}) /\ Cardinality({"research_manager"}) = 1
    BY FS_Singleton
  <2>2. /\ IsFiniteSet({"research_manager"} \cup {"trader"})
        /\ Cardinality({"research_manager"} \cup {"trader"}) = 2
    BY <2>1, FS_AddElement
  <2>3. /\ IsFiniteSet({"research_manager"} \cup {"trader"} \cup {"portfolio_manager"})
        /\ Cardinality({"research_manager"} \cup {"trader"} \cup {"portfolio_manager"}) = 3
    <3>1. "portfolio_manager" \notin {"research_manager"} \cup {"trader"}
      OBVIOUS
    <3> QED  BY ONLY <2>2, <3>1, FS_AddElement
  <2>4. Judges = {"research_manager"} \cup {"trader"} \cup {"portfolio_manager"}
    BY DEF Judges
  <2> QED  BY <2>3, <2>4
<1>6. Judged(st) \in SUBSET Judges
  BY DEF Judged
<1>7. IsFiniteSet(Judged(st)) /\ Cardinality(Judged(st)) <= 3
  BY <1>5, <1>6, FS_Subset
<1>8. Cardinality(Judged(st)) \in Nat
  BY <1>7, FS_CardinalityType
<1>9. Len(st.investment) \in Nat /\ Len(st.risk) \in Nat
  BY DEF RunState
<1>10. Units(st) = Cardinality(Held(st)) + Len(st.investment) + Len(st.risk)
                     + Cardinality(Judged(st))
  BY DEF Units, Judged
<1>11. Held(st) = 1..NAnalysts => Cardinality(Held(st)) = NAnalysts
  BY <1>1
<1>12. Units(st) \in Nat
  BY <1>4, <1>8, <1>9, <1>10
<1> QED  BY <1>3, <1>4, <1>7, <1>8, <1>9, <1>10, <1>11, <1>12

\* Of two run states, the one that holds one unit more in one of the parts that
\* are counted, and as many in the others, has one unit more.
LEMMA OneUnitMore ==
    ASSUME NEW st \in RunState, NEW after \in RunState,
           NEW h \in 0..1, NEW t \in 0..1, NEW r \in 0..1, NEW j \in 0..1,
           h + t + r + j = 1,
           Cardinality(Held(after)) = Cardinality(Held(st)) + h,
           Len(after.investment) = Len(st.investment) + t,
           Len(after.risk) = Len(st.risk) + r,
           Cardinality(Judged(after)) = Cardinality(Judged(st)) + j
    PROVE  Units(after) = Units(st) + 1
<1> DEFINE a == Cardinality(Held(st))
           b == Len(st.investment)
           c == Len(st.risk)
           d == Cardinality(Judged(st))
<1>1. a \in Nat /\ b \in Nat /\ c \in Nat /\ d \in Nat
  BY CountFacts
<1>2. Units(st) = a + b + c + d
  BY DEF Units, Judged
<1>3. Units(after) = (a + h) + (b + t) + (c + r) + (d + j)
  BY DEF Units, Judged
<1> HIDE DEF a, b, c, d
<1> QED  BY <1>1, <1>2, <1>3

\* The configured number of units is a number, and not zero.
LEMMA AllUnitsType ==
    /\ AllUnits \in Nat /\ AllUnits > 0
    /\ InvestmentTurns \in Nat /\ RiskTurns \in Nat
  BY ConfigAssumption DEF AllUnits, InvestmentTurns, RiskTurns

\* A new run has no unit.
LEMMA UnitsEmpty == Units(EmptyState) = 0
<1>1. Held(EmptyState) = {} /\ Judged(EmptyState) = {}
  BY DEF Held, Missing, EmptyState, Judged, Judges, Verdict
<1>2. Len(EmptyState.investment) = 0 /\ Len(EmptyState.risk) = 0
  BY DEF EmptyState
<1> QED  BY <1>1, <1>2, FS_EmptySet, CountFacts, EmptyStateFacts

\* A report of an analyst who had none is one unit more.
LEMMA UnitOfAnalyst ==
    ASSUME NEW st \in RunState, NEW i \in Missing(st), NEW v \in Version, v # 0
    PROVE  Units([st EXCEPT !.reports[i] = v]) = Units(st) + 1
<1> DEFINE after == [st EXCEPT !.reports[i] = v]
<1>1. after \in RunState
  BY AnalystState DEF Missing
<1>2. Held(after) = Held(st) \cup {i} /\ i \notin Held(st)
  BY DEF Held, Missing, RunState
<1>3. /\ after.investment = st.investment /\ after.risk = st.risk
      /\ Judged(after) = Judged(st)
  BY DEF RunState, Judged, Judges, Verdict
<1>4. Cardinality(Held(after)) = Cardinality(Held(st)) + 1
  BY <1>2, CountFacts, FS_AddElement
<1>5. /\ Cardinality(Held(st)) \in Nat /\ Cardinality(Judged(st)) \in Nat
      /\ Len(st.investment) \in Nat /\ Len(st.risk) \in Nat
  BY CountFacts
<1> HIDE DEF after
<1>6. /\ Cardinality(Held(after)) = Cardinality(Held(st)) + 1
      /\ Len(after.investment) = Len(st.investment) + 0
      /\ Len(after.risk) = Len(st.risk) + 0
      /\ Cardinality(Judged(after)) = Cardinality(Judged(st)) + 0
  BY <1>3, <1>4, <1>5
<1>7. Units(after) = Units(st) + 1
  BY <1>1, <1>6, OneUnitMore
<1> QED  BY <1>7 DEF after

\* A turn of a debate is one unit more.
LEMMA UnitOfTurn ==
    ASSUME NEW st \in RunState, NEW v \in Version
    PROVE  /\ Units([st EXCEPT !.investment = Append(@, v)]) = Units(st) + 1
           /\ Units([st EXCEPT !.risk = Append(@, v)]) = Units(st) + 1
<1>1. /\ Cardinality(Held(st)) \in Nat /\ Cardinality(Judged(st)) \in Nat
      /\ Len(st.investment) \in Nat /\ Len(st.risk) \in Nat
  BY CountFacts
<1> DEFINE invested == [st EXCEPT !.investment = Append(@, v)]
           risked == [st EXCEPT !.risk = Append(@, v)]
<1>2. /\ Held(invested) = Held(st) /\ Judged(invested) = Judged(st)
      /\ Len(invested.investment) = Len(st.investment) + 1 /\ invested.risk = st.risk
  BY DEF RunState, Held, Missing, Judged, Judges, Verdict
<1>3. /\ Held(risked) = Held(st) /\ Judged(risked) = Judged(st)
      /\ Len(risked.risk) = Len(st.risk) + 1 /\ risked.investment = st.investment
  BY DEF RunState, Held, Missing, Judged, Judges, Verdict
<1>4. invested \in RunState /\ risked \in RunState
  BY TurnState
<1> HIDE DEF invested, risked
<1>5. Units(invested) = Units(st) + 1
  BY <1>1, <1>2, <1>4, OneUnitMore
<1>6. Units(risked) = Units(st) + 1
  BY <1>1, <1>3, <1>4, OneUnitMore
<1> QED  BY <1>5, <1>6 DEF invested, risked

\* The verdict of a judge who had given none is one unit more.
LEMMA UnitOfVerdict ==
    ASSUME NEW st \in RunState, NEW v \in Version, v # 0
    PROVE  /\ st.plan = 0 => Units([st EXCEPT !.plan = v]) = Units(st) + 1
           /\ st.trader = 0 => Units([st EXCEPT !.trader = v]) = Units(st) + 1
           /\ st.decision = 0 => Units([st EXCEPT !.decision = v]) = Units(st) + 1
<1>1. ASSUME NEW after \in RunState, NEW p \in Judges, Held(after) = Held(st),
             p \notin Judged(st), Judged(after) = Judged(st) \cup {p},
             after.investment = st.investment, after.risk = st.risk
      PROVE  Units(after) = Units(st) + 1
  <2>1. Cardinality(Judged(after)) = Cardinality(Judged(st)) + 1
    BY <1>1, CountFacts, FS_AddElement
  <2>2. /\ Cardinality(Held(after)) = Cardinality(Held(st)) + 0
        /\ Len(after.investment) = Len(st.investment) + 0
        /\ Len(after.risk) = Len(st.risk) + 0
    BY <1>1, CountFacts
  <2> QED  BY <2>1, <2>2, OneUnitMore
<1> USE DEF RunState, Held, Missing, Judged, Judges, Verdict
<1>2. ASSUME st.plan = 0  PROVE Units([st EXCEPT !.plan = v]) = Units(st) + 1
  <2> DEFINE after == [st EXCEPT !.plan = v]
  <2>1. after \in RunState
    BY VerdictState
  <2>2. /\ Held(after) = Held(st) /\ "research_manager" \notin Judged(st)
        /\ Judged(after) = Judged(st) \cup {"research_manager"}
        /\ after.investment = st.investment /\ after.risk = st.risk
    BY <1>2
  <2> QED  BY <1>1, <2>1, <2>2
<1>3. ASSUME st.trader = 0  PROVE Units([st EXCEPT !.trader = v]) = Units(st) + 1
  <2> DEFINE after == [st EXCEPT !.trader = v]
  <2>1. after \in RunState
    BY VerdictState
  <2>2. /\ Held(after) = Held(st) /\ "trader" \notin Judged(st)
        /\ Judged(after) = Judged(st) \cup {"trader"}
        /\ after.investment = st.investment /\ after.risk = st.risk
    BY <1>3
  <2> QED  BY <1>1, <2>1, <2>2
<1>4. ASSUME st.decision = 0  PROVE Units([st EXCEPT !.decision = v]) = Units(st) + 1
  <2> DEFINE after == [st EXCEPT !.decision = v]
  <2>1. after \in RunState
    BY VerdictState
  <2>2. /\ Held(after) = Held(st) /\ "portfolio_manager" \notin Judged(st)
        /\ Judged(after) = Judged(st) \cup {"portfolio_manager"}
        /\ after.investment = st.investment /\ after.risk = st.risk
    BY <1>4
  <2> QED  BY <1>1, <2>1, <2>2
<1> QED  BY <1>2, <1>3, <1>4

\* A run in order has no more units than it is configured to have.
LEMMA UnitsBound ==
    ASSUME NEW st \in RunState, InOrder(st)
    PROVE  Units(st) <= AllUnits
  BY CountFacts, AllUnitsType, ConfigAssumption, SMTT(30) DEF InOrder, AllUnits

\* A run whose last verdict is given has them all.
LEMMA UnitsWhole ==
    ASSUME NEW st \in RunState, CompleteBefore(st, "portfolio_manager"),
           PhaseOver(st, "portfolio_manager")
    PROVE  Units(st) = AllUnits
<1>1. /\ Missing(st) = {} /\ st.plan # 0 /\ st.trader # 0 /\ st.decision # 0
      /\ Len(st.investment) = InvestmentTurns /\ Len(st.risk) = RiskTurns
  BY DEF CompleteBefore, PhaseOver, Debates, Verdict
<1>2. Held(st) = 1..NAnalysts
  BY <1>1 DEF Held
<1>3. Cardinality(Judged(st)) = 3
  <2>1. Judged(st) = {"research_manager"} \cup {"trader"} \cup {"portfolio_manager"}
    BY <1>1 DEF Judged, Judges, Verdict
  <2>2. IsFiniteSet({"research_manager"}) /\ Cardinality({"research_manager"}) = 1
    BY FS_Singleton
  <2>3. /\ IsFiniteSet({"research_manager"} \cup {"trader"})
        /\ Cardinality({"research_manager"} \cup {"trader"}) = 2
    BY <2>2, FS_AddElement
  <2> QED  BY <2>1, <2>3, FS_AddElement
<1> QED  BY <1>1, <1>2, <1>3, CountFacts, ConfigAssumption, AllUnitsType DEF AllUnits

-----------------------------------------------------------------------------
(* The journal is one unit behind at most. *)

Products == AnalystCompletes \/ TurnAnswered \/ JudgeCompletes

\* Every product is one unit more than what the journal holds.
LEMMA OneUnitMade ==
    ASSUME IInv, Products
    PROVE  /\ state \in RunState /\ journal = state
           /\ state' \in RunState /\ Units(state') = Units(state) + 1
<1> USE DEF IInv, Products
<1>1. /\ state \in RunState /\ journal = state /\ launches \in Version /\ launches # 0
      /\ ~PhaseOver(state, phase)
  BY DEF TypeOK, Control, NoState, Durable, AnalystCompletes, TurnAnswered, JudgeCompletes
<1>2. state' \in RunState
  BY ProducedState
<1>3. CASE AnalystCompletes
  <2>1. PICK i \in Missing(state) : state' = [state EXCEPT !.reports[i] = launches]
    BY <1>3 DEF AnalystCompletes
  <2> QED  BY <1>1, <1>2, <2>1, UnitOfAnalyst
<1>4. CASE TurnAnswered
  BY <1>1, <1>2, <1>4, UnitOfTurn DEF TurnAnswered
<1>5. CASE JudgeCompletes
  <2>1. \/ phase = "research_manager" /\ state' = [state EXCEPT !.plan = launches]
        \/ phase = "trader" /\ state' = [state EXCEPT !.trader = launches]
        \/ phase = "portfolio_manager" /\ state' = [state EXCEPT !.decision = launches]
    BY <1>5 DEF JudgeCompletes, Judges
  <2>2. Verdict(state, phase) = 0
    BY <1>1, <2>1 DEF PhaseOver, Debates
  <2> QED  BY <1>1, <1>2, <2>1, <2>2, UnitOfVerdict DEF Verdict
<1> QED  BY <1>3, <1>4, <1>5

\* What is being saved is a new run, or what has just been produced.
LEMMA SavingSteps ==
    ASSUME [Next]_vars, pc' \in Saving
    PROVE  \/ Begin
           \/ Products
           \/ pc \in Saving /\ UNCHANGED <<journal, state, phase, briefed, seen>>
<1> USE DEF Saving
<1>1. CASE UNCHANGED vars
  BY <1>1 DEF vars, files, debate
<1>2. CASE Launch \/ Faults
  BY <1>2 DEF Launch, Faults, PumpFails, Kill, StageFails, Escapes, Exit, files, debate
<1>3. CASE Driver
  BY <1>3 DEF Driver, Products, Resume, StartFresh, TakePending, Reflected, PendingDone,
              NextPhase, OpenStage, OpenDebate, Ask, AnalystCloses, WriteTmp, ReplaceJournal,
              LeaveObserving, PumpRaises, WriteSections, WriteWhole, Record, Clear, Exit,
              files, debate, Debates
<1> QED  BY <1>1, <1>2, <1>3 DEF Next

\* Every step keeps the count.
LEMMA CountedStep == PInv /\ [Next]_vars => Counted'
<1> SUFFICES ASSUME PInv, [Next]_vars, pc' \in Saving, journal' # Nothing
             PROVE  Units(state') = Units(journal') + 1
  BY DEF Counted
<1> USE DEF PInv
<1>1. CASE Begin
  BY <1>1 DEF IInv, Durable, Begin, files
<1>2. CASE Products
  <2>1. journal' = journal
    BY <1>2 DEF Products, AnalystCompletes, TurnAnswered, JudgeCompletes, files
  <2> QED  BY <1>2, <2>1, OneUnitMade
<1>3. CASE pc \in Saving /\ UNCHANGED <<journal, state, phase, briefed, seen>>
  BY <1>3 DEF Counted
<1> QED  BY <1>1, <1>2, <1>3, SavingSteps

-----------------------------------------------------------------------------
(* The results are out before the journal goes. *)

\* Every step keeps what has been handed over.
LEMMA HandedOverStep == PInv /\ [Next]_vars => HandedOver'
<1> SUFFICES ASSUME PInv, [Next]_vars, pc' \in {"record", "clear"}
             PROVE  HandedOver'
  BY DEF HandedOver
<1> USE DEF PInv
<1>1. CASE UNCHANGED vars
  BY <1>1 DEF HandedOver, vars, files
<1>2. CASE WriteWhole
  BY <1>2 DEF HandedOver, WriteWhole
<1>3. CASE Record
  <2>1. report' = report /\ state' = state /\ report = state
    BY <1>3 DEF HandedOver, Record
  <2>2. state.decision # 0
    BY <1>3 DEF IInv, Control, Delivering, PhaseOver, Verdict, Debates, Record
  <2>3. RecordDecision => decisions'[Own] # "absent"
    <3>1. decisions \in [Dates -> {"absent", "pending", "resolved"}] /\ Own \in Dates
      BY ConfigAssumption DEF IInv, TypeOK
    <3> QED  BY <1>3, <2>2, <3>1 DEF Record
  <2> QED  BY <2>1, <2>3 DEF HandedOver
<1>4. CASE Launch \/ Faults
  BY <1>4 DEF Launch, Faults, PumpFails, Observed, Kill, StageFails, Escapes, Exit
<1>5. CASE Driver /\ ~WriteWhole /\ ~Record
  BY <1>5 DEF Driver, Resume, StartFresh, TakePending, Reflected, PendingDone, Begin,
              NextPhase, OpenStage, OpenDebate, Ask, AnalystCompletes, AnalystCloses, TurnAnswered,
              JudgeCompletes, WriteTmp, ReplaceJournal, LeaveObserving, PumpRaises,
              WriteSections, Clear, Exit
<1> QED  BY <1>1, <1>2, <1>3, <1>4, <1>5 DEF Next

-----------------------------------------------------------------------------
(* What a debate's sessions have heard. *)

\* The sides speak in rotation: in the last round only its first turn was
\* spoken by the side that is next.
LEMMA Rotation ==
    ASSUME NEW n \in Nat, NEW m \in {2, 3}, NEW k \in 1..n, k > n - m
    PROVE  (k - 1) % m = n % m <=> k = n - m + 1
<1>1. CASE m = 2
  <2>1. k = n \/ k = n - 1
    BY <1>1
  <2>2. k - 1 \in Nat
    OBVIOUS
  <2>3. (n - 1) % 2 # n % 2
    OBVIOUS
  <2>4. n >= 2 => (n - 2) % 2 = n % 2
    OBVIOUS
  <2> QED  BY <1>1, <2>1, <2>2, <2>3, <2>4
<1>2. CASE m = 3
  <2>1. k = n \/ k = n - 1 \/ k = n - 2
    BY <1>2
  <2>2. (n - 1) % 3 # n % 3 /\ (n - 2) % 3 # n % 3 /\ (n - 3) % 3 = n % 3
    OBVIOUS
  <2> QED  BY <1>2, <2>1, <2>2
<1> QED  BY <1>1, <1>2

\* What has been spoken up to k and after it is what has been spoken.
LEMMA SpokenJoin ==
    ASSUME NEW turns, NEW n \in Nat, NEW k \in 0..n
    PROVE  /\ Spoken(turns, 1, k) \cup Spoken(turns, k + 1, n) = Spoken(turns, 1, n)
           /\ Spoken(turns, 1, 0) = {}
<1>1. 1..n = (1..k) \cup ((k + 1)..n)
  OBVIOUS
<1> QED  BY <1>1 DEF Spoken

\* One more turn changes nothing of what had been spoken.
LEMMA SpokenAppend ==
    ASSUME NEW turns \in Seq(Version), NEW v \in Version, NEW k \in 1..Len(turns)
    PROVE  Spoken(Append(turns, v), 1, k) = Spoken(turns, 1, k)
<1>1. \A l \in 1..k : Append(turns, v)[l] = turns[l]
  OBVIOUS
<1> QED  BY <1>1 DEF Spoken

\* Whoever has heard it all before the last turn and speaks it has heard it all.
LEMMA SpokenLast ==
    ASSUME NEW turns \in Seq(Version), NEW v \in Version
    PROVE  Spoken(turns, 1, Len(turns)) \cup {<<Len(turns) + 1, v>>} =
               Spoken(Append(turns, v), 1, Len(turns) + 1)
<1>1. /\ Len(turns) \in Nat
      /\ \A l \in 1..Len(turns) : Append(turns, v)[l] = turns[l]
      /\ Append(turns, v)[Len(turns) + 1] = v
  OBVIOUS
<1>2. 1..(Len(turns) + 1) = (1..Len(turns)) \cup {Len(turns) + 1}
  BY <1>1
<1> QED  BY <1>1, <1>2 DEF Spoken

\* The prompt tells its side all it has not heard.
LEMMA PromptCompletes ==
    ASSUME PInv, pc = "turn", phase \in Debates
    PROVE  LET side == NextSide(state, phase)
               turns == Turns(state, phase)
           IN  seen[side] \cup Prompted(state, phase) = Spoken(turns, 1, Len(turns))
<1> DEFINE side == NextSide(state, phase)
           turns == Turns(state, phase)
           n == Len(turns)
           m == Sides(phase)
<1>1. state \in RunState /\ n \in Nat /\ m \in {2, 3} /\ side \in Side /\ side = n % m
  <2>1. state \in RunState
    BY DEF PInv, IInv, Control, NoState
  <2> QED  BY <2>1, TurnsType, NextSideType DEF Sides, NextSide
<1>2. Kept(side, n - m)
  BY <1>1 DEF PInv, Heard, RoundBefore
<1>3. CASE side \notin briefed
  <2>1. seen[side] = {}
    BY <1>2, <1>3 DEF Kept
  <2>2. Prompted(state, phase) = IF n = 0 THEN {} ELSE Spoken(turns, 1, n)
    BY <1>3 DEF Prompted
  <2> QED  BY <1>1, <2>1, <2>2, SpokenJoin
<1>4. CASE side \in briefed
  <2>1. PICK k \in 1..n : k > n - m /\ (k - 1) % m = side /\ seen[side] = Spoken(turns, 1, k)
    BY <1>2, <1>4 DEF Kept
  <2>2. k = n - m + 1
    BY <1>1, <2>1, Rotation
  <2>3. Prompted(state, phase) = Spoken(turns, k + 1, n)
    <3>1. CASE phase = "investment"
      BY <1>1, <1>4, <2>1, <2>2, <3>1 DEF Prompted, Sides
    <3>2. CASE phase # "investment"
      BY <1>1, <1>4, <2>1, <2>2, <3>2 DEF Prompted, Sides
    <3> QED  BY <3>1, <3>2
  <2> QED  BY <1>1, <2>1, <2>3, SpokenJoin
<1> QED  BY <1>3, <1>4

\* Every step keeps what the sessions of a debate have heard.
LEMMA HeardStep == PInv /\ [Next]_vars => Heard'
<1> SUFFICES ASSUME PInv, [Next]_vars, phase' \in Debates
             PROVE  Heard'
  BY DEF Heard
<1> DEFINE side == NextSide(state, phase)
           turns == Turns(state, phase)
           n == Len(turns)
           m == Sides(phase)
<1>1. CASE OpenDebate
  BY <1>1 DEF OpenDebate, Heard, Kept, Saving
<1>2. CASE Ask
  <2>1. state \in RunState /\ n \in Nat /\ m \in {2, 3} /\ side \in Side /\ side = n % m
    <3>1. state \in RunState
      BY <1>2 DEF PInv, IInv, Control, NoState, Ask
    <3> QED  BY <3>1, TurnsType, NextSideType DEF Sides, NextSide
  <2>2. /\ pc = "turn" /\ pc' = "asking" /\ state' = state /\ phase' = phase
        /\ briefed' = briefed \cup {side}
        /\ seen' = [seen EXCEPT ![side] = @ \cup Prompted(state, phase)]
        /\ seen \in [Side -> SUBSET (Nat \X Version)]
    BY <1>2 DEF Ask, PInv, IInv, TypeOK
  <2>3. seen'[side] = Spoken(turns, 1, n)
    BY <2>1, <2>2, PromptCompletes
  <2> PICK before \in Int : before = n - m + 1
    BY <2>1
  <2>4. ASSUME NEW s \in Side, s # side
        PROVE  Kept(s, before)'
    <3>1. Kept(s, n - m)
      BY <2>2 DEF PInv, Heard, RoundBefore
    <3>2. seen'[s] = seen[s] /\ (s \in briefed' <=> s \in briefed)
      BY <2>2, <2>4
    <3>3. CASE s \notin briefed
      BY <2>2, <3>1, <3>2, <3>3 DEF Kept
    <3>4. CASE s \in briefed
      <4>1. PICK k \in 1..n : k > n - m /\ (k - 1) % m = s /\ seen[s] = Spoken(turns, 1, k)
        BY <3>1, <3>4 DEF Kept
      <4>2. k # n - m + 1
        BY <2>1, <2>4, <4>1, Rotation
      <4>3. k > before
        BY <2>1, <4>1, <4>2
      <4>4. Turns(state, phase)' = turns /\ Sides(phase)' = m
        BY <2>2
      <4> QED  BY <3>2, <3>4, <4>1, <4>3, <4>4 DEF Kept
    <3> QED  BY <3>3, <3>4
  <2>5. (RoundBefore + 1)' = before
    BY <2>1, <2>2 DEF RoundBefore
  <2> QED  BY <2>2, <2>3, <2>4, <2>5 DEF Heard, Saving
<1>3. CASE TurnAnswered
  <2>1. /\ pc = "asking" /\ pc' = "save" /\ phase' = phase /\ phase \in Debates
        /\ briefed' = briefed
        /\ seen' = [seen EXCEPT ![side] = @ \cup {<<n + 1, launches>>}]
        /\ seen \in [Side -> SUBSET (Nat \X Version)] /\ launches \in Version
        /\ state \in RunState
    BY <1>3 DEF TurnAnswered, PInv, IInv, TypeOK, Control, NoState
  <2>2. turns \in Seq(Version) /\ n \in Nat /\ m \in {2, 3} /\ side \in Side /\ side = n % m
    BY <2>1, TurnsType, NextSideType DEF Sides, NextSide
  <2>3. Turns(state', phase') = Append(turns, launches) /\ Len(Turns(state', phase')) = n + 1
    <3>1. Turns(state', phase') = Append(turns, launches)
      BY <1>3, <2>1 DEF TurnAnswered, Turns, RunState, Debates
    <3> QED  BY <2>1, <2>2, <3>1
  <2>4. side \in briefed /\ seen[side] = Spoken(turns, 1, n)
    BY <2>1 DEF PInv, Heard
  <2> PICK before \in Int : before = n + 1 - m
    BY <2>2
  <2>5. ASSUME NEW s \in Side, s = side
        PROVE  Kept(s, before)'
    <3>1. seen'[side] = Spoken(Turns(state', phase'), 1, n + 1)
      BY <2>1, <2>2, <2>3, <2>4, SpokenLast
    <3>2. n + 1 > before /\ (n + 1 - 1) % m = s /\ n + 1 \in 1..(n + 1)
      BY <2>2, <2>5
    <3> QED  BY <2>1, <2>3, <2>4, <2>5, <3>1, <3>2 DEF Kept
  <2>6. ASSUME NEW s \in Side, s # side
        PROVE  Kept(s, before)'
    <3>1. Kept(s, n - m + 1)
      BY <2>1, <2>6 DEF PInv, Heard, RoundBefore
    <3>2. seen'[s] = seen[s]
      BY <2>1, <2>6
    <3>3. CASE s \notin briefed /\ seen[s] = {}
      BY <2>1, <3>2, <3>3 DEF Kept
    <3>4. CASE ~(s \notin briefed /\ seen[s] = {})
      <4>1. PICK k \in 1..n : /\ s \in briefed /\ k > n - m + 1 /\ (k - 1) % m = s
                               /\ seen[s] = Spoken(turns, 1, k)
        BY <3>1, <3>4 DEF Kept
      <4>2. Spoken(Turns(state', phase'), 1, k) = Spoken(turns, 1, k)
        BY <2>1, <2>2, <2>3, SpokenAppend
      <4>3. k \in 1..(n + 1) /\ k > before
        BY <2>2, <4>1
      <4> QED  BY <2>1, <2>3, <3>2, <4>1, <4>2, <4>3 DEF Kept
    <3> QED  BY <3>3, <3>4
  <2>7. RoundBefore' = before
    BY <2>1, <2>2, <2>3 DEF RoundBefore
  <2> QED  BY <2>1, <2>5, <2>6, <2>7 DEF Heard, Saving
<1>4. CASE WriteTmp
  BY <1>4 DEF WriteTmp, PInv, Heard, Kept, RoundBefore, Saving, debate
<1>5. CASE ReplaceJournal
  BY <1>5 DEF ReplaceJournal, PInv, Heard, Kept, RoundBefore, Saving, debate
<1>6. CASE PumpFails
  BY <1>6 DEF PumpFails, PInv, Heard, Kept, RoundBefore, debate
<1>7. CASE UNCHANGED vars
  BY <1>7 DEF vars, PInv, Heard, Kept, RoundBefore, debate
<1>8. CASE Begin \/ AnalystCompletes \/ AnalystCloses \/ JudgeCompletes \/ OpenStage
  BY <1>8 DEF Begin, AnalystCompletes, AnalystCloses, JudgeCompletes, OpenStage, Judges,
              Debates, PInv, IInv, Control, NoState
<1>9. CASE Launch \/ Kill \/ StageFails \/ Escapes
  BY <1>9 DEF Launch, Kill, StageFails, Escapes, Exit, Debates, Heard, Saving
<1>10. CASE \/ Resume \/ StartFresh \/ TakePending \/ Reflected \/ PendingDone \/ NextPhase
            \/ LeaveObserving \/ PumpRaises \/ WriteSections \/ WriteWhole \/ Record \/ Clear
  BY <1>10 DEF Resume, StartFresh, TakePending, Reflected, PendingDone, NextPhase,
               LeaveObserving, PumpRaises, WriteSections, WriteWhole, Record, Clear, Exit,
               Heard, Saving
<1> QED  BY <1>1, <1>2, <1>3, <1>4, <1>5, <1>6, <1>7, <1>8, <1>9, <1>10
         DEF Next, Driver, Faults

-----------------------------------------------------------------------------
(* The theorems: invariants. *)

\* The count, the hand-over and the debates keep the strengthened invariant.
LEMMA PInvStep == PInv /\ [Next]_vars => PInv'
<1>1. IInv /\ [Next]_vars => IInv'
  BY TypeStep, ControlStep, DurableStep, OrderedStep DEF IInv
<1> QED  BY <1>1, CountedStep, HandedOverStep, HeardStep DEF PInv

\* The strengthened invariant holds in every reachable state.
THEOREM ProgressInductive == Spec => []PInv
<1>1. Init => PInv
  <2> SUFFICES ASSUME Init  PROVE PInv
    OBVIOUS
  <2>1. Counted /\ HandedOver /\ Heard
    BY DEF Init, Counted, HandedOver, Heard, Saving, Debates
  <2> QED  BY <2>1, InitIInv DEF PInv
<1> QED  BY <1>1, PInvStep, PTL DEF Spec

\* The files and the driver's memory never differ by more than the unit in
\* flight, so whenever the process dies no more than that is lost.
THEOREM OneUnitAtRisk == Spec => []AtMostOneUnitAtRisk
<1>1. PInv => AtMostOneUnitAtRisk
  <2> SUFFICES ASSUME PInv, state # Nothing, journal # Nothing
               PROVE  /\ Extends(journal, state)
                      /\ Units(state) <= Units(journal) + 1
                      /\ pc \notin Saving => journal = state
    BY DEF AtMostOneUnitAtRisk, Saving
  <2>1. /\ state \in RunState /\ pc \notin NoState /\ journal \in RunState
        /\ pc \in {"off"} \cup Observed \cup Delivering
    BY DEF PInv, IInv, TypeOK, Control
  <2>2. Units(journal) \in Nat /\ Units(state) \in Nat
    BY <2>1, CountFacts
  <2>3. CASE pc \in Saving
    BY <2>2, <2>3 DEF PInv, IInv, Durable, Counted
  <2>4. CASE pc \notin Saving
    <3>1. journal = state
      BY <2>1, <2>4 DEF PInv, IInv, Durable, NoState, Saving, Observed
    <3> QED  BY <2>1, <2>2, <3>1, ExtendsSelf
  <2> QED  BY <2>3, <2>4
<1> QED  BY <1>1, ProgressInductive, PTL

\* A run whose results are being handed over has all its units.
LEMMA WholeWhenDelivering ==
    ASSUME PInv, pc \in Delivering
    PROVE  /\ state \in RunState /\ journal = state /\ journal # Nothing
           /\ Units(journal) = AllUnits
<1>1. /\ pc \notin NoState /\ journal = state /\ phase = "portfolio_manager"
      /\ PhaseOver(state, phase)
  BY DEF PInv, IInv, Control, Durable, Delivering, NoState
<1>2. state \in RunState /\ CompleteBefore(state, phase)
  BY <1>1 DEF PInv, IInv, Control, Ordered
<1> QED  BY <1>1, <1>2, UnitsWhole, NoFileAssumption

\* Only a whole run is handed over, and the journal is deleted only when the
\* report shows that run and the decision log has its decision.
THEOREM DeliveryPrecedesClear == Spec => []DeliveredBeforeCleared
<1>1. PInv => DeliveredBeforeCleared
  <2> SUFFICES ASSUME PInv, pc \in Delivering
               PROVE  DeliveredBeforeCleared
    BY DEF DeliveredBeforeCleared, Delivering
  <2> QED  BY WholeWhenDelivering DEF DeliveredBeforeCleared, PInv, HandedOver
<1> QED  BY <1>1, ProgressInductive, PTL

\* Nobody speaks in a debate before its session has read or spoken all of it,
\* whether the session is old or was opened by a resume in the middle.
THEOREM EverybodyHasHeard == Spec => []HeardEverything
<1>1. PInv => HeardEverything
  BY DEF PInv, Heard, HeardEverything
<1> QED  BY <1>1, ProgressInductive, PTL

-----------------------------------------------------------------------------
(* The theorems: steps. *)

\* The journal changes when a saved state replaces it and when it is cleared.
LEMMA JournalSteps ==
    ASSUME [Next]_vars
    PROVE  ReplaceJournal \/ Clear \/ journal' = journal
<1>1. CASE UNCHANGED vars
  BY <1>1 DEF vars, files
<1>2. CASE Launch \/ Faults
  BY <1>2 DEF Launch, Faults, PumpFails, Kill, StageFails, Escapes, TornFiles, files
<1>3. CASE Driver
  BY <1>3 DEF Driver, Resume, StartFresh, TakePending, Reflected, PendingDone, Begin,
              NextPhase, OpenStage, OpenDebate, Ask, AnalystCompletes, AnalystCloses, TurnAnswered,
              JudgeCompletes, WriteTmp, LeaveObserving, PumpRaises, WriteSections,
              WriteWhole, Record, files
<1> QED  BY <1>1, <1>2, <1>3 DEF Next

\* A state that replaces the journal is a new run, or one unit more than it.
LEMMA ReplacedBy ==
    ASSUME PInv, ReplaceJournal
    PROVE  /\ journal' \in RunState
           /\ \/ journal = Nothing /\ journal' = EmptyState
              \/ /\ journal \in RunState
                 /\ Extends(journal, journal') /\ Units(journal') = Units(journal) + 1
<1>1. pc = "replace" /\ journal' = state /\ state \in RunState
  BY DEF ReplaceJournal, PInv, IInv, Durable, Control, NoState
<1>2. \/ journal = Nothing /\ state = EmptyState
      \/ journal \in RunState /\ Extends(journal, state)
  BY <1>1 DEF PInv, IInv, Durable, Saving
<1>3. journal \in RunState => Units(state) = Units(journal) + 1
  BY <1>1, NoFileAssumption DEF PInv, Counted, Saving
<1> QED  BY <1>1, <1>2, <1>3

\* What is in the journal is never lost, redone or reworded, and it grows by
\* one unit at a time, until a run that finishes deletes it.
THEOREM JournalGrows == Spec => JournalOnlyGrows
<1>1. PInv /\ [Next]_vars =>
        [ \/ journal' = journal
          \/ journal = Nothing /\ Units(journal') = 0
          \/ journal' # Nothing /\ journal # Nothing /\ Extends(journal, journal')
               /\ Units(journal') = Units(journal) + 1
          \/ journal' = Nothing /\ outcome' = "finished" ]_vars
  <2> SUFFICES ASSUME PInv, [Next]_vars
               PROVE  \/ journal' = journal
                      \/ journal = Nothing /\ Units(journal') = 0
                      \/ journal' # Nothing /\ journal # Nothing /\ Extends(journal, journal')
                           /\ Units(journal') = Units(journal) + 1
                      \/ journal' = Nothing /\ outcome' = "finished"
    OBVIOUS
  <2>1. CASE ReplaceJournal
    BY <2>1, ReplacedBy, UnitsEmpty, NoFileAssumption
  <2>2. CASE Clear
    BY <2>2 DEF Clear, Exit
  <2> QED  BY <2>1, <2>2, JournalSteps
<1> QED  BY <1>1, ProgressInductive, PTL DEF Spec, JournalOnlyGrows

\* An entry of the decision log is written once, when the report shows the run
\* it is of, and resolved once, while it is pending.
THEOREM DecisionsOnlyAdvance == Spec => DecisionsAdvance
<1> DEFINE Advanced ==
        \A d \in Dates : decisions'[d] # decisions[d] =>
            \/ decisions[d] = "absent" /\ decisions'[d] = "pending" /\ report = state
            \/ decisions[d] = "pending" /\ decisions'[d] = "resolved" /\ reflecting = d
<1>1. PInv /\ [Next]_vars => Advanced
  <2> SUFFICES ASSUME PInv, [Next]_vars
               PROVE  Advanced
    OBVIOUS
  <2>1. decisions \in [Dates -> {"absent", "pending", "resolved"}]
    BY DEF PInv, IInv, TypeOK
  <2>2. CASE Reflected
    BY <2>1, <2>2 DEF Reflected
  <2>3. CASE Record
    BY <2>1, <2>3 DEF Record, PInv, HandedOver
  <2>4. CASE UNCHANGED vars
    BY <2>4 DEF vars, files
  <2>5. CASE Launch \/ Faults
    BY <2>5 DEF Launch, Faults, PumpFails, Kill, StageFails, Escapes, TornFiles, files
  <2>6. CASE Driver /\ ~Reflected /\ ~Record
    BY <2>6 DEF Driver, Resume, StartFresh, TakePending, PendingDone, Begin,
                NextPhase, OpenStage, OpenDebate, Ask, AnalystCompletes, AnalystCloses, TurnAnswered,
                JudgeCompletes, WriteTmp, ReplaceJournal, LeaveObserving, PumpRaises,
                WriteSections, WriteWhole, Clear, files
  <2> QED  BY <2>2, <2>3, <2>4, <2>5, <2>6 DEF Next
<1> HIDE DEF Advanced
<1>2. PInv /\ [Next]_vars => [Advanced]_vars
  BY <1>1
<1>3. Spec => [][Advanced]_vars
  BY <1>2, ProgressInductive, PTL DEF Spec
<1> QED  BY <1>3 DEF Advanced, DecisionsAdvance

-----------------------------------------------------------------------------
(* The refinement. *)

\* The values the refinement mapping gives to RunProgress.
durableUnits == IF journal = Nothing THEN -1 ELSE Units(journal)

isDelivered ==
    /\ journal # Nothing
    /\ Units(journal) = AllUnits
    /\ report = journal
    /\ RecordDecision => decisions[Own] # "absent"

\* Replacing the journal begins the run, or advances it by one unit.
LEMMA ReplaceIsProgress ==
    ASSUME PInv, PInv', ReplaceJournal
    PROVE  Abstract!BeginRun \/ Abstract!Advance
<1> USE DEF Abstract!BeginRun, Abstract!Advance, Abstract!NoRun
<1>1. journal' \in RunState /\ journal' # Nothing
  BY ReplacedBy, NoFileAssumption
<1>2. CASE journal = Nothing /\ journal' = EmptyState
  <2>1. Units(journal') = 0 /\ AllUnits' # 0
    BY <1>2, UnitsEmpty, AllUnitsType DEF AllUnits, InvestmentTurns, RiskTurns
  <2> QED  BY <1>1, <1>2, <2>1
<1>3. CASE journal \in RunState /\ Units(journal') = Units(journal) + 1
  <2>1. Units(journal) \in Nat /\ Units(journal') <= AllUnits
    <3>1. InOrder(journal')
      BY <1>1 DEF PInv, IInv, Ordered
    <3> QED  BY <1>1, <1>3, <3>1, CountFacts, UnitsBound
  <2>2. journal # Nothing /\ Units(journal) \in 0..(AllUnits - 1)
    BY <1>3, <2>1, AllUnitsType, NoFileAssumption
  <2> QED  BY <1>1, <1>3, <2>1, <2>2
<1> QED  BY <1>2, <1>3, ReplacedBy

\* Every step of the driver and of its faults is a step of RunProgress, or
\* changes nothing of what RunProgress sees.
LEMMA StepIsProgress ==
    ASSUME PInv, PInv', [Next]_vars
    PROVE  Abstract!ProgressNext \/ UNCHANGED <<durableUnits, isDelivered>>
<1>1. CASE ReplaceJournal
  BY <1>1, ReplaceIsProgress DEF Abstract!ProgressNext
<1>2. CASE Clear
  <2>1. pc = "clear" /\ journal' = Nothing
    BY <1>2 DEF Clear
  <2>2. journal = state /\ journal # Nothing /\ Units(journal) = AllUnits
    BY <2>1, WholeWhenDelivering DEF Delivering
  <2>3. report = journal /\ (RecordDecision => decisions[Own] # "absent")
    BY <2>1, <2>2 DEF PInv, HandedOver
  <2>4. Abstract!Forget
    BY <2>1, <2>2, <2>3 DEF Abstract!Forget, Abstract!NoRun
  <2> QED  BY <2>4 DEF Abstract!ProgressNext
<1>3. CASE journal' = journal
  <2>1. CASE journal # Nothing /\ Units(journal) = AllUnits
    <3>1. Abstract!Deliver
      BY <1>3, <2>1 DEF Abstract!Deliver
    <3> QED  BY <3>1 DEF Abstract!ProgressNext
  <2>2. CASE ~(journal # Nothing /\ Units(journal) = AllUnits)
    BY <1>3, <2>2 DEF durableUnits, isDelivered
  <2> QED  BY <2>1, <2>2
<1> QED  BY <1>1, <1>2, <1>3, JournalSteps

\* The driver with its journal implements RunProgress: units become durable one
\* at a time and are forgotten only once the results of the run are out.
THEOREM PipelineImplementsRunProgress == Spec => ImplementsRunProgress
<1>1. Init => Abstract!ProgressInit
  BY DEF Init, Abstract!ProgressInit, Abstract!NoRun
<1>2. PInv /\ PInv' /\ [Next]_vars => [Abstract!ProgressNext]_(Abstract!progressVars)
  BY StepIsProgress DEF Abstract!progressVars, durableUnits, isDelivered
<1> QED  BY <1>1, <1>2, ProgressInductive, PTL
         DEF Spec, ImplementsRunProgress, Abstract!ProgressSpec

-----------------------------------------------------------------------------
(* The board: keys. *)

\* What a key of a unit is.
LEMMA UnitKinds ==
    ASSUME NEW k
    PROVE  k \in UnitKeys <=>
              \/ \E i \in 1..NAnalysts : k = <<"analysts", i>>
              \/ \E p \in Debates : \E t \in 1..TotalTurns(p) : k = <<p, t>>
              \/ \E p \in Judges : k = <<p, 0>>
<1> DEFINE A == {<<"analysts", i>> : i \in 1..NAnalysts}
           B == UNION {TurnKeys(p) : p \in Debates}
           C == {<<p, 0>> : p \in Judges}
<1>1. k \in A <=> \E i \in 1..NAnalysts : k = <<"analysts", i>>
  OBVIOUS
<1>2. k \in B <=> \E p \in Debates : \E t \in 1..TotalTurns(p) : k = <<p, t>>
  <2>1. \A p : k \in TurnKeys(p) <=> \E t \in 1..TotalTurns(p) : k = <<p, t>>
    BY DEF TurnKeys
  <2> QED  BY <2>1
<1>3. k \in C <=> \E p \in Judges : k = <<p, 0>>
  OBVIOUS
<1>4. UnitKeys = A \cup B \cup C
  BY DEF UnitKeys
<1> HIDE DEF A, B, C
<1> QED  BY <1>1, <1>2, <1>3, <1>4

\* What a key of a product is.
LEMMA HeldKinds ==
    ASSUME NEW st, NEW k
    PROVE  k \in HeldKeys(st) <=>
              \/ \E i \in Held(st) : k = <<"analysts", i>>
              \/ \E p \in Debates : \E t \in 1..Len(Turns(st, p)) : k = <<p, t>>
              \/ \E p \in Judges : Verdict(st, p) # 0 /\ k = <<p, 0>>
<1> DEFINE A == {<<"analysts", i>> : i \in Held(st)}
           B == UNION {{<<p, t>> : t \in 1..Len(Turns(st, p))} : p \in Debates}
           C == {<<p, 0>> : p \in {q \in Judges : Verdict(st, q) # 0}}
<1>1. k \in A <=> \E i \in Held(st) : k = <<"analysts", i>>
  OBVIOUS
<1>2. k \in B <=> \E p \in Debates : \E t \in 1..Len(Turns(st, p)) : k = <<p, t>>
  <2> DEFINE spoken(p) == {<<p, t>> : t \in 1..Len(Turns(st, p))}
  <2>1. \A p : k \in spoken(p) <=> \E t \in 1..Len(Turns(st, p)) : k = <<p, t>>
    OBVIOUS
  <2> HIDE DEF spoken
  <2>2. k \in UNION {spoken(p) : p \in Debates} <=> \E p \in Debates : k \in spoken(p)
    OBVIOUS
  <2>3. k \in UNION {spoken(p) : p \in Debates}
          <=> \E p \in Debates : \E t \in 1..Len(Turns(st, p)) : k = <<p, t>>
    BY <2>1, <2>2
  <2> QED  BY <2>3 DEF spoken
<1>3. k \in C <=> \E p \in Judges : Verdict(st, p) # 0 /\ k = <<p, 0>>
  OBVIOUS
<1>4. HeldKeys(st) = A \cup B \cup C
  BY DEF HeldKeys
<1> HIDE DEF A, B, C
<1> QED  BY <1>1, <1>2, <1>3, <1>4

\* The heading of a debate is none of the units, nor is a reflector, and a
\* reflector is not planned.
LEMMA KeysDiffer ==
    /\ \A p \in Debates : <<p, 0>> \in DebateKeys /\ <<p, 0>> \notin UnitKeys
    /\ \A p, q \in Debates : <<p, 0>> = <<q, 0>> => p = q
    /\ \A d : <<"reflector", d>> \notin Planned
    /\ UnitKeys \subseteq Planned /\ DebateKeys \subseteq Planned /\ Planned \subseteq Steps
<1>1. \A p \in Debates : <<p, 0>> \notin UnitKeys
  BY UnitKinds DEF Debates, Judges
<1>2. \A d : <<"reflector", d>> \notin UnitKeys
  BY UnitKinds DEF Debates, Judges
<1>3. \A d : <<"reflector", d>> \notin DebateKeys
  BY DEF DebateKeys, Debates
<1> QED  BY <1>1, <1>2, <1>3 DEF DebateKeys, Planned, Steps

\* A new run holds nothing.
LEMMA NothingHeld ==
    /\ HeldKeys(EmptyState) = {}
    /\ \A p \in Debates : Turns(EmptyState, p) = <<>>
<1>1. /\ Held(EmptyState) = {}
      /\ \A p : Turns(EmptyState, p) = <<>>
      /\ \A p \in Judges : Verdict(EmptyState, p) = 0
  BY DEF EmptyState, Held, Missing, Turns, Verdict
<1> QED  BY <1>1, HeldKinds

\* Of the analysts without a report one is the first.
LEMMA FirstMissing ==
    ASSUME NEW st, Missing(st) # {}
    PROVE  \E i \in Missing(st) : \A j \in Missing(st) : i <= j
<1> DEFINE R == {ss \in Nat \X Nat : ss[1] < ss[2]}
<1>1. IsWellFoundedOn(R, Nat)
  BY NatLessThanWellFounded, Zenon DEF OpToRel
<1>2. Missing(st) \subseteq Nat
  BY DEF Missing
<1>3. \A x, y \in Nat : <<x, y>> \notin R => y <= x
  OBVIOUS
<1> HIDE DEF R
<1>4. PICK i \in Missing(st) : \A j \in Missing(st) : <<j, i>> \notin R
  BY <1>1, <1>2, WFMin
<1> QED  BY <1>2, <1>3, <1>4

\* The step being asked for is a unit of the plan that the run lacks.
LEMMA AskedIsLacking ==
    ASSUME state \in RunState, phase \in Phases, ~PhaseOver(state, phase)
    PROVE  AskedKey \in UnitKeys /\ AskedKey \notin HeldKeys(state)
<1>1. CASE phase = "analysts"
  <2>1. Missing(state) # {}
    BY <1>1 DEF PhaseOver, Debates
  <2> DEFINE i == CHOOSE x \in Missing(state) : \A j \in Missing(state) : x <= j
  <2>2. i \in Missing(state)
    BY <2>1, FirstMissing
  <2>3. AskedKey = <<"analysts", i>>
    BY <1>1 DEF AskedKey
  <2> HIDE DEF i
  <2>4. i \in 1..NAnalysts /\ i \notin Held(state)
    BY <2>2 DEF Missing, Held
  <2>5. \A x \in Held(state) : <<"analysts", i>> # <<"analysts", x>>
    BY <2>4
  <2> QED  BY <2>3, <2>4, <2>5, UnitKinds, HeldKinds DEF Debates, Judges
<1>2. CASE phase \in Debates
  <2>1. AskedKey = <<phase, Len(Turns(state, phase)) + 1>>
    BY <1>2 DEF AskedKey, Debates
  <2>2. Len(Turns(state, phase)) \in Nat /\ TotalTurns(phase) \in Nat
    BY TurnsType, AllUnitsType DEF TotalTurns
  <2>3. Len(Turns(state, phase)) < TotalTurns(phase)
    BY <1>2, <2>2 DEF PhaseOver, Debates
  <2> QED  BY <1>2, <2>1, <2>2, <2>3, UnitKinds, HeldKinds DEF Debates, Judges
<1>3. CASE phase \in Judges
  <2>1. AskedKey = <<phase, 0>>
    BY <1>3 DEF AskedKey, Debates, Judges
  <2>2. Verdict(state, phase) = 0
    BY <1>3 DEF PhaseOver, Debates, Judges
  <2> QED  BY <1>3, <2>1, <2>2, UnitKinds, HeldKinds DEF Debates, Judges
<1> QED  BY <1>1, <1>2, <1>3 DEF Phases, Debates, Judges

\* What is produced is what was asked for.
LEMMA AskedIsHeld ==
    ASSUME IInv, Products
    PROVE  /\ HeldKeys(state') = HeldKeys(state) \cup {AskedKey}
           /\ \A p \in Debates : p # phase => Turns(state', p) = Turns(state, p)
<1>1. /\ state \in RunState /\ phase \in Phases /\ launches \in Version /\ launches # 0
      /\ ~PhaseOver(state, phase)
  BY DEF Products, IInv, TypeOK, Control, NoState, AnalystCompletes, TurnAnswered, JudgeCompletes
<1>2. CASE AnalystCompletes
  <2>1. PICK i \in Missing(state) :
            /\ \A j \in Missing(state) : i <= j
            /\ state' = [state EXCEPT !.reports[i] = launches]
    BY <1>2 DEF AnalystCompletes
  <2>2. AskedKey = <<"analysts", i>>
    <3>1. \A x, y \in Missing(state) : x <= y /\ y <= x => x = y
      BY DEF Missing
    <3>2. i = CHOOSE x \in Missing(state) : \A j \in Missing(state) : x <= j
      BY <2>1, <3>1
    <3> QED  BY <1>2, <3>2 DEF AskedKey, AnalystCompletes
  <2>3. Held(state') = Held(state) \cup {i}
    BY <1>1, <2>1 DEF Held, Missing, RunState
  <2>4. /\ \A p : Turns(state', p) = Turns(state, p)
        /\ \A p : Verdict(state', p) = Verdict(state, p)
    BY <1>1, <2>1 DEF Turns, Verdict, RunState
  <2>5. \A k : k \in HeldKeys(state') <=> k \in HeldKeys(state) \/ k = AskedKey
    BY <2>2, <2>3, <2>4, HeldKinds
  <2> QED  BY <2>4, <2>5
<1>3. CASE TurnAnswered
  <2> DEFINE n == Len(Turns(state, phase))
  <2>1. phase \in Debates /\ AskedKey = <<phase, n + 1>>
    BY <1>3 DEF TurnAnswered, AskedKey, Debates
  <2>2. Held(state') = Held(state) /\ \A p : Verdict(state', p) = Verdict(state, p)
    BY <1>1, <1>3 DEF TurnAnswered, Held, Missing, Verdict, RunState
  <2>3. n \in Nat /\ Turns(state, phase) \in Seq(Version)
    BY <1>1, TurnsType
  <2>4. /\ Turns(state', phase) = Append(Turns(state, phase), launches)
        /\ \A p \in Debates : p # phase => Turns(state', p) = Turns(state, p)
    BY <1>1, <1>3, <2>1 DEF TurnAnswered, Turns, RunState, Debates
  <2>5. Len(Turns(state', phase)) = n + 1
    BY <2>3, <2>4
  <2>6. \A t : t \in 1..(n + 1) <=> t \in 1..n \/ t = n + 1
    BY <2>3
  <2>7. \A k : k \in HeldKeys(state') <=> k \in HeldKeys(state) \/ k = AskedKey
    <3> SUFFICES ASSUME NEW k
                 PROVE  k \in HeldKeys(state') <=> k \in HeldKeys(state) \/ k = AskedKey
      OBVIOUS
    <3>1. (\E p \in Debates : \E t \in 1..Len(Turns(state', p)) : k = <<p, t>>)
            <=> \/ \E p \in Debates : \E t \in 1..Len(Turns(state, p)) : k = <<p, t>>
                \/ k = AskedKey
      BY <2>1, <2>4, <2>5, <2>6
    <3> QED  BY <2>2, <3>1, HeldKinds
  <2> QED  BY <2>4, <2>7
<1>4. CASE JudgeCompletes
  <2>1. phase \in Judges /\ AskedKey = <<phase, 0>>
    BY <1>4 DEF JudgeCompletes, AskedKey, Debates, Judges
  <2>2. Held(state') = Held(state) /\ \A p : Turns(state', p) = Turns(state, p)
    BY <1>1, <1>4 DEF JudgeCompletes, Held, Missing, Turns, RunState
  <2>3. \A p \in Judges : Verdict(state', p) # 0 <=> Verdict(state, p) # 0 \/ p = phase
    BY <1>1, <1>4, <2>1 DEF JudgeCompletes, Verdict, RunState, Judges
  <2>4. \A k : k \in HeldKeys(state') <=> k \in HeldKeys(state) \/ k = AskedKey
    BY <2>1, <2>2, <2>3, HeldKinds
  <2> QED  BY <2>2, <2>4
<1> QED  BY <1>2, <1>3, <1>4 DEF Products

\* The analyst that has completed is the one that was asked.
LEMMA LatestIsAsked ==
    ASSUME IInv, AnalystCompletes
    PROVE  LatestKey' = AskedKey
<1>1. /\ state \in RunState /\ launches \in Version /\ launches # 0
      /\ InOrder(state) /\ phase = "analysts"
  BY DEF IInv, TypeOK, Control, Ordered, NoState, AnalystCompletes
<1>2. PICK i \in Missing(state) :
          /\ \A j \in Missing(state) : i <= j
          /\ state' = [state EXCEPT !.reports[i] = launches]
  BY DEF AnalystCompletes
<1>3. AskedKey = <<"analysts", i>>
  <2>1. \A x, y \in Missing(state) : x <= y /\ y <= x => x = y
    BY DEF Missing
  <2>2. i = CHOOSE x \in Missing(state) : \A j \in Missing(state) : x <= j
    BY <1>2, <2>1
  <2> QED  BY <1>1, <2>2 DEF AskedKey
<1>4. Held(state') = Held(state) \cup {i} /\ Held(state') \subseteq 1..NAnalysts
  BY <1>1, <1>2 DEF Held, Missing, RunState
<1>5. \A j \in Held(state') : j <= i
  BY <1>1, <1>2, <1>4 DEF Held, Missing, InOrder
<1>6. \A x, y \in Held(state') : x <= y /\ y <= x => x = y
  BY <1>4
<1>7. i = CHOOSE x \in Held(state') : \A j \in Held(state') : j <= x
  BY <1>4, <1>5, <1>6
<1> QED  BY <1>3, <1>7 DEF LatestKey

\* A run that is whole holds every unit of the plan.
LEMMA WholeIsHeld ==
    ASSUME PInv, pc \in Delivering
    PROVE  /\ UnitKeys \subseteq HeldKeys(state)
           /\ \A p \in Debates : Turns(state, p) = <<>> <=> TotalTurns(p) = 0
<1>1. state \in RunState /\ CompleteBefore(state, "portfolio_manager")
      /\ PhaseOver(state, "portfolio_manager")
  BY DEF PInv, IInv, Control, Ordered, Delivering, NoState
<1>2. /\ Missing(state) = {} /\ \A p \in Judges : Verdict(state, p) # 0
      /\ \A p \in Debates : Len(Turns(state, p)) = TotalTurns(p)
  BY <1>1 DEF CompleteBefore, PhaseOver, Debates, Judges, Verdict, Turns, TotalTurns
<1>3. Held(state) = 1..NAnalysts
  BY <1>2 DEF Held
<1>4. \A k : k \in UnitKeys => k \in HeldKeys(state)
  BY <1>2, <1>3, UnitKinds, HeldKinds
<1>5. \A p \in Debates : Turns(state, p) = <<>> <=> TotalTurns(p) = 0
  BY <1>1, <1>2, TurnsType
<1> QED  BY <1>4, <1>5

-----------------------------------------------------------------------------
(* The board: what it shows at every moment. *)

\* Where the sessions of a debate are open, when the phase is one.
AtTable == {"turn", "asking"} \cup Saving

UnitShown(k) ==
    IF \/ pc = "asking" /\ k = AskedKey
       \/ pc = "closing" /\ k = LatestKey
    THEN "running"
    ELSE IF k \in HeldKeys(state) THEN "done" ELSE "pending"

DebateShown(p) ==
    IF phase = p /\ pc \in AtTable THEN "running"
    ELSE IF Turns(state, p) = <<>> THEN "pending" ELSE "done"

\* The state of every planned step follows from where the driver is and what
\* the run holds.
WorkShown ==
    /\ pc \in NoState \ {"off"} => \A k \in Planned : board[k] = "pending"
    /\ pc \notin NoState =>
        /\ \A k \in UnitKeys : board[k] = UnitShown(k)
        /\ \A p \in Debates : board[<<p, 0>>] = DebateShown(p)

\* A debate that is opened has turns.
Opened == pc \in AtTable /\ phase \in Debates => TotalTurns(phase) # 0

\* The report whose session is being left is not in the journal yet.
Unsaved == pc = "closing" => LatestKey \in HeldKeys(state) \ HeldKeys(journal)

\* Only a board that is closed has a verdict.
Closing == (pc # "off" => verdict = "open") /\ BoardAtTheEnd

OnScreen == PInv /\ BoardTypeOK /\ WorkShown /\ Opened /\ Unsaved /\ Closing

\* A step of the board is a step of the driver.
LEMMA BoardStepIsStep == [BoardNext]_boardVars => [Next]_vars
<1>1. BoardNext => Next
  BY DEF BoardNext, BLaunch, BResume, BTakePending, BReflected, BNextPhase, BOpenStage,
         BOpenDebate, BAsk, BAnswer, BAnalystCloses, BStageFails, BEscapes, BPumpRaises,
         BKill, BClear, BOther, Next, Driver, Faults
<1>2. UNCHANGED boardVars => UNCHANGED vars
  BY DEF boardVars
<1> QED  BY <1>1, <1>2

\* So is the whole behaviour.
LEMMA BoardIsRun == BoardSpec => []PInv
<1>1. BoardInit => Init
  BY DEF BoardInit
<1>2. BoardSpec => Spec
  BY <1>1, BoardStepIsStep, PTL DEF BoardSpec, Spec
<1> QED  BY <1>2, ProgressInductive

\* What is written on the board is a state of a step.
LEMMA BoardTypeStep == BoardTypeOK /\ [BoardNext]_boardVars => BoardTypeOK'
<1> SUFFICES ASSUME BoardTypeOK, [BoardNext]_boardVars
             PROVE  BoardTypeOK'
  OBVIOUS
<1> USE DEF BoardTypeOK, StepState
<1>1. \A k : Start(k) \/ Finish(k) \/ FinishFailed(k) => BoardTypeOK'
  BY DEF Start, Finish, FinishFailed
<1>2. Untouched => BoardTypeOK'
  BY DEF Untouched
<1>3. ASSUME NEW b \in [Steps -> StepState]  PROVE Closed(b) \in [Steps -> StepState]
  BY <1>3 DEF Closed
<1>4. Begun \in [Steps -> StepState]
  BY DEF Begun
<1>5. CASE BLaunch
  BY <1>5 DEF BLaunch
<1>6. CASE BResume
  BY <1>6 DEF BResume, Replay
<1>7. CASE BTakePending \/ BReflected \/ BNextPhase \/ BOpenStage \/ BOpenDebate \/ BAsk
           \/ BAnswer \/ BAnalystCloses \/ BPumpRaises \/ BOther
  BY <1>1, <1>2, <1>7 DEF BTakePending, BReflected, BNextPhase, BOpenStage, BOpenDebate,
                          BAsk, BAnswer, BAnalystCloses, BPumpRaises, BOther
<1>8. CASE BStageFails \/ BEscapes \/ BKill \/ BClear
  BY <1>3, <1>4, <1>8 DEF BStageFails, BEscapes, BKill, BClear
<1>9. CASE UNCHANGED boardVars
  BY <1>9 DEF boardVars
<1> QED  BY <1>5, <1>6, <1>7, <1>8, <1>9 DEF BoardNext

\* A debate is opened only while it lacks a turn.
LEMMA OpenedStep == PInv /\ Opened /\ [Next]_vars => Opened'
<1> SUFFICES ASSUME PInv, Opened, [Next]_vars, pc' \in AtTable, phase' \in Debates
             PROVE  TotalTurns(phase)' # 0
  BY DEF Opened
<1> USE DEF AtTable, Saving, TotalTurns, InvestmentTurns, RiskTurns
<1>1. CASE OpenDebate
  <2>1. state \in RunState /\ phase' = phase /\ ~(Len(Turns(state, phase)) >= TotalTurns(phase))
    BY <1>1 DEF OpenDebate, PhaseOver, Debates, PInv, IInv, Control, NoState
  <2>2. Len(Turns(state, phase)) \in Nat
    BY <2>1, TurnsType
  <2> QED  BY <2>1, <2>2
<1>2. CASE Begin \/ AnalystCompletes \/ AnalystCloses \/ JudgeCompletes \/ OpenStage
  BY <1>2 DEF Begin, AnalystCompletes, AnalystCloses, JudgeCompletes, OpenStage, Judges,
              Debates, PInv, IInv, Control, NoState
<1>3. CASE pc \in AtTable /\ phase' = phase
  BY <1>3 DEF Opened
<1>4. CASE Ask \/ TurnAnswered \/ WriteTmp \/ ReplaceJournal \/ PumpFails \/ UNCHANGED vars
  BY <1>3, <1>4 DEF Ask, TurnAnswered, WriteTmp, ReplaceJournal, PumpFails, vars
<1>5. CASE Launch \/ Kill \/ StageFails \/ Escapes
  BY <1>5 DEF Launch, Kill, StageFails, Escapes, Exit
<1>6. CASE \/ Resume \/ StartFresh \/ TakePending \/ Reflected \/ PendingDone \/ NextPhase
           \/ LeaveObserving \/ PumpRaises \/ WriteSections \/ WriteWhole \/ Record \/ Clear
  BY <1>6 DEF Resume, StartFresh, TakePending, Reflected, PendingDone, NextPhase,
              LeaveObserving, PumpRaises, WriteSections, WriteWhole, Record, Clear, Exit
<1> QED  BY <1>1, <1>2, <1>4, <1>5, <1>6 DEF Next, Driver, Faults

\* A report stays out of the journal until its session has been left.
LEMMA UnsavedStep == PInv /\ Unsaved /\ [Next]_vars => Unsaved'
<1> SUFFICES ASSUME PInv, Unsaved, [Next]_vars, pc' = "closing"
             PROVE  LatestKey' \in HeldKeys(state') \ HeldKeys(journal')
  BY DEF Unsaved
<1>1. CASE AnalystCompletes
  <2>1. /\ state \in RunState /\ phase \in Phases /\ ~PhaseOver(state, phase)
        /\ journal = state /\ journal' = journal
    BY <1>1 DEF AnalystCompletes, PInv, IInv, TypeOK, Control, NoState, Durable, files
  <2>2. LatestKey' = AskedKey /\ AskedKey \notin HeldKeys(state)
    BY <1>1, <2>1, LatestIsAsked, AskedIsLacking DEF PInv
  <2>3. AskedKey \in HeldKeys(state')
    BY <1>1, AskedIsHeld DEF PInv, Products
  <2> QED  BY <2>1, <2>2, <2>3
<1>2. CASE pc = "closing" /\ state' = state /\ journal' = journal
  BY <1>2 DEF Unsaved, LatestKey
<1>3. CASE PumpFails \/ UNCHANGED vars
  BY <1>2, <1>3 DEF PumpFails, vars, files
<1>4. CASE Launch \/ Kill \/ StageFails \/ Escapes
  BY <1>4 DEF Launch, Kill, StageFails, Escapes, Exit
<1>5. CASE Driver /\ ~AnalystCompletes
  BY <1>5 DEF Driver, Resume, StartFresh, TakePending, Reflected, PendingDone, Begin,
              NextPhase, OpenStage, OpenDebate, Ask, AnalystCloses, TurnAnswered,
              JudgeCompletes, WriteTmp, ReplaceJournal, LeaveObserving, PumpRaises,
              WriteSections, WriteWhole, Record, Clear, Exit
<1> QED  BY <1>1, <1>3, <1>4, <1>5 DEF Next, Faults

\* A step that leaves the planned steps and the run alone, and opens or ends
\* nothing, leaves the board as it should be.
LEMMA SameShown ==
    ASSUME WorkShown, \A k \in Planned : board'[k] = board[k],
           pc \notin NoState, pc' \notin NoState,
           state' = state, phase' = phase,
           pc = "asking" <=> pc' = "asking",
           pc = "closing" <=> pc' = "closing",
           phase \in Debates => (pc \in AtTable <=> pc' \in AtTable)
    PROVE  WorkShown'
<1>1. /\ AskedKey' = AskedKey /\ LatestKey' = LatestKey
      /\ HeldKeys(state)' = HeldKeys(state)
  BY DEF AskedKey, LatestKey, HeldKeys, Missing, Held, Turns, Verdict
<1>2. \A k \in UnitKeys : UnitShown(k)' = UnitShown(k)
  BY <1>1 DEF UnitShown
<1>3. \A p \in Debates : DebateShown(p)' = DebateShown(p)
  BY DEF DebateShown, Turns
<1>4. /\ \A k \in UnitKeys : board'[k] = UnitShown(k)
      /\ \A p \in Debates : board'[<<p, 0>>] = DebateShown(p)
  BY KeysDiffer DEF WorkShown
<1>5. UnitKeys' = UnitKeys
  BY DEF UnitKeys, TurnKeys, TotalTurns, InvestmentTurns, RiskTurns
<1> QED  BY <1>2, <1>3, <1>4, <1>5 DEF WorkShown

\* What the driver writes to the board keeps it that way.
LEMMA WorkShownStep == OnScreen /\ [BoardNext]_boardVars => WorkShown'
<1> SUFFICES ASSUME OnScreen, [BoardNext]_boardVars
             PROVE  WorkShown'
  OBVIOUS
<1>0. /\ PInv /\ IInv /\ WorkShown /\ Opened /\ Unsaved
      /\ board \in [Steps -> StepState] /\ phase \in Phases
      /\ pc \notin NoState => state \in RunState
      /\ Planned' = Planned /\ UnitKeys' = UnitKeys
  BY DEF OnScreen, PInv, IInv, TypeOK, BoardTypeOK, Control, Planned, UnitKeys, DebateKeys,
         TurnKeys, TotalTurns, InvestmentTurns, RiskTurns
<1>1. CASE BLaunch
  BY <1>0, <1>1, KeysDiffer DEF BLaunch, Launch, WorkShown, NoState
<1>2. CASE BResume
  <2>1. /\ pc = "load" /\ pc' = "head" /\ state' = journal
        /\ \A k \in Planned : board[k] = "pending"
    BY <1>0, <1>2 DEF BResume, Resume, WorkShown, NoState
  <2> DEFINE done == HeldKeys(journal)
                       \cup {<<p, 0>> : p \in {q \in Debates : Turns(journal, q) # <<>>}}
  <2>2. \A k \in Planned : board'[k] = IF k \in done THEN "done" ELSE "pending"
    BY <1>2, <2>1, KeysDiffer DEF BResume, Replay
  <2>3. \A k \in UnitKeys : k \in done <=> k \in HeldKeys(journal)
    BY KeysDiffer
  <2>4. \A p \in Debates : <<p, 0>> \in done <=> Turns(journal, p) # <<>>
    <3>1. \A p \in Debates : <<p, 0>> \notin HeldKeys(journal)
      BY HeldKinds DEF Debates, Judges
    <3> QED  BY <3>1, KeysDiffer
  <2> HIDE DEF done
  <2>5. \A k \in UnitKeys : board'[k] = UnitShown(k)'
    BY <2>1, <2>2, <2>3, KeysDiffer DEF UnitShown, HeldKeys, Held, Missing, Turns, Verdict
  <2>6. \A p \in Debates : board'[<<p, 0>>] = DebateShown(p)'
    BY <2>1, <2>2, <2>4, KeysDiffer DEF DebateShown, AtTable, Saving, Turns
  <2> QED  BY <1>0, <2>1, <2>5, <2>6 DEF WorkShown, NoState
<1>3. CASE BTakePending \/ BReflected
  <2>1. /\ pc \in NoState \ {"off"} /\ pc' \in NoState \ {"off"}
        /\ \/ board' = board
           \/ \E d, x : board' = [board EXCEPT ![<<"reflector", d>>] = x]
    BY <1>3 DEF BTakePending, BReflected, TakePending, Reflected, Start, Finish, FinishFailed,
                Untouched, NoState
  <2>2. \A k \in Planned : board'[k] = board[k]
    BY <1>0, <2>1, KeysDiffer
  <2> QED  BY <1>0, <2>1, <2>2 DEF WorkShown
<1>4. CASE BNextPhase
  <2>1. /\ pc \in {"head", "turn"} /\ pc' \in {"head", "leave"} /\ state' = state
        /\ PhaseOver(state, phase) /\ state \in RunState
        /\ board' = IF pc = "turn" THEN [board EXCEPT ![<<phase, 0>>] = "done"] ELSE board
        /\ pc = "turn" => phase \in Debates
    BY <1>0, <1>4 DEF BNextPhase, NextPhase, Finish, Untouched, NoState, IInv, Control
  <2>2. HeldKeys(state)' = HeldKeys(state)
    BY <2>1
  <2>3. ASSUME NEW k \in UnitKeys  PROVE board'[k] = UnitShown(k)'
    <3>1. board[k] = UnitShown(k)
      BY <1>0, <2>1 DEF WorkShown, NoState
    <3>2. board'[k] = board[k]
      BY <1>0, <2>1, KeysDiffer
    <3> QED  BY <2>1, <2>2, <3>1, <3>2 DEF UnitShown
  <2>4. ASSUME NEW p \in Debates  PROVE board'[<<p, 0>>] = DebateShown(p)'
    <3>1. board[<<p, 0>>] = DebateShown(p)
      BY <1>0, <2>1 DEF WorkShown, NoState
    <3>2. Turns(state, p)' = Turns(state, p)
      BY <2>1 DEF Turns
    <3>3. CASE pc = "turn" /\ p = phase
      <4>1. Turns(state, p) # <<>>
        <5>1. TotalTurns(p) # 0 /\ Len(Turns(state, p)) >= TotalTurns(p)
          BY <1>0, <2>1, <3>3 DEF Opened, AtTable, PhaseOver, Debates
        <5>2. TotalTurns(p) \in Nat
          BY AllUnitsType DEF TotalTurns
        <5>3. Len(Turns(state, p)) # 0
          BY <5>1, <5>2
        <5> QED  BY <5>3
      <4>2. board'[<<p, 0>>] = "done"
        BY <1>0, <2>1, <3>3, KeysDiffer
      <4> QED  BY <2>1, <3>2, <4>1, <4>2 DEF DebateShown, AtTable, Saving
    <3>4. CASE ~(pc = "turn" /\ p = phase)
      <4>1. board'[<<p, 0>>] = board[<<p, 0>>]
        BY <1>0, <2>1, <3>4, KeysDiffer
      <4> QED  BY <2>1, <3>1, <3>2, <3>4, <4>1 DEF DebateShown, AtTable, Saving
    <3> QED  BY <3>3, <3>4
  <2> QED  BY <1>0, <2>1, <2>3, <2>4 DEF WorkShown, NoState
<1>5. CASE BOpenStage \/ BAsk
  <2>1. /\ pc \in {"head", "turn"} /\ pc' = "asking" /\ state' = state /\ phase' = phase
        /\ ~PhaseOver(state, phase) /\ state \in RunState
        /\ board' = [board EXCEPT ![AskedKey] = "running"]
        /\ phase \in Debates <=> pc = "turn"
    BY <1>0, <1>5 DEF BOpenStage, BAsk, OpenStage, Ask, Start, NoState, IInv, Control
  <2>2. HeldKeys(state)' = HeldKeys(state) /\ AskedKey' = AskedKey
    BY <2>1 DEF AskedKey
  <2>3. AskedKey \in UnitKeys
    BY <1>0, <2>1, AskedIsLacking
  <2>4. ASSUME NEW k \in UnitKeys  PROVE board'[k] = UnitShown(k)'
    <3>1. board[k] = UnitShown(k)
      BY <1>0, <2>1 DEF WorkShown, NoState
    <3>2. board'[k] = IF k = AskedKey THEN "running" ELSE board[k]
      BY <1>0, <2>1, KeysDiffer
    <3> QED  BY <2>1, <2>2, <3>1, <3>2 DEF UnitShown
  <2>5. ASSUME NEW p \in Debates  PROVE board'[<<p, 0>>] = DebateShown(p)'
    <3>1. board[<<p, 0>>] = DebateShown(p)
      BY <1>0, <2>1 DEF WorkShown, NoState
    <3>2. board'[<<p, 0>>] = board[<<p, 0>>]
      BY <1>0, <2>1, <2>3, KeysDiffer
    <3> QED  BY <2>1, <3>1, <3>2 DEF DebateShown, AtTable, Saving
  <2> QED  BY <1>0, <2>1, <2>4, <2>5 DEF WorkShown, NoState
<1>6. CASE BOpenDebate
  <2>1. /\ pc = "head" /\ pc' = "turn" /\ state' = state /\ phase' = phase
        /\ phase \in Debates
        /\ board' = [board EXCEPT ![<<phase, 0>>] = "running"]
    BY <1>6 DEF BOpenDebate, OpenDebate, Start
  <2>2. ASSUME NEW k \in UnitKeys  PROVE board'[k] = UnitShown(k)'
    <3>1. board[k] = UnitShown(k) /\ board'[k] = board[k]
      BY <1>0, <2>1, KeysDiffer DEF WorkShown, NoState
    <3>2. HeldKeys(state)' = HeldKeys(state)
      BY <2>1
    <3> QED  BY <2>1, <3>1, <3>2 DEF UnitShown
  <2>3. ASSUME NEW p \in Debates  PROVE board'[<<p, 0>>] = DebateShown(p)'
    <3>1. board[<<p, 0>>] = DebateShown(p)
      BY <1>0, <2>1 DEF WorkShown, NoState
    <3>2. board'[<<p, 0>>] = IF p = phase THEN "running" ELSE board[<<p, 0>>]
      BY <1>0, <2>1, KeysDiffer
    <3>3. Turns(state, p)' = Turns(state, p)
      BY <2>1 DEF Turns
    <3> QED  BY <2>1, <3>1, <3>2, <3>3 DEF DebateShown, AtTable
  <2> QED  BY <1>0, <2>1, <2>2, <2>3 DEF WorkShown, NoState
<1>7. CASE BAnswer
  <2>1. /\ Products /\ pc = "asking" /\ pc' = "save" /\ phase' = phase
        /\ board' = [board EXCEPT ![AskedKey] = "done"]
        /\ state \in RunState /\ ~PhaseOver(state, phase)
    BY <1>0, <1>7 DEF BAnswer, Products, TurnAnswered, JudgeCompletes, Finish, IInv, Control, NoState
  <2>2. HeldKeys(state') = HeldKeys(state) \cup {AskedKey}
    BY <1>0, <2>1, AskedIsHeld
  <2>3. AskedKey \in UnitKeys
    BY <1>0, <2>1, AskedIsLacking
  <2>4. ASSUME NEW k \in UnitKeys  PROVE board'[k] = UnitShown(k)'
    <3>1. board[k] = UnitShown(k)
      BY <1>0, <2>1 DEF WorkShown, NoState
    <3>2. board'[k] = IF k = AskedKey THEN "done" ELSE board[k]
      BY <1>0, <2>1, KeysDiffer
    <3> QED  BY <2>1, <2>2, <3>1, <3>2 DEF UnitShown
  <2>5. ASSUME NEW p \in Debates  PROVE board'[<<p, 0>>] = DebateShown(p)'
    <3>1. board[<<p, 0>>] = DebateShown(p)
      BY <1>0, <2>1 DEF WorkShown, NoState
    <3>2. board'[<<p, 0>>] = board[<<p, 0>>]
      BY <1>0, <2>1, <2>3, KeysDiffer
    <3>3. p # phase => Turns(state', p) = Turns(state, p)
      BY <1>0, <2>1, AskedIsHeld
    <3> QED  BY <2>1, <3>1, <3>2, <3>3 DEF DebateShown, AtTable, Saving
  <2> QED  BY <1>0, <2>1, <2>4, <2>5 DEF WorkShown, NoState
<1>8. CASE BStageFails \/ BEscapes \/ BPumpRaises \/ BKill \/ BClear
  <2>1. pc' = "off"
    BY <1>8 DEF BStageFails, BEscapes, BPumpRaises, BKill, BClear, StageFails, Escapes,
                PumpRaises, Kill, Clear, Exit
  <2> QED  BY <2>1 DEF WorkShown, NoState
<1>9. CASE BOther
  <2>0. board' = board
    BY <1>9 DEF BOther, Untouched
  <2>1. CASE StartFresh \/ PendingDone
    BY <1>0, <2>0, <2>1 DEF StartFresh, PendingDone, WorkShown, NoState
  <2>2. CASE Begin
    <3>1. /\ pc = "begin" /\ pc' = "save" /\ state' = EmptyState /\ phase' = "analysts"
          /\ \A k \in Planned : board'[k] = "pending"
      BY <1>0, <2>0, <2>2 DEF Begin, IInv, Control, WorkShown, NoState
    <3>2. \A k \in UnitKeys : board'[k] = UnitShown(k)'
      <4>1. HeldKeys(state)' = {}
        BY <3>1, NothingHeld
      <4> QED  BY <3>1, <4>1, KeysDiffer DEF UnitShown
    <3>3. \A p \in Debates : board'[<<p, 0>>] = DebateShown(p)'
      BY <3>1, NothingHeld, KeysDiffer DEF DebateShown, Debates
    <3> QED  BY <1>0, <3>1, <3>2, <3>3 DEF WorkShown, NoState
  <2>3. CASE WriteTmp \/ ReplaceJournal \/ LeaveObserving \/ WriteSections \/ WriteWhole \/ Record
    <3>1. /\ pc \notin NoState /\ pc' \notin NoState /\ state' = state /\ phase' = phase
          /\ pc \notin {"asking", "closing"} /\ pc' \notin {"asking", "closing"}
      BY <2>3 DEF WriteTmp, ReplaceJournal, LeaveObserving, WriteSections, WriteWhole, Record,
                  NoState
    <3>2. phase \in Debates => (pc \in AtTable <=> pc' \in AtTable)
      BY <2>3 DEF WriteTmp, ReplaceJournal, LeaveObserving, WriteSections, WriteWhole, Record,
                  AtTable, Saving
    <3> QED  BY <1>0, <2>0, <3>1, <3>2, SameShown
  <2>4. CASE PumpFails
    <3>1. pc' = pc /\ state' = state /\ phase' = phase
      BY <2>4 DEF PumpFails
    <3>2. CASE pc \in NoState
      BY <1>0, <2>0, <3>1, <3>2 DEF WorkShown
    <3> QED  BY <1>0, <2>0, <3>1, <3>2, SameShown
  <2>5. CASE AnalystCompletes
    <3>1. /\ Products /\ pc = "asking" /\ pc' = "closing" /\ phase = "analysts"
          /\ phase' = phase /\ state \in RunState /\ ~PhaseOver(state, phase)
      BY <1>0, <2>5 DEF Products, AnalystCompletes, IInv, Control, NoState
    <3>2. HeldKeys(state') = HeldKeys(state) \cup {AskedKey} /\ LatestKey' = AskedKey
      BY <1>0, <2>5, <3>1, AskedIsHeld, LatestIsAsked
    <3>3. \A k \in UnitKeys : board'[k] = UnitShown(k)'
      BY <1>0, <2>0, <3>1, <3>2 DEF WorkShown, UnitShown, NoState
    <3>4. ASSUME NEW p \in Debates  PROVE board'[<<p, 0>>] = DebateShown(p)'
      <4>1. board[<<p, 0>>] = DebateShown(p) /\ p # phase
        BY <1>0, <3>1 DEF WorkShown, NoState, Debates
      <4>2. Turns(state', p) = Turns(state, p)
        BY <1>0, <3>1, <4>1, AskedIsHeld
      <4> QED  BY <2>0, <3>1, <4>1, <4>2 DEF DebateShown
    <3> QED  BY <1>0, <3>1, <3>3, <3>4 DEF WorkShown, NoState
  <2> QED  BY <1>9, <2>1, <2>2, <2>3, <2>4, <2>5 DEF BOther
<1>10. CASE UNCHANGED boardVars
  <2>1. pc' = pc /\ state' = state /\ phase' = phase /\ board' = board
    BY <1>10 DEF boardVars, vars
  <2>2. CASE pc \in NoState
    BY <1>0, <2>1, <2>2 DEF WorkShown
  <2> QED  BY <1>0, <2>1, <2>2, SameShown
<1>11. CASE BAnalystCloses
  <2>1. /\ pc = "closing" /\ pc' = "save" /\ phase = "analysts" /\ phase' = phase
        /\ state' = state /\ board' = [board EXCEPT ![LatestKey] = "done"]
    BY <1>0, <1>11 DEF BAnalystCloses, AnalystCloses, Finish, IInv, Control
  <2>2. HeldKeys(state)' = HeldKeys(state) /\ LatestKey \in HeldKeys(state)
    BY <1>0, <2>1 DEF Unsaved
  <2>3. LatestKey \in UnitKeys
    <3>1. \E i : LatestKey = <<"analysts", i>>
      BY DEF LatestKey
    <3>2. \E i \in Held(state) : LatestKey = <<"analysts", i>>
      BY <2>2, <3>1, HeldKinds DEF Debates, Judges
    <3> QED  BY <3>2, UnitKinds DEF Held
  <2>4. ASSUME NEW k \in UnitKeys  PROVE board'[k] = UnitShown(k)'
    <3>1. board[k] = UnitShown(k)
      BY <1>0, <2>1 DEF WorkShown, NoState
    <3>2. board'[k] = IF k = LatestKey THEN "done" ELSE board[k]
      BY <1>0, <2>1, KeysDiffer
    <3> QED  BY <2>1, <2>2, <3>1, <3>2 DEF UnitShown
  <2>5. ASSUME NEW p \in Debates  PROVE board'[<<p, 0>>] = DebateShown(p)'
    <3>1. board[<<p, 0>>] = DebateShown(p) /\ p # phase
      BY <1>0, <2>1 DEF WorkShown, NoState, Debates
    <3>2. board'[<<p, 0>>] = board[<<p, 0>>]
      BY <1>0, <2>1, <2>3, KeysDiffer
    <3> QED  BY <2>1, <3>1, <3>2 DEF DebateShown, Turns
  <2> QED  BY <1>0, <2>1, <2>4, <2>5 DEF WorkShown, NoState
<1> QED  BY <1>1, <1>2, <1>3, <1>4, <1>5, <1>6, <1>7, <1>8, <1>9, <1>10, <1>11 DEF BoardNext

\* A board closed when the run is whole shows the whole plan.
LEMMA ClosedWhole ==
    ASSUME OnScreen, BClear
    PROVE  \A k \in Planned :
              board'[k] = IF k \in {<<p, 0>> : p \in {q \in Debates : TotalTurns(q) = 0}}
                          THEN "pending" ELSE "done"
<1>1. /\ pc = "clear" /\ pc \in Delivering /\ pc \notin NoState /\ phase = "portfolio_manager"
      /\ board \in [Steps -> StepState] /\ board' = Closed(board)
  BY DEF BClear, Clear, Delivering, NoState, OnScreen, BoardTypeOK, PInv, IInv, Control
<1>2. ASSUME NEW k \in UnitKeys  PROVE board[k] = "done"
  <2>1. k \in HeldKeys(state)
    BY <1>1, WholeIsHeld DEF OnScreen
  <2> QED  BY <1>1, <2>1 DEF OnScreen, WorkShown, UnitShown
<1>3. ASSUME NEW p \in Debates
      PROVE  board[<<p, 0>>] = IF TotalTurns(p) = 0 THEN "pending" ELSE "done"
  <2>1. Turns(state, p) = <<>> <=> TotalTurns(p) = 0
    BY <1>1, WholeIsHeld DEF OnScreen
  <2> QED  BY <1>1, <2>1 DEF OnScreen, WorkShown, DebateShown, Debates
<1>4. ASSUME NEW k \in Planned  PROVE board'[k] = IF board[k] = "running" THEN "failed" ELSE board[k]
  BY <1>1, KeysDiffer DEF Closed
<1> DEFINE silent == {<<p, 0>> : p \in {q \in Debates : TotalTurns(q) = 0}}
<1>5. ASSUME NEW k \in UnitKeys  PROVE board'[k] = IF k \in silent THEN "pending" ELSE "done"
  BY <1>2, <1>4, KeysDiffer
<1>6. ASSUME NEW p \in Debates
      PROVE  board'[<<p, 0>>] = IF <<p, 0>> \in silent THEN "pending" ELSE "done"
  <2>1. <<p, 0>> \in silent <=> TotalTurns(p) = 0
    BY KeysDiffer
  <2> QED  BY <1>3, <1>4, <2>1, KeysDiffer
<1> HIDE DEF silent
<1>7. \A k \in Planned : k \in UnitKeys \/ \E p \in Debates : k = <<p, 0>>
  BY DEF Planned, DebateKeys
<1>8. \A k \in Planned : board'[k] = IF k \in silent THEN "pending" ELSE "done"
  BY <1>5, <1>6, <1>7
<1> QED  BY <1>8 DEF silent

\* A closed board shows nothing at work.
LEMMA ClosedRests ==
    ASSUME NEW b
    PROVE  \A k \in Steps : Closed(b)[k] # "running"
  BY DEF Closed

\* A board is closed at the end of a run and of a stage that failed.
LEMMA ClosingStep == OnScreen /\ [BoardNext]_boardVars => Closing'
<1> SUFFICES ASSUME OnScreen, [BoardNext]_boardVars
             PROVE  Closing'
  OBVIOUS
<1>0. /\ pc # "off" => verdict = "open"
      /\ BoardAtTheEnd
  BY DEF OnScreen, Closing
<1>1. CASE BLaunch
  BY <1>1 DEF BLaunch, Launch, Closing, BoardAtTheEnd
<1>2. CASE UNCHANGED boardVars
  BY <1>0, <1>2 DEF boardVars, vars, Closing, BoardAtTheEnd, Planned, UnitKeys, DebateKeys,
                    TurnKeys, TotalTurns, InvestmentTurns, RiskTurns
<1>3. CASE BStageFails
  <2>1. pc' = "off" /\ outcome' # "finished" /\ board' = Closed(Begun)
    BY <1>3 DEF BStageFails, StageFails, Exit
  <2> QED  BY <2>1, ClosedRests DEF Closing, BoardAtTheEnd
<1>4. CASE BClear
  <2>1. pc' = "off" /\ board' = Closed(board)
    BY <1>4 DEF BClear, Clear, Exit
  <2>2. /\ Planned' = Planned /\ Steps' = Steps
        /\ \A q \in Debates : TotalTurns(q)' = TotalTurns(q)
    BY DEF Planned, Steps, ReflectorKeys, UnitKeys, DebateKeys, TurnKeys, TotalTurns,
           InvestmentTurns, RiskTurns
  <2> QED  BY <1>4, <2>1, <2>2, ClosedRests, ClosedWhole DEF Closing, BoardAtTheEnd
<1>5. CASE \/ BResume \/ BTakePending \/ BReflected \/ BNextPhase \/ BOpenStage
           \/ BOpenDebate \/ BAsk \/ BAnswer \/ BAnalystCloses \/ BEscapes \/ BPumpRaises
           \/ BKill \/ BOther
  <2>1. verdict' = verdict
    BY <1>5 DEF BResume, BTakePending, BReflected, BNextPhase, BOpenStage, BOpenDebate, BAsk,
                BAnswer, BAnalystCloses, BEscapes, BPumpRaises, BKill, BOther, Untouched, Start, Finish,
                FinishFailed
  <2>2. pc # "off"
    BY <1>5 DEF BResume, BTakePending, BReflected, BNextPhase, BOpenStage, BOpenDebate, BAsk,
                BAnswer, BAnalystCloses, BEscapes, BPumpRaises, BKill, BOther, Resume, StartFresh,
                TakePending, Reflected, PendingDone, Begin, NextPhase, OpenStage, OpenDebate,
                Ask, AnalystCompletes, AnalystCloses, TurnAnswered, JudgeCompletes, WriteTmp, ReplaceJournal,
                LeaveObserving, PumpRaises, WriteSections, WriteWhole, Record, PumpFails,
                Kill, Escapes, Observed, Delivering
  <2> QED  BY <1>0, <2>1, <2>2 DEF Closing, BoardAtTheEnd
<1> QED  BY <1>1, <1>2, <1>3, <1>4, <1>5 DEF BoardNext

-----------------------------------------------------------------------------
(* The theorems: the board. *)

\* The state of every planned step of the board, at every moment of every launch,
\* follows from the run the driver holds and from where it is in it.
THEOREM BoardInductive == BoardSpec => []OnScreen
<1>1. BoardInit => BoardTypeOK /\ WorkShown /\ Opened /\ Unsaved /\ Closing
  BY DEF BoardInit, Init, BoardTypeOK, StepState, WorkShown, NoState, Opened, AtTable, Saving,
         Unsaved, Closing, BoardAtTheEnd
<1>2. PInv /\ PInv' /\ OnScreen /\ [BoardNext]_boardVars => OnScreen'
  BY BoardStepIsStep, BoardTypeStep, OpenedStep, UnsavedStep, WorkShownStep, ClosingStep
     DEF OnScreen
<1>3. BoardInit /\ PInv => OnScreen
  BY <1>1 DEF OnScreen
<1> QED  BY <1>2, <1>3, BoardIsRun, PTL DEF BoardSpec

\* The board's variables keep the shape the code gives them (board.py).
THEOREM BoardTypeCorrect == BoardSpec => []BoardTypeOK
<1>1. OnScreen => BoardTypeOK
  BY DEF OnScreen
<1> QED  BY <1>1, BoardInductive, PTL

\* While the driver lives, however often the run was killed and resumed, a unit
\* is shown done only if the run holds it; what it holds is shown done, but for
\* the one report whose session is being left, which no journal has yet.
THEOREM BoardIsTrue == BoardSpec => []BoardTellsTheRun
<1>1. OnScreen => BoardTellsTheRun
  <2> SUFFICES ASSUME OnScreen, state # Nothing, NEW k \in UnitKeys
               PROVE  /\ board[k] = "done" => k \in HeldKeys(state)
                      /\ k \in HeldKeys(state) /\ board[k] # "done" =>
                            /\ pc = "closing" /\ board[k] = "running"
                            /\ k \notin HeldKeys(journal)
    BY DEF BoardTellsTheRun
  <2>1. /\ pc \notin NoState /\ state \in RunState /\ phase \in Phases
        /\ pc = "asking" => ~PhaseOver(state, phase)
    BY DEF OnScreen, PInv, IInv, TypeOK, Control
  <2>2. board[k] = UnitShown(k)
    BY <2>1 DEF OnScreen, WorkShown
  <2>3. pc = "closing" => LatestKey \notin HeldKeys(journal)
    BY DEF OnScreen, Unsaved
  <2> QED  BY <2>1, <2>2, <2>3, AskedIsLacking DEF UnitShown
<1> QED  BY <1>1, BoardInductive, PTL

\* While a session is asked, that unit is shown at work, with its debate, and
\* nothing else is.
THEOREM BoardShowsWork == BoardSpec => []BoardShowsTheWork
<1>1. OnScreen => BoardShowsTheWork
  <2> SUFFICES ASSUME OnScreen, pc = "asking"
               PROVE  {k \in Planned : board[k] = "running"} =
                        {AskedKey} \cup (IF phase \in Debates THEN {<<phase, 0>>} ELSE {})
    BY DEF BoardShowsTheWork
  <2>1. /\ pc \notin NoState /\ state \in RunState /\ phase \in Phases
        /\ ~PhaseOver(state, phase)
    BY DEF OnScreen, PInv, IInv, TypeOK, Control, NoState
  <2>2. AskedKey \in UnitKeys
    BY <2>1, AskedIsLacking
  <2>3. \A k \in UnitKeys : board[k] = "running" <=> k = AskedKey
    BY <2>1 DEF OnScreen, WorkShown, UnitShown
  <2>4. \A p \in Debates : board[<<p, 0>>] = "running" <=> p = phase
    BY <2>1 DEF OnScreen, WorkShown, DebateShown, AtTable
  <2>5. \A k \in Planned : k \in UnitKeys \/ \E p \in Debates : k = <<p, 0>>
    BY DEF Planned, DebateKeys
  <2> HIDE DEF UnitKeys
  <2>6. ASSUME NEW k \in Planned
        PROVE  board[k] = "running" <=> k = AskedKey \/ (phase \in Debates /\ k = <<phase, 0>>)
    BY <2>2, <2>3, <2>4, <2>5, KeysDiffer
  <2> QED  BY <2>2, <2>6, KeysDiffer
<1> QED  BY <1>1, BoardInductive, PTL

\* The last frame of a run that finished shows the whole plan done, and of one
\* that stopped for a reason the driver knows, nothing at work.
THEOREM BoardEndsTrue == BoardSpec => []BoardAtTheEnd
<1>1. OnScreen => BoardAtTheEnd
  BY DEF OnScreen, Closing
<1> QED  BY <1>1, BoardInductive, PTL
=============================================================================
