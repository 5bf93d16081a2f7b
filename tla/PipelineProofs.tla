---------------------------- MODULE PipelineProofs ----------------------------
(***************************************************************************)
(* Proofs about Pipeline, for every configuration: type correctness, that  *)
(* a run is produced in order whatever dies, and that the journal holds    *)
(* all of the run but the unit in flight.                                  *)
(***************************************************************************)
EXTENDS PipelineProps, TLAPS

-----------------------------------------------------------------------------
(* The inductive invariant. *)

NoState == {"off", "load", "resolve", "reflect", "begin"}
Saving == {"closing", "save", "replace"}

\* Where a run state exists, and which phase the driver can be in.
Control ==
    /\ pc \in NoState => state = Nothing /\ phase = "analysts"
    /\ pc \notin NoState => state \in RunState
    /\ pc # "off" => launches # 0
    /\ pc = "turn" => phase \in Debates
    /\ pc = "reflect" => reflecting \in Dates
    /\ pc = "asking" => ~PhaseOver(state, phase)
    /\ pc = "closing" => phase = "analysts"
    /\ pc = "leave" => phase = "portfolio_manager" /\ PhaseOver(state, phase)
    /\ pc \in Delivering => phase = "portfolio_manager" /\ PhaseOver(state, phase)

\* How the journal follows the state.
Durable ==
    /\ pc \in {"resolve", "reflect", "begin"} => journal = Nothing
    /\ pc \in {"head", "turn", "asking", "leave"} \cup Delivering => journal = state
    /\ pc \in Saving => \/ journal = Nothing /\ state = EmptyState /\ phase = "analysts"
                        \/ journal \in RunState /\ Extends(journal, state)
    /\ pc = "replace" => tmp = state

\* The run in memory is in order, and the phases before this one are complete.
Ordered ==
    /\ journal # Nothing => journal \in RunState /\ InOrder(journal)
    /\ pc \notin NoState => InOrder(state) /\ CompleteBefore(state, phase)

IInv == TypeOK /\ Control /\ Durable /\ Ordered

-----------------------------------------------------------------------------
(* Run states. *)

\* A new run is a run state, in order, and everything extends it.
LEMMA EmptyStateFacts ==
    /\ EmptyState \in RunState
    /\ InOrder(EmptyState)
    /\ CompleteBefore(EmptyState, "analysts")
<1> USE ConfigAssumption
<1>1. EmptyState \in RunState
  BY DEF EmptyState, RunState, Version
<1>2. CompleteBefore(EmptyState, "analysts")
  BY DEF CompleteBefore
<1>3. InOrder(EmptyState)
  BY DEF EmptyState, InOrder, InvestmentTurns, RiskTurns
<1> QED  BY <1>1, <1>2, <1>3

\* Producing one more analyst report, turn or verdict yields a run state.
LEMMA AnalystState ==
    ASSUME NEW st \in RunState, NEW i \in 1..NAnalysts, NEW v \in Version
    PROVE  [st EXCEPT !.reports[i] = v] \in RunState
  BY DEF RunState

\* One more turn of either debate yields a run state.
LEMMA TurnState ==
    ASSUME NEW st \in RunState, NEW v \in Version
    PROVE  /\ [st EXCEPT !.investment = Append(@, v)] \in RunState
           /\ [st EXCEPT !.risk = Append(@, v)] \in RunState
<1>1. Append(st.investment, v) \in Seq(Version)
  BY DEF RunState
<1>2. Append(st.risk, v) \in Seq(Version)
  BY DEF RunState
<1>3. [st EXCEPT !.investment = Append(@, v)] \in RunState
  BY <1>1 DEF RunState
<1> QED  BY <1>2, <1>3 DEF RunState

\* A verdict of any judge yields a run state.
LEMMA VerdictState ==
    ASSUME NEW st \in RunState, NEW v \in Version
    PROVE  /\ [st EXCEPT !.plan = v] \in RunState
           /\ [st EXCEPT !.trader = v] \in RunState
           /\ [st EXCEPT !.decision = v] \in RunState
  BY DEF RunState

\* A transcript is a sequence of versions, whichever debate it is of.
LEMMA TurnsType ==
    ASSUME NEW st \in RunState, NEW p
    PROVE  Turns(st, p) \in Seq(Version)
  BY DEF Turns, RunState

\* The side to speak is one of the sides.
LEMMA NextSideType ==
    ASSUME NEW st \in RunState, NEW p
    PROVE  NextSide(st, p) \in Side
<1>1. Len(Turns(st, p)) \in Nat
  BY TurnsType
<1> QED  BY <1>1 DEF NextSide, Sides, Side

\* A prompt shows turns with the version each one has.
LEMMA PromptedType ==
    ASSUME NEW st \in RunState, NEW p
    PROVE  Prompted(st, p) \subseteq Nat \X Version
<1> DEFINE turns == Turns(st, p)
           n == Len(turns)
           since == IF p = "investment" \/ n < 2 THEN 1 ELSE 2
<1>1. turns \in Seq(Version) /\ n \in Nat
  BY TurnsType
<1>2. ASSUME NEW i \in Int, i >= 1
      PROVE  Spoken(turns, i, n) \subseteq Nat \X Version
  BY <1>1, <1>2 DEF Spoken
<1>3. n # 0 => n - since + 1 \in Int /\ n - since + 1 >= 1
  BY <1>1
<1>4. n # 0 => Spoken(turns, n - since + 1, n) \subseteq Nat \X Version
  BY <1>2, <1>3
<1> QED  BY <1>2, <1>4 DEF Prompted

-----------------------------------------------------------------------------
(* Type correctness. *)

\* Leaving the process, however, keeps the types.
LEMMA ExitType ==
    ASSUME TypeOK, NEW how, Exit(how),
           how \in {"finished", "stage_failed", "escaped", "killed"}
    PROVE  /\ launches' \in Version
           /\ outcome' \in {"none", "finished", "stage_failed", "escaped", "killed"}
           /\ pc' \in {"off"} \cup Observed \cup Delivering
           /\ phase' \in Phases
           /\ state' \in RunState \cup {Nothing}
           /\ briefed' \in SUBSET Side
           /\ seen' \in [Side -> SUBSET (Nat \X Version)]
           /\ todo' \in SUBSET Dates
           /\ reflecting' \in Dates \cup {Nothing}
           /\ pump' \in {"none", "running", "failed"}
  BY DEF TypeOK, Exit, Phases

\* Whatever is produced, the state in memory stays a run state.
LEMMA ProducedState ==
    ASSUME TypeOK, Control, AnalystCompletes \/ TurnAnswered \/ JudgeCompletes
    PROVE  state' \in RunState
<1>1. state \in RunState /\ launches \in Version
  BY DEF TypeOK, Control, NoState, AnalystCompletes, TurnAnswered, JudgeCompletes
<1>2. CASE AnalystCompletes
  BY <1>1, <1>2, AnalystState DEF AnalystCompletes, Missing
<1>3. CASE TurnAnswered
  BY <1>1, <1>3, TurnState DEF TurnAnswered
<1>4. CASE JudgeCompletes
  <2>1. \/ state' = [state EXCEPT !.plan = launches]
        \/ state' = [state EXCEPT !.trader = launches]
        \/ state' = [state EXCEPT !.decision = launches]
    BY <1>4 DEF JudgeCompletes
  <2> QED  BY <1>1, <2>1, VerdictState
<1> QED  BY <1>2, <1>3, <1>4

\* Every step keeps the types.
LEMMA TypeStep == IInv /\ [Next]_vars => TypeOK'
<1> SUFFICES ASSUME IInv, [Next]_vars
             PROVE  TypeOK'
  OBVIOUS
<1> USE ConfigAssumption DEF IInv, TypeOK, Observed, Delivering
<1>1. CASE Launch
  BY <1>1 DEF Launch, files, debate, reflection, Version, Observed
<1>2. CASE Resume
  BY <1>2 DEF Resume, files, debate, reflection
<1>3. CASE StartFresh
  BY <1>3 DEF StartFresh, files, debate, reflection
<1>4. CASE TakePending
  BY <1>4 DEF TakePending, files, debate, reflection
<1>5. CASE Reflected
  BY <1>5 DEF Reflected, files, debate, reflection
<1>6. CASE PendingDone
  BY <1>6 DEF PendingDone, files, debate, reflection
<1>7. CASE Begin
  BY EmptyStateFacts, <1>7 DEF Begin, files, debate, reflection
<1>8. CASE NextPhase
  BY <1>8 DEF Phases, PhaseAfter, NextPhase, files, debate, reflection
<1>9. CASE OpenStage
  BY <1>9 DEF OpenStage, files, debate, reflection
<1>10. CASE OpenDebate
  BY <1>10 DEF OpenDebate, files, debate, reflection
<1>11. CASE Ask
  <2>1. state \in RunState
    BY <1>11 DEF Control, NoState, Ask
  <2>2. Prompted(state, phase) \subseteq Nat \X Version /\ NextSide(state, phase) \in Side
    BY <2>1, PromptedType, NextSideType
  <2> QED  BY <1>11, <2>2 DEF Ask, files, debate, reflection
<1>12. CASE AnalystCompletes
  BY <1>12, ProducedState, ZenonT(60) DEF AnalystCompletes, files, debate, reflection
<1>13. CASE TurnAnswered
  <2>1. state \in RunState
    BY <1>13 DEF Control, NoState, TurnAnswered
  <2>2. NextSide(state, phase) \in Side
    BY <2>1, NextSideType
  <2>3. Len(Turns(state, phase)) + 1 \in Nat
    BY <2>1, TurnsType
  <2>4. seen' \in [Side -> SUBSET (Nat \X Version)]
    BY <1>13, <2>2, <2>3 DEF TurnAnswered
  <2> QED  BY <1>13, <2>4, ProducedState DEF TurnAnswered, files, debate, reflection
<1>14. CASE JudgeCompletes
  BY <1>14, ProducedState DEF JudgeCompletes, files, debate, reflection
<1>15. CASE WriteTmp
  BY <1>15 DEF WriteTmp, files, debate, reflection
<1>16. CASE ReplaceJournal
  BY <1>16 DEF Control, NoState, Durable, ReplaceJournal, files, debate, reflection
<1>17. CASE LeaveObserving
  BY <1>17 DEF LeaveObserving, files, debate, reflection
<1>18. CASE PumpRaises
  BY ExitType, <1>18 DEF PumpRaises, files
<1>19. CASE WriteSections
  BY <1>19 DEF WriteSections, files, debate, reflection
<1>20. CASE WriteWhole
  BY <1>20 DEF WriteWhole, files, debate, reflection
<1>21. CASE Record
  BY <1>21 DEF Record, files, debate, reflection
<1>22. CASE Clear
  BY ExitType, <1>22 DEF Clear, files
<1>23. CASE PumpFails
  BY <1>23 DEF PumpFails, files, debate, reflection
<1>24. CASE Kill
  BY ExitType, <1>24 DEF Kill, TornFiles
<1>25. CASE StageFails
  BY ExitType, <1>25 DEF StageFails, files, debate, reflection
<1>26. CASE Escapes
  BY ExitType, <1>26 DEF Escapes, TornFiles
<1>27. CASE UNCHANGED vars
  BY <1>27 DEF vars, files, debate, reflection
<1>28. CASE AnalystCloses
  BY <1>28 DEF AnalystCloses, files, debate, reflection
<1> QED  BY <1>1, <1>2, <1>3, <1>4, <1>5, <1>6, <1>7, <1>8, <1>9, <1>10, <1>11, <1>12, <1>13, <1>14, <1>15, <1>16, <1>17, <1>18, <1>19, <1>20, <1>21, <1>22, <1>23, <1>24, <1>25, <1>26, <1>27, <1>28 DEF Next, Driver, Faults

-----------------------------------------------------------------------------
(* Where the driver is. *)

\* Every step keeps the driver where a run state exists or not as it should.
LEMMA ControlStep == IInv /\ [Next]_vars => Control'
<1> SUFFICES ASSUME IInv, [Next]_vars
             PROVE  Control'
  OBVIOUS
<1> USE ConfigAssumption DEF IInv, Control, NoState, Delivering
<1>1. CASE Launch
  BY <1>1 DEF Launch, files, debate, reflection, TypeOK, Version
<1>2. CASE Resume
  BY <1>2 DEF Resume, files, debate, reflection, TypeOK
<1>3. CASE StartFresh
  BY <1>3 DEF StartFresh, files, debate, reflection
<1>4. CASE TakePending
  BY <1>4 DEF TypeOK, TakePending, files, debate, reflection
<1>5. CASE Reflected
  BY <1>5 DEF Reflected, files, debate, reflection
<1>6. CASE PendingDone
  BY <1>6 DEF PendingDone, files, debate, reflection
<1>7. CASE Begin
  BY EmptyStateFacts, <1>7 DEF Begin, files, debate, reflection
<1>8. CASE NextPhase
  BY <1>8 DEF NextPhase, files, debate, reflection, Debates
<1>9. CASE OpenStage
  BY <1>9 DEF OpenStage, files, debate, reflection
<1>10. CASE OpenDebate
  BY <1>10 DEF OpenDebate, files, debate, reflection
<1>11. CASE Ask
  BY <1>11 DEF Ask, files, debate, reflection
<1>12. CASE AnalystCompletes
  BY <1>12, ProducedState DEF AnalystCompletes, files, debate, reflection
<1>13. CASE TurnAnswered
  BY <1>13, ProducedState DEF TurnAnswered, files, debate, reflection
<1>14. CASE JudgeCompletes
  BY <1>14, ProducedState DEF JudgeCompletes, files, debate, reflection
<1>15. CASE WriteTmp
  BY <1>15 DEF WriteTmp, files, debate, reflection
<1>16. CASE ReplaceJournal
  BY <1>16 DEF ReplaceJournal, files, debate, reflection
<1>17. CASE LeaveObserving
  BY <1>17 DEF LeaveObserving, files, debate, reflection
<1>18. CASE PumpRaises
  BY <1>18 DEF PumpRaises, Exit
<1>19. CASE WriteSections
  BY <1>19 DEF WriteSections, files, debate, reflection
<1>20. CASE WriteWhole
  BY <1>20 DEF WriteWhole, files, debate, reflection
<1>21. CASE Record
  BY <1>21 DEF Record, files, debate, reflection
<1>22. CASE Clear
  BY <1>22 DEF Clear, Exit
<1>23. CASE PumpFails
  BY <1>23 DEF PumpFails, files, debate, reflection, Observed
<1>24. CASE Kill
  BY <1>24 DEF Kill, Exit
<1>25. CASE StageFails
  BY <1>25 DEF StageFails, Exit
<1>26. CASE Escapes
  BY <1>26 DEF Escapes, Exit
<1>27. CASE UNCHANGED vars
  BY <1>27 DEF vars, files, debate, reflection
<1>28. CASE AnalystCloses
  BY <1>28 DEF AnalystCloses, files, debate, reflection
<1> QED  BY <1>1, <1>2, <1>3, <1>4, <1>5, <1>6, <1>7, <1>8, <1>9, <1>10, <1>11, <1>12, <1>13, <1>14, <1>15, <1>16, <1>17, <1>18, <1>19, <1>20, <1>21, <1>22, <1>23, <1>24, <1>25, <1>26, <1>27, <1>28 DEF Next, Driver, Faults

-----------------------------------------------------------------------------
(* The journal and the state. *)

\* A state extends itself, and a new product extends what was there.
LEMMA ExtendsSelf ==
    ASSUME NEW st \in RunState
    PROVE  Extends(st, st)
  BY TurnsType DEF Extends

\* An analyst report that was missing takes nothing away.
LEMMA ExtendsAnalyst ==
    ASSUME NEW st \in RunState, NEW i \in Missing(st), NEW v \in Version
    PROVE  Extends(st, [st EXCEPT !.reports[i] = v])
  BY DEF Extends, Held, Missing, Turns, Verdict, RunState, Debates

\* A turn appended to a debate takes nothing away.
LEMMA ExtendsTurn ==
    ASSUME NEW st \in RunState, NEW v \in Version
    PROVE  /\ Extends(st, [st EXCEPT !.investment = Append(@, v)])
           /\ Extends(st, [st EXCEPT !.risk = Append(@, v)])
  BY DEF Extends, Held, Missing, Turns, Verdict, RunState, Debates

\* A verdict that was missing takes nothing away.
LEMMA ExtendsVerdict ==
    ASSUME NEW st \in RunState, NEW v \in Version
    PROVE  /\ st.plan = 0 => Extends(st, [st EXCEPT !.plan = v])
           /\ st.trader = 0 => Extends(st, [st EXCEPT !.trader = v])
           /\ st.decision = 0 => Extends(st, [st EXCEPT !.decision = v])
  BY DEF Extends, Held, Missing, Turns, Verdict, RunState, Debates, Judges

\* Every step keeps the journal one unit behind the state at most.
LEMMA DurableStep == IInv /\ [Next]_vars => Durable'
<1> SUFFICES ASSUME IInv, [Next]_vars
             PROVE  Durable'
  OBVIOUS
<1> USE DEF IInv, Durable, Saving, Delivering
<1>1. CASE Launch
  BY <1>1 DEF Launch, files, debate, reflection
<1>2. CASE Resume
  BY <1>2 DEF Resume, files, debate, reflection
<1>3. CASE StartFresh
  BY <1>3 DEF StartFresh, files, debate, reflection
<1>4. CASE TakePending
  BY <1>4 DEF TakePending, files, debate, reflection
<1>5. CASE Reflected
  BY <1>5 DEF Reflected, files, debate, reflection
<1>6. CASE PendingDone
  BY <1>6 DEF PendingDone, files, debate, reflection
<1>7. CASE Begin
  BY <1>7 DEF Control, NoState, Begin, files, debate, reflection
<1>8. CASE NextPhase
  BY <1>8 DEF NextPhase, files, debate, reflection
<1>9. CASE OpenStage
  BY <1>9 DEF OpenStage, files, debate, reflection
<1>10. CASE OpenDebate
  BY <1>10 DEF OpenDebate, files, debate, reflection
<1>11. CASE Ask
  BY <1>11 DEF Ask, files, debate, reflection
<1>12. CASE AnalystCompletes
  <2>1. state \in RunState /\ journal = state /\ launches \in Version
    BY <1>12 DEF TypeOK, Control, NoState, AnalystCompletes
  <2>2. Extends(journal, state')
    <3>1. PICK i \in Missing(state) : state' = [state EXCEPT !.reports[i] = launches]
      BY <1>12 DEF AnalystCompletes
    <3> QED  BY <2>1, <3>1, ExtendsAnalyst
  <2> QED  BY <1>12, <2>1, <2>2 DEF AnalystCompletes, files
<1>13. CASE TurnAnswered
  <2>1. state \in RunState /\ journal = state /\ launches \in Version
    BY <1>13 DEF TypeOK, Control, NoState, TurnAnswered
  <2>2. Extends(journal, state')
    BY <1>13, <2>1, ExtendsTurn DEF TurnAnswered
  <2> QED  BY <1>13, <2>1, <2>2 DEF TurnAnswered, files
<1>14. CASE JudgeCompletes
  <2>1. state \in RunState /\ journal = state /\ launches \in Version
    BY <1>14 DEF TypeOK, Control, NoState, JudgeCompletes
  <2>2. Extends(journal, state')
    <3>1. Verdict(state, phase) = 0
      BY <1>14 DEF Control, PhaseOver, JudgeCompletes, Judges, Debates
    <3>2. \/ phase = "research_manager" /\ state' = [state EXCEPT !.plan = launches]
          \/ phase = "trader" /\ state' = [state EXCEPT !.trader = launches]
          \/ phase = "portfolio_manager" /\ state' = [state EXCEPT !.decision = launches]
      BY <1>14 DEF JudgeCompletes, Judges
    <3> QED  BY <2>1, <3>1, <3>2, ExtendsVerdict DEF Verdict
  <2> QED  BY <1>14, <2>1, <2>2 DEF JudgeCompletes, files
<1>15. CASE WriteTmp
  BY <1>15 DEF WriteTmp, files, debate, reflection
<1>16. CASE ReplaceJournal
  BY <1>16 DEF ReplaceJournal, files, debate, reflection, Control, NoState
<1>17. CASE LeaveObserving
  BY <1>17 DEF LeaveObserving, files, debate, reflection
<1>18. CASE PumpRaises
  BY <1>18 DEF PumpRaises, Exit
<1>19. CASE WriteSections
  BY <1>19 DEF WriteSections, files, debate, reflection
<1>20. CASE WriteWhole
  BY <1>20 DEF WriteWhole, files, debate, reflection
<1>21. CASE Record
  BY <1>21 DEF Record, files, debate, reflection
<1>22. CASE Clear
  BY <1>22 DEF Clear, Exit
<1>23. CASE PumpFails
  BY <1>23 DEF PumpFails, files, debate, reflection, Observed
<1>24. CASE Kill
  BY <1>24 DEF Kill, Exit
<1>25. CASE StageFails
  BY <1>25 DEF StageFails, Exit
<1>26. CASE Escapes
  BY <1>26 DEF Escapes, Exit
<1>27. CASE UNCHANGED vars
  BY <1>27 DEF vars, files, debate, reflection
<1>28. CASE AnalystCloses
  BY <1>28 DEF AnalystCloses, files, debate, reflection
<1> QED  BY <1>1, <1>2, <1>3, <1>4, <1>5, <1>6, <1>7, <1>8, <1>9, <1>10, <1>11, <1>12, <1>13, <1>14, <1>15, <1>16, <1>17, <1>18, <1>19, <1>20, <1>21, <1>22, <1>23, <1>24, <1>25, <1>26, <1>27, <1>28 DEF Next, Driver, Faults

-----------------------------------------------------------------------------
(* The order of a run. *)

\* The first missing analyst's report keeps the reports in order.
LEMMA OrderedAnalyst ==
    ASSUME NEW st \in RunState, InOrder(st),
           NEW i \in Missing(st), \A j \in Missing(st) : i <= j,
           NEW v \in Version, v # 0
    PROVE  InOrder([st EXCEPT !.reports[i] = v])
<1> DEFINE after == [st EXCEPT !.reports[i] = v]
<1>1. /\ st.investment = <<>> /\ st.risk = <<>>
      /\ st.plan = 0 /\ st.trader = 0 /\ st.decision = 0
  BY DEF InOrder, CompleteBefore
<1>2. /\ after.investment = <<>> /\ after.risk = <<>>
      /\ after.plan = 0 /\ after.trader = 0 /\ after.decision = 0
      /\ after.reports = [st.reports EXCEPT ![i] = v]
  BY <1>1 DEF RunState
<1>3. \A k, l \in 1..NAnalysts : k < l /\ after.reports[l] # 0 => after.reports[k] # 0
  BY <1>2, ConfigAssumption DEF InOrder, Missing, RunState
<1> HIDE DEF after
<1>4. InOrder(after)
  BY <1>2, <1>3, ConfigAssumption DEF InOrder, InvestmentTurns, RiskTurns
<1> QED  BY <1>4 DEF after

\* A turn spoken in its debate keeps the run in order.
LEMMA OrderedTurn ==
    ASSUME NEW st \in RunState, InOrder(st), NEW p \in Debates,
           CompleteBefore(st, p), ~PhaseOver(st, p), NEW v \in Version
    PROVE  LET after == IF p = "investment"
                        THEN [st EXCEPT !.investment = Append(@, v)]
                        ELSE [st EXCEPT !.risk = Append(@, v)]
           IN  InOrder(after) /\ CompleteBefore(after, p)
<1> USE ConfigAssumption
<1>1. CASE p = "investment"
  <2> DEFINE after == [st EXCEPT !.investment = Append(@, v)]
  <2>1. /\ after.reports = st.reports /\ after.risk = st.risk
        /\ after.plan = st.plan /\ after.trader = st.trader
        /\ after.decision = st.decision
        /\ Len(after.investment) = Len(st.investment) + 1
        /\ Len(st.investment) \in Nat /\ Len(st.investment) < InvestmentTurns
    BY <1>1 DEF RunState, PhaseOver, TotalTurns, Turns, Debates, InvestmentTurns
  <2>2. /\ st.plan = 0 /\ st.trader = 0 /\ st.decision = 0 /\ st.risk = <<>>
        /\ Missing(st) = {} /\ Missing(after) = {}
    BY <1>1, <2>1 DEF InOrder, CompleteBefore, Missing, InvestmentTurns
  <2> HIDE DEF after
  <2>3. InOrder(after) /\ CompleteBefore(after, p)
    BY <1>1, <2>1, <2>2 DEF InOrder, CompleteBefore, InvestmentTurns
  <2> QED  BY <1>1, <2>3 DEF after
<1>2. CASE p = "risk"
  <2> DEFINE after == [st EXCEPT !.risk = Append(@, v)]
  <2>1. /\ after.reports = st.reports /\ after.investment = st.investment
        /\ after.plan = st.plan /\ after.trader = st.trader
        /\ after.decision = st.decision
        /\ Len(after.risk) = Len(st.risk) + 1
        /\ Len(st.risk) \in Nat /\ Len(st.risk) < RiskTurns
    BY <1>2 DEF RunState, PhaseOver, TotalTurns, Turns, Debates, RiskTurns
  <2>2. st.decision = 0 /\ Missing(after) = Missing(st)
    BY <1>2, <2>1 DEF InOrder, CompleteBefore, Missing, RiskTurns
  <2> HIDE DEF after
  <2>3. InOrder(after) /\ CompleteBefore(after, p)
    BY <1>2, <2>1, <2>2 DEF InOrder, CompleteBefore, RiskTurns
  <2> QED  BY <1>2, <2>3 DEF after
<1> QED  BY <1>1, <1>2 DEF Debates

\* A judge's verdict, given when nothing before it is missing, keeps it too.
LEMMA OrderedVerdict ==
    ASSUME NEW st \in RunState, InOrder(st), NEW v \in Version, v # 0
    PROVE  /\ CompleteBefore(st, "research_manager") =>
                 /\ InOrder([st EXCEPT !.plan = v])
                 /\ CompleteBefore([st EXCEPT !.plan = v], "research_manager")
           /\ CompleteBefore(st, "trader") =>
                 /\ InOrder([st EXCEPT !.trader = v])
                 /\ CompleteBefore([st EXCEPT !.trader = v], "trader")
           /\ CompleteBefore(st, "portfolio_manager") =>
                 /\ InOrder([st EXCEPT !.decision = v])
                 /\ CompleteBefore([st EXCEPT !.decision = v], "portfolio_manager")
<1>1. ASSUME CompleteBefore(st, "research_manager")
      PROVE  /\ InOrder([st EXCEPT !.plan = v])
             /\ CompleteBefore([st EXCEPT !.plan = v], "research_manager")
  <2> DEFINE after == [st EXCEPT !.plan = v]
  <2>1. /\ after.reports = st.reports /\ after.investment = st.investment /\ after.risk = st.risk
        /\ after.trader = st.trader /\ after.decision = st.decision /\ after.plan = v
        /\ Missing(after) = Missing(st)
    BY DEF RunState, Missing
  <2> HIDE DEF after
  <2>2. InOrder(after) /\ CompleteBefore(after, "research_manager")
    BY <1>1, <2>1 DEF InOrder, CompleteBefore
  <2> QED  BY <2>2 DEF after
<1>2. ASSUME CompleteBefore(st, "trader")
      PROVE  /\ InOrder([st EXCEPT !.trader = v])
             /\ CompleteBefore([st EXCEPT !.trader = v], "trader")
  <2> DEFINE after == [st EXCEPT !.trader = v]
  <2>1. /\ after.reports = st.reports /\ after.investment = st.investment /\ after.risk = st.risk
        /\ after.plan = st.plan /\ after.decision = st.decision /\ after.trader = v
        /\ Missing(after) = Missing(st)
    BY DEF RunState, Missing
  <2> HIDE DEF after
  <2>2. InOrder(after) /\ CompleteBefore(after, "trader")
    BY <1>2, <2>1 DEF InOrder, CompleteBefore
  <2> QED  BY <2>2 DEF after
<1>3. ASSUME CompleteBefore(st, "portfolio_manager")
      PROVE  /\ InOrder([st EXCEPT !.decision = v])
             /\ CompleteBefore([st EXCEPT !.decision = v], "portfolio_manager")
  <2> DEFINE after == [st EXCEPT !.decision = v]
  <2>1. /\ after.reports = st.reports /\ after.investment = st.investment /\ after.risk = st.risk
        /\ after.plan = st.plan /\ after.trader = st.trader /\ after.decision = v
        /\ Missing(after) = Missing(st)
    BY DEF RunState, Missing
  <2> HIDE DEF after
  <2>2. InOrder(after) /\ CompleteBefore(after, "portfolio_manager")
    BY <1>3, <2>1 DEF InOrder, CompleteBefore
  <2> QED  BY <2>2 DEF after
<1> QED  BY <1>1, <1>2, <1>3

\* Every step keeps journal and memory a run cut short.
LEMMA OrderedStep == IInv /\ [Next]_vars => Ordered'
<1> SUFFICES ASSUME IInv, [Next]_vars
             PROVE  Ordered'
  OBVIOUS
<1> USE DEF IInv, Ordered, NoState
<1>1. CASE Launch
  BY <1>1 DEF Launch, files, debate, reflection
<1>2. CASE Resume
  BY <1>2 DEF Resume, files, Control, CompleteBefore
<1>3. CASE StartFresh
  BY <1>3 DEF StartFresh, files, debate, reflection
<1>4. CASE TakePending
  BY <1>4 DEF TakePending, files, debate, reflection
<1>5. CASE Reflected
  BY <1>5 DEF Reflected, files, debate, reflection
<1>6. CASE PendingDone
  BY <1>6 DEF PendingDone, files, debate, reflection
<1>7. CASE Begin
  BY <1>7, EmptyStateFacts DEF Begin, files, Control
<1>8. CASE NextPhase
  <2>1. state \in RunState /\ InOrder(state) /\ CompleteBefore(state, phase)
    BY <1>8 DEF NextPhase, Control
  <2>2. phase # "portfolio_manager" => CompleteBefore(state, PhaseAfter(phase))
    <3>1. /\ Len(state.investment) \in Nat /\ Len(state.risk) \in Nat
          /\ InvestmentTurns \in Nat /\ RiskTurns \in Nat /\ phase \in Phases
      BY <2>1, ConfigAssumption DEF RunState, InvestmentTurns, RiskTurns, TypeOK
    <3> QED  BY <1>8, <2>1, <3>1 DEF NextPhase, CompleteBefore, InOrder, Phases, PhaseAfter,
                 PhaseOver, Debates, Turns, TotalTurns, Verdict
  <2> QED  BY <1>8, <2>1, <2>2 DEF NextPhase, files
<1>9. CASE OpenStage
  BY <1>9 DEF OpenStage, files, debate, reflection
<1>10. CASE OpenDebate
  BY <1>10 DEF OpenDebate, files, debate, reflection
<1>11. CASE Ask
  BY <1>11 DEF Ask, files, debate, reflection
<1>12. CASE AnalystCompletes
  <2>1. state \in RunState /\ InOrder(state) /\ launches \in Version /\ launches # 0
    BY <1>12 DEF TypeOK, Control, AnalystCompletes
  <2>2. InOrder(state')
    BY <1>12, <2>1, OrderedAnalyst DEF AnalystCompletes
  <2>3. CompleteBefore(state', "analysts")
    BY DEF CompleteBefore
  <2> QED  BY <1>12, <2>2, <2>3 DEF AnalystCompletes, files
<1>13. CASE TurnAnswered
  <2>1. /\ state \in RunState /\ InOrder(state) /\ launches \in Version
        /\ CompleteBefore(state, phase) /\ phase \in Debates /\ ~PhaseOver(state, phase)
    BY <1>13 DEF TypeOK, Control, TurnAnswered
  <2>2. InOrder(state') /\ CompleteBefore(state', phase)
    BY <1>13, <2>1, OrderedTurn DEF TurnAnswered
  <2> QED  BY <1>13, <2>2 DEF TurnAnswered, files
<1>14. CASE JudgeCompletes
  <2>1. /\ state \in RunState /\ InOrder(state) /\ launches \in Version /\ launches # 0
        /\ CompleteBefore(state, phase)
    BY <1>14 DEF TypeOK, Control, JudgeCompletes
  <2>2. \/ phase = "research_manager" /\ state' = [state EXCEPT !.plan = launches]
        \/ phase = "trader" /\ state' = [state EXCEPT !.trader = launches]
        \/ phase = "portfolio_manager" /\ state' = [state EXCEPT !.decision = launches]
    BY <1>14 DEF JudgeCompletes, Judges
  <2>3. InOrder(state') /\ CompleteBefore(state', phase)
    BY <2>1, <2>2, OrderedVerdict
  <2> QED  BY <1>14, <2>3 DEF JudgeCompletes, files
<1>15. CASE WriteTmp
  BY <1>15 DEF WriteTmp, files, debate, reflection
<1>16. CASE ReplaceJournal
  BY <1>16 DEF ReplaceJournal, Durable, Control
<1>17. CASE LeaveObserving
  BY <1>17 DEF LeaveObserving, files, debate, reflection
<1>18. CASE PumpRaises
  BY <1>18 DEF PumpRaises, Exit, files
<1>19. CASE WriteSections
  BY <1>19 DEF WriteSections, files, debate, reflection
<1>20. CASE WriteWhole
  BY <1>20 DEF WriteWhole, files, debate, reflection
<1>21. CASE Record
  BY <1>21 DEF Record, files, debate, reflection
<1>22. CASE Clear
  BY <1>22 DEF Clear, Exit, files
<1>23. CASE PumpFails
  BY <1>23 DEF PumpFails, files, debate, reflection, Observed
<1>24. CASE Kill
  BY <1>24 DEF Kill, Exit, TornFiles
<1>25. CASE StageFails
  BY <1>25 DEF StageFails, Exit, files
<1>26. CASE Escapes
  BY <1>26 DEF Escapes, Exit, TornFiles
<1>27. CASE UNCHANGED vars
  BY <1>27 DEF vars, files, debate, reflection
<1>28. CASE AnalystCloses
  BY <1>28 DEF AnalystCloses, files, debate, reflection
<1> QED  BY <1>1, <1>2, <1>3, <1>4, <1>5, <1>6, <1>7, <1>8, <1>9, <1>10, <1>11, <1>12, <1>13, <1>14, <1>15, <1>16, <1>17, <1>18, <1>19, <1>20, <1>21, <1>22, <1>23, <1>24, <1>25, <1>26, <1>27, <1>28 DEF Next, Driver, Faults

-----------------------------------------------------------------------------
(* The theorems. *)

\* The first launch starts from files that satisfy the invariant.
LEMMA InitIInv == Init => IInv
<1> SUFFICES ASSUME Init  PROVE IInv
  OBVIOUS
<1> USE ConfigAssumption DEF Init
<1>1. TypeOK
  BY DEF TypeOK, Version, Phases, Side
<1>2. Control
  BY DEF Control, NoState, Delivering
<1>3. Durable /\ Ordered
  BY DEF Durable, Ordered, NoState, Saving, Delivering
<1> QED  BY <1>1, <1>2, <1>3 DEF IInv

\* The strengthened invariant holds in every reachable state.
THEOREM Inductive == Spec => []IInv
<1>1. IInv /\ [Next]_vars => IInv'
  BY TypeStep, ControlStep, DurableStep, OrderedStep DEF IInv
<1> QED  BY InitIInv, <1>1, PTL DEF Spec

\* Every variable keeps its type, for every configuration of a run.
THEOREM TypeCorrect == Spec => []TypeOK
<1>1. IInv => TypeOK
  BY DEF IInv
<1> QED  BY Inductive, <1>1, PTL

\* Whatever is killed and resumed, journal and memory are a run cut short.
THEOREM RunIsInOrder == Spec => []RunInOrder
<1>1. IInv => RunInOrder
  BY DEF IInv, Control, Ordered, RunInOrder
<1> QED  BY Inductive, <1>1, PTL
=============================================================================
