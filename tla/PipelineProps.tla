---------------------------- MODULE PipelineProps ----------------------------
(***************************************************************************)
(* What the driver of Pipeline must get right, and the abstract            *)
(* specification it implements.                                            *)
(***************************************************************************)
EXTENDS Pipeline

-----------------------------------------------------------------------------
(* Parts of the invariants. *)

\* Everything the phases before p make is in st.
CompleteBefore(st, p) ==
    /\ p # "analysts" => Missing(st) = {}
    /\ p \notin {"analysts", "investment"} => Len(st.investment) = InvestmentTurns
    /\ p \notin {"analysts", "investment", "research_manager"} => st.plan # 0
    /\ p \in {"risk", "portfolio_manager"} => st.trader # 0
    /\ p = "portfolio_manager" => Len(st.risk) = RiskTurns

\* No product was made before everything it is made from, and no more turns
\* were spoken than the configuration asks for.
InOrder(st) ==
    /\ \A i, j \in 1..NAnalysts : i < j /\ st.reports[j] # 0 => st.reports[i] # 0
    /\ st.investment # <<>> => CompleteBefore(st, "investment")
    /\ st.plan # 0 => CompleteBefore(st, "research_manager")
    /\ st.trader # 0 => CompleteBefore(st, "trader")
    /\ st.risk # <<>> => CompleteBefore(st, "risk")
    /\ st.decision # 0 => CompleteBefore(st, "portfolio_manager")
    /\ Len(st.investment) <= InvestmentTurns
    /\ Len(st.risk) <= RiskTurns

\* later holds everything earlier holds, unchanged.
Extends(earlier, later) ==
    /\ \A i \in Held(earlier) : later.reports[i] = earlier.reports[i]
    /\ \A p \in Debates :
        /\ Len(Turns(earlier, p)) <= Len(Turns(later, p))
        /\ \A k \in 1..Len(Turns(earlier, p)) : Turns(later, p)[k] = Turns(earlier, p)[k]
    /\ \A p \in Judges : Verdict(earlier, p) # 0 => Verdict(later, p) = Verdict(earlier, p)

\* The number of units of work in st.
Units(st) ==
    Cardinality(Held(st)) + Len(st.investment) + Len(st.risk)
        + Cardinality({p \in Judges : Verdict(st, p) # 0})

AllUnits == NAnalysts + InvestmentTurns + RiskTurns + 3

-----------------------------------------------------------------------------
(* Invariants. *)

\* Every variable has the shape the code gives it.
TypeOK ==
    /\ journal \in RunState \cup {Nothing}
    /\ tmp \in RunState \cup {Torn, Nothing}
    /\ decisions \in [Dates -> {"absent", "pending", "resolved"}]
    /\ report \in RunState \cup {Torn, Nothing}
    /\ launches \in Version
    /\ outcome \in {"none", "finished", "stage_failed", "escaped", "killed"}
    /\ pc \in {"off"} \cup Observed \cup Delivering
    /\ phase \in Phases
    /\ state \in RunState \cup {Nothing}
    /\ briefed \in SUBSET Side
    /\ seen \in [Side -> SUBSET (Nat \X Version)]
    /\ todo \in SUBSET Dates
    /\ reflecting \in Dates \cup {Nothing}
    /\ pump \in {"none", "running", "failed"}

\* A death at any moment costs at most the unit in flight: in memory there is
\* never more than one product, the last one made, that the journal lacks.
AtMostOneUnitAtRisk ==
    state # Nothing /\ journal # Nothing =>
        /\ Extends(journal, state)
        /\ Units(state) <= Units(journal) + 1
        /\ pc \notin {"closing", "save", "replace"} => journal = state

\* Whatever was killed and resumed, no stage ran before the stages it reads:
\* the journal and the memory of the driver are always a run cut short.
RunInOrder ==
    /\ journal # Nothing => InOrder(journal)
    /\ state # Nothing => InOrder(state)

\* A debater is asked to speak only when its session has read or spoken every
\* turn so far, in the wording that is in the transcript, whether its session
\* lived through the debate or was opened by a resume in its middle.
HeardEverything ==
    pc = "asking" /\ phase \in Debates =>
        seen[NextSide(state, phase)] =
            Spoken(Turns(state, phase), 1, Len(Turns(state, phase)))

\* The results are handed over only for a whole run, and the journal the driver
\* is about to delete is the run whose report is complete and whose decision is
\* in the log.
DeliveredBeforeCleared ==
    /\ pc \in Delivering => state = journal /\ Units(journal) = AllUnits
    /\ pc \in {"record", "clear"} => report = journal
    /\ pc = "clear" /\ RecordDecision => decisions[Own] # "absent"

-----------------------------------------------------------------------------
(* Action properties. *)

\* Work that is in the journal is never lost, redone or reworded: the journal
\* only grows, by one unit at a time, until a clean finish deletes it.
JournalOnlyGrows ==
    [][ \/ journal' = journal
        \/ journal = Nothing /\ Units(journal') = 0
        \/ journal' # Nothing /\ journal # Nothing /\ Extends(journal, journal')
             /\ Units(journal') = Units(journal) + 1
        \/ journal' = Nothing /\ outcome' = "finished" ]_vars

\* A decision's entry goes from absent to pending to resolved and never back,
\* and only a decision that was pending when the run listed them is resolved.
DecisionsAdvance ==
    [][ \A d \in Dates : decisions'[d] # decisions[d] =>
            \/ decisions[d] = "absent" /\ decisions'[d] = "pending" /\ report = state
            \/ decisions[d] = "pending" /\ decisions'[d] = "resolved" /\ reflecting = d ]_vars

-----------------------------------------------------------------------------
(* Temporal properties. *)

\* Once the faults stop, relaunching the same command finishes the run.
RunFinishes == Fairness => []<>(pc = "off" /\ outcome = "finished")

\* No durable work is wasted: a run whose launches all die, but not before one
\* more unit is journaled now and then, still comes to its end.
DurableWorkCounts == []<><<ReplaceJournal>>_vars => []<>(journal = Nothing)

-----------------------------------------------------------------------------
(* The abstract specification, under the refinement mapping. *)

\* The journal's units are what is durable; the results are delivered once the
\* report shows the journaled run and the decision has its entry.
Abstract == INSTANCE RunProgress WITH
    Total <- AllUnits,
    durable <- IF journal = Nothing THEN -1 ELSE Units(journal),
    delivered <- /\ journal # Nothing
                 /\ Units(journal) = AllUnits
                 /\ report = journal
                 /\ RecordDecision => decisions[Own] # "absent"

ImplementsRunProgress == Abstract!ProgressSpec

-----------------------------------------------------------------------------
(* A statement of the sources the code does not keep. *)

\* sessions.py says of the pump that it "NEVER fails the run": a run whose work
\* is done goes on to its report.
PumpNeverFailsRun ==
    [][pc = "leave" /\ pc' = "off" => outcome' = "killed"]_vars
=============================================================================
