------------------------------ MODULE Pipeline ------------------------------
(***************************************************************************)
(* The driver of one analysis run: ta_cascade/pipeline.py with the resume  *)
(* journal (journal.py), the run state (state.py) and the hand-over of the *)
(* results (report.py, memory.py).                                         *)
(*                                                                         *)
(* The driver is one process that may be launched again and again for the  *)
(* same run key.  Everything it holds is lost when it ends; the journal,   *)
(* the decision log and the report tree stay.  A unit of work is an        *)
(* analyst, a debate turn or a judge: its product is written down as the   *)
(* number of the launch that produced it (0: not produced), which is what  *)
(* tells a product from the one that replaces it after a death.            *)
(*                                                                         *)
(* Left out: prompts and payloads beyond who has read what, evidence, the  *)
(* board (RunBoard adds it) and past_context (DecisionLog models it).      *)
(***************************************************************************)
EXTENDS Integers, Sequences, FiniteSets

CONSTANTS
    NAnalysts,          \* len(cfg.analysts); a repeated key is skipped
    DebateRounds,       \* cfg.max_debate_rounds
    RiskRounds,         \* cfg.max_risk_rounds
    Dates,              \* trade dates of this ticker's decisions
    Own,                \* this run's trade date
    RecordDecision,     \* run(record_decision=...)
    ResolvePending,     \* run(resolve_pending=...)
    Nothing, Torn,      \* no file or value; a file cut short while written
    MaxLaunches         \* bound: launch numbers beyond it are not told apart

ASSUME ConfigAssumption ==
    /\ NAnalysts \in Nat \ {0}
    /\ DebateRounds \in Nat
    /\ RiskRounds \in Nat
    /\ Own \in Dates
    /\ RecordDecision \in BOOLEAN
    /\ ResolvePending \in BOOLEAN
    /\ MaxLaunches \in Nat \ {0}

VARIABLES
    journal,            \* the journal file: a run state, or Nothing
    tmp,                \* its .tmp sibling: a run state, Torn or Nothing
    decisions,          \* status of each date's entry in the decision log
    report,             \* the state the report tree shows, Torn or Nothing
    launches,           \* the number of the current (or last) launch
    outcome,            \* how the last launch ended
    pc, phase,          \* where the driver is
    state,              \* the RunState in memory
    briefed,            \* sides whose session was prompted in this launch
    seen,               \* turns each debate session has read or spoken
    todo, reflecting,   \* pending decisions still to resolve, the current one
    pump                \* the observer's task: none, running or failed

files == <<journal, tmp, decisions, report>>
debate == <<briefed, seen>>
reflection == <<todo, reflecting>>
vars == <<files, launches, outcome, pc, phase, state, debate, reflection, pump>>

Side == 0..2            \* Bull, Bear / Aggressive, Conservative, Neutral
Version == 0..MaxLaunches

RunState ==
    [reports : [1..NAnalysts -> Version], investment : Seq(Version),
     plan : Version, trader : Version, risk : Seq(Version), decision : Version]

\* An absent journal is told from one that holds a run.
ASSUME NoFileAssumption == Nothing \notin RunState

EmptyState ==
    [reports |-> [i \in 1..NAnalysts |-> 0], investment |-> <<>>,
     plan |-> 0, trader |-> 0, risk |-> <<>>, decision |-> 0]

Phases == {"analysts", "investment", "research_manager", "trader", "risk",
           "portfolio_manager"}
Debates == {"investment", "risk"}
Judges == {"research_manager", "trader", "portfolio_manager"}

\* pc: "load" .. "leave" lie inside observing(), "sections" .. "clear" after it.
Observed == {"load", "resolve", "reflect", "begin", "head", "turn", "asking",
             "closing", "save", "replace", "leave"}
Delivering == {"sections", "whole", "record", "clear"}

InvestmentTurns == 2 * DebateRounds
RiskTurns == 3 * RiskRounds

-----------------------------------------------------------------------------
(* The shape of a run. *)

Missing(st) == {i \in 1..NAnalysts : st.reports[i] = 0}
Held(st) == (1..NAnalysts) \ Missing(st)

PhaseAfter(p) ==
    CASE p = "analysts" -> "investment"
      [] p = "investment" -> "research_manager"
      [] p = "research_manager" -> "trader"
      [] p = "trader" -> "risk"
      [] OTHER -> "portfolio_manager"

\* The transcript of the debate of phase p, its length when over, its sides.
Turns(st, p) == IF p = "investment" THEN st.investment ELSE st.risk
TotalTurns(p) == IF p = "investment" THEN InvestmentTurns ELSE RiskTurns
Sides(p) == IF p = "investment" THEN 2 ELSE 3
NextSide(st, p) == Len(Turns(st, p)) % Sides(p)

Verdict(st, p) ==
    CASE p = "research_manager" -> st.plan
      [] p = "trader" -> st.trader
      [] OTHER -> st.decision

\* Mutant of PhaseOver: a debate ends a turn early.
PhaseOverEarly(st, p) ==
    CASE p = "analysts" -> Missing(st) = {}
      [] p \in Debates -> Len(Turns(st, p)) + 1 >= TotalTurns(p)
      [] OTHER -> Verdict(st, p) # 0

\* Each phase function's test that there is nothing left for it to do.
PhaseOver(st, p) ==
    CASE p = "analysts" -> Missing(st) = {}
      [] p \in Debates -> Len(Turns(st, p)) >= TotalTurns(p)
      [] OTHER -> Verdict(st, p) # 0

\* The turns i..j of a transcript, with the text each one had.
Spoken(turns, i, j) == {<<k, turns[k]>> : k \in i..j}

\* Mutant of Prompted: a rebuttal in the risk debate quotes the last turn only.
PromptedLastTurn(st, p) ==
    LET turns == Turns(st, p)
        n == Len(turns)
    IN  IF n = 0 THEN {}
        ELSE Spoken(turns, IF NextSide(st, p) \notin briefed THEN 1 ELSE n, n)

\* What the next prompt of a debate tells its side: nothing of the debate when
\* it opens it, the whole transcript when this launch has not briefed the side
\* yet, else the turns of the others since it last spoke.
Prompted(st, p) ==
    LET turns == Turns(st, p)
        n == Len(turns)
        since == IF p = "investment" \/ n < 2 THEN 1 ELSE 2
    IN  IF n = 0 THEN {}
        ELSE IF NextSide(st, p) \notin briefed THEN Spoken(turns, 1, n)
        ELSE Spoken(turns, n - since + 1, n)
-----------------------------------------------------------------------------
(* Starting, ending and dying. *)

Init ==
    /\ journal = Nothing /\ tmp = Nothing /\ report = Nothing
    /\ decisions \in [Dates -> {"absent", "pending"}]
    /\ decisions[Own] = "absent"
    /\ launches = 0 /\ outcome = "none"
    /\ pc = "off" /\ phase = "analysts"
    /\ state = Nothing
    /\ briefed = {} /\ seen = [s \in Side |-> {}]
    /\ todo = {} /\ reflecting = Nothing
    /\ pump = "none"

\* The process is gone, and with it everything it held in memory.
Exit(how) ==
    /\ pc' = "off" /\ phase' = "analysts"
    /\ outcome' = how
    /\ state' = Nothing
    /\ briefed' = {} /\ seen' = [s \in Side |-> {}]
    /\ todo' = {} /\ reflecting' = Nothing
    /\ pump' = "none"
    /\ UNCHANGED launches

\* Mutant of TornFiles: the journal is written in place.
TornJournal ==
    /\ journal' \in (IF pc = "save" THEN {journal, Torn} ELSE {journal})
    /\ UNCHANGED <<tmp, report, decisions>>

\* The file that was being written is left torn.
TornFiles ==
    /\ tmp' \in (IF pc = "save" THEN {tmp, Torn} ELSE {tmp})
    /\ report' \in (IF pc \in {"sections", "whole"} THEN {report, Torn} ELSE {report})
    /\ UNCHANGED <<journal, decisions>>

\* run() begins and enters observing(): the observer attaches or cannot.
Launch ==
    /\ pc = "off"
    /\ launches' = IF launches < MaxLaunches THEN launches + 1 ELSE launches
    /\ pump' \in {"none", "running"}
    /\ pc' = "load"
    /\ UNCHANGED <<files, outcome, phase, state, debate, reflection>>

\* The observer's stream breaks; nobody looks at the task before the body ends.
PumpFails ==
    /\ pump = "running" /\ pc \in Observed
    /\ pump' = "failed"
    /\ UNCHANGED <<files, launches, outcome, pc, phase, state, debate, reflection>>

\* The process is killed.
Kill ==
    /\ pc # "off"
    /\ TornFiles
    /\ Exit("killed")

\* A session cannot be created, ends without an answer, or reports an error:
\* run() raises StageFailed, unless leaving observing() raises the pump's own.
StageFails ==
    /\ pc \in {"head", "asking"} /\ ~(pc = "head" /\ PhaseOver(state, phase))
    /\ Exit(IF pump = "failed" THEN "escaped" ELSE "stage_failed")
    /\ UNCHANGED files

\* Any other exception: a lost daemon, a tool budget that does not match, a
\* price source that raises, a session that cannot be left, a disk that refuses
\* a write.
Escapes ==
    /\ \/ pc \in {"reflect", "asking", "closing", "save", "replace"} \cup Delivering
       \/ pc = "resolve" /\ todo # {}
       \/ pc = "head" /\ ~PhaseOver(state, phase)
       \/ pc = "turn" /\ PhaseOver(state, phase)
    /\ TornFiles
    /\ Exit("escaped")

-----------------------------------------------------------------------------
(* Load or begin. *)

\* Mutant of Resume: the journal is found but not read.
ResumeForgets ==
    /\ pc = "load" /\ journal # Nothing
    /\ state' = EmptyState
    /\ pc' = "head"
    /\ UNCHANGED <<files, launches, outcome, phase, debate, reflection, pump>>

\* journal.load() finds a run: _replay, and on with what it lacks.
Resume ==
    /\ pc = "load" /\ journal # Nothing
    /\ state' = journal
    /\ pc' = "head"
    /\ UNCHANGED <<files, launches, outcome, phase, debate, reflection, pump>>

\* journal.load() finds none: the pending decisions are listed once.
StartFresh ==
    /\ pc = "load" /\ journal = Nothing
    /\ IF ResolvePending
       THEN pc' = "resolve" /\ todo' = {d \in Dates : decisions[d] = "pending"}
       ELSE pc' = "begin" /\ UNCHANGED todo
    /\ UNCHANGED <<files, launches, outcome, phase, state, debate, reflecting, pump>>

\* One entry of _resolve_pending: too few bars yet, or a reflector session.
TakePending ==
    /\ pc = "resolve"
    /\ \E d \in todo :
        /\ todo' = todo \ {d}
        /\ \/ UNCHANGED <<pc, reflecting>>
           \/ pc' = "reflect" /\ reflecting' = d
    /\ UNCHANGED <<files, launches, outcome, phase, state, debate, pump>>

\* Mutant of Reflected: a failed reflection is put back and tried again.
ReflectedRetries ==
    /\ pc = "reflect"
    /\ \/ decisions' = decisions /\ todo' = todo \cup {reflecting}
       \/ decisions' = [decisions EXCEPT ![reflecting] = "resolved"] /\ todo' = todo
    /\ pc' = "resolve" /\ reflecting' = Nothing
    /\ UNCHANGED <<journal, tmp, report, launches, outcome, phase, state, debate, pump>>

\* The reflector answers and memory.resolve runs, or its failure is absorbed.
Reflected ==
    /\ pc = "reflect"
    /\ \/ UNCHANGED decisions
       \/ decisions' = [decisions EXCEPT ![reflecting] =
                            IF @ = "pending" THEN "resolved" ELSE @]
    /\ pc' = "resolve" /\ reflecting' = Nothing
    /\ UNCHANGED <<journal, tmp, report, launches, outcome, phase, state, debate, todo, pump>>

PendingDone ==
    /\ pc = "resolve" /\ todo = {}
    /\ pc' = "begin"
    /\ UNCHANGED <<files, launches, outcome, phase, state, debate, reflection, pump>>

\* A new RunState, journaled before the first stage.
Begin ==
    /\ pc = "begin"
    /\ state' = EmptyState
    /\ pc' = "save"
    /\ UNCHANGED <<files, launches, outcome, phase, debate, reflection, pump>>

-----------------------------------------------------------------------------
(* The units of work. *)

\* The phase function returns: the next one is entered, its sessions closed.
NextPhase ==
    /\ pc \in {"head", "turn"} /\ PhaseOver(state, phase)
    /\ IF phase = "portfolio_manager"
       THEN pc' = "leave" /\ UNCHANGED phase
       ELSE pc' = "head" /\ phase' = PhaseAfter(phase)
    /\ briefed' = {} /\ seen' = [s \in Side |-> {}]
    /\ UNCHANGED <<files, launches, outcome, state, reflection, pump>>

\* An analyst's or a judge's session is opened and prompted.
OpenStage ==
    /\ pc = "head" /\ phase \notin Debates /\ ~PhaseOver(state, phase)
    /\ pc' = "asking"
    /\ UNCHANGED <<files, launches, outcome, phase, state, debate, reflection, pump>>

\* The sessions of a debate are opened; none of them has been briefed.
OpenDebate ==
    /\ pc = "head" /\ phase \in Debates /\ ~PhaseOver(state, phase)
    /\ briefed' = {} /\ seen' = [s \in Side |-> {}]
    /\ pc' = "turn"
    /\ UNCHANGED <<files, launches, outcome, phase, state, reflection, pump>>

\* The side whose turn it is gets its prompt.
Ask ==
    /\ pc = "turn" /\ ~PhaseOver(state, phase)
    /\ LET side == NextSide(state, phase)
       IN  /\ seen' = [seen EXCEPT ![side] = @ \cup Prompted(state, phase)]
           /\ briefed' = briefed \cup {side}
    /\ pc' = "asking"
    /\ UNCHANGED <<files, launches, outcome, phase, state, reflection, pump>>

\* The first analyst without a report completes: its report is in the state
\* while its session is still open ...
AnalystCompletes ==
    /\ pc = "asking" /\ phase = "analysts"
    /\ \E i \in Missing(state) :
        /\ \A j \in Missing(state) : i <= j
        /\ state' = [state EXCEPT !.reports[i] = launches]
    /\ pc' = "closing"
    /\ UNCHANGED <<files, launches, outcome, phase, debate, reflection, pump>>

\* Mutant of AnalystCloses: the report is not journaled.
AnalystClosesUnsaved ==
    /\ pc = "closing"
    /\ pc' = "head"
    /\ UNCHANGED <<files, launches, outcome, phase, state, debate, reflection, pump>>

\* ... and is saved when open_stage has been left.
AnalystCloses ==
    /\ pc = "closing"
    /\ pc' = "save"
    /\ UNCHANGED <<files, launches, outcome, phase, state, debate, reflection, pump>>

\* The speaker answers; its own words are in its session from now on.
TurnAnswered ==
    /\ pc = "asking" /\ phase \in Debates
    /\ state' = IF phase = "investment"
                THEN [state EXCEPT !.investment = Append(@, launches)]
                ELSE [state EXCEPT !.risk = Append(@, launches)]
    /\ seen' = [seen EXCEPT ![NextSide(state, phase)] =
                    @ \cup {<<Len(Turns(state, phase)) + 1, launches>>}]
    /\ pc' = "save"
    /\ UNCHANGED <<files, launches, outcome, phase, briefed, reflection, pump>>

\* A judge answers and its session is left before the verdict is in the state.
JudgeCompletes ==
    /\ pc = "asking" /\ phase \in Judges
    /\ state' = CASE phase = "research_manager" -> [state EXCEPT !.plan = launches]
                  [] phase = "trader" -> [state EXCEPT !.trader = launches]
                  [] OTHER -> [state EXCEPT !.decision = launches]
    /\ pc' = "save"
    /\ UNCHANGED <<files, launches, outcome, phase, debate, reflection, pump>>

\* journal.save: the whole state into the sibling file ...
WriteTmp ==
    /\ pc = "save"
    /\ tmp' = state
    /\ pc' = "replace"
    /\ UNCHANGED <<journal, decisions, report, launches, outcome, phase, state,
                   debate, reflection, pump>>

\* ... which then replaces the journal; a debate goes on in its open sessions.
ReplaceJournal ==
    /\ pc = "replace"
    /\ journal' = tmp /\ tmp' = Nothing
    /\ pc' = IF phase \in Debates THEN "turn" ELSE "head"
    /\ UNCHANGED <<decisions, report, launches, outcome, phase, state, debate,
                   reflection, pump>>

-----------------------------------------------------------------------------
(* Handing the results over. *)

\* Mutant of LeaveObserving: the decision is recorded and the report forgotten.
LeaveWithoutReport ==
    /\ pc = "leave" /\ pump # "failed"
    /\ pump' = "none"
    /\ pc' = "record"
    /\ UNCHANGED <<files, launches, outcome, phase, state, debate, reflection>>

\* observing() is left: its pump is cancelled ...
LeaveObserving ==
    /\ pc = "leave" /\ pump # "failed"
    /\ pump' = "none"
    /\ pc' = "sections"
    /\ UNCHANGED <<files, launches, outcome, phase, state, debate, reflection>>

\* ... but a pump that failed is awaited all the same, and its exception raised.
PumpRaises ==
    /\ pc = "leave" /\ pump = "failed"
    /\ Exit("escaped")
    /\ UNCHANGED files

\* write_report: the sections one after the other ...
WriteSections ==
    /\ pc = "sections"
    /\ report' = Torn
    /\ pc' = "whole"
    /\ UNCHANGED <<journal, tmp, decisions, launches, outcome, phase, state,
                   debate, reflection, pump>>

\* ... and report.md and state.json last.
WriteWhole ==
    /\ pc = "whole"
    /\ report' = state
    /\ pc' = "record"
    /\ UNCHANGED <<journal, tmp, decisions, launches, outcome, phase, state,
                   debate, reflection, pump>>

\* Mutant of Record: an entry of the same key is written over.
RecordAgain ==
    /\ pc = "record"
    /\ decisions' = IF RecordDecision THEN [decisions EXCEPT ![Own] = "pending"] ELSE decisions
    /\ pc' = "clear"
    /\ UNCHANGED <<journal, tmp, report, launches, outcome, phase, state, debate,
                   reflection, pump>>

\* memory.record leaves an entry of the same ticker and date as it is.
Record ==
    /\ pc = "record"
    /\ decisions' = IF RecordDecision /\ state.decision # 0 /\ decisions[Own] = "absent"
                    THEN [decisions EXCEPT ![Own] = "pending"]
                    ELSE decisions
    /\ pc' = "clear"
    /\ UNCHANGED <<journal, tmp, report, launches, outcome, phase, state, debate,
                   reflection, pump>>

\* The journal is deleted and run() returns.
Clear ==
    /\ pc = "clear"
    /\ journal' = Nothing
    /\ Exit("finished")
    /\ UNCHANGED <<tmp, decisions, report>>

-----------------------------------------------------------------------------
Driver ==
    \/ Resume \/ StartFresh \/ TakePending \/ Reflected \/ PendingDone \/ Begin
    \/ NextPhase \/ OpenStage \/ OpenDebate \/ Ask
    \/ AnalystCompletes \/ AnalystCloses \/ TurnAnswered \/ JudgeCompletes
    \/ WriteTmp \/ ReplaceJournal
    \/ LeaveObserving \/ PumpRaises \/ WriteSections \/ WriteWhole \/ Record \/ Clear

Faults == PumpFails \/ Kill \/ StageFails \/ Escapes

Next == Launch \/ Driver \/ Faults

Spec == Init /\ [][Next]_vars

\* A launch that ended is followed by another and the driver goes on while it
\* can; the faults stop at some time.
Fairness ==
    /\ WF_vars(Launch \/ Driver)
    /\ <>[][~Faults]_vars
=============================================================================
