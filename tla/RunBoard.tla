------------------------------ MODULE RunBoard ------------------------------
(***************************************************************************)
(* The board a run is watched on: BoardState of ta_cascade/board.py, as    *)
(* the driver of Pipeline writes to it (plan_of, _replay and every start,  *)
(* finish and close in pipeline.py).                                       *)
(*                                                                         *)
(* The board belongs to the launch; its last frame stays on the screen     *)
(* when the process is gone.  Each step is an action of Pipeline with what *)
(* it does to the board: the two are one process.                          *)
(***************************************************************************)
EXTENDS PipelineProps

VARIABLES
    board,              \* the state of each step, "absent" if not declared
    verdict             \* "open" until the board is closed

boardVars == <<vars, board, verdict>>

\* Steps are keyed by phase and number; 0 is a judge, or a debate as a whole.
TurnKeys(p) == {<<p, t>> : t \in 1..TotalTurns(p)}
UnitKeys ==
    {<<"analysts", i>> : i \in 1..NAnalysts}
      \cup (UNION {TurnKeys(p) : p \in Debates})
      \cup {<<p, 0>> : p \in Judges}
DebateKeys == {<<p, 0>> : p \in Debates}
ReflectorKeys == {<<"reflector", d>> : d \in Dates}

\* plan_of
Planned == UnitKeys \cup DebateKeys
Steps == Planned \cup ReflectorKeys

StepState == {"absent", "pending", "running", "done", "failed"}

-----------------------------------------------------------------------------
(* What the driver calls. *)

Start(k) == board' = [board EXCEPT ![k] = "running"] /\ UNCHANGED verdict
Finish(k) == board' = [board EXCEPT ![k] = "done"] /\ UNCHANGED verdict
FinishFailed(k) == board' = [board EXCEPT ![k] = "failed"] /\ UNCHANGED verdict
Untouched == UNCHANGED <<board, verdict>>

\* Mutants of Closed: an unknown state; no change.
ClosedStopped(b) == [k \in Steps |-> IF b[k] = "running" THEN "stopped" ELSE b[k]]
ClosedAsItIs(b) == b

\* close: nothing is claimed to be running any more.
Closed(b) == [k \in Steps |-> IF b[k] = "running" THEN "failed" ELSE b[k]]

\* The keys whose product st holds.
HeldKeys(st) ==
    {<<"analysts", i>> : i \in Held(st)}
      \cup (UNION {{<<p, t>> : t \in 1..Len(Turns(st, p))} : p \in Debates})
      \cup {<<p, 0>> : p \in {q \in Judges : Verdict(st, q) # 0}}

\* Mutant of Replay: a resumed run draws everything as pending.
ReplayNothing(st) == UNCHANGED board

\* _replay finishes what the journal holds, a debate as soon as it has a turn.
Replay(st) ==
    LET done == HeldKeys(st) \cup {<<p, 0>> : p \in {q \in Debates : Turns(st, q) # <<>>}}
    IN  board' = [k \in Steps |-> IF k \in done THEN "done" ELSE board[k]]

\* The step of the unit being asked for.
AskedKey ==
    IF phase = "analysts"
    THEN <<phase, CHOOSE i \in Missing(state) : \A j \in Missing(state) : i <= j>>
    ELSE <<phase, IF phase \in Debates THEN Len(Turns(state, phase)) + 1 ELSE 0>>

\* The step of the analyst that has just completed: the last one with a report.
LatestKey ==
    <<"analysts", CHOOSE i \in Held(state) : \A j \in Held(state) : j <= i>>

-----------------------------------------------------------------------------
BoardInit ==
    /\ Init
    /\ board = [k \in Steps |-> "absent"]
    /\ verdict = "open"

\* A new board, planned before anything else happens.
BLaunch ==
    /\ Launch
    /\ board' = [k \in Steps |-> IF k \in Planned THEN "pending" ELSE "absent"]
    /\ verdict' = "open"

BResume == Resume /\ Replay(journal) /\ UNCHANGED verdict

BTakePending ==
    /\ TakePending
    /\ IF pc' = "reflect" THEN Start(<<"reflector", reflecting'>>) ELSE Untouched

BReflected ==
    /\ Reflected
    /\ IF decisions' # decisions
       THEN Finish(<<"reflector", reflecting>>)
       ELSE FinishFailed(<<"reflector", reflecting>>)

\* A debate whose turns were spoken here is finished, its sessions closed; a
\* phase that had nothing to do touches nothing.
BNextPhase ==
    /\ NextPhase
    /\ IF pc = "turn" THEN Finish(<<phase, 0>>) ELSE Untouched

\* Mutant of BOpenDebate: only the turns are drawn at work.
BOpenDebateSilently == OpenDebate /\ Untouched

BOpenStage == OpenStage /\ Start(AskedKey)
BOpenDebate == OpenDebate /\ Start(<<phase, 0>>)
BAsk == Ask /\ Start(AskedKey)

\* A turn or a verdict is put into the state and its step finished at once ...
BAnswer ==
    /\ TurnAnswered \/ JudgeCompletes
    /\ Finish(AskedKey)

\* ... an analyst's step only when its session has been left.
BAnalystCloses == AnalystCloses /\ Finish(LatestKey)

\* A session that cannot be opened fails a step that was started before.
Begun ==
    IF pc = "head"
    THEN [board EXCEPT ![IF phase \in Debates THEN <<phase, 0>> ELSE AskedKey] = "running"]
    ELSE board

\* run() closes the board for the failures it knows ...
BStageFails ==
    /\ StageFails
    /\ board' = Closed(Begun) /\ verdict' = "stopped"

\* ... not for another exception, the pump's own, or a kill.
BEscapes == Escapes /\ board' = Begun /\ UNCHANGED verdict
BPumpRaises == PumpRaises /\ Untouched
BKill ==
    /\ Kill
    /\ board' \in (IF pc = "head" /\ PhaseOver(state, phase) THEN {board} ELSE {board, Begun})
    /\ UNCHANGED verdict

BClear == Clear /\ board' = Closed(board) /\ verdict' = "rating"

\* The steps of the driver that are none of the board's business.
BOther ==
    /\ \/ StartFresh \/ PendingDone \/ Begin
       \/ AnalystCompletes \/ WriteTmp \/ ReplaceJournal
       \/ LeaveObserving \/ WriteSections \/ WriteWhole \/ Record \/ PumpFails
    /\ Untouched

BoardNext ==
    \/ BLaunch \/ BResume \/ BTakePending \/ BReflected
    \/ BNextPhase \/ BOpenStage \/ BOpenDebate \/ BAsk \/ BAnswer \/ BAnalystCloses
    \/ BStageFails \/ BEscapes \/ BPumpRaises \/ BKill \/ BClear \/ BOther

BoardSpec == BoardInit /\ [][BoardNext]_boardVars

-----------------------------------------------------------------------------
(* Properties. *)

\* The board's variables have the shape the code gives them.
BoardTypeOK ==
    /\ board \in [Steps -> StepState]
    /\ verdict \in {"open", "stopped", "rating"}

\* While the driver lives, nothing is shown done that the run does not hold, a
\* resumed run's units included.  What it holds is shown done, but for a report
\* whose session is still being left: it is shown at work, and not in the
\* journal yet.
BoardTellsTheRun ==
    state # Nothing =>
        \A k \in UnitKeys :
            /\ board[k] = "done" => k \in HeldKeys(state)
            /\ k \in HeldKeys(state) /\ board[k] # "done" =>
                  pc = "closing" /\ board[k] = "running" /\ k \notin HeldKeys(journal)

\* While a session is asked, exactly that unit is shown at work, with the debate
\* it is a turn of, however the debate was come to.
BoardShowsTheWork ==
    pc = "asking" =>
        {k \in Planned : board[k] = "running"} =
            {AskedKey} \cup (IF phase \in Debates THEN {<<phase, 0>>} ELSE {})

\* A run that finished shows every step of its plan done, but for the heading of
\* a debate that has no turns, which nothing starts; one that stopped for a
\* reason run() knows shows none at work.
BoardAtTheEnd ==
    pc = "off" /\ verdict # "open" =>
        /\ outcome = "finished" =>
              \A k \in Planned :
                  board[k] = IF k \in {<<p, 0>> : p \in {q \in Debates : TotalTurns(q) = 0}}
                             THEN "pending" ELSE "done"
        /\ \A k \in Steps : board[k] # "running"
=============================================================================
