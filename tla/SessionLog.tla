----------------------------- MODULE SessionLog -----------------------------
(***************************************************************************)
(* The account a run keeps of its sessions: sessions.py's _accounted, which *)
(* brackets every stage's session with a started and an ended line, the    *)
(* append-only file of sessionlog.py, and what its readers make of it      *)
(* (runview.survey, sweep._in_flight).                                     *)
(*                                                                         *)
(* A stage opens one session, a debate two or three inside each other; an  *)
(* exception unwinds them innermost first.  A write may be refused, or cut *)
(* short by a full disk or a kill: sessionlog.write swallows the error and *)
(* the next line is glued to what is there.                                *)
(***************************************************************************)
EXTENDS Integers, Sequences, FiniteSets

CONSTANTS
    MaxSessions,        \* bound: session ids are 1..MaxSessions
    StageNames,         \* of each width, the stages of its sessions in order
    Widths,             \* how many sessions a stage holds: 1, 2 or 3
    WithTools           \* widths of the stages that register host tools

ASSUME SessionAssumption ==
    /\ MaxSessions \in Nat
    /\ Widths \subseteq 1..3
    /\ WithTools \subseteq Widths
    /\ \A w \in Widths :
          /\ Len(StageNames[w]) = w
          /\ \A i, j \in 1..w : StageNames[w][i] = StageNames[w][j] => i = j

VARIABLES
    lines,              \* the lines of sessions.jsonl that parse
    tail,               \* how the file ends: whole, torn, or a line with no
                        \* newline yet (open)
    next,               \* the next session id
    stack,              \* sessions held by the driver, the innermost last
    width,              \* sessions the stage wants to hold
    pc,
    raised,             \* an exception is unwinding the stage
    fate,               \* how each session really ended
    writes              \* lines written, writes cut short, writes refused

file == <<lines, tail, writes>>
driver == <<next, stack, width, pc, raised, fate>>
sessionVars == <<file, driver>>

Sid == 1..MaxSessions
Stages == UNION {{StageNames[w][i] : i \in 1..w} : w \in Widths}
Costs == {"priced", "unpriced", "unmeasured"}
NoCost == "none"

\* Mutant of Innermost: the session opened first is closed first.
Outermost == stack[1]

Innermost == stack[Len(stack)]
Enclosing == SubSeq(stack, 1, Len(stack) - 1)

-----------------------------------------------------------------------------
(* sessionlog.write: one line appended, or what is left when that fails. *)

Glued == IF tail = "open" THEN SubSeq(lines, 1, Len(lines) - 1) ELSE lines

\* Mutant of Whole: the file is opened for writing, not for appending.
WholeAlone(line) ==
    /\ lines' = <<line>>
    /\ tail' = "whole"
    /\ writes' = [writes EXCEPT !.tried = @ + 1]

Whole(line) ==
    /\ lines' = IF tail = "whole" THEN Append(lines, line) ELSE Glued
    /\ tail' = "whole"
    /\ writes' = [writes EXCEPT !.tried = @ + 1]

\* Only a prefix reached the disk; all but the newline still reads as a line.
Torn(line) ==
    /\ \/ lines' = Glued /\ tail' = "torn"
       \/ tail = "whole" /\ lines' = Append(lines, line) /\ tail' = "open"
    /\ writes' = [writes EXCEPT !.tried = @ + 1, !.torn = @ + 1]

Refused ==
    /\ writes' = [writes EXCEPT !.tried = @ + 1, !.refused = @ + 1]
    /\ UNCHANGED <<lines, tail>>

Write(line) == Whole(line) \/ Torn(line) \/ Refused

Started(s, stage) ==
    [event |-> "started", sid |-> s, stage |-> stage, failed |-> FALSE, cost |-> NoCost]
\* Mutant of Ended: the failure is not written down.
EndedWell(s, stage, f, c) ==
    [event |-> "ended", sid |-> s, stage |-> stage, failed |-> FALSE, cost |-> c]
\* Mutant of Ended: the line does not name its stage.
EndedUnnamed(s, stage, f, c) ==
    [event |-> "ended", sid |-> s, failed |-> f, cost |-> c]
Ended(s, stage, f, c) ==
    [event |-> "ended", sid |-> s, stage |-> stage, failed |-> f, cost |-> c]

\* The stage that is opened next, and the one of the innermost session.
Opening == StageNames[width][Len(stack) + 1]
Closing == StageNames[width][Len(stack)]

-----------------------------------------------------------------------------
(* _accounted, for the sessions of one stage. *)

SessionInit ==
    /\ lines = <<>> /\ tail = "whole"
    /\ next = 1 /\ stack = <<>> /\ width = 0
    /\ pc = "idle" /\ raised = FALSE
    /\ fate = [s \in Sid |-> "none"]
    /\ writes = [tried |-> 0, torn |-> 0, refused |-> 0]

\* A stage begins; the driver may have been relaunched in between.
BeginStage ==
    /\ pc = "idle"
    /\ \E w \in Widths : next + w - 1 <= MaxSessions /\ width' = w
    /\ pc' = "entering"
    /\ UNCHANGED <<file, next, stack, raised, fate>>

\* A session is created and its started line written ...
Enter ==
    /\ pc = "entering"
    /\ Write(Started(next, Opening))
    /\ stack' = Append(stack, next)
    /\ fate' = [fate EXCEPT ![next] = "open"]
    /\ next' = next + 1
    /\ pc' = "checking"
    /\ UNCHANGED <<width, raised>>

\* ... or cannot be created.
EnterFails ==
    /\ pc = "entering"
    /\ pc' = "unwinding" /\ raised' = TRUE
    /\ UNCHANGED <<file, next, stack, width, fate>>

\* check_tool_budgets finds what it expects (nothing, for a stage with no host
\* tools): the session is the stage's to use.
BudgetsAgree ==
    /\ pc = "checking"
    /\ pc' = IF Len(stack) = width THEN "body" ELSE "entering"
    /\ UNCHANGED <<file, next, stack, width, raised, fate>>

\* It raises ToolBudgetMismatch, before the try that writes the ended line.
BudgetsDiffer ==
    /\ pc = "checking" /\ width \in WithTools
    /\ stack' = Enclosing
    /\ fate' = [fate EXCEPT ![Innermost] = "unaccounted"]
    /\ raised' = TRUE
    /\ pc' = "unwinding"
    /\ UNCHANGED <<file, next, width>>

\* The stage's work is done, or raised.
BodyEnds ==
    /\ pc = "body"
    /\ raised' \in BOOLEAN
    /\ pc' = "unwinding"
    /\ UNCHANGED <<file, next, stack, width, fate>>

\* The innermost session is measured, its ended line written, and it is let
\* go, which may raise.
Leave ==
    /\ pc = "unwinding" /\ stack # <<>>
    /\ \E cost \in Costs : Write(Ended(Innermost, Closing, raised, cost))
    /\ fate' = [fate EXCEPT ![Innermost] = IF raised THEN "raised" ELSE "answered"]
    /\ stack' = Enclosing
    /\ raised' \in {raised, TRUE}
    /\ UNCHANGED <<next, width, pc>>

\* Measuring raises what _consumption does not expect, a cancellation say: the
\* arguments of the write are never complete.
LeaveUnmeasured ==
    /\ pc = "unwinding" /\ stack # <<>>
    /\ fate' = [fate EXCEPT ![Innermost] = "unaccounted"]
    /\ stack' = Enclosing
    /\ raised' = TRUE
    /\ UNCHANGED <<file, next, width, pc>>

StageOver ==
    /\ pc = "unwinding" /\ stack = <<>>
    /\ pc' = "idle" /\ raised' = FALSE
    /\ UNCHANGED <<file, next, stack, width, fate>>

\* The driver is killed, perhaps while it writes a line.
Killed ==
    /\ pc # "idle"
    /\ \/ UNCHANGED file
       \/ pc = "entering" /\ Torn(Started(next, Opening))
       \/ pc = "unwinding" /\ stack # <<>> /\ Torn(Ended(Innermost, Closing, raised, "unpriced"))
    /\ fate' = [s \in Sid |-> IF \E i \in DOMAIN stack : stack[i] = s
                              THEN "killed" ELSE fate[s]]
    /\ next' = IF pc = "entering" THEN next + 1 ELSE next
    /\ stack' = <<>> /\ pc' = "idle" /\ raised' = FALSE
    /\ UNCHANGED width

SessionNext ==
    \/ BeginStage \/ Enter \/ EnterFails \/ BudgetsAgree \/ BudgetsDiffer
    \/ BodyEnds \/ Leave \/ LeaveUnmeasured \/ StageOver \/ Killed

SessionSpec == SessionInit /\ [][SessionNext]_sessionVars

-----------------------------------------------------------------------------
(* What the readers make of the file. *)

LinesOf(event) == {i \in DOMAIN lines : lines[i].event = event}
EndOf(s) == {i \in LinesOf("ended") : lines[i].sid = s}

\* runview.survey: the state of a session that has a started line.
Shown(s) ==
    IF EndOf(s) = {} THEN "RUNNING"
    ELSE IF \E i \in EndOf(s) : lines[i].failed THEN "FAILED" ELSE "DONE"

\* sweep._in_flight: a cell is running when its last line opened a session.
CellOpen == lines # <<>> /\ lines[Len(lines)].event = "started"

-----------------------------------------------------------------------------
(* Properties. *)

\* Every variable has the shape the code gives it.
SessionTypeOK ==
    /\ lines \in Seq([event : {"started", "ended"}, sid : Sid, stage : Stages,
                      failed : BOOLEAN, cost : Costs \cup {NoCost}])
    /\ tail \in {"whole", "torn", "open"}
    /\ next \in 1..(MaxSessions + 1)
    /\ stack \in Seq(Sid) /\ Len(stack) <= width
    /\ width \in {0} \cup Widths
    /\ pc \in {"idle", "entering", "checking", "body", "unwinding"}
    /\ raised \in BOOLEAN
    /\ fate \in [Sid -> {"none", "open", "answered", "raised", "unaccounted", "killed"}]
    /\ writes \in [tried : Nat, torn : Nat, refused : Nat]

\* Whatever lines are lost, those that are left bracket the sessions: one of a
\* kind for each, started before ended, and two sessions that overlap are
\* inside each other, so a reader may pair them.
LinesBracket ==
    \A i, j \in DOMAIN lines :
        /\ lines[i].sid = lines[j].sid /\ i < j =>
              lines[i].event = "started" /\ lines[j].event = "ended"
        /\ lines[i].event = "started" /\ lines[j].event = "started" /\ i < j =>
              \A m \in EndOf(lines[i].sid), n \in EndOf(lines[j].sid) : j < m => n < m

\* The page never shows an end a session did not have: done only when its stage
\* answered, failed only when it raised, and while no line was lost a session
\* is left running, or a sweep's cell in flight, only if it is, or its driver
\* was interrupted.
ShownAsItWas ==
    /\ CellOpen /\ writes.torn = 0 /\ writes.refused = 0 =>
          fate[lines[Len(lines)].sid] \in {"open", "killed", "unaccounted"}
    /\ \A i \in LinesOf("started") :
          LET s == lines[i].sid
          IN  /\ Shown(s) = "DONE" => fate[s] \in {"answered", "killed"}
              /\ Shown(s) = "FAILED" => fate[s] \in {"raised", "killed"}
              /\ Shown(s) = "RUNNING" /\ writes.torn = 0 /\ writes.refused = 0 =>
                    fate[s] \in {"open", "killed", "unaccounted"}

\* A write cut short loses at most two lines, itself and the one glued to it;
\* a refused one only itself.
LossIsBounded ==
    writes.tried - Len(lines) <= 2 * writes.torn + writes.refused

-----------------------------------------------------------------------------
(* A statement of the sources the code does not keep. *)

\* sessions.py: the ended line "is written for a stage that raised too".
EveryEndIsWritten ==
    \A s \in Sid : fate[s] # "unaccounted"
=============================================================================
