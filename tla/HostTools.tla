------------------------------ MODULE HostTools ------------------------------
(***************************************************************************)
(* The calls of a host tool (tools.py, data.py): the daemon holds each call *)
(* to a budget, the driver answers it under a deadline derived from that    *)
(* budget (tools._spec, data.with_deadline) with a worker thread that       *)
(* cannot be killed, and the tool of the calls, get_verified_snapshot,      *)
(* records the facts in the run state's evidence before it returns them.    *)
(*                                                                         *)
(* The daemon and the transport are external: a call is answered by what    *)
(* reaches the daemon first, the driver's answer, at most TripMax after it  *)
(* was sent, or the daemon's own error once the budget is over.  Time is    *)
(* counted in ticks; the daemon's clock starts when the call is made.       *)
(***************************************************************************)
EXTENDS Integers, Sequences, FiniteSets

CONSTANTS
    Calls,              \* the calls of one run
    Budget,             \* the daemon's budget for a call of this tool
    Margin,             \* HANDOFF_MARGIN_S
    TripMax             \* how long the call's two trips take at most, together

ASSUME HostAssumption ==
    /\ Budget \in Nat /\ Margin \in Nat /\ TripMax \in Nat

VARIABLES
    age,                \* ticks since the daemon made each call
    trip,               \* ticks the call and its answer have been on their way
    spent,              \* ticks since its handler began
    call,               \* where each call is, seen from the driver
    worker,             \* the worker thread of each call
    answer,             \* what with_deadline returns
    given,              \* what the model was handed
    evidence            \* the calls whose facts are recorded, in order

clocks == <<age, trip, spent>>
hostVars == <<clocks, call, worker, answer, given, evidence>>

Nothing == "nothing"
Recorded == {evidence[i] : i \in DOMAIN evidence}

\* Mutant of Deadline: the whole budget is the handler's.
WholeBudget == Budget

\* handler_deadline_s raises for a spec whose budget leaves no room: a run with
\* such a spec never registers its tools.
Deadline == Budget - Margin
Registers == Deadline > 0

-----------------------------------------------------------------------------
HostInit ==
    /\ age = [c \in Calls |-> 0] /\ trip = [c \in Calls |-> 0]
    /\ spent = [c \in Calls |-> 0]
    /\ call = [c \in Calls |-> "none"]
    /\ worker = [c \in Calls |-> "none"]
    /\ answer = [c \in Calls |-> Nothing]
    /\ given = [c \in Calls |-> Nothing]
    /\ evidence = <<>>

\* The model calls the tool, several calls at once if it likes.
MakeCall(c) ==
    /\ Registers /\ call[c] = "none"
    /\ call' = [call EXCEPT ![c] = "going"]
    /\ UNCHANGED <<clocks, worker, answer, given, evidence>>

\* The call reaches the driver: guarded submits the handler to a thread.
Handle(c) ==
    /\ call[c] = "going"
    /\ call' = [call EXCEPT ![c] = "waiting"]
    /\ worker' = [worker EXCEPT ![c] = "fetching"]
    /\ UNCHANGED <<clocks, answer, given, evidence>>

\* snapshot() has its facts and records them, whoever still waits for them ...
WorkerRecords(c) ==
    /\ worker[c] = "fetching"
    /\ evidence' = Append(evidence, c)
    /\ worker' = [worker EXCEPT ![c] = "rendering"]
    /\ UNCHANGED <<clocks, call, answer, given>>

\* Mutant of WorkerReturns: facts may be returned that were never recorded.
ReturnsUnrecorded(c) ==
    /\ worker[c] \in {"fetching", "rendering"}
    /\ worker' = [worker EXCEPT ![c] = "done"]
    /\ IF call[c] = "waiting"
       THEN call' = [call EXCEPT ![c] = "coming"] /\ answer' = [answer EXCEPT ![c] = "facts"]
       ELSE UNCHANGED <<call, answer>>
    /\ UNCHANGED <<clocks, given, evidence>>

\* ... and returns them: the answer, if it is still waited for.
WorkerReturns(c) ==
    /\ worker[c] = "rendering"
    /\ worker' = [worker EXCEPT ![c] = "done"]
    /\ IF call[c] = "waiting"
       THEN call' = [call EXCEPT ![c] = "coming"] /\ answer' = [answer EXCEPT ![c] = "facts"]
       ELSE UNCHANGED <<call, answer>>
    /\ UNCHANGED <<clocks, given, evidence>>

\* Mutant of WorkerFails: the failure is raised to the caller.
WorkerRaises(c) ==
    /\ worker[c] \in {"fetching", "rendering"} /\ call[c] = "waiting"
    /\ worker' = [worker EXCEPT ![c] = "done"]
    /\ call' = [call EXCEPT ![c] = "coming"]
    /\ answer' = [answer EXCEPT ![c] = "raised"]
    /\ UNCHANGED <<clocks, given, evidence>>

\* The source failed before or after the facts were complete: a sentence is
\* the answer.
WorkerFails(c) ==
    /\ worker[c] \in {"fetching", "rendering"}
    /\ worker' = [worker EXCEPT ![c] = "done"]
    /\ IF call[c] = "waiting"
       THEN call' = [call EXCEPT ![c] = "coming"]
            /\ answer' = [answer EXCEPT ![c] = "unavailable"]
       ELSE UNCHANGED <<call, answer>>
    /\ UNCHANGED <<clocks, given, evidence>>

\* Mutant of DeadlineFires: the executor is shut down with wait=True.
DeadlineWaits(c) ==
    /\ call[c] = "waiting" /\ spent[c] >= Deadline /\ worker[c] = "done"
    /\ call' = [call EXCEPT ![c] = "coming"]
    /\ answer' = [answer EXCEPT ![c] = "unavailable"]
    /\ UNCHANGED <<clocks, worker, given, evidence>>

\* with_deadline stops waiting; the worker goes on.
DeadlineFires(c) ==
    /\ call[c] = "waiting" /\ spent[c] >= Deadline
    /\ call' = [call EXCEPT ![c] = "coming"]
    /\ answer' = [answer EXCEPT ![c] = "unavailable"]
    /\ UNCHANGED <<clocks, worker, given, evidence>>

\* The answer reaches the daemon, in time or not.
Arrive(c) ==
    /\ call[c] = "coming"
    /\ call' = [call EXCEPT ![c] = "answered"]
    /\ given' = [given EXCEPT ![c] = IF @ = Nothing THEN answer[c] ELSE @]
    /\ UNCHANGED <<clocks, worker, answer, evidence>>

\* The daemon's budget is over: the model is handed an error.
DaemonTimesOut(c) ==
    /\ call[c] \in {"going", "waiting", "coming"} /\ age[c] >= Budget
    /\ given[c] = Nothing
    /\ given' = [given EXCEPT ![c] = "error"]
    /\ UNCHANGED <<clocks, call, worker, answer, evidence>>

\* Time passes while no timer is due and nobody's trip is overdue.
Tick ==
    /\ \E c \in Calls : call[c] \in {"going", "waiting", "coming"}
    /\ \A c \in Calls :
        /\ call[c] \in {"going", "coming"} => trip[c] < TripMax
        /\ call[c] = "waiting" => spent[c] < Deadline
        /\ call[c] \in {"going", "waiting", "coming"} =>
              age[c] < Budget \/ given[c] # Nothing
    /\ age' = [c \in Calls |-> IF call[c] \in {"going", "waiting", "coming"}
                               THEN age[c] + 1 ELSE age[c]]
    /\ trip' = [c \in Calls |-> IF call[c] \in {"going", "coming"}
                                THEN trip[c] + 1 ELSE trip[c]]
    /\ spent' = [c \in Calls |-> IF call[c] = "waiting" THEN spent[c] + 1 ELSE spent[c]]
    /\ UNCHANGED <<call, worker, answer, given, evidence>>

Step(c) ==
    \/ MakeCall(c) \/ Handle(c) \/ WorkerRecords(c) \/ WorkerReturns(c) \/ WorkerFails(c)
    \/ DeadlineFires(c) \/ Arrive(c) \/ DaemonTimesOut(c)

HostNext == Tick \/ \E c \in Calls : Step(c)

HostSpec == HostInit /\ [][HostNext]_hostVars

\* Time goes on, a due timer fires and a message arrives; a worker need not
\* ever end.
HostFairSpec ==
    /\ HostSpec
    /\ WF_hostVars(Tick)
    /\ \A c \in Calls : WF_hostVars(Handle(c) \/ DeadlineFires(c) \/ Arrive(c))

-----------------------------------------------------------------------------
(* Properties. *)

\* Every variable has the shape the code gives it.
HostTypeOK ==
    /\ age \in [Calls -> Nat] /\ trip \in [Calls -> Nat] /\ spent \in [Calls -> Nat]
    /\ call \in [Calls -> {"none", "going", "waiting", "coming", "answered"}]
    /\ worker \in [Calls -> {"none", "fetching", "rendering", "done"}]
    /\ answer \in [Calls -> {Nothing, "facts", "unavailable"}]
    /\ given \in [Calls -> {Nothing, "facts", "unavailable", "error"}]
    /\ evidence \in Seq(Calls)

\* However long the source stalls, the model is handed facts or a sentence and
\* not the daemon's transport error, unless the trips of the call alone took as
\* long as the margin: the deadline leaves the answer all the room it was given.
NoTransportError ==
    \A c \in Calls : given[c] = "error" => trip[c] >= Margin

\* What a conformance check reads from the evidence is never too little: facts
\* a model was handed are there, once.
GivenIsRecorded ==
    \A c \in Calls :
        /\ given[c] = "facts" => c \in Recorded
        /\ Cardinality({i \in DOMAIN evidence : evidence[i] = c}) <= 1

\* Every call is answered, even one whose worker never ends.
EveryCallIsAnswered ==
    \A c \in Calls : call[c] = "going" ~> given[c] # Nothing
=============================================================================
