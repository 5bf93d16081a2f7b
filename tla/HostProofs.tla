----------------------------- MODULE HostProofs -----------------------------
(***************************************************************************)
(* The deadline arithmetic of HostTools, for every budget, margin and set   *)
(* of calls: a call's age is the time of its trips and of its handler, and  *)
(* the handler is bounded by the deadline.  Then its evidence: a call is    *)
(* recorded by its worker, once, before anything is answered from it.       *)
(***************************************************************************)
EXTENDS HostTools, FiniteSetTheorems, TLAPS

\* The clocks and the places of a call, as far as the deadline is concerned.
Timed ==
    /\ age \in [Calls -> Nat] /\ trip \in [Calls -> Nat] /\ spent \in [Calls -> Nat]
    /\ call \in [Calls -> {"none", "going", "waiting", "coming", "answered"}]
    /\ answer \in [Calls -> {Nothing, "facts", "unavailable"}]
    /\ given \in [Calls -> {Nothing, "facts", "unavailable", "error"}]
    /\ \A c \in Calls : age[c] = trip[c] + spent[c]

\* The invariant: no handler is waited for beyond the deadline, without the room
\* a deadline needs no call is made, and an error is the trips' doing.
InTime ==
    /\ Timed
    /\ \A c \in Calls :
        /\ spent[c] <= Deadline \/ spent[c] = 0
        /\ call[c] # "none" => Deadline > 0
        /\ call[c] = "none" => spent[c] = 0
        /\ given[c] = "error" => trip[c] >= Margin

\* Before the first call every clock is at zero.
LEMMA InitInTime == HostInit => InTime
  BY HostAssumption DEF HostInit, InTime, Timed, Nothing

\* A step of one call moves no clock; when the daemon's timer is due, what the
\* handler did not spend of the budget is the margin at least, and went on trips.
LEMMA StepInTime ==
  ASSUME InTime, NEW c \in Calls, Step(c)
  PROVE  InTime'
<1> USE HostAssumption DEF InTime, Timed
<1>1. CASE MakeCall(c)
  BY <1>1 DEF MakeCall, clocks, Registers, Deadline
<1>2. CASE Handle(c)
  BY <1>2 DEF Handle, clocks, Deadline
<1>3. CASE WorkerRecords(c)
  BY <1>3 DEF WorkerRecords, clocks, Deadline
<1>4. CASE WorkerReturns(c)
  BY <1>4 DEF WorkerReturns, clocks, Deadline
<1>5. CASE WorkerFails(c)
  BY <1>5 DEF WorkerFails, clocks, Deadline
<1>6. CASE DeadlineFires(c)
  BY <1>6 DEF DeadlineFires, clocks, Deadline
<1>7. CASE Arrive(c)
  <2>1. answer[c] # "error"
    BY DEF Nothing
  <2>2. \A d \in Calls : given'[d] = "error" => trip[d] >= Margin
    BY <1>7, <2>1 DEF Arrive
  <2>3. given' \in [Calls -> {Nothing, "facts", "unavailable", "error"}]
    BY <1>7 DEF Arrive
  <2> QED
    BY <1>7, <2>2, <2>3 DEF Arrive, clocks, Deadline
<1>8. CASE DaemonTimesOut(c)
  <2>1. call[c] # "none" /\ age[c] >= Budget
    BY <1>8 DEF DaemonTimesOut
  <2>2. spent[c] <= Budget - Margin
    BY <2>1 DEF Deadline
  <2>3. trip[c] >= Margin
    BY <2>1, <2>2
  <2>4. given' = [given EXCEPT ![c] = "error"]
    BY <1>8 DEF DaemonTimesOut
  <2> QED
    BY <1>8, <2>3, <2>4 DEF DaemonTimesOut, clocks, Deadline
<1> QED
  BY <1>1, <1>2, <1>3, <1>4, <1>5, <1>6, <1>7, <1>8 DEF Step

\* Time passes only while no deadline is overdue.
LEMMA TickInTime ==
  ASSUME InTime, Tick
  PROVE  InTime'
<1>1. ASSUME NEW c \in Calls
      PROVE  /\ age'[c] = trip'[c] + spent'[c]
             /\ given[c] = "error" => trip'[c] >= Margin
             /\ spent'[c] <= Deadline \/ spent'[c] = 0
             /\ call[c] = "none" => spent'[c] = 0
  BY <1>1, HostAssumption DEF InTime, Timed, Tick, Deadline
<1>2. age' \in [Calls -> Nat] /\ trip' \in [Calls -> Nat] /\ spent' \in [Calls -> Nat]
  BY DEF InTime, Timed, Tick
<1>3. given' = given /\ call' = call /\ answer' = answer
  BY DEF Tick
<1> QED
  BY <1>1, <1>2, <1>3 DEF InTime, Timed, Deadline

\* The model is never handed the daemon's transport error (tools.handler_deadline_s,
\* data.with_deadline) unless a call's trips took as long as HANDOFF_MARGIN_S,
\* whatever the budget, the number of calls and the time their sources take.
THEOREM NoTransportErrorEver == HostSpec => []NoTransportError
<1>1. HostInit => InTime
  BY InitInTime
<1>2. InTime /\ [HostNext]_hostVars => InTime'
  <2> SUFFICES ASSUME InTime, [HostNext]_hostVars PROVE InTime'
    OBVIOUS
  <2>1. CASE Tick
    BY <2>1, TickInTime
  <2>2. ASSUME NEW c \in Calls, Step(c) PROVE InTime'
    BY <2>2, StepInTime
  <2>3. CASE UNCHANGED hostVars
    BY <2>3 DEF hostVars, clocks, InTime, Timed, Deadline
  <2> QED
    BY <2>1, <2>2, <2>3 DEF HostNext
<1>3. InTime => NoTransportError
  BY DEF InTime, NoTransportError
<1> QED
  BY <1>1, <1>2, <1>3, PTL DEF HostSpec
-----------------------------------------------------------------------------
(* The evidence. *)

\* The invariant: a call is in the evidence from the moment its worker has put
\* it there, no call is there twice, and facts are only answered from there.
Once ==
    /\ HostTypeOK
    /\ \A c \in Calls :
        /\ call[c] \in {"none", "going"} => worker[c] = "none"
        /\ worker[c] \in {"none", "fetching"} => c \notin Recorded
        /\ worker[c] = "rendering" => c \in Recorded
        /\ answer[c] = "facts" => c \in Recorded
        /\ given[c] = "facts" => c \in Recorded
    /\ \A i, j \in DOMAIN evidence : evidence[i] = evidence[j] => i = j

\* The evidence of a longer list: one call more.
LEMMA RecordsOneMore ==
  ASSUME NEW c \in Calls, evidence \in Seq(Calls), evidence' = Append(evidence, c)
  PROVE  /\ evidence' \in Seq(Calls)
         /\ Recorded' = Recorded \cup {c}
         /\ DOMAIN evidence' = DOMAIN evidence \cup {Len(evidence) + 1}
         /\ evidence'[Len(evidence) + 1] = c
         /\ \A i \in DOMAIN evidence : evidence'[i] = evidence[i] /\ i # Len(evidence) + 1
  BY DEF Recorded

\* Nothing is recorded before the first call.
LEMMA InitOnce == HostInit => Once
  BY DEF HostInit, Once, HostTypeOK, Recorded, Nothing

\* A step of a call that leaves the evidence alone.
LEMMA QuietOnce ==
  ASSUME Once, NEW c \in Calls,
         \/ MakeCall(c) \/ Handle(c) \/ WorkerReturns(c) \/ WorkerFails(c)
         \/ DeadlineFires(c) \/ Arrive(c) \/ DaemonTimesOut(c)
  PROVE  Once'
<1>1. evidence' = evidence /\ Recorded' = Recorded
  BY DEF MakeCall, Handle, WorkerReturns, WorkerFails, DeadlineFires, Arrive,
         DaemonTimesOut, Recorded
<1>2. UNCHANGED clocks
  BY DEF MakeCall, Handle, WorkerReturns, WorkerFails, DeadlineFires, Arrive, DaemonTimesOut
<1> USE DEF Once, HostTypeOK, clocks
<1>3. CASE MakeCall(c)
  BY <1>1, <1>2, <1>3 DEF MakeCall
<1>4. CASE Handle(c)
  BY <1>1, <1>2, <1>4 DEF Handle
<1>5. CASE WorkerReturns(c)
  BY <1>1, <1>2, <1>5, ZenonT(60) DEF WorkerReturns
<1>6. CASE WorkerFails(c)
  BY <1>1, <1>2, <1>6, ZenonT(60) DEF WorkerFails, Nothing
<1>7. CASE DeadlineFires(c)
  BY <1>1, <1>2, <1>7 DEF DeadlineFires, Nothing
<1>8. CASE Arrive(c)
  BY <1>1, <1>2, <1>8 DEF Arrive
<1>9. CASE DaemonTimesOut(c)
  BY <1>1, <1>2, <1>9 DEF DaemonTimesOut, Nothing
<1> QED
  BY <1>3, <1>4, <1>5, <1>6, <1>7, <1>8, <1>9

\* The worker records its call, which nobody has recorded before it.
LEMMA RecordsOnce ==
  ASSUME Once, NEW c \in Calls, WorkerRecords(c)
  PROVE  Once'
<1>1. evidence \in Seq(Calls) /\ evidence' = Append(evidence, c)
  BY DEF Once, HostTypeOK, WorkerRecords
<1>2. /\ evidence' \in Seq(Calls) /\ Recorded' = Recorded \cup {c}
      /\ DOMAIN evidence' = DOMAIN evidence \cup {Len(evidence) + 1}
      /\ evidence'[Len(evidence) + 1] = c
      /\ \A i \in DOMAIN evidence : evidence'[i] = evidence[i] /\ i # Len(evidence) + 1
  BY <1>1, RecordsOneMore
<1>3. \A i \in DOMAIN evidence : evidence[i] # c
  BY DEF Once, WorkerRecords, Recorded
<1>4. ASSUME NEW i \in DOMAIN evidence', NEW j \in DOMAIN evidence', evidence'[i] = evidence'[j]
      PROVE  i = j
  BY <1>2, <1>3, <1>4 DEF Once
<1>5. HostTypeOK'
  BY <1>2 DEF Once, HostTypeOK, WorkerRecords, clocks
<1>6. ASSUME NEW d \in Calls
      PROVE  /\ call'[d] \in {"none", "going"} => worker'[d] = "none"
             /\ worker'[d] \in {"none", "fetching"} => d \notin Recorded'
             /\ worker'[d] = "rendering" => d \in Recorded'
             /\ answer'[d] = "facts" => d \in Recorded'
             /\ given'[d] = "facts" => d \in Recorded'
  BY <1>2 DEF Once, HostTypeOK, WorkerRecords, clocks
<1> QED
  BY <1>4, <1>5, <1>6 DEF Once

\* Time passes over the evidence.
LEMMA TickOnce ==
  ASSUME Once, Tick
  PROVE  Once'
<1>1. Recorded' = Recorded
  BY DEF Tick, Recorded
<1>2. age' \in [Calls -> Nat] /\ trip' \in [Calls -> Nat] /\ spent' \in [Calls -> Nat]
  BY DEF Once, HostTypeOK, Tick
<1> QED
  BY <1>1, <1>2 DEF Once, HostTypeOK, Tick

\* A list without repetitions has each of its members at one place.
LEMMA OnePlace ==
  ASSUME \A i, j \in DOMAIN evidence : evidence[i] = evidence[j] => i = j, NEW c
  PROVE  Cardinality({i \in DOMAIN evidence : evidence[i] = c}) <= 1
<1> DEFINE Places == {i \in DOMAIN evidence : evidence[i] = c}
<1>1. CASE Places = {}
  BY <1>1, FS_EmptySet
<1>2. CASE Places # {}
  <2>1. PICK i \in Places : TRUE
    BY <1>2
  <2>2. Places = {i}
    BY <2>1
  <2>3. Cardinality({i}) = 1
    BY FS_Singleton
  <2> QED
    BY <2>2, <2>3
<1> QED
  BY <1>1, <1>2

\* No step of any call, and no passing of time, breaks the invariant.
THEOREM EvidenceInductive == HostSpec => []Once
<1>1. HostInit => Once
  BY InitOnce
<1>2. Once /\ [HostNext]_hostVars => Once'
  <2> SUFFICES ASSUME Once, [HostNext]_hostVars PROVE Once'
    OBVIOUS
  <2>1. CASE Tick
    BY <2>1, TickOnce
  <2>2. ASSUME NEW c \in Calls, Step(c) PROVE Once'
    BY <2>2, QuietOnce, RecordsOnce DEF Step
  <2>3. CASE UNCHANGED hostVars
    BY <2>3 DEF hostVars, clocks, Once, HostTypeOK, Recorded
  <2> QED
    BY <2>1, <2>2, <2>3 DEF HostNext
<1> QED
  BY <1>1, <1>2, PTL DEF HostSpec

\* The calls and their clocks have the shape the code gives them.
THEOREM HostTypeCorrect == HostSpec => []HostTypeOK
<1>1. Once => HostTypeOK
  BY DEF Once
<1> QED
  BY <1>1, EvidenceInductive, PTL

\* Facts a model was handed are in the run state's evidence, once
\* (tools.build_tools, RunState.record_snapshot), however the calls
\* of a run interleave and whichever of them the deadline gave up on.
THEOREM EvidenceIsWhole == HostSpec => []GivenIsRecorded
<1>1. Once => GivenIsRecorded
  <2> SUFFICES ASSUME Once, NEW c \in Calls
               PROVE  /\ given[c] = "facts" => c \in Recorded
                      /\ Cardinality({i \in DOMAIN evidence : evidence[i] = c}) <= 1
    BY DEF GivenIsRecorded
  <2>1. given[c] = "facts" => c \in Recorded
    BY DEF Once
  <2>2. Cardinality({i \in DOMAIN evidence : evidence[i] = c}) <= 1
    BY OnePlace DEF Once
  <2> QED
    BY <2>1, <2>2
<1> QED
  BY <1>1, EvidenceInductive, PTL
=============================================================================
