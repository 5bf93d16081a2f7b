---------------------------- MODULE DecisionLog ----------------------------
(***************************************************************************)
(* The decision log (ta_cascade/memory.py) under the drivers that use it:  *)
(* what _resolve_pending, past_context and record of pipeline.py do to one *)
(* file that by default every run of a user shares.                        *)
(*                                                                         *)
(* Every change reads the whole file, changes the entries in memory,       *)
(* writes them to one sibling file and renames it over the log; nothing    *)
(* keeps two drivers from doing so at the same time.  An open file stays   *)
(* what it was when its name changes: a driver still writing the sibling   *)
(* another one has renamed writes into the log.                            *)
(*                                                                         *)
(* A price bar is a day; an entry of day d can be scored from day          *)
(* d + Holding on and is then resolved on that day.                        *)
(***************************************************************************)
EXTENDS Integers, Sequences, FiniteSets

CONSTANTS
    Drivers,            \* driver processes
    Keys,               \* the tickers and days that are analysed
    MaxDay,             \* bound: the calendar has days 1..MaxDay
    Holding,            \* holding_days
    NSame, NCross,      \* past_context's n_same and n_cross
    MaxEntries,         \* bound: no new key is analysed in a longer log
    Torn, Nothing       \* a file cut short; no file

ASSUME LogAssumption ==
    /\ MaxDay \in Nat \ {0}
    /\ \A k \in Keys : Len(k) = 2 /\ k[2] \in 1..MaxDay
    /\ Holding \in Nat \ {0}
    /\ NSame \in Nat \ {0} /\ NCross \in Nat \ {0} /\ MaxEntries \in Nat

VARIABLES
    log,                \* the log file: its entries, or Torn
    tmp,                \* the sibling: entries, Torn or Nothing
    today,
    pc,                 \* where each driver is
    run,                \* the ticker and day each driver analyses
    todo,               \* keys _resolve_pending has still to look at
    context,            \* entries past_context showed, Nothing before
    entries,            \* what the driver is writing
    fd,                 \* the file its descriptor names: tmp, log or none
    overlap             \* drivers whose change overlapped another's

disk == <<log, tmp>>
local == <<pc, run, todo, context, entries, fd, overlap>>
logVars == <<disk, today, local>>

Days == 1..MaxDay
Never == 0              \* resolved_on of a pending entry
Entry == [key : Keys, status : {"pending", "resolved"}, resolvedOn : Nat]

\* A file cut short is told from one that holds entries.
ASSUME TornAssumption == Torn \notin Seq(Entry)

-----------------------------------------------------------------------------
(* What is in a log. *)

HasKey(es, k) == \E i \in DOMAIN es : es[i].key = k
IsPending(es, k) == \E i \in DOMAIN es : es[i].key = k /\ es[i].status = "pending"

\* pending(ticker)
PendingKeys(es, t) == {k \in Keys : k[1] = t /\ IsPending(es, k)}

\* Mutant of Recorded: the parts of the key are swapped.
RecordedSwapped(es, k) ==
    Append(es, [key |-> <<k[2], k[1]>>, status |-> "pending", resolvedOn |-> Never])

\* The log record would write: one more pending entry.
Recorded(es, k) ==
    Append(es, [key |-> k, status |-> "pending", resolvedOn |-> Never])

\* The log resolve would write: the first pending entry of k is resolved.
Resolved(es, k) ==
    LET first == CHOOSE i \in DOMAIN es :
                    /\ es[i].key = k /\ es[i].status = "pending"
                    /\ \A j \in 1..(i - 1) : es[j].key # k \/ es[j].status # "pending"
    IN  [es EXCEPT ![first] =
            [@ EXCEPT !.status = "resolved", !.resolvedOn = k[2] + Holding]]

\* The last n entries of es among those at the places given.
LastOf(es, places, n) ==
    {es[i] : i \in {i \in places : Cardinality({j \in places : j > i}) < n}}

\* past_context: the last entries of the ticker and of others that were
\* resolved, by the day asOf if there is one.
PastContext(es, t, asOf) ==
    LET known == {i \in DOMAIN es : /\ es[i].status = "resolved"
                                    /\ asOf = Never \/ es[i].resolvedOn <= asOf}
        same == {i \in known : es[i].key[1] = t}
    IN  LastOf(es, same, NSame) \cup LastOf(es, known \ same, NCross)

\* Mutant of AsOf: every run knows all there is.
AsOfNow(day) == Never

\* run(): an analysis of a past day knows that day, any other knows all.
AsOf(day) == IF day < today THEN day ELSE Never

-----------------------------------------------------------------------------
LogInit ==
    /\ log = <<>> /\ tmp = Nothing
    /\ today = 1
    /\ pc = [d \in Drivers |-> "idle"]
    /\ run = [d \in Drivers |-> Nothing]
    /\ todo = [d \in Drivers |-> {}]
    /\ context = [d \in Drivers |-> Nothing]
    /\ entries = [d \in Drivers |-> <<>>]
    /\ fd = [d \in Drivers |-> "none"]
    /\ overlap = {}

\* d has read the log and begins to change it, or is done with that.
Writers == {d \in Drivers : pc[d] \in {"opening", "flushing", "replacing"}}
BeginChange(d) == overlap' = IF Writers = {} THEN {} ELSE overlap \cup Writers \cup {d}
EndChange(d) == overlap' = overlap \ {d}

\* The process of d ends, well or not.
End(d) ==
    /\ pc' = [pc EXCEPT ![d] = "idle"]
    /\ run' = [run EXCEPT ![d] = Nothing]
    /\ todo' = [todo EXCEPT ![d] = {}]
    /\ context' = [context EXCEPT ![d] = Nothing]
    /\ entries' = [entries EXCEPT ![d] = <<>>]
    /\ fd' = [fd EXCEPT ![d] = "none"]
    /\ EndChange(d)

Tick ==
    /\ today < MaxDay
    /\ today' = today + 1
    /\ UNCHANGED <<disk, local>>

\* A run for a ticker and a day starts and lists the ticker's pending entries.
StartRun(d) ==
    /\ pc[d] = "idle" /\ log # Torn
    /\ \E k \in Keys :
        /\ HasKey(log, k) \/ Len(log) < MaxEntries
        /\ run' = [run EXCEPT ![d] = k]
        /\ todo' = [todo EXCEPT ![d] = PendingKeys(log, k[1])]
    /\ pc' = [pc EXCEPT ![d] = "resolving"]
    /\ UNCHANGED <<disk, today, context, entries, fd, overlap>>

\* One of them: too few bars, a failed reflection, no longer pending when the
\* log is read again, or resolved in memory and about to be written.
TakeEntry(d) ==
    /\ pc[d] = "resolving" /\ log # Torn
    /\ \E k \in todo[d] :
        /\ todo' = [todo EXCEPT ![d] = @ \ {k}]
        /\ \/ UNCHANGED <<pc, entries, overlap>>
           \/ /\ k[2] + Holding <= today
              /\ IsPending(log, k)
              /\ entries' = [entries EXCEPT ![d] = Resolved(log, k)]
              /\ BeginChange(d)
              /\ pc' = [pc EXCEPT ![d] = "opening"]
    /\ UNCHANGED <<disk, today, run, context, fd>>

\* past_context, once per run; the pipeline then works for as long as it takes.
ReadContext(d) ==
    /\ pc[d] = "resolving" /\ todo[d] = {} /\ log # Torn
    /\ context' = [context EXCEPT ![d] =
                      PastContext(log, run[d][1], AsOf(run[d][2]))]
    /\ pc' = [pc EXCEPT ![d] = "working"]
    /\ UNCHANGED <<disk, today, run, todo, entries, fd, overlap>>

\* record finds the key and leaves it; run() is over.
AlreadyRecorded(d) ==
    /\ pc[d] = "working" /\ log # Torn
    /\ HasKey(log, run[d])
    /\ End(d)
    /\ UNCHANGED <<disk, today>>

\* Mutant of RecordNew: the key is not looked for.
RecordAlways(d) ==
    /\ pc[d] = "working" /\ log # Torn
    /\ entries' = [entries EXCEPT ![d] = Recorded(log, run[d])]
    /\ pc' = [pc EXCEPT ![d] = "opening"]
    /\ BeginChange(d)
    /\ UNCHANGED <<disk, today, run, todo, context, fd>>

\* record appends the entry in memory and is about to write it.
RecordNew(d) ==
    /\ pc[d] = "working" /\ log # Torn
    /\ ~HasKey(log, run[d])
    /\ entries' = [entries EXCEPT ![d] = Recorded(log, run[d])]
    /\ pc' = [pc EXCEPT ![d] = "opening"]
    /\ BeginChange(d)
    /\ UNCHANGED <<disk, today, run, todo, context, fd>>

\* Mutant of OpenTmp: the log is written in place.
OpenLog(d) ==
    /\ pc[d] = "opening"
    /\ log' = Torn
    /\ fd' = [fd EXCEPT ![d] = "log"]
    /\ pc' = [pc EXCEPT ![d] = "flushing"]
    /\ UNCHANGED <<tmp, today, run, todo, context, entries, overlap>>

\* _write_all: the sibling is opened, which empties it ...
OpenTmp(d) ==
    /\ pc[d] = "opening"
    /\ tmp' = Torn
    /\ fd' = [fd EXCEPT ![d] = "tmp"]
    /\ pc' = [pc EXCEPT ![d] = "flushing"]
    /\ UNCHANGED <<log, today, run, todo, context, entries, overlap>>

\* ... what is written reaches the file the descriptor names, which keeps the
\* end of a longer text another driver put there ...
Flush(d) ==
    LET Over(old) == IF old \in {Torn, <<>>} THEN {entries[d]} ELSE {entries[d], Torn}
    IN  /\ pc[d] = "flushing"
        /\ IF fd[d] = "tmp" THEN tmp' \in Over(tmp) ELSE UNCHANGED tmp
        /\ IF fd[d] = "log" THEN log' \in Over(log) ELSE UNCHANGED log
        /\ fd' = [fd EXCEPT ![d] = "none"]
        /\ pc' = [pc EXCEPT ![d] = "replacing"]
        /\ UNCHANGED <<today, run, todo, context, entries, overlap>>

\* ... and the sibling is renamed over the log, whoever wrote it.  Descriptors
\* follow: the sibling's name the log now, the old log's name no file any more.
Rename ==
    /\ log' = tmp /\ tmp' = Nothing
    /\ UNCHANGED today

FdsAfterRename == [e \in Drivers |-> IF fd[e] = "tmp" THEN "log" ELSE "none"]

\* resolve is done: on with the next pending entry.
ReplaceResolved(d) ==
    /\ pc[d] = "replacing" /\ context[d] = Nothing
    /\ tmp # Nothing
    /\ Rename
    /\ fd' = FdsAfterRename
    /\ EndChange(d)
    /\ entries' = [entries EXCEPT ![d] = <<>>]
    /\ pc' = [pc EXCEPT ![d] = "resolving"]
    /\ UNCHANGED <<run, todo, context>>

\* record is done, and run() with it.
ReplaceRecorded(d) ==
    /\ pc[d] = "replacing" /\ context[d] # Nothing
    /\ tmp # Nothing
    /\ Rename
    /\ fd' = FdsAfterRename
    /\ EndChange(d)
    /\ pc' = [pc EXCEPT ![d] = "idle"]
    /\ run' = [run EXCEPT ![d] = Nothing]
    /\ context' = [context EXCEPT ![d] = Nothing]
    /\ entries' = [entries EXCEPT ![d] = <<>>]
    /\ UNCHANGED todo

\* The sibling is gone, or the log it should read is torn: the run raises.
Fail(d) ==
    /\ \/ pc[d] = "replacing" /\ tmp = Nothing
       \/ pc[d] \in {"resolving", "working"} /\ log = Torn
    /\ End(d)
    /\ UNCHANGED <<disk, today>>

\* The process dies anywhere, or its pipeline fails.
Die(d) ==
    /\ pc[d] # "idle"
    /\ End(d)
    /\ UNCHANGED <<disk, today>>

LogNext ==
    \/ Tick
    \/ \E d \in Drivers :
        \/ StartRun(d) \/ TakeEntry(d) \/ ReadContext(d)
        \/ AlreadyRecorded(d) \/ RecordNew(d)
        \/ OpenTmp(d) \/ Flush(d) \/ ReplaceResolved(d) \/ ReplaceRecorded(d)
        \/ Fail(d) \/ Die(d)

LogSpec == LogInit /\ [][LogNext]_logVars

-----------------------------------------------------------------------------
(* Properties. *)

\* Every variable has the shape the code gives it.
LogTypeOK ==
    /\ log \in Seq(Entry) \cup {Torn}
    /\ tmp \in Seq(Entry) \cup {Torn, Nothing}
    /\ today \in Days
    /\ pc \in [Drivers -> {"idle", "resolving", "working", "opening", "flushing", "replacing"}]
    /\ run \in [Drivers -> Keys \cup {Nothing}]
    /\ todo \in [Drivers -> SUBSET Keys]
    /\ context \in [Drivers -> (SUBSET Entry) \cup {Nothing}]
    /\ entries \in [Drivers -> Seq(Entry)]
    /\ fd \in [Drivers -> {"tmp", "log", "none"}]
    /\ overlap \subseteq Drivers

\* A ticker and a day have at most one entry, however often that day is
\* analysed, whatever dies halfway and whoever else writes the file.
OneEntryPerKey ==
    log # Torn =>
        \A i, j \in DOMAIN log : log[i].key = log[j].key => i = j

\* The portfolio manager of a run never reads a lesson learned after the day
\* it analyses: not from an entry of a later day, nor from one resolved since.
NoLookAhead ==
    \A d \in Drivers : context[d] # Nothing =>
        \A e \in context[d] : e.status = "resolved" /\ e.resolvedOn <= run[d][2]

\* As long as no two changes overlap, whatever dies in the middle of one, the
\* log is append-only but for resolutions: every entry stays at its place, a
\* resolved one unchanged, and a reader never finds a torn file.
EntriesStay ==
    [][ log # Torn /\ overlap = {} =>
            /\ log' # Torn
            /\ \A i \in DOMAIN log :
                /\ i \in DOMAIN log' /\ log'[i].key = log[i].key
                /\ log[i].status = "resolved" => log'[i] = log[i] ]_logVars

\* memory.py calls the file "append-only": no entry that was in it is ever
\* missing from it, as long as it can be read.
AppendOnly ==
    [][ log # Torn /\ log' # Torn =>
            \A i \in DOMAIN log : HasKey(log', log[i].key) ]_logVars
=============================================================================
