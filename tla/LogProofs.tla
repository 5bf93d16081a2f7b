------------------------------ MODULE LogProofs ------------------------------
(***************************************************************************)
(* Proofs about DecisionLog, for any number of drivers, keys and days: the *)
(* types, that a key has one entry, that no run reads a later lesson, and  *)
(* that the log keeps its entries as long as no two changes overlap.       *)
(***************************************************************************)
EXTENDS DecisionLog, TLAPS, WellFoundedInduction

-----------------------------------------------------------------------------
(* The inductive invariant. *)

\* A key is in a sequence of entries once at most.
OnceEach(es) == \A i, j \in DOMAIN es : es[i].key = es[j].key => i = j

\* What is resolved was resolved by that day.
LearnedBy(es, day) == \A i \in DOMAIN es : es[i].status = "resolved" => es[i].resolvedOn <= day

Sound(es, day) == OnceEach(es) /\ LearnedBy(es, day)

\* Every sequence of entries that is, or may become, the log is sound.
AllSound ==
    /\ log # Torn => Sound(log, today)
    /\ tmp \notin {Torn, Nothing} => Sound(tmp, today)
    /\ \A d \in Drivers : Sound(entries[d], today)

\* A run has its key, and what it was shown was known on its day.
ContextKnown ==
    \A d \in Drivers :
        /\ pc[d] # "idle" => run[d] \in Keys
        /\ pc[d] \in {"idle", "resolving"} => context[d] = Nothing
        /\ context[d] # Nothing =>
              \A e \in context[d] : e.status = "resolved" /\ e.resolvedOn <= run[d][2]

\* Every entry of earlier is at its place in later, a resolved one unchanged.
StayIn(earlier, later) ==
    \A i \in DOMAIN earlier :
        /\ i \in DOMAIN later /\ later[i].key = earlier[i].key
        /\ earlier[i].status = "resolved" => later[i] = earlier[i]

\* Two drivers that change the log at the same time both know it.
OverlapMarked ==
    /\ overlap \subseteq Writers
    /\ \A d, e \in Writers : d # e => d \in overlap /\ e \in overlap

\* A change that overlaps no other finds the files as it left them.
Alone ==
    \A d \in Writers \ overlap :
        /\ log # Torn /\ StayIn(log, entries[d])
        /\ pc[d] = "flushing" => fd[d] = "tmp" /\ tmp = Torn
        /\ pc[d] = "replacing" => tmp = entries[d]

LInv == LogTypeOK /\ AllSound /\ ContextKnown /\ OverlapMarked /\ Alone

-----------------------------------------------------------------------------
(* The operators on logs. *)

\* A set of numbers has a least one.
LEMMA Least ==
    ASSUME NEW S \in SUBSET Nat, S # {}
    PROVE  \E i \in S : \A j \in S : i <= j
<1> DEFINE R == {ss \in Nat \X Nat : ss[1] < ss[2]}
<1>1. IsWellFoundedOn(R, Nat)
  BY NatLessThanWellFounded, Zenon DEF OpToRel
<1> HIDE DEF R
<1>2. PICK i \in S : \A j \in S : <<j, i>> \notin R
  BY <1>1, WFMin
<1>3. ASSUME NEW j \in S
      PROVE  i <= j
  <2>1. i \in Nat /\ j \in Nat
    OBVIOUS
  <2>2. j < i => <<j, i>> \in R
    BY <2>1 DEF R
  <2> QED  BY <1>2, <2>1, <2>2
<1> QED  BY <1>3

\* resolve changes one entry, which was pending, and not its key.
LEMMA ResolvedFacts ==
    ASSUME NEW es \in Seq(Entry), NEW k \in Keys, IsPending(es, k)
    PROVE  /\ Resolved(es, k) \in Seq(Entry)
           /\ DOMAIN Resolved(es, k) = DOMAIN es
           /\ \A i \in DOMAIN es :
                /\ Resolved(es, k)[i].key = es[i].key
                /\ es[i].status = "resolved" => Resolved(es, k)[i] = es[i]
                /\ Resolved(es, k)[i] # es[i] => Resolved(es, k)[i].resolvedOn = k[2] + Holding
<1> DEFINE IsFirst(i) == /\ es[i].key = k /\ es[i].status = "pending"
                         /\ \A j \in 1..(i - 1) : es[j].key # k \/ es[j].status # "pending"
           S == {i \in DOMAIN es : es[i].key = k /\ es[i].status = "pending"}
<1>1. \E i \in DOMAIN es : IsFirst(i)
  <2>1. S \in SUBSET Nat /\ S # {}
    BY DEF IsPending
  <2>2. PICK i \in S : \A j \in S : i <= j
    BY <2>1, Least
  <2>3. \A j \in 1..(i - 1) : j \in DOMAIN es /\ j \notin S
    BY <2>2
  <2> QED  BY <2>2, <2>3
<1> DEFINE first == CHOOSE i \in DOMAIN es : IsFirst(i)
<1>2. first \in DOMAIN es /\ es[first].status = "pending"
  BY <1>1
<1>3. Resolved(es, k) = [es EXCEPT ![first] =
          [@ EXCEPT !.status = "resolved", !.resolvedOn = k[2] + Holding]]
  BY DEF Resolved
<1> HIDE DEF first
<1>4. k[2] + Holding \in Nat
  BY LogAssumption
<1>5. [es[first] EXCEPT !.status = "resolved", !.resolvedOn = k[2] + Holding] \in Entry
  <2>1. es[first] \in Entry
    BY <1>2
  <2> QED  BY <1>4, <2>1 DEF Entry
<1>6. Resolved(es, k) \in Seq(Entry) /\ DOMAIN Resolved(es, k) = DOMAIN es
  BY <1>2, <1>3, <1>5
<1> QED  BY <1>2, <1>3, <1>6 DEF Entry

\* record adds one pending entry at the end.
LEMMA RecordedFacts ==
    ASSUME NEW es \in Seq(Entry), NEW k \in Keys
    PROVE  /\ Recorded(es, k) \in Seq(Entry)
           /\ DOMAIN Recorded(es, k) = DOMAIN es \cup {Len(es) + 1}
           /\ \A i \in DOMAIN es : Recorded(es, k)[i] = es[i]
           /\ Recorded(es, k)[Len(es) + 1].key = k
           /\ Recorded(es, k)[Len(es) + 1].status = "pending"
<1>1. [key |-> k, status |-> "pending", resolvedOn |-> Never] \in Entry
  BY DEF Entry, Never
<1>2. DOMAIN es = 1..Len(es) /\ Len(es) \in Nat
  OBVIOUS
<1>3. DOMAIN Recorded(es, k) = 1..(Len(es) + 1)
  BY <1>1 DEF Recorded
<1>4. 1..(Len(es) + 1) = (1..Len(es)) \cup {Len(es) + 1}
  BY <1>2
<1>5. DOMAIN Recorded(es, k) = DOMAIN es \cup {Len(es) + 1}
  BY <1>2, <1>3, <1>4
<1>6. Recorded(es, k) \in Seq(Entry)
  BY <1>1 DEF Recorded
<1>7. \A i \in DOMAIN es : Recorded(es, k)[i] = es[i]
  BY <1>1, <1>2 DEF Recorded
<1>8. Recorded(es, k)[Len(es) + 1] = [key |-> k, status |-> "pending", resolvedOn |-> Never]
  BY <1>1, <1>2 DEF Recorded
<1> QED  BY <1>5, <1>6, <1>7, <1>8

\* past_context shows entries that were resolved, by the day asked for if any.
LEMMA PastContextFacts ==
    ASSUME NEW es \in Seq(Entry), NEW t, NEW asOf
    PROVE  /\ PastContext(es, t, asOf) \in SUBSET Entry
           /\ \A e \in PastContext(es, t, asOf) :
                /\ e.status = "resolved"
                /\ asOf = Never \/ e.resolvedOn <= asOf
                /\ \E i \in DOMAIN es : es[i] = e
<1> DEFINE known == {i \in DOMAIN es : /\ es[i].status = "resolved"
                                       /\ asOf = Never \/ es[i].resolvedOn <= asOf}
<1>1. PastContext(es, t, asOf) \subseteq {es[i] : i \in known}
  BY DEF PastContext, LastOf
<1>2. \A e \in PastContext(es, t, asOf) : \E i \in known : es[i] = e
  BY <1>1
<1>3. \A i \in known : es[i] \in Entry
  OBVIOUS
<1>4. PastContext(es, t, asOf) \in SUBSET Entry
  BY <1>2, <1>3
<1>5. ASSUME NEW e \in PastContext(es, t, asOf)
      PROVE  /\ e.status = "resolved"
             /\ asOf = Never \/ e.resolvedOn <= asOf
             /\ \E i \in DOMAIN es : es[i] = e
  <2>1. PICK i \in known : es[i] = e
    BY <1>2
  <2> QED  BY <2>1
<1> QED  BY <1>4, <1>5

-----------------------------------------------------------------------------
(* What a change of the log makes of it. *)

\* Resolving keeps a log sound and every entry at its place.
LEMMA ResolvedSound ==
    ASSUME NEW es \in Seq(Entry), NEW k \in Keys, NEW day \in Nat,
           IsPending(es, k), k[2] + Holding <= day, Sound(es, day)
    PROVE  Sound(Resolved(es, k), day) /\ StayIn(es, Resolved(es, k))
<1>1. OnceEach(Resolved(es, k))
  BY ResolvedFacts DEF Sound, OnceEach
<1>2. LearnedBy(Resolved(es, k), day)
  BY ResolvedFacts DEF Sound, LearnedBy
<1>3. StayIn(es, Resolved(es, k))
  BY ResolvedFacts DEF StayIn
<1> QED  BY <1>1, <1>2, <1>3 DEF Sound

\* So does recording a key the log does not have.
LEMMA RecordedSound ==
    ASSUME NEW es \in Seq(Entry), NEW k \in Keys, NEW day, ~HasKey(es, k), Sound(es, day)
    PROVE  Sound(Recorded(es, k), day) /\ StayIn(es, Recorded(es, k))
<1> DEFINE after == Recorded(es, k)
           last == Len(es) + 1
<1>a. /\ DOMAIN after = DOMAIN es \cup {last}
      /\ \A i \in DOMAIN es : after[i] = es[i]
      /\ after[last].key = k /\ after[last].status = "pending"
  BY RecordedFacts
<1> HIDE DEF after, last
<1>1. OnceEach(after)
  BY <1>a DEF Sound, OnceEach, HasKey
<1>2. LearnedBy(after, day)
  BY <1>a DEF Sound, LearnedBy
<1>3. StayIn(es, after)
  BY <1>a DEF StayIn
<1> QED  BY <1>1, <1>2, <1>3 DEF Sound, after

\* A log that was sound is sound later.
LEMMA SoundLater ==
    ASSUME NEW es \in Seq(Entry), NEW day \in Nat, NEW later \in Nat, day <= later,
           Sound(es, day)
    PROVE  Sound(es, later)
<1>1. \A i \in DOMAIN es : es[i].resolvedOn \in Nat
  <2>1. \A i \in DOMAIN es : es[i] \in Entry
    OBVIOUS
  <2> QED  BY <2>1 DEF Entry
<1> QED  BY <1>1 DEF Sound, LearnedBy

-----------------------------------------------------------------------------
(* The steps that touch the files. *)

\* The entries a driver is about to write are sound and keep those it read.
LEMMA ChangeFacts ==
    ASSUME LInv, NEW d \in Drivers, TakeEntry(d) \/ RecordNew(d), pc'[d] = "opening"
    PROVE  /\ log # Torn /\ entries' = [entries EXCEPT ![d] = entries'[d]]
           /\ entries'[d] \in Seq(Entry) /\ Sound(entries'[d], today)
           /\ StayIn(log, entries'[d])
           /\ pc' = [pc EXCEPT ![d] = "opening"] /\ pc[d] \notin {"opening", "flushing", "replacing"}
           /\ BeginChange(d)
<1> USE DEF LInv
<1>1. /\ log # Torn => log \in Seq(Entry) /\ Sound(log, today)
      /\ today \in Nat
  BY LogAssumption DEF LogTypeOK, Days, AllSound
<1>2. CASE TakeEntry(d)
  <2>1. pc[d] = "resolving" /\ log # Torn
    BY <1>2 DEF TakeEntry
  <2>2. PICK k \in todo[d] : /\ k[2] + Holding <= today /\ IsPending(log, k)
                             /\ entries' = [entries EXCEPT ![d] = Resolved(log, k)]
                             /\ BeginChange(d)
                             /\ pc' = [pc EXCEPT ![d] = "opening"]
    BY <1>2, <2>1 DEF TakeEntry
  <2>3. k \in Keys
    BY DEF LogTypeOK
  <2>4. entries'[d] = Resolved(log, k)
    BY <2>2 DEF LogTypeOK
  <2>5. Sound(Resolved(log, k), today) /\ StayIn(log, Resolved(log, k))
    BY <1>1, <2>1, <2>2, <2>3, ResolvedSound
  <2>6. Resolved(log, k) \in Seq(Entry)
    BY <1>1, <2>1, <2>2, <2>3, ResolvedFacts
  <2> QED  BY <2>1, <2>2, <2>4, <2>5, <2>6
<1>3. CASE RecordNew(d)
  <2>1. run[d] \in Keys /\ pc[d] = "working" /\ log # Torn /\ ~HasKey(log, run[d])
    BY <1>3 DEF RecordNew, ContextKnown
  <2>2. entries'[d] = Recorded(log, run[d])
    BY <1>3 DEF RecordNew, LogTypeOK
  <2>3. Sound(Recorded(log, run[d]), today) /\ StayIn(log, Recorded(log, run[d]))
    BY <1>1, <2>1, RecordedSound
  <2>4. Recorded(log, run[d]) \in Seq(Entry)
    BY <1>1, <2>1, RecordedFacts
  <2> QED  BY <1>3, <2>1, <2>2, <2>3, <2>4 DEF RecordNew
<1> QED  BY <1>2, <1>3

\* What a flush leaves in the files.
LEMMA FlushFacts ==
    ASSUME NEW d \in Drivers, Flush(d)
    PROVE  /\ tmp' \in {tmp, entries[d], Torn}
           /\ log' \in {log, entries[d], Torn}
           /\ fd[d] # "log" => log' = log
           /\ fd[d] = "tmp" /\ tmp = Torn => tmp' = entries[d]
           /\ UNCHANGED <<today, run, todo, context, entries, overlap>>
           /\ pc[d] = "flushing" /\ pc' = [pc EXCEPT ![d] = "replacing"]
           /\ fd' = [fd EXCEPT ![d] = "none"]
  BY DEF Flush

Replaces(d) == ReplaceResolved(d) \/ ReplaceRecorded(d)

\* What a rename does, whoever's sibling it is.
LEMMA ReplaceFacts ==
    ASSUME LogTypeOK, NEW d \in Drivers, Replaces(d)
    PROVE  /\ pc[d] = "replacing" /\ tmp # Nothing /\ log' = tmp /\ tmp' = Nothing
           /\ log' \in Seq(Entry) \cup {Torn} /\ UNCHANGED today
           /\ fd' = FdsAfterRename /\ EndChange(d)
           /\ entries' = [entries EXCEPT ![d] = <<>>]
           /\ \E p \in {"resolving", "idle"} : pc' = [pc EXCEPT ![d] = p]
  BY DEF LogTypeOK, Replaces, ReplaceResolved, ReplaceRecorded, Rename

Ends(d) == AlreadyRecorded(d) \/ Fail(d) \/ Die(d)

\* A driver that ends leaves the files alone.
LEMMA EndFacts ==
    ASSUME NEW d \in Drivers, Ends(d)
    PROVE  UNCHANGED <<log, tmp, today>> /\ End(d)
  BY DEF Ends, AlreadyRecorded, Fail, Die, disk

\* The steps, with those that do the same to the files taken together.
LEMMA LogSteps ==
    ASSUME LogTypeOK, [LogNext]_logVars
    PROVE  \/ Tick
           \/ \E d \in Drivers :
                \/ StartRun(d) \/ ReadContext(d) \/ OpenTmp(d) \/ Flush(d)
                \/ (TakeEntry(d) \/ RecordNew(d)) /\ pc'[d] = "opening"
                \/ TakeEntry(d) /\ UNCHANGED <<pc, entries, overlap>>
                \/ Replaces(d) \/ Ends(d)
           \/ UNCHANGED logVars
<1>1. ASSUME NEW d \in Drivers, TakeEntry(d)
      PROVE  pc'[d] = "opening" \/ UNCHANGED <<pc, entries, overlap>>
  BY <1>1 DEF TakeEntry, LogTypeOK
<1>2. ASSUME NEW d \in Drivers, RecordNew(d)
      PROVE  pc'[d] = "opening"
  BY <1>2 DEF RecordNew, LogTypeOK
<1> QED  BY <1>1, <1>2 DEF LogNext, Replaces, Ends

-----------------------------------------------------------------------------
(* Every step keeps the invariant. *)

\* The types.
LEMMA LogTypeStep == LInv /\ [LogNext]_logVars => LogTypeOK'
<1> SUFFICES ASSUME LInv, [LogNext]_logVars
             PROVE  LogTypeOK'
  OBVIOUS
<1> USE DEF LInv
<1>0. /\ \A d \in Drivers : /\ run[d] \in Keys \cup {Nothing} /\ todo[d] \in SUBSET Keys
                            /\ entries[d] \in Seq(Entry)
      /\ <<>> \in Seq(Entry)
  BY DEF LogTypeOK
<1>1. CASE Tick
  BY <1>1, LogAssumption DEF LogTypeOK, Tick, disk, local, Days
<1>2. ASSUME NEW d \in Drivers, StartRun(d)
      PROVE  LogTypeOK'
  BY <1>2 DEF LogTypeOK, StartRun, disk, PendingKeys
<1>3. ASSUME NEW d \in Drivers, ReadContext(d)
      PROVE  LogTypeOK'
  <2>1. log \in Seq(Entry)
    BY <1>3 DEF LogTypeOK, ReadContext
  <2>2. PastContext(log, run[d][1], AsOf(run[d][2])) \in SUBSET Entry
    BY <2>1, PastContextFacts
  <2> QED  BY <1>3, <2>2 DEF LogTypeOK, ReadContext, disk
<1>4. ASSUME NEW d \in Drivers, OpenTmp(d)
      PROVE  LogTypeOK'
  BY <1>4 DEF LogTypeOK, OpenTmp
<1>5. ASSUME NEW d \in Drivers, Flush(d)
      PROVE  LogTypeOK'
  <2>1. /\ tmp' \in {tmp, entries[d], Torn} /\ log' \in {log, entries[d], Torn}
        /\ UNCHANGED <<today, run, todo, context, entries, overlap>>
        /\ pc' = [pc EXCEPT ![d] = "replacing"] /\ fd' = [fd EXCEPT ![d] = "none"]
    BY <1>5, FlushFacts
  <2>2. log' \in Seq(Entry) \cup {Torn} /\ tmp' \in Seq(Entry) \cup {Torn, Nothing}
    BY <1>0, <2>1 DEF LogTypeOK
  <2> QED
    BY <2>1, <2>2 DEF LogTypeOK
<1>6. ASSUME NEW d \in Drivers, TakeEntry(d) \/ RecordNew(d), pc'[d] = "opening"
      PROVE  LogTypeOK'
  <2>1. overlap' \subseteq Drivers
    <3>1. BeginChange(d)
      BY <1>6, ChangeFacts
    <3>2. overlap \subseteq Drivers /\ Writers \subseteq Drivers
      BY DEF LogTypeOK, Writers
    <3> QED  BY <3>1, <3>2 DEF BeginChange
  <2>2. entries' \in [Drivers -> Seq(Entry)]
    BY <1>6, ChangeFacts DEF LogTypeOK
  <2>3. todo' \in [Drivers -> SUBSET Keys]
    <3>1. CASE RecordNew(d)
      BY <3>1 DEF RecordNew, LogTypeOK
    <3>2. CASE TakeEntry(d)
      <4>1. PICK k \in todo[d] : todo' = [todo EXCEPT ![d] = @ \ {k}]
        BY <3>2 DEF TakeEntry
      <4> QED  BY <1>0, <4>1 DEF LogTypeOK
    <3> QED  BY <1>6, <3>1, <3>2
  <2>4. UNCHANGED <<log, tmp, today, run, context, fd>>
    BY <1>6 DEF TakeEntry, RecordNew, disk
  <2> QED  BY <1>6, <2>1, <2>2, <2>3, <2>4, ChangeFacts, ZenonT(60) DEF LogTypeOK
<1>7. ASSUME NEW d \in Drivers, TakeEntry(d), UNCHANGED <<pc, entries, overlap>>
      PROVE  LogTypeOK'
  BY <1>7 DEF LogTypeOK, TakeEntry, disk
<1>8. ASSUME NEW d \in Drivers, Replaces(d)
      PROVE  LogTypeOK'
  <2>1. fd' \in [Drivers -> {"tmp", "log", "none"}]
    BY <1>8, ReplaceFacts DEF FdsAfterRename
  <2>2. /\ run' \in [Drivers -> Keys \cup {Nothing}] /\ todo' = todo
        /\ context' \in [Drivers -> (SUBSET Entry) \cup {Nothing}]
    BY <1>8 DEF LogTypeOK, Replaces, ReplaceResolved, ReplaceRecorded
  <2>3. overlap' \subseteq Drivers
    BY <1>8, ReplaceFacts DEF EndChange, LogTypeOK
  <2>4. pc' \in [Drivers -> {"idle", "resolving", "working", "opening", "flushing", "replacing"}]
    BY <1>8, ReplaceFacts DEF LogTypeOK
  <2>5. /\ log' \in Seq(Entry) \cup {Torn} /\ tmp' = Nothing /\ today' = today
        /\ entries' = [entries EXCEPT ![d] = <<>>]
    BY <1>8, ReplaceFacts
  <2> QED  BY <1>0, <2>1, <2>2, <2>3, <2>4, <2>5 DEF LogTypeOK
<1>9. ASSUME NEW d \in Drivers, Ends(d)
      PROVE  LogTypeOK'
  <2>1. UNCHANGED <<log, tmp, today>> /\ End(d)
    BY <1>9, EndFacts
  <2>2. overlap' \subseteq Drivers
    BY <2>1 DEF End, EndChange, LogTypeOK
  <2> QED  BY <1>0, <2>1, <2>2 DEF LogTypeOK, End
<1>10. CASE UNCHANGED logVars
  BY <1>10 DEF LogTypeOK, logVars, disk, local
<1> QED  BY <1>1, <1>2, <1>3, <1>4, <1>5, <1>6, <1>7, <1>8, <1>9, <1>10, LogSteps

\* The entries, wherever they are.
LEMMA SoundStep == LInv /\ [LogNext]_logVars => AllSound'
<1> SUFFICES ASSUME LInv, [LogNext]_logVars
             PROVE  AllSound'
  OBVIOUS
<1> USE DEF LInv
<1>0. /\ \A d \in Drivers : entries[d] \in Seq(Entry) /\ Sound(entries[d], today)
      /\ log # Torn => log \in Seq(Entry) /\ Sound(log, today)
      /\ tmp \notin {Torn, Nothing} => tmp \in Seq(Entry) /\ Sound(tmp, today)
      /\ Sound(<<>>, today) /\ entries \in [Drivers -> Seq(Entry)]
  BY DEF LogTypeOK, AllSound, Sound, OnceEach, LearnedBy
<1>1. CASE Tick
  <2>1. today \in Nat /\ today' \in Nat /\ today <= today'
    BY <1>1, LogAssumption DEF LogTypeOK, Days, Tick
  <2>2. \A es \in Seq(Entry) : Sound(es, today) => Sound(es, today')
    BY <2>1, SoundLater
  <2> QED  BY <1>0, <1>1, <2>2 DEF AllSound, Tick, disk, local
<1>2. ASSUME NEW d \in Drivers, StartRun(d) \/ ReadContext(d) \/ OpenTmp(d)
      PROVE  AllSound'
  BY <1>0, <1>2 DEF AllSound, StartRun, ReadContext, OpenTmp, disk
<1>3. ASSUME NEW d \in Drivers, Flush(d)
      PROVE  AllSound'
  BY <1>0, <1>3, FlushFacts DEF AllSound
<1>4. ASSUME NEW d \in Drivers, TakeEntry(d) \/ RecordNew(d), pc'[d] = "opening"
      PROVE  AllSound'
  <2>1. UNCHANGED <<log, tmp, today>>
    BY <1>4 DEF TakeEntry, RecordNew, disk
  <2> QED  BY <1>0, <1>4, <2>1, ChangeFacts DEF AllSound
<1>5. ASSUME NEW d \in Drivers, TakeEntry(d), UNCHANGED <<pc, entries, overlap>>
      PROVE  AllSound'
  BY <1>0, <1>5 DEF AllSound, TakeEntry, disk
<1>6. ASSUME NEW d \in Drivers, Replaces(d)
      PROVE  AllSound'
  BY <1>0, <1>6, ReplaceFacts DEF AllSound
<1>7. ASSUME NEW d \in Drivers, Ends(d)
      PROVE  AllSound'
  BY <1>0, <1>7, EndFacts DEF AllSound, End
<1>8. CASE UNCHANGED logVars
  BY <1>0, <1>8 DEF AllSound, logVars, disk, local
<1> QED  BY <1>1, <1>2, <1>3, <1>4, <1>5, <1>6, <1>7, <1>8, LogSteps

\* What a run was shown was known on its day.
LEMMA ContextStep == LInv /\ [LogNext]_logVars => ContextKnown'
<1> SUFFICES ASSUME LInv, [LogNext]_logVars
             PROVE  ContextKnown'
  OBVIOUS
<1> USE DEF LInv
<1>0. /\ context \in [Drivers -> (SUBSET Entry) \cup {Nothing}]
      /\ run \in [Drivers -> Keys \cup {Nothing}] /\ DOMAIN pc = Drivers
  BY DEF LogTypeOK
<1>1. CASE Tick
  BY <1>1 DEF ContextKnown, Tick, local
<1>2. ASSUME NEW d \in Drivers, StartRun(d)
      PROVE  ContextKnown'
  BY <1>0, <1>2 DEF ContextKnown, StartRun
<1>3. ASSUME NEW d \in Drivers, ReadContext(d)
      PROVE  ContextKnown'
  <2>1. /\ pc[d] = "resolving" /\ log \in Seq(Entry) /\ Sound(log, today) /\ run[d] \in Keys
        /\ today \in Nat
    BY <1>3, LogAssumption DEF ReadContext, LogTypeOK, AllSound, ContextKnown, Days
  <2> DEFINE day == run[d][2]
             shown == PastContext(log, run[d][1], AsOf(day))
  <2>2. day \in Nat /\ day # 0
    BY <2>1, LogAssumption
  <2>3. ASSUME NEW e \in shown
        PROVE  e.status = "resolved" /\ e.resolvedOn <= day
    <3>1. /\ e.status = "resolved"
          /\ AsOf(day) = Never \/ e.resolvedOn <= AsOf(day)
          /\ \E i \in DOMAIN log : log[i] = e
      BY <2>1, PastContextFacts
    <3>2. e \in Entry
      BY <2>1, PastContextFacts
    <3>3. e.resolvedOn <= today
      BY <2>1, <3>1 DEF Sound, LearnedBy
    <3>4. e.resolvedOn \in Nat
      BY <3>2 DEF Entry
    <3> QED  BY <2>1, <2>2, <3>1, <3>3, <3>4 DEF AsOf, Never
  <2> QED  BY <1>0, <1>3, <2>1, <2>3 DEF ContextKnown, ReadContext
<1>4. ASSUME NEW d \in Drivers, OpenTmp(d) \/ Flush(d) \/ RecordNew(d)
      PROVE  ContextKnown'
  BY <1>0, <1>4 DEF ContextKnown, OpenTmp, Flush, RecordNew
<1>5. ASSUME NEW d \in Drivers, TakeEntry(d)
      PROVE  ContextKnown'
  BY <1>0, <1>5 DEF ContextKnown, TakeEntry
<1>6. ASSUME NEW d \in Drivers, Replaces(d)
      PROVE  ContextKnown'
  BY <1>0, <1>6 DEF ContextKnown, Replaces, ReplaceResolved, ReplaceRecorded
<1>7. ASSUME NEW d \in Drivers, Ends(d)
      PROVE  ContextKnown'
  BY <1>0, <1>7, EndFacts DEF ContextKnown, End
<1>8. CASE UNCHANGED logVars
  BY <1>8 DEF ContextKnown, logVars, local
<1> QED  BY <1>1, <1>2, <1>3, <1>4, <1>5, <1>6, <1>7, <1>8, LogSteps

Idles(d) ==
    \/ StartRun(d) \/ ReadContext(d)
    \/ TakeEntry(d) /\ UNCHANGED <<pc, entries, overlap>>

\* Who is changing the log after a step: one more, one less, or as before.
LEMMA WriterSteps ==
    ASSUME LInv, NEW d \in Drivers
    PROVE  /\ Idles(d) => /\ Writers' = Writers /\ d \notin Writers
                          /\ UNCHANGED <<log, tmp, entries, fd, overlap>>
                          /\ \A e \in Drivers \ {d} : pc'[e] = pc[e]
           /\ OpenTmp(d) \/ Flush(d) => /\ Writers' = Writers /\ d \in Writers
                                        /\ overlap' = overlap
           /\ (TakeEntry(d) \/ RecordNew(d)) /\ pc'[d] = "opening" =>
                /\ Writers' = Writers \cup {d} /\ d \notin Writers
                /\ overlap' = IF Writers = {} THEN {} ELSE overlap \cup Writers \cup {d}
           /\ Replaces(d) \/ Ends(d) => /\ Writers' = Writers \ {d}
                                        /\ overlap' = overlap \ {d}
           /\ Replaces(d) => d \in Writers
<1> USE DEF LInv, LogTypeOK, Writers
<1>1. Idles(d) => /\ Writers' = Writers /\ d \notin Writers
                  /\ UNCHANGED <<log, tmp, entries, fd, overlap>>
                  /\ \A e \in Drivers \ {d} : pc'[e] = pc[e]
  BY DEF Idles, StartRun, ReadContext, TakeEntry, disk
<1>2. OpenTmp(d) \/ Flush(d) => /\ Writers' = Writers /\ d \in Writers
                                /\ overlap' = overlap
  BY FlushFacts DEF OpenTmp
<1>3. (TakeEntry(d) \/ RecordNew(d)) /\ pc'[d] = "opening" =>
         /\ Writers' = Writers \cup {d} /\ d \notin Writers
         /\ overlap' = IF Writers = {} THEN {} ELSE overlap \cup Writers \cup {d}
  <2> SUFFICES ASSUME TakeEntry(d) \/ RecordNew(d), pc'[d] = "opening"
               PROVE  /\ Writers' = Writers \cup {d} /\ d \notin Writers
                      /\ overlap' = IF Writers = {} THEN {} ELSE overlap \cup Writers \cup {d}
    OBVIOUS
  <2>1. /\ pc' = [pc EXCEPT ![d] = "opening"] /\ BeginChange(d)
        /\ pc[d] \notin {"opening", "flushing", "replacing"}
    BY ChangeFacts
  <2>2. Writers' = Writers \cup {d} /\ d \notin Writers
    BY <2>1
  <2> QED  BY <2>1, <2>2 DEF BeginChange
<1>4. Replaces(d) => /\ Writers' = Writers \ {d} /\ overlap' = overlap \ {d}
                     /\ d \in Writers
  <2> SUFFICES ASSUME Replaces(d)
               PROVE  Writers' = Writers \ {d} /\ overlap' = overlap \ {d} /\ d \in Writers
    OBVIOUS
  <2>1. PICK p \in {"resolving", "idle"} : pc' = [pc EXCEPT ![d] = p]
    BY ReplaceFacts
  <2>2. pc[d] = "replacing" /\ EndChange(d)
    BY ReplaceFacts
  <2> QED  BY <2>1, <2>2 DEF EndChange
<1>5. Ends(d) => Writers' = Writers \ {d} /\ overlap' = overlap \ {d}
  BY EndFacts DEF End, EndChange
<1> QED  BY <1>1, <1>2, <1>3, <1>4, <1>5

\* Overlapping changes are marked.
LEMMA OverlapStep == LInv /\ [LogNext]_logVars => OverlapMarked'
<1> SUFFICES ASSUME LInv, [LogNext]_logVars
             PROVE  OverlapMarked'
  OBVIOUS
<1>0. OverlapMarked /\ LogTypeOK
  BY DEF LInv
<1>1. CASE Tick \/ UNCHANGED logVars
  BY <1>0, <1>1 DEF Tick, logVars, local, OverlapMarked, Writers
<1>2. ASSUME NEW d \in Drivers, Idles(d) \/ OpenTmp(d) \/ Flush(d)
      PROVE  OverlapMarked'
  <2>1. Writers' = Writers /\ overlap' = overlap
    BY <1>2, WriterSteps
  <2> QED  BY <1>0, <2>1 DEF OverlapMarked
<1>3. ASSUME NEW d \in Drivers, TakeEntry(d) \/ RecordNew(d), pc'[d] = "opening"
      PROVE  OverlapMarked'
  <2>1. /\ Writers' = Writers \cup {d}
        /\ overlap' = IF Writers = {} THEN {} ELSE overlap \cup Writers \cup {d}
    BY <1>3, WriterSteps
  <2> QED  BY <1>0, <2>1 DEF OverlapMarked
<1>4. ASSUME NEW d \in Drivers, Replaces(d) \/ Ends(d)
      PROVE  OverlapMarked'
  <2>1. Writers' = Writers \ {d} /\ overlap' = overlap \ {d}
    BY <1>4, WriterSteps
  <2> QED  BY <1>0, <2>1 DEF OverlapMarked
<1> QED  BY <1>0, <1>1, <1>2, <1>3, <1>4, LogSteps DEF Idles

\* A change that overlaps no other finds the files as it left them.
LEMMA AloneStep == LInv /\ [LogNext]_logVars => Alone'
<1> SUFFICES ASSUME LInv, [LogNext]_logVars, NEW w \in Writers', w \notin overlap'
             PROVE  /\ log' # Torn /\ StayIn(log', entries'[w])
                    /\ pc'[w] = "flushing" => fd'[w] = "tmp" /\ tmp' = Torn
                    /\ pc'[w] = "replacing" => tmp' = entries'[w]
  BY DEF Alone
<1>0. /\ w \in Writers /\ w \notin overlap =>
            /\ log # Torn /\ StayIn(log, entries[w])
            /\ pc[w] = "flushing" => fd[w] = "tmp" /\ tmp = Torn
            /\ pc[w] = "replacing" => tmp = entries[w]
      /\ \A d \in Writers : w \in Writers /\ w \notin overlap => d = w
      /\ LogTypeOK /\ w \in Drivers
  BY DEF LInv, Alone, OverlapMarked, Writers
<1>1. CASE Tick \/ UNCHANGED logVars
  BY <1>0, <1>1 DEF Tick, logVars, disk, local, Writers
<1>2. ASSUME NEW d \in Drivers, Idles(d)
      PROVE  /\ log' # Torn /\ StayIn(log', entries'[w])
             /\ pc'[w] = "flushing" => fd'[w] = "tmp" /\ tmp' = Torn
             /\ pc'[w] = "replacing" => tmp' = entries'[w]
  BY <1>0, <1>2, WriterSteps
<1>3. ASSUME NEW d \in Drivers, OpenTmp(d)
      PROVE  /\ log' # Torn /\ StayIn(log', entries'[w])
             /\ pc'[w] = "flushing" => fd'[w] = "tmp" /\ tmp' = Torn
             /\ pc'[w] = "replacing" => tmp' = entries'[w]
  <2>1. d = w /\ w \in Writers /\ w \notin overlap
    BY <1>0, <1>3, WriterSteps
  <2> QED  BY <1>0, <1>3, <2>1 DEF OpenTmp, LogTypeOK
<1>4. ASSUME NEW d \in Drivers, Flush(d)
      PROVE  /\ log' # Torn /\ StayIn(log', entries'[w])
             /\ pc'[w] = "flushing" => fd'[w] = "tmp" /\ tmp' = Torn
             /\ pc'[w] = "replacing" => tmp' = entries'[w]
  <2>1. d = w /\ w \in Writers /\ w \notin overlap
    BY <1>0, <1>4, WriterSteps
  <2>2. /\ pc[w] = "flushing" /\ pc'[w] = "replacing" /\ log' = log /\ tmp' = entries[w]
        /\ entries' = entries
    BY <1>0, <1>4, <2>1, FlushFacts DEF LogTypeOK
  <2> QED  BY <1>0, <2>1, <2>2
<1>5. ASSUME NEW d \in Drivers, TakeEntry(d) \/ RecordNew(d), pc'[d] = "opening"
      PROVE  /\ log' # Torn /\ StayIn(log', entries'[w])
             /\ pc'[w] = "flushing" => fd'[w] = "tmp" /\ tmp' = Torn
             /\ pc'[w] = "replacing" => tmp' = entries'[w]
  <2>1. w = d
    BY <1>5, WriterSteps
  <2>2. log' = log
    BY <1>5 DEF TakeEntry, RecordNew, disk
  <2> QED  BY <1>5, <2>1, <2>2, ChangeFacts
<1>6. ASSUME NEW d \in Drivers, Replaces(d)
      PROVE  FALSE
  <2>1. w \in Writers \ {d} /\ w \notin overlap /\ d \in Writers
    BY <1>6, WriterSteps
  <2> QED  BY <1>0, <2>1
<1>7. ASSUME NEW d \in Drivers, Ends(d)
      PROVE  /\ log' # Torn /\ StayIn(log', entries'[w])
             /\ pc'[w] = "flushing" => fd'[w] = "tmp" /\ tmp' = Torn
             /\ pc'[w] = "replacing" => tmp' = entries'[w]
  <2>1. w \in Writers \ {d} /\ w \notin overlap
    BY <1>7, WriterSteps
  <2>2. UNCHANGED <<log, tmp>> /\ End(d)
    BY <1>7, EndFacts
  <2>3. pc'[w] = pc[w] /\ fd'[w] = fd[w] /\ entries'[w] = entries[w]
    BY <1>0, <2>1, <2>2 DEF End, LogTypeOK
  <2> QED  BY <1>0, <2>1, <2>2, <2>3
<1> QED  BY <1>0, <1>1, <1>2, <1>3, <1>4, <1>5, <1>6, <1>7, LogSteps DEF Idles

-----------------------------------------------------------------------------
(* The theorems. *)

\* The strengthened invariant holds in every reachable state.
THEOREM LogInductive == LogSpec => []LInv
<1>1. LogInit => LInv
  <2> SUFFICES ASSUME LogInit  PROVE LInv
    OBVIOUS
  <2> USE LogAssumption DEF LogInit
  <2>1. LogTypeOK
    BY DEF LogTypeOK, Days
  <2>2. AllSound
    BY DEF AllSound, Sound, OnceEach, LearnedBy
  <2>3. Writers = {} /\ overlap = {}
    BY DEF Writers
  <2> QED  BY <2>1, <2>2, <2>3 DEF LInv, ContextKnown, OverlapMarked, Alone
<1>2. LInv /\ [LogNext]_logVars => LInv'
  BY LogTypeStep, SoundStep, ContextStep, OverlapStep, AloneStep DEF LInv
<1> QED  BY <1>1, <1>2, PTL DEF LogSpec

\* Every variable keeps its type, for any drivers, keys and days.
THEOREM LogTypeCorrect == LogSpec => []LogTypeOK
<1>1. LInv => LogTypeOK
  BY DEF LInv
<1> QED  BY <1>1, LogInductive, PTL

\* A ticker and a day have at most one entry in the log, whatever dies halfway
\* and however many drivers write the file at the same time.
THEOREM KeysAreUnique == LogSpec => []OneEntryPerKey
<1>1. LInv => OneEntryPerKey
  BY DEF LInv, AllSound, Sound, OnceEach, OneEntryPerKey
<1> QED  BY <1>1, LogInductive, PTL

\* No run is shown a lesson learned after the day it analyses.
THEOREM NobodyLooksAhead == LogSpec => []NoLookAhead
<1>1. LInv => NoLookAhead
  BY DEF LInv, ContextKnown, NoLookAhead
<1> QED  BY <1>1, LogInductive, PTL

\* As long as no two changes overlap, the log keeps every entry at its place,
\* changes none that is resolved, and is never found torn.
THEOREM EntriesAreKept == LogSpec => EntriesStay
<1> DEFINE Kept == log # Torn /\ overlap = {} =>
                      /\ log' # Torn
                      /\ \A i \in DOMAIN log :
                            /\ i \in DOMAIN log' /\ log'[i].key = log[i].key
                            /\ log[i].status = "resolved" => log'[i] = log[i]
<1>1. LInv /\ [LogNext]_logVars => Kept
  <2> SUFFICES ASSUME LInv, [LogNext]_logVars, log # Torn, overlap = {}
               PROVE  log' # Torn /\ StayIn(log, log')
    BY DEF StayIn
  <2>1. log' = log => log' # Torn /\ StayIn(log, log')
    BY DEF StayIn
  <2>2. CASE Tick \/ UNCHANGED logVars
    BY <2>1, <2>2 DEF Tick, logVars, disk
  <2>3. ASSUME NEW d \in Drivers,
               Idles(d) \/ OpenTmp(d) \/ TakeEntry(d) \/ RecordNew(d) \/ Ends(d)
        PROVE  log' = log
    BY <2>3, EndFacts DEF Idles, StartRun, ReadContext, OpenTmp, TakeEntry, RecordNew, disk
  <2>4. ASSUME NEW d \in Drivers, Flush(d)
        PROVE  log' = log
    <3>1. d \in Writers \ overlap /\ pc[d] = "flushing"
      BY <2>4, FlushFacts DEF Writers
    <3> QED  BY <2>4, <3>1, FlushFacts DEF LInv, Alone
  <2>5. ASSUME NEW d \in Drivers, Replaces(d)
        PROVE  log' # Torn /\ StayIn(log, log')
    <3>1. pc[d] = "replacing" /\ log' = tmp
      BY <2>5, ReplaceFacts DEF LInv
    <3>2. tmp = entries[d] /\ StayIn(log, entries[d])
      BY <3>1 DEF LInv, Alone, Writers
    <3>3. entries[d] # Torn
      BY TornAssumption DEF LInv, LogTypeOK
    <3> QED  BY <3>1, <3>2, <3>3
  <2> QED  BY <2>1, <2>2, <2>3, <2>4, <2>5, LogSteps DEF LInv, Idles
<1> HIDE DEF Kept
<1>2. LInv /\ [LogNext]_logVars => [Kept]_logVars
  BY <1>1
<1>3. LogSpec => [][Kept]_logVars
  BY <1>2, LogInductive, PTL DEF LogSpec
<1> QED  BY <1>3 DEF Kept, EntriesStay
==============================================================================
