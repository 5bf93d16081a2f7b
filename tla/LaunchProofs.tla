----------------------------- MODULE LaunchProofs -----------------------------
(***************************************************************************)
(* For every number of processes, launches, selections and units: no launch *)
(* goes on from another selection's work, since what a journal or its       *)
(* sibling holds, torn or whole, was written by launches of the key it is   *)
(* named by; launches of other selections leave a journal alone; and the    *)
(* exit code tells what is on disk.                                         *)
(***************************************************************************)
EXTENDS Launches, SequenceTheorems, TLAPS

Contents == Seq(Nat) \cup {Nothing, Torn}

Place == {"off", "clear", "load", "work", "mkdir", "open", "write", "rename", "forget",
          "unlink"}

Shaped ==
    /\ selected \in Seq(Selections)
    /\ pc \in [Processes -> Place]
    /\ no \in [Processes -> Nat]
    /\ mem \in [Processes -> Seq(Nat)]
    /\ journal \in [Selections -> Contents] /\ tmp \in [Selections -> Contents]
    /\ \A p \in Processes : Alive(p) => no[p] \in 1..Len(selected)

\* Every unit was produced by a launch there was, under the selection sel.
Of(content, sel) ==
    \A i \in DOMAIN content :
        content[i] \in 1..Len(selected) /\ selected[content[i]] = sel

\* The invariant: the siblings, and what is in memory, as well as the journals.
OwnWork ==
    /\ Shaped
    /\ \A p \in Processes : IF Alive(p) THEN Of(mem[p], selected[no[p]]) ELSE mem[p] = <<>>
    /\ \A k \in Selections : Whole(journal[k]) => Of(journal[k], k)
    /\ \A k \in Selections : Whole(tmp[k]) => Of(tmp[k], k)

LEMMA OwnWorkIsNotForeign == OwnWork => NoForeignWork
  BY DEF OwnWork, NoForeignWork, Of, MadeUnder, Whole

\* At first there is no work at all.
LEMMA InitOwnWork == LaunchInit => OwnWork
<1> SUFFICES ASSUME LaunchInit PROVE OwnWork
  OBVIOUS
<1>1. /\ selected = <<>> /\ pc = [p \in Processes |-> "off"]
      /\ no = [p \in Processes |-> 0] /\ mem = [p \in Processes |-> <<>>]
      /\ journal = [k \in Selections |-> Nothing] /\ tmp = [k \in Selections |-> Nothing]
  BY DEF LaunchInit
<1>2. journal \in [Selections -> Contents] /\ tmp \in [Selections -> Contents]
  BY <1>1 DEF Contents
<1>3. /\ selected \in Seq(Selections) /\ pc \in [Processes -> Place]
      /\ no \in [Processes -> Nat] /\ mem \in [Processes -> Seq(Nat)]
  BY <1>1 DEF Place
<1>4. \A p \in Processes : ~Alive(p)
  BY <1>1 DEF Alive
<1> QED
  BY <1>1, <1>2, <1>3, <1>4 DEF OwnWork, Shaped, Whole

\* A step that touches neither work nor lives.
LEMMA KeepOwnWork ==
  ASSUME OwnWork, UNCHANGED <<journal, tmp, mem, selected, no>>,
         pc' \in [Processes -> Place],
         \A q \in Processes : pc'[q] = "off" <=> pc[q] = "off"
  PROVE  OwnWork'
  BY DEF OwnWork, Shaped, Of, Whole, Alive, Contents

\* Launches that end take their memory with them; a journal may be lost or torn.
LEMMA EndOwnWork ==
  ASSUME OwnWork, NEW P \in SUBSET Processes, NEW how, EndOf(P, how),
         tmp' = tmp, journal' \in [Selections -> Contents],
         \A k \in Selections : journal'[k] \in {journal[k], Nothing, Torn}
  PROVE  OwnWork'
<1>1. \A q \in Processes :
        \/ pc'[q] = "off" /\ mem'[q] = <<>>
        \/ pc'[q] = pc[q] /\ mem'[q] = mem[q] /\ no'[q] = no[q]
  BY DEF EndOf, OwnWork, Shaped
<1>2. Shaped'
  <2>1. /\ pc' \in [Processes -> Place] /\ no' \in [Processes -> Nat]
        /\ mem' \in [Processes -> Seq(Nat)]
    BY DEF EndOf, OwnWork, Shaped, Place
  <2>2. selected' = selected /\ selected' \in Seq(Selections) /\ tmp' \in [Selections -> Contents]
    BY DEF EndOf, OwnWork, Shaped
  <2> QED
    BY <1>1, <2>1, <2>2 DEF OwnWork, Shaped, Alive, Contents
<1>3. \A k \in Selections : Whole(journal[k])' => journal'[k] = journal[k]
  BY DEF Whole
<1>4. selected' = selected
  BY DEF EndOf
<1> QED
  BY <1>1, <1>2, <1>3, <1>4 DEF OwnWork, Of, Alive, Whole

LEMMA ExitOwnWork ==
  ASSUME OwnWork, NEW p \in Processes, NEW how, Exit(p, how), UNCHANGED <<journal, tmp>>
  PROVE  OwnWork'
  BY EndOwnWork DEF Exit, OwnWork, Shaped

\* A launch gets a number no work bears.
LEMMA StartOwnWork ==
  ASSUME OwnWork, NEW p \in Processes, Start(p)
  PROVE  OwnWork'
<1>1. PICK sel \in Selections, journals \in BOOLEAN, clear \in BOOLEAN :
        /\ selected' = Append(selected, sel)
        /\ pc' = [pc EXCEPT ![p] = IF clear /\ dir THEN "clear" ELSE "load"]
  BY DEF Start
<1>2. /\ no' = [no EXCEPT ![p] = Len(selected) + 1] /\ ~Alive(p)
      /\ UNCHANGED <<journal, tmp, mem>>
  BY DEF Start, files
<1>3. /\ selected' \in Seq(Selections) /\ Len(selected') = Len(selected) + 1
      /\ \A i \in 1..Len(selected) : selected'[i] = selected[i]
      /\ Len(selected) \in Nat
  BY <1>1 DEF OwnWork, Shaped
<1>4. ASSUME NEW content, NEW k, Of(content, k)
      PROVE  Of(content, k)'
  BY <1>3, <1>4 DEF Of
<1>5. \A q \in Processes : q # p => pc'[q] = pc[q] /\ no'[q] = no[q]
  BY <1>1, <1>2 DEF OwnWork, Shaped
<1>6. pc'[p] # "off" /\ no'[p] = Len(selected) + 1 /\ mem'[p] = <<>>
  BY <1>1, <1>2 DEF OwnWork, Shaped
<1>7. Shaped'
  <2>1. pc' \in [Processes -> Place] /\ no' \in [Processes -> Nat]
    BY <1>1, <1>2, <1>3 DEF OwnWork, Shaped, Place
  <2>2. \A q \in Processes : Alive(q)' => no'[q] \in 1..Len(selected')
    BY <1>3, <1>5, <1>6 DEF OwnWork, Shaped, Alive
  <2>3. journal' \in [Selections -> Contents] /\ tmp' \in [Selections -> Contents]
        /\ mem' \in [Processes -> Seq(Nat)]
    BY <1>2 DEF OwnWork, Shaped, Contents
  <2> QED
    BY <1>3, <2>1, <2>2, <2>3 DEF Shaped, Contents
<1>8. \A q \in Processes :
        IF Alive(q)' THEN Of(mem[q], selected[no[q]])' ELSE mem'[q] = <<>>
  <2> SUFFICES ASSUME NEW q \in Processes
               PROVE  IF Alive(q)' THEN Of(mem[q], selected[no[q]])' ELSE mem'[q] = <<>>
    OBVIOUS
  <2>1. CASE q = p
    BY <2>1, <1>6 DEF Of, Alive
  <2>2. CASE q # p
    <3>1. CASE Alive(q)
      <4>1. Of(mem[q], selected[no[q]]) /\ no[q] \in 1..Len(selected)
        BY <3>1 DEF OwnWork, Shaped
      <4>2. selected'[no'[q]] = selected[no[q]] /\ mem'[q] = mem[q]
        BY <4>1, <1>2, <1>3, <1>5, <2>2
      <4> QED
        BY <4>1, <4>2, <1>3, <1>5, <2>2, <3>1 DEF Of, Alive
    <3>2. CASE ~Alive(q)
      BY <3>2, <2>2, <1>2, <1>5 DEF OwnWork, Alive
    <3> QED
      BY <3>1, <3>2
  <2> QED
    BY <2>1, <2>2
<1>9. \A k \in Selections : /\ Whole(journal[k])' => Of(journal[k], k)'
                            /\ Whole(tmp[k])' => Of(tmp[k], k)'
  BY <1>2, <1>3 DEF OwnWork, Of, Whole
<1> QED
  BY <1>7, <1>8, <1>9 DEF OwnWork

\* Key is in Selections for whoever is alive.
LEMMA KeyOf ==
  ASSUME OwnWork, NEW p \in Processes, Alive(p)
  PROVE  Key(p) \in Selections /\ Key(p) = selected[no[p]] /\ Sibling(Key(p)) = Key(p)
  BY DEF OwnWork, Shaped, Key, RunKey, Sibling

\* Steps that change one journal, one sibling, or both of one key: to nothing, to
\* something torn, or to work of that key.
LEMMA WriteOwnWork ==
  ASSUME OwnWork, NEW k \in Selections, NEW j \in Contents, NEW t \in Contents,
         Whole(j) => Of(j, k), Whole(t) => Of(t, k),
         journal' = [journal EXCEPT ![k] = j], tmp' = [tmp EXCEPT ![k] = t],
         UNCHANGED <<mem, selected, no>>, pc' \in [Processes -> Place],
         \A q \in Processes : pc'[q] = "off" <=> pc[q] = "off"
  PROVE  OwnWork'
<1>1. /\ journal' \in [Selections -> Contents] /\ tmp' \in [Selections -> Contents]
      /\ journal'[k] = j /\ tmp'[k] = t
      /\ \A l \in Selections : l # k => journal'[l] = journal[l] /\ tmp'[l] = tmp[l]
  BY DEF OwnWork, Shaped
<1>2. Shaped'
  BY <1>1 DEF OwnWork, Shaped, Alive, Contents
<1>3. \A l \in Selections : /\ Whole(journal[l])' => Of(journal[l], l)'
                            /\ Whole(tmp[l])' => Of(tmp[l], l)'
  <2> SUFFICES ASSUME NEW l \in Selections
               PROVE  /\ Whole(journal[l])' => Of(journal[l], l)'
                      /\ Whole(tmp[l])' => Of(tmp[l], l)'
    OBVIOUS
  <2>1. CASE l = k
    BY <2>1, <1>1 DEF Of, Whole
  <2>2. CASE l # k
    BY <2>2, <1>1 DEF OwnWork, Of, Whole
  <2> QED
    BY <2>1, <2>2
<1>4. \A q \in Processes :
        IF Alive(q)' THEN Of(mem[q], selected[no[q]])' ELSE mem'[q] = <<>>
  BY DEF OwnWork, Alive, Of
<1> QED
  BY <1>2, <1>3, <1>4 DEF OwnWork

\* Steps that change what one living launch has in memory.
LEMMA RememberOwnWork ==
  ASSUME OwnWork, NEW p \in Processes, Alive(p), NEW m \in Seq(Nat),
         Of(m, selected[no[p]]), mem' = [mem EXCEPT ![p] = m],
         UNCHANGED <<journal, tmp, selected, no>>, pc' \in [Processes -> Place],
         \A q \in Processes : pc'[q] = "off" <=> pc[q] = "off"
  PROVE  OwnWork'
<1>1. /\ mem' \in [Processes -> Seq(Nat)] /\ mem'[p] = m
      /\ \A q \in Processes : q # p => mem'[q] = mem[q]
  BY DEF OwnWork, Shaped
<1>2. Shaped'
  BY <1>1 DEF OwnWork, Shaped, Alive, Contents
<1>3. \A q \in Processes :
        IF Alive(q)' THEN Of(mem[q], selected[no[q]])' ELSE mem'[q] = <<>>
  <2> SUFFICES ASSUME NEW q \in Processes
               PROVE  IF Alive(q)' THEN Of(mem[q], selected[no[q]])' ELSE mem'[q] = <<>>
    OBVIOUS
  <2>1. CASE q = p
    BY <2>1, <1>1 DEF Of, Alive
  <2>2. CASE q # p
    BY <2>2, <1>1 DEF OwnWork, Of, Alive
  <2> QED
    BY <2>1, <2>2
<1>4. \A k \in Selections : /\ Whole(journal[k])' => Of(journal[k], k)'
                            /\ Whole(tmp[k])' => Of(tmp[k], k)'
  BY DEF OwnWork, Of, Whole
<1> QED
  BY <1>2, <1>3, <1>4 DEF OwnWork

LEMMA NextOwnWork == OwnWork /\ LaunchNext => OwnWork'
<1> SUFFICES ASSUME OwnWork, LaunchNext PROVE OwnWork'
  OBVIOUS
<1>0. /\ pc \in [Processes -> Place] /\ mem \in [Processes -> Seq(Nat)]
      /\ journal \in [Selections -> Contents] /\ tmp \in [Selections -> Contents]
  BY DEF OwnWork, Shaped
<1>1. ASSUME NEW p \in Processes, ClearDir(p) \/ Begin(p) \/ MakeDir(p) \/ Deliver(p)
      PROVE  OwnWork'
  <2>1. /\ UNCHANGED <<journal, tmp, mem, selected, no>> /\ pc[p] # "off"
        /\ \E to \in Place \ {"off"} : pc' = [pc EXCEPT ![p] = to]
    BY <1>1 DEF ClearDir, Begin, AfterUnit, MakeDir, Deliver, DeliverTo, Ready, Place, files,
                fixed
  <2> QED
    BY <1>0, <2>1, KeepOwnWork
<1>2. ASSUME NEW p \in Processes,
             ClearFails(p) \/ LoadFails(p) \/ StageFails(p) \/ DaemonGone(p) \/ SaveFails(p)
               \/ DeliverFails(p) \/ RecordFails(p) \/ Kill(p)
      PROVE  OwnWork'
  <2>1. UNCHANGED <<journal, tmp>> /\ \E how : Exit(p, how)
    BY <1>2 DEF ClearFails, LoadFails, StageFails, DaemonGone, SaveFails, DeliverFails,
                RecordFails, Kill, files
  <2> QED
    BY <2>1, ExitOwnWork
<1>3. ASSUME NEW p \in Processes, Forget(p)
      PROVE  OwnWork'
  <2>1. UNCHANGED <<journal, tmp>> /\ pc[p] = "forget"
    BY <1>3 DEF Forget, files
  <2>2. CASE pc' = [pc EXCEPT ![p] = "unlink"] /\ UNCHANGED <<mem, fixed>>
    <3>1. UNCHANGED <<mem, selected, no>>
      BY <2>2 DEF fixed
    <3> QED
      BY <1>0, <2>1, <2>2, <3>1, KeepOwnWork DEF Place
  <2>3. CASE Exit(p, "0")
    BY <2>1, <2>3, ExitOwnWork
  <2> QED
    BY <1>3, <2>2, <2>3 DEF Forget
<1>4. ASSUME NEW p \in Processes, Unlink(p)
      PROVE  OwnWork'
  <2>1. tmp' = tmp /\ \E how : EndOf({p}, how)
    BY <1>4 DEF Unlink
  <2>2. journal' = [journal EXCEPT ![Key(p)] = Nothing]
    BY <1>4 DEF Unlink
  <2>3. /\ journal' \in [Selections -> Contents]
        /\ \A k \in Selections : journal'[k] \in {journal[k], Nothing, Torn}
    BY <1>0, <2>2 DEF Contents
  <2> QED
    BY <2>1, <2>3, EndOwnWork
<1>5. ASSUME PowerLoss
      PROVE  OwnWork'
  <2>1. /\ tmp' = tmp
        /\ \E P \in SUBSET Processes : \E how : EndOf(P, how)
    BY <1>5 DEF PowerLoss
  <2>2. /\ journal' \in [Selections -> Contents]
        /\ \A k \in Selections : journal'[k] \in {journal[k], Nothing, Torn}
    <3>1. PICK lost : journal' = [k \in Selections |-> IF k \in lost THEN Torn ELSE journal[k]]
      BY <1>5 DEF PowerLoss
    <3> QED
      BY <1>0, <3>1 DEF Contents
  <2> QED
    BY <2>1, <2>2, EndOwnWork
<1>6. ASSUME NEW p \in Processes, Start(p)
      PROVE  OwnWork'
  BY <1>6, StartOwnWork
<1>7. ASSUME NEW p \in Processes, NEW k \in Selections, ClearKey(p, k)
      PROVE  OwnWork'
  <2>1. /\ journal' = [journal EXCEPT ![k] = Nothing] /\ tmp' = [tmp EXCEPT ![k] = Nothing]
        /\ UNCHANGED <<mem, selected, no, pc>>
    BY <1>7 DEF ClearKey, fixed
  <2>2. Nothing \in Contents /\ ~Whole(Nothing)
    BY DEF Contents, Whole
  <2> QED
    BY <1>0, <2>1, <2>2, WriteOwnWork
<1>8. ASSUME NEW p \in Processes, Resume(p)
      PROVE  OwnWork'
  <2>1. /\ pc[p] = "load" /\ journal[Key(p)] \notin {Nothing, Torn}
        /\ mem' = [mem EXCEPT ![p] = journal[Key(p)]]
        /\ pc' = [pc EXCEPT ![p] = "work"]
        /\ UNCHANGED <<journal, tmp, selected, no>>
    BY <1>8 DEF Resume, files, fixed
  <2>2. Alive(p) /\ Key(p) \in Selections /\ Key(p) = selected[no[p]]
    BY <2>1, KeyOf DEF Alive
  <2>3. journal[Key(p)] \in Seq(Nat) /\ Of(journal[Key(p)], selected[no[p]])
    BY <1>0, <2>1, <2>2 DEF OwnWork, Whole, Contents
  <2>4. /\ pc' \in [Processes -> Place]
        /\ \A q \in Processes : pc'[q] = "off" <=> pc[q] = "off"
    BY <1>0, <2>1 DEF Place
  <2> QED
    BY <2>1, <2>2, <2>3, <2>4, RememberOwnWork
<1>9. ASSUME NEW p \in Processes, Work(p)
      PROVE  OwnWork'
  <2>1. /\ pc[p] = "work" /\ mem' = [mem EXCEPT ![p] = Append(mem[p], no[p])]
        /\ \E to \in {"mkdir", "work"} : pc' = [pc EXCEPT ![p] = to]
        /\ UNCHANGED <<journal, tmp, selected, no>>
    BY <1>9 DEF Work, Working, AfterUnit, files, fixed
  <2>2. Alive(p) /\ no[p] \in 1..Len(selected) /\ no[p] \in Nat /\ mem[p] \in Seq(Nat)
    BY <2>1 DEF OwnWork, Shaped, Alive
  <2>3. Of(mem[p], selected[no[p]])
    BY <2>2 DEF OwnWork
  <2>4. Append(mem[p], no[p]) \in Seq(Nat) /\ Of(Append(mem[p], no[p]), selected[no[p]])
    BY <2>2, <2>3 DEF Of
  <2>5. /\ pc' \in [Processes -> Place]
        /\ \A q \in Processes : pc'[q] = "off" <=> pc[q] = "off"
    BY <1>0, <2>1 DEF Place
  <2> QED
    BY <2>1, <2>2, <2>4, <2>5, RememberOwnWork
<1>10. ASSUME NEW p \in Processes, OpenSibling(p)
       PROVE  OwnWork'
  <2>1. /\ pc[p] = "open" /\ tmp' = [tmp EXCEPT ![Sibling(Key(p))] = Torn]
        /\ pc' = [pc EXCEPT ![p] = "write"] /\ UNCHANGED <<journal, mem, selected, no>>
    BY <1>10 DEF OpenSibling, fixed
  <2>2. Key(p) \in Selections /\ Sibling(Key(p)) = Key(p)
    BY <2>1, KeyOf DEF Alive
  <2>3. Torn \in Contents /\ ~Whole(Torn)
    BY DEF Contents, Whole
  <2>4. /\ pc' \in [Processes -> Place]
        /\ \A q \in Processes : pc'[q] = "off" <=> pc[q] = "off"
    BY <1>0, <2>1 DEF Place
  <2>5. /\ journal' = [journal EXCEPT ![Key(p)] = journal[Key(p)]]
        /\ journal[Key(p)] \in Contents
        /\ Whole(journal[Key(p)]) => Of(journal[Key(p)], Key(p))
    BY <1>0, <2>1, <2>2 DEF OwnWork
  <2> QED
    BY <2>1, <2>2, <2>3, <2>4, <2>5, WriteOwnWork
<1>11. ASSUME NEW p \in Processes, WriteSibling(p)
       PROVE  OwnWork'
  <2>1. /\ pc[p] = "write" /\ pc' = [pc EXCEPT ![p] = "rename"]
        /\ UNCHANGED <<mem, selected, no>>
    BY <1>11 DEF WriteSibling, fixed
  <2>2. Alive(p) /\ Key(p) \in Selections /\ Key(p) = selected[no[p]] /\ Sibling(Key(p)) = Key(p)
    BY <2>1, KeyOf DEF Alive
  <2>3. PICK content \in {mem[p], Torn} :
          /\ tmp' = IF fd[p] = "tmp" THEN [tmp EXCEPT ![Key(p)] = content] ELSE tmp
          /\ journal' = IF fd[p] = "journal" THEN [journal EXCEPT ![Key(p)] = content]
                        ELSE journal
    BY <1>11, <2>2 DEF WriteSibling, Content
  <2>4. content \in Contents /\ (Whole(content) => Of(content, Key(p)))
    BY <1>0, <2>2, <2>3 DEF OwnWork, Contents, Whole
  <2>5. /\ pc' \in [Processes -> Place]
        /\ \A q \in Processes : pc'[q] = "off" <=> pc[q] = "off"
    BY <1>0, <2>1 DEF Place
  <2>6. /\ journal[Key(p)] \in Contents /\ tmp[Key(p)] \in Contents
        /\ Whole(journal[Key(p)]) => Of(journal[Key(p)], Key(p))
        /\ Whole(tmp[Key(p)]) => Of(tmp[Key(p)], Key(p))
    BY <1>0, <2>2 DEF OwnWork
  <2>7. PICK j \in {content, journal[Key(p)]}, t \in {content, tmp[Key(p)]} :
          /\ journal' = [journal EXCEPT ![Key(p)] = j]
          /\ tmp' = [tmp EXCEPT ![Key(p)] = t]
    BY <1>0, <2>2, <2>3
  <2> QED
    BY <2>1, <2>2, <2>4, <2>5, <2>6, <2>7, WriteOwnWork
<1>12. ASSUME NEW p \in Processes, Rename(p)
       PROVE  OwnWork'
  <2>1. /\ pc[p] = "rename" /\ pc' = [pc EXCEPT ![p] = "work"]
        /\ journal' = [journal EXCEPT ![Key(p)] = tmp[Sibling(Key(p))]]
        /\ tmp' = [tmp EXCEPT ![Sibling(Key(p))] = Nothing]
        /\ UNCHANGED <<mem, selected, no>>
    BY <1>12 DEF Rename, fixed
  <2>2. Key(p) \in Selections /\ Sibling(Key(p)) = Key(p)
    BY <2>1, KeyOf DEF Alive
  <2>3. /\ tmp[Key(p)] \in Contents /\ Nothing \in Contents /\ ~Whole(Nothing)
        /\ Whole(tmp[Key(p)]) => Of(tmp[Key(p)], Key(p))
    BY <1>0, <2>2 DEF OwnWork, Whole, Contents
  <2>4. /\ pc' \in [Processes -> Place]
        /\ \A q \in Processes : pc'[q] = "off" <=> pc[q] = "off"
    BY <1>0, <2>1 DEF Place
  <2> QED
    BY <2>1, <2>2, <2>3, <2>4, WriteOwnWork
<1>13. ASSUME NEW k \in Selections, Sync(k)
       PROVE  OwnWork'
  BY <1>0, <1>13, KeepOwnWork DEF Sync, process, fixed
<1> QED
  BY <1>1, <1>2, <1>3, <1>4, <1>5, <1>6, <1>7, <1>8, <1>9, <1>10, <1>11, <1>12, <1>13
     DEF LaunchNext

LEMMA StutterOwnWork == OwnWork /\ UNCHANGED launchVars => OwnWork'
  BY DEF OwnWork, Shaped, Of, Whole, Alive, Contents, launchVars, files, process, fixed

\* Whoever resumes, clears, dies or writes at the same time (cli.py, journal.py),
\* for every number of launches, selections and units: no launch goes on from
\* what was produced under another selection, and no journal holds it.
THEOREM NoForeignWorkHolds == LaunchSpec => []NoForeignWork
<1>1. OwnWork /\ [LaunchNext]_launchVars => OwnWork'
  BY NextOwnWork, StutterOwnWork
<1> QED
  BY InitOwnWork, <1>1, OwnWorkIsNotForeign, PTL DEF LaunchSpec

-----------------------------------------------------------------------------
(* Keys apart: the invariant. *)

Idle == {"off", "clear", "load"}

\* A launch whose journal nobody has interfered with.
Undisturbed(p) == Journals(p) /\ Key(p) \notin disturbed

\* The launch p by itself: who saves journals; a file is open while it is being
\* written; there is nothing in memory before the journal is read; and a launch
\* that is undisturbed writes its own sibling, then renames what it wrote.
InItself(p) ==
    /\ pc[p] \in Saving \cup {"unlink"} => journaling[p]
    /\ fd[p] # "none" => pc[p] = "write"
    /\ pc[p] \in Idle => mem[p] = <<>>
    /\ Undisturbed(p) =>
        /\ pc[p] = "write" => fd[p] = "tmp" /\ tmp[Key(p)] = Torn
        /\ pc[p] = "rename" => tmp[Key(p)] = mem[p]
        /\ pc[p] \notin Idle =>
              journal[Key(p)] =
                  IF pc[p] \notin Saving THEN mem[p]
                  ELSE IF mem[p] = <<>> THEN Nothing ELSE Front(mem[p])

\* Two launches that journal the same key have disturbed it.
Lone ==
    \A p, q \in Processes :
        p # q /\ Journals(p) /\ Journals(q) /\ Key(p) = Key(q) => Key(p) \in disturbed

Descriptor == {"none", "tmp", "journal", "gone"}

Apart ==
    /\ OwnWork /\ Len(selected) <= MaxLaunches
    /\ journaling \in [Processes -> BOOLEAN]
    /\ fd \in [Processes -> Descriptor]
    /\ Lone
    /\ \A p \in Processes : InItself(p)
    /\ \A k \in Selections : journal[k] = Torn => k \in disturbed

LEMMA ApartIsKeysApart == Apart => KeysApart
<1> SUFFICES ASSUME Apart PROVE KeysApart
  OBVIOUS
<1>1. ASSUME NEW p \in Processes, Journals(p), Key(p) \notin disturbed,
             pc[p] \notin {"clear", "load"}
      PROVE  pc[p] \notin Idle /\ Undisturbed(p) /\ InItself(p)
  BY <1>1 DEF Apart, Undisturbed, Journals, Alive, Idle
<1> QED
  BY <1>1 DEF Apart, KeysApart, InItself

\* A sequence of members of a set.
LEMMA SeqOfMembers ==
  ASSUME NEW S, NEW T, NEW s \in Seq(S), \A i \in 1..Len(s) : s[i] \in T
  PROVE  s \in Seq(T)
  BY SMTT(30)

\* Work is neither an absent file nor a torn one.
LEMMA WorkIsWhole ==
  ASSUME Apart, NEW p \in Processes
  PROVE  mem[p] \in Seq(Nat) /\ mem[p] # Torn /\ mem[p] # Nothing
<1>1. mem[p] \in Seq(Nat) /\ Len(selected) \in Nat /\ Len(selected) <= MaxLaunches
  BY DEF Apart, OwnWork, Shaped
<1>2. \A i \in DOMAIN mem[p] : mem[p][i] \in 1..Len(selected)
  <2>1. CASE Alive(p)
    BY <2>1 DEF Apart, OwnWork, Of
  <2>2. CASE ~Alive(p)
    BY <2>2 DEF Apart, OwnWork
  <2> QED
    BY <2>1, <2>2
<1>3. \A i \in 1..Len(mem[p]) : mem[p][i] \in Launch
  BY <1>1, <1>2, LaunchAssumption DEF Launch
<1>4. mem[p] \in Seq(Launch)
  <2> DEFINE work == mem[p]
  <2>1. work \in Seq(Nat) /\ \A i \in 1..Len(work) : work[i] \in Launch
    BY <1>1, <1>3
  <2> HIDE DEF work
  <2>2. work \in Seq(Launch)
    BY <2>1, SeqOfMembers
  <2> QED
    BY <2>2 DEF work
<1> QED
  BY <1>1, <1>4, LaunchAssumption

\* What precedes the last unit.
LEMMA FrontOfAppend ==
  ASSUME NEW s \in Seq(Nat), NEW x \in Nat
  PROVE  Front(Append(s, x)) = s /\ Append(s, x) # <<>>
<1> DEFINE a == Append(s, x)
<1>1. /\ a \in Seq(Nat) /\ a # <<>> /\ Len(a) = Len(s) + 1 /\ Len(s) \in Nat
      /\ \A i \in 1..Len(s) : a[i] = s[i]
  BY AppendProperties
<1> HIDE DEF a
<1>2. Front(a) = SubSeq(a, 1, Len(s))
  BY <1>1 DEF Front
<1>3. /\ SubSeq(a, 1, Len(s)) \in Seq(Nat) /\ Len(SubSeq(a, 1, Len(s))) = Len(s)
      /\ \A i \in 1..Len(s) : SubSeq(a, 1, Len(s))[i] = a[i]
  BY <1>1
<1>4. SubSeq(a, 1, Len(s)) = s
  BY <1>1, <1>3, SeqEqual
<1> QED
  BY <1>1, <1>2, <1>4 DEF a

\* Another launch that journals the key of an undisturbed one is that launch.
LEMMA OnlyOne ==
  ASSUME Apart, NEW p \in Processes, NEW q \in Processes, p # q, Journals(p), Undisturbed(q)
  PROVE  Key(p) # Key(q)
  BY DEF Apart, Lone, Undisturbed

\* A step of the launch p that keeps p as it should be and touches nothing of an
\* undisturbed launch that is past loading.
LEMMA LocalStep ==
  ASSUME Apart, OwnWork', NEW p \in Processes, InItself(p)',
         selected' = selected, \A k \in Selections : k \in disturbed => k \in disturbed',
         journaling' \in [Processes -> BOOLEAN], fd' \in [Processes -> Descriptor],
         Journals(p)' => Journals(p) /\ no'[p] = no[p],
         \A q \in Processes \ {p} :
            /\ pc'[q] = pc[q] /\ no'[q] = no[q] /\ mem'[q] = mem[q]
            /\ journaling'[q] = journaling[q]
            /\ fd'[q] # "none" => fd[q] # "none"
            /\ pc[q] \notin Idle /\ Undisturbed(q) /\ Key(q) \notin disturbed' =>
                  /\ fd'[q] = fd[q]
                  /\ journal'[Key(q)] = journal[Key(q)] /\ tmp'[Key(q)] = tmp[Key(q)],
         \A k \in Selections : journal'[k] = Torn => journal[k] = Torn \/ k \in disturbed'
  PROVE  Apart'
<1>1. \A q \in Processes : Journals(q)' => Journals(q) /\ Key(q)' = Key(q)
  BY DEF Journals, Alive, Key
<1>2. \A q \in Processes : Journals(q) => Key(q) \in Selections
  BY KeyOf DEF Journals, Apart
<1>3. Lone'
  BY <1>1, <1>2 DEF Lone, Apart
<1>4. ASSUME NEW q \in Processes, q # p
      PROVE  InItself(q)'
  <2>1. InItself(q)
    BY DEF Apart
  <2>2. Undisturbed(q)' => Undisturbed(q) /\ Key(q)' = Key(q) /\ Key(q) \notin disturbed'
    BY <1>1, <1>2 DEF Undisturbed
  <2>3. /\ pc'[q] = pc[q] /\ mem'[q] = mem[q] /\ journaling'[q] = journaling[q]
        /\ fd'[q] # "none" => fd[q] # "none"
        /\ pc[q] \notin Idle /\ Undisturbed(q) /\ Key(q) \notin disturbed' =>
                  /\ fd'[q] = fd[q]
                  /\ journal'[Key(q)] = journal[Key(q)] /\ tmp'[Key(q)] = tmp[Key(q)]
    BY <1>4
  <2>4. "write" \notin Idle /\ "rename" \notin Idle
    BY DEF Idle
  <2> QED
    BY <2>1, <2>2, <2>3, <2>4 DEF InItself
<1>5. \A k \in Selections : journal'[k] = Torn => k \in disturbed'
  BY DEF Apart
<1>6. Len(selected)' <= MaxLaunches
  BY DEF Apart
<1> QED
  BY <1>3, <1>4, <1>5, <1>6 DEF Apart

-----------------------------------------------------------------------------
(* Keys apart: the steps. *)

\* A launch that has ended is as it should be.
LEMMA EndedInItself ==
  ASSUME NEW p, pc'[p] = "off", mem'[p] = <<>>, fd'[p] = "none"
  PROVE  InItself(p)' /\ ~Journals(p)'
  BY DEF InItself, Undisturbed, Journals, Alive, Idle, Saving

\* What ending a launch does.
LEMMA ExitFacts ==
  ASSUME Apart, NEW p \in Processes, NEW how, Exit(p, how)
  PROVE  /\ pc'[p] = "off" /\ mem'[p] = <<>> /\ fd'[p] = "none" /\ selected' = selected
         /\ journaling' \in [Processes -> BOOLEAN] /\ fd' \in [Processes -> Descriptor]
         /\ \A q \in Processes \ {p} :
              /\ pc'[q] = pc[q] /\ no'[q] = no[q] /\ mem'[q] = mem[q]
              /\ journaling'[q] = journaling[q] /\ fd'[q] = fd[q]
<1>1. journaling \in [Processes -> BOOLEAN] /\ fd \in [Processes -> Descriptor]
  BY DEF Apart
<1>2. /\ fd'[p] = "none" /\ fd' \in [Processes -> Descriptor]
      /\ \A q \in Processes \ {p} : fd'[q] = fd[q]
  BY <1>1 DEF Exit, Descriptor
<1>3. EndOf({p}, how)
  BY DEF Exit
<1>4. journaling' \in [Processes -> BOOLEAN]
  BY <1>1, <1>3 DEF EndOf
<1>5. pc'[p] = "off" /\ mem'[p] = <<>> /\ selected' = selected
  BY <1>3 DEF EndOf
<1>6. \A q \in Processes \ {p} : pc'[q] = pc[q] /\ no'[q] = no[q] /\ mem'[q] = mem[q]
  BY <1>3 DEF EndOf
<1>7. \A q \in Processes \ {p} : journaling'[q] = (q \in {p} \/ journaling[q])
  BY <1>3 DEF EndOf
<1>8. \A q \in Processes \ {p} : journaling'[q] = journaling[q]
  BY <1>1, <1>7
<1> QED
  BY <1>2, <1>4, <1>5, <1>6, <1>8

\* A launch that fails or is killed leaves the journals as they are.
LEMMA ExitApart ==
  ASSUME Apart, OwnWork', NEW p \in Processes, NEW how, Exit(p, how),
         UNCHANGED <<journal, tmp, disturbed>>
  PROVE  Apart'
<1>1. InItself(p)' /\ ~Journals(p)'
  BY ExitFacts, EndedInItself
<1> QED
  BY <1>1, ExitFacts, LocalStep

\* A step that moves a launch on and leaves its memory and the others alone.
LEMMA MoveApart ==
  ASSUME Apart, OwnWork', NEW p \in Processes, NEW to,
         pc' = [pc EXCEPT ![p] = to], InItself(p)', pc[p] # "off",
         UNCHANGED <<selected, no, mem, journaling, fd, journal, tmp, disturbed>>
  PROVE  Apart'
<1>1. /\ journaling \in [Processes -> BOOLEAN] /\ fd \in [Processes -> Descriptor]
      /\ pc \in [Processes -> Place]
  BY DEF Apart, OwnWork, Shaped
<1>2. Journals(p)' => Journals(p)
  BY DEF Journals, Alive
<1>3. \A q \in Processes \ {p} : pc'[q] = pc[q]
  BY <1>1
<1> QED
  BY <1>1, <1>2, <1>3, LocalStep

\* A launch that begins finds the journal it is going to write gone.
LEMMA BeginApart ==
  ASSUME Apart, OwnWork', NEW p \in Processes, Begin(p)
  PROVE  Apart'
<1>1. /\ pc[p] = "load" /\ pc' = [pc EXCEPT ![p] = AfterUnit(p)]
      /\ journaling[p] => journal[Key(p)] = Nothing
      /\ UNCHANGED <<selected, no, mem, journaling, fd, journal, tmp, disturbed>>
  BY DEF Begin, files, fixed, history
<1>2. /\ pc'[p] = IF journaling[p] THEN "mkdir" ELSE "work"
      /\ fd[p] = "none" /\ mem[p] = <<>>
  BY <1>1 DEF AfterUnit, Apart, OwnWork, Shaped, InItself, Idle
<1>3. Key(p)' = Key(p)
  BY <1>1 DEF Key
<1>4. InItself(p)'
  BY <1>1, <1>2, <1>3 DEF InItself, Idle, Saving, Undisturbed, Journals
<1> QED
  BY <1>1, <1>4, MoveApart

\* The steps of a launch that neither read nor write a journal.
LEMMA QuietApart ==
  ASSUME Apart, OwnWork', NEW p \in Processes, ClearDir(p) \/ MakeDir(p) \/ Deliver(p)
  PROVE  Apart'
<1>1. PICK to : /\ pc' = [pc EXCEPT ![p] = to]
                /\ \/ pc[p] = "clear" /\ to = "load"
                   \/ pc[p] = "mkdir" /\ to = "open"
                   \/ pc[p] = "work" /\ to \in {"work", "forget"}
  BY DEF ClearDir, MakeDir, Deliver, DeliverTo, Ready
<1>2. UNCHANGED <<selected, no, mem, journaling, fd, journal, tmp, disturbed>>
  BY DEF ClearDir, MakeDir, Deliver, DeliverTo, files, fixed, history
<1>3. pc'[p] = to /\ InItself(p)
  BY <1>1 DEF Apart, OwnWork, Shaped
<1>4. Undisturbed(p)' => Undisturbed(p) /\ Key(p)' = Key(p)
  BY <1>1, <1>2 DEF Undisturbed, Journals, Alive, Key
<1>5. InItself(p)'
  BY <1>1, <1>2, <1>3, <1>4 DEF InItself, Idle, Saving
<1> QED
  BY <1>1, <1>2, <1>5, MoveApart

\* Going on from the journal, or from one unit to the next.
LEMMA RememberApart ==
  ASSUME Apart, OwnWork', NEW p \in Processes, Resume(p) \/ Work(p)
  PROVE  Apart'
<1>1. /\ journaling \in [Processes -> BOOLEAN] /\ fd \in [Processes -> Descriptor]
      /\ pc \in [Processes -> Place] /\ mem \in [Processes -> Seq(Nat)]
      /\ no \in [Processes -> Nat] /\ InItself(p)
  BY DEF Apart, OwnWork, Shaped
<1>2. UNCHANGED <<selected, no, journaling, fd, journal, tmp, disturbed>>
  BY DEF Resume, Work, files, fixed, history
<1>3. PICK to, m :
        /\ to \in {"work", "mkdir"}
        /\ pc' = [pc EXCEPT ![p] = to] /\ mem' = [mem EXCEPT ![p] = m]
        /\ pc[p] \in {"load", "work"}
  BY DEF Resume, Work, Working, AfterUnit
<1>4. /\ pc'[p] = to /\ mem'[p] = m
      /\ \A q \in Processes \ {p} : pc'[q] = pc[q] /\ mem'[q] = mem[q]
  BY <1>1, <1>3
<1>5. Key(p)' = Key(p) /\ (Undisturbed(p)' => Undisturbed(p))
  BY <1>2, <1>3 DEF Undisturbed, Journals, Alive, Key
<1>6. InItself(p)'
  <2>1. CASE Resume(p)
    <3>1. pc'[p] = "work" /\ mem'[p] = journal[Key(p)] /\ fd[p] = "none"
      BY <1>1, <2>1 DEF Resume, InItself
    <3> QED
      BY <1>2, <1>5, <3>1 DEF InItself, Idle, Saving
  <2>2. CASE Work(p)
    <3>1. /\ pc[p] = "work" /\ mem'[p] = Append(mem[p], no[p])
          /\ pc'[p] = IF journaling[p] THEN "mkdir" ELSE "work"
          /\ fd[p] = "none"
      BY <1>1, <2>2 DEF Work, Working, AfterUnit, InItself
    <3>2. Front(mem'[p]) = mem[p] /\ mem'[p] # <<>>
      BY <1>1, <3>1, FrontOfAppend
    <3>3. Undisturbed(p) => journal[Key(p)] = mem[p]
      BY <1>1, <3>1 DEF InItself, Idle, Saving
    <3>4. Undisturbed(p)' => journaling[p]
      BY <1>2 DEF Undisturbed, Journals
    <3> QED
      BY <1>2, <1>5, <3>1, <3>2, <3>3, <3>4 DEF InItself, Idle, Saving
  <2> QED
    BY <2>1, <2>2
<1>7. Journals(p)' => Journals(p)
  BY <1>2, <1>3 DEF Journals, Alive
<1> QED
  BY <1>1, <1>2, <1>4, <1>6, <1>7, LocalStep

\* Whoever is saving journals a key of its own.
LEMMA SaverJournals ==
  ASSUME Apart, NEW p \in Processes, pc[p] \in Saving \cup {"unlink"}
  PROVE  /\ Journals(p) /\ Key(p) \in Selections /\ Sibling(Key(p)) = Key(p)
         /\ fd[p] # "none" => pc[p] = "write"
         /\ Key(p) \notin disturbed => Undisturbed(p)
         /\ \A q \in Processes \ {p} : Undisturbed(q) => Key(q) # Key(p)
<1>1. journaling[p] /\ (fd[p] # "none" => pc[p] = "write")
  BY DEF Apart, InItself
<1>2. Alive(p) /\ Journals(p)
  BY <1>1 DEF Journals, Alive, Saving
<1>3. Key(p) \in Selections /\ Sibling(Key(p)) = Key(p)
  BY <1>2, KeyOf DEF Apart
<1>4. Key(p) \notin disturbed => Undisturbed(p)
  BY <1>2 DEF Undisturbed
<1>5. \A q \in Processes \ {p} : Undisturbed(q) => Key(q) # Key(p)
  BY <1>2, OnlyOne
<1> QED
  BY <1>1, <1>2, <1>3, <1>4, <1>5

\* The sibling is opened, and cut to nothing.
LEMMA OpenApart ==
  ASSUME Apart, OwnWork', NEW p \in Processes, OpenSibling(p)
  PROVE  Apart'
<1>1. /\ journaling \in [Processes -> BOOLEAN] /\ fd \in [Processes -> Descriptor]
      /\ pc \in [Processes -> Place] /\ tmp \in [Selections -> Contents] /\ InItself(p)
  BY DEF Apart, OwnWork, Shaped
<1>2. /\ pc[p] = "open" /\ pc' = [pc EXCEPT ![p] = "write"] /\ fd' = [fd EXCEPT ![p] = "tmp"]
      /\ tmp' = [tmp EXCEPT ![Sibling(Key(p))] = Torn]
      /\ UNCHANGED <<selected, no, journaling, mem, journal, disturbed>>
  BY DEF OpenSibling, fixed, history
<1>3. /\ Journals(p) /\ Key(p) \in Selections /\ Sibling(Key(p)) = Key(p)
      /\ \A q \in Processes \ {p} : Undisturbed(q) => Key(q) # Key(p)
  BY <1>2, SaverJournals DEF Saving
<1>4. /\ pc'[p] = "write" /\ fd'[p] = "tmp" /\ fd' \in [Processes -> Descriptor]
      /\ \A q \in Processes \ {p} : pc'[q] = pc[q] /\ fd'[q] = fd[q]
  BY <1>1, <1>2 DEF Descriptor
<1>5. \A q \in Processes \ {p} : Undisturbed(q) => tmp'[Key(q)] = tmp[Key(q)]
  BY <1>1, <1>2, <1>3, KeyOf DEF Undisturbed, Journals, Apart
<1>6. Key(p)' = Key(p) /\ (Undisturbed(p)' => Undisturbed(p))
  BY <1>2, <1>3 DEF Undisturbed, Key
<1>7. InItself(p)'
  BY <1>1, <1>2, <1>3, <1>4, <1>6 DEF InItself, Idle, Saving, Journals
<1> QED
  BY <1>1, <1>2, <1>3, <1>4, <1>5, <1>7, LocalStep

\* An undisturbed launch finds in its sibling what it wrote; one whose open file
\* another rename has made the journal was disturbed.
LEMMA WriteApart ==
  ASSUME Apart, OwnWork', NEW p \in Processes, WriteSibling(p)
  PROVE  Apart'
<1>1. /\ journaling \in [Processes -> BOOLEAN] /\ fd \in [Processes -> Descriptor]
      /\ pc \in [Processes -> Place] /\ InItself(p)
      /\ tmp \in [Selections -> Contents] /\ journal \in [Selections -> Contents]
  BY DEF Apart, OwnWork, Shaped
<1>2. /\ pc[p] = "write" /\ pc' = [pc EXCEPT ![p] = "rename"]
      /\ fd' = [fd EXCEPT ![p] = "none"]
      /\ UNCHANGED <<selected, no, journaling, mem, disturbed>>
  BY DEF WriteSibling, fixed, history
<1>3. /\ Journals(p) /\ Key(p) \in Selections /\ Sibling(Key(p)) = Key(p)
      /\ Key(p) \notin disturbed => Undisturbed(p)
      /\ \A q \in Processes \ {p} : Undisturbed(q) => Key(q) # Key(p)
  BY <1>2, SaverJournals DEF Saving
<1>4. PICK content \in Content(p) :
        /\ tmp' = IF fd[p] = "tmp" THEN [tmp EXCEPT ![Sibling(Key(p))] = content] ELSE tmp
        /\ journal' = IF fd[p] = "journal" THEN [journal EXCEPT ![Key(p)] = content] ELSE journal
  BY DEF WriteSibling
<1>5. /\ pc'[p] = "rename" /\ fd'[p] = "none" /\ fd' \in [Processes -> Descriptor]
      /\ \A q \in Processes \ {p} : pc'[q] = pc[q] /\ fd'[q] = fd[q]
  BY <1>1, <1>2 DEF Descriptor
<1>6. \A q \in Processes \ {p} : Undisturbed(q) =>
         tmp'[Key(q)] = tmp[Key(q)] /\ journal'[Key(q)] = journal[Key(q)]
  BY <1>1, <1>3, <1>4, KeyOf DEF Undisturbed, Journals, Apart
<1>7. Undisturbed(p) => fd[p] = "tmp" /\ content = mem[p]
  <2> SUFFICES ASSUME Undisturbed(p) PROVE fd[p] = "tmp" /\ content = mem[p]
    OBVIOUS
  <2>1. fd[p] = "tmp" /\ tmp[Sibling(Key(p))] = Torn
    BY <1>1, <1>2, <1>3 DEF InItself
  <2>2. ASSUME NEW q \in Processes \ {p}, fd[q] = fd[p], Sibling(Key(q)) = Sibling(Key(p))
        PROVE  FALSE
    <3>1. pc[q] = "write"
      BY <2>1, <2>2 DEF Apart, InItself
    <3>2. Journals(q) /\ Sibling(Key(q)) = Key(q)
      BY <3>1, SaverJournals DEF Saving
    <3>3. Key(q) = Key(p)
      BY <1>3, <2>2, <3>2
    <3> QED
      BY <3>2, <3>3, OnlyOne
  <2>3. ~Shared(p)
    BY <2>1, <2>2 DEF Shared
  <2>4. Content(p) = {mem[p]}
    BY <2>3 DEF Content
  <2> QED
    BY <2>1, <2>4
<1>8. Key(p)' = Key(p) /\ (Undisturbed(p)' => Undisturbed(p))
  BY <1>2, <1>3 DEF Undisturbed, Key
<1>9. InItself(p)'
  <2>1. Undisturbed(p) => tmp'[Key(p)] = mem[p] /\ journal' = journal
    BY <1>1, <1>3, <1>4, <1>7
  <2> QED
    BY <1>1, <1>2, <1>3, <1>5, <1>8, <2>1 DEF InItself, Idle, Saving, Journals
<1>10. \A k \in Selections : journal'[k] = Torn => journal[k] = Torn \/ k \in disturbed'
  BY <1>1, <1>2, <1>3, <1>4, <1>7
<1> QED
  BY <1>1, <1>2, <1>3, <1>5, <1>6, <1>9, <1>10, LocalStep

\* The sibling becomes the journal.
LEMMA RenameApart ==
  ASSUME Apart, OwnWork', NEW p \in Processes, Rename(p)
  PROVE  Apart'
<1>1. /\ journaling \in [Processes -> BOOLEAN] /\ fd \in [Processes -> Descriptor]
      /\ pc \in [Processes -> Place] /\ InItself(p)
      /\ tmp \in [Selections -> Contents] /\ journal \in [Selections -> Contents]
  BY DEF Apart, OwnWork, Shaped
<1>2. /\ pc[p] = "rename" /\ pc' = [pc EXCEPT ![p] = "work"]
      /\ fd' = [q \in Processes |-> Follows(p, q)]
      /\ journal' = [journal EXCEPT ![Key(p)] = tmp[Sibling(Key(p))]]
      /\ tmp' = [tmp EXCEPT ![Sibling(Key(p))] = Nothing]
      /\ UNCHANGED <<selected, no, journaling, mem, disturbed>>
  BY DEF Rename, fixed, history
<1>3. /\ Journals(p) /\ Key(p) \in Selections /\ Sibling(Key(p)) = Key(p)
      /\ fd[p] # "none" => pc[p] = "write"
      /\ Key(p) \notin disturbed => Undisturbed(p)
      /\ \A q \in Processes \ {p} : Undisturbed(q) => Key(q) # Key(p)
  BY <1>2, SaverJournals DEF Saving
<1>4. \A q \in Processes :
         /\ Follows(p, q) \in Descriptor /\ (Follows(p, q) # "none" => fd[q] # "none")
         /\ Key(q) # Key(p) => Follows(p, q) = fd[q]
  BY <1>1 DEF Follows, Descriptor
<1>5. /\ pc'[p] = "work" /\ fd'[p] = "none" /\ fd' \in [Processes -> Descriptor]
      /\ \A q \in Processes \ {p} : pc'[q] = pc[q] /\ fd'[q] = Follows(p, q)
  <2>1. fd[p] = "none"
    BY <1>2, <1>3
  <2> QED
    BY <1>1, <1>2, <1>4, <2>1
<1>6. \A q \in Processes \ {p} : Undisturbed(q) =>
         tmp'[Key(q)] = tmp[Key(q)] /\ journal'[Key(q)] = journal[Key(q)]
  BY <1>1, <1>2, <1>3, KeyOf DEF Undisturbed, Journals, Apart
<1>7. Undisturbed(p) => journal'[Key(p)] = mem[p]
  BY <1>1, <1>2, <1>3 DEF InItself
<1>8. Key(p)' = Key(p) /\ (Undisturbed(p)' => Undisturbed(p))
  BY <1>2, <1>3 DEF Undisturbed, Key
<1>9. InItself(p)'
  BY <1>1, <1>2, <1>3, <1>5, <1>7, <1>8 DEF InItself, Idle, Saving, Journals
<1>10. \A k \in Selections : journal'[k] = Torn => journal[k] = Torn \/ k \in disturbed'
  BY <1>1, <1>2, <1>3, <1>7, WorkIsWhole
<1> QED
  BY <1>1, <1>2, <1>3, <1>4, <1>5, <1>6, <1>9, <1>10, LocalStep

\* A finished launch removes its journal.
LEMMA UnlinkApart ==
  ASSUME Apart, OwnWork', NEW p \in Processes, Unlink(p)
  PROVE  Apart'
<1>1. /\ journaling \in [Processes -> BOOLEAN] /\ fd \in [Processes -> Descriptor]
      /\ journal \in [Selections -> Contents]
  BY DEF Apart, OwnWork, Shaped
<1>2. /\ pc[p] = "unlink" /\ UNCHANGED <<tmp, disturbed>>
      /\ journal' = [journal EXCEPT ![Key(p)] = Nothing]
      /\ fd' = [q \in Processes |->
                  IF fd[q] = "journal" /\ Key(q) = Key(p) THEN "gone" ELSE fd[q]]
      /\ EndOf({p}, IF journal[Key(p)] = Nothing THEN "1" ELSE "0")
  BY DEF Unlink, history
<1>3. Key(p) \in Selections
  BY <1>2, SaverJournals
<1>4. fd[p] = "none"
  BY <1>2, SaverJournals
<1>5. /\ fd' \in [Processes -> Descriptor] /\ fd'[p] = "none"
      /\ \A q \in Processes \ {p} : /\ fd'[q] # "none" => fd[q] # "none"
                                    /\ Key(q) # Key(p) => fd'[q] = fd[q]
  BY <1>1, <1>2, <1>4 DEF Descriptor
<1>6. pc'[p] = "off" /\ mem'[p] = <<>> /\ selected' = selected
  BY <1>2 DEF EndOf
<1>7. \A q \in Processes \ {p} : pc'[q] = pc[q] /\ no'[q] = no[q] /\ mem'[q] = mem[q]
  BY <1>2 DEF EndOf
<1>8. /\ journaling' \in [Processes -> BOOLEAN]
      /\ \A q \in Processes \ {p} : journaling'[q] = (q \in {p} \/ journaling[q])
  BY <1>1, <1>2 DEF EndOf
<1>9. \A q \in Processes \ {p} : journaling'[q] = journaling[q]
  BY <1>1, <1>8
<1>10. InItself(p)' /\ ~Journals(p)'
  BY <1>5, <1>6, EndedInItself
<1>11. \A q \in Processes \ {p} : Undisturbed(q) => journal'[Key(q)] = journal[Key(q)]
  <2>1. \A q \in Processes \ {p} : Undisturbed(q) => Key(q) # Key(p)
    BY <1>2, SaverJournals
  <2> QED
    BY <1>1, <1>2, <2>1, KeyOf DEF Undisturbed, Journals, Apart
<1>12. \A k \in Selections : journal'[k] = Torn => journal[k] = Torn
  BY <1>1, <1>2, LaunchAssumption
<1>13. \A q \in Processes \ {p} : Undisturbed(q) => fd'[q] = fd[q]
  <2>1. \A q \in Processes \ {p} : Undisturbed(q) => Key(q) # Key(p)
    BY <1>2, SaverJournals
  <2> QED
    BY <1>5, <2>1
<1> QED
  BY <1>2, <1>5, <1>6, <1>7, <1>8, <1>9, <1>10, <1>11, <1>12, <1>13, LocalStep

\* Clearing: whoever journals and is past it has been disturbed.
LEMMA ClearApart ==
  ASSUME Apart, OwnWork', NEW p \in Processes, NEW k \in Selections, ClearKey(p, k)
  PROVE  Apart'
<1>1. /\ journaling \in [Processes -> BOOLEAN] /\ fd \in [Processes -> Descriptor]
      /\ tmp \in [Selections -> Contents] /\ journal \in [Selections -> Contents]
      /\ InItself(p)
  BY DEF Apart, OwnWork, Shaped
<1>2. /\ pc[p] = "clear"
      /\ journal' = [journal EXCEPT ![k] = Nothing] /\ tmp' = [tmp EXCEPT ![k] = Nothing]
      /\ fd' = [q \in Processes |-> IF fd[q] # "none" /\ Key(q) = k THEN "gone" ELSE fd[q]]
      /\ disturbed' = disturbed \cup
           {j \in {k} : \E q \in Processes : Journals(q) /\ pc[q] # "clear" /\ Key(q) = j}
      /\ UNCHANGED <<selected, pc, no, journaling, mem>>
  BY DEF ClearKey, fixed
<1>3. fd[p] = "none" /\ fd'[p] = "none" /\ pc'[p] = "clear" /\ mem'[p] = <<>>
  BY <1>1, <1>2 DEF InItself, Idle
<1>4. fd' \in [Processes -> Descriptor]
      /\ \A q \in Processes : /\ fd'[q] # "none" => fd[q] # "none"
                              /\ Key(q) # k => fd'[q] = fd[q]
  BY <1>1, <1>2 DEF Descriptor
<1>5. InItself(p)'
  BY <1>3 DEF InItself, Idle, Saving
<1>6. ASSUME NEW q \in Processes, pc[q] \notin Idle, Undisturbed(q), Key(q) \notin disturbed'
      PROVE  Key(q) # k /\ Key(q) \in Selections
  <2>1. Journals(q) /\ pc[q] # "clear"
    BY <1>6 DEF Undisturbed, Idle
  <2>2. Key(q) # k
    BY <1>2, <1>6, <2>1
  <2> QED
    BY <2>1, <2>2, KeyOf DEF Journals, Apart
<1>7. \A j \in Selections : /\ j # k => journal'[j] = journal[j] /\ tmp'[j] = tmp[j]
                            /\ journal'[j] = Torn => journal[j] = Torn
  BY <1>1, <1>2, LaunchAssumption
<1>8. Journals(p)' => Journals(p)
  BY <1>2 DEF Journals, Alive
<1>9. \A j \in Selections : j \in disturbed => j \in disturbed'
  BY <1>2
<1> QED
  BY <1>1, <1>2, <1>4, <1>5, <1>6, <1>7, <1>8, <1>9, LocalStep

\* The report is there: the launch ends, or looks for its journal.
LEMMA ForgetApart ==
  ASSUME Apart, OwnWork', NEW p \in Processes, Forget(p)
  PROVE  Apart'
<1>1. pc[p] = "forget" /\ UNCHANGED <<journal, tmp, disturbed>>
  BY DEF Forget, files, history
<1>2. CASE /\ journaling[p] /\ pc' = [pc EXCEPT ![p] = "unlink"]
           /\ UNCHANGED <<mem, fd, fixed>>
  <2>1. UNCHANGED <<selected, no, mem, journaling, fd>>
    BY <1>2 DEF fixed
  <2>2. pc'[p] = "unlink" /\ InItself(p)
    BY <1>2 DEF Apart, OwnWork, Shaped
  <2>3. Key(p)' = Key(p) /\ (Undisturbed(p)' => Undisturbed(p))
    BY <1>1, <2>1 DEF Key, Undisturbed, Journals, Alive
  <2>4. InItself(p)'
    BY <1>1, <1>2, <2>1, <2>2, <2>3 DEF InItself, Idle, Saving
  <2> QED
    BY <1>1, <1>2, <2>1, <2>4, MoveApart
<1>3. CASE Exit(p, "0")
  BY <1>1, <1>3, ExitApart
<1> QED
  BY <1>2, <1>3 DEF Forget

\* A launch that starts journaling a key another one is journaling disturbs it.
LEMMA StartApart ==
  ASSUME Apart, OwnWork', NEW p \in Processes, Start(p)
  PROVE  Apart'
<1>1. /\ journaling \in [Processes -> BOOLEAN] /\ fd \in [Processes -> Descriptor]
      /\ pc \in [Processes -> Place] /\ no \in [Processes -> Nat]
      /\ selected \in Seq(Selections) /\ Len(selected) \in Nat
  BY DEF Apart, OwnWork, Shaped
<1>2. PICK sel \in Selections, journals \in BOOLEAN, clear \in BOOLEAN :
        /\ selected' = Append(selected, sel)
        /\ journaling' = [journaling EXCEPT ![p] = journals]
        /\ pc' = [pc EXCEPT ![p] = IF clear /\ dir THEN "clear" ELSE "load"]
        /\ disturbed' = disturbed \cup
             {k \in {RunKey(sel)} : journals /\ \E q \in Processes : Journals(q) /\ Key(q) = k}
  BY DEF Start
<1>3. /\ pc[p] = "off" /\ Len(selected) < MaxLaunches
      /\ no' = [no EXCEPT ![p] = Len(selected) + 1]
      /\ UNCHANGED <<journal, tmp, mem, fd>>
  BY DEF Start, files, Alive
<1>4. /\ pc'[p] \in {"clear", "load"} /\ no'[p] = Len(selected) + 1 /\ journaling'[p] = journals
      /\ \A q \in Processes \ {p} :
           pc'[q] = pc[q] /\ no'[q] = no[q] /\ journaling'[q] = journaling[q]
  BY <1>1, <1>2, <1>3
<1>5. /\ Len(selected') = Len(selected) + 1 /\ selected'[Len(selected) + 1] = sel
      /\ \A i \in 1..Len(selected) : selected'[i] = selected[i]
  BY <1>1, <1>2
<1>6. Key(p)' = sel
  BY <1>4, <1>5 DEF Key, RunKey
<1>7. \A q \in Processes \ {p} : /\ Journals(q)' = Journals(q)
                                 /\ Alive(q) => Key(q)' = Key(q)
  BY <1>4, <1>5 DEF Apart, OwnWork, Shaped, Journals, Alive, Key, RunKey
<1>8. Lone'
  <2>1. ASSUME NEW q \in Processes \ {p}, Journals(p)', Journals(q)', Key(p)' = Key(q)'
        PROVE  sel \in disturbed'
    <3>1. journals /\ Journals(q) /\ Key(q) = RunKey(sel)
      BY <1>4, <1>6, <1>7, <2>1 DEF Journals, RunKey
    <3> QED
      BY <1>2, <3>1 DEF RunKey
  <2>2. ASSUME NEW q \in Processes \ {p}, NEW r \in Processes \ {p}, q # r,
               Journals(q)', Journals(r)', Key(q)' = Key(r)'
        PROVE  Key(q)' \in disturbed'
    <3>1. Journals(q) /\ Journals(r) /\ Key(q)' = Key(q) /\ Key(r)' = Key(r)
      BY <1>7, <2>2 DEF Journals
    <3>2. Key(q) \in disturbed
      BY <2>2, <3>1 DEF Apart, Lone
    <3> QED
      BY <1>2, <3>1, <3>2
  <2> QED
    BY <1>6, <2>1, <2>2 DEF Lone
<1>9. ASSUME NEW q \in Processes
      PROVE  InItself(q)'
  <2>1. InItself(q)
    BY DEF Apart
  <2>2. CASE q = p
    BY <1>3, <1>4, <2>1, <2>2 DEF InItself, Idle, Saving
  <2>3. CASE q # p
    <3>1. pc'[q] = pc[q] /\ journaling'[q] = journaling[q]
      BY <1>4, <2>3
    <3>2. Undisturbed(q)' => Undisturbed(q) /\ Key(q)' = Key(q)
      BY <1>2, <1>7, <2>3 DEF Undisturbed, Journals
    <3> QED
      BY <1>3, <2>1, <3>1, <3>2 DEF InItself
  <2> QED
    BY <2>2, <2>3
<1>10. \A k \in Selections : journal'[k] = Torn => k \in disturbed'
  BY <1>2, <1>3 DEF Apart
<1>11. Len(selected') <= MaxLaunches
  BY <1>1, <1>3, <1>5, LaunchAssumption
<1>12. journaling' \in [Processes -> BOOLEAN] /\ fd' \in [Processes -> Descriptor]
  BY <1>1, <1>2, <1>3
<1> QED
  BY <1>8, <1>9, <1>10, <1>11, <1>12 DEF Apart

\* The power cut: nobody is left, and the journals it tore are disturbed.
LEMMA PowerApart ==
  ASSUME Apart, OwnWork', PowerLoss
  PROVE  Apart'
<1>1. PICK lost : /\ journal' = [k \in Selections |-> IF k \in lost THEN Torn ELSE journal[k]]
                  /\ disturbed' = disturbed \cup lost
  BY DEF PowerLoss
<1> DEFINE everybody == {q \in Processes : Alive(q)}
<1>2. EndOf(everybody, "killed") /\ fd' = [q \in Processes |-> "none"]
  BY DEF PowerLoss
<1>3. \A q \in Processes : pc'[q] = "off"
  BY <1>2 DEF EndOf, Alive
<1>4. \A q \in Processes : mem'[q] = <<>>
  BY <1>2 DEF EndOf, Apart, OwnWork
<1>5. \A q \in Processes : InItself(q)' /\ ~Journals(q)'
  BY <1>2, <1>3, <1>4, EndedInItself
<1>6. \A q \in Processes : journaling'[q] = (q \in everybody \/ journaling[q])
  BY <1>2 DEF EndOf
<1>7. journaling' \in [Processes -> BOOLEAN]
  BY <1>2 DEF EndOf, Apart
<1>8. fd' \in [Processes -> Descriptor]
  BY <1>2 DEF Descriptor
<1>9. \A k \in Selections : journal'[k] = Torn => k \in disturbed'
  BY <1>1 DEF Apart
<1>10. Len(selected') <= MaxLaunches
  BY <1>2 DEF EndOf, Apart
<1> QED
  BY <1>5, <1>7, <1>8, <1>9, <1>10 DEF Apart, Lone

\* A step that touches none of it.
LEMMA SameApart ==
  ASSUME Apart, OwnWork',
         UNCHANGED <<journal, tmp, selected, pc, no, journaling, mem, fd, disturbed>>
  PROVE  Apart'
  BY DEF Apart, Lone, InItself, Undisturbed, Journals, Alive, Key

\* At first there are no launches.
LEMMA InitApart == LaunchInit => Apart
<1> SUFFICES ASSUME LaunchInit PROVE Apart
  OBVIOUS
<1>1. /\ selected = <<>> /\ pc = [p \in Processes |-> "off"]
      /\ mem = [p \in Processes |-> <<>>] /\ fd = [p \in Processes |-> "none"]
      /\ journal = [k \in Selections |-> Nothing]
      /\ journaling = [p \in Processes |-> TRUE]
  BY DEF LaunchInit
<1>2. \A p \in Processes : InItself(p) /\ ~Journals(p)
  BY <1>1 DEF InItself, Undisturbed, Journals, Alive, Idle, Saving
<1>3. Len(selected) <= MaxLaunches
  BY <1>1, LaunchAssumption
<1>4. \A k \in Selections : journal[k] # Torn
  BY <1>1, LaunchAssumption
<1>5. journaling \in [Processes -> BOOLEAN] /\ fd \in [Processes -> Descriptor]
  BY <1>1 DEF Descriptor
<1> QED
  BY <1>2, <1>3, <1>4, <1>5, InitOwnWork DEF Apart, Lone

\* The invariant that keeps the journals apart is inductive.
LEMMA NextApart == Apart /\ [LaunchNext]_launchVars => Apart'
<1> SUFFICES ASSUME Apart, [LaunchNext]_launchVars PROVE Apart'
  OBVIOUS
<1>0. OwnWork'
  BY NextOwnWork, StutterOwnWork DEF Apart
<1>1. ASSUME NEW p \in Processes, Start(p) PROVE Apart'
  BY <1>0, <1>1, StartApart
<1>2. ASSUME NEW p \in Processes, ClearDir(p) \/ MakeDir(p) \/ Deliver(p) PROVE Apart'
  BY <1>0, <1>2, QuietApart
<1>3. ASSUME NEW p \in Processes,
             ClearFails(p) \/ LoadFails(p) \/ StageFails(p) \/ DaemonGone(p) \/ SaveFails(p)
               \/ DeliverFails(p) \/ RecordFails(p) \/ Kill(p)
      PROVE  Apart'
  <2>1. UNCHANGED <<journal, tmp, disturbed>> /\ \E how : Exit(p, how)
    BY <1>3 DEF ClearFails, LoadFails, StageFails, DaemonGone, SaveFails, DeliverFails,
                RecordFails, Kill, files, history
  <2> QED
    BY <1>0, <2>1, ExitApart
<1>4. ASSUME NEW p \in Processes, Resume(p) \/ Work(p) PROVE Apart'
  BY <1>0, <1>4, RememberApart
<1>5. ASSUME NEW p \in Processes, Begin(p) PROVE Apart'
  BY <1>0, <1>5, BeginApart
<1>6. ASSUME NEW p \in Processes, OpenSibling(p) PROVE Apart'
  BY <1>0, <1>6, OpenApart
<1>7. ASSUME NEW p \in Processes, WriteSibling(p) PROVE Apart'
  BY <1>0, <1>7, WriteApart
<1>8. ASSUME NEW p \in Processes, Rename(p) PROVE Apart'
  BY <1>0, <1>8, RenameApart
<1>9. ASSUME NEW p \in Processes, Forget(p) PROVE Apart'
  BY <1>0, <1>9, ForgetApart
<1>10. ASSUME NEW p \in Processes, Unlink(p) PROVE Apart'
  BY <1>0, <1>10, UnlinkApart
<1>11. ASSUME NEW p \in Processes, NEW k \in Selections, ClearKey(p, k) PROVE Apart'
  BY <1>0, <1>11, ClearApart
<1>12. ASSUME NEW k \in Selections, Sync(k) PROVE Apart'
  BY <1>0, <1>12, SameApart DEF Sync, process, fixed, history
<1>13. ASSUME PowerLoss PROVE Apart'
  BY <1>0, <1>13, PowerApart
<1>14. CASE UNCHANGED launchVars
  BY <1>0, <1>14, SameApart DEF launchVars, files, process, fixed, history
<1> QED
  BY <1>1, <1>2, <1>3, <1>4, <1>5, <1>6, <1>7, <1>8, <1>9, <1>10, <1>11, <1>12, <1>13, <1>14
     DEF LaunchNext

\* Whatever launches of other selections do, a launch's journal is whole and
\* holds all it has but for the unit being saved, unless two launches of its key
\* met, a clear took the journal, or the power cut tore it.
THEOREM KeysStayApart == LaunchSpec => []KeysApart
  BY InitApart, NextApart, ApartIsKeysApart, PTL DEF LaunchSpec

-----------------------------------------------------------------------------
(* Exit codes. *)

\* What the launch p has of its report in the tree: the files before the next one
\* are its own if nobody else delivered meanwhile, and it goes on to forget its
\* journal once there is no next one.
Delivering(p) ==
    /\ file[p] \in Nat \ {0}
    /\ ~Alive(p) => file[p] = 1
    /\ Alive(p) /\ alone[p] => \A i \in 1..(file[p] - 1) : tree[ItsFiles(p)[i]] = no[p]
    /\ Alive(p) /\ pc[p] \notin {"forget", "unlink"} => file[p] <= Len(ItsFiles(p))
    /\ pc[p] \in {"forget", "unlink"} => file[p] = Len(ItsFiles(p)) + 1

\* What the exit codes rest on, next to the journals.
Delivered ==
    /\ Apart
    /\ file \in [Processes -> Nat]
    /\ alone \in [Processes -> BOOLEAN]
    /\ tree \in [File -> Nat]
    /\ \A p \in Processes : Delivering(p)

\* The files of a report: there is one at least, and they are files of the tree.
LEMMA FilesOf ==
  ASSUME NEW sel \in Selections
  PROVE  /\ Len(Files(sel)) \in Nat \ {0}
         /\ \A i \in 1..Len(Files(sel)) : Files(sel)[i] \in File
         /\ \A f \in ToSet(Files(sel)) : \E i \in 1..Len(Files(sel)) : f = Files(sel)[i]
<1> DEFINE s == Files(sel)
<1>1. Sections[sel] \in Seq(STRING)
  BY LaunchAssumption
<1>2. Len(s) \in Nat \ {0} /\ DOMAIN s = 1..Len(s)
  BY <1>1 DEF Files
<1>3. ToSet(s) \subseteq File
  BY DEF File
<1> HIDE DEF s
<1>4. ToSet(s) = {s[i] : i \in DOMAIN s}
  BY DEF ToSet
<1> QED
  BY <1>2, <1>3, <1>4 DEF s

\* Whoever is alive delivers files of the tree.
LEMMA ItsFilesOf ==
  ASSUME Apart, NEW p \in Processes, Alive(p)
  PROVE  /\ Len(ItsFiles(p)) \in Nat \ {0}
         /\ \A i \in 1..Len(ItsFiles(p)) : ItsFiles(p)[i] \in File
         /\ \A f \in ToSet(ItsFiles(p)) : \E i \in 1..Len(ItsFiles(p)) : f = ItsFiles(p)[i]
<1>1. selected[no[p]] \in Selections
  BY DEF Apart, OwnWork, Shaped
<1> QED
  BY <1>1, FilesOf DEF ItsFiles

\* A step that delivers nothing and ends nobody.
LEMMA KeepDelivered ==
  ASSUME Delivered, Apart', UNCHANGED <<file, alone, tree, selected, no>>,
         \A q \in Processes :
            /\ pc'[q] = "off" <=> pc[q] = "off"
            /\ pc'[q] \in {"forget", "unlink"} <=> pc[q] \in {"forget", "unlink"}
  PROVE  Delivered'
<1>1. ASSUME NEW q \in Processes
      PROVE  Delivering(q)'
  <2>1. Delivering(q)
    BY DEF Delivered
  <2> QED
    BY <2>1 DEF Delivering, Alive, ItsFiles
<1> QED
  BY <1>1 DEF Delivered

\* Launches that end take the tree with them only from those who deliver too.
LEMMA EndDelivered ==
  ASSUME Delivered, Apart', NEW P \in SUBSET Processes, NEW how, EndOf(P, how),
         alone' \in [Processes -> BOOLEAN], tree' \in [File -> Nat],
         \A q \in Processes \ P : alone'[q] /\ file[q] > 1 => alone[q] /\ tree' = tree
  PROVE  Delivered'
<1>1. file \in [Processes -> Nat]
  BY DEF Delivered
<1>2. file' \in [Processes -> Nat]
  BY <1>1 DEF EndOf
<1>3. ASSUME NEW q \in Processes
      PROVE  Delivering(q)'
  <2>1. Delivering(q)
    BY DEF Delivered
  <2>2. CASE q \in P
    <3>1. pc'[q] = "off" /\ file'[q] = 1
      BY <2>2 DEF EndOf
    <3> QED
      BY <3>1 DEF Delivering, Alive
  <2>3. CASE q \notin P
    <3>1. /\ pc'[q] = pc[q] /\ no'[q] = no[q] /\ file'[q] = file[q]
          /\ selected' = selected
      BY <2>3 DEF EndOf
    <3>2. file[q] \in Nat /\ (file[q] > 1 \/ 1..(file[q] - 1) = {})
      BY <1>1
    <3> QED
      BY <2>1, <2>3, <3>1, <3>2 DEF Delivering, Alive, ItsFiles
  <2> QED
    BY <2>2, <2>3
<1> QED
  BY <1>2, <1>3 DEF Delivered

\* p writes to the tree: who keeps being alone has written nothing yet.
LEMMA MeetsOthers ==
  ASSUME Delivered, NEW p \in Processes, Meets(p)
  PROVE  /\ alone' \in [Processes -> BOOLEAN]
         /\ \A q \in Processes : alone'[q] => alone[q]
         /\ \A q \in Processes \ {p} : alone'[q] => ~(file[q] > 1)
<1> DEFINE others == {q \in Processes \ {p} : file[q] > 1}
<1>1. alone' = [q \in Processes |-> alone[q] /\ q \notin others /\ (q = p => others = {})]
  BY DEF Meets
<1> QED
  BY <1>1

\* A launch starts with nothing delivered.
LEMMA StartDelivered ==
  ASSUME Delivered, Apart', NEW p \in Processes, Start(p)
  PROVE  Delivered'
<1>1. /\ pc \in [Processes -> Place] /\ no \in [Processes -> Nat]
      /\ selected \in Seq(Selections) /\ Len(selected) \in Nat
      /\ alone \in [Processes -> BOOLEAN] /\ file \in [Processes -> Nat]
  BY DEF Delivered, Apart, OwnWork, Shaped
<1>2. PICK sel \in Selections, to \in {"clear", "load"} :
        /\ selected' = Append(selected, sel)
        /\ pc' = [pc EXCEPT ![p] = to]
  BY DEF Start
<1>3. /\ ~Alive(p) /\ no' = [no EXCEPT ![p] = Len(selected) + 1]
      /\ alone' = [alone EXCEPT ![p] = TRUE] /\ UNCHANGED <<file, tree>>
  BY DEF Start, files
<1>4. /\ Len(selected') = Len(selected) + 1 /\ selected'[Len(selected) + 1] = sel
      /\ \A i \in 1..Len(selected) : selected'[i] = selected[i]
  BY <1>1, <1>2
<1>5. ASSUME NEW q \in Processes
      PROVE  Delivering(q)'
  <2>1. Delivering(q)
    BY DEF Delivered
  <2>2. CASE q = p
    <3>1. file'[q] = 1 /\ pc'[q] \in {"clear", "load"} /\ ItsFiles(q)' = Files(sel)
      BY <1>1, <1>2, <1>3, <1>4, <2>1, <2>2 DEF Delivering, ItsFiles
    <3>2. Len(ItsFiles(q)') \in Nat \ {0}
      BY <3>1, FilesOf
    <3> QED
      BY <3>1, <3>2 DEF Delivering, Alive
  <2>3. CASE q # p
    <3>1. pc'[q] = pc[q] /\ no'[q] = no[q] /\ alone'[q] = alone[q]
      BY <1>1, <1>2, <1>3, <2>3
    <3>2. Alive(q) => selected'[no[q]] = selected[no[q]]
      BY <1>4 DEF Delivered, Apart, OwnWork, Shaped
    <3>3. CASE Alive(q)
      <4>1. ItsFiles(q)' = ItsFiles(q)
        BY <3>1, <3>2, <3>3 DEF ItsFiles
      <4> QED
        BY <1>3, <2>1, <3>1, <4>1 DEF Delivering, Alive
    <3>4. CASE ~Alive(q)
      BY <1>3, <2>1, <3>1, <3>4 DEF Delivering, Alive
    <3> QED
      BY <3>3, <3>4
  <2> QED
    BY <2>2, <2>3
<1>6. alone' \in [Processes -> BOOLEAN]
  BY <1>1, <1>3
<1> QED
  BY <1>3, <1>5, <1>6 DEF Delivered

\* A file of the report is written.
LEMMA DeliverDelivered ==
  ASSUME Delivered, Apart', NEW p \in Processes, Deliver(p)
  PROVE  Delivered'
<1>1. /\ pc \in [Processes -> Place] /\ no \in [Processes -> Nat]
      /\ file \in [Processes -> Nat] /\ tree \in [File -> Nat] /\ Delivering(p)
  BY DEF Delivered, Apart, OwnWork, Shaped
<1> DEFINE files_ == ItsFiles(p)
           last == Len(files_)
<1>2. /\ pc[p] = "work" /\ Meets(p)
      /\ tree' = [tree EXCEPT ![files_[file[p]]] = no[p]]
      /\ file' = [file EXCEPT ![p] = file[p] + 1]
      /\ pc' = [pc EXCEPT ![p] = IF file[p] = last THEN "forget" ELSE "work"]
      /\ UNCHANGED <<selected, no>>
  BY DEF Deliver, DeliverTo, Ready, fixed
<1>3. /\ last \in Nat \ {0} /\ file[p] \in 1..last
      /\ \A i \in 1..last : files_[i] \in File
  <2>1. Apart /\ Alive(p)
    BY <1>2 DEF Delivered, Alive
  <2>2. last \in Nat \ {0} /\ \A i \in 1..last : files_[i] \in File
    BY <2>1, ItsFilesOf
  <2>3. file[p] \in Nat \ {0} /\ file[p] <= last
    BY <1>1, <1>2, <2>1 DEF Delivering
  <2> QED
    BY <2>2, <2>3
<1>4. files_' = files_
  BY <1>2 DEF ItsFiles
<1>5. /\ file'[p] = file[p] + 1 /\ file' \in [Processes -> Nat]
      /\ tree'[files_[file[p]]] = no[p] /\ tree' \in [File -> Nat]
      /\ \A f \in File : tree'[f] \in {tree[f], no[p]}
      /\ pc'[p] = IF file[p] = last THEN "forget" ELSE "work"
      /\ \A q \in Processes \ {p} : pc'[q] = pc[q] /\ file'[q] = file[q]
  BY <1>1, <1>2, <1>3
<1> HIDE DEF files_, last
<1>6. Delivering(p)'
  <2>1. Alive(p) /\ ItsFiles(p)' = files_ /\ Len(files_) = last
    BY <1>2, <1>4 DEF Alive, files_, last
  <2>2. alone[p] => \A i \in 1..(file[p] - 1) : tree[files_[i]] = no[p]
    BY <1>1, <2>1 DEF Delivering, files_
  <2>3. alone[p] => \A i \in 1..file[p] : tree'[files_[i]] = no[p]
    BY <1>3, <1>5, <2>2
  <2>4. alone'[p] => alone[p]
    BY <1>2, MeetsOthers
  <2>5. file[p] \in Nat /\ last \in Nat /\ file[p] + 1 - 1 = file[p]
    BY <1>3
  <2>6. alone'[p] => \A i \in 1..(file'[p] - 1) : tree'[files_[i]] = no'[p]
    BY <1>2, <1>5, <2>3, <2>4, <2>5
  <2> QED
    BY <1>3, <1>5, <2>1, <2>5, <2>6 DEF Delivering, Alive
<1>7. ASSUME NEW q \in Processes, q # p
      PROVE  Delivering(q)'
  <2>1. Delivering(q)
    BY DEF Delivered
  <2>2. pc'[q] = pc[q] /\ file'[q] = file[q] /\ no'[q] = no[q] /\ file[q] \in Nat
    BY <1>1, <1>2, <1>5, <1>7
  <2>3. alone'[q] => 1..(file[q] - 1) = {}
    BY <1>2, <1>7, <2>2, MeetsOthers
  <2>4. ItsFiles(q)' = ItsFiles(q)
    BY <1>2 DEF ItsFiles
  <2> QED
    BY <2>1, <2>2, <2>3, <2>4 DEF Delivering, Alive
<1>8. alone' \in [Processes -> BOOLEAN]
  BY <1>2, MeetsOthers
<1> QED
  BY <1>5, <1>6, <1>7, <1>8 DEF Delivered

\* A launch ends without a word to the tree, or with a file of it cut short.
LEMMA ExitDelivered ==
  ASSUME Delivered, Apart', NEW p \in Processes, NEW how, Exit(p, how),
         \/ UNCHANGED <<tree, alone>>
         \/ Ready(p) /\ tree' = [tree EXCEPT ![ItsFiles(p)[file[p]]] = 0] /\ Meets(p)
  PROVE  Delivered'
<1>1. EndOf({p}, how)
  BY DEF Exit
<1>2. /\ alone' \in [Processes -> BOOLEAN] /\ tree' \in [File -> Nat]
      /\ \A q \in Processes \ {p} : alone'[q] /\ file[q] > 1 => alone[q] /\ tree' = tree
  <2>1. CASE UNCHANGED <<tree, alone>>
    BY <2>1 DEF Delivered
  <2>2. CASE Ready(p) /\ tree' = [tree EXCEPT ![ItsFiles(p)[file[p]]] = 0] /\ Meets(p)
    <3>1. tree' \in [File -> Nat]
      BY <2>2 DEF Delivered
    <3> QED
      BY <2>2, <3>1, MeetsOthers
  <2> QED
    BY <2>1, <2>2
<1> QED
  BY <1>1, <1>2, EndDelivered

\* At first nothing is delivered.
LEMMA InitDelivered == LaunchInit => Delivered
<1> SUFFICES ASSUME LaunchInit PROVE Delivered
  OBVIOUS
<1>1. /\ pc = [p \in Processes |-> "off"] /\ file = [p \in Processes |-> 1]
      /\ alone = [p \in Processes |-> TRUE] /\ tree = [f \in File |-> 0]
  BY DEF LaunchInit
<1>2. \A p \in Processes : Delivering(p)
  BY <1>1 DEF Delivering, Alive
<1> QED
  BY <1>1, <1>2, InitApart DEF Delivered

\* The invariant the exit codes rest on is inductive.
LEMMA NextDelivered == Delivered /\ [LaunchNext]_launchVars => Delivered'
<1> SUFFICES ASSUME Delivered, [LaunchNext]_launchVars PROVE Delivered'
  OBVIOUS
<1>0. /\ Apart' /\ pc \in [Processes -> Place]
      /\ alone \in [Processes -> BOOLEAN] /\ tree \in [File -> Nat]
  BY NextApart DEF Delivered, Apart, OwnWork, Shaped
<1>1. ASSUME NEW p \in Processes, Start(p) PROVE Delivered'
  BY <1>0, <1>1, StartDelivered
<1>2. ASSUME NEW p \in Processes,
             ClearDir(p) \/ Resume(p) \/ Begin(p) \/ Work(p) \/ MakeDir(p) \/ OpenSibling(p)
               \/ WriteSibling(p) \/ Rename(p)
      PROVE  Delivered'
  <2>1. UNCHANGED <<file, alone, tree, selected, no>>
    BY <1>2 DEF ClearDir, Resume, Begin, Work, MakeDir, OpenSibling, WriteSibling, Rename,
                files, fixed, history
  <2>2. PICK to : /\ to \in {"load", "work", "mkdir", "open", "write", "rename"}
                  /\ pc' = [pc EXCEPT ![p] = to]
                  /\ pc[p] \in {"clear", "load", "work", "mkdir", "open", "write", "rename"}
    BY <1>2 DEF ClearDir, Resume, Begin, Work, Working, AfterUnit, MakeDir, OpenSibling,
                WriteSibling, Rename
  <2>3. \A q \in Processes :
            /\ pc'[q] = "off" <=> pc[q] = "off"
            /\ pc'[q] \in {"forget", "unlink"} <=> pc[q] \in {"forget", "unlink"}
    BY <1>0, <2>2
  <2> QED
    BY <1>0, <2>1, <2>3, KeepDelivered
<1>3. ASSUME NEW p \in Processes,
             ClearFails(p) \/ LoadFails(p) \/ StageFails(p) \/ DaemonGone(p) \/ SaveFails(p)
               \/ DeliverFails(p) \/ RecordFails(p) \/ Kill(p)
      PROVE  Delivered'
  <2>1. \E how : Exit(p, how)
    BY <1>3 DEF ClearFails, LoadFails, StageFails, DaemonGone, SaveFails, DeliverFails,
                RecordFails, Kill
  <2>2. \/ UNCHANGED <<tree, alone>>
        \/ Ready(p) /\ tree' = [tree EXCEPT ![ItsFiles(p)[file[p]]] = 0] /\ Meets(p)
    BY <1>3 DEF ClearFails, LoadFails, StageFails, DaemonGone, SaveFails, DeliverFails,
                RecordFails, Kill, files, history
  <2> QED
    BY <1>0, <2>1, <2>2, ExitDelivered
<1>4. ASSUME NEW p \in Processes, Deliver(p) PROVE Delivered'
  BY <1>0, <1>4, DeliverDelivered
<1>5. ASSUME NEW p \in Processes, Forget(p) PROVE Delivered'
  <2>1. pc[p] = "forget" /\ UNCHANGED <<tree, alone>>
    BY <1>5 DEF Forget, files, history
  <2>2. CASE pc' = [pc EXCEPT ![p] = "unlink"] /\ UNCHANGED <<file, fixed>>
    <3>1. \A q \in Processes :
            /\ pc'[q] = "off" <=> pc[q] = "off"
            /\ pc'[q] \in {"forget", "unlink"} <=> pc[q] \in {"forget", "unlink"}
      BY <1>0, <2>1, <2>2
    <3>2. UNCHANGED <<file, alone, tree, selected, no>>
      BY <2>1, <2>2 DEF fixed
    <3> QED
      BY <1>0, <3>1, <3>2, KeepDelivered
  <2>3. CASE Exit(p, "0")
    BY <1>0, <2>1, <2>3, ExitDelivered
  <2> QED
    BY <1>5, <2>2, <2>3 DEF Forget
<1>6. ASSUME NEW p \in Processes, Unlink(p) PROVE Delivered'
  <2>1. UNCHANGED <<tree, alone>> /\ \E how : EndOf({p}, how)
    BY <1>6 DEF Unlink, history
  <2> QED
    BY <1>0, <2>1, EndDelivered
<1>7. ASSUME PowerLoss PROVE Delivered'
  <2>1. UNCHANGED <<tree, alone>> /\ \E P \in SUBSET Processes : \E how : EndOf(P, how)
    BY <1>7 DEF PowerLoss
  <2> QED
    BY <1>0, <2>1, EndDelivered
<1>8. ASSUME UNCHANGED <<file, alone, tree, selected, no, pc>> PROVE Delivered'
  BY <1>0, <1>8, KeepDelivered
<1>9. ASSUME NEW p \in Processes, NEW k \in Selections, ClearKey(p, k) PROVE Delivered'
  BY <1>8, <1>9 DEF ClearKey, fixed
<1>10. ASSUME NEW k \in Selections, Sync(k) PROVE Delivered'
  BY <1>8, <1>10 DEF Sync, process, fixed, history
<1>11. CASE UNCHANGED launchVars
  BY <1>8, <1>11 DEF launchVars, files, process, fixed, history
<1> QED
  BY <1>1, <1>2, <1>3, <1>4, <1>5, <1>6, <1>7, <1>9, <1>10, <1>11 DEF LaunchNext

\* What ends a launch, other than a kill or the power cut.
LEMMA EndsItself ==
  ASSUME Delivered, [LaunchNext]_launchVars, NEW p \in Processes,
         Alive(p), pc'[p] = "off", code'[p] # "killed"
  PROVE  \/ /\ pc[p] \notin {"unlink", "off"} /\ UNCHANGED journal
            /\ code'[p] # "0"
         \/ /\ pc[p] = "forget" /\ UNCHANGED <<journal, tree>>
            /\ code'[p] = "0" /\ (journaling[p] => journal[Key(p)] = Nothing)
         \/ Unlink(p)
<1>1. pc[p] # "off" /\ pc \in [Processes -> Place] /\ journaling \in [Processes -> BOOLEAN]
  BY DEF Alive, Delivered, Apart, OwnWork, Shaped
<1>2. ASSUME NEW q \in Processes, NEW to, to # "off", pc' = [pc EXCEPT ![q] = to]
      PROVE  FALSE
  BY <1>1, <1>2
<1>3. ASSUME NEW q \in Processes, NEW how, EndOf({q}, how)
      PROVE  q = p /\ code'[p] = how
  BY <1>1, <1>3 DEF EndOf
<1>4. ASSUME pc' = pc PROVE FALSE
  BY <1>1, <1>4
<1>5. ASSUME NEW q \in Processes, Start(q) PROVE FALSE
  BY <1>2, <1>5 DEF Start
<1>6. ASSUME NEW q \in Processes,
             ClearDir(q) \/ Resume(q) \/ Begin(q) \/ Work(q) \/ MakeDir(q) \/ OpenSibling(q)
               \/ WriteSibling(q) \/ Rename(q) \/ Deliver(q)
      PROVE  FALSE
  <2>1. \E to : to # "off" /\ pc' = [pc EXCEPT ![q] = to]
    BY <1>6 DEF ClearDir, Resume, Begin, Work, AfterUnit, MakeDir, OpenSibling,
                WriteSibling, Rename, Deliver, DeliverTo
  <2> QED
    BY <1>2, <2>1
<1>7. ASSUME NEW q \in Processes,
             ClearFails(q) \/ LoadFails(q) \/ StageFails(q) \/ DaemonGone(q) \/ SaveFails(q)
               \/ DeliverFails(q) \/ RecordFails(q)
      PROVE  pc[p] \notin {"unlink", "off"} /\ UNCHANGED journal /\ code'[p] # "0"
  <2>1. EndOf({q}, "1") \/ EndOf({q}, "blocked")
    BY <1>7 DEF ClearFails, LoadFails, StageFails, DaemonGone, SaveFails, DeliverFails,
                RecordFails, Exit
  <2>2. UNCHANGED journal /\ pc[q] # "unlink"
    BY <1>7 DEF ClearFails, LoadFails, StageFails, DaemonGone, SaveFails, DeliverFails,
                RecordFails, Working, Ready, Saving, files
  <2> QED
    BY <1>1, <1>3, <2>1, <2>2
<1>8. ASSUME NEW q \in Processes, Kill(q) PROVE FALSE
  BY <1>3, <1>8 DEF Kill, Exit
<1>9. ASSUME NEW q \in Processes, Forget(q)
      PROVE  /\ pc[p] = "forget" /\ UNCHANGED <<journal, tree>>
             /\ code'[p] = "0" /\ (journaling[p] => journal[Key(p)] = Nothing)
  <2>1. \/ pc' = [pc EXCEPT ![q] = "unlink"]
        \/ (journaling[q] => journal[Key(q)] = Nothing) /\ EndOf({q}, "0")
    BY <1>9 DEF Forget, Exit
  <2>2. pc[q] = "forget" /\ UNCHANGED <<journal, tree>>
    BY <1>9 DEF Forget, files
  <2> QED
    BY <1>2, <1>3, <2>1, <2>2
<1>10. ASSUME NEW q \in Processes, Unlink(q) PROVE Unlink(p)
  BY <1>3, <1>10 DEF Unlink
<1>11. ASSUME NEW q \in Processes, NEW k \in Selections, ClearKey(q, k) PROVE FALSE
  BY <1>4, <1>11 DEF ClearKey
<1>12. ASSUME NEW k \in Selections, Sync(k) PROVE FALSE
  BY <1>4, <1>12 DEF Sync, process
<1>13. ASSUME PowerLoss PROVE FALSE
  <2>1. EndOf({q \in Processes : Alive(q)}, "killed")
    BY <1>13 DEF PowerLoss
  <2>2. code'[p] = "killed"
    BY <2>1 DEF EndOf
  <2> QED
    BY <2>2
<1>14. CASE UNCHANGED launchVars
  BY <1>4, <1>14 DEF launchVars, process
<1> QED
  BY <1>5, <1>6, <1>7, <1>8, <1>9, <1>10, <1>11, <1>12, <1>13, <1>14 DEF LaunchNext

\* A launch that has a whole report, and is alone, finds it in the tree.
LEMMA ReportIsThere ==
  ASSUME Delivered, NEW p \in Processes, pc[p] \in {"forget", "unlink"}, alone[p]
  PROVE  \A f \in ToSet(ItsFiles(p)) : tree[f] = no[p]
<1>1. Alive(p) /\ Apart /\ Delivering(p)
  BY DEF Alive, Delivered
<1>2. /\ Len(ItsFiles(p)) \in Nat \ {0}
      /\ \A f \in ToSet(ItsFiles(p)) : \E i \in 1..Len(ItsFiles(p)) : f = ItsFiles(p)[i]
  BY <1>1, ItsFilesOf
<1>3. file[p] - 1 = Len(ItsFiles(p))
  BY <1>1, <1>2 DEF Delivering
<1>4. \A i \in 1..Len(ItsFiles(p)) : tree[ItsFiles(p)[i]] = no[p]
  BY <1>1, <1>3 DEF Delivering
<1> QED
  BY <1>2, <1>4

\* Whoever ends leaves on disk what its exit code says.
LEMMA LastWord ==
  ASSUME Delivered, [LaunchNext]_launchVars, NEW p \in Processes,
         Alive(p), pc'[p] = "off", code'[p] # "killed"
  PROVE  /\ code'[p] = "0" =>
              /\ alone[p] => \A f \in ToSet(ItsFiles(p)) : tree'[f] = no[p]
              /\ Undisturbed(p) => journal'[Key(p)] = Nothing
         /\ code'[p] # "0" /\ Undisturbed(p) /\ pc[p] \notin {"clear", "load"} =>
              \/ journal'[Key(p)] = mem[p]
              \/ mem[p] = <<>>
              \/ pc[p] \in Saving /\ journal'[Key(p)] = Front(mem[p])
<1>1. InItself(p) /\ Apart /\ journal \in [Selections -> Contents]
  BY DEF Delivered, Apart, OwnWork, Shaped
<1>2. CASE pc[p] \notin {"unlink", "off"} /\ UNCHANGED journal /\ code'[p] # "0"
  BY <1>1, <1>2 DEF InItself, Idle
<1>3. CASE /\ pc[p] = "forget" /\ UNCHANGED <<journal, tree>>
           /\ code'[p] = "0" /\ (journaling[p] => journal[Key(p)] = Nothing)
  <2>1. alone[p] => \A f \in ToSet(ItsFiles(p)) : tree[f] = no[p]
    BY <1>3, ReportIsThere
  <2>2. Undisturbed(p) => journal[Key(p)] = Nothing
    BY <1>3 DEF Undisturbed, Journals
  <2> QED
    BY <1>3, <2>1, <2>2
<1>4. CASE Unlink(p)
  <2>1. /\ pc[p] = "unlink" /\ UNCHANGED tree
        /\ journal' = [journal EXCEPT ![Key(p)] = Nothing]
        /\ EndOf({p}, IF journal[Key(p)] = Nothing THEN "1" ELSE "0")
    BY <1>4 DEF Unlink
  <2>2. Key(p) \in Selections
    BY <1>1, <2>1, SaverJournals
  <2>3. code'[p] = IF journal[Key(p)] = Nothing THEN "1" ELSE "0"
    BY <2>1 DEF EndOf
  <2>4. Undisturbed(p) => journal[Key(p)] # Nothing
    BY <1>1, <2>1, WorkIsWhole DEF InItself, Idle, Saving
  <2>5. alone[p] => \A f \in ToSet(ItsFiles(p)) : tree'[f] = no[p]
    BY <2>1, ReportIsThere
  <2>6. journal'[Key(p)] = Nothing
    BY <1>1, <2>1, <2>2
  <2> QED
    BY <2>3, <2>4, <2>5, <2>6
<1> QED
  BY <1>2, <1>3, <1>4, EndsItself

\* The exit code tells what is on disk: 0, a whole report of this launch and no
\* journal; anything else, a journal from which the next launch goes on with all
\* but the unit being saved, if there is to be one and nobody interfered.
THEOREM ExitCodesTell == LaunchSpec => ExitTells
<1> DEFINE Told ==
      \A p \in Processes :
         Alive(p) /\ pc'[p] = "off" /\ code'[p] # "killed" =>
            LET undisturbed == journaling[p] /\ Key(p) \notin disturbed
            IN  /\ code'[p] = "0" =>
                      /\ alone[p] => \A f \in ToSet(ItsFiles(p)) : tree'[f] = no[p]
                      /\ undisturbed => journal'[Key(p)] = Nothing
                /\ code'[p] # "0" /\ undisturbed /\ pc[p] \notin {"clear", "load"} =>
                      \/ journal'[Key(p)] = mem[p]
                      \/ mem[p] = <<>>
                      \/ pc[p] \in Saving /\ journal'[Key(p)] = Front(mem[p])
<1>1. Delivered /\ [LaunchNext]_launchVars => Told
  BY LastWord DEF Undisturbed, Journals
<1> HIDE DEF Told
<1>2. Delivered /\ [LaunchNext]_launchVars => [Told]_launchVars
  BY <1>1
<1>3. LaunchSpec => [][Told]_launchVars
  BY InitDelivered, NextDelivered, <1>2, PTL DEF LaunchSpec
<1> QED
  BY <1>3 DEF Told, ExitTells
=============================================================================
