------------------------------- MODULE Launches -------------------------------
(***************************************************************************)
(* The launches of `analyze` on one workspace, for one ticker and date      *)
(* (cli.py, config.py, contract.py, journal.py, report.py and the frame of  *)
(* pipeline.run): launches with the same and with other analysts, one after *)
(* the other and at the same time, share the journal directory and the      *)
(* report tree, and nothing locks either.  What Pipeline tells of a run's   *)
(* inside is a count of units here, each remembering the launch that        *)
(* produced it; the decision log is DecisionLog's.                          *)
(***************************************************************************)
EXTENDS Integers, Sequences, FiniteSets, SequencesExt

CONSTANTS
    Processes,          \* how many may be alive at a time
    Selections,         \* run signatures: analysts, rounds, asset type
    Sections,           \* of each selection, the section files of its report
    Units,              \* units of work of a run
    MaxLaunches,        \* bound
    Nothing, Torn       \* no file, one that json cannot read

Launch == 1..MaxLaunches

ASSUME LaunchAssumption ==
    /\ Units \in Nat \ {0} /\ MaxLaunches \in Nat
    /\ Sections \in [Selections -> Seq(STRING)]
    /\ Nothing \notin Seq(Launch) /\ Torn \notin Seq(Launch) /\ Nothing # Torn

VARIABLES
    journal, tmp,       \* of each run key, the journal and its sibling file
    dir,                \* the journal directory is there
    unsynced,           \* keys whose journal the disk has not caught up with
    tree,               \* of each file of the report tree, the launch that wrote it
    selected,           \* the selection of each launch so far
    pc, no,             \* where each process is, and its launch
    journaling,         \* without --no-journal
    mem,                \* the units of its RunState
    fd,                 \* the file its descriptor is open on
    file,               \* the next file of the report
    code,               \* its exit code
    disturbed,          \* history: keys two launches shared, a clear took from a
                        \* launch that was alive, or the power cut tore
    alone               \* history: nobody else delivered meanwhile

files == <<journal, tmp, dir, unsynced, tree>>
process == <<pc, mem, fd, file, code>>
fixed == <<selected, no, journaling>>
history == <<disturbed, alone>>
launchVars == <<files, process, fixed, history>>

\* Mutant of RunKey: the key is the ticker and the date.
TickerAndDate(sel) == CHOOSE s \in Selections : TRUE

\* config.run_key
RunKey(sel) == sel

\* Mutant of Sibling: one sibling for all journals.
OneSibling(key) == CHOOSE s \in Selections : TRUE

Sibling(key) == key

Key(p) == RunKey(selected[no[p]])
Alive(p) == pc[p] # "off"
Journals(p) == Alive(p) /\ journaling[p]
Saving == {"mkdir", "open", "write", "rename"}

\* The files of a report, in the order they are written; state.json goes with
\* report.md.
Files(sel) == Append(Sections[sel], "report.md")
File == UNION {ToSet(Files(sel)) : sel \in Selections}

-----------------------------------------------------------------------------
LaunchInit ==
    /\ journal = [k \in Selections |-> Nothing] /\ tmp = [k \in Selections |-> Nothing]
    /\ dir = FALSE /\ unsynced = {}
    /\ tree = [f \in File |-> 0]
    /\ selected = <<>>
    /\ pc = [p \in Processes |-> "off"] /\ no = [p \in Processes |-> 0]
    /\ journaling = [p \in Processes |-> TRUE]
    /\ mem = [p \in Processes |-> <<>>]
    /\ fd = [p \in Processes |-> "none"] /\ file = [p \in Processes |-> 1]
    /\ code = [p \in Processes |-> "none"]
    /\ disturbed = {} /\ alone = [p \in Processes |-> TRUE]

\* The processes of P end; only their exit codes are left of them.
EndOf(P, how) ==
    /\ pc' = [p \in Processes |-> IF p \in P THEN "off" ELSE pc[p]]
    /\ no' = [p \in Processes |-> IF p \in P THEN 0 ELSE no[p]]
    /\ journaling' = [p \in Processes |-> p \in P \/ journaling[p]]
    /\ mem' = [p \in Processes |-> IF p \in P THEN <<>> ELSE mem[p]]
    /\ file' = [p \in Processes |-> IF p \in P THEN 1 ELSE file[p]]
    /\ code' = [p \in Processes |-> IF p \in P THEN how ELSE code[p]]
    /\ UNCHANGED selected

Exit(p, how) ==
    /\ EndOf({p}, how)
    /\ fd' = [fd EXCEPT ![p] = "none"]

\* main: the arguments are parsed, the contract is read; a second launch of a
\* key that another one is journaling shares its files from now on.
Start(p) ==
    /\ ~Alive(p) /\ Len(selected) < MaxLaunches
    /\ no' = [no EXCEPT ![p] = Len(selected) + 1]
    /\ \E sel \in Selections, journals \in BOOLEAN, clear \in BOOLEAN :
        /\ selected' = Append(selected, sel)
        /\ journaling' = [journaling EXCEPT ![p] = journals]
        /\ pc' = [pc EXCEPT ![p] = IF clear /\ dir THEN "clear" ELSE "load"]
        /\ disturbed' = disturbed \cup
              {k \in {RunKey(sel)} : journals /\ \E q \in Processes : Journals(q) /\ Key(q) = k}
    /\ code' = [code EXCEPT ![p] = "none"]
    /\ alone' = [alone EXCEPT ![p] = TRUE]
    /\ UNCHANGED <<files, mem, fd, file>>

\* --clear-journal: every run's journal goes, one after the other, and what a
\* process has open there has no name any more.
ClearKey(p, k) ==
    /\ pc[p] = "clear" /\ (journal[k] # Nothing \/ tmp[k] # Nothing)
    /\ journal' = [journal EXCEPT ![k] = Nothing]
    /\ tmp' = [tmp EXCEPT ![k] = Nothing]
    /\ fd' = [q \in Processes |-> IF fd[q] # "none" /\ Key(q) = k THEN "gone" ELSE fd[q]]
    /\ disturbed' = disturbed \cup
          {j \in {k} : \E q \in Processes : Journals(q) /\ pc[q] # "clear" /\ Key(q) = j}
    /\ UNCHANGED <<dir, unsynced, tree, pc, mem, file, code, fixed, alone>>

ClearDir(p) ==
    /\ pc[p] = "clear" /\ dir
    /\ \A k \in Selections : journal[k] = Nothing /\ tmp[k] = Nothing
    /\ dir' = FALSE
    /\ pc' = [pc EXCEPT ![p] = "load"]
    /\ UNCHANGED <<journal, tmp, unsynced, tree, mem, fd, file, code, fixed, history>>

\* rmtree meets a file it had not listed, or misses one it had, and raises.
ClearFails(p) ==
    /\ pc[p] = "clear"
    /\ \/ ~dir
       \/ \E q \in Processes \ {p} : Journals(q) /\ pc[q] \in Saving \cup {"clear", "unlink"}
    /\ Exit(p, "1")
    /\ UNCHANGED <<files, history>>

-----------------------------------------------------------------------------
(* run(): load or begin, work, save. *)

AfterUnit(p) == IF journaling[p] THEN "mkdir" ELSE "work"

Resume(p) ==
    /\ pc[p] = "load" /\ journaling[p] /\ journal[Key(p)] \notin {Nothing, Torn}
    /\ mem' = [mem EXCEPT ![p] = journal[Key(p)]]
    /\ pc' = [pc EXCEPT ![p] = "work"]
    /\ UNCHANGED <<files, fd, file, code, fixed, history>>

\* json.load raises.
LoadFails(p) ==
    /\ pc[p] = "load" /\ journaling[p] /\ journal[Key(p)] = Torn
    /\ Exit(p, "1")
    /\ UNCHANGED <<files, history>>

Begin(p) ==
    /\ pc[p] = "load" /\ (journaling[p] => journal[Key(p)] = Nothing)
    /\ pc' = [pc EXCEPT ![p] = AfterUnit(p)]
    /\ UNCHANGED <<files, mem, fd, file, code, fixed, history>>

Working(p) == pc[p] = "work" /\ Len(mem[p]) < Units

Work(p) ==
    /\ Working(p)
    /\ mem' = [mem EXCEPT ![p] = Append(@, no[p])]
    /\ pc' = [pc EXCEPT ![p] = AfterUnit(p)]
    /\ UNCHANGED <<files, fd, file, code, fixed, history>>

StageFails(p) ==
    /\ Working(p)
    /\ Exit(p, "1")
    /\ UNCHANGED <<files, history>>

\* ConnectionError: the daemon cannot be reached, at the start or later (75 for
\* the engine, 2 for everyone else).
DaemonGone(p) ==
    /\ Working(p) \/ pc[p] = "load"
    /\ Exit(p, "blocked")
    /\ UNCHANGED <<files, history>>

MakeDir(p) ==
    /\ pc[p] = "mkdir"
    /\ dir' = TRUE
    /\ pc' = [pc EXCEPT ![p] = "open"]
    /\ UNCHANGED <<journal, tmp, unsynced, tree, mem, fd, file, code, fixed, history>>

OpenSibling(p) ==
    /\ pc[p] = "open" /\ dir
    /\ tmp' = [tmp EXCEPT ![Sibling(Key(p))] = Torn]
    /\ fd' = [fd EXCEPT ![p] = "tmp"]
    /\ pc' = [pc EXCEPT ![p] = "write"]
    /\ UNCHANGED <<journal, dir, unsynced, tree, mem, file, code, fixed, history>>

\* Somebody else has written the file since p opened it, or has it open: what is
\* longer than p's text, or is written between its parts, stays.
Shared(p) ==
    \/ \E q \in Processes \ {p} : fd[q] = fd[p] /\ Sibling(Key(q)) = Sibling(Key(p))
    \/ fd[p] = "tmp" /\ tmp[Sibling(Key(p))] # Torn
    \/ fd[p] = "journal" /\ journal[Key(p)] # Torn

\* Two writers of one file may leave what json cannot read.
Content(p) == {mem[p]} \cup {c \in {Torn} : Shared(p)}

WriteSibling(p) ==
    /\ pc[p] = "write"
    /\ \E content \in Content(p) :
        /\ tmp' = IF fd[p] = "tmp" THEN [tmp EXCEPT ![Sibling(Key(p))] = content] ELSE tmp
        /\ journal' = IF fd[p] = "journal" THEN [journal EXCEPT ![Key(p)] = content] ELSE journal
    /\ fd' = [fd EXCEPT ![p] = "none"]
    /\ pc' = [pc EXCEPT ![p] = "rename"]
    /\ UNCHANGED <<dir, unsynced, tree, mem, file, code, fixed, history>>

\* Another writer's open descriptor follows the file it is open on.
Follows(p, q) ==
    IF fd[q] \notin {"tmp", "journal"} \/ Key(q) # Key(p) THEN fd[q]
    ELSE IF fd[q] = "tmp" THEN "journal" ELSE "gone"

Rename(p) ==
    /\ pc[p] = "rename" /\ tmp[Sibling(Key(p))] # Nothing
    /\ journal' = [journal EXCEPT ![Key(p)] = tmp[Sibling(Key(p))]]
    /\ tmp' = [tmp EXCEPT ![Sibling(Key(p))] = Nothing]
    /\ unsynced' = unsynced \cup {Key(p)}
    /\ fd' = [q \in Processes |-> Follows(p, q)]
    /\ pc' = [pc EXCEPT ![p] = "work"]
    /\ UNCHANGED <<dir, tree, mem, file, code, fixed, history>>

\* The directory or the sibling is gone, or the disk refuses.
SaveFails(p) ==
    /\ pc[p] \in Saving
    /\ Exit(p, "1")
    /\ UNCHANGED <<files, history>>

-----------------------------------------------------------------------------
(* run(): write_report, journal.clear. *)

Ready(p) == pc[p] = "work" /\ Len(mem[p]) = Units
ItsFiles(p) == Files(selected[no[p]])

\* p writes to the tree: whoever is between its first file and its exit is not
\* alone with it, and neither is p.
Meets(p) ==
    LET others == {q \in Processes \ {p} : file[q] > 1}
    IN  alone' = [q \in Processes |->
                    alone[q] /\ q \notin others /\ (q = p => others = {})]

DeliverTo(p, last) ==
    /\ Ready(p)
    /\ tree' = [tree EXCEPT ![ItsFiles(p)[file[p]]] = no[p]]
    /\ file' = [file EXCEPT ![p] = @ + 1]
    /\ pc' = [pc EXCEPT ![p] = IF file[p] = last THEN "forget" ELSE "work"]
    /\ Meets(p)
    /\ UNCHANGED <<journal, tmp, dir, unsynced, mem, fd, code, fixed, disturbed>>

\* Mutant of Deliver: the last file is left out.
DeliverLess(p) == DeliverTo(p, Len(ItsFiles(p)) - 1)

\* write_report writes one file after the other.
Deliver(p) == DeliverTo(p, Len(ItsFiles(p)))

\* A file of the report cannot be written, and is left cut short.
DeliverFails(p) ==
    /\ Ready(p)
    /\ tree' = [tree EXCEPT ![ItsFiles(p)[file[p]]] = 0]
    /\ Meets(p)
    /\ Exit(p, "1")
    /\ UNCHANGED <<journal, tmp, dir, unsynced, disturbed>>

\* The decision cannot be recorded: a traceback, and the journal stays.
RecordFails(p) ==
    /\ pc[p] = "forget"
    /\ Exit(p, "1")
    /\ UNCHANGED <<files, history>>

\* journal.clear: is there a file ...
Forget(p) ==
    /\ pc[p] = "forget"
    /\ \/ /\ journaling[p] /\ journal[Key(p)] # Nothing
          /\ pc' = [pc EXCEPT ![p] = "unlink"]
          /\ UNCHANGED <<mem, fd, file, code, fixed>>
       \/ /\ journaling[p] => journal[Key(p)] = Nothing
          /\ Exit(p, "0")
    /\ UNCHANGED <<files, history>>

\* ... then it is removed, if it still is there.
Unlink(p) ==
    /\ pc[p] = "unlink"
    /\ EndOf({p}, IF journal[Key(p)] = Nothing THEN "1" ELSE "0")
    /\ journal' = [journal EXCEPT ![Key(p)] = Nothing]
    /\ fd' = [q \in Processes |->
                 IF fd[q] = "journal" /\ Key(q) = Key(p) THEN "gone" ELSE fd[q]]
    /\ UNCHANGED <<tmp, dir, unsynced, tree, history>>

-----------------------------------------------------------------------------
(* Deaths. *)

Kill(p) ==
    /\ Alive(p)
    /\ \/ UNCHANGED <<tree, alone>>
       \/ /\ Ready(p)
          /\ tree' = [tree EXCEPT ![ItsFiles(p)[file[p]]] = 0]
          /\ Meets(p)
    /\ Exit(p, "killed")
    /\ UNCHANGED <<journal, tmp, dir, unsynced, disturbed>>

\* The disk catches up.
Sync(k) ==
    /\ k \in unsynced
    /\ unsynced' = unsynced \ {k}
    /\ UNCHANGED <<journal, tmp, dir, tree, process, fixed, history>>

\* The power fails: what the disk had not caught up with may be an empty file.
PowerLoss ==
    /\ \E p \in Processes : Alive(p)
    /\ \E lost \in SUBSET {k \in unsynced : journal[k] # Nothing} :
        /\ journal' = [k \in Selections |-> IF k \in lost THEN Torn ELSE journal[k]]
        /\ disturbed' = disturbed \cup lost
    /\ unsynced' = {}
    /\ EndOf({p \in Processes : Alive(p)}, "killed")
    /\ fd' = [p \in Processes |-> "none"]
    /\ UNCHANGED <<tmp, dir, tree, alone>>

LaunchNext ==
    \/ \E p \in Processes :
        \/ Start(p) \/ ClearDir(p) \/ ClearFails(p)
        \/ Resume(p) \/ LoadFails(p) \/ Begin(p)
        \/ Work(p) \/ StageFails(p) \/ DaemonGone(p)
        \/ MakeDir(p) \/ OpenSibling(p) \/ WriteSibling(p) \/ Rename(p) \/ SaveFails(p)
        \/ Deliver(p) \/ DeliverFails(p)
        \/ RecordFails(p) \/ Forget(p) \/ Unlink(p) \/ Kill(p)
        \/ \E k \in Selections : ClearKey(p, k)
    \/ \E k \in Selections : Sync(k)
    \/ PowerLoss

LaunchSpec == LaunchInit /\ [][LaunchNext]_launchVars

-----------------------------------------------------------------------------
(* Properties. *)

Whole(content) == content \notin {Nothing, Torn}
MadeUnder(content, sel) == \A i \in DOMAIN content : selected[content[i]] = sel

\* Whoever resumes, clears, dies or writes at the same time, no launch goes on
\* from what was produced under another selection, and no journal holds it.
NoForeignWork ==
    /\ \A p \in Processes : Alive(p) => MadeUnder(mem[p], selected[no[p]])
    /\ \A k \in Selections : Whole(journal[k]) => MadeUnder(journal[k], k)

\* Launches of other selections leave a launch's journal alone: it is whole and
\* holds all that the launch has, but for the unit being saved, unless two
\* launches of its own key met, a clear took it, or the power cut tore it.
KeysApart ==
    /\ \A k \in Selections : journal[k] = Torn => k \in disturbed
    /\ \A p \in Processes :
          Journals(p) /\ Key(p) \notin disturbed /\ pc[p] \notin {"clear", "load"} =>
              journal[Key(p)] =
                  IF pc[p] \notin Saving THEN mem[p]
                  ELSE IF mem[p] = <<>> THEN Nothing ELSE Front(mem[p])

\* The exit code tells what is on disk: 0, a whole report of this launch and no
\* journal; anything else, a journal from which the next launch goes on with
\* all but the unit being saved, if there is to be one and nobody interfered.
ExitTells ==
    [][\A p \in Processes :
         Alive(p) /\ pc'[p] = "off" /\ code'[p] # "killed" =>
            LET undisturbed == journaling[p] /\ Key(p) \notin disturbed
            IN  /\ code'[p] = "0" =>
                      /\ alone[p] => \A f \in ToSet(ItsFiles(p)) : tree'[f] = no[p]
                      /\ undisturbed => journal'[Key(p)] = Nothing
                /\ code'[p] # "0" /\ undisturbed /\ pc[p] \notin {"clear", "load"} =>
                      \/ journal'[Key(p)] = mem[p]
                      \/ mem[p] = <<>>
                      \/ pc[p] \in Saving /\ journal'[Key(p)] = Front(mem[p])]_launchVars
=============================================================================
