------------------------------- MODULE RunView -------------------------------
(***************************************************************************)
(* The page of one run: what runview.survey makes of the session log that   *)
(* SessionLog writes, and plan.py's stages as configured with the run       *)
(* painted onto them.  The page holds nothing: every definition here is a   *)
(* function of the lines there are at the moment it is read, while the run  *)
(* goes on, after its driver died, or when lines were lost.                 *)
(***************************************************************************)
EXTENDS SessionLog, SequencesExt

CONSTANTS
    PlanOrder,          \* the pipeline's stages, in band order
    Listed              \* those whose profile the daemon lists

ASSUME PageAssumption ==
    /\ Stages \subseteq ToSet(PlanOrder)
    /\ Listed \subseteq ToSet(PlanOrder)

-----------------------------------------------------------------------------
(* survey: one card per started line, in the order the sessions started; a   *)
(* card is known by the number of its line.                                  *)

Card(stage, sid, st) == [stage |-> stage, sid |-> sid, state |-> st]

Observed ==
    [i \in LinesOf("started") |-> Card(lines[i].stage, lines[i].sid, Shown(lines[i].sid))]

\* The totals count the cards of each state; there is one per started line.
Count(st) == Cardinality({i \in LinesOf("started") : Shown(lines[i].sid) = st})

\* session_ids: the sessions a reader may open.
SessionIds == {lines[i].sid : i \in LinesOf("started")}

\* The ended lines, by their session, and what the daemon measured for them.
EndedSids == {lines[i].sid : i \in LinesOf("ended")}
CostOf(s) == lines[Max(EndOf(s))].cost
Measured == {s \in EndedSids : CostOf(s) # "unmeasured"}
Priced == {s \in Measured : CostOf(s) = "priced"}

Withheld == -1

\* Mutant of Total: what is priced is summed.
TotalOfPriced == IF Priced = {} THEN Withheld ELSE Cardinality(Priced)

\* _money: every session costs one; no total unless all that were measured are
\* priced.
Total == IF Priced = {} \/ Priced # Measured THEN Withheld ELSE Cardinality(Priced)

-----------------------------------------------------------------------------
(* plan.py *)

\* assemble: the places of the stages the daemon knows, the others are named as
\* missing.
Assembled == {p \in DOMAIN PlanOrder : PlanOrder[p] \in Listed}
Missing == ToSet(PlanOrder) \ Listed
Planned == [p \in Assembled |-> Card(PlanOrder[p], 0, "planned")]

CardsOf(stage, observed) == {i \in DOMAIN observed : observed[i].stage = stage}

\* Mutant of PaintedOn: the first session of a stage stays.
FirstOf(card, observed) ==
    LET its == CardsOf(card.stage, observed)
    IN  IF its = {} THEN card ELSE observed[Min(its)]

\* by_stage keeps the last card of a stage.
PaintedOn(card, observed) ==
    LET its == CardsOf(card.stage, observed)
    IN  IF its = {} THEN card ELSE observed[Max(its)]

\* merge: the planned stages in their order, then every session of a stage that
\* is not planned in the order they started.
Merged ==
    LET observed == Observed
    IN  [planned |-> [p \in Assembled |-> PaintedOn(Planned[p], observed)],
         added |-> Restrict(observed, {i \in DOMAIN observed : observed[i].stage \notin Listed})]

-----------------------------------------------------------------------------
(* Properties. *)

\* The sessions there were, each of which cost one.
Held == {s \in Sid : fate[s] # "none"}

\* A total is the run's bill: it is never more than the run spent, and with
\* nothing shown running, every session measured and no line lost, it is what
\* all sessions spent, those that failed included.
BillIsWhole ==
    Total # Withheld =>
        /\ Total <= Cardinality(Held)
        /\ /\ Count("RUNNING") = 0 /\ Measured = EndedSids
           /\ writes.torn = 0 /\ writes.refused = 0
           => Total = Cardinality(Held)

\* However often a stage was begun again, the page shows the session that is at
\* work, the plan in its order with each stage once, and every session of a
\* stage the daemon does not list; only an earlier session of a stage is left out.
PageShowsTheWork ==
    LET page == Merged
        cards == Range(page.planned) \cup Range(page.added)
    IN  /\ \A s \in SessionIds : fate[s] = "open" =>
              \E card \in cards : card.sid = s /\ card.state = "RUNNING"
        /\ \A p \in Assembled : page.planned[p].stage = PlanOrder[p]
        /\ \A i \in LinesOf("started") :
              \/ \E card \in cards : card.sid = lines[i].sid
              \/ \E k \in LinesOf("started") :
                    /\ i < k /\ lines[k].stage = lines[i].stage
                    /\ lines[i].stage \notin Missing
=============================================================================
