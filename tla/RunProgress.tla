----------------------------- MODULE RunProgress -----------------------------
(***************************************************************************)
(* What the resume journal promises about one run, without saying how.     *)
(*                                                                         *)
(* A run is a fixed number of units of work (a stage, a debate turn).  The *)
(* journal remembers how many of them are durable: it gains one unit at a  *)
(* time, loses none however often the driver dies, and forgets the run     *)
(* only after the results of a complete run have been delivered (the       *)
(* report tree is written and the decision is in the log).                 *)
(*                                                                         *)
(* Pipeline implements this specification (Pipeline!Abstract).             *)
(***************************************************************************)
EXTENDS Integers

CONSTANT Total          \* the number of units of the run

VARIABLES
    durable,            \* units in the journal, NoRun when there is none
    delivered           \* the results of a complete run are out

progressVars == <<durable, delivered>>

NoRun == -1

ProgressTypeOK ==
    /\ durable \in {NoRun} \cup 0..Total
    /\ delivered \in BOOLEAN

ProgressInit ==
    /\ durable = NoRun
    /\ delivered = FALSE

\* A run is begun: the journal holds a run with nothing done yet.
BeginRun ==
    /\ durable = NoRun
    /\ durable' = 0
    /\ delivered' = FALSE

\* One more unit became durable.  The last one may complete a run equal to the
\* one whose results are already out.
Advance ==
    /\ durable \in 0..(Total - 1)
    /\ durable' = durable + 1
    /\ delivered' \in BOOLEAN
    /\ delivered' => durable' = Total

\* The results are (re)written; a death halfway leaves them undelivered.
Deliver ==
    /\ durable = Total
    /\ delivered' \in BOOLEAN
    /\ UNCHANGED durable

\* The journal is cleared, once the results are out.
Forget ==
    /\ durable = Total
    /\ delivered
    /\ durable' = NoRun
    /\ delivered' = FALSE

ProgressNext == BeginRun \/ Advance \/ Deliver \/ Forget

ProgressSpec == ProgressInit /\ [][ProgressNext]_progressVars
==============================================================================
