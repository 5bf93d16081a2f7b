------------------------------- MODULE MCSweep -------------------------------
(***************************************************************************)
(* Sweep for TLC: a plain ticker and one with a dash, every other day.      *)
(***************************************************************************)
EXTENDS Sweep

MCTickers == {<<"NVDA">>, <<"BRK", "B">>}
MCCalendar == <<"mon", "tue", "wed">>
=============================================================================
