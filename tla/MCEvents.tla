------------------------------ MODULE MCEvents ------------------------------
(***************************************************************************)
(* Two controllers: a tape that RESET stops, and an RL11 that it does not   *)
(* stop and that takes commands while busy.  Delays shorter and longer than *)
(* the clock period, and costs from none to a whole period, so that events  *)
(* coincide, overtake one another and come due within an instruction.       *)
(***************************************************************************)
EXTENDS Events

MCCosts == {0, 1, Tick}
MCDelays == {1, Tick + 2}
=============================================================================
