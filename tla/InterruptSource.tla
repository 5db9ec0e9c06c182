-------------------------- MODULE InterruptSource --------------------------
(***************************************************************************)
(* What a controller promises the processor about its bus request, whatever *)
(* registers it is made of.  enabled is its interrupt-enable bit, ready its *)
(* DONE bit, request its bit of int_req.                                    *)
(*                                                                         *)
(* The request is an edge latch: it is set when enabled and ready become    *)
(* both true, and at no other time, and it falls when the processor grants  *)
(* it or when one of the two falls.  A device that stays ready does not     *)
(* request again.  One that accepts a command while it is ready may finish  *)
(* it before anybody can look: ready then falls and rises within the step,  *)
(* which only given, the history variable that changes with every accepted  *)
(* command, can show.                                                       *)
(***************************************************************************)
VARIABLES enabled, ready, given, request

vars == <<enabled, ready, given, request>>

Both == enabled /\ ready

Init ==
  /\ enabled \in BOOLEAN /\ ready \in BOOLEAN /\ given \in BOOLEAN
  /\ request = FALSE

\* The processor grants the request (the bus grant clears the latch).
Acknowledge ==
  /\ request
  /\ request' = FALSE
  /\ UNCHANGED <<enabled, ready, given>>

\* The two bits become both true in this step, or did so again within it.
Edge == Both' /\ (~Both \/ given' # given)

\* The program or the device changes the two bits.  A request stands after the
\* step if it was raised in it, or stood before and was not withdrawn.
Change ==
  /\ enabled' \in BOOLEAN /\ ready' \in BOOLEAN /\ given' \in BOOLEAN
  /\ given' # given => ready            \* a busy device accepts no command
  /\ request' = (Both' /\ (request \/ Edge))

Next == Acknowledge \/ Change

Spec == Init /\ [][Next]_vars
=============================================================================
