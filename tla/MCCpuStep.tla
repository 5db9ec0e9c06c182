----------------------------- MODULE MCCpuStep -----------------------------
(***************************************************************************)
(* Instances of CpuStep: a clock (BR6) and a console receiver (BR4), one   *)
(* program interrupt level above and one equal to a device's, and a kernel *)
(* stack of eight words with two in the yellow zone.                       *)
(***************************************************************************)
EXTENDS CpuStep

MCDevices == {0, 1}
MCHostDevices == {1}
MCBR == [d \in MCDevices |-> IF d = 0 THEN 6 ELSE 4]
MCLevels == {0, 4, 7}
MCPirLevels == {4, 7}

Kernel(l, t) == [cm |-> 0, pm |-> 0, ipl |-> l, t |-> t]
User(l) == [cm |-> 3, pm |-> 0, ipl |-> l, t |-> FALSE]

\* A program may leave any PSW in a vector: these mask or not, trace or not,
\* and one handler runs in User mode.
AnyTrapPsw == [v \in Vectors |-> {Kernel(0, FALSE), Kernel(7, TRUE), User(0)}]
AnyDevPsw == [d \in MCDevices |-> {Kernel(0, FALSE), Kernel(7, FALSE)}]

\* The vectors of an operating system: each masks the level it serves, and a
\* stack or program-interrupt trap masks all.
MaskingTrapPsw == [v \in Vectors |->
  IF v \in {"bus", "mme", "pirq"} THEN {Kernel(7, FALSE)}
  ELSE {Kernel(0, FALSE), Kernel(7, TRUE)}]
MaskingDevPsw == [d \in MCDevices |-> {Kernel(7, FALSE)}]
=============================================================================
