------------------------------ MODULE RegBank ------------------------------
(***************************************************************************)
(* The register file of cpu/cpu.c.  Instructions always work on r[]; the   *)
(* registers of the inactive set are kept in regfile, the stack pointers   *)
(* of the inactive modes in stackfile, and put_psw copies both ways when   *)
(* the PSW selects another set or mode.  The copies of the active set and  *)
(* mode are out of date: every reader must know which copy is the live one.*)
(***************************************************************************)
EXTENDS Integers

CONSTANTS Gprs, Sets, Modes, Values, Up, Down, RedReset

ASSUME BankAssumption ==
  /\ 0 \in Modes
  /\ Up \in [Values -> Values] /\ Down \in [Values -> Values]
  /\ RedReset \in Values

VARIABLES
  r,          \* r[i]: the active general registers
  rsp,        \* r[PDP11_SP]
  regfile,    \* regfile[i][s]
  stackfile,  \* stackfile[m]
  psw,        \* PSW<11> as rs, PSW<15:14> as cm, PSW<13:12> as pm
  seen        \* the value the last MFPx of R6 pushed

vars == <<r, rsp, regfile, stackfile, psw, seen>>

Psw == [rs : Sets, cm : Modes, pm : Modes]

\* Every register and every copy is typed.
TypeOK ==
  /\ r \in [Gprs -> Values] /\ rsp \in Values
  /\ regfile \in [Gprs -> [Sets -> Values]]
  /\ stackfile \in [Modes -> Values]
  /\ psw \in Psw
  /\ seen \in Values

\* pdp11_cpu_reset clears every register and the PSW; any one value will do.
Init ==
  \E v \in Values, s \in Sets :
    /\ r = [i \in Gprs |-> v] /\ rsp = v
    /\ regfile = [i \in Gprs |-> [t \in Sets |-> v]]
    /\ stackfile = [m \in Modes |-> v]
    /\ psw = [rs |-> s, cm |-> 0, pm |-> 0]
    /\ seen = v

-----------------------------------------------------------------------------

\* The register-set half of put_psw: save the old set, load the new one.
SwitchSet(new) ==
  IF new.rs = psw.rs THEN UNCHANGED <<r, regfile>>
  ELSE /\ regfile' = [i \in Gprs |-> [regfile[i] EXCEPT ![psw.rs] = r[i]]]
       /\ r' = [i \in Gprs |-> regfile[i][new.rs]]

\* A stack pointer after n pushes.
Pushed(n, w) == CASE n = 0 -> w [] n = 1 -> Down[w] [] OTHER -> Down[Down[w]]

\* The stack-pointer half: w is r[PDP11_SP] when put_psw is called; the caller
\* then pushes n words.
SwitchMode(new, w, n) ==
  IF new.cm = psw.cm THEN rsp' = Pushed(n, w) /\ UNCHANGED stackfile
  ELSE /\ stackfile' = [stackfile EXCEPT ![psw.cm] = w]
       /\ rsp' = Pushed(n, stackfile[new.cm])

\* An explicit PSW store: put_psw alone.
PutPsw(new) ==
  /\ psw' = new
  /\ SwitchSet(new)
  /\ SwitchMode(new, rsp, 0)
  /\ UNCHANGED seen

\* do_trap: switch, then push the old PSW and PC; SP goes down before each write,
\* so a fault in the first leaves n = 1.
Trap(new, n) ==
  /\ psw' = [new EXCEPT !.pm = psw.cm]
  /\ SwitchSet(new)
  /\ SwitchMode(new, rsp, n)
  /\ UNCHANGED seen

\* op_rti: pop PC and PSW from the current stack, then put_psw.
Return(new) ==
  /\ psw' = new
  /\ SwitchSet(new)
  /\ SwitchMode(new, Up[Up[rsp]], 0)
  /\ UNCHANGED seen

\* Any instruction that writes a register other than PC.
SetGpr(i, v) ==
  /\ r' = [r EXCEPT ![i] = v]
  /\ UNCHANGED <<rsp, regfile, stackfile, psw, seen>>

SetSp(v) ==
  /\ rsp' = v
  /\ UNCHANGED <<r, regfile, stackfile, psw, seen>>

\* check_stack_limit in the red zone, which only Kernel mode can reach.
RedZone ==
  /\ psw.cm = 0
  /\ rsp' = RedReset
  /\ stackfile' = [stackfile EXCEPT ![0] = RedReset]
  /\ UNCHANGED <<r, regfile, psw, seen>>

\* Mutant of MoveFromPrevious: stackfile is read even for the current mode.
MoveFromStackfile ==
  /\ seen' = stackfile[psw.pm]
  /\ rsp' = Down[rsp]
  /\ UNCHANGED <<r, regfile, stackfile, psw>>

\* op_mfp with R6: the previous mode's stack pointer is in stackfile unless it
\* is the current mode's as well.
MoveFromPrevious ==
  /\ seen' = IF psw.cm # psw.pm THEN stackfile[psw.pm] ELSE rsp
  /\ rsp' = Down[rsp]
  /\ UNCHANGED <<r, regfile, stackfile, psw>>

\* op_mtp with R6: pop, then store.
MoveToPrevious(v) ==
  /\ IF psw.cm # psw.pm
     THEN rsp' = Up[rsp] /\ stackfile' = [stackfile EXCEPT ![psw.pm] = v]
     ELSE rsp' = v /\ UNCHANGED stackfile
  /\ UNCHANGED <<r, regfile, psw, seen>>

Next ==
  \/ \E new \in Psw : PutPsw(new) \/ Return(new) \/ \E n \in 1..2 : Trap(new, n)
  \/ \E i \in Gprs, v \in Values : SetGpr(i, v)
  \/ \E v \in Values : SetSp(v) \/ MoveToPrevious(v)
  \/ RedZone
  \/ MoveFromPrevious

Spec == Init /\ [][Next]_vars

-----------------------------------------------------------------------------
(* The registers as the program sees them.                                 *)

gprOf == [s \in Sets |-> [i \in Gprs |-> IF s = psw.rs THEN r[i]
                                         ELSE regfile[i][s]]]
spOf == [m \in Modes |-> IF m = psw.cm THEN rsp ELSE stackfile[m]]

Program == INSTANCE ModeRegs WITH gpr <- gprOf, sp <- spOf

\* The copying register file behaves as registers that never move: across any
\* sequence of traps, returns, PSW stores and MFPx/MTPx each set and each mode
\* keeps its own.
ImplementsModeRegs == Program!Spec
=============================================================================
