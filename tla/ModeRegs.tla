------------------------------ MODULE ModeRegs ------------------------------
(***************************************************************************)
(* The registers a PDP-11 program is promised: one general register array  *)
(* per register set, selected by PSW<11>, and one stack pointer per        *)
(* processor mode, selected by PSW<15:14>.  Nothing is ever copied: a      *)
(* change of PSW only changes which registers the instructions name.       *)
(***************************************************************************)
EXTENDS Integers

CONSTANTS
  Gprs,        \* the general registers R0 .. R5
  Sets,        \* register sets
  Modes,       \* processor modes
  Values,      \* register contents
  Up, Down,    \* the value a pop or a push leaves in a stack pointer
  RedReset     \* the stack pointer after a red-zone abort (4)

VARIABLES
  gpr,         \* gpr[s][i]: register i of set s
  sp,          \* sp[m]: the stack pointer of mode m
  psw,         \* register set, current and previous mode
  seen         \* the value the last MFPx of R6 delivered

vars == <<gpr, sp, psw, seen>>

Psw == [rs : Sets, cm : Modes, pm : Modes]

Init ==
  /\ gpr \in [Sets -> [Gprs -> Values]]
  /\ sp \in [Modes -> Values]
  /\ psw \in Psw
  /\ seen \in Values

SetGpr(i, v) ==
  /\ gpr' = [gpr EXCEPT ![psw.rs][i] = v]
  /\ UNCHANGED <<sp, psw, seen>>

SetSp(m, v) ==
  /\ sp' = [sp EXCEPT ![m] = v]
  /\ UNCHANGED <<gpr, psw, seen>>

LoadPsw(new) == psw' = new /\ UNCHANGED <<gpr, sp, seen>>

\* A stack pointer after n pushes.
Pushed(n, w) == CASE n = 0 -> w [] n = 1 -> Down[w] [] OTHER -> Down[Down[w]]

\* A trap switches first and pushes n words on the new mode's stack.
Trap(new, n) ==
  /\ psw' = [new EXCEPT !.pm = psw.cm]
  /\ sp' = [sp EXCEPT ![new.cm] = Pushed(n, @)]
  /\ UNCHANGED <<gpr, seen>>

\* A return pops two words from the old mode's stack and then switches.
Return(new) ==
  /\ psw' = new
  /\ sp' = [sp EXCEPT ![psw.cm] = Up[Up[@]]]
  /\ UNCHANGED <<gpr, seen>>

\* MFPx R6 pushes the previous mode's stack pointer, read before the push.
MoveFromPrevious ==
  /\ seen' = sp[psw.pm]
  /\ sp' = [sp EXCEPT ![psw.cm] = Down[@]]
  /\ UNCHANGED <<gpr, psw>>

\* MTPx R6 pops a word into the previous mode's stack pointer.
MoveToPrevious(v) ==
  /\ sp' = [[sp EXCEPT ![psw.cm] = Up[@]] EXCEPT ![psw.pm] = v]
  /\ UNCHANGED <<gpr, psw, seen>>

Next ==
  \/ \E i \in Gprs, v \in Values : SetGpr(i, v)
  \/ \E v \in Values : SetSp(psw.cm, v)
  \/ \E new \in Psw : LoadPsw(new) \/ Return(new) \/ \E n \in 1..2 : Trap(new, n)
  \/ MoveFromPrevious
  \/ \E v \in Values : MoveToPrevious(v)

Spec == Init /\ [][Next]_vars
=============================================================================
