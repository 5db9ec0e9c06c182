------------------------------- MODULE MCKt11 -------------------------------
(***************************************************************************)
(* Two pages of two one-word blocks.  The operating system leaves a page     *)
(* absent, read-only, or cut to half its length from either end; every       *)
(* addressing mode and every kind of reference occurs, alone and after       *)
(* another operand, and the instruction may straddle the two pages.         *)
(***************************************************************************)
EXTENDS Kt11

Op(mode, reg) == [mode |-> mode, reg |-> reg]
Insn(kind, byte, src, dst) ==
  [kind |-> kind, byte |-> byte, src |-> src, dst |-> dst, words |-> 2]

MCInstructions == {
  Insn("double", FALSE, Op(2, "R0"), Op(4, "R0")),
  Insn("double", FALSE, Op(3, "R0"), Op(7, "R0")),
  Insn("mov", TRUE, Op(2, "R0"), Op(4, "SP")),
  Insn("mov", FALSE, Op(5, "R0"), Op(1, "SP")),
  Insn("jsr", FALSE, Op(0, "R0"), Op(2, "R0")),
  Insn("rts", FALSE, Op(0, "R0"), Op(0, "R0")),
  Insn("rti", FALSE, Op(0, "R0"), Op(0, "R0")),
  Insn("mfp", FALSE, Op(6, "R0"), Op(0, "R0")),
  Insn("mtp", FALSE, Op(0, "R0"), Op(3, "R0")),
  Insn("ldf", FALSE, Op(2, "R0"), Op(0, "R0")),
  Insn("stf", FALSE, Op(0, "R0"), Op(4, "R0")) }

Pdr(acf, plf, ed) == [acf |-> acf, plf |-> plf, ed |-> ed]
MCPdrStores == { Pdr(0, 1, FALSE), Pdr(2, 0, FALSE), Pdr(6, 1, TRUE) }
MCPcStarts == {2}
=============================================================================
