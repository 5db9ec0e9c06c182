----------------------------- MODULE MCDatapath -----------------------------
(***************************************************************************)
(* The parts of the processor that hold and compute values: the register     *)
(* file, the ALU and the FP11.  They meet only in instructions, which other  *)
(* modules have, so that each behaviour exercises one of them.              *)
(*                                                                         *)
(* The register file has one general register, two sets, the three modes of  *)
(* the 11/70 and two register contents, which a push and a pop exchange.     *)
(* The ALU has words of four bits and bytes of two: every pair of registers  *)
(* with every setting of the condition codes, every source operand and shift *)
(* code.  The FP11 has exponents of four bits, fractions of three and five:  *)
(* every operation on every pair of operands at, next to and far from both   *)
(* ends of the exponent range, with fractions whose low bits matter to       *)
(* rounding, carry and normalisation, in every mode; unclean zeros included. *)
(***************************************************************************)
EXTENDS RegBank

CONSTANTS W, SwabClearsV

CONSTANTS ExpBits, SingleBits, DoubleBits, Guard, IntBits, ShortBits,
          FpValues, Exponents, Settings

VARIABLES
  unit,                 \* the part exercised: "bank", "alu" or "fp"
  aluR, aluCc,
  fps, er, fpCc, fec, fea, trapped, ac, ac1, dst, last

A == INSTANCE Alu WITH r <- aluR, cc <- aluCc
F == INSTANCE Fp11 WITH cc <- fpCc, Values <- FpValues

ASSUME AluWords == A!WordAssumption
ASSUME FpWidths == F!WidthAssumption

aluVars == <<aluR, aluCc>>
fpVars == <<fps, er, fpCc, fec, fea, trapped, ac, ac1, dst, last>>

\* A part that is not exercised stands still in one of its initial states.
BankIdle == rsp = 0 /\ psw.rs = 0
AluIdle == \A i \in DOMAIN aluR, c \in DOMAIN aluCc : aluR[i] = 0 /\ ~aluCc[c]

DatapathInit ==
  /\ unit \in {"bank", "alu", "fp"}
  /\ Init /\ (unit # "bank" => BankIdle)
  /\ A!Init /\ (unit # "alu" => AluIdle)
  /\ F!Init

DatapathNext ==
  /\ unit' = unit
  /\ \/ unit = "bank" /\ Next /\ UNCHANGED <<aluVars, fpVars>>
     \/ unit = "alu" /\ A!Next /\ UNCHANGED <<vars, fpVars>>
     \/ unit = "fp" /\ F!Next /\ UNCHANGED <<vars, aluVars>>

DatapathSpec == DatapathInit /\ [][DatapathNext]_<<unit, vars, aluVars, fpVars>>

-----------------------------------------------------------------------------

\* cpu.c: alu_add, alu_sub, single_op and branch_taken compute as integers do.
AluArithmeticExact == unit = "alu" => A!ArithmeticExact

\* cpu.c: op_ash, op_ashc and op_div are the loops they stand for.
AluExtendedExact == unit = "alu" => A!ExtendedExact

\* fp.c: addfp11 is within a last place of the exact sum.
FpSumsFaithful == unit = "fp" => F!SumsFaithful

\* fp.c: mulfp11, divfp11 and modfp11 round the exact product and quotient.
FpProductsRounded == unit = "fp" => F!ProductsRounded

\* fp.c: conversions between precisions and integers, and comparison.
FpConversionsExact == unit = "fp" => F!ConversionsExact

\* cpu.c: what op_fp11 and post_fpe leave in FPS, FEC and FEA.
FpExceptionsReported == unit = "fp" => F!ExceptionsReported

-----------------------------------------------------------------------------
(* The instance.                                                           *)

MCValues == 0..1
MCUp == [v \in MCValues |-> 1 - v]
MCDown == [v \in MCValues |-> 1 - v]

MCFpValues == [s : 0..1, e : {0}, f : {0, 6}]
              \cup [s : 0..1, e : {1, 7, 8, 9, 12, 15}, f : {0, 1, 6, 11, 15}]
MCExponents == -17..17
MCSettings == { m \in [t : BOOLEAN, d : BOOLEAN, l : BOOLEAN,
                       enable : {{}, {"OVFLO", "UNFLO", "ICVT"}}, id : BOOLEAN] :
                  /\ m.id => m.enable # {} /\ m.d /\ m.l
                  /\ m.l = m.t }
=============================================================================
