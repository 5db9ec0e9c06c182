-------------------------------- MODULE Fp11 --------------------------------
(***************************************************************************)
(* FP11-C floating point: the arithmetic of src/core/fp/fp.c and the        *)
(* instructions of op_fp11 (src/core/cpu/cpu.c).                            *)
(*                                                                         *)
(* A floating value is [s, e, f]: sign, biased exponent, and the stored     *)
(* fraction without its hidden bit; the two 32-bit halves of fpac_t are one  *)
(* natural number.  Single precision is a value whose LowBits last fraction  *)
(* bits are ignored.  How an operand's address is formed is Kt11's concern:  *)
(* here it is any value, in memory or, where that matters, in an accumulator *)
(* (FR0 to FR5), and an integer operand is left-justified in IntBits bits as *)
(* pdp11_fp_ldcif takes it.  The widths are parameters; the machine's are in *)
(* brackets.                                                               *)
(***************************************************************************)
EXTENDS Integers

CONSTANTS
  ExpBits,     \* exponent [8]
  SingleBits,  \* fraction in single precision, hidden bit included [24]
  DoubleBits,  \* fraction in double precision [56]
  Guard,       \* guard bits [3]
  IntBits,     \* long integer [32]
  ShortBits,   \* word integer [16]
  Values,      \* the operands of the instructions
  Exponents,   \* the exponents an LDEXP loads
  Settings     \* the FPS modes LDFPS loads

\* A shift to the left multiplies by a power of two, one to the right divides.
Power[n \in Nat] == IF n = 0 THEN 1 ELSE 2 * Power[n - 1]

Bias == Power[ExpBits - 1]
MaxExp == Power[ExpBits] - 1
LowBits == DoubleBits - SingleBits
Hidden == Power[DoubleBits - 1]
One == Power[DoubleBits - 1 + Guard]       \* the hidden bit of a guarded fraction

Zero == [s |-> 0, e |-> 0, f |-> 0]
Value == [s : 0..1, e : 0..MaxExp, f : 0..(Hidden - 1)]
Magnitude(v) == v.e * Hidden + v.f
Fraction(v) == Hidden + v.f             \* F_GET_FRAC

\* FPS: t truncate, d double, l long, the enables of the exceptions, id inhibits
\* the trap, er an error was posted.
FpsModes == [t : BOOLEAN, d : BOOLEAN, l : BOOLEAN,
             enable : SUBSET {"OVFLO", "UNFLO", "ICVT"}, id : BOOLEAN]

\* What the widths and the operands have to be: a word no longer than a long
\* integer, that no longer than a fraction, two guard bits at least, of which the
\* normalisation of a product uses one, and a range of exponents in which a
\* fraction of a product does not underflow.
WidthAssumption ==
  /\ ExpBits \in Nat \ {0}
  /\ SingleBits \in Nat /\ SingleBits >= 1 /\ DoubleBits \in Nat /\ DoubleBits > SingleBits
  /\ Guard \in Nat /\ Guard >= 2 /\ DoubleBits + Guard <= Bias
  /\ ShortBits \in Nat \ {0} /\ IntBits \in ShortBits..DoubleBits
  /\ Values \subseteq Value /\ Exponents \subseteq Int /\ Settings \subseteq FpsModes

VARIABLES
  fps,     \* the mode bits of FPS
  er,      \* its error bit
  cc,      \* its condition codes
  fec,     \* floating exception code
  fea,     \* the instruction that posted it
  trapped, \* the last instruction trapped through vector 0244
  ac,      \* the accumulator FR[ac]
  ac1,     \* the accumulator FR[ac|1]
  dst,     \* the last integer stored
  last     \* history: the last instruction, its operand and the accumulator it found

vars == <<fps, er, cc, fec, fea, trapped, ac, ac1, dst, last>>

---------------------------------------------------------------------------
(* fp.c.  An outcome is a value, the V bit and the exception posted ("" none). *)

Outcome(v, overflow, code) == [v |-> v, overflow |-> overflow, code |-> code]

\* to_fac: single precision ignores the low fraction bits.
to_fac(v, m) == IF m.d THEN v ELSE [v EXCEPT !.f = @ - (@ % Power[LowBits])]

\* fp_notrap: an exception that is not enabled posts nothing, and the result is zero.
Excepted(v, overflow, code, m) ==
  IF code \in m.enable THEN Outcome(v, overflow, code) ELSE Outcome(Zero, overflow, "")

\* Mutant of Underflows: an exponent of zero passes.
UnderflowsBelow(exp) == exp < 0

\* An exponent of zero is no value: it would read back as zero.
Underflows(exp) == exp <= 0

round_and_pack(s, exp, frac, round, m) ==
  LET half == IF m.d THEN Power[Guard - 1] ELSE Power[Guard - 1 + LowBits]
      sum == IF round /\ ~m.t THEN frac + half ELSE frac
      carried == sum >= 2 * One
      ex == IF carried THEN exp + 1 ELSE exp
      packed == [s |-> s, e |-> ex % Power[ExpBits],
                 f |-> ((IF carried THEN sum \div 2 ELSE sum) \div Power[Guard]) % Hidden]
  IN  IF ex > MaxExp THEN Excepted(packed, TRUE, "OVFLO", m)
      ELSE IF Underflows(ex) THEN Excepted(packed, FALSE, "UNFLO", m)
      ELSE Outcome(packed, FALSE, "")

\* roundfp11: round a value to single precision.
roundfp11(v, m) ==
  LET sum == Magnitude(v) + Power[LowBits - 1]
      out == [s |-> v.s, e |-> (sum \div Hidden) % Power[ExpBits], f |-> sum % Hidden]
  IN  IF sum >= Power[ExpBits] * Hidden THEN Excepted(out, TRUE, "OVFLO", m)
      ELSE Outcome(out, FALSE, "")

\* Shift a non-zero fraction left until its hidden bit is set.
Shifts(frac) ==
  CHOOSE n \in 0..(DoubleBits + Guard) : frac * Power[n] \in One..(2 * One - 1)

\* Mutant of Negligible: the limit is that of single precision.
NegligibleInSingle(ediff) == ediff > SingleBits

\* The smaller operand would be shifted out altogether.
Negligible(ediff) == ediff >= DoubleBits + Guard + 1

addfp11(a, b, m) ==
  LET big == IF Magnitude(a) < Magnitude(b) THEN b ELSE a
      small == IF Magnitude(a) < Magnitude(b) THEN a ELSE b
      ediff == big.e - small.e
      x == Fraction(big) * Power[Guard]
      y == (Fraction(small) * Power[Guard]) \div Power[ediff]
  IN  IF big.e = 0 THEN Outcome(Zero, FALSE, "")
      ELSE IF small.e = 0 \/ Negligible(ediff) THEN Outcome(big, FALSE, "")
      ELSE IF big.s = small.s
      THEN IF x + y >= 2 * One
           THEN round_and_pack(big.s, big.e + 1, (x + y) \div 2, TRUE, m)
           ELSE round_and_pack(big.s, big.e, x + y, TRUE, m)
      ELSE IF x = y THEN Outcome(Zero, FALSE, "")
      ELSE round_and_pack(big.s, big.e - Shifts(x - y),
                          (x - y) * Power[Shifts(x - y)], TRUE, m)

\* frac_mulfp11 and the normalisation that follows it: the product of two
\* fractions in 1/2 to 1, guarded; the shift-and-add loop drops low bits.
Product(a, b) ==
  LET p == (Fraction(a) * Fraction(b) * Power[Guard]) \div Power[DoubleBits]
      exp == a.e + b.e - Bias
  IN  IF p < One THEN [exp |-> exp - 1, frac |-> 2 * p] ELSE [exp |-> exp, frac |-> p]

Sign(a, b) == (a.s + b.s) % 2

mulfp11(a, b, m) ==
  IF a.e = 0 \/ b.e = 0 THEN Outcome(Zero, FALSE, "")
  ELSE round_and_pack(Sign(a, b), Product(a, b).exp, Product(a, b).frac, TRUE, m)

\* The division loop: a quotient bit per turn, left early when nothing remains.
DivisionLoop(a, b, count) ==
  LET turn[n \in 0..count] ==
        IF n = 0 THEN [quo |-> 0, rem |-> Fraction(a) * Power[Guard], turns |-> 0]
        ELSE LET t == turn[n - 1]
                 d == Fraction(b) * Power[Guard]
                 fits == t.rem >= d
             IN  IF t.rem = 0 THEN t
                 ELSE [quo |-> 2 * t.quo + (IF fits THEN 1 ELSE 0),
                       rem |-> 2 * (IF fits THEN t.rem - d ELSE t.rem),
                       turns |-> n]
  IN  turn[count]

\* Mutant of Quotient: one that comes out early stays where the loop left it.
QuotientUnjustified(a, b, count) == DivisionLoop(a, b, count).quo

\* A quotient that comes out early is left-justified.
Quotient(a, b, count) ==
  LET loop == DivisionLoop(a, b, count) IN loop.quo * Power[count - loop.turns]

divfp11(a, b, m) ==
  LET count == (IF m.d THEN DoubleBits ELSE SingleBits) + Guard
      quo == Quotient(a, b, count) * Power[IF m.d THEN 0 ELSE LowBits]
      exp == a.e - b.e + Bias + 1
  IN  IF a.e = 0 THEN Outcome(Zero, FALSE, "")
      ELSE IF quo < One THEN round_and_pack(Sign(a, b), exp - 1, 2 * quo, TRUE, m)
      ELSE round_and_pack(Sign(a, b), exp, quo, TRUE, m)

\* modfp11: the product split into an integer ("int", truncated) and a fraction.
modfp11(a, b, m) ==
  LET p == Product(a, b)
      s == Sign(a, b)
      k == p.exp - Bias                        \* bits before the point
      below == p.frac % Power[DoubleBits + Guard - k]
      shifted == below * Power[k]
      frac == round_and_pack(s, Bias - Shifts(shifted),
                             shifted * Power[Shifts(shifted)], TRUE, m)
      int == round_and_pack(s, p.exp, p.frac - below, FALSE, m)
      whole == round_and_pack(s, p.exp, p.frac, FALSE, m)
      both(i, f, o) == [int |-> i, v |-> f, overflow |-> o.overflow, code |-> o.code]
  IN  IF a.e = 0 \/ b.e = 0 THEN both(Zero, Zero, Outcome(Zero, FALSE, ""))
      ELSE IF k <= 0
      THEN LET o == round_and_pack(s, p.exp, p.frac, TRUE, m) IN both(Zero, o.v, o)
      ELSE IF k > (IF m.d THEN DoubleBits ELSE SingleBits) THEN both(whole.v, Zero, whole)
      ELSE both(int.v, IF below = 0 THEN Zero ELSE frac.v, int)

\* pdp11_fp_cmp: the condition codes of source compared with accumulator.
pdp11_fp_cmp(a, b) ==
  LET x == IF a.e = 0 THEN Zero ELSE a
      y == IF b.e = 0 THEN Zero ELSE b
      flips == x.s = y.s /\ x # Zero /\ Magnitude(y) < Magnitude(x)
  IN  IF x = y THEN [n |-> FALSE, z |-> TRUE, v |-> FALSE, c |-> FALSE]
      ELSE [n |-> (y.s = 1) # flips, z |-> FALSE, v |-> FALSE, c |-> FALSE]

\* pdp11_fp_ldcif: an integer, left-justified in the long, to a value.
pdp11_fp_ldcif(i, m) ==
  LET negative == i >= Power[IntBits - 1]
      mag == IF negative THEN Power[IntBits] - i ELSE i
      n == CHOOSE k \in 0..IntBits : mag * Power[k] \in Power[IntBits - 1]..(Power[IntBits] - 1)
      v == [s |-> IF negative THEN 1 ELSE 0,
            e |-> Bias + (IF m.l THEN IntBits ELSE ShortBits) - n,
            f |-> mag * Power[n] * Power[DoubleBits - IntBits] - Hidden]
  IN  IF i = 0 THEN Zero
      ELSE IF ~m.d /\ ~m.t THEN roundfp11(v, m).v ELSE v

\* Mutant of IntLimit: that of positive numbers for both signs.
IntLimitPositive(s, unit) == Power[IntBits - 1]

\* i_limit: the magnitudes from which on an integer does not fit.
IntLimit(s, unit) == IF s = 1 THEN Power[IntBits - 1] + unit ELSE Power[IntBits - 1]

\* pdp11_fp_stcfi: a value to an integer, left-justified; C says it does not fit.
pdp11_fp_stcfi(v, m) ==
  LET width == IF m.l THEN IntBits ELSE ShortBits
      unit == Power[IntBits - width]
      frac == Fraction(to_fac(v, m))
      whole == frac \div Power[DoubleBits - IntBits + Bias + width - v.e]
      kept == whole - (whole % unit)
      no == [i |-> 0, c |-> TRUE, code |-> IF "ICVT" \in m.enable THEN "ICVT" ELSE ""]
  IN  IF v.e <= Bias THEN [i |-> 0, c |-> FALSE, code |-> ""]
      ELSE IF v.e > Bias + width \/ kept >= IntLimit(v.s, unit) THEN no
      ELSE [i |-> IF v.s = 1 THEN (Power[IntBits] - kept) % Power[IntBits] ELSE kept,
            c |-> FALSE, code |-> ""]

---------------------------------------------------------------------------
(* op_fp11                                                                 *)

\* fp_setcc: N and Z from the result, V as given, C clear.
fp_setcc(v, overflow) == [n |-> v.s = 1, z |-> v.e = 0, v |-> overflow, c |-> FALSE]

\* post_fpe: the code and the instruction are recorded, and the trap is taken
\* unless it is inhibited.
post_fpe(code, op) ==
  IF code = "" THEN trapped' = FALSE /\ UNCHANGED <<er, fec, fea>>
  ELSE /\ er' = TRUE /\ fec' = code /\ fea' = op
       /\ trapped' = ~fps.id

\* What every instruction does beside its result: the history of what it worked on.
Executes(op, b) ==
  /\ last' = [op |-> op, b |-> b, a |-> ac]
  /\ UNCHANGED fps

\* ADDf, SUBf, MULf: the accumulator and the operand give the accumulator.
Arithmetic(op, b) ==
  LET src == IF op = "SUB" /\ b.e # 0 THEN [b EXCEPT !.s = 1 - @] ELSE b
      o == IF op = "MUL" THEN mulfp11(to_fac(ac, fps), to_fac(src, fps), fps)
           ELSE addfp11(to_fac(ac, fps), to_fac(src, fps), fps)
  IN  /\ op \in {"ADD", "SUB", "MUL"} /\ Executes(op, b)
      /\ ac' = o.v /\ cc' = fp_setcc(o.v, o.overflow) /\ post_fpe(o.code, op)
      /\ UNCHANGED <<ac1, dst>>

\* DIVf: division by zero always posts, and changes nothing else.
DIVf(b) ==
  LET o == divfp11(to_fac(ac, fps), to_fac(b, fps), fps)
  IN  /\ Executes("DIV", b)
      /\ IF b.e = 0
         THEN post_fpe("DZRO", "DIV") /\ UNCHANGED <<ac, cc>>
         ELSE ac' = o.v /\ cc' = fp_setcc(o.v, o.overflow) /\ post_fpe(o.code, "DIV")
      /\ UNCHANGED <<ac1, dst>>

\* MODf: the integer goes to FR[ac|1], then the fraction to FR[ac].
MODf(b) ==
  LET o == modfp11(to_fac(ac, fps), to_fac(b, fps), fps)
  IN  /\ Executes("MOD", b)
      /\ ac' = o.v /\ ac1' = o.int
      /\ cc' = fp_setcc(o.v, o.overflow) /\ post_fpe(o.code, "MOD")
      /\ UNCHANGED dst

\* CMPf: two zeros leave the accumulator a clean zero.
CMPf(b) ==
  LET codes == pdp11_fp_cmp(to_fac(ac, fps), to_fac(b, fps))
  IN  /\ Executes("CMP", b)
      /\ cc' = codes
      /\ ac' = IF codes.z /\ ac.e = 0 THEN Zero ELSE ac
      /\ trapped' = FALSE /\ UNCHANGED <<er, fec, fea, ac1, dst>>

\* CLRf, ABSf and NEGf on the accumulator; TSTf only sets the codes.
Unary(op) ==
  LET v == CASE op = "CLR" -> Zero
             [] op = "TST" -> ac
             [] op = "ABS" -> IF ac.e = 0 THEN Zero ELSE [ac EXCEPT !.s = 0]
             [] op = "NEG" -> IF ac.e = 0 THEN Zero ELSE [ac EXCEPT !.s = 1 - @]
  IN  /\ op \in {"CLR", "TST", "ABS", "NEG"} /\ Executes(op, Zero)
      /\ ac' = v /\ cc' = fp_setcc(v, FALSE) /\ trapped' = FALSE
      /\ UNCHANGED <<er, fec, fea, ac1, dst>>

\* The mode of the other precision.
Other(m) == [m EXCEPT !.d = ~@]

\* read_fp and write_fp: a value in memory has the words of precision m; one in an
\* accumulator (reg) is read and written whole, whatever the precision.
Transferred(v, reg, m) == IF reg THEN v ELSE to_fac(v, m)

\* LDCff': the operand has the other precision; only the load into single rounds.
LDCff(b, reg) ==
  LET source == Transferred(b, reg, Other(fps))
      v == IF source.e = 0 THEN Zero ELSE source
      o == IF ~fps.d /\ ~fps.t THEN roundfp11(v, fps) ELSE Outcome(v, FALSE, "")
  IN  /\ Executes("LDCff", source)
      /\ ac' = o.v /\ cc' = fp_setcc(o.v, o.overflow) /\ post_fpe(o.code, "LDCff")
      /\ UNCHANGED <<ac1, dst>>

\* STCff': the accumulator is stored in the other precision (kept in ac1 here); one
\* rounded into an accumulator keeps the low bits of the sum.
STCff(reg) ==
  LET v == IF ac.e = 0 THEN Zero ELSE to_fac(ac, fps)
      o == IF fps.d /\ ~fps.t THEN roundfp11(v, fps) ELSE Outcome(v, FALSE, "")
  IN  /\ Executes("STCff", Zero)
      /\ ac1' = Transferred(o.v, reg, Other(fps))
      /\ cc' = fp_setcc(o.v, o.overflow) /\ post_fpe(o.code, "STCff")
      /\ UNCHANGED <<ac, dst>>

\* LDEXP: the exponent is replaced; one out of range over- or underflows.
LDEXP(x) ==
  LET v == [ac EXCEPT !.e = (x + Bias) % Power[ExpBits]]
      o == IF x > Bias - 1 THEN Excepted(v, TRUE, "OVFLO", fps)
           ELSE IF x <= -Bias THEN Excepted(v, FALSE, "UNFLO", fps)
           ELSE Outcome(v, FALSE, "")
  IN  /\ Executes("LDEXP", Zero)
      /\ ac' = o.v /\ cc' = fp_setcc(o.v, o.overflow) /\ post_fpe(o.code, "LDEXP")
      /\ dst' = x /\ UNCHANGED ac1

STEXP ==
  /\ Executes("STEXP", Zero)
  /\ dst' = ac.e - Bias
  /\ cc' = [n |-> ac.e < Bias, z |-> ac.e = Bias, v |-> FALSE, c |-> FALSE]
  /\ trapped' = FALSE /\ UNCHANGED <<er, fec, fea, ac, ac1>>

\* LDCif, and STCfi, whose codes go to the PSW too.
LDCif(i) ==
  /\ fps.l \/ i % Power[IntBits - ShortBits] = 0      \* a word fills the high half
  /\ Executes("LDCif", Zero)
  /\ ac' = pdp11_fp_ldcif(i, fps) /\ dst' = i
  /\ cc' = fp_setcc(ac', FALSE)
  /\ trapped' = FALSE /\ UNCHANGED <<er, fec, fea, ac1>>

STCfi ==
  LET o == pdp11_fp_stcfi(ac, fps)
  IN  /\ Executes("STCfi", Zero)
      /\ dst' = o.i
      /\ cc' = [n |-> o.i >= Power[IntBits - 1], z |-> o.i = 0, v |-> FALSE, c |-> o.c]
      /\ post_fpe(o.code, "STCfi")
      /\ UNCHANGED <<ac, ac1>>

\* LDFPS and LDf: the modes are set, the error bit cleared, an accumulator loaded.
Load(m, v) ==
  /\ fps' = m /\ er' = FALSE
  /\ ac' = v /\ cc' = fp_setcc(v, FALSE)
  /\ last' = [op |-> "load", b |-> Zero, a |-> Zero]
  /\ trapped' = FALSE /\ UNCHANGED <<fec, fea, ac1, dst>>

Init ==
  /\ fps = [t |-> FALSE, d |-> FALSE, l |-> FALSE, enable |-> {}, id |-> FALSE]
  /\ er = FALSE /\ cc = fp_setcc(Zero, FALSE) /\ fec = "" /\ fea = "" /\ trapped = FALSE
  /\ ac = Zero /\ ac1 = Zero /\ dst = 0
  /\ last = [op |-> "none", b |-> Zero, a |-> Zero]

\* pdp11_cpu_reset clears the unit.
Reset ==
  /\ last.op \notin {"none", "load"}
  /\ fps' = [t |-> FALSE, d |-> FALSE, l |-> FALSE, enable |-> {}, id |-> FALSE]
  /\ er' = FALSE /\ cc' = fp_setcc(Zero, FALSE) /\ fec' = "" /\ fea' = "" /\ trapped' = FALSE
  /\ ac' = Zero /\ ac1' = Zero /\ dst' = 0
  /\ last' = [op |-> "none", b |-> Zero, a |-> Zero]

Execute ==
  \/ \E b \in Values :
       \/ (\E op \in {"ADD", "SUB", "MUL"} : Arithmetic(op, b))
       \/ DIVf(b) \/ MODf(b) \/ CMPf(b) \/ (\E reg \in BOOLEAN : LDCff(b, reg))
  \/ \E op \in {"CLR", "TST", "ABS", "NEG"} : Unary(op)
  \/ (\E reg \in BOOLEAN : STCff(reg)) \/ STEXP \/ STCfi
  \/ \E x \in Exponents : LDEXP(x)
  \/ \E i \in 0..(Power[IntBits] - 1) : LDCif(i)

\* One instruction between a load and a reset, which keeps the problems apart.
Next ==
  \/ last.op = "none" /\ \E m \in Settings, v \in Values : Load(m, v)
  \/ last.op = "load" /\ Execute
  \/ Reset

Spec == Init /\ [][Next]_vars

---------------------------------------------------------------------------
\* Properties

\* The operands as the instruction takes them, and the result in its precision.
A == to_fac(last.a, fps)
B == to_fac(last.b, fps)
R == to_fac(ac, fps)

Unit == IF fps.d THEN 1 ELSE Power[LowBits]      \* last place of a fraction

\* The exponent a posted overflow or underflow wrapped.
Unwrapped(v) ==
  IF fec = "OVFLO" THEN v.e + Power[ExpBits]
  ELSE IF fec = "UNFLO" /\ v.e # 0 THEN v.e - Power[ExpBits] ELSE v.e

Signed(v, x) == IF v.s = 1 THEN -x ELSE x
Distance(x, y) == IF x < y THEN y - x ELSE x - y

\* r, with last place u, is the non-negative x rounded to nearest (ties away from
\* zero), or cut off when t.
Rounds(r, u, x, t) ==
  IF t THEN r <= x /\ x < r + u ELSE 2 * (r - x) <= u /\ 2 * (x - r) < u

Suppressed(v) == v = Zero /\ fec = ""

\* v is the value num/den * Power[exp - Bias], num/den in 1/2 to 1, rounded; or zero,
\* where that leaves the exponent range and the exception is not enabled.
RoundedTo(v, num, den, exp, t) ==
  LET k == Unwrapped(v) - exp
  IN  \/ Suppressed(v) /\ (exp <= 0 \/ exp >= MaxExp)
      \/ /\ ~Suppressed(v) /\ k \in {0, 1}
         /\ Rounds(Fraction(v) * Power[k] * den, Unit * Power[k] * den, num * Power[DoubleBits], t)

\* Add and subtract: the result is within one last place of the exact sum (half of
\* one and less than two guard bits when rounding, which is what a difference can lose
\* while its operands are aligned), so that a sum the precision can hold is exact.
SumsFaithful ==
  last.op \in {"ADD", "SUB"} =>
    LET low == DoubleBits + Guard             \* as far as a difference can sink
        term(v) == IF v.e = 0 THEN 0 ELSE Signed(v, Fraction(v) * Power[v.e + low])
        exact == IF last.op = "ADD" THEN term(A) + term(B) ELSE term(A) - term(B)
        place == Power[Unwrapped(R) + low]
        ulp == Unit * place
        error == Distance(Signed(R, Fraction(R) * place), exact)
    IN  IF Suppressed(R)
        THEN \/ Distance(exact, 0) < 2 * Hidden * Power[low]
             \/ Distance(exact, 0) > (2 * Hidden - Unit) * Power[MaxExp + low]
        ELSE error < ulp /\ (fps.t \/ (2 * error - ulp) * Power[Guard] < 4 * place)

ProductOf(a, b) ==
  LET num == Fraction(a) * Fraction(b)
      den == Power[2 * DoubleBits]
  IN  IF 2 * num < den THEN [num |-> 2 * num, den |-> den, exp |-> a.e + b.e - Bias - 1]
      ELSE [num |-> num, den |-> den, exp |-> a.e + b.e - Bias]

QuotientOf(a, b) ==
  IF Fraction(a) >= Fraction(b)
  THEN [num |-> Fraction(a), den |-> 2 * Fraction(b), exp |-> a.e - b.e + Bias + 1]
  ELSE [num |-> Fraction(a), den |-> Fraction(b), exp |-> a.e - b.e + Bias]

RoundsProduct ==
  /\ last.op = "MUL" =>
       IF A.e = 0 \/ B.e = 0 THEN R = Zero
       ELSE LET p == ProductOf(A, B)
            IN  RoundedTo(R, p.num, p.den, p.exp, fps.t) /\ (~Suppressed(R) => R.s = Sign(A, B))
  /\ last.op = "DIV" /\ B.e # 0 =>
       IF A.e = 0 THEN R = Zero
       ELSE LET q == QuotientOf(A, B)
            IN  RoundedTo(R, q.num, q.den, q.exp, fps.t) /\ (~Suppressed(R) => R.s = Sign(A, B))

SplitsProduct ==
  last.op = "MOD" =>
    LET p == ProductOf(A, B)
        k == p.exp - Bias
        int == to_fac(ac1, fps)
        whole == (p.num * Power[k]) \div p.den
        exact == (p.num * Power[k] - whole * p.den) * Power[Guard]
        place == Power[Unwrapped(R) - Bias + DoubleBits + Guard]
    IN  IF A.e = 0 \/ B.e = 0 THEN R = Zero /\ int = Zero
        ELSE IF k <= 0 THEN int = Zero /\ RoundedTo(R, p.num, p.den, p.exp, fps.t)
        ELSE IF k > (IF fps.d THEN DoubleBits ELSE SingleBits)
        THEN R = Zero /\ RoundedTo(int, p.num, p.den, p.exp, TRUE)
        ELSE /\ Fraction(int) * Power[k] = whole * Power[DoubleBits] /\ int.e = p.exp
             /\ IF R = Zero THEN exact < Power[k + DoubleBits + Guard]
                ELSE Distance(Fraction(R) * place, exact)
                       < Power[k + DoubleBits + Guard] + Unit * place

\* Multiply and divide give the exact product or quotient, correctly rounded, although
\* the loops drop bits and may end early; MOD gives its whole part exactly and its
\* fraction within a last place of the product.
ProductsRounded == RoundsProduct /\ SplitsProduct

\* v in single precision is r; V says that rounding left the range.
Narrowed(v, r) ==
  LET over == ~fps.t /\ v.e = MaxExp /\ Fraction(v) + Power[LowBits - 1] >= 2 * Hidden
      k == r.e - v.e
  IN  /\ cc.v = over
      /\ IF v.e = 0 \/ over THEN r.e = 0 /\ r.f = 0
         ELSE /\ r.s = v.s /\ k \in {0, 1}
              /\ Rounds(Fraction(r) * Power[k], Power[LowBits + k], Fraction(v), fps.t)

\* v in double precision is r: it keeps every bit, those of a whole accumulator too.
Widened(v, r) == ~cc.v /\ r = IF v.e = 0 THEN Zero ELSE v

\* Conversions: an integer becomes the nearest value (in double, itself); a value
\* becomes the integer towards zero, or C and zero when that does not fit, at both
\* ends of either width; a value converted to single is, read as single, the nearest
\* there (or cut), and to double it keeps every bit of the operand; CMP orders as the
\* values do.
ConversionsExact ==
  LET width == IF fps.l THEN IntBits ELSE ShortBits
      signed == IF dst >= Power[IntBits - 1] THEN dst - Power[IntBits] ELSE dst
      up(x) == CHOOSE n \in 0..IntBits :
                 Distance(x, 0) * Power[n] \in Power[IntBits - 1]..(Power[IntBits] - 1)
      order(v) == IF v.e = 0 THEN 0 ELSE Signed(v, Magnitude(v))
      towards0 == IF ac.e <= Bias THEN 0
                  ELSE Signed(ac, (Fraction(R) * Power[ac.e - Bias]) \div Power[DoubleBits])
      fits == towards0 \in -(Power[width - 1])..(Power[width - 1] - 1)
  IN  /\ last.op = "LDCif" =>
           IF dst = 0 THEN R = Zero
           ELSE /\ RoundedTo(R, Distance(signed, 0) * Power[up(signed)], Power[IntBits],
                             Bias + width - up(signed), fps.t)
                /\ (R.s = 1) = (signed < 0)
      /\ last.op = "STCfi" =>
           /\ cc.c = ~fits
           /\ signed = IF fits THEN towards0 * Power[IntBits - width] ELSE 0
      /\ last.op = "LDCff" => IF fps.d THEN Widened(last.b, ac) ELSE Narrowed(last.b, R)
      /\ last.op = "STCff" => IF fps.d THEN Narrowed(A, to_fac(ac1, Other(fps)))
                             ELSE Widened(A, ac1)
      /\ last.op = "CMP" => cc.n = (order(B) < order(A)) /\ cc.z = (order(B) = order(A))

\* What FPS, FEC and the trap tell: an exception is posted exactly when it is
\* enabled (division by zero always is), the one posted is the instruction's own,
\* V says overflow whether enabled or not, and a result out of range that is not
\* posted is a clean zero.
ExceptionsReported ==
  last.op \notin {"none", "load"} =>
    /\ er = (fec # "") /\ trapped = (er /\ ~fps.id) /\ (er => fea = last.op)
    /\ fec \in fps.enable \cup {"DZRO", ""}
    /\ (fec = "DZRO") = (last.op = "DIV" /\ last.b.e = 0)
    /\ fec = "DZRO" => ac = last.a
    /\ cc.v => IF "OVFLO" \in fps.enable THEN fec = "OVFLO" ELSE fec = "" /\ cc.z
    /\ (fec = "ICVT") = (cc.c /\ "ICVT" \in fps.enable)
    /\ last.op \in {"ADD", "SUB", "MUL", "DIV", "MOD", "LDCff", "LDEXP"} /\ fec = ""
         /\ ~(last.op = "DIV" /\ last.b.e = 0) /\ R.e = 0 => R = Zero

TypeOK ==
  /\ fps \in FpsModes /\ er \in BOOLEAN /\ trapped \in BOOLEAN
  /\ fec \in {"", "DZRO", "OVFLO", "UNFLO", "ICVT"}
  /\ ac \in Value /\ ac1 \in Value
=============================================================================
