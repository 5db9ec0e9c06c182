--------------------------------- MODULE Alu ---------------------------------
(***************************************************************************)
(* What instructions compute (cpu.c): the double- and single-operand group,  *)
(* the extended instructions MUL, DIV, ASH, ASHC and XOR, the condition      *)
(* codes they leave and the branches that test them.                         *)
(*                                                                         *)
(* A word has W bits and a byte half as many; a shift code has as many       *)
(* values as the six bits of the code give for 16-bit words, 4 W.  The       *)
(* registers are an even one and its odd partner.  A source operand is any   *)
(* word.  Left out: destinations in memory, which are given the same value,  *)
(* the PSW as a destination (cc_frozen), and the time of a shift or divide.  *)
(***************************************************************************)
EXTENDS Integers

CONSTANTS
  W,             \* bits of a word: 16
  SwabClearsV    \* the model is later than the 11/20

\* A word has two bytes, and a byte has a bit below its sign: 1 is then positive in both.
WordAssumption == W \in Nat /\ W % 2 = 0 /\ W >= 4 /\ SwabClearsV \in BOOLEAN

\* The powers of two, as a function so that proofs can follow it.
Power[n \in 0 .. 2 * W] == IF n = 0 THEN 1 ELSE 2 * Power[n - 1]

Word == 0 .. Power[W] - 1
Regs == {0, 1}

VARIABLES
  r,    \* the two registers
  cc    \* the condition codes of the PSW

vars == <<r, cc>>

Codes == [n : BOOLEAN, z : BOOLEAN, v : BOOLEAN, c : BOOLEAN]

Init == r \in [Regs -> Word] /\ cc \in Codes

-----------------------------------------------------------------------------
(* Widths.  b says that an instruction has byte operands.                    *)

Bits(b) == IF b THEN W \div 2 ELSE W
WordCount(b) == Power[Bits(b)]                     \* width_carry
Low(x, b) == x % WordCount(b)                 \* x & width_mask
Msb(x, b) == Low(x, b) >= Power[Bits(b) - 1]  \* x & width_msb
Complement(x, b) == WordCount(b) - 1 - Low(x, b)

Signed(x, bits) == IF x >= Power[bits - 1] THEN x - Power[bits] ELSE x
Bit(flag) == IF flag THEN 1 ELSE 0

\* What an instruction leaves: a result, and condition codes whose N and Z are
\* those of the result.
Outcome(res, b, v, c) ==
  [res |-> res, cc |-> [n |-> Msb(res, b), z |-> Low(res, b) = 0,
                        v |-> v, c |-> c]]

\* One bit of an operand, and two operands combined bit by bit: what the operators
\* &, | and ^ of C do.
BitOf(x, n) == (x \div Power[n]) % 2
And == [t \in {0, 1} \X {0, 1} |-> t[1] * t[2]]
Or == [t \in {0, 1} \X {0, 1} |-> t[1] + t[2] - t[1] * t[2]]
Xor == [t \in {0, 1} \X {0, 1} |-> (t[1] + t[2]) % 2]

Combined(op, x, y) ==
  LET low[n \in 0 .. W] ==
        IF n = 0 THEN 0
        ELSE low[n - 1] + Power[n - 1] * op[<<BitOf(x, n - 1), BitOf(y, n - 1)>>]
  IN low[W]

\* alu_add.
AluAdd(x, y, b) ==
  LET sum == Low(x, b) + Low(y, b)
  IN Outcome(Low(sum, b), b,
             Msb(x, b) = Msb(y, b) /\ Msb(x, b) # Msb(sum, b),
             sum >= WordCount(b))

\* Mutant of AluSub: C is the carry out, not the borrow.
AluSubCarry(x, y, b) ==
  LET sum == Low(x, b) + Complement(y, b) + 1
  IN Outcome(Low(sum, b), b,
             Msb(x, b) # Msb(y, b) /\ Msb(x, b) # Msb(sum, b),
             sum >= WordCount(b))

\* alu_sub: x + ~y + 1, with the borrow in C.
AluSub(x, y, b) ==
  LET sum == Low(x, b) + Complement(y, b) + 1
  IN Outcome(Low(sum, b), b,
             Msb(x, b) # Msb(y, b) /\ Msb(x, b) # Msb(sum, b),
             sum < WordCount(b))

-----------------------------------------------------------------------------
(* Double-operand instructions: s is the source, d the destination.          *)

DoubleOps == {"MOV", "CMP", "BIT", "BIC", "BIS", "ADD", "SUB"}
WordOnly == {"ADD", "SUB", "SWAB", "SXT"}

Double(op, s, d, b, old) ==
  CASE op = "MOV" -> Outcome(s, b, FALSE, old.c)
    [] op = "CMP" -> AluSub(s, d, b)
    [] op = "BIT" -> Outcome(Combined(And, s, d), b, FALSE, old.c)
    [] op = "BIC" -> Outcome(Combined(And, d, Complement(s, b)), b, FALSE, old.c)
    [] op = "BIS" -> Outcome(Combined(Or, d, s), b, FALSE, old.c)
    [] op = "ADD" -> AluAdd(d, s, b)
    [] op = "SUB" -> AluSub(d, s, b)

-----------------------------------------------------------------------------
(* Single-operand instructions.                                             *)

SingleOps == {"CLR", "COM", "INC", "DEC", "NEG", "ADC", "SBC", "TST",
              "ROR", "ROL", "ASR", "ASL", "SWAB", "SXT"}
NoStore == {"CMP", "BIT", "TST"}

\* V of the shifts: N differs from C.
Shifted(res, b, c) == Outcome(res, b, Msb(res, b) # c, c)

\* Swapped halves, with N and Z of the new low one.
Swab(d, old) ==
  LET half == Power[W \div 2]
      res == (d % half) * half + d \div half
  IN [res |-> res,
      cc |-> [n |-> Msb(res, TRUE), z |-> Low(res, TRUE) = 0,
              v |-> ~SwabClearsV /\ old.v, c |-> FALSE]]

\* N, which is kept, through the whole word.
Sxt(old) ==
  [res |-> IF old.n THEN Power[W] - 1 ELSE 0,
   cc |-> [old EXCEPT !.z = ~old.n, !.v = FALSE]]

\* single_op.
Single(op, x, b, old) ==
  LET d == Low(x, b)
      sign == Power[Bits(b) - 1]
      most == WordCount(b) - 1
  IN CASE op = "CLR"  -> Outcome(0, b, FALSE, FALSE)
       [] op = "COM"  -> Outcome(Complement(d, b), b, FALSE, TRUE)
       [] op = "INC"  -> Outcome(Low(d + 1, b), b, d = sign - 1, old.c)
       [] op = "DEC"  -> Outcome(Low(d - 1, b), b, d = sign, old.c)
       [] op = "NEG"  -> Outcome(Low(0 - d, b), b, Low(0 - d, b) = sign, d # 0)
       [] op = "ADC"  -> Outcome(Low(d + Bit(old.c), b), b,
                                 old.c /\ d = sign - 1, old.c /\ d = most)
       [] op = "SBC"  -> Outcome(Low(d - Bit(old.c), b), b,
                                 old.c /\ d = sign, old.c /\ d = 0)
       [] op = "TST"  -> Outcome(d, b, FALSE, FALSE)
       [] op = "ROR"  -> Shifted(d \div 2 + sign * Bit(old.c), b, d % 2 = 1)
       [] op = "ROL"  -> Shifted(Low(2 * d + Bit(old.c), b), b, Msb(d, b))
       [] op = "ASR"  -> Shifted(d \div 2 + sign * Bit(Msb(d, b)), b, d % 2 = 1)
       [] op = "ASL"  -> Shifted(Low(2 * d, b), b, Msb(d, b))
       [] op = "SWAB" -> Swab(d, old)
       [] op = "SXT"  -> Sxt(old)

-----------------------------------------------------------------------------
(* Extended instructions.  Each returns the registers and condition codes    *)
(* it leaves; an odd register is its own partner.                            *)

\* r[reg] and r[reg | 1].
Joined(reg) == r[reg] * Power[W] + r[1]
Split(reg, x) == [r EXCEPT ![reg] = x \div Power[W], ![1] = x % Power[W]]

Mul(reg, x) ==
  LET product == Signed(r[reg], W) * Signed(x, W)
  IN [r |-> Split(reg, product % Power[2 * W]),
      cc |-> [n |-> product < 0, z |-> product = 0, v |-> FALSE,
              c |-> product \notin -(Power[W - 1]) .. Power[W - 1] - 1]]

Abs(x) == IF x < 0 THEN -x ELSE x

\* Division in C drops the fraction.
Quotient(x, y) ==
  IF (x < 0) = (y < 0) THEN Abs(x) \div Abs(y) ELSE -(Abs(x) \div Abs(y))

\* The quotient fits in a word.
Fits(q) == q \in -(Power[W - 1]) .. Power[W - 1] - 1

\* A division that is refused leaves the registers alone.  The one quotient that
\* does not fit in a double word has a case of its own in the code, which
\* leaves the same codes as any that does not fit in a word.
Div(reg, x) ==
  LET dividend == Signed(Joined(reg), 2 * W)
      divisor == Signed(x, W)
      q == Quotient(dividend, divisor)
      refused(n, z, c) ==
        [r |-> r, cc |-> [n |-> n, z |-> z, v |-> TRUE, c |-> c]]
  IN CASE x = 0 -> refused(FALSE, TRUE, TRUE)
       [] x # 0 /\ ~Fits(q) -> refused(q < 0, FALSE, FALSE)
       [] OTHER ->
            [r |-> [r EXCEPT ![reg] = q % Power[W],
                             ![1] = (dividend - divisor * q) % Power[W]],
             cc |-> [n |-> q < 0, z |-> q = 0, v |-> FALSE, c |-> FALSE]]

\* Mutant of Lost: one bit less is looked at.
LostShort(src, n, bits) == src \div Power[bits - n + 1]

\* The bits a left shift by n has pushed out, below copies of the sign.
Lost(src, n, bits) == src \div Power[bits - n]

\* What op_ash and op_ashc have in common: a signed number of `bits' bits,
\* shifted, with V and C.  A right shift by 4 W - code; \div keeps the sign.
Shift(src, code, bits) ==
  LET left == Lost(src, code, bits)
      res == (src * Power[code]) % Power[bits]
      right == 4 * W - code
  IN CASE code = 0 -> [x |-> src, v |-> FALSE, c |-> FALSE]
       [] code \in 1 .. bits - 1 ->
            [x |-> res, v |-> left # (IF res >= Power[bits - 1] THEN -1 ELSE 0),
             c |-> left % 2 = 1]
       [] code \in bits .. 2 * W - 1 ->
            [x |-> 0, v |-> src # 0, c |-> (src * Power[code - bits]) % 2 = 1]
       [] code = 2 * W ->
            [x |-> IF src < 0 THEN -1 ELSE 0, v |-> FALSE, c |-> src < 0]
       [] OTHER ->
            [x |-> src \div Power[right], v |-> FALSE,
             c |-> (src \div Power[right - 1]) % 2 = 1]

Ash(reg, x) ==
  LET s == Shift(Signed(r[reg], W), x % (4 * W), W)
      o == Outcome(s.x % Power[W], FALSE, s.v, s.c)
  IN [r |-> [r EXCEPT ![reg] = o.res], cc |-> o.cc]

Ashc(reg, x) ==
  LET s == Shift(Signed(Joined(reg), 2 * W), x % (4 * W), 2 * W)
      both == s.x % Power[2 * W]
  IN [r |-> Split(reg, both),
      cc |-> [n |-> both >= Power[2 * W - 1], z |-> both = 0,
              v |-> s.v, c |-> s.c]]

-----------------------------------------------------------------------------
(* One instruction each.                                                    *)

\* A byte goes to the low half of a register, except that MOVB extends it.
StoreReg(d, op, b, res) ==
  LET extended == Signed(Low(res, b), Bits(b)) % Power[W]
  IN IF op \in NoStore THEN r
     ELSE [r EXCEPT ![d] = IF b /\ op # "MOV" THEN @ - Low(@, b) + Low(res, b)
                                              ELSE extended]

DoDouble(op, s, d, b) ==
  /\ op \in WordOnly => ~b
  /\ LET o == Double(op, Low(s, b), Low(r[d], b), b, cc)
     IN r' = StoreReg(d, op, b, o.res) /\ cc' = o.cc

DoSingle(op, d, b) ==
  /\ op \in WordOnly => ~b
  /\ LET o == Single(op, r[d], b, cc)
     IN r' = StoreReg(d, op, b, o.res) /\ cc' = o.cc

ExtendedOps == {"MUL", "DIV", "ASH", "ASHC"}

Extended(op, reg, x) ==
  CASE op = "MUL"  -> Mul(reg, x)
    [] op = "DIV"  -> Div(reg, x)
    [] op = "ASH"  -> Ash(reg, x)
    [] op = "ASHC" -> Ashc(reg, x)

DoExtended(op, reg, x) ==
  LET o == Extended(op, reg, x) IN r' = o.r /\ cc' = o.cc

\* The destination is the other operand, here a register too.
DoXor(reg, d) ==
  LET o == Outcome(Combined(Xor, r[d], r[reg]), FALSE, FALSE, cc.c)
  IN r' = [r EXCEPT ![d] = o.res] /\ cc' = o.cc

\* SOB: no condition codes.
DoSob(reg) == r' = [r EXCEPT ![reg] = (@ - 1) % Power[W]] /\ UNCHANGED cc

\* op_ccops: the named flags are all set or all cleared.
DoCodes(named, on) ==
  /\ cc' = [f \in DOMAIN cc |-> IF f \in named THEN on ELSE cc[f]]
  /\ UNCHANGED r

Next ==
  \/ \E op \in DoubleOps, s \in Word, d \in Regs, b \in BOOLEAN :
       DoDouble(op, s, d, b)
  \/ \E op \in SingleOps, d \in Regs, b \in BOOLEAN : DoSingle(op, d, b)
  \/ \E op \in ExtendedOps, reg \in Regs, x \in Word : DoExtended(op, reg, x)
  \/ \E reg, d \in Regs : DoXor(reg, d)
  \/ \E reg \in Regs : DoSob(reg)
  \/ \E named \in SUBSET DOMAIN cc, on \in BOOLEAN : DoCodes(named, on)

Spec == Init /\ [][Next]_vars

\* branch_taken; the other branches are the negations of these.
Taken(op, f) ==
  CASE op = "BEQ"  -> f.z       [] op = "BLT" -> f.n # f.v
    [] op = "BLE"  -> f.z \/ (f.n # f.v)
    [] op = "BLO"  -> f.c       [] op = "BLOS" -> f.c \/ f.z
    [] op = "BMI"  -> f.n       [] op = "BVS" -> f.v

-----------------------------------------------------------------------------

\* Every instruction leaves words in the registers.
TypeOK == r \in [Regs -> Word] /\ cc \in Codes

\* The operands of the properties below: the registers as two numbers, and as
\* one of double width.
Number(reg, b) == Signed(Low(r[reg], b), Bits(b))
Pair == Joined(0)

\* An outcome is that of an exact computation: V and C tell when the signed
\* and the unsigned result have no representation.
Exact(o, b, signed, unsigned) ==
  /\ o.res = signed % WordCount(b)
  /\ o.cc.v <=> signed \notin -(Power[Bits(b) - 1]) .. Power[Bits(b) - 1] - 1
  /\ o.cc.c <=> unsigned \notin 0 .. WordCount(b) - 1

\* Every sum and difference, words and bytes, agrees with integer arithmetic:
\* the result, overflow, and carry or borrow.
ExactResults ==
  \A b \in BOOLEAN :
       LET x == Number(0, b)       y == Number(1, b)
           ux == Low(r[0], b)      uy == Low(r[1], b)
           one(op) == Single(op, r[0], b, cc)
           c == Bit(cc.c)
       IN /\ Exact(AluAdd(r[0], r[1], b), b, x + y, ux + uy)
          /\ Exact(AluSub(r[0], r[1], b), b, x - y, ux - uy)
          /\ Exact(one("ADC"), b, x + c, ux + c)
          /\ Exact(one("SBC"), b, x - c, ux - c)
          /\ Exact(one("NEG"), b, 0 - x, 0 - ux)
          /\ one("INC").cc.v = AluAdd(r[0], 1, b).cc.v
          /\ one("DEC").cc.v = AluSub(r[0], 1, b).cc.v

\* After a CMP the branches that follow it in programs compare its operands,
\* signed or unsigned, for any two words or bytes.
ComparesBranch ==
  \A b \in BOOLEAN :
    LET f == Double("CMP", r[0], r[1], b, cc).cc
        x == Number(0, b)       y == Number(1, b)
        ux == Low(r[0], b)      uy == Low(r[1], b)
    IN /\ Taken("BEQ", f)  <=> x = y
       /\ Taken("BLT", f)  <=> x < y
       /\ Taken("BLE", f)  <=> x <= y
       /\ Taken("BLO", f)  <=> ux < uy
       /\ Taken("BLOS", f) <=> ux <= uy

\* The sequences by which programs compute with double words do: the carry
\* goes from the low word to the high one through ADC and SBC.  The first
\* instruction of a sum or difference sets the codes, so that one setting of the
\* old ones stands for all.
WideArithmetic ==
  /\ \A hi, lo \in IF \E f \in DOMAIN cc : cc[f] THEN {} ELSE Word :
       LET low == AluAdd(r[1], lo, FALSE)
           high == Single("ADC", r[0], FALSE, low.cc)
           sum == AluAdd(high.res, hi, FALSE)
           low2 == AluSub(r[1], lo, FALSE)
           high2 == Single("SBC", r[0], FALSE, low2.cc)
           difference == AluSub(high2.res, hi, FALSE)
       IN /\ sum.res * Power[W] + low.res = (Pair + hi * Power[W] + lo) % Power[2 * W]
          /\ difference.res * Power[W] + low2.res
               = (Pair - (hi * Power[W] + lo)) % Power[2 * W]
  /\ LET high == Single("NEG", r[0], FALSE, cc)
         low == Single("NEG", r[1], FALSE, high.cc)
         carried == Single("SBC", high.res, FALSE, low.cc)
     IN carried.res * Power[W] + low.res = (0 - Pair) % Power[2 * W]

\* Sums, differences, comparisons and multiple-word computations are those of the
\* integers, and the registers hold words.
ArithmeticExact == TypeOK /\ ExactResults /\ ComparesBranch /\ WideArithmetic

\* The same shifts done by one place at a time, in one word or two; V stays
\* set once the sign has changed on the way.
ShiftWord(op, p) ==
  LET o == Single(op, p.x, FALSE, cc)
  IN [x |-> o.res, v |-> p.v \/ (op = "ASL" /\ o.cc.v), c |-> o.cc.c]

ShiftPair(op, p) ==
  LET hi == p.x \div Power[W]
      lo == p.x % Power[W]
      first == Single(op, IF op = "ASL" THEN lo ELSE hi, FALSE, cc)
      second == IF op = "ASL" THEN Single("ROL", hi, FALSE, first.cc)
                              ELSE Single("ROR", lo, FALSE, first.cc)
  IN [x |-> IF op = "ASL" THEN second.res * Power[W] + first.res
                          ELSE first.res * Power[W] + second.res,
      v |-> p.v \/ (op = "ASL" /\ second.cc.v), c |-> second.cc.c]

\* ASH and ASHC do what that many shifts by one place would, for every shift
\* code, the largest shifts in both directions included.
ShiftsByOne ==
  \A right \in BOOLEAN :
    LET op == IF right THEN "ASR" ELSE "ASL"
        most == IF right THEN 2 * W ELSE 2 * W - 1
        zero(x) == [x |-> x, v |-> FALSE, c |-> FALSE]
        word[n \in 0 .. most] ==
          IF n = 0 THEN zero(r[0]) ELSE ShiftWord(op, word[n - 1])
        pair[n \in 0 .. most] ==
          IF n = 0 THEN zero(Pair) ELSE ShiftPair(op, pair[n - 1])
        same(o, res, p) == res = p.x /\ o.cc.v = p.v /\ o.cc.c = p.c
    IN \A n \in 0 .. most :
         LET code == IF right THEN (4 * W - n) % (4 * W) ELSE n
             one == Ash(0, code)
             two == Ashc(0, code)
         IN /\ same(one, one.r[0], word[n])
            /\ same(two, two.r[0] * Power[W] + two.r[1], pair[n])

\* A division leaves the quotient and the remainder, which has the sign of the
\* dividend; or, with V set, the registers as they were, because no quotient
\* fits in a word.
DividesExactly ==
  \A x \in Word :
    LET dividend == Signed(Pair, 2 * W)
        divisor == Signed(x, W)
        rest(q) == dividend - q * divisor
        right(q) == /\ Abs(rest(q)) < Abs(divisor)
                    /\ rest(q) # 0 => (rest(q) < 0) = (dividend < 0)
        o == Div(0, x)
    IN IF o.cc.v
         THEN /\ o.r = r
              /\ \A q \in -(Power[W - 1]) .. Power[W - 1] - 1 : ~right(q)
         ELSE /\ right(Signed(o.r[0], W))
              /\ Signed(o.r[1], W) = rest(Signed(o.r[0], W))

\* Both: the extended instructions are the loops they stand for.
ExtendedExact == ShiftsByOne /\ DividesExactly
=============================================================================
