----------------------------- MODULE Fp11_proofs -----------------------------
(***************************************************************************)
(* The FP11, for every width of exponent, fraction and integer that the      *)
(* assumption on them allows and for every operand: what an instruction      *)
(* leaves in FPS, FEC, FEA and the trap tells the exception it met; a        *)
(* product, a quotient and MOD's split of a product are the exact ones,      *)
(* rounded as FPS says; a conversion between integers, single and double     *)
(* numbers is exact, rounded once, or refused; and a sum is within a last    *)
(* place of the exact one, whatever its alignment has shifted out.           *)
(***************************************************************************)
EXTENDS Datapath_proofs

-----------------------------------------------------------------------------
(* Powers of two.                                                           *)

Doubles(f, n) == f = [k \in 0 .. n |-> IF k = 0 THEN 1 ELSE 2 * f[k - 1]]

\* Powers up to any number exist.
LEMMA DoublesExist == ASSUME NEW n \in Nat PROVE \E f : Doubles(f, n)
<1> DEFINE S == {m \in Nat : \E f : Doubles(f, m)}
<1>1. 0 \in S
  <2> DEFINE f == [k \in 0 .. 0 |-> 1]
  <2>1. Doubles(f, 0)
    BY DEF Doubles
  <2> QED BY <2>1
<1>2. ASSUME NEW m \in Nat, m \in S
      PROVE  m + 1 \in S
  <2>1. PICK f : Doubles(f, m)
    BY <1>2
  <2> DEFINE g == [k \in 0 .. m + 1 |-> IF k = m + 1 THEN 2 * f[m] ELSE f[k]]
  <2>2. ASSUME NEW k \in 0 .. m + 1
        PROVE  g[k] = IF k = 0 THEN 1 ELSE 2 * g[k - 1]
    <3>1. CASE k = m + 1
      BY <3>1
    <3>2. CASE k = 0
      BY <2>1, <3>2 DEF Doubles
    <3>3. CASE k # m + 1 /\ k # 0
      <4>1. k \in 0 .. m /\ k - 1 \in 0 .. m /\ k - 1 # m + 1
        BY <3>3
      <4>2. f[k] = 2 * f[k - 1]
        BY <2>1, <3>3, <4>1 DEF Doubles
      <4> QED BY <3>3, <4>1, <4>2
    <3> QED BY <3>1, <3>2, <3>3
  <2>3. g = [k \in 0 .. m + 1 |-> g[k]]
    OBVIOUS
  <2> HIDE DEF g
  <2>4. Doubles(g, m + 1)
    BY <2>2, <2>3 DEF Doubles
  <2>5. m + 1 \in Nat
    OBVIOUS
  <2> QED BY <2>4, <2>5, Zenon DEF S
<1> HIDE DEF S
<1>3. n \in S
  BY <1>1, <1>2, NatSetInduction
<1> QED BY <1>3 DEF S

\* And agree.
LEMMA DoublesAgree ==
  ASSUME NEW n \in Nat, NEW m \in Nat, NEW f, NEW g, Doubles(f, n), Doubles(g, m)
  PROVE  \A k \in Nat : k <= n /\ k <= m => f[k] = g[k]
<1> DEFINE S == {k \in Nat : k <= n /\ k <= m => f[k] = g[k]}
<1>1. 0 \in S
  BY DEF Doubles
<1>2. ASSUME NEW k \in Nat, k \in S
      PROVE  k + 1 \in S
  <2> SUFFICES ASSUME k + 1 <= n, k + 1 <= m PROVE f[k + 1] = g[k + 1]
    OBVIOUS
  <2>1. f[k] = g[k]
    BY <1>2
  <2>2. k + 1 \in 0 .. n /\ k + 1 \in 0 .. m /\ k + 1 # 0 /\ (k + 1) - 1 = k
    OBVIOUS
  <2>3. f[k + 1] = 2 * f[(k + 1) - 1] /\ g[k + 1] = 2 * g[(k + 1) - 1]
    BY <2>2 DEF Doubles
  <2> QED BY <2>1, <2>2, <2>3
<1> HIDE DEF S
<1>3. Nat \subseteq S
  BY <1>1, <1>2, NatSetInduction
<1> QED BY <1>3 DEF S

\* The powers are what they are defined to be.
LEMMA FpPowerSteps ==
  /\ F!Power[0] = 1
  /\ \A n \in Nat : F!Power[n + 1] = 2 * F!Power[n]
  /\ \A n \in Nat : F!Power[n] \in Nat \ {0}
<1> DEFINE Powers(f) == f = [n \in Nat |-> IF n = 0 THEN 1 ELSE 2 * f[n - 1]]
           upTo == [n \in Nat |-> CHOOSE f : Doubles(f, n)]
           g == [n \in Nat |-> upTo[n][n]]
           power == F!Power
<1>1. \A n \in Nat : Doubles(upTo[n], n)
  <2> SUFFICES ASSUME NEW n \in Nat PROVE Doubles(CHOOSE f : Doubles(f, n), n)
    OBVIOUS
  <2> QED BY DoublesExist, Zenon
<1> HIDE DEF upTo
<1>2. g[0] = 1
  <2>1. Doubles(upTo[0], 0)
    BY <1>1
  <2> QED BY <2>1 DEF Doubles
<1>3. \A n \in Nat : g[n + 1] = 2 * g[n]
  <2> SUFFICES ASSUME NEW n \in Nat PROVE upTo[n + 1][n + 1] = 2 * upTo[n][n]
    OBVIOUS
  <2>1. n + 1 \in Nat /\ n <= n /\ n <= n + 1
    OBVIOUS
  <2>2. Doubles(upTo[n], n) /\ Doubles(upTo[n + 1], n + 1)
    BY <1>1, <2>1
  <2>3. upTo[n + 1][n] = upTo[n][n]
    <3>1. \A k \in Nat : k <= n /\ k <= n + 1 => upTo[n][k] = upTo[n + 1][k]
      BY <2>1, <2>2, DoublesAgree
    <3> QED BY <2>1, <3>1
  <2>4. upTo[n + 1][n + 1] = 2 * upTo[n + 1][(n + 1) - 1] /\ (n + 1) - 1 = n
    BY <2>2 DEF Doubles
  <2> QED BY <2>3, <2>4
<1>4. Powers(g)
  <2>1. \A n \in Nat : g[n] = IF n = 0 THEN 1 ELSE 2 * g[n - 1]
    <3> SUFFICES ASSUME NEW n \in Nat, n # 0 PROVE g[n] = 2 * g[n - 1]
      BY <1>2
    <3>1. n - 1 \in Nat /\ (n - 1) + 1 = n
      OBVIOUS
    <3>2. g[(n - 1) + 1] = 2 * g[n - 1]
      BY <1>3, <3>1
    <3> QED BY <3>1, <3>2
  <2>2. g = [n \in Nat |-> g[n]]
    OBVIOUS
  <2> HIDE DEF g
  <2> QED BY <2>1, <2>2
<1>5. power = CHOOSE f : Powers(f)
  BY Zenon DEF F!Power
<1> HIDE DEF Powers, power, g
<1>6. Powers(power)
  BY <1>4, <1>5, Zenon
<1>7. power[0] = 1 /\ \A n \in Nat : power[n + 1] = 2 * power[n]
  <2>1. power = [n \in Nat |-> IF n = 0 THEN 1 ELSE 2 * power[n - 1]]
    BY <1>6, Zenon DEF Powers
  <2>2. power[0] = 1
    BY <2>1
  <2>3. ASSUME NEW n \in Nat PROVE power[n + 1] = 2 * power[n]
    <3>1. n + 1 \in Nat /\ n + 1 # 0 /\ (n + 1) - 1 = n
      OBVIOUS
    <3>2. power[n + 1] = 2 * power[(n + 1) - 1]
      BY <2>1, <3>1, Zenon
    <3> QED BY <3>1, <3>2, Zenon
  <2> QED BY <2>2, <2>3
<1> DEFINE S == {n \in Nat : power[n] \in Nat \ {0}}
<1>8. Nat \subseteq S
  <2>1. 0 \in S
    BY <1>7
  <2>2. ASSUME NEW n \in Nat, n \in S PROVE n + 1 \in S
    BY <1>7, <2>2
  <2> HIDE DEF S
  <2> QED BY <2>1, <2>2, NatSetInduction
<1> QED BY <1>7, <1>8 DEF power

\* The power of a sum is the product of the powers.
LEMMA FpPowerOfSum ==
  ASSUME NEW m \in Nat, NEW n \in Nat
  PROVE  F!Power[m + n] = F!Power[m] * F!Power[n]
<1> DEFINE S == {k \in Nat : F!Power[m + k] = F!Power[m] * F!Power[k]}
<1>1. PICK x \in Nat : x = F!Power[m]
  BY FpPowerSteps
<1>2. 0 \in S
  <2>1. m + 0 = m /\ x * 1 = x
    OBVIOUS
  <2> QED BY <1>1, <2>1, FpPowerSteps
<1>3. ASSUME NEW k \in Nat, k \in S
      PROVE  k + 1 \in S
  <2>1. PICK y \in Nat : y = F!Power[k]
    BY FpPowerSteps
  <2>2. F!Power[m + k] = x * y
    BY <1>1, <1>3, <2>1
  <2>3. m + (k + 1) = (m + k) + 1 /\ m + k \in Nat
    OBVIOUS
  <2>4. F!Power[(m + k) + 1] = 2 * (x * y) /\ F!Power[k + 1] = 2 * y
    BY <2>1, <2>2, <2>3, FpPowerSteps
  <2>5. 2 * (x * y) = x * (2 * y)
    OBVIOUS
  <2> QED BY <1>1, <2>3, <2>4, <2>5
<1> HIDE DEF S
<1>4. n \in S
  BY <1>2, <1>3, NatSetInduction
<1> QED BY <1>4 DEF S

\* Products grow with their factors.
LEMMA TimesGrows ==
  ASSUME NEW x \in Nat, NEW y \in Nat, NEW z \in Nat, x <= y
  PROVE  x * z <= y * z
<1>1. PICK k \in Nat : y = x + k
  <2>1. y - x \in Nat /\ y = x + (y - x)
    OBVIOUS
  <2> QED BY <2>1
<1>2. (x + k) * z = x * z + k * z /\ k * z \in Nat /\ x * z \in Nat
  OBVIOUS
<1> QED BY <1>1, <1>2

\* Quotient and remainder of natural numbers.
LEMMA DivMod ==
  ASSUME NEW x \in Nat, NEW n \in Nat \ {0}
  PROVE  /\ \E q \in Nat, d \in 0 .. n - 1 :
              q = x \div n /\ d = x % n /\ x = n * q + d
         /\ x \div n \in Nat /\ (x % n) \in 0 .. n - 1
<1>1. x \div n \in Nat /\ (x % n) \in 0 .. n - 1 /\ x = n * (x \div n) + (x % n)
  OBVIOUS
<1> QED BY <1>1

-----------------------------------------------------------------------------
(* Exceptions.                                                              *)

\* The range of exponents.
LEMMA Ranges ==
  /\ F!Bias \in Nat \ {0} /\ F!Power[ExpBits] = 2 * F!Bias /\ F!MaxExp = 2 * F!Bias - 1
  /\ F!Hidden \in Nat \ {0} /\ F!One \in Nat \ {0}
  /\ F!LowBits \in Nat \ {0} /\ F!Power[F!LowBits] \in Nat \ {0}
<1>1. /\ ExpBits - 1 \in Nat /\ (ExpBits - 1) + 1 = ExpBits
      /\ DoubleBits - 1 \in Nat /\ DoubleBits - 1 + Guard \in Nat
      /\ DoubleBits - SingleBits \in Nat \ {0}
  BY FpWidths DEF F!WidthAssumption
<1>2. /\ F!Power[(ExpBits - 1) + 1] = 2 * F!Power[ExpBits - 1]
      /\ F!Power[ExpBits - 1] \in Nat \ {0}
  BY <1>1, FpPowerSteps, Zenon
<1>3. F!Bias \in Nat \ {0} /\ F!Power[ExpBits] = 2 * F!Bias
  BY <1>1, <1>2 DEF F!Bias
<1> QED BY <1>1, <1>3, FpPowerSteps DEF F!MaxExp, F!Hidden, F!One, F!LowBits

\* What an outcome tells: the exception is one that is enabled, and V that of an
\* overflow.
Posts(o, m) ==
  /\ o.code \in {"", "OVFLO", "UNFLO"} /\ (o.code # "" => o.code \in m.enable)
  /\ o.overflow \in BOOLEAN
  /\ o.overflow => IF "OVFLO" \in m.enable THEN o.code = "OVFLO"
                                           ELSE o.code = "" /\ o.v.e = 0

\* Also, a result that was not posted is a value or a clean zero.
Reports(o, m) ==
  /\ Posts(o, m)
  /\ o.code = "" /\ F!to_fac(o.v, m).e = 0 => F!to_fac(o.v, m) = F!Zero

\* A clean zero has no low bits to lose.
LEMMA ZeroStays == ASSUME NEW m PROVE F!to_fac(F!Zero, m) = F!Zero
<1>1. 0 % F!Power[F!LowBits] = 0
  BY Ranges
<1> QED BY <1>1 DEF F!to_fac, F!Zero

\* An overflow or an underflow is posted, or allowed, as its enable says.
LEMMA ExceptedReports ==
  ASSUME NEW m, NEW v, NEW overflow \in BOOLEAN, NEW code \in {"OVFLO", "UNFLO"},
         overflow => code = "OVFLO"
  PROVE  Reports(F!Excepted(v, overflow, code, m), m)
<1>1. F!Zero.e = 0
  BY DEF F!Zero
<1> DEFINE o == F!Excepted(v, overflow, code, m)
<1>2. CASE code \in m.enable
  <2>1. o.v = v /\ o.overflow = overflow /\ o.code = code
    BY <1>2 DEF F!Excepted, F!Outcome
  <2> HIDE DEF o
  <2>2. o.code \in {"", "OVFLO", "UNFLO"} /\ o.code \in m.enable /\ o.code # ""
    BY <1>2, <2>1
  <2>3. o.overflow => o.code = "OVFLO"
    BY <2>1, Zenon
  <2>4. o.overflow \in BOOLEAN
    BY <2>1, Zenon
  <2>5. Reports(o, m)
    BY <2>2, <2>3, <2>4, Zenon DEF Reports, Posts
  <2> QED BY <2>5 DEF o
<1>3. CASE code \notin m.enable
  <2>1. o.v = F!Zero /\ o.overflow = overflow /\ o.code = ""
    BY <1>3 DEF F!Excepted, F!Outcome
  <2> HIDE DEF o
  <2>2. F!to_fac(o.v, m) = F!Zero
    BY <2>1, ZeroStays
  <2>3. o.overflow \in BOOLEAN /\ (o.overflow => "OVFLO" \notin m.enable)
    BY <1>3, <2>1, Zenon
  <2>4. o.v.e = 0 /\ o.code \in {"", "OVFLO", "UNFLO"}
    BY <1>1, <2>1
  <2>5. Reports(o, m)
    BY <2>1, <2>2, <2>3, <2>4, Zenon DEF Reports, Posts
  <2> QED BY <2>5 DEF o
<1> QED BY <1>2, <1>3

\* A value whose exponent is not zero, and a clean zero, report nothing.
LEMMA PlainReports ==
  ASSUME NEW m, NEW v, F!to_fac(v, m).e # 0 \/ v = F!Zero
  PROVE  Reports(F!Outcome(v, FALSE, ""), m)
<1>1. CASE F!to_fac(v, m).e # 0
  BY <1>1 DEF Reports, Posts, F!Outcome
<1>2. CASE v = F!Zero
  BY <1>2, ZeroStays DEF Reports, Posts, F!Outcome
<1> QED BY <1>1, <1>2

\* fp.c, round_and_pack.
LEMMA PackReports ==
  ASSUME NEW m, NEW s, NEW exp \in Int, NEW frac, NEW round
  PROVE  Reports(F!round_and_pack(s, exp, frac, round, m), m)
<1> DEFINE half == IF m.d THEN F!Power[Guard - 1] ELSE F!Power[Guard - 1 + F!LowBits]
           sum == IF round /\ ~m.t THEN frac + half ELSE frac
           carried == sum >= 2 * F!One
           ex == IF carried THEN exp + 1 ELSE exp
           packed == [s |-> s, e |-> ex % F!Power[ExpBits],
                      f |-> ((IF carried THEN sum \div 2 ELSE sum) \div F!Power[Guard])
                              % F!Hidden]
           o == F!round_and_pack(s, exp, frac, round, m)
<1>1. o = IF ex > F!MaxExp THEN F!Excepted(packed, TRUE, "OVFLO", m)
          ELSE IF F!Underflows(ex) THEN F!Excepted(packed, FALSE, "UNFLO", m)
          ELSE F!Outcome(packed, FALSE, "")
  BY Zenon DEF F!round_and_pack
<1>2. ex \in Int
  BY DEF ex
<1>3. F!to_fac(packed, m).e = ex % F!Power[ExpBits]
  BY DEF F!to_fac
<1> HIDE DEF o, ex, packed
<1>4. CASE ex > F!MaxExp
  <2>1. \A v : Reports(F!Excepted(v, TRUE, "OVFLO", m), m)
    <3> SUFFICES ASSUME NEW v PROVE Reports(F!Excepted(v, TRUE, "OVFLO", m), m)
      OBVIOUS
    <3>1. PICK yes \in BOOLEAN, code \in {"OVFLO", "UNFLO"} : yes = TRUE /\ code = "OVFLO"
      OBVIOUS
    <3> QED BY <3>1, ExceptedReports
  <2>2. o = F!Excepted(packed, TRUE, "OVFLO", m)
    BY <1>1, <1>4, Zenon
  <2>3. Reports(o, m)
    BY <2>1, <2>2, Zenon
  <2> QED BY <2>3 DEF o
<1>5. CASE ~(ex > F!MaxExp) /\ F!Underflows(ex)
  <2>1. \A v : Reports(F!Excepted(v, FALSE, "UNFLO", m), m)
    <3> SUFFICES ASSUME NEW v PROVE Reports(F!Excepted(v, FALSE, "UNFLO", m), m)
      OBVIOUS
    <3>1. PICK no \in BOOLEAN, code \in {"OVFLO", "UNFLO"} : no = FALSE /\ code = "UNFLO"
      OBVIOUS
    <3> QED BY <3>1, ExceptedReports
  <2>2. o = F!Excepted(packed, FALSE, "UNFLO", m)
    BY <1>1, <1>5, Zenon
  <2>3. Reports(o, m)
    BY <2>1, <2>2, Zenon
  <2> QED BY <2>3 DEF o
<1>6. CASE ~(ex > F!MaxExp) /\ ~F!Underflows(ex)
  <2>1. ex % F!Power[ExpBits] = ex /\ ex # 0
    <3>1. PICK n \in Nat \ {0} : n = F!Power[ExpBits] /\ F!MaxExp = n - 1
      BY Ranges
    <3>2. ex \in 0 .. n - 1 /\ ex # 0
      BY <1>2, <1>6, <3>1 DEF F!Underflows
    <3>3. ex % n = ex
      BY <1>2, <3>2, ModNear
    <3> QED BY <3>1, <3>2, <3>3
  <2>2. F!to_fac(packed, m).e # 0
    BY <1>3, <2>1
  <2>3. o = F!Outcome(packed, FALSE, "")
    BY <1>1, <1>6, Zenon
  <2>4. Reports(o, m)
    BY <2>2, <2>3, PlainReports, Zenon
  <2> QED BY <2>4 DEF o
<1> QED BY <1>4, <1>5, <1>6

\* A number short of twice a power of two is brought up to it by a shift.
LEMMA Normalises ==
  ASSUME NEW n \in Nat, NEW x \in Nat \ {0}, x <= 2 * F!Power[n] - 1
  PROVE  \E k \in 0 .. n : x * F!Power[k] \in F!Power[n] .. 2 * F!Power[n] - 1
<1> DEFINE Fits(y, k, m) == y * F!Power[k] \in F!Power[m] .. 2 * F!Power[m] - 1
           S == {m \in Nat : \A y \in Nat \ {0} :
                               y <= 2 * F!Power[m] - 1 => \E k \in 0 .. m : Fits(y, k, m)}
<1>1. 0 \in S
  <2> SUFFICES ASSUME NEW y \in Nat \ {0}, y <= 2 * F!Power[0] - 1 PROVE Fits(y, 0, 0)
    OBVIOUS
  <2>1. y = 1
    BY FpPowerSteps
  <2> QED BY <2>1, FpPowerSteps
<1>2. ASSUME NEW m \in Nat, m \in S PROVE m + 1 \in S
  <2> SUFFICES ASSUME NEW y \in Nat \ {0}, y <= 2 * F!Power[m + 1] - 1
               PROVE  \E k \in 0 .. m + 1 : Fits(y, k, m + 1)
    OBVIOUS
  <2>1. PICK p \in Nat \ {0} : p = F!Power[m] /\ F!Power[m + 1] = 2 * p
    BY FpPowerSteps
  <2>2. CASE y >= 2 * p
    <3>1. y * F!Power[0] = y
      BY FpPowerSteps
    <3>2. Fits(y, 0, m + 1)
      BY <2>1, <2>2, <3>1
    <3> QED BY <3>2
  <2>3. CASE y < 2 * p
    <3>1. PICK k \in 0 .. m : Fits(y, k, m)
      <4>1. y <= 2 * F!Power[m] - 1
        BY <2>1, <2>3
      <4> QED BY <1>2, <4>1
    <3>2. PICK q \in Nat : q = F!Power[k] /\ F!Power[k + 1] = 2 * q
      BY FpPowerSteps
    <3>3. y * q \in p .. 2 * p - 1 /\ y * (2 * q) = 2 * (y * q) /\ y * q \in Nat
      BY <2>1, <3>1, <3>2
    <3>4. y * (2 * q) \in 2 * p .. 2 * (2 * p) - 1
      BY <3>3
    <3>5. Fits(y, k + 1, m + 1) /\ k + 1 \in 0 .. m + 1
      BY <2>1, <3>2, <3>4
    <3> QED BY <3>5
  <2> QED BY <2>2, <2>3
<1>3. n \in S
  <2> HIDE DEF S
  <2> QED BY <1>1, <1>2, NatSetInduction
<1> QED BY <1>3

\* A fraction short of two has a hidden bit to bring to its place.
LEMMA ShiftsExist ==
  ASSUME NEW x \in Nat \ {0}, x <= 2 * F!One - 1
  PROVE  /\ F!Shifts(x) \in 0 .. DoubleBits + Guard - 1
         /\ x * F!Power[F!Shifts(x)] \in F!One .. 2 * F!One - 1
<1> DEFINE top == DoubleBits + Guard - 1
<1>3. top \in Nat /\ F!One = F!Power[top] /\ F!Power[top + 1] = 2 * F!One
  <2>1. top \in Nat /\ top = DoubleBits - 1 + Guard
    BY FpWidths DEF F!WidthAssumption
  <2> HIDE DEF top
  <2> QED BY <2>1, FpPowerSteps DEF F!One
<1> HIDE DEF top
<1>4. \E k \in 0 .. top : x * F!Power[k] \in F!Power[top] .. 2 * F!Power[top] - 1
  <2>1. PICK n \in Nat : n = top /\ F!One = F!Power[n]
    BY <1>3
  <2>2. \E k \in 0 .. n : x * F!Power[k] \in F!Power[n] .. 2 * F!Power[n] - 1
    BY <2>1, Normalises
  <2> QED BY <2>1, <2>2, Zenon
<1>5. PICK k \in 0 .. top : x * F!Power[k] \in F!One .. 2 * F!One - 1
  BY <1>3, <1>4
<1>6. k \in 0 .. DoubleBits + Guard
  BY <1>5, FpWidths DEF F!WidthAssumption, top
<1> DEFINE Right(n) == /\ n \in 0 .. DoubleBits + Guard
                       /\ x * F!Power[n] \in F!One .. 2 * F!One - 1
<1>7. Right(F!Shifts(x))
  <2>1. \E n \in 0 .. DoubleBits + Guard : x * F!Power[n] \in F!One .. 2 * F!One - 1
    BY <1>5, <1>6
  <2> QED BY <2>1, Zenon DEF F!Shifts
<1>8. F!Shifts(x) # top + 1
  <2> SUFFICES ASSUME F!Shifts(x) = top + 1 PROVE FALSE
    OBVIOUS
  <2>1. x * (2 * F!One) \in F!One .. 2 * F!One - 1
    BY <1>3, <1>7
  <2>2. x * (2 * F!One) >= 2 * F!One
    <3>1. PICK p \in Nat : p = 2 * F!One
      BY Ranges
    <3>2. x * p = p + (x - 1) * p /\ (x - 1) * p \in Nat
      <4>1. x - 1 \in Nat
        OBVIOUS
      <4> QED BY <4>1
    <3> QED BY <3>1, <3>2
  <2> QED BY <2>1, <2>2, Ranges
<1> HIDE DEF top
<1>9. F!Shifts(x) \in 0 .. DoubleBits + Guard /\ F!Shifts(x) # DoubleBits + Guard
  BY <1>7, <1>8, <1>3, FpWidths DEF top, F!WidthAssumption
<1>10. F!Shifts(x) \in 0 .. DoubleBits + Guard - 1
  <2>1. PICK n : n = F!Shifts(x)
    OBVIOUS
  <2> QED BY <1>9, <2>1, FpWidths DEF F!WidthAssumption
<1> QED BY <1>7, <1>10 DEF Right

\* Cutting a fraction to its precision leaves a value.
LEMMA FacType ==
  ASSUME NEW v \in F!Value, NEW m
  PROVE  /\ F!to_fac(v, m) \in F!Value
         /\ F!to_fac(v, m).s = v.s /\ F!to_fac(v, m).e = v.e
<1>1. PICK h \in Nat \ {0}, n \in Nat \ {0} : h = F!Hidden /\ n = F!Power[F!LowBits]
  BY Ranges
<1>2. v \in [s : 0 .. 1, e : 0 .. F!MaxExp, f : 0 .. h - 1]
  BY <1>1 DEF F!Value
<1>3. v.f - (v.f % n) \in 0 .. h - 1
  <2>1. PICK x \in Nat : x = v.f /\ x <= h - 1
    BY <1>1, <1>2
  <2>2. (x % n) \in 0 .. x
    <3>1. PICK q \in Nat, d \in 0 .. n - 1 : d = x % n /\ x = n * q + d
      BY DivMod
    <3>2. n * q \in Nat
      OBVIOUS
    <3> QED BY <3>1, <3>2
  <2> QED BY <1>1, <2>1, <2>2
<1> DEFINE w == [v EXCEPT !.f = @ - (@ % n)]
<1>4. w \in [s : 0 .. 1, e : 0 .. F!MaxExp, f : 0 .. h - 1] /\ w.s = v.s /\ w.e = v.e
  BY <1>2, <1>3
<1> HIDE DEF w
<1>5. F!to_fac(v, m) = IF m.d THEN v ELSE w
  BY <1>1, Zenon DEF F!to_fac, w
<1> QED BY <1>1, <1>2, <1>4, <1>5 DEF F!Value

\* The fields of a value, and its fraction.
LEMMA ValueFields ==
  ASSUME NEW v \in F!Value
  PROVE  /\ v.s \in 0 .. 1 /\ v.e \in 0 .. F!MaxExp /\ v.e \in Nat
         /\ v.f \in 0 .. F!Hidden - 1 /\ v.f \in Nat
         /\ F!Fraction(v) \in F!Hidden .. 2 * F!Hidden - 1
         /\ F!Magnitude(v) = v.e * F!Hidden + v.f
<1>1. PICK h \in Nat \ {0} : h = F!Hidden
  BY Ranges
<1>2. v.s \in 0 .. 1 /\ v.e \in 0 .. F!MaxExp /\ v.f \in 0 .. h - 1
  BY <1>1 DEF F!Value
<1> QED BY <1>1, <1>2, Ranges DEF F!Fraction, F!Magnitude

\* A hidden bit and its guard bits.
LEMMA GuardedHidden ==
  /\ F!Power[Guard] \in Nat \ {0} /\ F!One = F!Hidden * F!Power[Guard]
  /\ F!Power[DoubleBits] = 2 * F!Hidden
<1>1. /\ DoubleBits - 1 \in Nat /\ Guard \in Nat
      /\ (DoubleBits - 1) + 1 = DoubleBits
  BY FpWidths DEF F!WidthAssumption
<1>2. F!Power[(DoubleBits - 1) + Guard] = F!Power[DoubleBits - 1] * F!Power[Guard]
  BY <1>1, FpPowerOfSum
<1>3. F!Power[(DoubleBits - 1) + 1] = 2 * F!Power[DoubleBits - 1]
  BY <1>1, FpPowerSteps
<1> QED BY <1>1, <1>2, <1>3, FpPowerSteps DEF F!Hidden, F!One

\* The operands of an addition, aligned: the guarded fraction of the larger is not
\* less than that of the smaller, shifted to its exponent.
LEMMA Aligned ==
  ASSUME NEW big \in F!Value, NEW small \in F!Value,
         ~(F!Magnitude(big) < F!Magnitude(small))
  PROVE  LET ediff == big.e - small.e
             x == F!Fraction(big) * F!Power[Guard]
             y == (F!Fraction(small) * F!Power[Guard]) \div F!Power[ediff]
         IN  /\ ediff \in Nat /\ x \in F!One .. 2 * F!One - 1
             /\ y \in Nat /\ y <= x
<1> DEFINE ediff == big.e - small.e
           x == F!Fraction(big) * F!Power[Guard]
           z == F!Fraction(small) * F!Power[Guard]
           y == z \div F!Power[ediff]
<1>1. PICK h \in Nat \ {0}, g \in Nat \ {0} :
           h = F!Hidden /\ g = F!Power[Guard] /\ F!One = h * g
  BY Ranges, GuardedHidden
<1>2. PICK e \in Nat, c \in Nat, f \in 0 .. h - 1, i \in 0 .. h - 1 :
           /\ e = big.e /\ c = small.e
           /\ F!Fraction(big) = h + f /\ F!Fraction(small) = h + i
           /\ F!Magnitude(big) = e * h + f /\ F!Magnitude(small) = c * h + i
  BY <1>1, ValueFields DEF F!Fraction
<1>3. e * h + f >= c * h + i
  BY <1>2
<1>4. e >= c
  <2> SUFFICES ASSUME e < c PROVE FALSE
    OBVIOUS
  <2>1. c * h = e * h + (c - e) * h /\ (c - e) * h >= h
    <3>1. PICK d \in Nat : c = e + (d + 1)
      <4>1. c - e - 1 \in Nat /\ c = e + ((c - e - 1) + 1)
        OBVIOUS
      <4> QED BY <4>1
    <3>2. /\ (e + (d + 1)) * h = e * h + (d * h + h)
          /\ d * h \in Nat /\ (d + 1) * h = d * h + h
      OBVIOUS
    <3>3. c - e = d + 1
      BY <3>1
    <3> QED BY <3>1, <3>2, <3>3
  <2> QED BY <1>3, <2>1
<1>5. ediff \in Nat /\ ediff = e - c
  BY <1>2, <1>4
<1>6. /\ x = h * g + f * g /\ f * g \in 0 .. (h - 1) * g
      /\ (h - 1) * g = h * g - g /\ h * g \in Nat
  <2>1. f <= h - 1 /\ h - 1 \in Nat
    OBVIOUS
  <2>2. f * g <= (h - 1) * g
    BY <2>1, TimesGrows
  <2> QED BY <1>1, <1>2, <2>2
<1>7. x \in F!One .. 2 * F!One - 1
  BY <1>1, <1>6
<1>8. z = h * g + i * g /\ i * g \in 0 .. (h - 1) * g /\ z \in Nat
  <2>1. i <= h - 1 /\ h - 1 \in Nat
    OBVIOUS
  <2>2. i * g <= (h - 1) * g
    BY <2>1, TimesGrows
  <2> QED BY <1>1, <1>2, <2>2
<1>9. PICK p \in Nat \ {0} : p = F!Power[ediff]
  BY <1>5, FpPowerSteps
<1>10. PICK q \in Nat, d \in 0 .. p - 1 : q = z \div p /\ z = p * q + d
  <2>1. PICK w \in Nat : w = z
    BY <1>8
  <2> QED BY <2>1, DivMod
<1>11. y = q
  BY <1>9, <1>10
<1>12. q <= x
  <2>1. CASE e = c
    <3>1. f >= i
      BY <1>3, <2>1
    <3>2. i * g <= f * g
      BY <3>1
    <3>3. p = 1 /\ p * q = q
      BY <1>5, <1>9, <2>1, FpPowerSteps
    <3> QED BY <1>6, <1>8, <1>10, <3>2, <3>3
  <2>2. CASE e # c
    <3>1. p >= 2
      <4>1. ediff - 1 \in Nat /\ (ediff - 1) + 1 = ediff
        BY <1>2, <1>4, <1>5, <2>2
      <4>2. PICK k \in Nat \ {0} : k = F!Power[ediff - 1] /\ F!Power[(ediff - 1) + 1] = 2 * k
        BY <4>1, FpPowerSteps
      <4> QED BY <1>9, <4>1, <4>2
    <3>2. p * q = 2 * q + (p - 2) * q /\ (p - 2) * q \in Nat
      <4>1. p - 2 \in Nat
        BY <3>1
      <4> QED BY <4>1
    <3>3. z <= 2 * (h * g)
      BY <1>8, <1>6
    <3> QED BY <1>6, <1>10, <3>2, <3>3
  <2> QED BY <2>1, <2>2
<1> QED BY <1>5, <1>7, <1>11, <1>12

\* fp.c, addfp11.
LEMMA AddReports ==
  ASSUME NEW m, NEW a \in F!Value, NEW b \in F!Value
  PROVE  Reports(F!addfp11(a, b, m), m)
<1> DEFINE big == IF F!Magnitude(a) < F!Magnitude(b) THEN b ELSE a
           small == IF F!Magnitude(a) < F!Magnitude(b) THEN a ELSE b
           ediff == big.e - small.e
           x == F!Fraction(big) * F!Power[Guard]
           y == (F!Fraction(small) * F!Power[Guard]) \div F!Power[ediff]
           o == F!addfp11(a, b, m)
<1>1. o = IF big.e = 0 THEN F!Outcome(F!Zero, FALSE, "")
          ELSE IF small.e = 0 \/ F!Negligible(ediff) THEN F!Outcome(big, FALSE, "")
          ELSE IF big.s = small.s
          THEN IF x + y >= 2 * F!One
               THEN F!round_and_pack(big.s, big.e + 1, (x + y) \div 2, TRUE, m)
               ELSE F!round_and_pack(big.s, big.e, x + y, TRUE, m)
          ELSE IF x = y THEN F!Outcome(F!Zero, FALSE, "")
          ELSE F!round_and_pack(big.s, big.e - F!Shifts(x - y),
                                (x - y) * F!Power[F!Shifts(x - y)], TRUE, m)
  BY Zenon DEF F!addfp11
<1>2. big \in F!Value /\ small \in F!Value /\ ~(F!Magnitude(big) < F!Magnitude(small))
  BY ValueFields, Ranges
<1> HIDE DEF big, small
<1>3. x \in F!One .. 2 * F!One - 1 /\ y \in Nat /\ y <= x
  BY <1>2, Aligned
<1>4. big.e \in Int
  BY <1>2, ValueFields
<1> HIDE DEF o, x, y, ediff
<1>5. CASE big.e = 0
  BY <1>1, <1>5, PlainReports DEF o
<1>6. CASE big.e # 0 /\ (small.e = 0 \/ F!Negligible(ediff))
  <2>1. F!to_fac(big, m).e # 0
    BY <1>2, <1>6, FacType
  <2> QED BY <1>1, <1>6, <2>1, PlainReports DEF o
<1>7. CASE big.e # 0 /\ ~(small.e = 0 \/ F!Negligible(ediff)) /\ big.s = small.s
  <2>1. big.e + 1 \in Int
    BY <1>4
  <2> QED BY <1>1, <1>4, <1>7, <2>1, PackReports, Zenon DEF o
<1>8. CASE big.e # 0 /\ ~(small.e = 0 \/ F!Negligible(ediff)) /\ big.s # small.s
  <2>1. CASE x = y
    BY <1>1, <1>8, <2>1, PlainReports DEF o
  <2>2. CASE x # y
    <3>1. x - y \in Nat \ {0} /\ x - y <= 2 * F!One - 1
      BY <1>3, <2>2, Ranges
    <3>2. F!Shifts(x - y) \in Int
      BY <3>1, ShiftsExist
    <3>3. big.e - F!Shifts(x - y) \in Int
      BY <1>4, <3>2
    <3> QED BY <1>1, <1>8, <2>2, <3>3, PackReports, Zenon DEF o
  <2> QED BY <2>1, <2>2
<1> QED BY <1>5, <1>6, <1>7, <1>8

\* The fraction of a product is normalised.
LEMMA ProductFits ==
  ASSUME NEW a \in F!Value, NEW b \in F!Value
  PROVE  F!Product(a, b).exp \in Int /\ F!Product(a, b).frac \in F!One .. 2 * F!One - 1
<1> DEFINE p == (F!Fraction(a) * F!Fraction(b) * F!Power[Guard]) \div F!Power[DoubleBits]
           exp == a.e + b.e - F!Bias
<1>1. PICK h \in Nat \ {0}, g \in Nat \ {0} :
           /\ h = F!Hidden /\ 2 * g = F!Power[Guard] /\ F!One = h * (2 * g)
           /\ F!Power[DoubleBits] = 2 * h
  <2>1. Guard - 1 \in Nat /\ (Guard - 1) + 1 = Guard
    BY FpWidths DEF F!WidthAssumption
  <2>2. /\ F!Power[(Guard - 1) + 1] = 2 * F!Power[Guard - 1]
        /\ F!Power[Guard - 1] \in Nat \ {0}
    BY <2>1, FpPowerSteps
  <2> QED BY <2>1, <2>2, Ranges, GuardedHidden
<1>2. PICK x \in h .. 2 * h - 1, y \in h .. 2 * h - 1 :
           x = F!Fraction(a) /\ y = F!Fraction(b)
  BY <1>1, ValueFields
<1>3. x * y \in h * h .. (2 * h) * (2 * h - 1) /\ x * y \in Nat
  <2>1. x \in Nat /\ y \in Nat /\ 2 * h \in Nat /\ 2 * h - 1 \in Nat /\ h <= x /\ h <= y
        /\ x <= 2 * h /\ y <= 2 * h - 1
    OBVIOUS
  <2>2. h * h <= x * h /\ h * x <= y * x /\ x * h = h * x /\ y * x = x * y
    BY <2>1, TimesGrows
  <2>3. x * y <= (2 * h) * y
    BY <2>1, TimesGrows
  <2>4. y * (2 * h) <= (2 * h - 1) * (2 * h)
    BY <2>1, TimesGrows
  <2>5. (2 * h) * y = y * (2 * h) /\ (2 * h - 1) * (2 * h) = (2 * h) * (2 * h - 1)
    BY <2>1
  <2>6. PICK n \in Nat, lo \in Nat, hi \in Nat :
             n = x * y /\ lo = h * h /\ hi = (2 * h) * (2 * h - 1)
    BY <2>1
  <2>7. lo <= n /\ n <= hi
    BY <2>2, <2>3, <2>4, <2>5, <2>6
  <2> QED BY <2>6, <2>7
<1>4. PICK n \in Nat : n = x * y
  BY <1>3
<1>5. PICK q \in Nat, d \in 0 .. 2 * h - 1 : q = p /\ n * (2 * g) = (2 * h) * q + d
  <2>1. n * (2 * g) \in Nat /\ 2 * h \in Nat \ {0}
    OBVIOUS
  <2>2. PICK z \in Nat, k \in Nat \ {0} : z = n * (2 * g) /\ k = 2 * h
    BY <2>1
  <2>3. p = z \div k
    BY <1>1, <1>2, <1>4, <2>2
  <2>4. \E q \in Nat, d \in 0 .. k - 1 : q = z \div k /\ d = z % k /\ z = k * q + d
    BY DivMod, Zenon
  <2> QED BY <2>2, <2>3, <2>4
<1>6. q >= h * g
  <2> SUFFICES ASSUME q < h * g PROVE FALSE
    OBVIOUS
  <2>1. q + 1 <= h * g /\ q + 1 \in Nat /\ h * g \in Nat
    OBVIOUS
  <2>2. (q + 1) * (2 * h) <= (h * g) * (2 * h)
    BY <2>1, TimesGrows
  <2>3. (h * h) * (2 * g) <= n * (2 * g)
    <3>1. h * h \in Nat /\ h * h <= n /\ 2 * g \in Nat
      BY <1>3, <1>4
    <3> QED BY <3>1, TimesGrows
  <2>4. (h * h) * (2 * g) = (h * g) * (2 * h) /\ (q + 1) * (2 * h) = (2 * h) * q + 2 * h
    OBVIOUS
  <2>5. PICK u \in Nat, t \in Nat, v \in Nat :
             u = (2 * h) * q /\ t = (h * g) * (2 * h) /\ v = n * (2 * g)
    BY <2>1
  <2>6. u + 2 * h <= t /\ t <= v
    BY <2>2, <2>3, <2>4, <2>5
  <2>7. v <= u + 2 * h - 1
    BY <1>5, <2>5
  <2> QED BY <2>6, <2>7
<1>7. q <= 2 * (h * (2 * g)) - 1
  <2> SUFFICES ASSUME q >= 2 * (h * (2 * g)) PROVE FALSE
    OBVIOUS
  <2>1. 2 * (h * (2 * g)) <= q /\ 2 * (h * (2 * g)) \in Nat
    OBVIOUS
  <2>2. (2 * (h * (2 * g))) * (2 * h) <= q * (2 * h)
    BY <2>1, TimesGrows
  <2>3. n * (2 * g) <= ((2 * h) * (2 * h - 1)) * (2 * g)
    <3>1. (2 * h) * (2 * h - 1) \in Nat /\ n <= (2 * h) * (2 * h - 1) /\ 2 * g \in Nat
      BY <1>3, <1>4
    <3> QED BY <3>1, TimesGrows
  <2>4. /\ ((2 * h) * (2 * h - 1)) * (2 * g)
             = (2 * (h * (2 * g))) * (2 * h) - (2 * h) * (2 * g)
        /\ q * (2 * h) = (2 * h) * q /\ (2 * h) * (2 * g) > 0
    OBVIOUS
  <2>5. PICK u \in Nat, t \in Nat, w \in Nat, v \in Nat :
             /\ u = (2 * h) * q /\ t = (2 * (h * (2 * g))) * (2 * h)
             /\ w = (2 * h) * (2 * g) /\ v = n * (2 * g)
    BY <2>1
  <2>6. t <= u /\ v <= t - w /\ w > 0
    BY <2>2, <2>3, <2>4, <2>5
  <2>7. v >= u
    BY <1>5, <2>5
  <2> QED BY <2>6, <2>7
<1>8. exp \in Int
  BY ValueFields, Ranges
<1> HIDE DEF p, exp
<1>9. F!Product(a, b) = IF p < F!One THEN [exp |-> exp - 1, frac |-> 2 * p]
                        ELSE [exp |-> exp, frac |-> p]
  BY Zenon DEF F!Product, p, exp
<1>10. PICK one \in Nat : one = h * (2 * g) /\ one = 2 * (h * g)
  OBVIOUS
<1>11. CASE p < F!One
  BY <1>1, <1>5, <1>6, <1>8, <1>9, <1>10, <1>11
<1>12. CASE ~(p < F!One)
  BY <1>1, <1>5, <1>7, <1>8, <1>9, <1>10, <1>12
<1> QED BY <1>11, <1>12

\* fp.c, mulfp11 and divfp11.
LEMMA MulReports ==
  ASSUME NEW m, NEW a \in F!Value, NEW b \in F!Value
  PROVE  Reports(F!mulfp11(a, b, m), m)
<1>1. CASE a.e = 0 \/ b.e = 0
  BY <1>1, PlainReports DEF F!mulfp11
<1>2. CASE ~(a.e = 0 \/ b.e = 0)
  BY <1>2, ProductFits, PackReports, Zenon DEF F!mulfp11
<1> QED BY <1>1, <1>2

\* Whatever divfp11 hands on tells V, C and the code to post.
LEMMA DivReports ==
  ASSUME NEW m, NEW a \in F!Value, NEW b \in F!Value
  PROVE  Reports(F!divfp11(a, b, m), m)
<1> DEFINE count == (IF m.d THEN DoubleBits ELSE SingleBits) + Guard
           quo == F!Quotient(a, b, count) * F!Power[IF m.d THEN 0 ELSE F!LowBits]
           exp == a.e - b.e + F!Bias + 1
           o == F!divfp11(a, b, m)
<1>1. o = IF a.e = 0 THEN F!Outcome(F!Zero, FALSE, "")
          ELSE IF quo < F!One
          THEN F!round_and_pack(F!Sign(a, b), exp - 1, 2 * quo, TRUE, m)
          ELSE F!round_and_pack(F!Sign(a, b), exp, quo, TRUE, m)
  BY Zenon DEF F!divfp11
<1>2. exp \in Int /\ exp - 1 \in Int
  BY ValueFields, Ranges
<1> HIDE DEF o, quo, exp
<1>3. CASE a.e = 0
  BY <1>1, <1>3, PlainReports DEF o
<1>4. CASE a.e # 0
  BY <1>1, <1>2, <1>4, PackReports, Zenon DEF o
<1> QED BY <1>3, <1>4

\* In the middle of the range nothing is reported.
LEMMA PackInRange ==
  ASSUME NEW m, NEW s, NEW exp \in 1 .. F!MaxExp - 1, NEW frac, NEW round
  PROVE  LET o == F!round_and_pack(s, exp, frac, round, m)
         IN  o.code = "" /\ o.overflow = FALSE /\ F!to_fac(o.v, m).e \in {exp, exp + 1}
<1> DEFINE half == IF m.d THEN F!Power[Guard - 1] ELSE F!Power[Guard - 1 + F!LowBits]
           sum == IF round /\ ~m.t THEN frac + half ELSE frac
           carried == sum >= 2 * F!One
           ex == IF carried THEN exp + 1 ELSE exp
           packed == [s |-> s, e |-> ex % F!Power[ExpBits],
                      f |-> ((IF carried THEN sum \div 2 ELSE sum) \div F!Power[Guard])
                              % F!Hidden]
           o == F!round_and_pack(s, exp, frac, round, m)
<1>1. o = IF ex > F!MaxExp THEN F!Excepted(packed, TRUE, "OVFLO", m)
          ELSE IF F!Underflows(ex) THEN F!Excepted(packed, FALSE, "UNFLO", m)
          ELSE F!Outcome(packed, FALSE, "")
  BY Zenon DEF F!round_and_pack
<1>2. PICK n \in Nat \ {0} : n = F!Power[ExpBits] /\ F!MaxExp = n - 1
  BY Ranges
<1>3. ex \in {exp, exp + 1}
  OBVIOUS
<1>4. F!to_fac(packed, m).e = ex % n
  BY <1>2 DEF F!to_fac
<1> HIDE DEF o, ex, packed
<1>5. ex \in 1 .. n - 1 /\ ex \in Int
  BY <1>2, <1>3
<1>6. ex % n = ex
  BY <1>2, <1>5, ModNear
<1>7. ~(ex > F!MaxExp) /\ ~F!Underflows(ex)
  BY <1>2, <1>5 DEF F!Underflows
<1>8. o = F!Outcome(packed, FALSE, "")
  BY <1>1, <1>7, Zenon
<1>9. o.code = "" /\ o.overflow = FALSE /\ F!to_fac(o.v, m).e \in {exp, exp + 1}
  BY <1>3, <1>4, <1>6, <1>8 DEF F!Outcome
<1> QED BY <1>9 DEF o

\* fp.c, modfp11: the integer and the fraction of a product with bits before and
\* behind the point report nothing.
LEMMA ModReports ==
  ASSUME NEW m, NEW a \in F!Value, NEW b \in F!Value
  PROVE  Reports(F!modfp11(a, b, m), m)
<1> DEFINE p == F!Product(a, b)
           s == F!Sign(a, b)
           k == p.exp - F!Bias
           below == p.frac % F!Power[DoubleBits + Guard - k]
           shifted == below * F!Power[k]
           frac == F!round_and_pack(s, F!Bias - F!Shifts(shifted),
                                    shifted * F!Power[F!Shifts(shifted)], TRUE, m)
           int == F!round_and_pack(s, p.exp, p.frac - below, FALSE, m)
           whole == F!round_and_pack(s, p.exp, p.frac, FALSE, m)
           near == F!round_and_pack(s, p.exp, p.frac, TRUE, m)
           Both(i, f, res) == [int |-> i, v |-> f, overflow |-> res.overflow, code |-> res.code]
           digits == IF m.d THEN DoubleBits ELSE SingleBits
           o == F!modfp11(a, b, m)
<1>1. o = IF a.e = 0 \/ b.e = 0 THEN Both(F!Zero, F!Zero, F!Outcome(F!Zero, FALSE, ""))
          ELSE IF k <= 0 THEN Both(F!Zero, near.v, near)
          ELSE IF k > digits THEN Both(whole.v, F!Zero, whole)
          ELSE Both(int.v, IF below = 0 THEN F!Zero ELSE frac.v, int)
  BY Zenon DEF F!modfp11
<1>2. /\ DoubleBits \in Nat /\ SingleBits \in Nat /\ DoubleBits > SingleBits /\ Guard \in Nat
      /\ Guard >= 2 /\ DoubleBits + Guard <= F!Bias /\ F!Bias \in Nat /\ F!MaxExp = 2 * F!Bias - 1
  BY FpWidths, Ranges DEF F!WidthAssumption
<1>3. p.exp \in Int /\ p.frac \in F!One .. 2 * F!One - 1
  BY ProductFits
<1>4. F!to_fac(F!Zero, m) = F!Zero /\ F!Zero.e = 0
  BY ZeroStays DEF F!Zero
<1>5. \A i, f, res : /\ Both(i, f, res).v = f
                   /\ Both(i, f, res).overflow = res.overflow /\ Both(i, f, res).code = res.code
  OBVIOUS
<1>6. \A i, res : Posts(res, m) => Reports(Both(i, F!Zero, res), m)
  <2> SUFFICES ASSUME NEW i, NEW res, Posts(res, m) PROVE Reports(Both(i, F!Zero, res), m)
    OBVIOUS
  <2> DEFINE t == Both(i, F!Zero, res)
  <2>1. t.v = F!Zero /\ t.overflow = res.overflow /\ t.code = res.code
    BY <1>5
  <2> HIDE DEF t
  <2>2. Reports(t, m)
    BY <1>4, <2>1, Zenon DEF Reports, Posts
  <2> QED BY <2>2 DEF t
<1> HIDE DEF o, Both
<1>7. CASE a.e = 0 \/ b.e = 0
  <2>1. Posts(F!Outcome(F!Zero, FALSE, ""), m)
    BY PlainReports DEF Reports
  <2> QED BY <1>1, <1>6, <1>7, <2>1, Zenon DEF o
<1>8. CASE ~(a.e = 0 \/ b.e = 0) /\ k <= 0
  <2>1. Reports(near, m)
    BY <1>3, PackReports
  <2> HIDE DEF near, k
  <2>2. o = Both(F!Zero, near.v, near)
    BY <1>1, <1>8, Zenon
  <2>3. o.v = near.v /\ o.overflow = near.overflow /\ o.code = near.code
    BY <2>2 DEF Both
  <2>4. Reports(o, m)
    BY <2>1, <2>3, Zenon DEF Reports, Posts
  <2> QED BY <2>4 DEF o
<1>9. CASE ~(a.e = 0 \/ b.e = 0) /\ ~(k <= 0) /\ k > digits
  <2>1. Posts(whole, m)
    BY <1>3, PackReports DEF Reports
  <2> HIDE DEF whole, k, digits
  <2> QED BY <1>1, <1>6, <1>9, <2>1, Zenon DEF o
<1>10. CASE ~(a.e = 0 \/ b.e = 0) /\ ~(k <= 0) /\ ~(k > digits)
  <2>1. k \in 1 .. DoubleBits
    BY <1>2, <1>3, <1>10
  <2>2. int.code = "" /\ int.overflow = FALSE
    <3>1. p.exp \in 1 .. F!MaxExp - 1
      BY <1>2, <1>3, <2>1
    <3> QED BY <3>1, PackInRange
  <2>3. below # 0 => F!to_fac(frac.v, m).e # 0
    <3> SUFFICES ASSUME below # 0 PROVE F!to_fac(frac.v, m).e # 0
      OBVIOUS
    <3>1. shifted \in Nat \ {0} /\ shifted <= 2 * F!One - 1
      <4>1. PICK t \in Nat \ {0}, u \in Nat \ {0} :
                 /\ t = F!Power[DoubleBits + Guard - k] /\ u = F!Power[k] /\ t * u = 2 * F!One
        <5>1. /\ DoubleBits + Guard - k \in Nat /\ k \in Nat
              /\ (DoubleBits + Guard - k) + k = DoubleBits + Guard
              /\ DoubleBits - 1 + Guard \in Nat
              /\ (DoubleBits - 1 + Guard) + 1 = DoubleBits + Guard
          BY <1>2, <2>1
        <5> HIDE DEF k
        <5>2. F!Power[DoubleBits + Guard] = F!Power[DoubleBits + Guard - k] * F!Power[k]
          BY <5>1, FpPowerOfSum
        <5>3. F!Power[DoubleBits + Guard] = 2 * F!One
          BY <5>1, FpPowerSteps DEF F!One
        <5> QED BY <5>1, <5>2, <5>3, FpPowerSteps
      <4>2. PICK y \in Nat : y = p.frac
        BY <1>3, Ranges
      <4>3. (y % t) \in 0 .. t - 1
        BY DivMod
      <4>4. below = y % t
        BY <4>1, <4>2
      <4>5. PICK x \in 0 .. t - 1 : x = below
        BY <4>3, <4>4
      <4>6. x * u + u <= t * u /\ x * u \in Nat /\ (x # 0 => x * u # 0)
        <5>1. x + 1 <= t /\ x + 1 \in Nat /\ (x + 1) * u = x * u + u
          OBVIOUS
        <5>2. (x + 1) * u <= t * u
          BY <5>1, TimesGrows
        <5>3. x # 0 => x * u # 0
          <6> SUFFICES ASSUME x # 0 PROVE x * u # 0
            OBVIOUS
          <6>1. 1 <= x /\ x \in Nat
            OBVIOUS
          <6>2. 1 * u <= x * u
            BY <6>1, TimesGrows
          <6> QED BY <6>2
        <5> QED BY <5>1, <5>2, <5>3
      <4>7. shifted = x * u
        BY <4>1, <4>5
      <4> QED BY <4>1, <4>5, <4>6, <4>7
    <3>2. F!Shifts(shifted) \in 0 .. DoubleBits + Guard - 1
      BY <3>1, ShiftsExist
    <3>3. F!Bias - F!Shifts(shifted) \in 1 .. F!MaxExp - 1
      <4>1. PICK n \in 0 .. DoubleBits + Guard - 1 : n = F!Shifts(shifted)
        BY <3>2
      <4>2. F!Bias - n \in 1 .. F!MaxExp - 1
        BY <1>2
      <4> QED BY <4>1, <4>2
    <3>4. F!to_fac(frac.v, m).e
            \in {F!Bias - F!Shifts(shifted), F!Bias - F!Shifts(shifted) + 1}
      BY <3>3, PackInRange
    <3> HIDE DEF frac, shifted
    <3> QED BY <3>3, <3>4
  <2> HIDE DEF int, frac, below, k, digits
  <2>4. o = Both(int.v, IF below = 0 THEN F!Zero ELSE frac.v, int)
    BY <1>1, <1>10, Zenon
  <2>5. o.v = (IF below = 0 THEN F!Zero ELSE frac.v) /\ o.overflow = FALSE /\ o.code = ""
    BY <2>2, <2>4 DEF Both
  <2>6. F!to_fac(o.v, m).e = 0 => F!to_fac(o.v, m) = F!Zero
    BY <1>4, <2>3, <2>5, Zenon
  <2>7. o.overflow \in BOOLEAN /\ ~o.overflow /\ o.code \in {"", "OVFLO", "UNFLO"}
    BY <2>5
  <2>8. Reports(o, m)
    BY <2>5, <2>6, <2>7, Zenon DEF Reports, Posts
  <2> QED BY <2>8 DEF o
<1> HIDE DEF k
<1> QED BY <1>7, <1>8, <1>9, <1>10

\* fp.c, roundfp11.
LEMMA NarrowPosts == ASSUME NEW v, NEW m PROVE Posts(F!roundfp11(v, m), m)
<1> DEFINE sum == F!Magnitude(v) + F!Power[F!LowBits - 1]
           out == [s |-> v.s, e |-> (sum \div F!Hidden) % F!Power[ExpBits],
                   f |-> sum % F!Hidden]
           o == F!roundfp11(v, m)
<1>1. o = IF sum >= F!Power[ExpBits] * F!Hidden THEN F!Excepted(out, TRUE, "OVFLO", m)
          ELSE F!Outcome(out, FALSE, "")
  BY Zenon DEF F!roundfp11
<1> HIDE DEF sum, out, o
<1>2. CASE sum >= F!Power[ExpBits] * F!Hidden
  <2>1. \A w : Reports(F!Excepted(w, TRUE, "OVFLO", m), m)
    <3> SUFFICES ASSUME NEW w PROVE Reports(F!Excepted(w, TRUE, "OVFLO", m), m)
      OBVIOUS
    <3>1. PICK yes \in BOOLEAN, code \in {"OVFLO", "UNFLO"} : yes = TRUE /\ code = "OVFLO"
      OBVIOUS
    <3> QED BY <3>1, ExceptedReports
  <2> QED BY <1>1, <1>2, <2>1, Zenon DEF Reports, o
<1>3. CASE ~(sum >= F!Power[ExpBits] * F!Hidden)
  <2>1. o = F!Outcome(out, FALSE, "")
    BY <1>1, <1>3, Zenon
  <2>2. o.code = "" /\ o.overflow = FALSE
    BY <2>1 DEF F!Outcome
  <2>3. Posts(o, m)
    <3>1. o.overflow \in BOOLEAN /\ ~o.overflow /\ o.code \in {"", "OVFLO", "UNFLO"}
      BY <2>2
    <3> QED BY <2>2, <3>1, Zenon DEF Posts
  <2> QED BY <2>3 DEF o
<1> QED BY <1>2, <1>3

\* Rounding zero gives zero: what it adds is below the last place.
LEMMA NarrowReports ==
  ASSUME NEW v \in F!Value, NEW m, ~m.d, v.e # 0 \/ v = F!Zero
  PROVE  Reports(F!roundfp11(v, m), m)
<1> DEFINE sum == F!Magnitude(v) + F!Power[F!LowBits - 1]
           out == [s |-> v.s, e |-> (sum \div F!Hidden) % F!Power[ExpBits],
                   f |-> sum % F!Hidden]
           o == F!roundfp11(v, m)
<1>1. o = IF sum >= F!Power[ExpBits] * F!Hidden THEN F!Excepted(out, TRUE, "OVFLO", m)
          ELSE F!Outcome(out, FALSE, "")
  BY Zenon DEF F!roundfp11
<1>2. PICK h \in Nat \ {0}, n \in Nat \ {0}, l \in Nat \ {0} :
           /\ h = F!Hidden /\ n = F!Power[ExpBits] /\ l = F!Power[F!LowBits - 1]
           /\ F!Power[F!LowBits] = 2 * l /\ l < h
  <2>1. /\ F!LowBits - 1 \in Nat /\ (F!LowBits - 1) + 1 = F!LowBits
        /\ SingleBits - 1 \in Nat /\ F!LowBits + (SingleBits - 1) = DoubleBits - 1
        /\ F!LowBits \in Nat
    BY FpWidths DEF F!LowBits, F!WidthAssumption
  <2>2. PICK l \in Nat \ {0} : l = F!Power[F!LowBits - 1] /\ F!Power[F!LowBits] = 2 * l
    BY <2>1, FpPowerSteps
  <2>3. PICK k \in Nat \ {0} : k = F!Power[SingleBits - 1]
    BY <2>1, FpPowerSteps
  <2>4. F!Power[F!LowBits + (SingleBits - 1)] = F!Power[F!LowBits] * F!Power[SingleBits - 1]
    BY <2>1, FpPowerOfSum
  <2>5. F!Hidden = (2 * l) * k
    BY <2>1, <2>2, <2>3, <2>4 DEF F!Hidden
  <2>6. l < (2 * l) * k
    <3>1. 1 <= k /\ 2 * l \in Nat
      OBVIOUS
    <3>2. 1 * (2 * l) <= k * (2 * l) /\ k * (2 * l) = (2 * l) * k
      BY <3>1, TimesGrows
    <3> QED BY <3>2
  <2>7. PICK h \in Nat \ {0}, n \in Nat \ {0} : h = F!Hidden /\ n = F!Power[ExpBits]
    BY Ranges
  <2>8. l < h
    BY <2>5, <2>6, <2>7
  <2> QED BY <2>2, <2>7, <2>8
<1>3. PICK e \in Nat, f \in 0 .. h - 1 : e = v.e /\ f = v.f /\ F!Magnitude(v) = e * h + f
  BY <1>2, ValueFields
<1>4. sum = e * h + f + l /\ sum \in Nat
  BY <1>2, <1>3
<1>8. sum < n * h <=> ~(sum >= F!Power[ExpBits] * F!Hidden)
  BY <1>2, <1>4
<1>5. CASE sum >= F!Power[ExpBits] * F!Hidden
  <2> HIDE DEF sum, out
  <2>1. \A w : Reports(F!Excepted(w, TRUE, "OVFLO", m), m)
    <3> SUFFICES ASSUME NEW w PROVE Reports(F!Excepted(w, TRUE, "OVFLO", m), m)
      OBVIOUS
    <3>1. PICK yes \in BOOLEAN, code \in {"OVFLO", "UNFLO"} : yes = TRUE /\ code = "OVFLO"
      OBVIOUS
    <3> QED BY <3>1, ExceptedReports
  <2> HIDE DEF o
  <2> QED BY <1>1, <1>5, <2>1, Zenon DEF o
<1>6. CASE sum < n * h /\ v.e # 0
  <2>1. PICK t \in Nat : t = sum
    BY <1>4
  <2>2. PICK q \in Nat, d \in 0 .. h - 1 : q = t \div h /\ t = h * q + d
    <3>1. \E q \in Nat, d \in 0 .. h - 1 : q = t \div h /\ d = t % h /\ t = h * q + d
      BY DivMod, Zenon
    <3> QED BY <3>1
  <2>3. t >= h /\ t < n * h
    <3>1. 1 <= e
      BY <1>3, <1>6
    <3>2. 1 * h <= e * h
      BY <3>1, TimesGrows
    <3> QED BY <1>4, <1>6, <2>1, <3>2
  <2>4. q >= 1
    <3> SUFFICES ASSUME q = 0 PROVE FALSE
      OBVIOUS
    <3> QED BY <2>2, <2>3
  <2>5. q <= n - 1
    <3> SUFFICES ASSUME n <= q PROVE FALSE
      OBVIOUS
    <3>1. n * h <= q * h /\ q * h = h * q
      BY TimesGrows
    <3> QED BY <2>2, <2>3, <3>1
  <2>6. q % n = q
    BY <2>4, <2>5, ModNear
  <2>7. F!to_fac(out, m).e = q
    BY <1>2, <2>1, <2>2, <2>6 DEF F!to_fac
  <2> HIDE DEF o, out, sum
  <2>8. o = F!Outcome(out, FALSE, "")
    BY <1>1, <1>6, <1>8, Zenon
  <2>9. F!to_fac(out, m).e # 0
    BY <2>4, <2>7
  <2> QED BY <2>8, <2>9, PlainReports, Zenon DEF o
<1>7. CASE sum < n * h /\ v = F!Zero
  <2>1. v.s = 0 /\ v.e = 0 /\ v.f = 0
    BY <1>7 DEF F!Zero
  <2>2. sum = l
    BY <1>3, <1>4, <2>1
  <2>3. l \div h = 0 /\ l % h = l
    BY <1>2, DivModUnique
  <2>4. 0 % n = 0
    BY ModNear
  <2>5. out = [s |-> 0, e |-> 0, f |-> l]
    BY <1>2, <2>1, <2>2, <2>3, <2>4
  <2>6. l % (2 * l) = l
    BY ModNear
  <2> HIDE DEF out, o, sum
  <2>7. F!to_fac(out, m) = F!Zero
    BY <1>2, <2>5, <2>6 DEF F!to_fac, F!Zero
  <2>8. o = F!Outcome(out, FALSE, "")
    BY <1>1, <1>7, <1>8, Zenon
  <2>9. o.code = "" /\ o.overflow = FALSE /\ o.v = out
    BY <2>8 DEF F!Outcome
  <2>10. o.overflow \in BOOLEAN /\ ~o.overflow /\ o.code \in {"", "OVFLO", "UNFLO"}
    BY <2>9
  <2>11. Reports(o, m)
    BY <2>7, <2>9, <2>10, Zenon DEF Reports, Posts
  <2> QED BY <2>11 DEF o
<1> HIDE DEF sum, out, o
<1> QED BY <1>2, <1>4, <1>5, <1>6, <1>7

\* A loaded problem finds the unit without an exception, in a mode and with a value.
Ready ==
  last.op \in {"none", "load"} =>
    /\ er = FALSE /\ fec = "" /\ trapped = FALSE /\ fpCc.c = FALSE /\ fpCc.v = FALSE
    /\ last.op = "load" => fps \in F!FpsModes /\ ac \in F!Value

\* An instruction that writes an outcome which reports, and posts it, is reported.
LEMMA Written ==
  ASSUME Ready, last.op = "load", NEW op, NEW b, NEW o,
         op \notin {"none", "load"}, op # "DIV" \/ b.e # 0,
         F!Executes(op, b), F!post_fpe(o.code, op), fpCc' = F!fp_setcc(o.v, o.overflow),
         Posts(o, fps), op \in {"ADD", "SUB", "MUL", "DIV", "MOD", "LDCff", "LDEXP"} =>
                          Reports(o, fps) /\ ac' = o.v
  PROVE  F!ExceptionsReported'
<1>1. er = FALSE /\ fec = "" /\ fps \in F!FpsModes
  BY Zenon DEF Ready
<1>2. fps.id \in BOOLEAN
  BY <1>1 DEF F!FpsModes
<1>3. last'.op = op /\ last'.b = b /\ fps' = fps
  BY DEF F!Executes
<1>4. fpCc'.v = o.overflow /\ fpCc'.c = FALSE /\ fpCc'.z = (o.v.e = 0)
  BY DEF F!fp_setcc
<1>5. o.code \in {"", "OVFLO", "UNFLO"} /\ (o.code # "" => o.code \in fps.enable)
      /\ o.overflow \in BOOLEAN
  BY Zenon DEF Posts
<1>6. /\ er' = (fec' # "") /\ trapped' = (er' /\ ~fps.id) /\ (er' => fea' = op)
      /\ fec' = o.code
  <2>1. CASE o.code = ""
    <3>1. trapped' = FALSE /\ er' = FALSE /\ fec' = ""
      BY <1>1, <2>1, Zenon DEF F!post_fpe
    <3> QED BY <2>1, <3>1
  <2>2. CASE o.code # ""
    <3>1. er' = TRUE /\ fec' = o.code /\ fea' = op /\ trapped' = ~fps.id
      BY <2>2, Zenon DEF F!post_fpe
    <3> QED BY <1>2, <2>2, <3>1
  <2> QED BY <2>1, <2>2
<1>7. fec' \in fps'.enable \cup {"DZRO", ""}
  BY <1>3, <1>5, <1>6
<1>8. (fec' = "DZRO") = FALSE /\ (fec' = "ICVT") = FALSE
  BY <1>5, <1>6
<1>9. (last'.op = "DIV" /\ last'.b.e = 0) = FALSE
  BY <1>3
<1>10. fpCc'.v => IF "OVFLO" \in fps'.enable THEN fec' = "OVFLO" ELSE fec' = "" /\ fpCc'.z
  <2> SUFFICES ASSUME fpCc'.v
               PROVE  IF "OVFLO" \in fps.enable THEN fec' = "OVFLO" ELSE fec' = "" /\ fpCc'.z
    BY <1>3
  <2>1. o.overflow
    BY <1>4, Zenon
  <2>2. IF "OVFLO" \in fps.enable THEN o.code = "OVFLO" ELSE o.code = "" /\ o.v.e = 0
    BY <2>1, Zenon DEF Posts
  <2> QED BY <1>4, <1>6, <2>2
<1>11. last'.op \in {"ADD", "SUB", "MUL", "DIV", "MOD", "LDCff", "LDEXP"} /\ fec' = ""
         /\ F!R'.e = 0 => F!R' = F!Zero
  <2> SUFFICES ASSUME last'.op \in {"ADD", "SUB", "MUL", "DIV", "MOD", "LDCff", "LDEXP"},
                      fec' = "", F!R'.e = 0
               PROVE  F!R' = F!Zero
    OBVIOUS
  <2>1. Reports(o, fps) /\ ac' = o.v
    BY <1>3, Zenon
  <2>2. F!R' = F!to_fac(o.v, fps)
    BY <1>3, <2>1, Zenon DEF F!R
  <2> QED BY <1>6, <2>1, <2>2, Zenon DEF Reports
<1>12. last'.op \notin {"none", "load"}
  BY <1>3
<1>13. ("ICVT" \in fps'.enable /\ fpCc'.c) = FALSE
  BY <1>4
<1> QED BY <1>3, <1>6, <1>7, <1>8, <1>9, <1>10, <1>11, <1>12, <1>13, Zenon
       DEF F!ExceptionsReported

\* An instruction that posts nothing and sets neither C nor V.
Quiet == {"CLR", "TST", "ABS", "NEG", "CMP", "STEXP", "LDCif"}
PostsNothing == trapped' = FALSE /\ er' = er /\ fec' = fec /\ ~fpCc'.c /\ ~fpCc'.v

\* An instruction that can meet no exception posts none.
LEMMA Silent ==
  ASSUME Ready, last.op = "load", NEW op \in Quiet, NEW b, F!Executes(op, b), PostsNothing
  PROVE  F!ExceptionsReported'
<1> USE DEF PostsNothing, Quiet
<1>1. er = FALSE /\ fec = ""
  BY Zenon DEF Ready
<1>2. last'.op = op
  BY DEF F!Executes
<1>3. op # "DIV" /\ op \notin {"none", "load"}
      /\ op \notin {"ADD", "SUB", "MUL", "DIV", "MOD", "LDCff", "LDEXP"}
  OBVIOUS
<1>4. (fec' = "DZRO") = FALSE /\ (fec' = "ICVT") = FALSE /\ (fec' # "") = FALSE
  BY <1>1
<1>5. er' = FALSE /\ fec' \in fps'.enable \cup {"DZRO", ""}
  BY <1>1
<1>6. er' = (fec' # "") /\ (fec' = "ICVT") = FALSE /\ er' = FALSE /\ trapped' = FALSE
  BY <1>1
<1>8. trapped' = (er' /\ ~fps'.id)
  <2>1. (er' /\ ~fps'.id) = FALSE
    BY <1>6
  <2> QED BY <1>6, <2>1
<1>9. (fec' = "ICVT") = (fpCc'.c /\ "ICVT" \in fps'.enable)
  <2>1. ~(fpCc'.c /\ "ICVT" \in fps'.enable)
    BY Zenon
  <2> QED BY <1>6, <2>1, Zenon
<1>7. ~er' /\ ~fpCc'.v /\ fec' # "DZRO"
  BY <1>1
<1> HIDE DEF PostsNothing, Quiet
<1> QED BY <1>2, <1>3, <1>4, <1>5, <1>6, <1>7, <1>8, <1>9, Zenon DEF F!ExceptionsReported

\* Each instruction reports what it does.
LEMMA ExecuteReports ==
  ASSUME Ready, last.op = "load", F!Execute
  PROVE  F!ExceptionsReported' /\ Ready'
<1>1. fps \in F!FpsModes /\ ac \in F!Value
  BY Zenon DEF Ready
<1>2. \A v \in F!Value : F!to_fac(v, fps) \in F!Value /\ F!to_fac(v, fps).e = v.e
  BY FacType
<1>3. FpValues \subseteq F!Value /\ Exponents \subseteq Int
  BY FpWidths DEF F!WidthAssumption
<1>4. F!to_fac(ac, fps) \in F!Value
  BY <1>1, <1>2
<1>5. F!Zero \in F!Value
  BY Ranges DEF F!Zero, F!Value
<1>6. \A op, b : F!Executes(op, b) /\ op \notin {"none", "load"} => Ready'
  <2> SUFFICES ASSUME NEW op, NEW b, F!Executes(op, b), op \notin {"none", "load"}
               PROVE  Ready'
    OBVIOUS
  <2>1. last'.op = op
    BY DEF F!Executes
  <2> QED BY <2>1, Zenon DEF Ready
<1>7. ASSUME NEW b \in FpValues, NEW op \in {"ADD", "SUB", "MUL"}, F!Arithmetic(op, b)
      PROVE  F!ExceptionsReported' /\ Ready'
  <2> DEFINE src == IF op = "SUB" /\ b.e # 0 THEN [b EXCEPT !.s = 1 - @] ELSE b
             o == IF op = "MUL" THEN F!mulfp11(F!to_fac(ac, fps), F!to_fac(src, fps), fps)
                  ELSE F!addfp11(F!to_fac(ac, fps), F!to_fac(src, fps), fps)
  <2>1. /\ F!Executes(op, b) /\ ac' = o.v /\ fpCc' = F!fp_setcc(o.v, o.overflow)
        /\ F!post_fpe(o.code, op)
    BY <1>7, Zenon DEF F!Arithmetic
  <2>2. src \in F!Value
    BY <1>3 DEF F!Value
  <2> HIDE DEF src
  <2>3. F!to_fac(src, fps) \in F!Value
    BY <1>2, <2>2
  <2>4. Reports(o, fps)
    BY <1>4, <2>3, AddReports, MulReports, Zenon
  <2> HIDE DEF o
  <2>5. op \notin {"none", "load"} /\ op # "DIV"
    OBVIOUS
  <2>6. F!ExceptionsReported'
    BY <2>1, <2>4, <2>5, Written, Zenon DEF Reports
  <2> QED BY <1>6, <2>1, <2>5, <2>6, Zenon
<1>8. ASSUME NEW b \in FpValues, F!DIVf(b)
      PROVE  F!ExceptionsReported' /\ Ready'
  <2> DEFINE o == F!divfp11(F!to_fac(ac, fps), F!to_fac(b, fps), fps)
  <2>1. F!Executes("DIV", b)
    BY <1>8 DEF F!DIVf
  <2>2. Ready'
    BY <1>6, <2>1
  <2>3. CASE b.e = 0
    <3>1. F!post_fpe("DZRO", "DIV") /\ ac' = ac /\ fpCc' = fpCc
      BY <1>8, <2>3 DEF F!DIVf
    <3>2. er' = TRUE /\ fec' = "DZRO" /\ fea' = "DIV" /\ trapped' = ~fps.id
      BY <3>1 DEF F!post_fpe
    <3>3. last'.op = "DIV" /\ last'.b = b /\ last'.a = ac /\ fps' = fps
      BY <2>1 DEF F!Executes
    <3>4. fpCc'.c = FALSE /\ fpCc'.v = FALSE
      BY <3>1, Zenon DEF Ready
    <3>5. ("ICVT" \in fps'.enable /\ fpCc'.c) = FALSE /\ (fec' = "ICVT") = FALSE
          /\ (fec' = "") = FALSE /\ (fec' # "") = TRUE
      BY <3>2, <3>4
    <3>6. trapped' = (er' /\ ~fps.id)
      <4>1. fps.id \in BOOLEAN
        BY <1>1 DEF F!FpsModes
      <4> QED BY <3>2, <4>1
    <3>7. fec' \in fps'.enable \cup {"DZRO", ""}
      BY <3>2
    <3>8. (fec' = "DZRO") = (last'.op = "DIV" /\ last'.b.e = 0)
      BY <2>3, <3>2, <3>3
    <3>9. F!ExceptionsReported'
      BY <3>1, <3>2, <3>3, <3>4, <3>5, <3>6, <3>7, <3>8, Zenon DEF F!ExceptionsReported
    <3> QED BY <2>2, <3>9
  <2>4. CASE b.e # 0
    <3>1. ac' = o.v /\ fpCc' = F!fp_setcc(o.v, o.overflow) /\ F!post_fpe(o.code, "DIV")
      BY <1>8, <2>4, Zenon DEF F!DIVf
    <3>2. Reports(o, fps)
      <4>1. F!to_fac(b, fps) \in F!Value
        BY <1>2, <1>3
      <4> QED BY <1>4, <4>1, DivReports, Zenon
    <3> HIDE DEF o
    <3>3. PICK op : op = "DIV"
      OBVIOUS
    <3>4. op \notin {"none", "load"}
      BY <3>3
    <3>5. F!ExceptionsReported'
      BY <2>1, <2>4, <3>1, <3>2, <3>3, <3>4, Written, Zenon DEF Reports
    <3> QED BY <2>2, <3>5
  <2> QED BY <2>3, <2>4
<1>9. ASSUME NEW b \in FpValues, F!MODf(b)
      PROVE  F!ExceptionsReported' /\ Ready'
  <2> DEFINE o == F!modfp11(F!to_fac(ac, fps), F!to_fac(b, fps), fps)
  <2>1. /\ F!Executes("MOD", b) /\ ac' = o.v /\ fpCc' = F!fp_setcc(o.v, o.overflow)
        /\ F!post_fpe(o.code, "MOD")
    BY <1>9, Zenon DEF F!MODf
  <2>2. Reports(o, fps)
    <3>1. F!to_fac(b, fps) \in F!Value
      BY <1>2, <1>3
    <3> QED BY <1>4, <3>1, ModReports, Zenon
  <2> HIDE DEF o
  <2>3. PICK op : op = "MOD"
    OBVIOUS
  <2>4. op \notin {"none", "load"} /\ op # "DIV"
    BY <2>3
  <2>5. F!ExceptionsReported'
    BY <2>1, <2>2, <2>3, <2>4, Written, Zenon DEF Reports
  <2> QED BY <1>6, <2>1, <2>3, <2>4, <2>5, Zenon
<1>10. ASSUME NEW b \in FpValues, F!CMPf(b)
       PROVE  F!ExceptionsReported' /\ Ready'
  <2> DEFINE codes == F!pdp11_fp_cmp(F!to_fac(ac, fps), F!to_fac(b, fps))
  <2>1. /\ F!Executes("CMP", b) /\ fpCc' = codes /\ trapped' = FALSE
        /\ er' = er /\ fec' = fec
    BY <1>10, Zenon DEF F!CMPf
  <2>2. codes.c = FALSE /\ codes.v = FALSE
    BY DEF F!pdp11_fp_cmp
  <2> HIDE DEF codes
  <2>3. fpCc'.c = FALSE /\ fpCc'.v = FALSE
    BY <2>1, <2>2
  <2>4. PICK op : op = "CMP"
    OBVIOUS
  <2>5. op \in Quiet /\ op \notin {"none", "load"}
    BY <2>4 DEF Quiet
  <2>6. PostsNothing
    BY <2>1, <2>3 DEF PostsNothing
  <2>7. F!ExceptionsReported'
    BY <2>1, <2>4, <2>5, <2>6, Silent, Zenon
  <2> QED BY <1>6, <2>1, <2>4, <2>5, <2>7, Zenon
<1>11. ASSUME NEW b \in FpValues, NEW reg \in BOOLEAN, F!LDCff(b, reg)
       PROVE  F!ExceptionsReported' /\ Ready'
  <2> DEFINE source == F!Transferred(b, reg, F!Other(fps))
             v == IF source.e = 0 THEN F!Zero ELSE source
             o == IF ~fps.d /\ ~fps.t THEN F!roundfp11(v, fps) ELSE F!Outcome(v, FALSE, "")
  <2>1. /\ F!Executes("LDCff", source) /\ ac' = o.v /\ fpCc' = F!fp_setcc(o.v, o.overflow)
        /\ F!post_fpe(o.code, "LDCff")
    BY <1>11, Zenon DEF F!LDCff
  <2>8. source \in F!Value
    BY <1>3, FacType DEF F!Transferred
  <2> HIDE DEF source
  <2>2. v \in F!Value /\ (v.e # 0 \/ v = F!Zero)
    BY <1>5, <2>8
  <2> HIDE DEF v
  <2>3. Reports(o, fps)
    <3>1. CASE ~fps.d /\ ~fps.t
      BY <2>2, <3>1, NarrowReports
    <3>2. CASE ~(~fps.d /\ ~fps.t)
      <4>1. F!to_fac(v, fps).e # 0 \/ v = F!Zero
        BY <1>2, <2>2
      <4> QED BY <3>2, <4>1, PlainReports
    <3> QED BY <3>1, <3>2
  <2> HIDE DEF o
  <2>4. PICK op : op = "LDCff"
    OBVIOUS
  <2>5. op \notin {"none", "load"} /\ op # "DIV"
    BY <2>4
  <2>6. F!ExceptionsReported'
    BY <2>1, <2>3, <2>4, <2>5, Written, Zenon DEF Reports
  <2> QED BY <1>6, <2>1, <2>4, <2>5, <2>6, Zenon
<1>12. ASSUME NEW op \in {"CLR", "TST", "ABS", "NEG"}, F!Unary(op)
       PROVE  F!ExceptionsReported' /\ Ready'
  <2>1. PICK v : fpCc' = F!fp_setcc(v, FALSE)
    BY <1>12, Zenon DEF F!Unary
  <2>2. F!Executes(op, F!Zero) /\ trapped' = FALSE /\ er' = er /\ fec' = fec
    BY <1>12, Zenon DEF F!Unary
  <2>3. fpCc'.c = FALSE /\ fpCc'.v = FALSE
    BY <2>1 DEF F!fp_setcc
  <2>4. op \in Quiet /\ op \notin {"none", "load"} /\ PostsNothing
    BY <2>2, <2>3 DEF Quiet, PostsNothing
  <2>5. F!ExceptionsReported'
    BY <2>2, <2>4, Silent, Zenon
  <2> QED BY <1>6, <2>2, <2>4, <2>5, Zenon
<1>13. ASSUME NEW reg \in BOOLEAN, F!STCff(reg)
       PROVE  F!ExceptionsReported' /\ Ready'
  <2> DEFINE v == IF ac.e = 0 THEN F!Zero ELSE F!to_fac(ac, fps)
             o == IF fps.d /\ ~fps.t THEN F!roundfp11(v, fps) ELSE F!Outcome(v, FALSE, "")
  <2>1. /\ F!Executes("STCff", F!Zero) /\ fpCc' = F!fp_setcc(o.v, o.overflow)
        /\ F!post_fpe(o.code, "STCff")
    BY <1>13, Zenon DEF F!STCff
  <2>2. v = F!Zero \/ F!to_fac(v, fps).e # 0
    BY <1>1, <1>2, <1>4
  <2> HIDE DEF v
  <2>3. Posts(o, fps)
    <3>1. CASE fps.d /\ ~fps.t
      BY <3>1, NarrowPosts
    <3>2. CASE ~(fps.d /\ ~fps.t)
      BY <2>2, <3>2, PlainReports DEF Reports
    <3> QED BY <3>1, <3>2
  <2> HIDE DEF o
  <2>4. PICK op : op = "STCff"
    OBVIOUS
  <2>5. op \notin {"none", "load"} /\ op # "DIV"
        /\ op \notin {"ADD", "SUB", "MUL", "DIV", "MOD", "LDCff", "LDEXP"}
    BY <2>4
  <2>6. F!ExceptionsReported'
    BY <2>1, <2>3, <2>4, <2>5, Written, Zenon
  <2> QED BY <1>6, <2>1, <2>4, <2>5, <2>6, Zenon
<1>14. ASSUME F!STEXP
       PROVE  F!ExceptionsReported' /\ Ready'
  <2>1. /\ F!Executes("STEXP", F!Zero) /\ trapped' = FALSE /\ er' = er /\ fec' = fec
        /\ fpCc'.c = FALSE /\ fpCc'.v = FALSE
    BY <1>14 DEF F!STEXP
  <2>2. PICK op : op = "STEXP"
    OBVIOUS
  <2>3. op \in Quiet /\ op \notin {"none", "load"}
    BY <2>2 DEF Quiet
  <2>4. PostsNothing
    BY <2>1 DEF PostsNothing
  <2>5. F!ExceptionsReported'
    BY <2>1, <2>2, <2>3, <2>4, Silent, Zenon
  <2> QED BY <1>6, <2>1, <2>2, <2>3, <2>5, Zenon
<1>15. ASSUME F!STCfi
       PROVE  F!ExceptionsReported' /\ Ready'
  <2> DEFINE o == F!pdp11_fp_stcfi(ac, fps)
  <2>1. /\ F!Executes("STCfi", F!Zero) /\ F!post_fpe(o.code, "STCfi")
        /\ fpCc'.c = o.c /\ fpCc'.v = FALSE
    BY <1>15 DEF F!STCfi
  <2>2. \/ o.c = FALSE /\ o.code = ""
        \/ o.c = TRUE /\ "ICVT" \in fps.enable /\ o.code = "ICVT"
        \/ o.c = TRUE /\ "ICVT" \notin fps.enable /\ o.code = ""
    BY DEF F!pdp11_fp_stcfi
  <2> HIDE DEF o
  <2>3. last'.op = "STCfi" /\ fps' = fps
    BY <2>1 DEF F!Executes
  <2>4. er = FALSE /\ fec = ""
    BY Zenon DEF Ready
  <2>5. /\ er' = (fec' # "") /\ trapped' = (er' /\ ~fps.id) /\ (er' => fea' = "STCfi")
        /\ fec' = o.code
    <3>1. CASE o.code = ""
      <4>1. trapped' = FALSE /\ er' = FALSE /\ fec' = ""
        BY <2>1, <2>4, <3>1, Zenon DEF F!post_fpe
      <4> QED BY <3>1, <4>1
    <3>2. CASE o.code # ""
      <4>1. er' = TRUE /\ fec' = o.code /\ fea' = "STCfi" /\ trapped' = ~fps.id
        BY <2>1, <3>2, Zenon DEF F!post_fpe
      <4>2. fps.id \in BOOLEAN
        BY <1>1 DEF F!FpsModes
      <4> QED BY <3>2, <4>1, <4>2
    <3> QED BY <3>1, <3>2
  <2>6. fec' \in fps'.enable \cup {"DZRO", ""}
    BY <2>2, <2>3, <2>5
  <2>7. (fec' = "DZRO") = FALSE /\ (fec' = "ICVT") = (fpCc'.c /\ "ICVT" \in fps'.enable)
    BY <2>1, <2>2, <2>3, <2>5
  <2>8. last'.op \notin {"ADD", "SUB", "MUL", "DIV", "MOD", "LDCff", "LDEXP"}
        /\ last'.op # "DIV"
    BY <2>3
  <2>9. F!ExceptionsReported'
    BY <2>1, <2>3, <2>5, <2>6, <2>7, <2>8, Zenon DEF F!ExceptionsReported
  <2> QED BY <1>6, <2>1, <2>9
<1>16. ASSUME NEW x \in Exponents, F!LDEXP(x)
       PROVE  F!ExceptionsReported' /\ Ready'
  <2> DEFINE v == [ac EXCEPT !.e = (x + F!Bias) % F!Power[ExpBits]]
             o == IF x > F!Bias - 1 THEN F!Excepted(v, TRUE, "OVFLO", fps)
                  ELSE IF x <= -F!Bias THEN F!Excepted(v, FALSE, "UNFLO", fps)
                  ELSE F!Outcome(v, FALSE, "")
  <2>1. /\ F!Executes("LDEXP", F!Zero) /\ ac' = o.v /\ fpCc' = F!fp_setcc(o.v, o.overflow)
        /\ F!post_fpe(o.code, "LDEXP")
    BY <1>16, Zenon DEF F!LDEXP
  <2>2. PICK k \in Nat \ {0} : k = F!Bias /\ F!Power[ExpBits] = 2 * k
    BY Ranges
  <2>3. x \in Int
    BY <1>3
  <2>4. v.e = (x + k) % (2 * k)
    BY <1>1, <2>2 DEF F!Value
  <2>5. F!to_fac(v, fps).e = v.e
    BY <1>1 DEF F!to_fac, F!Value
  <2> HIDE DEF v
  <2>6. Reports(o, fps)
    <3>1. CASE x > F!Bias - 1
      <4>1. PICK yes \in BOOLEAN, code \in {"OVFLO", "UNFLO"} : yes = TRUE /\ code = "OVFLO"
        OBVIOUS
      <4> QED BY <3>1, <4>1, ExceptedReports
    <3>2. CASE ~(x > F!Bias - 1) /\ x <= -F!Bias
      <4>1. PICK no \in BOOLEAN, code \in {"OVFLO", "UNFLO"} : no = FALSE /\ code = "UNFLO"
        OBVIOUS
      <4> QED BY <3>2, <4>1, ExceptedReports
    <3>3. CASE ~(x > F!Bias - 1) /\ ~(x <= -F!Bias)
      <4>1. x + k \in 1 .. 2 * k - 1
        BY <2>2, <2>3, <3>3
      <4>2. (x + k) % (2 * k) = x + k
        <5>1. PICK y \in Int, n \in Nat \ {0} : y = x + k /\ n = 2 * k
          BY <2>3
        <5>2. y \in 0 .. n - 1
          BY <4>1, <5>1
        <5> QED BY <5>1, <5>2, ModNear
      <4>3. F!to_fac(v, fps).e # 0
        BY <2>4, <2>5, <4>1, <4>2
      <4> QED BY <3>3, <4>3, PlainReports
    <3> QED BY <3>1, <3>2, <3>3
  <2> HIDE DEF o
  <2>7. PICK op : op = "LDEXP"
    OBVIOUS
  <2>8. op \notin {"none", "load"} /\ op # "DIV"
    BY <2>7
  <2>9. F!ExceptionsReported'
    BY <2>1, <2>6, <2>7, <2>8, Written, Zenon DEF Reports
  <2> QED BY <1>6, <2>1, <2>7, <2>8, <2>9, Zenon
<1>17. ASSUME NEW i \in 0 .. F!Power[IntBits] - 1, F!LDCif(i)
       PROVE  F!ExceptionsReported' /\ Ready'
  <2>1. /\ F!Executes("LDCif", F!Zero) /\ trapped' = FALSE /\ er' = er /\ fec' = fec
        /\ fpCc' = F!fp_setcc(ac', FALSE)
    BY <1>17, Zenon DEF F!LDCif
  <2>2. fpCc'.c = FALSE /\ fpCc'.v = FALSE
    BY <2>1 DEF F!fp_setcc
  <2>3. PICK op : op = "LDCif"
    OBVIOUS
  <2>4. op \in Quiet /\ op \notin {"none", "load"}
    BY <2>3 DEF Quiet
  <2>5. PostsNothing
    BY <2>1, <2>2 DEF PostsNothing
  <2>6. F!ExceptionsReported'
    BY <2>1, <2>3, <2>4, <2>5, Silent, Zenon
  <2> QED BY <1>6, <2>1, <2>3, <2>4, <2>6, Zenon
<1> QED BY <1>7, <1>8, <1>9, <1>10, <1>11, <1>12, <1>13, <1>14, <1>15, <1>16, <1>17
       DEF F!Execute

\* Every step of the FP11 keeps both.
LEMMA FpStepReports ==
  ASSUME Ready, F!ExceptionsReported, F!Next
  PROVE  Ready' /\ F!ExceptionsReported'
<1>1. CASE last.op = "none" /\ \E m \in Settings, v \in FpValues : F!Load(m, v)
  <2>1. PICK m \in Settings, v \in FpValues : F!Load(m, v)
    BY <1>1
  <2>2. m \in F!FpsModes /\ v \in F!Value
    BY FpWidths DEF F!WidthAssumption
  <2>3. /\ last'.op = "load" /\ er' = FALSE /\ trapped' = FALSE /\ fps' = m /\ ac' = v
        /\ fec' = fec /\ fpCc'.c = FALSE /\ fpCc'.v = FALSE
    BY <2>1 DEF F!Load, F!fp_setcc
  <2>4. fec = ""
    BY <1>1 DEF Ready
  <2> QED BY <2>2, <2>3, <2>4 DEF Ready, F!ExceptionsReported
<1>2. CASE last.op = "load" /\ F!Execute
  BY <1>2, ExecuteReports
<1>3. CASE F!Reset
  <2>1. /\ last'.op = "none" /\ er' = FALSE /\ trapped' = FALSE
        /\ fec' = "" /\ fpCc'.c = FALSE /\ fpCc'.v = FALSE
    BY <1>3 DEF F!Reset, F!fp_setcc
  <2> QED BY <2>1 DEF Ready, F!ExceptionsReported
<1> QED BY <1>1, <1>2, <1>3 DEF F!Next

\* cpu.c, op_fp11 and post_fpe: after every instruction FPS, FEC, FEA and the trap tell
\* the exception that the instruction met and that was enabled, division by zero
\* always; V tells an overflow even when it is not; and a result out of range that is
\* not posted is a clean zero.
THEOREM FpReports == DatapathSpec => []FpExceptionsReported
<1> DEFINE Inv == Ready /\ F!ExceptionsReported
<1>1. DatapathInit => Inv
  <2> SUFFICES ASSUME DatapathInit PROVE Inv
    OBVIOUS
  <2>1. /\ last.op = "none" /\ er = FALSE /\ trapped = FALSE
        /\ fec = "" /\ fpCc.c = FALSE /\ fpCc.v = FALSE
    BY DEF DatapathInit, F!Init, F!fp_setcc
  <2> QED BY <2>1 DEF Ready, F!ExceptionsReported
<1>2. Inv /\ [DatapathNext]_<<unit, vars, aluVars, fpVars>> => Inv'
  <2> SUFFICES ASSUME Inv, [DatapathNext]_<<unit, vars, aluVars, fpVars>> PROVE Inv'
    OBVIOUS
  <2>1. CASE F!Next
    BY <2>1, FpStepReports
  <2>2. CASE UNCHANGED fpVars
    BY <2>2 DEF fpVars, Ready, F!ExceptionsReported, F!R, F!to_fac
  <2> QED BY <2>1, <2>2 DEF DatapathNext
<1>3. Inv => FpExceptionsReported
  BY DEF FpExceptionsReported
<1> QED BY <1>1, <1>2, <1>3, PTL DEF DatapathSpec

-----------------------------------------------------------------------------
(* Rounding.                                                                *)

\* The last place of a fraction in either precision, and the half of it that
\* round_and_pack adds to a guarded fraction.
LastPlace(m) == IF m.d THEN 1 ELSE F!Power[F!LowBits]
Half(m) == IF m.d THEN F!Power[Guard - 1] ELSE F!Power[Guard - 1 + F!LowBits]

\* The last place of a precision and its half, in the units of a wide fraction.
LEMMA Places ==
  ASSUME NEW m
  PROVE  /\ LastPlace(m) \in Nat \ {0} /\ Half(m) \in Nat \ {0}
         /\ 2 * Half(m) = F!Power[Guard] * LastPlace(m)
         /\ \E n \in Nat \ {0} : F!Hidden = LastPlace(m) * n
<1>1. /\ Guard - 1 \in Nat /\ (Guard - 1) + 1 = Guard /\ F!LowBits \in Nat
      /\ SingleBits - 1 \in Nat /\ F!LowBits + (SingleBits - 1) = DoubleBits - 1
  BY FpWidths DEF F!WidthAssumption, F!LowBits
<1>2. PICK h \in Nat \ {0}, l \in Nat \ {0}, n \in Nat \ {0} :
           h = F!Power[Guard - 1] /\ l = F!Power[F!LowBits] /\ n = F!Power[SingleBits - 1]
  BY <1>1, FpPowerSteps
<1>3. F!Power[Guard] = 2 * h
  BY <1>1, <1>2, FpPowerSteps
<1>4. F!Power[Guard - 1 + F!LowBits] = h * l
  BY <1>1, <1>2, FpPowerOfSum
<1>5. F!Hidden = l * n
  <2>1. F!Power[F!LowBits + (SingleBits - 1)] = l * n
    BY <1>1, <1>2, FpPowerOfSum
  <2> QED BY <1>1, <2>1 DEF F!Hidden
<1>6. CASE m.d
  <2>1. LastPlace(m) = 1 /\ Half(m) = h
    BY <1>2, <1>6 DEF LastPlace, Half
  <2>2. F!Hidden = 1 * F!Hidden /\ F!Hidden \in Nat \ {0}
    BY Ranges
  <2> QED BY <1>3, <2>1, <2>2
<1>7. CASE ~m.d
  <2>1. LastPlace(m) = l /\ Half(m) = h * l
    BY <1>2, <1>4, <1>7 DEF LastPlace, Half
  <2>2. 2 * (h * l) = (2 * h) * l /\ h * l \in Nat \ {0}
    <3>1. PICK k \in Nat : l = k + 1
      <4>1. l - 1 \in Nat /\ l = (l - 1) + 1
        OBVIOUS
      <4> QED BY <4>1
    <3>2. h * (k + 1) = h * k + h /\ h * k \in Nat
      OBVIOUS
    <3> QED BY <3>1, <3>2
  <2> QED BY <1>2, <1>3, <1>5, <2>1, <2>2
<1> QED BY <1>6, <1>7

\* What to_fac leaves of a fraction without its hidden bit.
MaskedTo(v, m, s, e, x) ==
  /\ v.s = s /\ v.e = e
  /\ F!Fraction(v) \in F!Hidden .. x /\ x < F!Fraction(v) + LastPlace(m)
  /\ F!Fraction(v) \in Nat /\ \E w \in Nat : F!Fraction(v) = LastPlace(m) * w

\* What to_fac keeps of a fraction is what the mask of the precision lets through.
LEMMA Masked ==
  ASSUME NEW m, NEW s, NEW e, NEW x \in F!Hidden .. 2 * F!Hidden - 1
  PROVE  MaskedTo(F!to_fac([s |-> s, e |-> e, f |-> x % F!Hidden], m), m, s, e, x)
<1> DEFINE p == [s |-> s, e |-> e, f |-> x % F!Hidden]
           v == F!to_fac(p, m)
<1>1. PICK h \in Nat \ {0} : h = F!Hidden
  BY Ranges
<1>2. x \in Nat /\ x \in h .. 2 * h - 1 /\ x % h = x - h /\ x - h \in Nat
  BY <1>1, ModNear
<1>3. p.s = s /\ p.e = e /\ p.f = x - h
  BY <1>1, <1>2
<1>4. CASE m.d
  <2>1. v = p /\ LastPlace(m) = 1
    BY <1>4 DEF F!to_fac, LastPlace
  <2> HIDE DEF p, v
  <2>2. F!Fraction(v) = x /\ 1 * x = x
    BY <1>1, <1>2, <1>3, <2>1 DEF F!Fraction
  <2>3. v.s = s /\ v.e = e
    BY <1>3, <2>1
  <2> QED BY <1>1, <1>2, <2>1, <2>2, <2>3 DEF p, v, MaskedTo
<1>5. CASE ~m.d
  <2>1. PICK l \in Nat \ {0}, n \in Nat \ {0} :
             l = LastPlace(m) /\ l = F!Power[F!LowBits] /\ h = l * n
    BY <1>1, <1>5, Places DEF LastPlace
  <2>2. PICK q \in Nat, d \in 0 .. l - 1 : d = (x - h) % l /\ x - h = l * q + d
    <3>1. PICK y \in Nat : y = x - h
      BY <1>2
    <3>2. \E q \in Nat, d \in 0 .. l - 1 : q = y \div l /\ d = y % l /\ y = l * q + d
      BY DivMod, Zenon
    <3> QED BY <3>1, <3>2
  <2>3. v = [p EXCEPT !.f = @ - (@ % l)]
    BY <1>5, <2>1 DEF F!to_fac
  <2>4. v.s = s /\ v.e = e /\ v.f = p.f - (p.f % l)
    BY <1>3, <2>3
  <2> HIDE DEF p, v
  <2>5. v.f = l * q
    BY <1>3, <2>2, <2>4
  <2>6. F!Fraction(v) = l * n + l * q
    BY <1>1, <2>1, <2>5 DEF F!Fraction
  <2>7. l * n + l * q = l * (n + q) /\ n + q \in Nat /\ l * q \in Nat
    OBVIOUS
  <2>8. F!Fraction(v) \in h .. x /\ x < F!Fraction(v) + l /\ F!Fraction(v) \in Nat
    BY <1>2, <2>1, <2>2, <2>6, <2>7
  <2> QED BY <1>1, <2>1, <2>4, <2>6, <2>7, <2>8 DEF p, v, MaskedTo
<1> QED BY <1>4, <1>5

\* A multiple of d below another is at least d below it.
LEMMA Step ==
  ASSUME NEW d \in Nat, NEW i \in Nat, NEW j \in Nat, d * i < d * j
  PROVE  d * i + d <= d * j
<1>1. i < j
  <2> SUFFICES ASSUME j <= i PROVE FALSE
    OBVIOUS
  <2>1. j * d <= i * d
    BY TimesGrows
  <2> QED BY <2>1
<1>2. (i + 1) * d <= j * d
  BY <1>1, TimesGrows
<1>3. (i + 1) * d = d * i + d /\ j * d = d * j
  OBVIOUS
<1> QED BY <1>2, <1>3
\* A fraction that is a multiple of d and within d below a number, rounded: so is the
\* number.
LEMMA Slack ==
  ASSUME NEW d \in Nat, NEW i \in Nat, NEW j \in Nat, NEW w \in Nat,
         NEW D \in Nat \ {0}, NEW Y \in Nat, (d * i) * D <= Y, Y < (d * i + d) * D
  PROVE  LET u == 2 * (d * j)
             v == u * w
         IN  /\ v <= d * i /\ d * i < v + u => v * D <= Y /\ Y < v * D + u * D
             /\ v <= d * i + d * j /\ d * i + d * j < v + u =>
                  2 * (v * D - Y) <= u * D /\ 2 * (Y - v * D) < u * D
<1> DEFINE u == 2 * (d * j)
           v == u * w
<1>1. PICK a \in Nat, h \in Nat, z \in Nat, x \in Nat :
           a = d * i /\ h = d * j /\ z = v /\ x = d
  OBVIOUS
<1>2. u = 2 * h
  BY <1>1
<1>3. a * D <= Y /\ Y < a * D + x * D
  <2>1. (d * i + d) * D = (d * i) * D + d * D
    OBVIOUS
  <2> QED BY <1>1, <2>1
<1>4. ASSUME z <= a, a < z + u PROVE z * D <= Y /\ Y < z * D + u * D
  <2>1. a + x <= z + u
    <3>1. z + u = d * (2 * (j * (w + 1))) /\ 2 * (j * (w + 1)) \in Nat
      <4>1. (2 * (d * j)) * w + 2 * (d * j) = d * (2 * (j * (w + 1)))
        OBVIOUS
      <4> QED BY <1>1, <4>1
    <3>2. PICK k \in Nat : k = 2 * (j * (w + 1)) /\ z + u = d * k
      BY <3>1
    <3> QED BY <1>1, <1>4, <3>2, Step
  <2>2. z * D <= a * D
    BY <1>4, TimesGrows
  <2>3. (a + x) * D <= (z + u) * D
    BY <1>2, <2>1, TimesGrows
  <2>4. (a + x) * D = a * D + x * D /\ (z + u) * D = z * D + u * D
    BY <1>2
  <2> QED BY <1>2, <1>3, <2>2, <2>3, <2>4
<1>5. ASSUME z <= a + h, a + h < z + u
      PROVE  2 * (z * D - Y) <= u * D /\ 2 * (Y - z * D) < u * D
  <2>1. (a + h) + x <= z + u
    <3>1. z + u = d * (2 * (j * (w + 1))) /\ 2 * (j * (w + 1)) \in Nat
      <4>1. (2 * (d * j)) * w + 2 * (d * j) = d * (2 * (j * (w + 1)))
        OBVIOUS
      <4> QED BY <1>1, <4>1
    <3>2. PICK k \in Nat : k = 2 * (j * (w + 1)) /\ z + u = d * k
      BY <3>1
    <3>3. a + h = d * (i + j) /\ i + j \in Nat
      BY <1>1
    <3>4. PICK l \in Nat : l = i + j /\ a + h = d * l
      BY <3>3
    <3> QED BY <1>1, <1>5, <3>2, <3>4, Step
  <2>2. z * D <= (a + h) * D
    BY <1>5, TimesGrows
  <2>3. ((a + h) + x) * D <= (z + u) * D
    BY <1>2, <2>1, TimesGrows
  <2>4. /\ (a + h) * D = a * D + h * D /\ ((a + h) + x) * D = a * D + (h * D + x * D)
        /\ (z + u) * D = z * D + u * D /\ u * D = 2 * (h * D)
    BY <1>2
  <2> QED BY <1>2, <1>3, <2>2, <2>3, <2>4
<1> HIDE DEF u, v
<1> QED BY <1>1, <1>4, <1>5 DEF u, v

\* Rounding does not depend on the scale.
LEMMA RoundsScaled ==
  ASSUME NEW rv \in Nat, NEW u \in Nat, NEW x \in Nat, NEW c \in Nat \ {0}, NEW t,
         F!Rounds(rv * c, u * c, x * c, t)
  PROVE  F!Rounds(rv, u, x, t)
<1>1. \A a, b \in Int : a * c <= b * c => a <= b
  <2> SUFFICES ASSUME NEW a \in Int, NEW b \in Int, a > b PROVE ~(a * c <= b * c)
    OBVIOUS
  <2>1. PICK k \in Nat : a = b + (k + 1)
    <3>1. a - b - 1 \in Nat /\ a = b + ((a - b - 1) + 1)
      OBVIOUS
    <3> QED BY <3>1
  <2>2. (b + (k + 1)) * c = b * c + (k * c + c) /\ k * c \in Nat
    OBVIOUS
  <2> QED BY <2>1, <2>2
<1>2. \A a, b \in Int : a * c < b * c => a < b
  <2> SUFFICES ASSUME NEW a \in Int, NEW b \in Int, a >= b PROVE ~(a * c < b * c)
    OBVIOUS
  <2>1. PICK k \in Nat : a = b + k
    <3>1. a - b \in Nat /\ a = b + (a - b)
      OBVIOUS
    <3> QED BY <3>1
  <2>2. (b + k) * c = b * c + k * c /\ k * c \in Nat
    OBVIOUS
  <2> QED BY <2>1, <2>2
<1>3. CASE t
  <2>1. rv * c <= x * c /\ x * c < rv * c + u * c
    BY <1>3 DEF F!Rounds
  <2>2. rv * c + u * c = (rv + u) * c
    OBVIOUS
  <2>3. rv <= x /\ x < rv + u
    BY <1>1, <1>2, <2>1, <2>2
  <2> QED BY <1>3, <2>3 DEF F!Rounds
<1>4. CASE ~t
  <2>1. 2 * (rv * c - x * c) <= u * c /\ 2 * (x * c - rv * c) < u * c
    BY <1>4 DEF F!Rounds
  <2>2. 2 * (rv * c - x * c) = (2 * (rv - x)) * c /\ 2 * (x * c - rv * c) = (2 * (x - rv)) * c
    OBVIOUS
  <2>3. 2 * (rv - x) <= u /\ 2 * (x - rv) < u
    BY <1>1, <1>2, <2>1, <2>2
  <2> QED BY <1>4, <2>3 DEF F!Rounds
<1> QED BY <1>3, <1>4
\* o is p, or what is made of it when the exponent leaves its range.
PacksAs(o, m, s, exp, k, p) ==
  /\ k \in {0, 1} /\ F!to_fac(p, m).s = s /\ F!Fraction(F!to_fac(p, m)) \in Nat
  /\ F!to_fac(p, m).e = (exp + k) % F!Power[ExpBits]
  /\ o = IF exp + k > F!MaxExp THEN F!Excepted(p, TRUE, "OVFLO", m)
         ELSE IF F!Underflows(exp + k) THEN F!Excepted(p, FALSE, "UNFLO", m)
         ELSE F!Outcome(p, FALSE, "")

\* A guarded fraction that is a multiple of d, as is half a last place, and within d
\* below Y/D.
Below(m, frac, d, i, j, D, Y) ==
  /\ frac \in F!One .. 2 * F!One - 1 /\ D \in Nat \ {0} /\ Y \in Nat
  /\ d \in Nat /\ i \in Nat /\ j \in Nat /\ frac = d * i /\ Half(m) = d * j
  /\ frac * D <= Y /\ Y < (frac + d) * D

\* fp.c, round_and_pack: it is packed as Y/D rounded or cut off.
LEMMA PackRounds ==
  ASSUME NEW m, m.t \in BOOLEAN, NEW s, NEW exp \in Int, NEW round \in BOOLEAN,
         NEW frac, NEW d, NEW i, NEW j, NEW D, NEW Y, Below(m, frac, d, i, j, D, Y)
  PROVE  \E k, p :
           /\ PacksAs(F!round_and_pack(s, exp, frac, round, m), m, s, exp, k, p)
           /\ F!Rounds((F!Fraction(F!to_fac(p, m)) * F!Power[k]) * (F!Power[Guard] * D),
                       (LastPlace(m) * F!Power[k]) * (F!Power[Guard] * D), Y,
                       ~(round /\ ~m.t))
<1>a. /\ frac \in F!One .. 2 * F!One - 1 /\ D \in Nat \ {0} /\ Y \in Nat
      /\ d \in Nat /\ i \in Nat /\ j \in Nat /\ frac = d * i /\ Half(m) = d * j
      /\ frac * D <= Y /\ Y < (frac + d) * D
  BY Zenon DEF Below
<1> USE <1>a
<1> DEFINE sum == IF round /\ ~m.t THEN frac + Half(m) ELSE frac
           carried == sum >= 2 * F!One
           x == (IF carried THEN sum \div 2 ELSE sum) \div F!Power[Guard]
           ex == IF carried THEN exp + 1 ELSE exp
           p == [s |-> s, e |-> ex % F!Power[ExpBits], f |-> x % F!Hidden]
           o == F!round_and_pack(s, exp, frac, round, m)
           v == F!to_fac(p, m)
<1>1. o = IF ex > F!MaxExp THEN F!Excepted(p, TRUE, "OVFLO", m)
          ELSE IF F!Underflows(ex) THEN F!Excepted(p, FALSE, "UNFLO", m)
          ELSE F!Outcome(p, FALSE, "")
  BY Zenon DEF F!round_and_pack, Half
<1>2. PICK h \in Nat \ {0}, g \in Nat \ {0}, l \in Nat \ {0}, n \in Nat \ {0}, half \in Nat \ {0} :
           /\ h = F!Hidden /\ g = F!Power[Guard] /\ F!One = h * g /\ l = LastPlace(m)
           /\ half = Half(m) /\ 2 * half = g * l /\ h = l * n
  BY Ranges, GuardedHidden, Places
<1>3. frac \in h * g .. 2 * (h * g) - 1 /\ frac \in Nat /\ h * g \in Nat
  BY <1>2
<1>4. half < h * g
  <2>1. g * l <= h * g
    <3>1. 1 * (g * l) <= n * (g * l)
      <4>1. 1 <= n /\ g * l \in Nat
        OBVIOUS
      <4> QED BY <4>1, TimesGrows
    <3>2. 1 * (g * l) = g * l /\ n * (g * l) = (l * n) * g
      OBVIOUS
    <3> QED BY <1>2, <3>1, <3>2
  <2> QED BY <1>2, <1>3, <2>1
<1>5. sum \in h * g .. 2 * (h * g) - 1 + half /\ sum \in Nat
  BY <1>2, <1>3
<1> DEFINE P == IF carried THEN 1 ELSE 0
           c == F!Power[P]
<1>6. c = (IF carried THEN 2 ELSE 1) /\ P \in {0, 1} /\ ex = exp + P
  <2>1. F!Power[0] = 1 /\ F!Power[1] = 2
    <3>1. 0 \in Nat /\ 0 + 1 = 1 /\ 2 * 1 = 2
      OBVIOUS
    <3> QED BY <3>1, FpPowerSteps
  <2> QED BY <2>1
<1> HIDE DEF o, p, v, ex, P
\* x is the sum without its guard bits, and without the bit carried out.
<1>7. /\ x \in h .. 2 * h - 1 /\ (c * g) * x <= sum /\ sum < (c * g) * x + c * g
      /\ carried => round /\ ~m.t
  <2>1. CASE carried
    <3>1. PICK y \in Nat, b \in 0 .. 1 : y = sum \div 2 /\ sum = 2 * y + b
      <4>1. PICK t \in Nat : t = sum
        BY <1>5
      <4>2. PICK two \in Nat \ {0} : two = 2
        OBVIOUS
      <4>3. \E y \in Nat, b \in 0 .. two - 1 :
              y = t \div two /\ b = t % two /\ t = two * y + b
        BY DivMod, Zenon
      <4> HIDE DEF sum
      <4> QED BY <4>1, <4>2, <4>3
    <3>2. PICK q \in Nat, a \in 0 .. g - 1 : q = y \div g /\ y = g * q + a
      <4>1. \E q \in Nat, a \in 0 .. g - 1 : q = y \div g /\ a = y % g /\ y = g * q + a
        BY DivMod, Zenon
      <4> QED BY <4>1
    <3>3. x = q /\ c = 2
      BY <1>2, <1>6, <2>1, <3>1, <3>2
    <3>4. (2 * g) * q = 2 * (g * q) /\ g * q \in Nat
      OBVIOUS
    <3>5. (2 * g) * q <= sum /\ sum < (2 * g) * q + 2 * g
      BY <3>1, <3>2, <3>4
    <3>6. y >= h * g /\ y < 2 * (h * g)
      BY <1>2, <1>3, <1>4, <1>5, <2>1, <3>1
    <3>7. h <= q
      <4> SUFFICES ASSUME q + 1 <= h PROVE FALSE
        OBVIOUS
      <4>1. (q + 1) * g <= h * g
        BY TimesGrows
      <4>2. (q + 1) * g = g * q + g
        OBVIOUS
      <4> QED BY <1>3, <3>2, <3>4, <3>6, <4>1, <4>2
    <3>8. q < 2 * h
      <4> SUFFICES ASSUME 2 * h <= q PROVE FALSE
        OBVIOUS
      <4>1. (2 * h) * g <= q * g
        BY TimesGrows
      <4>2. (2 * h) * g = 2 * (h * g) /\ q * g = g * q
        OBVIOUS
      <4> QED BY <1>3, <3>2, <3>4, <3>6, <4>1, <4>2
    <3>9. round /\ ~m.t
      BY <1>2, <1>3, <2>1
    <3> QED BY <2>1, <3>3, <3>5, <3>7, <3>8, <3>9
  <2>2. CASE ~carried
    <3>1. PICK q \in Nat, a \in 0 .. g - 1 : q = sum \div g /\ sum = g * q + a
      <4>1. PICK t \in Nat : t = sum
        BY <1>5
      <4>2. \E q \in Nat, a \in 0 .. g - 1 : q = t \div g /\ a = t % g /\ t = g * q + a
        BY DivMod, Zenon
      <4> HIDE DEF sum
      <4> QED BY <4>1, <4>2
    <3>2. x = q /\ c = 1
      BY <1>2, <1>6, <2>2, <3>1
    <3>3. (1 * g) * q = g * q /\ g * q \in Nat /\ 1 * g = g
      OBVIOUS
    <3>4. sum >= h * g /\ sum < 2 * (h * g)
      BY <1>2, <1>3, <1>5, <2>2
    <3>5. h <= q
      <4> SUFFICES ASSUME q + 1 <= h PROVE FALSE
        OBVIOUS
      <4>1. (q + 1) * g <= h * g
        BY TimesGrows
      <4>2. (q + 1) * g = g * q + g
        OBVIOUS
      <4> QED BY <1>3, <3>1, <3>3, <3>4, <4>1, <4>2
    <3>6. q < 2 * h
      <4> SUFFICES ASSUME 2 * h <= q PROVE FALSE
        OBVIOUS
      <4>1. (2 * h) * g <= q * g
        BY TimesGrows
      <4>2. (2 * h) * g = 2 * (h * g) /\ q * g = g * q
        OBVIOUS
      <4> QED BY <1>3, <3>1, <3>3, <3>4, <4>1, <4>2
    <3> QED BY <2>2, <3>1, <3>2, <3>3, <3>5, <3>6
  <2> QED BY <2>1, <2>2
<1>8. /\ v.s = s /\ v.e = ex % F!Power[ExpBits]
      /\ F!Fraction(v) \in Nat /\ h <= F!Fraction(v) /\ F!Fraction(v) <= x
      /\ x < F!Fraction(v) + l
      /\ \E w \in Nat : F!Fraction(v) = l * w
  <2>1. PICK y \in F!Hidden .. 2 * F!Hidden - 1 : y = x
    BY <1>2, <1>7
  <2>e. PICK e : e = ex % F!Power[ExpBits]
    OBVIOUS
  <2>2. v = F!to_fac([s |-> s, e |-> e, f |-> y % F!Hidden], m)
    BY <2>1, <2>e, Zenon DEF p, v
  <2> HIDE DEF x
  <2>3. MaskedTo(v, m, s, e, y)
    BY <2>2, Masked, Zenon
  <2> QED BY <1>2, <2>1, <2>e, <2>3 DEF MaskedTo
<1>9. PICK w \in Nat, a \in Nat : a = F!Fraction(v) /\ a = l * w /\ h <= a /\ a <= x /\ x < a + l
  BY <1>8
<1>10. PICK y \in Nat, b \in Nat : y = x /\ b = c * g /\ b \in {g, 2 * g}
  BY <1>6, <1>7
<1>11. b * a <= sum /\ sum < b * a + b * l
  <2>1. a * b <= y * b
    BY <1>9, <1>10, TimesGrows
  <2>2. (y + 1) * b <= (a + l) * b
    <3>1. y + 1 <= a + l
      BY <1>9, <1>10
    <3> QED BY <3>1, TimesGrows
  <2>3. /\ a * b = b * a /\ (y + 1) * b = b * y + b /\ (a + l) * b = b * a + b * l
        /\ y * b = b * y
    OBVIOUS
  <2>4. b * y <= sum /\ sum < b * y + b
    BY <1>7, <1>10
  <2> QED BY <1>5, <2>1, <2>2, <2>3, <2>4
<1>12. 2 * (d * j) = g * l
  BY <1>2
<1>13. PICK e \in Nat, dD \in Nat, Yn \in Nat : e = d * i /\ dD = d * D /\ Yn = Y /\ e = frac
  OBVIOUS
<1> DEFINE rv == (a * c) * (g * D)
           u == (l * c) * (g * D)
<1>14. F!Rounds(rv, u, Y, ~(round /\ ~m.t))
  <2>1. LET uu == 2 * (d * j)
            vv == uu * w
        IN  /\ vv <= d * i /\ d * i < vv + uu => vv * D <= Y /\ Y < vv * D + uu * D
            /\ vv <= d * i + d * j /\ d * i + d * j < vv + uu =>
                 2 * (vv * D - Y) <= uu * D /\ 2 * (Y - vv * D) < uu * D
    BY Slack
  <2>2. /\ (g * l) * w <= d * i /\ d * i < (g * l) * w + g * l =>
             ((g * l) * w) * D <= Y /\ Y < ((g * l) * w) * D + (g * l) * D
        /\ (g * l) * w <= d * i + d * j /\ d * i + d * j < (g * l) * w + g * l =>
             2 * (((g * l) * w) * D - Y) <= (g * l) * D /\ 2 * (Y - ((g * l) * w) * D) < (g * l) * D
    BY <1>12, <2>1
  <2>3. (g * l) * w = g * a
    BY <1>9
  <2>4. PICK z \in Nat, zD \in Nat, uD \in Nat, gl \in Nat :
             z = g * a /\ zD = z * D /\ gl = g * l /\ uD = gl * D
    <3>1. g * a \in Nat /\ (g * a) * D \in Nat /\ g * l \in Nat /\ (g * l) * D \in Nat
      OBVIOUS
    <3> QED BY <3>1
  <2>5. /\ z <= d * i /\ d * i < z + gl => zD <= Y /\ Y < zD + uD
        /\ z <= d * i + d * j /\ d * i + d * j < z + gl => 2 * (zD - Y) <= uD /\ 2 * (Y - zD) < uD
    BY <2>2, <2>3, <2>4
  <2>6. CASE ~carried
    <3>1. c = 1 /\ b = g
      BY <1>6, <1>10, <2>6
    <3>2. rv = zD /\ u = uD
      <4>1. (a * 1) * (g * D) = (g * a) * D /\ (l * 1) * (g * D) = (g * l) * D
        OBVIOUS
      <4> QED BY <2>4, <3>1, <4>1
    <3>3. z <= sum /\ sum < z + gl
      BY <1>11, <2>4, <3>1
    <3> HIDE DEF rv, u
    <3>4. CASE round /\ ~m.t
      <4>1. sum = d * i + d * j
        BY <1>2, <1>13, <3>4
      <4> QED BY <2>5, <3>2, <3>3, <3>4, <4>1 DEF F!Rounds
    <3>5. CASE ~(round /\ ~m.t)
      <4>1. sum = d * i
        BY <1>13, <3>5
      <4> QED BY <2>5, <3>2, <3>3, <3>5, <4>1 DEF F!Rounds
    <3> QED BY <3>4, <3>5
  <2>7. CASE carried
    <3>1. c = 2 /\ b = 2 * g /\ round /\ ~m.t
      BY <1>6, <1>7, <1>10, <2>7
    <3>2. rv = 2 * zD /\ u = 2 * uD
      <4>1. (a * 2) * (g * D) = 2 * ((g * a) * D) /\ (l * 2) * (g * D) = 2 * ((g * l) * D)
        OBVIOUS
      <4> QED BY <2>4, <3>1, <4>1
    <3> HIDE DEF rv, u
    <3>3. Y < 2 * zD
      <4>1. d * i + d <= 2 * (h * g)
        <5>1. 2 * (h * g) = d * (4 * (j * n))
          <6>1. 2 * (h * g) = 2 * (n * (g * l))
            BY <1>2
          <6>2. 2 * (n * (2 * (d * j))) = d * (4 * (j * n))
            OBVIOUS
          <6> QED BY <1>12, <6>1, <6>2
        <5>2. PICK k \in Nat : k = 4 * (j * n) /\ 2 * (h * g) = d * k
          BY <5>1
        <5>3. d * i < d * k
          BY <1>3, <1>13, <5>2
        <5> QED BY <5>2, <5>3, Step
      <4>2. (d * i + d) * D <= (2 * (h * g)) * D
        <5>1. d * i + d \in Nat /\ 2 * (h * g) \in Nat
          OBVIOUS
        <5> QED BY <4>1, <5>1, TimesGrows
      <4>3. (2 * (h * g)) * D <= (2 * (g * a)) * D
        <5>1. h * g <= a * g
          BY <1>9, TimesGrows
        <5>2. 2 * (h * g) <= 2 * (g * a) /\ 2 * (h * g) \in Nat /\ 2 * (g * a) \in Nat
          BY <5>1
        <5> QED BY <5>2, TimesGrows
      <4>4. (2 * (g * a)) * D = 2 * ((g * a) * D)
        OBVIOUS
      <4>5. PICK t1 \in Nat, t2 \in Nat : t1 = (d * i + d) * D /\ t2 = (2 * (h * g)) * D
        OBVIOUS
      <4>6. Y < t1
        BY <1>13, <4>5
      <4> QED BY <2>4, <4>2, <4>3, <4>4, <4>5, <4>6
    <3>4. 2 * (2 * zD - Y) <= 2 * uD
      <4>1. 2 * z <= sum /\ sum = e + half
        <5>1. (2 * g) * a = 2 * (g * a)
          OBVIOUS
        <5> QED BY <1>2, <1>11, <1>13, <2>4, <3>1, <5>1
      <4>2. (2 * z) * D <= (e + half) * D
        BY <4>1, TimesGrows
      <4>3. (2 * z) * D = 2 * (z * D) /\ (e + half) * D = e * D + half * D
            /\ 2 * (half * D) = (2 * half) * D
        OBVIOUS
      <4>4. PICK t1 \in Nat, t2 \in Nat : t1 = e * D /\ t2 = half * D
        OBVIOUS
      <4>5. 2 * t2 = uD
        BY <1>2, <2>4, <4>3, <4>4
      <4>6. t1 <= Y
        BY <1>13, <4>4
      <4>7. 2 * zD <= t1 + t2
        BY <2>4, <4>2, <4>3, <4>4
      <4> QED BY <4>5, <4>6, <4>7
    <3> QED BY <3>1, <3>2, <3>3, <3>4 DEF F!Rounds
  <2> QED BY <2>6, <2>7
<1>15. PacksAs(o, m, s, exp, P, p)
  <2>1. o = IF exp + P > F!MaxExp THEN F!Excepted(p, TRUE, "OVFLO", m)
            ELSE IF F!Underflows(exp + P) THEN F!Excepted(p, FALSE, "UNFLO", m)
            ELSE F!Outcome(p, FALSE, "")
    BY <1>1, <1>6, Zenon
  <2>2. v.e = (exp + P) % F!Power[ExpBits]
    BY <1>6, <1>8
  <2>3. v.s = s /\ F!Fraction(v) \in Nat
    BY <1>8
  <2> QED BY <1>6, <2>1, <2>2, <2>3, Zenon DEF PacksAs, v
<1>16. F!Rounds((F!Fraction(F!to_fac(p, m)) * F!Power[P]) * (F!Power[Guard] * D),
                (LastPlace(m) * F!Power[P]) * (F!Power[Guard] * D), Y, ~(round /\ ~m.t))
  <2>1. /\ F!Fraction(F!to_fac(p, m)) = a /\ F!Power[P] = c /\ F!Power[Guard] = g
        /\ LastPlace(m) = l
    BY <1>2, <1>9 DEF v
  <2> HIDE DEF c
  <2> QED BY <1>14, <2>1, Zenon
<1> QED BY <1>6, <1>15, <1>16, Zenon DEF o
\* The exponent a posted overflow or underflow has wrapped, and a result that was not
\* posted.
UnwrappedIn(o, m) ==
  LET e == F!to_fac(o.v, m).e
  IN  IF o.code = "OVFLO" THEN e + F!Power[ExpBits]
      ELSE IF o.code = "UNFLO" /\ e # 0 THEN e - F!Power[ExpBits] ELSE e
Lost(o, m) == F!to_fac(o.v, m) = F!Zero /\ o.code = ""

\* One wrap brings the exponent of a packed value back, as far as it can be out of range.
LEMMA Unwraps ==
  ASSUME NEW o, NEW m, NEW s, NEW exp \in Int, NEW k, NEW p, PacksAs(o, m, s, exp, k, p),
         1 - 2 * F!Bias <= exp, exp <= 4 * F!Bias - 2
  PROVE  \/ Lost(o, m) /\ (exp <= 0 \/ exp >= F!MaxExp)
         \/ ~Lost(o, m) /\ UnwrappedIn(o, m) = exp + k /\ o.v = p
<1> DEFINE ex == exp + k
<1>1. PICK n \in Nat \ {0} : n = F!Power[ExpBits] /\ F!MaxExp = n - 1 /\ n = 2 * F!Bias
  BY Ranges
<1>2. k \in {0, 1} /\ F!to_fac(p, m).e = ex % n
  BY <1>1 DEF PacksAs
<1>3. ex \in Int /\ 1 - n <= ex /\ ex <= 2 * n - 1
  BY <1>1, <1>2, Ranges
<1>4. o = IF ex > n - 1 THEN F!Excepted(p, TRUE, "OVFLO", m)
          ELSE IF F!Underflows(ex) THEN F!Excepted(p, FALSE, "UNFLO", m)
          ELSE F!Outcome(p, FALSE, "")
  BY <1>1, Zenon DEF PacksAs
<1>5. F!to_fac(F!Zero, m) = F!Zero /\ F!Zero.e = 0
  BY ZeroStays DEF F!Zero
<1> HIDE DEF ex
<1>6. CASE ex > n - 1
  <2>1. ex % n = ex - n
    <3>1. ex \in n .. 2 * n - 1
      BY <1>3, <1>6
    <3> QED BY <1>3, <3>1, ModNear
  <2>2. o = F!Excepted(p, TRUE, "OVFLO", m)
    BY <1>4, <1>6, Zenon
  <2>3. CASE "OVFLO" \in m.enable
    <3>1. o.v = p /\ o.code = "OVFLO"
      BY <2>2, <2>3 DEF F!Excepted, F!Outcome
    <3>2. UnwrappedIn(o, m) = (ex - n) + n
      BY <1>1, <1>2, <2>1, <3>1 DEF UnwrappedIn
    <3>3. ~Lost(o, m)
      BY <3>1 DEF Lost
    <3>4. (ex - n) + n = ex
      BY <1>3
    <3> QED BY <3>1, <3>2, <3>3, <3>4 DEF ex
  <2>4. CASE "OVFLO" \notin m.enable
    <3>1. o.v = F!Zero /\ o.code = ""
      BY <2>2, <2>4 DEF F!Excepted, F!Outcome
    <3>2. Lost(o, m)
      BY <1>5, <3>1 DEF Lost
    <3>3. exp >= F!MaxExp
      BY <1>1, <1>2, <1>6 DEF ex
    <3> QED BY <3>2, <3>3
  <2> QED BY <2>3, <2>4
<1>7. CASE ~(ex > n - 1) /\ F!Underflows(ex)
  <2>1. ex <= 0
    BY <1>7 DEF F!Underflows
  <2>2. o = F!Excepted(p, FALSE, "UNFLO", m)
    BY <1>4, <1>7, Zenon
  <2>3. CASE "UNFLO" \in m.enable
    <3>1. o.v = p /\ o.code = "UNFLO"
      BY <2>2, <2>3 DEF F!Excepted, F!Outcome
    <3>2. ~Lost(o, m)
      BY <3>1 DEF Lost
    <3>3. UnwrappedIn(o, m) = ex
      <4>1. CASE ex = 0
        <5>1. ex % n = 0
          BY <4>1, ModNear
        <5> QED BY <1>2, <3>1, <4>1, <5>1 DEF UnwrappedIn
      <4>2. CASE ex # 0
        <5>1. ex % n = ex + n /\ ex + n # 0
          <6>1. ex \in -n .. -1 /\ ex + n # 0
            BY <1>3, <2>1, <4>2
          <6> QED BY <1>3, <6>1, ModNear
        <5>2. UnwrappedIn(o, m) = (ex + n) - n
          BY <1>1, <1>2, <3>1, <5>1 DEF UnwrappedIn
        <5> QED BY <1>3, <5>2
      <4> QED BY <4>1, <4>2
    <3> QED BY <3>1, <3>2, <3>3 DEF ex
  <2>4. CASE "UNFLO" \notin m.enable
    <3>1. o.v = F!Zero /\ o.code = ""
      BY <2>2, <2>4 DEF F!Excepted, F!Outcome
    <3>2. Lost(o, m)
      BY <1>5, <3>1 DEF Lost
    <3>3. exp <= 0
      BY <1>2, <2>1 DEF ex
    <3> QED BY <3>2, <3>3
  <2> QED BY <2>3, <2>4
<1>8. CASE ~(ex > n - 1) /\ ~F!Underflows(ex)
  <2>1. ex \in 1 .. n - 1 /\ ex % n = ex
    <3>1. ex \in 1 .. n - 1
      BY <1>3, <1>8 DEF F!Underflows
    <3> QED BY <1>3, <3>1, ModNear
  <2>2. o = F!Outcome(p, FALSE, "")
    BY <1>4, <1>8, Zenon
  <2>3. o.v = p /\ o.code = ""
    BY <2>2 DEF F!Outcome
  <2>4. F!to_fac(o.v, m).e = ex /\ ex # 0
    <3>1. ex # 0
      BY <2>1
    <3>2. F!to_fac(o.v, m).e = ex
      BY <1>2, <2>1, <2>3, Zenon
    <3> QED BY <3>1, <3>2
  <2>5. UnwrappedIn(o, m) = ex /\ ~Lost(o, m)
    BY <1>5, <2>3, <2>4 DEF UnwrappedIn, Lost
  <2> QED BY <2>3, <2>5 DEF ex
<1> QED BY <1>6, <1>7, <1>8

\* o is num/den * Power[exp - Bias] rounded, or cut off when t, and has sign s; or zero,
\* where that leaves the exponent range and the exception is not enabled.
RoundedAs(o, m, s, num, den, exp, t) ==
  LET v == F!to_fac(o.v, m)
      k == UnwrappedIn(o, m) - exp
  IN  \/ Lost(o, m) /\ (exp <= 0 \/ exp >= F!MaxExp)
      \/ /\ ~Lost(o, m) /\ k \in {0, 1} /\ v.s = s
         /\ F!Rounds(F!Fraction(v) * F!Power[k] * den, LastPlace(m) * F!Power[k] * den,
                     num * F!Power[DoubleBits], t)

\* A guarded fraction short of num/den by less than d, packed with the exponent exp.
Packing(m, exp, frac, round, d, i, j, num, den, t) ==
  /\ m.t \in BOOLEAN /\ round \in BOOLEAN /\ t \in BOOLEAN /\ (t <=> ~(round /\ ~m.t))
  /\ exp \in 1 - 2 * F!Bias .. 4 * F!Bias - 2 /\ den \in Nat \ {0} /\ num \in Nat
  /\ Below(m, frac, d, i, j, den, (num * F!Power[DoubleBits]) * F!Power[Guard])

\* It is packed as num/den rounded.
LEMMA PackRoundsAs ==
  ASSUME NEW m, NEW s, NEW exp, NEW frac, NEW round, NEW d, NEW i, NEW j, NEW num, NEW den,
         NEW t, Packing(m, exp, frac, round, d, i, j, num, den, t)
  PROVE  RoundedAs(F!round_and_pack(s, exp, frac, round, m), m, s, num, den, exp, t)
<1>p. /\ m.t \in BOOLEAN /\ round \in BOOLEAN /\ t \in BOOLEAN /\ (t <=> ~(round /\ ~m.t))
      /\ exp \in 1 - 2 * F!Bias .. 4 * F!Bias - 2 /\ den \in Nat \ {0} /\ num \in Nat
      /\ Below(m, frac, d, i, j, den, (num * F!Power[DoubleBits]) * F!Power[Guard])
  BY Zenon DEF Packing
<1> USE <1>p
<1> DEFINE o == F!round_and_pack(s, exp, frac, round, m)
<1>0. exp \in Int /\ 1 - 2 * F!Bias <= exp /\ exp <= 4 * F!Bias - 2
  BY Ranges
<1>1. PICK g \in Nat \ {0}, b \in Nat : g = F!Power[Guard] /\ b = F!Power[DoubleBits]
  BY GuardedHidden, Ranges
<1>2. PICK x \in Nat, Y \in Nat : x = num * b /\ Y = x * g
  <2>1. num * b \in Nat /\ (num * b) * g \in Nat
    OBVIOUS
  <2> QED BY <2>1
<1>3. Below(m, frac, d, i, j, den, Y)
  BY <1>1, <1>2, Zenon
<1>4. PICK k, p :
           /\ PacksAs(o, m, s, exp, k, p)
           /\ F!Rounds((F!Fraction(F!to_fac(p, m)) * F!Power[k]) * (F!Power[Guard] * den),
                       (LastPlace(m) * F!Power[k]) * (F!Power[Guard] * den), Y, t)
  BY <1>0, <1>3, PackRounds
<1>11. k \in {0, 1}
  BY <1>4, Zenon DEF PacksAs
<1> HIDE DEF o
<1>5. PICK a \in Nat, l \in Nat, c \in Nat :
           a = F!Fraction(F!to_fac(p, m)) /\ l = LastPlace(m) /\ c = F!Power[k]
  <2>1. F!Fraction(F!to_fac(p, m)) \in Nat
    BY <1>4 DEF PacksAs
  <2>2. LastPlace(m) \in Nat /\ F!Power[k] \in Nat
    <3>1. k \in Nat
      BY <1>11
    <3> QED BY <3>1, Places, FpPowerSteps
  <2> QED BY <2>1, <2>2
<1>6. F!Rounds((a * c) * den, (l * c) * den, x, t)
  <2>1. F!Rounds((a * c) * (g * den), (l * c) * (g * den), x * g, t)
    BY <1>1, <1>2, <1>4, <1>5, Zenon
  <2>2. /\ (a * c) * (g * den) = ((a * c) * den) * g
        /\ (l * c) * (g * den) = ((l * c) * den) * g
    OBVIOUS
  <2>3. (a * c) * den \in Nat /\ (l * c) * den \in Nat
    OBVIOUS
  <2>4. F!Rounds(((a * c) * den) * g, ((l * c) * den) * g, x * g, t)
    BY <2>1, <2>2, Zenon
  <2> QED BY <2>3, <2>4, RoundsScaled
<1>7. F!Rounds(F!Fraction(F!to_fac(p, m)) * F!Power[k] * den, LastPlace(m) * F!Power[k] * den,
               num * F!Power[DoubleBits], t)
  BY <1>1, <1>2, <1>5, <1>6, Zenon
<1>8. \/ Lost(o, m) /\ (exp <= 0 \/ exp >= F!MaxExp)
      \/ ~Lost(o, m) /\ UnwrappedIn(o, m) = exp + k /\ o.v = p
  BY <1>0, <1>4, Unwraps
<1>9. CASE Lost(o, m) /\ (exp <= 0 \/ exp >= F!MaxExp)
  <2>1. RoundedAs(o, m, s, num, den, exp, t)
    BY <1>9, Zenon DEF RoundedAs
  <2> QED BY <2>1 DEF o
<1>10. CASE ~Lost(o, m) /\ UnwrappedIn(o, m) = exp + k /\ o.v = p
  <2>1. UnwrappedIn(o, m) - exp = k /\ k \in {0, 1}
    BY <1>0, <1>10, <1>11
  <2>2. F!to_fac(o.v, m).s = s
    BY <1>4, <1>10 DEF PacksAs
  <2>3. RoundedAs(o, m, s, num, den, exp, t)
    BY <1>7, <1>10, <2>1, <2>2, Zenon DEF RoundedAs
  <2> QED BY <2>3 DEF o
<1> QED BY <1>8, <1>9, <1>10
-----------------------------------------------------------------------------
(* Products and quotients.                                                  *)

\* Half a guarded last place is an even number of last places.
LEMMA HalfEven ==
  ASSUME NEW m
  PROVE  \E j \in Nat : Half(m) = (2 * LastPlace(m)) * j
<1>1. PICK n \in Nat : Guard = n + 2
  <2>1. Guard - 2 \in Nat /\ Guard = (Guard - 2) + 2
    BY FpWidths DEF F!WidthAssumption
  <2> QED BY <2>1
<1>2. PICK j \in Nat : j = F!Power[n]
  BY FpPowerSteps
<1>3. F!Power[Guard] = 2 * (2 * j)
  <2>1. n + 1 \in Nat /\ (n + 1) + 1 = Guard
    BY <1>1
  <2>2. F!Power[n + 1] = 2 * j /\ F!Power[(n + 1) + 1] = 2 * F!Power[n + 1]
    BY <1>2, <2>1, FpPowerSteps
  <2> QED BY <2>1, <2>2
<1>4. PICK l \in Nat, h \in Nat : l = LastPlace(m) /\ h = Half(m) /\ 2 * h = (2 * (2 * j)) * l
  BY <1>3, Places
<1>5. (2 * (2 * j)) * l = 2 * ((2 * l) * j) /\ (2 * l) * j \in Nat
  OBVIOUS
<1>6. h = (2 * l) * j
  BY <1>4, <1>5
<1> QED BY <1>4, <1>6

\* The normalised product is within d, one or two units, below the exact one.
ProductNear(frac, num, den, d) ==
  /\ d \in {1, 2} /\ num \in Nat /\ den \in Nat \ {0} /\ den = F!Power[2 * DoubleBits]
  /\ \E i \in Nat : frac = d * i
  /\ frac * den <= (num * F!Power[DoubleBits]) * F!Power[Guard]
  /\ (num * F!Power[DoubleBits]) * F!Power[Guard] < (frac + d) * den

\* fp.c, frac_mulfp11 and the normalisation that follows it.
LEMMA ProductRounds ==
  ASSUME NEW a \in F!Value, NEW b \in F!Value
  PROVE  LET p == F!Product(a, b)
             x == F!ProductOf(a, b)
         IN  p.exp = x.exp /\ \E d : ProductNear(p.frac, x.num, x.den, d)
<1> DEFINE q == (F!Fraction(a) * F!Fraction(b) * F!Power[Guard]) \div F!Power[DoubleBits]
           exp == a.e + b.e - F!Bias
           full == F!Power[2 * DoubleBits]
           prod == F!Fraction(a) * F!Fraction(b)
<1>1. PICK h \in Nat \ {0}, g \in Nat \ {0}, two \in Nat \ {0} :
           /\ h = F!Hidden /\ g = F!Power[Guard] /\ F!One = h * g
           /\ F!Power[DoubleBits] = two /\ two = 2 * h
  BY Ranges, GuardedHidden
<1>2. PICK n \in Nat : n = prod
  BY ValueFields, Ranges
<1>3. full = two * two
  <2>1. DoubleBits \in Nat /\ 2 * DoubleBits = DoubleBits + DoubleBits
    BY FpWidths DEF F!WidthAssumption
  <2>2. F!Power[DoubleBits + DoubleBits] = two * two
    BY <1>1, <2>1, FpPowerOfSum
  <2> QED BY <2>1, <2>2
<1>4. PICK f \in Nat, rv \in 0 .. two - 1 : f = q /\ n * g = two * f + rv
  <2>1. PICK z \in Nat : z = n * g
    OBVIOUS
  <2>2. \E f \in Nat, rv \in 0 .. two - 1 : f = z \div two /\ rv = z % two /\ z = two * f + rv
    BY DivMod, Zenon
  <2> QED BY <1>1, <1>2, <2>1, <2>2
<1>5. /\ f * (two * two) <= (n * two) * g
      /\ (n * two) * g < (f + 1) * (two * two)
  <2>1. PICK u \in Nat : u = two * f
    OBVIOUS
  <2>2. u <= n * g /\ n * g + 1 <= u + two /\ n * g \in Nat
    BY <1>4, <2>1
  <2>3. PICK z \in Nat : z = n * g
    OBVIOUS
  <2>4. u * two <= z * two /\ (z + 1) * two <= (u + two) * two
    BY <2>2, <2>3, TimesGrows
  <2>5. /\ u * two = f * (two * two) /\ z * two = (n * two) * g
        /\ (u + two) * two = (f + 1) * (two * two) /\ (z + 1) * two = z * two + two
    BY <2>1, <2>3
  <2> QED BY <2>4, <2>5
<1>6. PICK t \in Nat \ {0} : t = two * two
  OBVIOUS
<1>7. /\ F!Product(a, b) = IF q < F!One THEN [exp |-> exp - 1, frac |-> 2 * q]
                           ELSE [exp |-> exp, frac |-> q]
      /\ F!ProductOf(a, b) = IF 2 * prod < full
                             THEN [num |-> 2 * prod, den |-> full, exp |-> exp - 1]
                             ELSE [num |-> prod, den |-> full, exp |-> exp]
  <2>1. F!Product(a, b) = IF q < F!One THEN [exp |-> exp - 1, frac |-> 2 * q]
                          ELSE [exp |-> exp, frac |-> q]
    BY Zenon DEF F!Product
  <2>2. F!ProductOf(a, b) = IF 2 * prod < full
                            THEN [num |-> 2 * prod, den |-> full,
                                  exp |-> a.e + b.e - F!Bias - 1]
                            ELSE [num |-> prod, den |-> full, exp |-> exp]
    BY Zenon DEF F!ProductOf
  <2>3. a.e + b.e - F!Bias - 1 = exp - 1
    BY ValueFields, Ranges
  <2> QED BY <2>1, <2>2, <2>3, Zenon
<1>8. q < F!One <=> 2 * prod < full
  <2>1. PICK y \in Nat, v \in Nat, o \in Nat :
             y = n * g /\ v = two * f /\ o = h * g
    OBVIOUS
  <2>2. two * o = (2 * (h * h)) * g /\ t = 4 * (h * h)
    BY <1>1, <1>6, <2>1
  <2>3. PICK hh \in Nat : hh = h * h
    OBVIOUS
  <2>4. two * o = (2 * hh) * g /\ t = 4 * hh
    BY <2>2, <2>3
  <2>5. CASE f < o
    <3>1. (f + 1) * two <= o * two
      BY <2>5, TimesGrows
    <3>2. (f + 1) * two = two * f + two /\ o * two = two * o
      OBVIOUS
    <3>3. y < two * o
      <4>1. v + two <= two * o
        BY <2>1, <3>1, <3>2
      <4>2. y < v + two
        BY <1>4, <2>1
      <4>3. PICK z \in Nat : z = two * o
        OBVIOUS
      <4> QED BY <4>1, <4>2, <4>3
    <3>4. n < 2 * hh
      <4> SUFFICES ASSUME 2 * hh <= n PROVE FALSE
        OBVIOUS
      <4>1. (2 * hh) * g <= n * g
        BY TimesGrows
      <4> QED BY <2>1, <2>4, <3>3, <4>1
    <3> QED BY <1>1, <1>2, <1>3, <1>4, <1>6, <2>1, <2>4, <2>5, <3>4
  <2>6. CASE ~(f < o)
    <3>1. o * two <= f * two
      BY <2>6, TimesGrows
    <3>2. f * two = two * f /\ o * two = two * o
      OBVIOUS
    <3>3. two * o <= y
      BY <1>4, <2>1, <3>1, <3>2
    <3>4. 2 * hh <= n
      <4> SUFFICES ASSUME n < 2 * hh PROVE FALSE
        OBVIOUS
      <4>1. (n + 1) * g <= (2 * hh) * g
        BY TimesGrows
      <4>2. (n + 1) * g = n * g + g
        OBVIOUS
      <4> QED BY <2>1, <2>4, <3>3, <4>1, <4>2
    <3> QED BY <1>1, <1>2, <1>3, <1>4, <1>6, <2>1, <2>4, <2>6, <3>4
  <2> QED BY <2>5, <2>6
<1> HIDE DEF q, exp, full, prod
<1>9. CASE q < F!One
  <2>1. /\ F!Product(a, b).exp = exp - 1 /\ F!Product(a, b).frac = 2 * f
        /\ F!ProductOf(a, b).exp = exp - 1 /\ F!ProductOf(a, b).num = 2 * n
        /\ F!ProductOf(a, b).den = full
    BY <1>2, <1>4, <1>7, <1>8, <1>9
  <2>2. PICK c \in Nat, d \in Nat : c = 2 * f /\ d = 2 * n
    OBVIOUS
  <2>3. c * t <= (d * two) * g /\ (d * two) * g < (c + 2) * t
    <3>1. PICK lo \in Nat, z \in Nat, hi \in Nat :
               lo = f * t /\ z = (n * two) * g /\ hi = (f + 1) * t /\ lo <= z /\ z < hi
      BY <1>5, <1>6
    <3>2. (2 * f) * t = 2 * (f * t) /\ ((2 * n) * two) * g = 2 * ((n * two) * g)
          /\ (2 * f + 2) * t = 2 * ((f + 1) * t)
      OBVIOUS
    <3> QED BY <2>2, <3>1, <3>2
  <2>4. ProductNear(c, d, full, 2)
    <3>1. full = t /\ full \in Nat \ {0}
      BY <1>3, <1>6
    <3>2. \E i \in Nat : c = 2 * i
      BY <2>2
    <3> QED BY <1>1, <2>2, <2>3, <3>1, <3>2 DEF ProductNear, full
  <2> QED BY <2>1, <2>2, <2>4
<1>10. CASE ~(q < F!One)
  <2>1. /\ F!Product(a, b).exp = exp /\ F!Product(a, b).frac = f
        /\ F!ProductOf(a, b).exp = exp /\ F!ProductOf(a, b).num = n
        /\ F!ProductOf(a, b).den = full
    BY <1>2, <1>4, <1>7, <1>8, <1>10
  <2>2. ProductNear(f, n, full, 1)
    <3>1. full = t /\ full \in Nat \ {0}
      BY <1>3, <1>6
    <3>2. f = 1 * f
      OBVIOUS
    <3> QED BY <1>1, <1>5, <1>6, <3>1, <3>2 DEF ProductNear, full
  <2> QED BY <2>1, <2>2
<1> QED BY <1>9, <1>10
\* fp.c, round_and_pack after frac_mulfp11: the product is rounded, or cut off.
Cuts(m, round, t) ==
  m.t \in BOOLEAN /\ round \in BOOLEAN /\ t \in BOOLEAN /\ (t <=> ~(round /\ ~m.t))

\* Packing what mulfp11 hands on rounds the exact product.
LEMMA PackProduct ==
  ASSUME NEW m, NEW s, NEW a \in F!Value, NEW b \in F!Value, NEW round, NEW t,
         Cuts(m, round, t)
  PROVE  LET p == F!Product(a, b)
             x == F!ProductOf(a, b)
         IN  RoundedAs(F!round_and_pack(s, p.exp, p.frac, round, m), m, s, x.num, x.den, x.exp, t)
<1> DEFINE p == F!Product(a, b)
           x == F!ProductOf(a, b)
<1>c. m.t \in BOOLEAN /\ round \in BOOLEAN /\ t \in BOOLEAN /\ (t <=> ~(round /\ ~m.t))
  BY Zenon DEF Cuts
<1> USE <1>c
<1>1. p.exp = x.exp /\ \E d : ProductNear(p.frac, x.num, x.den, d)
  BY ProductRounds, Zenon
<1>2. PICK d : ProductNear(p.frac, x.num, x.den, d)
  BY <1>1
<1>3. p.frac \in F!One .. 2 * F!One - 1 /\ p.exp \in Int
  BY ProductFits, Zenon
<1>4. 1 - 2 * F!Bias <= p.exp /\ p.exp <= 4 * F!Bias - 2
  <2>1. p.exp \in {a.e + b.e - F!Bias - 1, a.e + b.e - F!Bias}
    <3>1. p = LET q == (F!Fraction(a) * F!Fraction(b) * F!Power[Guard]) \div F!Power[DoubleBits]
                  exp == a.e + b.e - F!Bias
              IN  IF q < F!One THEN [exp |-> exp - 1, frac |-> 2 * q]
                  ELSE [exp |-> exp, frac |-> q]
      BY Zenon DEF F!Product
    <3>2. p.exp \in {(a.e + b.e - F!Bias) - 1, a.e + b.e - F!Bias}
      BY <3>1
    <3>3. (a.e + b.e - F!Bias) - 1 = a.e + b.e - F!Bias - 1
      BY ValueFields, Ranges
    <3> QED BY <3>2, <3>3
  <2>2. F!Bias >= 2
    BY FpWidths, Ranges DEF F!WidthAssumption
  <2>3. a.e \in Nat /\ b.e \in Nat /\ a.e <= 2 * F!Bias - 1 /\ b.e <= 2 * F!Bias - 1
    BY ValueFields, Ranges
  <2> HIDE DEF p
  <2> QED BY <2>1, <2>2, <2>3, Ranges
<1>5. \E i, j : Below(m, p.frac, d, i, j, x.den,
                      (x.num * F!Power[DoubleBits]) * F!Power[Guard])
  <2> HIDE DEF p, x
  <2>1. PICK i \in Nat : p.frac = d * i
    BY <1>2 DEF ProductNear
  <2>2. \E j \in Nat : Half(m) = d * j
    <3>1. PICK l \in Nat, k \in Nat, half \in Nat :
               l = LastPlace(m) /\ half = Half(m) /\ half = (2 * l) * k
      BY HalfEven, Places
    <3>2. half = 2 * (l * k) /\ half = 1 * half /\ l * k \in Nat
      BY <3>1
    <3> QED BY <1>2, <3>1, <3>2 DEF ProductNear
  <2>3. PICK j \in Nat : Half(m) = d * j
    BY <2>2
  <2>4. /\ x.den \in Nat \ {0} /\ d \in Nat
        /\ p.frac * x.den <= (x.num * F!Power[DoubleBits]) * F!Power[Guard]
        /\ (x.num * F!Power[DoubleBits]) * F!Power[Guard] < (p.frac + d) * x.den
    BY <1>2 DEF ProductNear
  <2>5. (x.num * F!Power[DoubleBits]) * F!Power[Guard] \in Nat
    <3>1. PICK n \in Nat, u \in Nat, g \in Nat :
               n = x.num /\ u = F!Power[DoubleBits] /\ g = F!Power[Guard]
      <4>1. x.num \in Nat /\ F!Power[DoubleBits] \in Nat /\ F!Power[Guard] \in Nat
        BY <1>2, GuardedHidden, Ranges DEF ProductNear
      <4> QED BY <4>1
    <3>2. (n * u) * g \in Nat
      OBVIOUS
    <3> QED BY <3>1, <3>2
  <2> QED BY <1>3, <2>1, <2>3, <2>4, <2>5, Zenon DEF Below
<1>6. PICK i, j : Below(m, p.frac, d, i, j, x.den,
                        (x.num * F!Power[DoubleBits]) * F!Power[Guard])
  BY <1>5
<1>7. x.den \in Nat \ {0} /\ x.num \in Nat
  BY <1>2 DEF ProductNear
<1> HIDE DEF p, x
<1>8. PICK frac \in F!One .. 2 * F!One - 1, den \in Nat \ {0}, num \in Nat,
           exp \in 1 - 2 * F!Bias .. 4 * F!Bias - 2 :
           frac = p.frac /\ den = x.den /\ num = x.num /\ exp = p.exp
  BY <1>3, <1>4, <1>7, Ranges
<1>9. RoundedAs(F!round_and_pack(s, exp, frac, round, m), m, s, num, den, exp, t)
  <2>1. Below(m, frac, d, i, j, den, (num * F!Power[DoubleBits]) * F!Power[Guard])
    BY <1>6, <1>8, Zenon
  <2>2. Packing(m, exp, frac, round, d, i, j, num, den, t)
    BY <2>1, Zenon DEF Packing
  <2> QED BY <2>2, PackRoundsAs, Zenon
<1>10. RoundedAs(F!round_and_pack(s, p.exp, p.frac, round, m), m, s, x.num, x.den, x.exp, t)
  BY <1>1, <1>8, <1>9, Zenon
<1> QED BY <1>10 DEF p, x
\* One turn of the division loop, the loop, and what holds after n turns of x by d.
DivTurn(t, d, n) ==
  IF t.rem = 0 THEN t
  ELSE [quo |-> 2 * t.quo + (IF t.rem >= d THEN 1 ELSE 0),
        rem |-> 2 * (IF t.rem >= d THEN t.rem - d ELSE t.rem),
        turns |-> n]
LongDivides(f, x, d, count) ==
  f = [n \in 0 .. count |-> IF n = 0 THEN [quo |-> 0, rem |-> x, turns |-> 0]
                            ELSE DivTurn(f[n - 1], d, n)]
DivLoop(x, d, count) == CHOOSE f : LongDivides(f, x, d, count)
Divided(t, x, d, n) ==
  /\ t.quo \in Nat /\ t.rem \in Nat /\ t.turns \in Nat
  /\ t.turns <= n /\ (t.rem # 0 => t.turns = n)
  /\ F!Power[t.turns] * x = (2 * d) * t.quo + t.rem /\ t.rem < 2 * d

\* The turns of divfp11's loop, as a function of their number.
LEMMA DividesExist ==
  ASSUME NEW x, NEW d, NEW n \in Nat
  PROVE  \E f : LongDivides(f, x, d, n)
<1> DEFINE T == {m \in Nat : \E f : LongDivides(f, x, d, m)}
           z == [quo |-> 0, rem |-> x, turns |-> 0]
<1>1. 0 \in T
  <2> DEFINE f == [k \in 0 .. 0 |-> z]
  <2>1. LongDivides(f, x, d, 0)
    BY DEF LongDivides
  <2> QED BY <2>1
<1>2. ASSUME NEW m \in Nat, m \in T
      PROVE  m + 1 \in T
  <2>1. PICK f : LongDivides(f, x, d, m)
    BY <1>2
  <2> DEFINE g == [k \in 0 .. m + 1 |-> IF k = m + 1 THEN DivTurn(f[m], d, k) ELSE f[k]]
  <2>3. ASSUME NEW k \in 0 .. m + 1
        PROVE  g[k] = IF k = 0 THEN z ELSE DivTurn(g[k - 1], d, k)
    <3>1. CASE k = m + 1
      BY <3>1
    <3>2. CASE k = 0
      BY <2>1, <3>2 DEF LongDivides
    <3>3. CASE k # m + 1 /\ k # 0
      <4>1. k \in 0 .. m /\ k - 1 \in 0 .. m /\ k - 1 # m + 1
        BY <3>3
      <4>2. f[k] = DivTurn(f[k - 1], d, k)
        BY <2>1, <3>3, <4>1 DEF LongDivides
      <4> QED BY <3>3, <4>1, <4>2
    <3> QED BY <3>1, <3>2, <3>3
  <2> HIDE DEF g
  <2>4. LongDivides(g, x, d, m + 1)
    <3>1. g = [k \in 0 .. m + 1 |-> g[k]]
      BY DEF g
    <3> QED BY <2>3, <3>1 DEF LongDivides
  <2>5. m + 1 \in Nat
    OBVIOUS
  <2> QED BY <2>4, <2>5, Zenon DEF T
<1> HIDE DEF T
<1>3. n \in T
  BY <1>1, <1>2, NatSetInduction
<1> QED BY <1>3 DEF T

\* A turn of the loop keeps what the quotient and the remainder add up to.
LEMMA TurnDivides ==
  ASSUME NEW x \in Nat, NEW d \in Nat \ {0}, NEW n \in Nat, NEW t, Divided(t, x, d, n)
  PROVE  Divided(DivTurn(t, d, n + 1), x, d, n + 1)
<1>1. PICK quo \in Nat, rem \in Nat, turns \in Nat :
           /\ quo = t.quo /\ rem = t.rem /\ turns = t.turns
           /\ turns <= n /\ (rem # 0 => turns = n) /\ rem < 2 * d
           /\ F!Power[turns] * x = (2 * d) * quo + rem
  BY DEF Divided
<1>2. CASE rem = 0
  <2>1. DivTurn(t, d, n + 1) = t
    BY <1>1, <1>2 DEF DivTurn
  <2>2. turns <= n + 1
    BY <1>1
  <2>3. Divided(t, x, d, n + 1)
    BY <1>1, <1>2, <2>2 DEF Divided
  <2> QED BY <2>1, <2>3
<1>3. CASE rem # 0
  <2>1. PICK b \in 0 .. 1, rv \in Nat :
             /\ b = (IF rem >= d THEN 1 ELSE 0) /\ rv = (IF rem >= d THEN rem - d ELSE rem)
             /\ rem = d * b + rv /\ rv < d
    BY <1>1
  <2>2. DivTurn(t, d, n + 1) = [quo |-> 2 * quo + b, rem |-> 2 * rv, turns |-> n + 1]
    BY <1>1, <1>3, <2>1 DEF DivTurn
  <2>3. PICK p \in Nat : p = F!Power[n] /\ F!Power[n + 1] = 2 * p
    BY FpPowerSteps
  <2>4. (2 * p) * x = (2 * d) * (2 * quo + b) + 2 * rv
    <3>1. p * x = (2 * d) * quo + (d * b + rv)
      BY <1>1, <1>3, <2>1, <2>3
    <3>2. (2 * p) * x = 2 * (p * x)
      OBVIOUS
    <3>3. (2 * d) * (2 * quo + b) = 2 * ((2 * d) * quo) + 2 * (d * b)
      OBVIOUS
    <3>4. PICK u \in Nat, v \in Nat, w \in Nat : u = p * x /\ v = (2 * d) * quo /\ w = d * b
      OBVIOUS
    <3> QED BY <3>1, <3>2, <3>3, <3>4
  <2>5. 2 * quo + b \in Nat /\ 2 * rv \in Nat /\ n + 1 \in Nat /\ 2 * rv < 2 * d
    BY <2>1
  <2> QED BY <2>2, <2>3, <2>4, <2>5 DEF Divided
<1> QED BY <1>2, <1>3

\* After all its turns: the quotient, with the last remainder.
LEMMA LoopDivides ==
  ASSUME NEW x \in Nat, NEW d \in Nat \ {0}, x < 2 * d, NEW count \in Nat
  PROVE  Divided(DivLoop(x, d, count)[count], x, d, count)
<1> DEFINE f == DivLoop(x, d, count)
<1>1. LongDivides(f, x, d, count)
  BY DividesExist, Zenon DEF DivLoop
<1> HIDE DEF f
<1>2. f = [n \in 0 .. count |-> IF n = 0 THEN [quo |-> 0, rem |-> x, turns |-> 0]
                                ELSE DivTurn(f[n - 1], d, n)]
  BY <1>1, Zenon DEF LongDivides
<1> DEFINE T == {n \in Nat : n <= count => Divided(f[n], x, d, n)}
<1>3. 0 \in T
  <2>1. f[0] = [quo |-> 0, rem |-> x, turns |-> 0]
    BY <1>2
  <2>2. F!Power[0] * x = (2 * d) * 0 + x
    BY FpPowerSteps
  <2>3. Divided(f[0], x, d, 0)
    BY <2>1, <2>2 DEF Divided
  <2> QED BY <2>3
<1>4. ASSUME NEW n \in Nat, n \in T
      PROVE  n + 1 \in T
  <2> SUFFICES ASSUME n + 1 <= count PROVE Divided(f[n + 1], x, d, n + 1)
    OBVIOUS
  <2>1. Divided(f[n], x, d, n)
    BY <1>4
  <2>2. f[n + 1] = DivTurn(f[n], d, n + 1)
    <3>1. n + 1 \in 0 .. count /\ n + 1 # 0 /\ (n + 1) - 1 = n
      OBVIOUS
    <3>2. f[n + 1] = DivTurn(f[(n + 1) - 1], d, n + 1)
      BY <1>2, <3>1, Zenon
    <3> QED BY <3>1, <3>2, Zenon
  <2> QED BY <2>1, <2>2, TurnDivides
<1> HIDE DEF T
<1>5. count \in T
  BY <1>3, <1>4, NatSetInduction
<1> QED BY <1>5 DEF T, f
\* fp.c, the quotient before rounding: within a last place of 2 * Fraction(a)/Fraction(b),
\* whether or not the loop was left early.
LEMMA QuotientNear ==
  ASSUME NEW m, NEW a \in F!Value, NEW b \in F!Value
  PROVE  LET count == (IF m.d THEN DoubleBits ELSE SingleBits) + Guard
             quo == F!Quotient(a, b, count) * F!Power[IF m.d THEN 0 ELSE F!LowBits]
             x == F!Fraction(a)
             y == F!Fraction(b)
             Y == (x * F!Power[DoubleBits]) * F!Power[Guard]
         IN  /\ \E i \in Nat : quo = LastPlace(m) * i
             /\ quo * (2 * y) <= Y /\ Y < (quo + LastPlace(m)) * (2 * y)
<1> DEFINE count == (IF m.d THEN DoubleBits ELSE SingleBits) + Guard
           loop == F!DivisionLoop(a, b, count)
           q == F!Quotient(a, b, count)
<1>1. PICK h \in Nat \ {0}, g \in Nat \ {0}, l \in Nat \ {0} :
           h = F!Hidden /\ g = F!Power[Guard] /\ F!Power[DoubleBits] = 2 * h /\ l = LastPlace(m)
  BY Ranges, GuardedHidden, Places
<1>2. PICK x \in h .. 2 * h - 1, y \in h .. 2 * h - 1 : x = F!Fraction(a) /\ y = F!Fraction(b)
  BY <1>1, ValueFields
<1>3. x \in Nat \ {0} /\ y \in Nat \ {0} /\ x < 2 * y
  BY <1>2
<1>4. count \in Nat
  BY FpWidths DEF F!WidthAssumption
<1>5. F!Power[IF m.d THEN 0 ELSE F!LowBits] = l
  BY <1>1, FpPowerSteps DEF LastPlace
<1>6. F!Power[count] * l = (2 * h) * g
  <2>1. CASE m.d
    <3>1. l = 1 /\ count = DoubleBits + Guard /\ DoubleBits \in Nat /\ Guard \in Nat
      BY <1>1, <2>1, FpWidths DEF LastPlace, F!WidthAssumption
    <3>2. F!Power[DoubleBits + Guard] = (2 * h) * g
      BY <1>1, <3>1, FpPowerOfSum
    <3>3. PICK p \in Nat : p = F!Power[count]
      BY <1>4, FpPowerSteps
    <3> QED BY <3>1, <3>2, <3>3
  <2>2. CASE ~m.d
    <3>1. /\ l = F!Power[F!LowBits] /\ F!LowBits \in Nat
          /\ count + F!LowBits = DoubleBits + Guard /\ DoubleBits \in Nat /\ Guard \in Nat
      BY <1>1, <2>2, FpWidths DEF LastPlace, F!WidthAssumption, F!LowBits
    <3>2. F!Power[count + F!LowBits] = F!Power[count] * l
      BY <1>4, <3>1, FpPowerOfSum
    <3>3. F!Power[DoubleBits + Guard] = (2 * h) * g
      BY <1>1, <3>1, FpPowerOfSum
    <3> QED BY <3>1, <3>2, <3>3
  <2> QED BY <2>1, <2>2
<1> HIDE DEF count
<1>7. PICK xx \in Nat, d \in Nat \ {0} : xx = x * g /\ d = y * g /\ xx < 2 * d
  <2>1. x * g \in Nat /\ y * g \in Nat \ {0}
    BY <1>3
  <2>2. (x + 1) * g <= (2 * y) * g
    BY <1>3, TimesGrows
  <2>3. (x + 1) * g = x * g + g /\ (2 * y) * g = 2 * (y * g)
    BY <1>3
  <2>4. x * g < 2 * (y * g)
    BY <2>1, <2>2, <2>3
  <2> QED BY <2>1, <2>4
<1>8. Divided(loop, xx, d, count)
  <2>1. loop = DivLoop(F!Fraction(a) * F!Power[Guard], F!Fraction(b) * F!Power[Guard], count)[count]
    BY Zenon DEF F!DivisionLoop, DivLoop, LongDivides, DivTurn
  <2>2. loop = DivLoop(xx, d, count)[count]
    BY <1>1, <1>2, <1>7, <2>1, Zenon
  <2> QED BY <1>4, <1>7, <2>2, LoopDivides
<1>9. q = loop.quo * F!Power[count - loop.turns]
  BY Zenon DEF F!Quotient
<1> HIDE DEF loop, q
<1>10. PICK quo \in Nat, rem \in Nat, turns \in Nat :
           /\ quo = loop.quo /\ rem = loop.rem /\ turns = loop.turns
           /\ turns <= count /\ (rem # 0 => turns = count) /\ rem < 2 * d
           /\ F!Power[turns] * xx = (2 * d) * quo + rem
  BY <1>8 DEF Divided
<1>11. PICK n \in Nat, p \in Nat, c \in Nat :
           n = q /\ p = F!Power[count] /\ n = quo * c /\ p * xx = (2 * d) * n + rem
  <2>1. count - turns \in Nat /\ turns + (count - turns) = count
    BY <1>4, <1>10
  <2>2. PICK c \in Nat, t \in Nat, p \in Nat :
             c = F!Power[count - turns] /\ t = F!Power[turns] /\ p = F!Power[count]
    BY <1>4, <2>1, FpPowerSteps
  <2>3. p = t * c
    <3>1. PICK k \in Nat : k = count - turns /\ turns + k = count
      BY <2>1
    <3>2. F!Power[turns + k] = F!Power[turns] * F!Power[k]
      BY FpPowerOfSum
    <3> QED BY <2>2, <3>1, <3>2, Zenon
  <2>4. quo * c \in Nat /\ quo * c = q
    BY <1>9, <1>10, <2>2
  <2>5. p * xx = (2 * d) * (quo * c) + rem * c
    <3>1. (t * c) * xx = (t * xx) * c
      OBVIOUS
    <3>2. ((2 * d) * quo + rem) * c = (2 * d) * (quo * c) + rem * c
      OBVIOUS
    <3> QED BY <1>10, <2>2, <2>3, <3>1, <3>2
  <2>6. rem * c = rem
    <3>1. CASE rem = 0
      BY <3>1
    <3>2. CASE rem # 0
      <4>1. count - turns = 0
        BY <1>4, <1>10, <3>2
      <4>2. c = 1
        BY <2>2, <4>1, FpPowerSteps
      <4> QED BY <4>2
    <3> QED BY <3>1, <3>2
  <2> QED BY <2>2, <2>4, <2>5, <2>6
<1>12. PICK z \in Nat : z = n * l
  OBVIOUS
<1> DEFINE Y == (x * (2 * h)) * g
<1>13. z * (2 * y) <= Y /\ Y < (z + l) * (2 * y)
  <2>1. (p * l) * (x * g) = ((2 * y) * g) * z + rem * l
    <3>1. (p * l) * xx = (p * xx) * l
      OBVIOUS
    <3>2. ((2 * d) * n + rem) * l = (2 * d) * (n * l) + rem * l
      OBVIOUS
    <3>3. 2 * d = (2 * y) * g
      BY <1>3, <1>7
    <3>4. (p * l) * xx = (2 * d) * z + rem * l
      BY <1>11, <1>12, <3>1, <3>2
    <3> QED BY <1>7, <3>3, <3>4, Zenon
  <2>2. (p * l) * (x * g) = Y * g
    <3>1. ((2 * h) * g) * (x * g) = ((x * (2 * h)) * g) * g
      BY <1>3
    <3> QED BY <1>6, <1>11, <3>1, Zenon
  <2>3. ((2 * y) * g) * z = (z * (2 * y)) * g
    BY <1>3
  <2>4. rem * l < (l * (2 * y)) * g
    <3>1. (rem + 1) * l <= (2 * d) * l
      BY <1>10, TimesGrows
    <3>2. (rem + 1) * l = rem * l + l
      OBVIOUS
    <3>3. (2 * d) * l = (l * (2 * y)) * g
      BY <1>3, <1>7
    <3>4. PICK u \in Nat, v \in Nat : u = rem * l /\ v = (2 * d) * l
      OBVIOUS
    <3>5. u < v
      BY <3>1, <3>2, <3>4
    <3> QED BY <3>3, <3>4, <3>5
  <2>5. PICK yy \in Nat, u \in Nat, v \in Nat, w \in Nat :
             yy = Y /\ u = z * (2 * y) /\ v = l * (2 * y) /\ w = rem * l
    <3>1. Y \in Nat /\ z * (2 * y) \in Nat /\ l * (2 * y) \in Nat /\ rem * l \in Nat
      BY <1>3
    <3> QED BY <3>1
  <2> HIDE DEF Y
  <2>6. yy * g = u * g + w /\ w < v * g
    <3>1. (p * l) * (x * g) = u * g + w
      BY <2>1, <2>3, <2>5, Zenon
    <3>2. yy * g = u * g + w
      BY <2>2, <2>5, <3>1, Zenon
    <3> QED BY <2>4, <2>5, <3>2
  <2>7. u <= yy
    <3> SUFFICES ASSUME yy + 1 <= u PROVE FALSE
      OBVIOUS
    <3>1. (yy + 1) * g <= u * g
      BY TimesGrows
    <3>2. (yy + 1) * g = yy * g + g
      OBVIOUS
    <3>3. PICK s \in Nat, t \in Nat : s = yy * g /\ t = u * g
      OBVIOUS
    <3> QED BY <2>6, <3>1, <3>2, <3>3
  <2>8. yy < u + v
    <3> SUFFICES ASSUME u + v <= yy PROVE FALSE
      OBVIOUS
    <3>1. (u + v) * g <= yy * g
      <4>1. u + v \in Nat
        OBVIOUS
      <4> QED BY <4>1, TimesGrows
    <3>2. (u + v) * g = u * g + v * g
      OBVIOUS
    <3>3. PICK s \in Nat, t \in Nat, r1 \in Nat : s = yy * g /\ t = u * g /\ r1 = v * g
      OBVIOUS
    <3> QED BY <2>6, <3>1, <3>2, <3>3
  <2>9. (z + l) * (2 * y) = z * (2 * y) + l * (2 * y)
    BY <1>3
  <2> QED BY <2>5, <2>7, <2>8, <2>9
<1>14. q * F!Power[IF m.d THEN 0 ELSE F!LowBits] = z
  BY <1>5, <1>11, <1>12
<1>15. z = l * n
  BY <1>12
<1>16. /\ \E i \in Nat : z = LastPlace(m) * i
       /\ z * (2 * F!Fraction(b)) <= (F!Fraction(a) * F!Power[DoubleBits]) * F!Power[Guard]
       /\ (F!Fraction(a) * F!Power[DoubleBits]) * F!Power[Guard]
            < (z + LastPlace(m)) * (2 * F!Fraction(b))
  <2>1. \E i \in Nat : z = LastPlace(m) * i
    BY <1>1, <1>15
  <2> QED BY <1>1, <1>2, <1>13, <2>1, Zenon
<1> HIDE DEF Y
<1> QED BY <1>14, <1>16, Zenon DEF q, count
\* fp.c, divfp11: the quotient is rounded.
LEMMA PackQuotient ==
  ASSUME NEW m, m.t \in BOOLEAN, NEW a \in F!Value, NEW b \in F!Value, a.e # 0
  PROVE  RoundedAs(F!divfp11(a, b, m), m, F!Sign(a, b), F!QuotientOf(a, b).num,
                   F!QuotientOf(a, b).den, F!QuotientOf(a, b).exp, m.t)
<1> DEFINE count == (IF m.d THEN DoubleBits ELSE SingleBits) + Guard
           quo == F!Quotient(a, b, count) * F!Power[IF m.d THEN 0 ELSE F!LowBits]
           ex == a.e - b.e + F!Bias + 1
           s == F!Sign(a, b)
           o == F!divfp11(a, b, m)
           qo == F!QuotientOf(a, b)
<1>1. PICK h \in Nat \ {0}, g \in Nat \ {0}, l \in Nat \ {0} :
           /\ h = F!Hidden /\ g = F!Power[Guard] /\ F!Power[DoubleBits] = 2 * h /\ l = LastPlace(m)
           /\ F!One = h * g
  BY Ranges, GuardedHidden, Places
<1>2. PICK x \in h .. 2 * h - 1, y \in h .. 2 * h - 1 : x = F!Fraction(a) /\ y = F!Fraction(b)
  BY <1>1, ValueFields
<1>3. x \in Nat \ {0} /\ y \in Nat \ {0} /\ x < 2 * y /\ y < 2 * x /\ x < 2 * h /\ y < 2 * h
  BY <1>2
<1>4. PICK j \in Nat : Half(m) = (2 * l) * j
  BY <1>1, HalfEven
<1>5. PICK e \in Nat : h * g = (2 * l) * e
  <2>1. PICK n \in Nat : h = l * n
    BY <1>1, Places
  <2>2. PICK k \in Nat : g = 2 * k
    <3>1. Guard - 1 \in Nat /\ (Guard - 1) + 1 = Guard
      BY FpWidths DEF F!WidthAssumption
    <3>2. F!Power[(Guard - 1) + 1] = 2 * F!Power[Guard - 1] /\ F!Power[Guard - 1] \in Nat
      BY <3>1, FpPowerSteps
    <3> QED BY <1>1, <3>1, <3>2
  <2>3. (l * n) * (2 * k) = (2 * l) * (n * k) /\ n * k \in Nat
    OBVIOUS
  <2> QED BY <2>1, <2>2, <2>3
<1>6. PICK i \in Nat, z \in Nat, Y \in Nat :
           /\ z = quo /\ z = l * i /\ Y = (x * (2 * h)) * g
           /\ z * (2 * y) <= Y /\ Y < (z + l) * (2 * y)
  <2>1. /\ \E i \in Nat : quo = LastPlace(m) * i
        /\ quo * (2 * F!Fraction(b)) <= (F!Fraction(a) * F!Power[DoubleBits]) * F!Power[Guard]
        /\ (F!Fraction(a) * F!Power[DoubleBits]) * F!Power[Guard]
             < (quo + LastPlace(m)) * (2 * F!Fraction(b))
    BY QuotientNear, Zenon
  <2> HIDE DEF quo
  <2>2. PICK i \in Nat : quo = l * i
    BY <1>1, <2>1
  <2>3. l * i \in Nat /\ (x * (2 * h)) * g \in Nat
    BY <1>3
  <2>4. /\ quo * (2 * y) <= (x * (2 * h)) * g /\ (x * (2 * h)) * g < (quo + l) * (2 * y)
    BY <1>1, <1>2, <2>1, Zenon
  <2> QED BY <2>2, <2>3, <2>4
<1> HIDE DEF quo
<1>7. PICK hg \in Nat : hg = h * g
  OBVIOUS
<1>8. Y = (2 * hg) * x /\ Y = hg * (2 * x)
  BY <1>3, <1>6, <1>7
\* The fraction is guarded as it is, or after a shift.
<1>9. z < 2 * hg /\ (x >= y => hg <= z) /\ (x < y => z < hg /\ hg <= 2 * z)
  <2>1. ASSUME NEW u \in Nat, NEW v \in Nat, u * (2 * y) < v * (2 * y) PROVE u < v
    <3> SUFFICES ASSUME v <= u PROVE FALSE
      OBVIOUS
    <3>1. v * (2 * y) <= u * (2 * y)
      <4>1. 2 * y \in Nat
        BY <1>3
      <4> QED BY <4>1, TimesGrows
    <3>2. PICK r1 \in Nat, r2 \in Nat : r1 = u * (2 * y) /\ r2 = v * (2 * y)
      BY <1>3
    <3> QED BY <2>1, <3>1, <3>2
  <2>2. ASSUME NEW v \in Nat, NEW w \in Nat, w < v, v * (2 * hg) = v * (2 * hg)
        PROVE  w * (2 * hg) + 2 * hg <= v * (2 * hg)
    <3>1. (w + 1) * (2 * hg) <= v * (2 * hg)
      BY <2>2, TimesGrows
    <3>2. (w + 1) * (2 * hg) = w * (2 * hg) + 2 * hg
      OBVIOUS
    <3> QED BY <3>1, <3>2
  <2>3. hg # 0
    <3>1. h * g # 0
      OBVIOUS
    <3> QED BY <1>7, <3>1
  <2>4. z < 2 * hg
    <3>1. x * (2 * hg) + 2 * hg <= (2 * y) * (2 * hg)
      BY <1>3, <2>2
    <3>2. Y = x * (2 * hg) /\ (2 * hg) * (2 * y) = (2 * y) * (2 * hg)
      BY <1>3, <1>8
    <3>3. PICK r1 \in Nat, r2 \in Nat, r3 \in Nat :
               r1 = z * (2 * y) /\ r2 = (2 * y) * (2 * hg) /\ r3 = (2 * hg) * (2 * y)
      BY <1>3
    <3>4. z * (2 * y) < (2 * hg) * (2 * y)
      BY <1>6, <2>3, <3>1, <3>2, <3>3
    <3> QED BY <2>1, <3>4
  <2>5. ASSUME x >= y PROVE hg <= z
    <3> SUFFICES ASSUME z < hg PROVE FALSE
      OBVIOUS
    <3>1. z + l <= hg
      <4>1. PICK k \in Nat : k = 2 * e /\ hg = l * k
        <5>1. (2 * l) * e = l * (2 * e)
          OBVIOUS
        <5> QED BY <1>5, <1>7, <5>1
      <4> QED BY <1>6, <4>1, Step
    <3>2. (z + l) * (2 * y) <= hg * (2 * y)
      <4>1. 2 * y \in Nat /\ z + l \in Nat
        BY <1>3
      <4> QED BY <3>1, <4>1, TimesGrows
    <3>3. y * (2 * hg) <= x * (2 * hg)
      BY <1>3, <2>5, TimesGrows
    <3>4. hg * (2 * y) = y * (2 * hg) /\ Y = x * (2 * hg)
      BY <1>3, <1>8
    <3>5. PICK r1 \in Nat, r2 \in Nat : r1 = (z + l) * (2 * y) /\ r2 = hg * (2 * y)
      BY <1>3
    <3> QED BY <1>6, <3>2, <3>3, <3>4, <3>5
  <2>6. ASSUME x < y PROVE z < hg
    <3>1. x * (2 * hg) + 2 * hg <= y * (2 * hg)
      BY <1>3, <2>2, <2>6
    <3>2. Y = x * (2 * hg) /\ hg * (2 * y) = y * (2 * hg)
      BY <1>3, <1>8
    <3>3. PICK r1 \in Nat, r2 \in Nat : r1 = z * (2 * y) /\ r2 = y * (2 * hg)
      BY <1>3
    <3>4. z * (2 * y) < hg * (2 * y)
      BY <1>6, <2>3, <3>1, <3>2, <3>3
    <3> QED BY <2>1, <3>4
  <2>7. hg <= 2 * z
    <3> SUFFICES ASSUME 2 * z < hg PROVE FALSE
      OBVIOUS
    <3>1. 2 * z + 2 * l <= hg
      <4>1. PICK ll \in Nat, zz \in Nat : ll = 2 * l /\ zz = 2 * z /\ zz = ll * i
        <5>1. 2 * (l * i) = (2 * l) * i
          OBVIOUS
        <5> QED BY <1>6, <5>1
      <4>2. hg = ll * e
        BY <1>5, <1>7, <4>1
      <4>3. ll * i + ll <= ll * e
        BY <4>1, <4>2, Step
      <4> QED BY <4>1, <4>2, <4>3
    <3>2. (2 * z + 2 * l) * y <= hg * y
      BY <1>3, <3>1, TimesGrows
    <3>3. (2 * z + 2 * l) * y = (z + l) * (2 * y)
      BY <1>3
    <3>4. y * hg <= (2 * x) * hg
      BY <1>3, TimesGrows
    <3>5. y * hg = hg * y /\ (2 * x) * hg = Y
      BY <1>3, <1>8
    <3>6. PICK r1 \in Nat, r2 \in Nat : r1 = (z + l) * (2 * y) /\ r2 = hg * y
      BY <1>3
    <3>7. r1 <= r2 /\ r2 <= Y /\ Y < r1
      BY <1>6, <3>2, <3>3, <3>4, <3>5, <3>6
    <3> QED BY <3>6, <3>7
  <2> QED BY <2>4, <2>5, <2>6, <2>7
<1>10. o = IF quo < F!One THEN F!round_and_pack(s, ex - 1, 2 * quo, TRUE, m)
           ELSE F!round_and_pack(s, ex, quo, TRUE, m)
  <2>1. o = IF a.e = 0 THEN F!Outcome(F!Zero, FALSE, "")
            ELSE IF quo < F!One THEN F!round_and_pack(s, ex - 1, 2 * quo, TRUE, m)
            ELSE F!round_and_pack(s, ex, quo, TRUE, m)
    BY Zenon DEF F!divfp11, quo
  <2> HIDE DEF ex, s, o
  <2> QED BY <2>1
<1>11. ex \in Int /\ 1 - 2 * F!Bias <= ex - 1 /\ ex <= 4 * F!Bias - 2
  <2>1. F!Bias >= 2
    BY FpWidths, Ranges DEF F!WidthAssumption
  <2>2. a.e \in Nat /\ b.e \in Nat /\ a.e <= 2 * F!Bias - 1 /\ b.e <= 2 * F!Bias - 1 /\ a.e >= 1
    BY ValueFields, Ranges
  <2> QED BY <2>1, <2>2, Ranges
<1>12. PICK t \in BOOLEAN, round \in BOOLEAN :
            t = m.t /\ round = TRUE /\ (t <=> ~(round /\ ~m.t))
  OBVIOUS
<1>13. qo = IF x >= y THEN [num |-> x, den |-> 2 * y, exp |-> ex]
            ELSE [num |-> x, den |-> y, exp |-> ex - 1]
  <2>1. qo = IF x >= y THEN [num |-> x, den |-> 2 * y, exp |-> ex]
             ELSE [num |-> x, den |-> y, exp |-> a.e - b.e + F!Bias]
    BY <1>2, Zenon DEF F!QuotientOf
  <2>2. a.e - b.e + F!Bias = ex - 1
    BY ValueFields, Ranges
  <2> QED BY <2>1, <2>2, Zenon
<1> HIDE DEF ex, s, o, qo
<1>14. (x * F!Power[DoubleBits]) * F!Power[Guard] = Y
  BY <1>1, <1>6
<1>15. CASE x >= y
  <2>1. o = F!round_and_pack(s, ex, z, TRUE, m)
    <3>1. ~(quo < F!One) /\ quo = z
      BY <1>1, <1>6, <1>7, <1>9, <1>15
    <3>2. o = F!round_and_pack(s, ex, quo, TRUE, m)
      BY <1>10, <3>1, Zenon
    <3> QED BY <3>1, <3>2, Zenon
  <2>2. PICK exp \in 1 - 2 * F!Bias .. 4 * F!Bias - 2, den \in Nat \ {0} : exp = ex /\ den = 2 * y
    BY <1>3, <1>11, Ranges
  <2>3. PICK k \in Nat : Half(m) = l * k
    <3>1. (2 * l) * j = l * (2 * j) /\ 2 * j \in Nat
      OBVIOUS
    <3> QED BY <1>4, <3>1
  <2>4. z \in F!One .. 2 * F!One - 1
    BY <1>1, <1>7, <1>9, <1>15
  <2>5. Below(m, z, l, i, k, den, (x * F!Power[DoubleBits]) * F!Power[Guard])
    BY <1>6, <1>14, <2>2, <2>3, <2>4 DEF Below
  <2>6. Packing(m, exp, z, round, l, i, k, x, den, t)
    <3>1. x \in Nat /\ m.t \in BOOLEAN
      BY <1>3
    <3> QED BY <1>12, <2>5, <3>1, Zenon DEF Packing
  <2>7. RoundedAs(F!round_and_pack(s, exp, z, round, m), m, s, x, den, exp, t)
    BY <2>6, PackRoundsAs, Zenon
  <2>8. qo.num = x /\ qo.den = den /\ qo.exp = exp
    BY <1>13, <1>15, <2>2
  <2> QED BY <1>12, <2>1, <2>2, <2>7, <2>8, Zenon DEF o, s, qo
<1>16. CASE x < y
  <2>0. PICK zz \in Nat, ll \in Nat : zz = 2 * z /\ ll = 2 * l
    OBVIOUS
  <2>1. o = F!round_and_pack(s, ex - 1, zz, TRUE, m)
    BY <1>1, <1>6, <1>7, <1>9, <1>10, <1>16, <2>0
  <2>2. PICK exp \in 1 - 2 * F!Bias .. 4 * F!Bias - 2, den \in Nat \ {0} : exp = ex - 1 /\ den = y
    BY <1>3, <1>11, Ranges
  <2>3. Half(m) = ll * j /\ zz = ll * i
    <3>1. 2 * (l * i) = (2 * l) * i
      OBVIOUS
    <3> QED BY <1>4, <1>6, <2>0, <3>1
  <2>4. zz \in F!One .. 2 * F!One - 1
    BY <1>1, <1>7, <1>9, <1>16, <2>0
  <2>5. zz * den <= Y /\ Y < (zz + ll) * den
    <3>1. (2 * z) * y = z * (2 * y) /\ (2 * z + 2 * l) * y = (z + l) * (2 * y)
      BY <1>3
    <3> QED BY <1>6, <2>0, <2>2, <3>1
  <2>6. Below(m, zz, ll, i, j, den, (x * F!Power[DoubleBits]) * F!Power[Guard])
    BY <1>6, <1>14, <2>2, <2>3, <2>4, <2>5 DEF Below
  <2>7. Packing(m, exp, zz, round, ll, i, j, x, den, t)
    <3>1. x \in Nat /\ m.t \in BOOLEAN
      BY <1>3
    <3> QED BY <1>12, <2>6, <3>1, Zenon DEF Packing
  <2>8. RoundedAs(F!round_and_pack(s, exp, zz, round, m), m, s, x, den, exp, t)
    BY <2>7, PackRoundsAs, Zenon
  <2>9. qo.num = x /\ qo.den = den /\ qo.exp = exp
    BY <1>13, <1>16, <2>2
  <2> QED BY <1>12, <2>1, <2>2, <2>8, <2>9, Zenon DEF o, s, qo
<1> QED BY <1>3, <1>15, <1>16
-----------------------------------------------------------------------------
(* The integer and the fraction of a product.                               *)

\* v is within a last place of a guarded fraction with an exponent.
PackedNear(v, m, exp, frac) ==
  /\ F!Fraction(v) \in Nat
  /\ \E k \in {0, 1} :
       /\ v.e = exp + k
       /\ (F!Fraction(v) * F!Power[k]) * F!Power[Guard]
            < frac + (LastPlace(m) * F!Power[k]) * F!Power[Guard]
       /\ frac < (F!Fraction(v) * F!Power[k]) * F!Power[Guard]
                   + (LastPlace(m) * F!Power[k]) * F!Power[Guard]

\* So is what is packed, when the exponent is within the range.
Packable(m, exp, frac) ==
  m.t \in BOOLEAN /\ exp \in 1 .. F!MaxExp - 1 /\ frac \in F!One .. 2 * F!One - 1

\* Packing a fraction that lost bits is within a last place of it.
LEMMA PackNear ==
  ASSUME NEW m, NEW s, NEW exp, NEW frac, Packable(m, exp, frac)
  PROVE  PackedNear(F!to_fac(F!round_and_pack(s, exp, frac, TRUE, m).v, m), m, exp, frac)
<1> DEFINE o == F!round_and_pack(s, exp, frac, TRUE, m)
           v == F!to_fac(o.v, m)
<1>p. m.t \in BOOLEAN /\ exp \in 1 .. F!MaxExp - 1 /\ frac \in F!One .. 2 * F!One - 1
  BY DEF Packable
<1> USE <1>p
<1>1. PICK n \in Nat \ {0} :
           n = F!Power[ExpBits] /\ F!MaxExp = n - 1 /\ exp \in 1 .. n - 2 /\ exp \in Nat
  BY Ranges
<1>2. PICK Y \in Nat, round \in BOOLEAN, one \in Nat \ {0}, e \in Int :
           Y = frac /\ round = TRUE /\ one = 1 /\ e = exp
  <2>1. PICK Y \in Nat : Y = frac
    BY Ranges
  <2>2. PICK e \in Int : e = exp
    BY <1>1
  <2>3. TRUE \in BOOLEAN /\ 1 \in Nat \ {0}
    OBVIOUS
  <2> QED BY <2>1, <2>2, <2>3
<1>3. PICK j \in Nat : j = Half(m)
  BY Places
<1>4. Below(m, Y, one, Y, j, one, Y)
  <2>1. Y = one * Y /\ j = one * j /\ Y * one <= Y /\ Y < (Y + one) * one
    BY <1>2
  <2>2. Y \in F!One .. 2 * F!One - 1
    BY <1>2
  <2> QED BY <1>2, <1>3, <2>1, <2>2 DEF Below
<1>5. PICK k, p :
           /\ PacksAs(F!round_and_pack(s, e, Y, round, m), m, s, e, k, p)
           /\ F!Rounds((F!Fraction(F!to_fac(p, m)) * F!Power[k]) * (F!Power[Guard] * one),
                       (LastPlace(m) * F!Power[k]) * (F!Power[Guard] * one), Y,
                       ~(round /\ ~m.t))
  BY <1>4, PackRounds
<1>6. PacksAs(o, m, s, exp, k, p)
  <2>1. o = F!round_and_pack(s, e, Y, round, m)
    BY <1>2, Zenon
  <2> QED BY <1>2, <1>5, <2>1, Zenon
<1> HIDE DEF o
<1>7. /\ k \in {0, 1} /\ F!Fraction(F!to_fac(p, m)) \in Nat
      /\ F!to_fac(p, m).e = (exp + k) % n
      /\ o = IF exp + k > n - 1 THEN F!Excepted(p, TRUE, "OVFLO", m)
             ELSE IF F!Underflows(exp + k) THEN F!Excepted(p, FALSE, "UNFLO", m)
             ELSE F!Outcome(p, FALSE, "")
  BY <1>1, <1>6, Zenon DEF PacksAs
<1>k. k \in {0, 1} /\ k \in Nat
  <2>1. k \in {0, 1}
    BY <1>7, Zenon
  <2> QED BY <2>1
<1>8. exp + k \in 1 .. n - 1 /\ (exp + k) % n = exp + k
  <2>1. exp + k \in 1 .. n - 1
    BY <1>1, <1>k
  <2>2. PICK z \in 0 .. n - 1 : z = exp + k
    BY <2>1
  <2>3. z % n = z
    OBVIOUS
  <2> QED BY <2>1, <2>2, <2>3
<1>9. o.v = p
  <2>1. ~(exp + k > n - 1) /\ ~F!Underflows(exp + k)
    BY <1>1, <1>8 DEF F!Underflows
  <2>2. o = F!Outcome(p, FALSE, "")
    BY <1>7, <2>1, Zenon
  <2> QED BY <2>2 DEF F!Outcome
<1>10. PICK a \in Nat, c \in Nat \ {0}, l \in Nat \ {0}, g \in Nat \ {0} :
            a = F!Fraction(v) /\ c = F!Power[k] /\ l = LastPlace(m) /\ g = F!Power[Guard]
  <2>2. F!Power[k] \in Nat \ {0}
    BY <1>k, FpPowerSteps
  <2> QED BY <1>7, <1>9, <2>2, Places, GuardedHidden
<1>11. PICK w \in Nat, u \in Nat \ {0} : w = (a * c) * g /\ u = (l * c) * g
  <2>1. (a * c) * g \in Nat /\ (l * c) * g \in Nat \ {0}
    <3>1. l * c \in Nat \ {0}
      OBVIOUS
    <3>2. PICK lc \in Nat \ {0} : lc = l * c
      BY <3>1
    <3>3. lc * g \in Nat \ {0}
      OBVIOUS
    <3> QED BY <3>2, <3>3
  <2> QED BY <2>1
<1>12. F!Rounds(w, u, Y, ~(round /\ ~m.t))
  <2>1. g * one = g
    BY <1>2
  <2> QED BY <1>5, <1>9, <1>10, <1>11, <2>1, Zenon
<1>13. w < Y + u /\ Y < w + u
  <2>1. CASE m.t
    BY <1>12, <2>1 DEF F!Rounds
  <2>2. CASE ~m.t
    <3>1. 2 * (w - Y) <= u /\ 2 * (Y - w) < u
      BY <1>2, <1>12, <2>2 DEF F!Rounds
    <3> QED BY <3>1
  <2> QED BY <2>1, <2>2
<1>14. v.e = exp + k
  BY <1>7, <1>8, <1>9
<1> HIDE DEF v
<1>15. PackedNear(v, m, exp, frac)
  <2>1. /\ (F!Fraction(v) * F!Power[k]) * F!Power[Guard]
             < frac + (LastPlace(m) * F!Power[k]) * F!Power[Guard]
        /\ frac < (F!Fraction(v) * F!Power[k]) * F!Power[Guard]
                    + (LastPlace(m) * F!Power[k]) * F!Power[Guard]
    BY <1>2, <1>10, <1>11, <1>13, Zenon
  <2>2. F!Fraction(v) \in Nat
    BY <1>10
  <2> QED BY <1>k, <1>14, <2>1, <2>2, Zenon DEF PackedNear
<1> QED BY <1>15, Zenon DEF v, o

\* A fraction without guard bits that fits the precision is packed as it is.
Whole(m, exp, x, i) ==
  /\ exp \in 1 .. F!MaxExp - 1 /\ x \in F!Hidden .. 2 * F!Hidden - 1
  /\ i \in Nat /\ x = LastPlace(m) * i
PackedWhole(v, exp, x) == F!Fraction(v) = x /\ v.e = exp

\* Packing a whole number keeps all of it.
LEMMA PackWhole ==
  ASSUME NEW m, NEW s, NEW exp, NEW x, NEW i, Whole(m, exp, x, i)
  PROVE  PackedWhole(F!to_fac(F!round_and_pack(s, exp, x * F!Power[Guard], FALSE, m).v, m),
                     exp, x)
<1>w. /\ exp \in 1 .. F!MaxExp - 1 /\ x \in F!Hidden .. 2 * F!Hidden - 1
      /\ i \in Nat /\ x = LastPlace(m) * i
  BY DEF Whole
<1> USE <1>w
<1>1. PICK h \in Nat \ {0}, g \in Nat \ {0}, n \in Nat \ {0}, l \in Nat \ {0} :
           /\ h = F!Hidden /\ g = F!Power[Guard] /\ F!One = h * g /\ n = F!Power[ExpBits]
           /\ F!MaxExp = n - 1 /\ l = LastPlace(m)
  <2>1. PICK l \in Nat \ {0} : l = LastPlace(m)
    BY Places
  <2>2. PICK h \in Nat \ {0}, n \in Nat \ {0} :
             h = F!Hidden /\ n = F!Power[ExpBits] /\ F!MaxExp = n - 1
    BY Ranges
  <2>3. PICK g \in Nat \ {0} : g = F!Power[Guard] /\ F!One = h * g
    BY <2>2, GuardedHidden
  <2> QED BY <2>1, <2>2, <2>3
<1>2. x \in Nat /\ x <= 2 * h - 1 /\ exp \in 1 .. n - 2 /\ exp \in Nat
  BY <1>1
<1>3. PICK z \in Nat : z = x * g /\ z < 2 * (h * g) /\ z \div g = x
  <2>1. PICK z \in Nat : z = x * g
    BY <1>2
  <2>2. (x + 1) * g <= (2 * h) * g
    BY <1>2, TimesGrows
  <2>3. (x + 1) * g = x * g + g /\ (2 * h) * g = 2 * (h * g)
    BY <1>2
  <2>4. z < 2 * (h * g)
    <3>1. PICK y \in Nat : y = h * g
      OBVIOUS
    <3> QED BY <2>1, <2>2, <2>3, <3>1
  <2>5. \E q \in Nat, d \in 0 .. g - 1 : q = z \div g /\ d = z % g /\ z = g * q + d
    BY DivMod, Zenon
  <2>6. PICK q \in Nat, d \in 0 .. g - 1 : q = z \div g /\ z = g * q + d
    BY <2>5
  <2>7. q = x
    <3>1. PICK y \in Nat : y = x
      BY <1>2
    <3>2. g * q + d = g * y /\ d < g
      BY <2>1, <2>6, <3>1
    <3>3. CASE q < y
      <4>1. (q + 1) * g <= y * g
        BY <3>3, TimesGrows
      <4>2. (q + 1) * g = g * q + g /\ y * g = g * y
        OBVIOUS
      <4> QED BY <3>2, <4>1, <4>2
    <3>4. CASE y < q
      <4>1. (y + 1) * g <= q * g
        BY <3>4, TimesGrows
      <4>2. (y + 1) * g = g * y + g /\ q * g = g * q
        OBVIOUS
      <4> QED BY <3>2, <4>1, <4>2
    <3> QED BY <3>1, <3>3, <3>4
  <2> QED BY <2>1, <2>4, <2>6, <2>7
<1> DEFINE p == [s |-> s, e |-> exp, f |-> x % F!Hidden]
           o == F!round_and_pack(s, exp, z, FALSE, m)
<1>4. o = F!Outcome(p, FALSE, "")
  <2> DEFINE half == IF m.d THEN F!Power[Guard - 1] ELSE F!Power[Guard - 1 + F!LowBits]
             sum == IF FALSE /\ ~m.t THEN z + half ELSE z
             carried == sum >= 2 * F!One
             ex == IF carried THEN exp + 1 ELSE exp
             packed == [s |-> s, e |-> ex % F!Power[ExpBits],
                        f |-> ((IF carried THEN sum \div 2 ELSE sum) \div F!Power[Guard])
                                % F!Hidden]
  <2>1. o = IF ex > F!MaxExp THEN F!Excepted(packed, TRUE, "OVFLO", m)
            ELSE IF F!Underflows(ex) THEN F!Excepted(packed, FALSE, "UNFLO", m)
            ELSE F!Outcome(packed, FALSE, "")
    BY Zenon DEF F!round_and_pack
  <2>2. sum = z
    OBVIOUS
  <2>3. ~carried
    BY <1>1, <1>3, <2>2
  <2>4. ex = exp
    BY <2>3
  <2>5. exp % n = exp
    <3>1. PICK y \in 0 .. n - 1 : y = exp
      BY <1>2
    <3>2. y % n = y
      OBVIOUS
    <3> QED BY <3>1, <3>2
  <2>6. packed = p
    <3>1. (IF carried THEN sum \div 2 ELSE sum) \div F!Power[Guard] = x
      BY <1>1, <1>3, <2>2, <2>3
    <3> HIDE DEF ex, sum, carried
    <3> QED BY <1>1, <2>4, <2>5, <3>1, Zenon
  <2> HIDE DEF packed, ex, o, p
  <2>7. ~(ex > F!MaxExp) /\ ~F!Underflows(ex)
    BY <1>1, <1>2, <2>4 DEF F!Underflows
  <2> QED BY <2>1, <2>6, <2>7, Zenon
<1>6. MaskedTo(F!to_fac(p, m), m, s, exp, x)
  BY Masked, Zenon
<1> HIDE DEF o, p
<1>5. o.v = p
  BY <1>4 DEF F!Outcome
<1>7. F!Fraction(F!to_fac(p, m)) = x /\ F!to_fac(p, m).e = exp
  <2>1. PICK w \in Nat, f \in Nat :
             /\ f = F!Fraction(F!to_fac(p, m)) /\ f = l * w /\ f <= x /\ x < f + l
             /\ F!to_fac(p, m).e = exp
    BY <1>1, <1>6 DEF MaskedTo
  <2>2. f = x
    <3> SUFFICES ASSUME f < x PROVE FALSE
      BY <1>2, <2>1
    <3>1. l * w < l * i
      BY <1>1, <2>1
    <3>2. l * w + l <= l * i
      BY <3>1, Step
    <3> QED BY <1>1, <1>2, <2>1, <3>2
  <2> QED BY <2>1, <2>2
<1>8. F!Fraction(F!to_fac(o.v, m)) = x /\ F!to_fac(o.v, m).e = exp
  BY <1>5, <1>7
<1>9. x * F!Power[Guard] = z
  BY <1>1, <1>3
<1> QED BY <1>8, <1>9, Zenon DEF o, PackedWhole

\* A common factor cancels.
LEMMA TimesCancels ==
  ASSUME NEW x \in Nat, NEW y \in Nat, NEW n \in Nat
  PROVE  x * n < y * n => x < y
<1> SUFFICES ASSUME y <= x PROVE ~(x * n < y * n)
  OBVIOUS
<1>1. y * n <= x * n
  BY TimesGrows
<1>2. PICK u \in Nat, v \in Nat : u = x * n /\ v = y * n
  OBVIOUS
<1> QED BY <1>1, <1>2

\* The places of a fraction with k bits before its point: low for those after it.
LEMMA PlacesSplit ==
  ASSUME NEW m, NEW k \in Nat \ {0}, k <= IF m.d THEN DoubleBits ELSE SingleBits
  PROVE  \E w \in Nat \ {0}, h2 \in Nat \ {0} :
           /\ F!Power[DoubleBits + Guard - k] = (F!Power[Guard] * LastPlace(m)) * w
           /\ F!Power[DoubleBits] = (LastPlace(m) * w) * F!Power[k]
           /\ F!Power[k] = 2 * h2
<1> DEFINE digits == IF m.d THEN DoubleBits ELSE SingleBits
<1>1. /\ DoubleBits \in Nat /\ SingleBits \in Nat /\ Guard \in Nat /\ F!LowBits \in Nat
      /\ F!LowBits + SingleBits = DoubleBits
  BY FpWidths DEF F!WidthAssumption, F!LowBits
<1>2. PICK n \in Nat : n = digits - k /\ n + k = digits
  BY <1>1
<1>3. PICK w \in Nat \ {0}, p \in Nat \ {0}, g \in Nat \ {0}, l \in Nat \ {0} :
           w = F!Power[n] /\ p = F!Power[k] /\ g = F!Power[Guard] /\ l = LastPlace(m)
  BY <1>1, FpPowerSteps, Places
<1>4. PICK y \in Nat : LastPlace(m) = F!Power[y] /\ y + digits = DoubleBits
  <2>1. CASE m.d
    <3>1. LastPlace(m) = F!Power[0] /\ 0 + digits = DoubleBits
      BY <1>1, <2>1, FpPowerSteps DEF LastPlace
    <3> QED BY <3>1
  <2>2. CASE ~m.d
    <3>1. LastPlace(m) = F!Power[F!LowBits] /\ F!LowBits + digits = DoubleBits
      BY <1>1, <2>2 DEF LastPlace
    <3> QED BY <1>1, <3>1
  <2> QED BY <2>1, <2>2
<1> HIDE DEF digits
<1>5. F!Power[y + n] = l * w
  BY <1>3, <1>4, FpPowerOfSum
<1>6. F!Power[Guard + (y + n)] = g * (l * w)
  BY <1>1, <1>3, <1>5, FpPowerOfSum
<1>7. F!Power[(y + n) + k] = (l * w) * p
  <2>1. PICK z \in Nat : z = y + n
    OBVIOUS
  <2>2. F!Power[z + k] = F!Power[z] * F!Power[k]
    BY FpPowerOfSum
  <2> QED BY <1>3, <1>5, <2>1, <2>2, Zenon
<1>8. Guard + (y + n) = DoubleBits + Guard - k /\ (y + n) + k = DoubleBits
  BY <1>1, <1>2, <1>4
<1>9. g * (l * w) = (g * l) * w
  OBVIOUS
<1>10. PICK h2 \in Nat \ {0} : p = 2 * h2
  <2>1. k - 1 \in Nat /\ (k - 1) + 1 = k
    OBVIOUS
  <2>2. F!Power[(k - 1) + 1] = 2 * F!Power[k - 1] /\ F!Power[k - 1] \in Nat \ {0}
    BY <2>1, FpPowerSteps
  <2> QED BY <1>3, <2>1, <2>2
<1> QED BY <1>3, <1>6, <1>7, <1>8, <1>9, <1>10, Zenon

\* fp.c, modfp11: the bits before the point are the integer part of the product, and
\* those after it its fraction, less what the loop dropped.
LEMMA ProductSplits ==
  ASSUME NEW m, NEW a \in F!Value, NEW b \in F!Value, NEW k \in Nat \ {0},
         k <= IF m.d THEN DoubleBits ELSE SingleBits
  PROVE  LET p == F!Product(a, b)
             x == F!ProductOf(a, b)
             below == p.frac % F!Power[DoubleBits + Guard - k]
             whole == (x.num * F!Power[k]) \div x.den
             exact == (x.num * F!Power[k] - whole * x.den) * F!Power[Guard]
             shifted == below * F!Power[k]
         IN  /\ \E f \in F!Hidden .. 2 * F!Hidden - 1, i \in Nat :
                  /\ p.frac - below = f * F!Power[Guard] /\ f = LastPlace(m) * i
                  /\ f * F!Power[k] = whole * F!Power[DoubleBits]
             /\ below \in Nat /\ shifted \in Nat /\ shifted <= 2 * F!One - 1
             /\ exact \in Nat /\ shifted * F!Power[DoubleBits] <= exact
             /\ exact < shifted * F!Power[DoubleBits] + F!Power[k + DoubleBits + Guard]
<1> DEFINE low == F!Power[DoubleBits + Guard - k]
           p == F!Product(a, b)
           x == F!ProductOf(a, b)
           digits == IF m.d THEN DoubleBits ELSE SingleBits
<1>1. PICK h \in Nat \ {0}, g \in Nat \ {0} :
           h = F!Hidden /\ g = F!Power[Guard] /\ F!Power[DoubleBits] = 2 * h /\ F!One = h * g
  BY Ranges, GuardedHidden
<1>2. PICK l \in Nat \ {0}, pk \in Nat \ {0} : l = LastPlace(m) /\ pk = F!Power[k]
  BY FpPowerSteps, Places
<1>3. PICK w \in Nat \ {0}, h2 \in Nat \ {0} :
           low = (g * l) * w /\ 2 * h = (l * w) * pk /\ pk = 2 * h2
  BY <1>1, <1>2, PlacesSplit
<1>4. p.frac \in F!One .. 2 * F!One - 1
  BY ProductFits, Zenon
<1>5. PICK d : ProductNear(p.frac, x.num, x.den, d)
  BY ProductRounds, Zenon
<1> HIDE DEF p, x
<1>6. PICK frac \in Nat, num \in Nat, den \in Nat \ {0} :
           /\ frac = p.frac /\ num = x.num /\ den = x.den
           /\ frac >= h * g /\ frac < 2 * (h * g)
  <2>1. x.num \in Nat /\ x.den \in Nat \ {0}
    BY <1>5 DEF ProductNear
  <2>2. h * g \in Nat
    OBVIOUS
  <2> QED BY <1>1, <1>4, <2>1, <2>2
<1>7. /\ d \in {1, 2} /\ frac * den <= (num * (2 * h)) * g /\ (num * (2 * h)) * g < (frac + d) * den
      /\ \E i \in Nat : frac = d * i
  <2>1. /\ d \in {1, 2} /\ \E i \in Nat : frac = d * i
        /\ frac * den <= (num * F!Power[DoubleBits]) * F!Power[Guard]
        /\ (num * F!Power[DoubleBits]) * F!Power[Guard] < (frac + d) * den
    BY <1>5, <1>6, Zenon DEF ProductNear
  <2> QED BY <1>1, <2>1, Zenon
<1>8. den = (2 * h) * (2 * h)
  <2>1. den = F!Power[2 * DoubleBits]
    BY <1>5, <1>6 DEF ProductNear
  <2>2. DoubleBits \in Nat /\ 2 * DoubleBits = DoubleBits + DoubleBits
    BY FpWidths DEF F!WidthAssumption
  <2>3. F!Power[DoubleBits + DoubleBits] = F!Power[DoubleBits] * F!Power[DoubleBits]
    BY <2>2, FpPowerOfSum
  <2> QED BY <1>1, <2>1, <2>2, <2>3, Zenon
<1>9. PICK lw \in Nat \ {0}, W1 \in Nat \ {0} :
           lw = l * w /\ W1 = low /\ W1 = lw * g /\ 2 * h = lw * pk /\ h = lw * h2
  <2>1. (g * l) * w = (l * w) * g
    OBVIOUS
  <2>2. PICK lw \in Nat \ {0} : lw = l * w
    OBVIOUS
  <2>3. lw * g \in Nat \ {0}
    OBVIOUS
  <2>4. lw * pk = 2 * (lw * h2)
    BY <1>3
  <2>5. h = lw * h2
    <3>1. PICK y \in Nat : y = lw * h2
      OBVIOUS
    <3> QED BY <1>3, <2>2, <2>4, <3>1
  <2> QED BY <1>3, <2>1, <2>2, <2>3, <2>5
<1>10. PICK c \in Nat, rv \in 0 .. W1 - 1 : rv = frac % W1 /\ frac = W1 * c + rv
  <2>1. \E q \in Nat, y \in 0 .. W1 - 1 : q = frac \div W1 /\ y = frac % W1 /\ frac = W1 * q + y
    BY DivMod, Zenon
  <2> QED BY <2>1
<1>11. rv \in Nat /\ rv + 1 <= W1
  OBVIOUS
<1> HIDE DEF low
\* The whole part.
<1>12. h2 <= c /\ c < pk
  <2>1. h * g = h2 * W1 /\ 2 * (h * g) = pk * W1 /\ W1 * c = c * W1
    <3>1. (lw * h2) * g = h2 * (lw * g)
      OBVIOUS
    <3>2. 2 * (h2 * W1) = (2 * h2) * W1
      OBVIOUS
    <3> QED BY <1>3, <1>9, <3>1, <3>2
  <2>2. PICK u \in Nat, v \in Nat : u = c * W1 /\ v = h2 * W1
    OBVIOUS
  <2>3. v <= frac /\ frac < 2 * v /\ frac = u + rv
    BY <1>6, <1>10, <2>1, <2>2
  <2>4. h2 <= c
    <3>1. (c + 1) * W1 = c * W1 + W1
      OBVIOUS
    <3>2. h2 * W1 < (c + 1) * W1
      BY <1>11, <2>2, <2>3, <3>1
    <3>3. h2 < c + 1
      <4>1. c + 1 \in Nat
        OBVIOUS
      <4> QED BY <3>2, <4>1, TimesCancels
    <3> QED BY <3>3
  <2>5. c < pk
    <3>1. pk * W1 = 2 * v
      BY <2>1, <2>2
    <3>2. c * W1 < pk * W1
      BY <1>11, <2>2, <2>3, <3>1
    <3> QED BY <3>2, TimesCancels
  <2> QED BY <2>4, <2>5
<1>13. PICK f \in Nat : f = lw * c
  OBVIOUS
<1>14. /\ f \in h .. 2 * h - 1 /\ frac - rv = f * g /\ f * pk = c * (2 * h)
       /\ \E i \in Nat : f = l * i
  <2>1. h2 * lw <= c * lw
    BY <1>12, TimesGrows
  <2>2. (c + 1) * lw <= pk * lw
    BY <1>12, TimesGrows
  <2>3. /\ h2 * lw = lw * h2 /\ c * lw = lw * c /\ (c + 1) * lw = lw * c + lw
        /\ pk * lw = lw * pk
    OBVIOUS
  <2>4. h <= f /\ f + lw <= 2 * h
    BY <1>9, <1>13, <2>1, <2>2, <2>3
  <2>5. (lw * g) * c = (lw * c) * g /\ (lw * c) * pk = c * (lw * pk)
    OBVIOUS
  <2>6. PICK fg \in Nat : fg = f * g
    OBVIOUS
  <2>7. frac = fg + rv
    BY <1>9, <1>10, <1>13, <2>5, <2>6
  <2>8. f * pk = c * (2 * h)
    BY <1>9, <1>13, <2>5
  <2>9. f = l * (w * c) /\ w * c \in Nat
    <3>1. (l * w) * c = l * (w * c)
      OBVIOUS
    <3> QED BY <1>9, <1>13, <3>1
  <2> QED BY <2>4, <2>6, <2>7, <2>8, <2>9
\* What the loop dropped stays below the point.
<1>15. rv + d <= W1 /\ d \in Nat /\ d <= g
  <2>1. PICK i \in Nat : frac = d * i /\ d \in {1, 2}
    BY <1>7
  <2>2. PICK e \in Nat \ {0} : g = 2 * e
    <3>1. Guard - 1 \in Nat /\ (Guard - 1) + 1 = Guard
      BY FpWidths DEF F!WidthAssumption
    <3>2. F!Power[(Guard - 1) + 1] = 2 * F!Power[Guard - 1] /\ F!Power[Guard - 1] \in Nat \ {0}
      BY <3>1, FpPowerSteps
    <3> QED BY <1>1, <3>1, <3>2
  <2>3. PICK v \in Nat : W1 = d * v
    <3>1. lw * (2 * e) = 2 * (lw * e) /\ 2 * (lw * e) = 1 * (2 * (lw * e)) /\ lw * e \in Nat
      OBVIOUS
    <3> QED BY <1>9, <2>1, <2>2, <3>1
  <2>4. PICK y \in Nat, n \in Nat : y = v * (c + 1) /\ n = d * y /\ n = W1 * c + W1
    <3>1. d \in Nat
      BY <2>1
    <3>2. d * (v * (c + 1)) = (d * v) * c + d * v
      BY <3>1
    <3>3. v * (c + 1) \in Nat /\ d * (v * (c + 1)) \in Nat
      BY <3>1
    <3> QED BY <2>3, <3>2, <3>3
  <2>5. PICK u \in Nat : u = W1 * c
    OBVIOUS
  <2>6. d * i < d * y
    <3>1. frac < n
      BY <1>10, <1>11, <2>4, <2>5
    <3> QED BY <2>1, <2>4, <3>1
  <2>7. d * i + d <= d * y
    <3>1. d \in Nat
      BY <2>1
    <3> QED BY <2>6, <3>1, Step
  <2>8. d \in Nat /\ d <= g
    BY <2>1, <2>2
  <2>9. frac + d <= n
    BY <2>1, <2>4, <2>7
  <2> QED BY <1>10, <2>4, <2>5, <2>8, <2>9
<1> DEFINE M == num * pk
<1>16. PICK n \in Nat, cd \in Nat : n = M /\ cd = c * den /\ cd <= n /\ n < cd + den
                                   /\ rv * den <= (n - cd) * W1 /\ (n - cd) * W1 < (rv + d) * den
  <2>1. (num * (2 * h)) * g = (num * pk) * W1
    <3>1. (num * (lw * pk)) * g = (num * pk) * (lw * g)
      OBVIOUS
    <3> QED BY <1>9, <3>1
  <2>2. PICK n \in Nat, cd \in Nat : n = M /\ cd = c * den
    OBVIOUS
  <2>3. PICK nw \in Nat, cw \in Nat, rd \in Nat, dd \in Nat, wd \in Nat :
             nw = n * W1 /\ cw = cd * W1 /\ rd = rv * den /\ dd = d * den /\ wd = den * W1
    <3>1. n * W1 \in Nat /\ cd * W1 \in Nat /\ rv * den \in Nat /\ d * den \in Nat /\ den * W1 \in Nat
      BY <1>15
    <3> QED BY <3>1
  <2>4. cw + rd <= nw /\ nw < cw + rd + dd
    <3>1. (W1 * c + rv) * den = (c * den) * W1 + rv * den
      OBVIOUS
    <3>2. (W1 * c + rv + d) * den = (c * den) * W1 + rv * den + d * den
      BY <1>15
    <3>3. frac * den = cw + rd /\ (frac + d) * den = cw + rd + dd
      BY <1>10, <2>2, <2>3, <3>1, <3>2
    <3>4. (num * (2 * h)) * g = nw
      BY <2>1, <2>2, <2>3
    <3> QED BY <1>7, <3>3, <3>4
  <2>5. rd + dd <= wd
    <3>1. (rv + d) * den <= W1 * den
      <4>1. rv + d \in Nat
        BY <1>15
      <4> QED BY <1>15, <4>1, TimesGrows
    <3>2. (rv + d) * den = rv * den + d * den /\ W1 * den = den * W1
      BY <1>15
    <3> QED BY <2>3, <3>1, <3>2
  <2>6. cd <= n
    <3>1. (n + 1) * W1 = n * W1 + W1
      OBVIOUS
    <3>2. cd * W1 < (n + 1) * W1
      BY <2>3, <2>4, <3>1
    <3>3. cd < n + 1
      <4>1. n + 1 \in Nat
        OBVIOUS
      <4> QED BY <3>2, <4>1, TimesCancels
    <3> QED BY <3>3
  <2>7. n < cd + den
    <3>1. (cd + den) * W1 = cd * W1 + den * W1
      OBVIOUS
    <3>2. n * W1 < (cd + den) * W1
      BY <2>3, <2>4, <2>5, <3>1
    <3>3. cd + den \in Nat
      OBVIOUS
    <3> QED BY <3>2, <3>3, TimesCancels
  <2>8. (n - cd) * W1 = nw - cw /\ (rv + d) * den = rd + dd
    <3>1. (n - cd) * W1 = n * W1 - cd * W1
      OBVIOUS
    <3>2. (rv + d) * den = rv * den + d * den
      BY <1>15
    <3> QED BY <2>3, <3>1, <3>2
  <2> QED BY <2>2, <2>3, <2>4, <2>6, <2>7, <2>8
<1>17. n \div den = c
  <2>1. \E q \in Nat, y \in 0 .. den - 1 : q = n \div den /\ y = n % den /\ n = den * q + y
    BY DivMod, Zenon
  <2>2. PICK q \in Nat, y \in 0 .. den - 1 : q = n \div den /\ n = den * q + y
    BY <2>1
  <2>3. PICK qd \in Nat : qd = q * den /\ n = qd + y
    BY <2>2
  <2>4. q < c + 1 /\ c < q + 1
    <3>1. (c + 1) * den = c * den + den /\ (q + 1) * den = q * den + den
      OBVIOUS
    <3>2. q * den < (c + 1) * den /\ c * den < (q + 1) * den
      BY <1>16, <2>3, <3>1
    <3>3. c + 1 \in Nat /\ q + 1 \in Nat
      OBVIOUS
    <3> QED BY <3>2, <3>3, TimesCancels
  <2> QED BY <2>2, <2>4
<1> HIDE DEF M
<1>18. PICK E \in Nat, exact \in Nat, shifted \in Nat :
            E = n - cd /\ exact = E * g /\ shifted = rv * pk
  <2>1. PICK E \in Nat : E = n - cd
    BY <1>16
  <2>2. E * g \in Nat /\ rv * pk \in Nat
    BY <1>11
  <2> QED BY <2>1, <2>2
<1>19. shifted <= 2 * (h * g) - 1
  <2>1. (rv + 1) * pk <= W1 * pk
    BY <1>11, TimesGrows
  <2>2. (rv + 1) * pk = rv * pk + pk
    BY <1>11
  <2>3. W1 * pk = 2 * (h * g)
    <3>1. (lw * g) * pk = (lw * pk) * g /\ (2 * h) * g = 2 * (h * g)
      OBVIOUS
    <3> QED BY <1>9, <3>1
  <2>4. PICK y \in Nat : y = h * g
    OBVIOUS
  <2> QED BY <1>18, <2>1, <2>2, <2>3, <2>4
<1>20. PICK hs \in Nat, top \in Nat :
            /\ hs = shifted * (2 * h) /\ top = (pk * (2 * h)) * g
            /\ hs <= exact /\ exact < hs + top
  <2>1. PICK hs \in Nat, top \in Nat, dk \in Nat :
             hs = shifted * (2 * h) /\ top = (pk * (2 * h)) * g /\ dk = (d * pk) * (2 * h)
    <3>1. shifted * (2 * h) \in Nat /\ (pk * (2 * h)) * g \in Nat /\ (d * pk) * (2 * h) \in Nat
      BY <1>15
    <3> QED BY <3>1
  <2>2. PICK h4 \in Nat : h4 = 2 * h
    OBVIOUS
  <2>3. /\ (rv * den) * pk = hs * h4 /\ (E * W1) * pk = exact * h4
        /\ ((rv + d) * den) * pk = (hs + dk) * h4
    <3>1. (rv * (h4 * h4)) * pk = ((rv * pk) * h4) * h4
      BY <1>11
    <3>2. (E * (lw * g)) * pk = (E * g) * (lw * pk)
      OBVIOUS
    <3>3. ((rv + d) * (h4 * h4)) * pk = ((rv * pk) * h4 + (d * pk) * h4) * h4
      BY <1>11, <1>15
    <3>4. (E * W1) * pk = exact * h4
      BY <1>9, <1>18, <2>2, <3>2
    <3>5. (rv * den) * pk = hs * h4
      BY <1>8, <1>18, <2>1, <2>2, <3>1, Zenon
    <3>6. ((rv + d) * den) * pk = (hs + dk) * h4
      BY <1>8, <1>18, <2>1, <2>2, <3>3, Zenon
    <3> QED BY <3>4, <3>5, <3>6
  <2>4. PICK u \in Nat, v \in Nat, t \in Nat :
             u = rv * den /\ v = E * W1 /\ t = (rv + d) * den /\ u <= v /\ v < t
    <3>1. rv * den \in Nat /\ E * W1 \in Nat /\ (rv + d) * den \in Nat
      BY <1>11, <1>15
    <3>2. E * W1 = (n - cd) * W1
      BY <1>18
    <3> QED BY <1>16, <3>1, <3>2
  <2>5. hs < exact + 1
    <3>1. u * pk <= v * pk
      BY <2>4, TimesGrows
    <3>2. hs * h4 <= exact * h4
      BY <2>3, <2>4, <3>1
    <3>3. (exact + 1) * h4 = exact * h4 + h4 /\ h4 # 0
      BY <2>2
    <3>4. PICK s \in Nat, y \in Nat : s = hs * h4 /\ y = exact * h4
      OBVIOUS
    <3>5. hs * h4 < (exact + 1) * h4
      BY <2>2, <3>2, <3>3, <3>4
    <3>6. exact + 1 \in Nat
      OBVIOUS
    <3> QED BY <3>5, <3>6, TimesCancels
  <2>6. exact < hs + dk
    <3>1. (v + 1) * pk <= t * pk
      BY <2>4, TimesGrows
    <3>2. (v + 1) * pk = v * pk + pk
      OBVIOUS
    <3>3. PICK s \in Nat, y \in Nat : s = v * pk /\ y = t * pk
      OBVIOUS
    <3>4. v * pk < t * pk
      BY <3>1, <3>2, <3>3
    <3>5. exact * h4 < (hs + dk) * h4
      BY <2>3, <2>4, <3>4
    <3>6. hs + dk \in Nat
      OBVIOUS
    <3> QED BY <3>5, <3>6, TimesCancels
  <2>7. dk <= top
    <3>1. PICK y \in Nat : y = pk * (2 * h)
      OBVIOUS
    <3>2. d * y <= g * y
      BY <1>15, TimesGrows
    <3>3. d * (pk * (2 * h)) = (d * pk) * (2 * h) /\ g * (pk * (2 * h)) = (pk * (2 * h)) * g
      BY <1>15
    <3> QED BY <2>1, <3>1, <3>2, <3>3
  <2> QED BY <2>1, <2>5, <2>6, <2>7
<1>21. F!Power[k + DoubleBits + Guard] = top
  <2>1. DoubleBits \in Nat /\ Guard \in Nat /\ k + DoubleBits \in Nat
    BY FpWidths DEF F!WidthAssumption
  <2>2. F!Power[(k + DoubleBits) + Guard] = F!Power[k + DoubleBits] * F!Power[Guard]
    BY <2>1, FpPowerOfSum
  <2>3. F!Power[k + DoubleBits] = F!Power[k] * F!Power[DoubleBits]
    BY <2>1, FpPowerOfSum
  <2> QED BY <1>1, <1>2, <1>20, <2>2, <2>3, Zenon
<1> DEFINE below == p.frac % low
           whole == (x.num * F!Power[k]) \div x.den
<1>22. below = rv /\ whole = c
  BY <1>2, <1>6, <1>9, <1>10, <1>16, <1>17, Zenon DEF M
<1>23. /\ \E ff \in F!Hidden .. 2 * F!Hidden - 1, i \in Nat :
             /\ p.frac - below = ff * F!Power[Guard] /\ ff = LastPlace(m) * i
             /\ ff * F!Power[k] = whole * F!Power[DoubleBits]
       /\ below \in Nat /\ below * F!Power[k] \in Nat /\ below * F!Power[k] <= 2 * F!One - 1
  <2> HIDE DEF below, whole
  <2>1. PICK i \in Nat : f = l * i
    BY <1>14
  <2>2. p.frac - below = f * F!Power[Guard] /\ f = LastPlace(m) * i
    BY <1>1, <1>2, <1>6, <1>14, <1>22, <2>1
  <2>3. f * F!Power[k] = whole * F!Power[DoubleBits]
    BY <1>1, <1>2, <1>14, <1>22
  <2>4. f \in F!Hidden .. 2 * F!Hidden - 1
    BY <1>1, <1>14
  <2>5. below * F!Power[k] = shifted
    BY <1>2, <1>18, <1>22
  <2>6. below \in Nat /\ shifted <= 2 * F!One - 1
    BY <1>1, <1>11, <1>19, <1>22
  <2> QED BY <1>18, <2>1, <2>2, <2>3, <2>4, <2>5, <2>6
<1>24. LET e == (x.num * F!Power[k] - whole * x.den) * F!Power[Guard]
           sh == below * F!Power[k]
       IN  /\ e \in Nat /\ sh * F!Power[DoubleBits] <= e
           /\ e < sh * F!Power[DoubleBits] + F!Power[k + DoubleBits + Guard]
  <2> HIDE DEF below, whole
  <2>1. x.num * F!Power[k] = n /\ whole * x.den = cd /\ F!Power[Guard] = g
        /\ below * F!Power[k] = shifted /\ F!Power[DoubleBits] = 2 * h
    BY <1>1, <1>2, <1>6, <1>16, <1>18, <1>22, Zenon DEF M
  <2>2. (n - cd) * g = exact /\ shifted * (2 * h) = hs
    BY <1>18, <1>20
  <2> QED BY <1>18, <1>20, <1>21, <2>1, <2>2, Zenon
<1> QED BY <1>23, <1>24, Zenon DEF below, whole, low, p, x
\* o is the product x with k bits before its point, split: its integer part exactly,
\* and its fraction within a last place of the product and of its own.
SplitAs(o, m, x, k) ==
  LET v == F!to_fac(o.v, m)
      int == F!to_fac(o.int, m)
      whole == (x.num * F!Power[k]) \div x.den
      exact == (x.num * F!Power[k] - whole * x.den) * F!Power[Guard]
      place == F!Power[UnwrappedIn(o, m) - F!Bias + DoubleBits + Guard]
  IN  /\ F!Fraction(int) * F!Power[k] = whole * F!Power[DoubleBits] /\ int.e = x.exp
      /\ IF v = F!Zero THEN exact < F!Power[k + DoubleBits + Guard]
         ELSE F!Distance(F!Fraction(v) * place, exact)
                < F!Power[k + DoubleBits + Guard] + LastPlace(m) * place

\* MOD splits a product that has both a whole part and a fraction.
LEMMA ModSplits ==
  ASSUME NEW m, m.t \in BOOLEAN, NEW a \in F!Value, NEW b \in F!Value, a.e # 0, b.e # 0,
         F!Product(a, b).exp - F!Bias \in 1 .. (IF m.d THEN DoubleBits ELSE SingleBits)
  PROVE  SplitAs(F!modfp11(a, b, m), m, F!ProductOf(a, b), F!Product(a, b).exp - F!Bias)
<1> DEFINE p == F!Product(a, b)
           x == F!ProductOf(a, b)
           s == F!Sign(a, b)
           ke == p.exp - F!Bias
           below == p.frac % F!Power[DoubleBits + Guard - ke]
           shifted == below * F!Power[ke]
           frac == F!round_and_pack(s, F!Bias - F!Shifts(shifted),
                                    shifted * F!Power[F!Shifts(shifted)], TRUE, m)
           int == F!round_and_pack(s, p.exp, p.frac - below, FALSE, m)
           whole == F!round_and_pack(s, p.exp, p.frac, FALSE, m)
           near == F!round_and_pack(s, p.exp, p.frac, TRUE, m)
           Both(i, f, res) == [int |-> i, v |-> f, overflow |-> res.overflow, code |-> res.code]
           digits == IF m.d THEN DoubleBits ELSE SingleBits
           o == F!modfp11(a, b, m)
           Wh == (x.num * F!Power[ke]) \div x.den
           E == (x.num * F!Power[ke] - Wh * x.den) * F!Power[Guard]
<1>1. o = IF a.e = 0 \/ b.e = 0 THEN Both(F!Zero, F!Zero, F!Outcome(F!Zero, FALSE, ""))
          ELSE IF ke <= 0 THEN Both(F!Zero, near.v, near)
          ELSE IF ke > digits THEN Both(whole.v, F!Zero, whole)
          ELSE Both(int.v, IF below = 0 THEN F!Zero ELSE frac.v, int)
  BY Zenon DEF F!modfp11
<1>2. /\ DoubleBits \in Nat /\ SingleBits \in Nat /\ DoubleBits > SingleBits /\ Guard \in Nat
      /\ Guard >= 2 /\ DoubleBits + Guard <= F!Bias /\ F!Bias \in Nat /\ F!MaxExp = 2 * F!Bias - 1
  BY FpWidths, Ranges DEF F!WidthAssumption
<1>3. p.exp \in Int /\ p.frac \in F!One .. 2 * F!One - 1 /\ p.exp = x.exp
  BY ProductFits, ProductRounds, Zenon
<1>4. ke \in Nat \ {0} /\ ke <= digits /\ digits \in Nat /\ digits <= DoubleBits
  BY <1>2
<1>5. p.exp \in 1 .. F!MaxExp - 1
  BY <1>2, <1>3, <1>4
<1>6. /\ \E f \in F!Hidden .. 2 * F!Hidden - 1, i \in Nat :
           /\ p.frac - below = f * F!Power[Guard] /\ f = LastPlace(m) * i
           /\ f * F!Power[ke] = Wh * F!Power[DoubleBits]
      /\ below \in Nat /\ shifted \in Nat /\ shifted <= 2 * F!One - 1
      /\ E \in Nat /\ shifted * F!Power[DoubleBits] <= E
      /\ E < shifted * F!Power[DoubleBits] + F!Power[ke + DoubleBits + Guard]
  <2> HIDE DEF ke
  <2> QED BY <1>4, ProductSplits, Zenon
<1> HIDE DEF p, x, o, Wh, E, ke, digits, below
<1>7. o = Both(int.v, IF below = 0 THEN F!Zero ELSE frac.v, int)
  <2> HIDE DEF Both, int, frac, near, whole
  <2>1. ~(a.e = 0 \/ b.e = 0) /\ ~(ke <= 0) /\ ~(ke > digits)
    BY <1>4
  <2> QED BY <1>1, <2>1, Zenon
<1>8. int.code = ""
  BY <1>5, PackInRange
\* The integer.
<1>9. /\ F!Fraction(F!to_fac(int.v, m)) * F!Power[ke] = Wh * F!Power[DoubleBits]
      /\ F!to_fac(int.v, m).e = x.exp
  <2>1. PICK f \in F!Hidden .. 2 * F!Hidden - 1, i \in Nat :
             /\ p.frac - below = f * F!Power[Guard] /\ f = LastPlace(m) * i
             /\ f * F!Power[ke] = Wh * F!Power[DoubleBits]
    BY <1>6
  <2>2. PICK e \in 1 .. F!MaxExp - 1 : e = p.exp
    BY <1>5
  <2>3. PackedWhole(F!to_fac(F!round_and_pack(s, e, f * F!Power[Guard], FALSE, m).v, m), e, f)
    <3>1. Whole(m, e, f, i)
      BY <2>1, Zenon DEF Whole
    <3> QED BY <3>1, PackWhole, Zenon
  <2>4. int = F!round_and_pack(s, e, f * F!Power[Guard], FALSE, m)
    BY <2>1, <2>2, Zenon
  <2> HIDE DEF int
  <2>5. F!Fraction(F!to_fac(int.v, m)) = f /\ F!to_fac(int.v, m).e = e
    BY <2>3, <2>4, Zenon DEF PackedWhole
  <2> QED BY <1>3, <2>1, <2>2, <2>5, Zenon
<1> HIDE DEF int
<1>10. o.int = int.v /\ o.v = (IF below = 0 THEN F!Zero ELSE frac.v) /\ o.code = ""
  <2> HIDE DEF frac
  <2> QED BY <1>7, <1>8
<1>11. UnwrappedIn(o, m) = F!to_fac(o.v, m).e
  BY <1>10 DEF UnwrappedIn
\* The fraction.
<1> DEFINE v == F!to_fac(o.v, m)
           place == F!Power[UnwrappedIn(o, m) - F!Bias + DoubleBits + Guard]
           top == F!Power[ke + DoubleBits + Guard]
<1>12. top \in Nat
  BY <1>2, <1>4, FpPowerSteps
<1>13. CASE below = 0
  <2>1. v = F!Zero
    BY <1>10, <1>13, ZeroStays
  <2>2. shifted = 0
    <3>1. F!Power[ke] \in Nat
      BY <1>4, FpPowerSteps
    <3> QED BY <1>13, <3>1
  <2>3. E < top
    <3>1. PICK y \in Nat : y = F!Power[DoubleBits]
      BY <1>2, FpPowerSteps
    <3>2. 0 * y = 0
      OBVIOUS
    <3> HIDE DEF shifted, top
    <3> QED BY <1>6, <1>12, <2>2, <3>1, <3>2 DEF top
  <2> QED BY <1>3, <1>9, <1>10, <2>1, <2>3, Zenon DEF SplitAs, o, x, Wh, E, ke, p
<1>14. CASE below # 0
  <2>1. PICK sh \in Nat \ {0} : sh = shifted /\ sh <= 2 * F!One - 1
    <3>1. PICK y \in Nat \ {0}, u \in Nat \ {0} : y = below /\ u = F!Power[ke]
      BY <1>4, <1>6, <1>14, FpPowerSteps
    <3>2. y * u \in Nat \ {0}
      OBVIOUS
    <3> QED BY <1>6, <3>1, <3>2
  <2> HIDE DEF shifted
  <2>2. /\ F!Shifts(sh) \in 0 .. DoubleBits + Guard - 1
        /\ sh * F!Power[F!Shifts(sh)] \in F!One .. 2 * F!One - 1
    BY <2>1, ShiftsExist
  <2>3. PICK n \in 0 .. DoubleBits + Guard - 1 : n = F!Shifts(sh)
    BY <2>2
  <2>4. n \in Nat /\ F!Bias - n \in 1 .. F!MaxExp - 1
    BY <1>2
  <2>5. PICK e \in 1 .. F!MaxExp - 1, fr \in F!One .. 2 * F!One - 1 :
             e = F!Bias - n /\ fr = sh * F!Power[n]
    BY <2>2, <2>3, <2>4
  <2>6. PackedNear(F!to_fac(F!round_and_pack(s, e, fr, TRUE, m).v, m), m, e, fr)
    <3>1. Packable(m, e, fr)
      BY Zenon DEF Packable
    <3> QED BY <3>1, PackNear, Zenon
  <2>7. v = F!to_fac(F!round_and_pack(s, e, fr, TRUE, m).v, m)
    <3>1. o.v = frac.v
      BY <1>10, <1>14, Zenon
    <3>2. frac = F!round_and_pack(s, e, fr, TRUE, m)
      BY <2>1, <2>3, <2>5, Zenon
    <3> HIDE DEF frac
    <3> QED BY <3>1, <3>2, Zenon
  <2> HIDE DEF v, frac
  <2>8. PICK k \in {0, 1} :
             /\ v.e = e + k
             /\ (F!Fraction(v) * F!Power[k]) * F!Power[Guard]
                  < fr + (LastPlace(m) * F!Power[k]) * F!Power[Guard]
             /\ fr < (F!Fraction(v) * F!Power[k]) * F!Power[Guard]
                       + (LastPlace(m) * F!Power[k]) * F!Power[Guard]
    BY <2>6, <2>7, Zenon DEF PackedNear
  <2>9. v # F!Zero
    <3>1. v.e >= 1
      <4>1. e >= 1 /\ e \in Nat /\ k \in Nat
        BY <1>2
      <4> QED BY <2>8, <4>1
    <3>2. F!Zero.e = 0
      BY DEF F!Zero
    <3> QED BY <3>1, <3>2
  <2>10. PICK y \in Nat, c \in Nat, l \in Nat, g \in Nat \ {0}, h2 \in Nat :
              /\ y = F!Fraction(v) /\ c = F!Power[k] /\ l = LastPlace(m) /\ g = F!Power[Guard]
              /\ h2 = F!Power[DoubleBits]
    <3>1. PICK l \in Nat, g \in Nat \ {0} : l = LastPlace(m) /\ g = F!Power[Guard]
      BY Places, GuardedHidden
    <3>2. PICK c \in Nat : c = F!Power[k]
      BY FpPowerSteps
    <3>3. PICK h2 \in Nat : h2 = F!Power[DoubleBits]
      BY <1>2, FpPowerSteps
    <3>4. PICK y \in Nat : y = F!Fraction(v)
      BY <2>6, <2>7, Zenon DEF PackedNear
    <3> QED BY <3>1, <3>2, <3>3, <3>4
  <2>11. PICK T \in Nat \ {0}, pn \in Nat : pn = F!Power[n] /\ T * pn = h2 * g /\ place = c * T
    <3>1. PICK rv \in Nat : rv = DoubleBits + Guard - n /\ rv + n = DoubleBits + Guard
      BY <1>2, <2>4
    <3>2. PICK T \in Nat \ {0}, pn \in Nat : T = F!Power[rv] /\ pn = F!Power[n]
      BY <2>4, FpPowerSteps
    <3>3. F!Power[rv + n] = F!Power[rv] * F!Power[n]
      BY <2>4, FpPowerOfSum
    <3>4. F!Power[DoubleBits + Guard] = F!Power[DoubleBits] * F!Power[Guard]
      BY <1>2, FpPowerOfSum
    <3>5. F!Power[k + rv] = F!Power[k] * F!Power[rv]
      <4>1. PICK z \in Nat : z = k
        OBVIOUS
      <4> QED BY <4>1, FpPowerOfSum
    <3>6. UnwrappedIn(o, m) - F!Bias + DoubleBits + Guard = k + rv
      <4>1. v.e = (F!Bias - n) + k
        BY <2>5, <2>8
      <4>2. UnwrappedIn(o, m) = v.e
        BY <1>11 DEF v
      <4>3. ((F!Bias - n) + k) - F!Bias + DoubleBits + Guard = k + (DoubleBits + Guard - n)
        BY <1>2, <2>4
      <4> QED BY <3>1, <4>1, <4>2, <4>3, Zenon
    <3>7. T * pn = h2 * g
      BY <2>10, <3>1, <3>2, <3>3, <3>4, Zenon
    <3>8. place = c * T
      BY <2>10, <3>2, <3>5, <3>6, Zenon
    <3> QED BY <3>2, <3>7, <3>8
  <2> HIDE DEF place
  <2>12. PICK S \in Nat, q \in Nat, u \in Nat :
              S = sh * h2 /\ q = y * place /\ u = l * place
    <3>1. sh * h2 \in Nat /\ y * (c * T) \in Nat /\ l * (c * T) \in Nat
      OBVIOUS
    <3> QED BY <2>11, <3>1
  <2>13. q < S + u /\ S < q + u
    <3>1. PICK Fr \in Nat, yc \in Nat, lc \in Nat :
               /\ Fr = fr /\ yc = (y * c) * g /\ lc = (l * c) * g
               /\ yc < Fr + lc /\ Fr < yc + lc
      <4>1. (y * c) * g \in Nat /\ (l * c) * g \in Nat
        OBVIOUS
      <4>2. (y * c) * g < fr + (l * c) * g /\ fr < (y * c) * g + (l * c) * g
        BY <2>8, <2>10, Zenon
      <4>3. fr \in Nat
        BY Ranges
      <4> QED BY <4>1, <4>2, <4>3
    <3>2. Fr * T = S * g
      <4>1. (sh * pn) * T = sh * (T * pn) /\ sh * (h2 * g) = (sh * h2) * g
        OBVIOUS
      <4> QED BY <2>5, <2>11, <2>12, <3>1, <4>1
    <3>3. yc * T = q * g /\ lc * T = u * g
      <4>1. ((y * c) * g) * T = (y * (c * T)) * g /\ ((l * c) * g) * T = (l * (c * T)) * g
        OBVIOUS
      <4> QED BY <2>11, <2>12, <3>1, <4>1
    <3>4. ASSUME NEW i \in Nat, NEW j \in Nat, i < j PROVE i * T < j * T
      <4>1. (i + 1) * T <= j * T
        BY <3>4, TimesGrows
      <4>2. (i + 1) * T = i * T + T
        OBVIOUS
      <4>3. PICK z \in Nat, z2 \in Nat : z = i * T /\ z2 = j * T
        OBVIOUS
      <4> QED BY <4>1, <4>2, <4>3
    <3>5. yc * T < (Fr + lc) * T /\ Fr * T < (yc + lc) * T
      <4>1. Fr + lc \in Nat /\ yc + lc \in Nat
        OBVIOUS
      <4> QED BY <3>1, <3>4, <4>1
    <3>6. (Fr + lc) * T = (S + u) * g /\ (yc + lc) * T = (q + u) * g
      <4>1. /\ (Fr + lc) * T = Fr * T + lc * T /\ (yc + lc) * T = yc * T + lc * T
            /\ (S + u) * g = S * g + u * g /\ (q + u) * g = q * g + u * g
        OBVIOUS
      <4> QED BY <3>2, <3>3, <4>1
    <3>7. q * g < (S + u) * g /\ S * g < (q + u) * g
      BY <3>2, <3>3, <3>5, <3>6
    <3>8. S + u \in Nat /\ q + u \in Nat
      OBVIOUS
    <3> QED BY <3>7, <3>8, TimesCancels
  <2>14. F!Distance(q, E) < top + u
    <3>1. PICK ee \in Nat, tt \in Nat : ee = E /\ tt = top /\ S <= ee /\ ee < S + tt
      BY <1>6, <1>12, <2>1, <2>10, <2>12
    <3>2. F!Distance(q, ee) < tt + u
      BY <2>13, <3>1 DEF F!Distance
    <3> QED BY <3>1, <3>2, Zenon
  <2>15. F!Distance(F!Fraction(v) * place, E) < top + LastPlace(m) * place
    BY <2>10, <2>12, <2>14, Zenon
  <2> QED BY <1>3, <1>9, <1>10, <2>9, <2>15, Zenon DEF SplitAs, o, x, Wh, E, ke, p, v, place
<1> QED BY <1>13, <1>14
-----------------------------------------------------------------------------
(* The instructions.                                                        *)

\* What the property says of a result, an integer, the operands, the modes and the
\* code posted.
Posted(v, code) == IF code = "OVFLO" THEN v.e + F!Power[ExpBits]
                   ELSE IF code = "UNFLO" /\ v.e # 0 THEN v.e - F!Power[ExpBits] ELSE v.e
Gone(v, code) == v = F!Zero /\ code = ""
Near(v, code, m, num, den, exp, t) ==
  LET k == Posted(v, code) - exp
  IN  \/ Gone(v, code) /\ (exp <= 0 \/ exp >= F!MaxExp)
      \/ /\ ~Gone(v, code) /\ k \in {0, 1}
         /\ F!Rounds(F!Fraction(v) * F!Power[k] * den, LastPlace(m) * F!Power[k] * den,
                     num * F!Power[DoubleBits], t)
IsRounded(rv, code, m, a, b, x) ==
  Near(rv, code, m, x.num, x.den, x.exp, m.t) /\ (~Gone(rv, code) => rv.s = F!Sign(a, b))
IsProduct(rv, code, m, a, b) ==
  IF a.e = 0 \/ b.e = 0 THEN rv = F!Zero ELSE IsRounded(rv, code, m, a, b, F!ProductOf(a, b))
IsQuotient(rv, code, m, a, b) ==
  IF a.e = 0 THEN rv = F!Zero ELSE IsRounded(rv, code, m, a, b, F!QuotientOf(a, b))
IsSplit(rv, int, code, m, a, b) ==
  LET p == F!ProductOf(a, b)
      k == p.exp - F!Bias
      whole == (p.num * F!Power[k]) \div p.den
      exact == (p.num * F!Power[k] - whole * p.den) * F!Power[Guard]
      place == F!Power[Posted(rv, code) - F!Bias + DoubleBits + Guard]
  IN  IF a.e = 0 \/ b.e = 0 THEN rv = F!Zero /\ int = F!Zero
      ELSE IF k <= 0 THEN int = F!Zero /\ Near(rv, code, m, p.num, p.den, p.exp, m.t)
      ELSE IF k > (IF m.d THEN DoubleBits ELSE SingleBits)
      THEN rv = F!Zero /\ Near(int, code, m, p.num, p.den, p.exp, TRUE)
      ELSE /\ F!Fraction(int) * F!Power[k] = whole * F!Power[DoubleBits] /\ int.e = p.exp
           /\ IF rv = F!Zero THEN exact < F!Power[k + DoubleBits + Guard]
              ELSE F!Distance(F!Fraction(rv) * place, exact)
                     < F!Power[k + DoubleBits + Guard] + LastPlace(m) * place

\* What the code's callers give of the modes, and of MOD's operands where it splits.
Mode(m) == m.t \in BOOLEAN
Splitting(m, a, b) ==
  /\ Mode(m) /\ a.e # 0 /\ b.e # 0
  /\ F!Product(a, b).exp - F!Bias \in 1 .. (IF m.d THEN DoubleBits ELSE SingleBits)

\* The same, for operands that meet the conditions of the split.
LEMMA SplitsWhole ==
  ASSUME NEW m, NEW a \in F!Value, NEW b \in F!Value, Splitting(m, a, b)
  PROVE  SplitAs(F!modfp11(a, b, m), m, F!ProductOf(a, b), F!Product(a, b).exp - F!Bias)
<1>1. m.t \in BOOLEAN /\ a.e # 0 /\ b.e # 0
  BY Zenon DEF Splitting, Mode
<1>2. F!Product(a, b).exp - F!Bias \in 1 .. (IF m.d THEN DoubleBits ELSE SingleBits)
  BY Zenon DEF Splitting
<1> QED BY <1>1, <1>2, ModSplits

\* What an instruction leaves of its operands, and the code it posts.
LEMMA OperandsKept ==
  ASSUME Ready, last.op = "load", NEW op, NEW b, NEW code, F!Executes(op, b),
         F!post_fpe(code, op)
  PROVE  /\ last'.op = op /\ last'.b = b /\ last'.a = ac /\ fps' = fps /\ fec' = code
<1>1. er = FALSE /\ fec = "" /\ fps \in F!FpsModes
  BY Zenon DEF Ready
<1>2. last'.op = op /\ last'.b = b /\ last'.a = ac /\ fps' = fps
  BY DEF F!Executes
<1>3. fec' = code
  BY <1>1, Zenon DEF F!post_fpe
<1> QED BY <1>2, <1>3

\* A rounded outcome is near the number that it rounds.
LEMMA NearAs ==
  ASSUME NEW o, NEW m, NEW s, NEW num, NEW den, NEW exp, NEW t,
         RoundedAs(o, m, s, num, den, exp, t)
  PROVE  /\ Near(F!to_fac(o.v, m), o.code, m, num, den, exp, t)
         /\ ~Gone(F!to_fac(o.v, m), o.code) => F!to_fac(o.v, m).s = s
<1> QED BY Zenon DEF RoundedAs, Near, Posted, Gone, UnwrappedIn, Lost

\* mulfp11 rounds the exact product.
LEMMA MulRounded ==
  ASSUME NEW m, Mode(m), NEW a \in F!Value, NEW b \in F!Value
  PROVE  LET o == F!mulfp11(a, b, m) IN IsProduct(F!to_fac(o.v, m), o.code, m, a, b)
<1>0. m.t \in BOOLEAN
  BY Zenon DEF Mode
<1> USE <1>0
<1> DEFINE o == F!mulfp11(a, b, m)
           x == F!ProductOf(a, b)
<1>1. CASE a.e = 0 \/ b.e = 0
  <2>1. o = F!Outcome(F!Zero, FALSE, "")
    BY <1>1, Zenon DEF F!mulfp11
  <2> HIDE DEF o
  <2>2. o.v = F!Zero
    BY <2>1 DEF F!Outcome
  <2>3. F!to_fac(o.v, m) = F!Zero
    BY <2>2, ZeroStays
  <2> QED BY <1>1, <2>3, Zenon DEF IsProduct, o
<1>2. CASE ~(a.e = 0 \/ b.e = 0)
  <2>1. o = F!round_and_pack(F!Sign(a, b), F!Product(a, b).exp, F!Product(a, b).frac, TRUE, m)
    BY <1>2, Zenon DEF F!mulfp11
  <2>2. PICK t \in BOOLEAN, round \in BOOLEAN :
             t = m.t /\ round = TRUE /\ (t <=> ~(round /\ ~m.t))
    OBVIOUS
  <2>c. Cuts(m, round, t)
    BY <2>2, Zenon DEF Cuts
  <2>3. RoundedAs(F!round_and_pack(F!Sign(a, b), F!Product(a, b).exp, F!Product(a, b).frac,
                                   round, m), m, F!Sign(a, b), x.num, x.den, x.exp, t)
    BY <2>c, PackProduct, Zenon
  <2> HIDE DEF o, x
  <2>4. RoundedAs(o, m, F!Sign(a, b), x.num, x.den, x.exp, m.t)
    BY <2>1, <2>2, <2>3, Zenon
  <2>5. IsRounded(F!to_fac(o.v, m), o.code, m, a, b, x)
    BY <2>4, NearAs, Zenon DEF IsRounded
  <2> QED BY <1>2, <2>5, Zenon DEF IsProduct, o, x
<1> QED BY <1>1, <1>2

\* divfp11 rounds the exact quotient.
LEMMA DivRounded ==
  ASSUME NEW m, Mode(m), NEW a \in F!Value, NEW b \in F!Value
  PROVE  LET o == F!divfp11(a, b, m) IN IsQuotient(F!to_fac(o.v, m), o.code, m, a, b)
<1>0. m.t \in BOOLEAN
  BY Zenon DEF Mode
<1> USE <1>0
<1> DEFINE o == F!divfp11(a, b, m)
           x == F!QuotientOf(a, b)
<1>1. CASE a.e = 0
  <2>1. o = F!Outcome(F!Zero, FALSE, "")
    BY <1>1, Zenon DEF F!divfp11
  <2> HIDE DEF o
  <2>2. o.v = F!Zero
    BY <2>1 DEF F!Outcome
  <2>3. F!to_fac(o.v, m) = F!Zero
    BY <2>2, ZeroStays
  <2> QED BY <1>1, <2>3, Zenon DEF IsQuotient, o
<1>2. CASE a.e # 0
  <2>1. RoundedAs(o, m, F!Sign(a, b), x.num, x.den, x.exp, m.t)
    BY <1>2, PackQuotient
  <2> HIDE DEF o, x
  <2>2. IsRounded(F!to_fac(o.v, m), o.code, m, a, b, x)
    BY <2>1, NearAs, Zenon DEF IsRounded
  <2> QED BY <1>2, <2>2, Zenon DEF IsQuotient, o, x
<1> QED BY <1>1, <1>2

\* modfp11 leaves the whole part and the rounded fraction.
LEMMA ModRounded ==
  ASSUME NEW m, Mode(m), NEW a \in F!Value, NEW b \in F!Value
  PROVE  LET o == F!modfp11(a, b, m)
         IN  IsSplit(F!to_fac(o.v, m), F!to_fac(o.int, m), o.code, m, a, b)
<1>0. m.t \in BOOLEAN
  BY Zenon DEF Mode
<1> USE <1>0
<1> DEFINE p == F!Product(a, b)
           x == F!ProductOf(a, b)
           s == F!Sign(a, b)
           ke == p.exp - F!Bias
           below == p.frac % F!Power[DoubleBits + Guard - ke]
           shifted == below * F!Power[ke]
           frac == F!round_and_pack(s, F!Bias - F!Shifts(shifted),
                                    shifted * F!Power[F!Shifts(shifted)], TRUE, m)
           int == F!round_and_pack(s, p.exp, p.frac - below, FALSE, m)
           whole == F!round_and_pack(s, p.exp, p.frac, FALSE, m)
           near == F!round_and_pack(s, p.exp, p.frac, TRUE, m)
           Both(i, f, res) == [int |-> i, v |-> f, overflow |-> res.overflow, code |-> res.code]
           digits == IF m.d THEN DoubleBits ELSE SingleBits
           o == F!modfp11(a, b, m)
<1>1. o = IF a.e = 0 \/ b.e = 0 THEN Both(F!Zero, F!Zero, F!Outcome(F!Zero, FALSE, ""))
          ELSE IF ke <= 0 THEN Both(F!Zero, near.v, near)
          ELSE IF ke > digits THEN Both(whole.v, F!Zero, whole)
          ELSE Both(int.v, IF below = 0 THEN F!Zero ELSE frac.v, int)
  BY Zenon DEF F!modfp11
<1>2. x.exp = p.exp /\ p.exp \in Int /\ F!Bias \in Nat
  BY ProductRounds, ProductFits, Ranges, Zenon
<1>3. F!to_fac(F!Zero, m) = F!Zero
  BY ZeroStays
<1>4. \A i, f, res : /\ Both(i, f, res).int = i /\ Both(i, f, res).v = f
                     /\ Both(i, f, res).code = res.code
  OBVIOUS
<1>5. PICK t \in BOOLEAN, yes \in BOOLEAN, no \in BOOLEAN, cut \in BOOLEAN :
           /\ t = m.t /\ yes = TRUE /\ no = FALSE /\ cut = TRUE
           /\ (t <=> ~(yes /\ ~m.t)) /\ (cut <=> ~(no /\ ~m.t))
  OBVIOUS
<1>6. RoundedAs(near, m, s, x.num, x.den, x.exp, t)
  <2>1. Cuts(m, yes, t)
    BY <1>5, Zenon DEF Cuts
  <2>2. RoundedAs(F!round_and_pack(s, p.exp, p.frac, yes, m), m, s, x.num, x.den, x.exp, t)
    BY <2>1, PackProduct, Zenon
  <2> QED BY <1>5, <2>2, Zenon
<1>7. RoundedAs(whole, m, s, x.num, x.den, x.exp, cut)
  <2>1. Cuts(m, no, cut)
    BY <1>5, Zenon DEF Cuts
  <2>2. RoundedAs(F!round_and_pack(s, p.exp, p.frac, no, m), m, s, x.num, x.den, x.exp, cut)
    BY <2>1, PackProduct, Zenon
  <2> QED BY <1>5, <2>2, Zenon
<1> HIDE DEF o, Both, near, whole, int, frac, below, shifted, s
<1>8. CASE a.e = 0 \/ b.e = 0
  <2>1. o = Both(F!Zero, F!Zero, F!Outcome(F!Zero, FALSE, ""))
    BY <1>1, <1>8, Zenon
  <2>2. o.v = F!Zero /\ o.int = F!Zero
    BY <2>1 DEF Both
  <2> QED BY <1>3, <1>8, <2>2, Zenon DEF IsSplit, o
<1>9. CASE ~(a.e = 0 \/ b.e = 0) /\ ke <= 0
  <2> HIDE DEF ke, x
  <2>1. o.v = near.v /\ o.int = F!Zero /\ o.code = near.code
    <3>1. o = Both(F!Zero, near.v, near)
      BY <1>1, <1>9, Zenon
    <3> QED BY <3>1 DEF Both
  <2>2. Near(F!to_fac(o.v, m), o.code, m, x.num, x.den, x.exp, m.t)
    BY <1>5, <1>6, <2>1, NearAs, Zenon
  <2>3. x.exp - F!Bias = ke
    BY <1>2 DEF ke
  <2> QED BY <1>3, <1>9, <2>1, <2>2, <2>3, Zenon DEF IsSplit, o, x
<1>10. CASE ~(a.e = 0 \/ b.e = 0) /\ ~(ke <= 0) /\ ke > digits
  <2> HIDE DEF ke, x
  <2>1. o.int = whole.v /\ o.v = F!Zero /\ o.code = whole.code
    <3> HIDE DEF digits
    <3>1. o = Both(whole.v, F!Zero, whole)
      BY <1>1, <1>10, Zenon
    <3> QED BY <3>1 DEF Both
  <2>2. Near(F!to_fac(o.int, m), o.code, m, x.num, x.den, x.exp, TRUE)
    BY <1>5, <1>7, <2>1, NearAs, Zenon
  <2>3. x.exp - F!Bias = ke
    BY <1>2 DEF ke
  <2> QED BY <1>3, <1>10, <2>1, <2>2, <2>3, Zenon DEF IsSplit, o, x
<1>11. CASE ~(a.e = 0 \/ b.e = 0) /\ ~(ke <= 0) /\ ~(ke > digits)
  <2>1. ke \in 1 .. digits
    <3>1. digits \in Nat
      BY FpWidths DEF F!WidthAssumption
    <3> HIDE DEF digits
    <3> QED BY <1>2, <1>11, <3>1
  <2>2. SplitAs(o, m, x, ke)
    <3>1. Splitting(m, a, b)
      BY <1>0, <1>11, <2>1, Zenon DEF Splitting, Mode
    <3> QED BY <3>1, SplitsWhole, Zenon DEF o
  <2> HIDE DEF ke, x
  <2>3. x.exp - F!Bias = ke
    BY <1>2 DEF ke
  <2>4. UnwrappedIn(o, m) = Posted(F!to_fac(o.v, m), o.code)
    BY Zenon DEF UnwrappedIn, Posted
  <2>5. IsSplit(F!to_fac(o.v, m), F!to_fac(o.int, m), o.code, m, a, b)
    BY <1>11, <2>2, <2>3, <2>4, Zenon DEF IsSplit, SplitAs, x
  <2> QED BY <2>5 DEF o
<1> QED BY <1>8, <1>9, <1>10, <1>11

\* The property speaks of an instruction's own operands and result.
RoundsNow ==
  /\ last.op = "MUL" => IsProduct(F!R, fec, fps, F!A, F!B)
  /\ last.op = "DIV" /\ F!B.e # 0 => IsQuotient(F!R, fec, fps, F!A, F!B)
  /\ last.op = "MOD" => IsSplit(F!R, F!to_fac(ac1, fps), fec, fps, F!A, F!B)

\* What the induction keeps is the property.
LEMMA RoundsNowMeans == RoundsNow => F!ProductsRounded
<1> SUFFICES ASSUME RoundsNow PROVE F!ProductsRounded
  OBVIOUS
<1>1. F!Unit = LastPlace(fps)
  BY Zenon DEF F!Unit, LastPlace
<1>2. \A v : F!Suppressed(v) <=> Gone(v, fec)
  BY Zenon DEF F!Suppressed, Gone
<1>3. \A v : F!Unwrapped(v) = Posted(v, fec)
  BY Zenon DEF F!Unwrapped, Posted
<1>4. \A v, num, den, exp, t :
        Near(v, fec, fps, num, den, exp, t) => F!RoundedTo(v, num, den, exp, t)
  BY <1>1, <1>2, <1>3, Zenon DEF Near, F!RoundedTo
<1>5. F!RoundsProduct
  <2>1. ASSUME last.op = "MUL"
        PROVE  IF F!A.e = 0 \/ F!B.e = 0 THEN F!R = F!Zero
               ELSE LET p == F!ProductOf(F!A, F!B)
                    IN  /\ F!RoundedTo(F!R, p.num, p.den, p.exp, fps.t)
                        /\ ~F!Suppressed(F!R) => F!R.s = F!Sign(F!A, F!B)
    <3>1. IsProduct(F!R, fec, fps, F!A, F!B)
      BY <2>1 DEF RoundsNow
    <3> QED BY <1>2, <1>4, <3>1, Zenon DEF IsProduct, IsRounded
  <2>2. ASSUME last.op = "DIV", F!B.e # 0
        PROVE  IF F!A.e = 0 THEN F!R = F!Zero
               ELSE LET q == F!QuotientOf(F!A, F!B)
                    IN  /\ F!RoundedTo(F!R, q.num, q.den, q.exp, fps.t)
                        /\ ~F!Suppressed(F!R) => F!R.s = F!Sign(F!A, F!B)
    <3>1. IsQuotient(F!R, fec, fps, F!A, F!B)
      BY <2>2 DEF RoundsNow
    <3> QED BY <1>2, <1>4, <3>1, Zenon DEF IsQuotient, IsRounded
  <2> QED BY <2>1, <2>2, Zenon DEF F!RoundsProduct
<1>6. F!SplitsProduct
  <2>1. ASSUME last.op = "MOD" PROVE F!SplitsProduct
    <3>1. IsSplit(F!R, F!to_fac(ac1, fps), fec, fps, F!A, F!B)
      BY <2>1 DEF RoundsNow
    <3> QED BY <1>1, <1>3, <1>4, <3>1, Zenon DEF IsSplit, F!SplitsProduct
  <2> QED BY <2>1, Zenon DEF F!SplitsProduct
<1> QED BY <1>5, <1>6 DEF F!ProductsRounded

\* Every instruction keeps it.
LEMMA FpStepRounds ==
  ASSUME Ready, RoundsNow, F!Next
  PROVE  RoundsNow'
<1>1. CASE last.op = "none" /\ \E m \in Settings, v \in FpValues : F!Load(m, v)
  <2>1. last'.op = "load"
    BY <1>1 DEF F!Load
  <2> QED BY <2>1 DEF RoundsNow
<1>2. CASE F!Reset
  <2>1. last'.op = "none"
    BY <1>2 DEF F!Reset
  <2> QED BY <2>1 DEF RoundsNow
<1>3. CASE last.op = "load" /\ F!Execute
  <2>1. er = FALSE /\ fec = "" /\ fps \in F!FpsModes /\ ac \in F!Value
    BY <1>3, Zenon DEF Ready
  <2>2. Mode(fps)
    BY <2>1 DEF F!FpsModes, Mode
  <2>3. FpValues \subseteq F!Value
    BY FpWidths DEF F!WidthAssumption
  <2>4. \A v \in F!Value : F!to_fac(v, fps) \in F!Value /\ F!to_fac(v, fps).e = v.e
    BY FacType
  <2>5. F!to_fac(ac, fps) \in F!Value
    BY <2>1, <2>4
  <2>6. ASSUME NEW op, NEW b, F!Executes(op, b), op \notin {"MUL", "DIV", "MOD"}
        PROVE  RoundsNow'
    <3>1. last'.op = op
      BY <2>6 DEF F!Executes
    <3> QED BY <2>6, <3>1, Zenon DEF RoundsNow
  <2>7. ASSUME NEW b \in FpValues, NEW op \in {"ADD", "SUB", "MUL"}, F!Arithmetic(op, b)
        PROVE  RoundsNow'
    <3> DEFINE src == IF op = "SUB" /\ b.e # 0 THEN [b EXCEPT !.s = 1 - @] ELSE b
               o == IF op = "MUL" THEN F!mulfp11(F!to_fac(ac, fps), F!to_fac(src, fps), fps)
                    ELSE F!addfp11(F!to_fac(ac, fps), F!to_fac(src, fps), fps)
    <3>1. F!Executes(op, b) /\ ac' = o.v /\ F!post_fpe(o.code, op)
      BY <2>7, Zenon DEF F!Arithmetic
    <3>2. CASE op # "MUL"
      <4>1. op \notin {"MUL", "DIV", "MOD"}
        BY <3>2
      <4> QED BY <2>6, <3>1, <4>1, Zenon
    <3>3. CASE op = "MUL"
      <4>1. src = b /\ o = F!mulfp11(F!to_fac(ac, fps), F!to_fac(b, fps), fps)
        BY <3>3
      <4> HIDE DEF o, src
      <4>2. F!to_fac(b, fps) \in F!Value
        BY <2>3, <2>4
      <4>3. IsProduct(F!to_fac(o.v, fps), o.code, fps, F!to_fac(ac, fps), F!to_fac(b, fps))
        BY <2>2, <2>5, <4>1, <4>2, MulRounded, Zenon
      <4>4. /\ last'.op = op /\ last'.b = b /\ last'.a = ac /\ fps' = fps /\ fec' = o.code
        BY <1>3, <3>1, OperandsKept, Zenon
      <4>5. IsProduct(F!to_fac(ac', fps'), fec', fps', F!to_fac(last'.a, fps'),
                      F!to_fac(last'.b, fps'))
        BY <3>1, <4>3, <4>4, Zenon
      <4>6. last'.op # "DIV" /\ last'.op # "MOD"
        BY <3>3, <4>4
      <4> QED BY <4>5, <4>6, Zenon DEF RoundsNow, F!R, F!A, F!B
    <3> QED BY <3>2, <3>3
  <2>8. ASSUME NEW b \in FpValues, F!DIVf(b)
        PROVE  RoundsNow'
    <3> DEFINE o == F!divfp11(F!to_fac(ac, fps), F!to_fac(b, fps), fps)
    <3>1. F!Executes("DIV", b)
      BY <2>8 DEF F!DIVf
    <3>2. last'.op = "DIV" /\ last'.b = b /\ last'.a = ac /\ fps' = fps
      BY <3>1 DEF F!Executes
    <3>3. F!to_fac(b, fps) \in F!Value /\ F!to_fac(b, fps).e = b.e
      BY <2>3, <2>4
    <3>4. CASE b.e = 0
      <4>1. F!to_fac(last'.b, fps').e = 0
        BY <3>2, <3>3, <3>4
      <4>2. last'.op # "MUL" /\ last'.op # "MOD"
        BY <3>2
      <4> QED BY <4>1, <4>2, Zenon DEF RoundsNow, F!B
    <3>5. CASE b.e # 0
      <4>1. ac' = o.v /\ F!post_fpe(o.code, "DIV")
        BY <2>8, <3>5, Zenon DEF F!DIVf
      <4>2. IsQuotient(F!to_fac(o.v, fps), o.code, fps, F!to_fac(ac, fps), F!to_fac(b, fps))
        BY <2>2, <2>5, <3>3, DivRounded, Zenon
      <4> HIDE DEF o
      <4>3. fec' = o.code
        BY <1>3, <3>1, <4>1, OperandsKept, Zenon
      <4>4. IsQuotient(F!to_fac(ac', fps'), fec', fps', F!to_fac(last'.a, fps'),
                       F!to_fac(last'.b, fps'))
        BY <3>2, <4>1, <4>2, <4>3, Zenon
      <4>5. last'.op # "MUL" /\ last'.op # "MOD"
        BY <3>2
      <4> QED BY <4>4, <4>5, Zenon DEF RoundsNow, F!R, F!A, F!B
    <3> QED BY <3>4, <3>5
  <2>9. ASSUME NEW b \in FpValues, F!MODf(b)
        PROVE  RoundsNow'
    <3> DEFINE o == F!modfp11(F!to_fac(ac, fps), F!to_fac(b, fps), fps)
    <3>1. F!Executes("MOD", b) /\ ac' = o.v /\ ac1' = o.int /\ F!post_fpe(o.code, "MOD")
      BY <2>9, Zenon DEF F!MODf
    <3>2. last'.op = "MOD" /\ last'.b = b /\ last'.a = ac /\ fps' = fps
      BY <3>1 DEF F!Executes
    <3>3. F!to_fac(b, fps) \in F!Value
      BY <2>3, <2>4
    <3>4. IsSplit(F!to_fac(o.v, fps), F!to_fac(o.int, fps), o.code, fps, F!to_fac(ac, fps),
                  F!to_fac(b, fps))
      BY <2>2, <2>5, <3>3, ModRounded, Zenon
    <3> HIDE DEF o
    <3>5. fec' = o.code
      BY <1>3, <3>1, OperandsKept, Zenon
    <3>6. IsSplit(F!to_fac(ac', fps'), F!to_fac(ac1', fps'), fec', fps',
                  F!to_fac(last'.a, fps'), F!to_fac(last'.b, fps'))
      BY <3>1, <3>2, <3>4, <3>5, Zenon
    <3>7. last'.op # "MUL" /\ last'.op # "DIV"
      BY <3>2
    <3> QED BY <3>6, <3>7, Zenon DEF RoundsNow, F!R, F!A, F!B
  <2>11. ASSUME NEW b \in FpValues, F!CMPf(b) \/ (\E reg \in BOOLEAN : F!LDCff(b, reg))
         PROVE  RoundsNow'
    <3>1. F!Executes("CMP", b) \/ \E source : F!Executes("LDCff", source)
      BY <2>11, Zenon DEF F!CMPf, F!LDCff
    <3>2. "CMP" \notin {"MUL", "DIV", "MOD"} /\ "LDCff" \notin {"MUL", "DIV", "MOD"}
      OBVIOUS
    <3> QED BY <2>6, <3>1, <3>2, Zenon
  <2>12. ASSUME NEW op \in {"CLR", "TST", "ABS", "NEG"}, F!Unary(op) PROVE RoundsNow'
    <3>1. F!Executes(op, F!Zero)
      BY <2>12, Zenon DEF F!Unary
    <3>2. op \notin {"MUL", "DIV", "MOD"}
      OBVIOUS
    <3> QED BY <2>6, <3>1, <3>2, Zenon
  <2>13. ASSUME (\E reg \in BOOLEAN : F!STCff(reg)) \/ F!STEXP \/ F!STCfi
                  \/ (\E x \in Exponents : F!LDEXP(x))
                  \/ (\E i \in 0 .. F!Power[IntBits] - 1 : F!LDCif(i))
         PROVE  RoundsNow'
    <3>1. \E op \in {"STCff", "STEXP", "STCfi", "LDEXP", "LDCif"} : F!Executes(op, F!Zero)
      BY <2>13, Zenon DEF F!STCff, F!STEXP, F!STCfi, F!LDEXP, F!LDCif
    <3>2. PICK op \in {"STCff", "STEXP", "STCfi", "LDEXP", "LDCif"} : F!Executes(op, F!Zero)
      BY <3>1
    <3>3. op \notin {"MUL", "DIV", "MOD"}
      OBVIOUS
    <3> QED BY <2>6, <3>2, <3>3, Zenon
  <2> QED BY <1>3, <2>7, <2>8, <2>9, <2>11, <2>12, <2>13, Zenon DEF F!Execute
<1> QED BY <1>1, <1>2, <1>3 DEF F!Next

\* fp.c, mulfp11, divfp11 and modfp11: a product and a quotient are the exact ones,
\* rounded to nearest or cut off, although the loops drop bits and may end early; MOD
\* leaves the whole part of the product exactly, and its fraction within a last place.
THEOREM FpProducts == DatapathSpec => []FpProductsRounded
<1> DEFINE Inv == Ready /\ F!ExceptionsReported /\ RoundsNow
<1>1. DatapathInit => Inv
  <2> SUFFICES ASSUME DatapathInit PROVE Inv
    OBVIOUS
  <2>1. /\ last.op = "none" /\ er = FALSE /\ trapped = FALSE
        /\ fec = "" /\ fpCc.c = FALSE /\ fpCc.v = FALSE
    BY DEF DatapathInit, F!Init, F!fp_setcc
  <2> QED BY <2>1 DEF Ready, F!ExceptionsReported, RoundsNow
<1>2. Inv /\ [DatapathNext]_<<unit, vars, aluVars, fpVars>> => Inv'
  <2> SUFFICES ASSUME Inv, [DatapathNext]_<<unit, vars, aluVars, fpVars>> PROVE Inv'
    OBVIOUS
  <2>1. CASE F!Next
    BY <2>1, FpStepReports, FpStepRounds
  <2>2. CASE UNCHANGED fpVars
    BY <2>2 DEF fpVars, Ready, F!ExceptionsReported, F!R, F!A, F!B, F!to_fac, RoundsNow
  <2> QED BY <2>1, <2>2 DEF DatapathNext
<1>3. Inv => FpProductsRounded
  BY RoundsNowMeans DEF FpProductsRounded
<1> QED BY <1>1, <1>2, <1>3, PTL DEF DatapathSpec
-----------------------------------------------------------------------------
(* Conversions.                                                             *)

\* Scaling keeps a rounding.
LEMMA RoundsTimes ==
  ASSUME NEW rv \in Nat, NEW u \in Nat, NEW x \in Nat, NEW c \in Nat \ {0}, NEW t,
         F!Rounds(rv, u, x, t)
  PROVE  F!Rounds(rv * c, u * c, x * c, t)
<1>1. \A a, b \in Int : a <= b => a * c <= b * c
  <2> SUFFICES ASSUME NEW a \in Int, NEW b \in Int, a <= b PROVE a * c <= b * c
    OBVIOUS
  <2>1. PICK k \in Nat : b = a + k
    <3>1. b - a \in Nat /\ b = a + (b - a)
      OBVIOUS
    <3> QED BY <3>1
  <2>2. (a + k) * c = a * c + k * c /\ k * c \in Nat /\ a * c \in Int
    OBVIOUS
  <2> QED BY <2>1, <2>2
<1>2. \A a, b \in Int : a < b => a * c < b * c
  <2> SUFFICES ASSUME NEW a \in Int, NEW b \in Int, a < b PROVE a * c < b * c
    OBVIOUS
  <2>1. (a + 1) * c <= b * c
    BY <1>1
  <2>2. (a + 1) * c = a * c + c /\ a * c \in Int
    OBVIOUS
  <2> QED BY <2>1, <2>2
<1>3. CASE t
  <2>1. rv <= x /\ x < rv + u
    BY <1>3 DEF F!Rounds
  <2>2. rv * c <= x * c /\ x * c < (rv + u) * c
    BY <1>1, <1>2, <2>1
  <2>3. (rv + u) * c = rv * c + u * c
    OBVIOUS
  <2> QED BY <1>3, <2>2, <2>3 DEF F!Rounds
<1>4. CASE ~t
  <2>1. 2 * (rv - x) <= u /\ 2 * (x - rv) < u
    BY <1>4 DEF F!Rounds
  <2>2. (2 * (rv - x)) * c <= u * c /\ (2 * (x - rv)) * c < u * c
    BY <1>1, <1>2, <2>1
  <2>3. 2 * (rv * c - x * c) = (2 * (rv - x)) * c /\ 2 * (x * c - rv * c) = (2 * (x - rv)) * c
    OBVIOUS
  <2> QED BY <1>4, <2>2, <2>3 DEF F!Rounds
<1> QED BY <1>3, <1>4

\* What the property says of a value and its conversion to single precision.
Over(v) == v.e = F!MaxExp /\ F!Fraction(v) + F!Power[F!LowBits - 1] >= 2 * F!Hidden
IsNarrowed(v, rv, flag, t) ==
  /\ flag = (~t /\ Over(v))
  /\ IF v.e = 0 \/ (~t /\ Over(v)) THEN rv.e = 0 /\ rv.f = 0
     ELSE /\ rv.s = v.s /\ rv.e - v.e \in {0, 1}
          /\ F!Rounds(F!Fraction(rv) * F!Power[rv.e - v.e], F!Power[F!LowBits + (rv.e - v.e)],
                      F!Fraction(v), t)

\* The power of the low bits, half of it, and the hidden bit.
LEMMA LowHalf ==
  \E l \in Nat \ {0}, k \in Nat \ {0} :
    /\ l = F!Power[F!LowBits - 1] /\ F!Power[F!LowBits] = 2 * l /\ F!Hidden = (2 * l) * k
    /\ 2 * l <= F!Hidden /\ F!Power[F!LowBits + 1] = 2 * (2 * l)
<1>1. /\ F!LowBits - 1 \in Nat /\ (F!LowBits - 1) + 1 = F!LowBits
      /\ SingleBits - 1 \in Nat /\ F!LowBits + (SingleBits - 1) = DoubleBits - 1
      /\ F!LowBits \in Nat
  BY FpWidths DEF F!LowBits, F!WidthAssumption
<1>2. PICK l \in Nat \ {0} : l = F!Power[F!LowBits - 1] /\ F!Power[F!LowBits] = 2 * l
  BY <1>1, FpPowerSteps
<1>3. PICK k \in Nat \ {0} : k = F!Power[SingleBits - 1]
  BY <1>1, FpPowerSteps
<1>4. F!Power[F!LowBits + (SingleBits - 1)] = F!Power[F!LowBits] * F!Power[SingleBits - 1]
  BY <1>1, FpPowerOfSum
<1>5. F!Hidden = (2 * l) * k
  BY <1>1, <1>2, <1>3, <1>4 DEF F!Hidden
<1>6. 2 * l <= (2 * l) * k
  <2>1. 1 * (2 * l) <= k * (2 * l) /\ k * (2 * l) = (2 * l) * k
    BY TimesGrows
  <2> QED BY <2>1
<1>7. F!Power[F!LowBits + 1] = 2 * (2 * l)
  BY <1>1, <1>2, FpPowerSteps
<1> QED BY <1>2, <1>5, <1>6, <1>7

\* Single precision cuts off the low bits of a value, and of nothing else.
LEMMA CutNarrows ==
  ASSUME NEW v \in F!Value, NEW m, ~m.d, v.e # 0
  PROVE  IsNarrowed(v, F!to_fac(v, m), FALSE, TRUE)
<1>1. PICK h \in Nat \ {0}, x \in F!Hidden .. 2 * F!Hidden - 1, e \in Nat :
           h = F!Hidden /\ x = F!Fraction(v) /\ e = v.e /\ x = h + v.f
  BY Ranges, ValueFields DEF F!Fraction
<1>2. v.f \in 0 .. h - 1 /\ x % h = v.f
  <2>1. x \in h .. 2 * h - 1 /\ x % h = x - h /\ v.f \in Nat
    BY <1>1, ValueFields, ModNear
  <2> QED BY <1>1, <2>1
<1>3. v = [s |-> v.s, e |-> e, f |-> x % F!Hidden]
  BY <1>1, <1>2 DEF F!Value
<1>4. MaskedTo(F!to_fac(v, m), m, v.s, e, x)
  BY <1>3, Masked, Zenon
<1> DEFINE rv == F!to_fac(v, m)
<1> HIDE DEF rv
<1>5. /\ rv.s = v.s /\ rv.e = e /\ F!Fraction(rv) \in Nat
      /\ F!Fraction(rv) <= x /\ x < F!Fraction(rv) + F!Power[F!LowBits]
  BY <1>1, <1>4 DEF MaskedTo, rv, LastPlace
<1>6. rv.e - v.e = 0 /\ F!LowBits + 0 = F!LowBits /\ F!Power[0] = 1
  BY <1>1, <1>5, Ranges, FpPowerSteps
<1>7. F!Rounds(F!Fraction(rv) * F!Power[0], F!Power[F!LowBits + 0], F!Fraction(v), TRUE)
  BY <1>1, <1>5, <1>6 DEF F!Rounds
<1>9. (rv.e - v.e) \in {0, 1}
  BY <1>6
<1>10. F!Rounds(F!Fraction(rv) * F!Power[rv.e - v.e], F!Power[F!LowBits + (rv.e - v.e)],
                F!Fraction(v), TRUE)
  BY <1>6, <1>7, Zenon
<1>11. FALSE = (~TRUE /\ Over(v))
  OBVIOUS
<1>12. IsNarrowed(v, rv, FALSE, TRUE)
  BY <1>5, <1>9, <1>10, <1>11, Zenon DEF IsNarrowed
<1> QED BY <1>12 DEF rv
\* fp.c, roundfp11: half a last place is added, the carry goes into the exponent.
LEMMA RoundNarrows ==
  ASSUME NEW v \in F!Value, NEW m, NEW n, ~n.d, v.e # 0
  PROVE  LET o == F!roundfp11(v, m)
         IN  /\ IsNarrowed(v, F!to_fac(o.v, n), o.overflow, FALSE)
             /\ ~Over(v) => o.code = "" /\ F!Fraction(F!to_fac(o.v, n)) \in Nat
<1> DEFINE sum == F!Magnitude(v) + F!Power[F!LowBits - 1]
           out == [s |-> v.s, e |-> (sum \div F!Hidden) % F!Power[ExpBits],
                   f |-> sum % F!Hidden]
           o == F!roundfp11(v, m)
           rv == F!to_fac(o.v, n)
<1>1. o = IF sum >= F!Power[ExpBits] * F!Hidden THEN F!Excepted(out, TRUE, "OVFLO", m)
          ELSE F!Outcome(out, FALSE, "")
  BY Zenon DEF F!roundfp11
<1>2. PICK h \in Nat \ {0}, l \in Nat \ {0} :
           /\ h = F!Hidden /\ l = F!Power[F!LowBits - 1] /\ 2 * l <= h
           /\ F!Power[F!LowBits] = 2 * l /\ F!Power[F!LowBits + 1] = 2 * (2 * l)
  BY LowHalf, Ranges
<1>3. PICK b \in Nat \ {0} : b = F!Power[ExpBits] /\ F!MaxExp = b - 1
  BY Ranges
<1>4. PICK e \in Nat, f \in 0 .. h - 1 :
           /\ e = v.e /\ f = v.f /\ F!Magnitude(v) = e * h + f /\ e >= 1 /\ e <= b - 1
  BY <1>2, <1>3, ValueFields
<1>5. PICK x \in Nat : x = h + f /\ x = F!Fraction(v)
  BY <1>2, <1>4 DEF F!Fraction
<1>6. PICK t \in Nat : t = e * h + f + l /\ t = sum
  <2>1. e * h \in Nat
    OBVIOUS
  <2> QED BY <1>2, <1>4, <2>1
<1>7. PICK eh \in Nat, bh \in Nat : eh = e * h /\ bh = b * h
  OBVIOUS
<1>8. out = [s |-> v.s, e |-> (t \div h) % b, f |-> t % h]
  BY <1>2, <1>3, <1>6, Zenon
<1>9. o = IF t >= bh THEN F!Excepted(out, TRUE, "OVFLO", m) ELSE F!Outcome(out, FALSE, "")
  BY <1>1, <1>2, <1>3, <1>6, <1>7, Zenon
<1>10. Over(v) <=> e = b - 1 /\ f + l >= h
  BY <1>2, <1>3, <1>4, <1>5 DEF Over
<1>11. F!Power[0] = 1 /\ F!Power[1] = 2 /\ F!LowBits + 0 = F!LowBits
  <2>1. 0 + 1 = 1 /\ F!LowBits \in Nat
    BY Ranges
  <2>2. F!Power[0 + 1] = 2 * F!Power[0] /\ F!Power[0] = 1
    BY FpPowerSteps
  <2> QED BY <2>1, <2>2
<1> HIDE DEF sum, out, o, rv
<1>12. CASE f + l < h
  <2>1. (e + 1) * h <= bh /\ (e + 1) * h = eh + h
    <3>1. e + 1 <= b
      BY <1>4
    <3>2. (e + 1) * h <= b * h
      BY <3>1, TimesGrows
    <3>3. (e + 1) * h = e * h + h
      OBVIOUS
    <3> QED BY <1>7, <3>2, <3>3
  <2>2. ~(t >= bh)
    BY <1>6, <1>7, <1>12, <2>1
  <2>3. PICK g \in 0 .. h - 1 : g = f + l
    BY <1>12
  <2>4. t \div h = e /\ t % h = g
    <3>1. t = e * h + g
      BY <1>6, <1>7, <2>3
    <3> QED BY <3>1, DivModUnique
  <2>5. e % b = e
    <3>1. e \in 0 .. b - 1
      BY <1>4
    <3> QED BY <3>1, ModNear
  <2>6. PICK y \in F!Hidden .. 2 * F!Hidden - 1 : y = h + g /\ y % h = g
    <3>1. PICK y \in Nat : y = h + g
      OBVIOUS
    <3>2. y % h = y - h
      <4>1. y \in h .. 2 * h - 1
        BY <3>1
      <4> QED BY <4>1, ModNear
    <3> QED BY <1>2, <3>1, <3>2
  <2>7. out = [s |-> v.s, e |-> e, f |-> y % F!Hidden]
    BY <1>2, <1>8, <2>4, <2>5, <2>6, Zenon
  <2>8. MaskedTo(F!to_fac(out, n), n, v.s, e, y)
    BY <2>7, Masked, Zenon
  <2>9. o = F!Outcome(out, FALSE, "")
    BY <1>9, <2>2, Zenon
  <2>10. o.v = out /\ o.overflow = FALSE /\ o.code = ""
    BY <2>9 DEF F!Outcome
  <2>11. MaskedTo(rv, n, v.s, e, y)
    BY <2>8, <2>10, Zenon DEF rv
  <2>12. PICK a \in Nat : /\ rv.s = v.s /\ rv.e = e /\ a = F!Fraction(rv)
                          /\ a <= y /\ y < a + 2 * l
    BY <1>2, <2>11 DEF MaskedTo, LastPlace
  <2>13. rv.e - v.e = 0
    BY <1>4, <2>12
  <2>14. F!Rounds(a * 1, 2 * l, x, FALSE)
    <3>1. y = x + l /\ a * 1 = a
      BY <1>5, <2>3, <2>6
    <3>2. 2 * (a - x) <= 2 * l /\ 2 * (x - a) < 2 * l
      <4>1. a <= x + l /\ x + l < a + 2 * l
        BY <2>12, <3>1, Zenon
      <4> QED BY <4>1
    <3> QED BY <3>1, <3>2 DEF F!Rounds
  <2>15. F!Rounds(F!Fraction(rv) * F!Power[0], F!Power[F!LowBits + 0], F!Fraction(v), FALSE)
    BY <1>2, <1>5, <1>11, <2>12, <2>14, Zenon
  <2>16. F!Rounds(F!Fraction(rv) * F!Power[rv.e - v.e], F!Power[F!LowBits + (rv.e - v.e)],
                  F!Fraction(v), FALSE)
    BY <2>13, <2>15, Zenon
  <2>17. ~Over(v)
    BY <1>10, <1>12
  <2>18. rv.e - v.e \in {0, 1}
    BY <2>13
  <2>19. o.overflow = (~FALSE /\ Over(v))
    BY <2>10, <2>17
  <2>20. IsNarrowed(v, rv, o.overflow, FALSE)
    BY <2>12, <2>16, <2>17, <2>18, <2>19, Zenon DEF IsNarrowed
  <2> QED BY <2>10, <2>12, <2>20, Zenon DEF rv, o
<1>13. CASE ~(f + l < h)
  <2>1. PICK g \in 0 .. h - 1 : g = f + l - h /\ g < l
    BY <1>2, <1>13
  <2>2. t \div h = e + 1 /\ t % h = g
    <3>1. PICK e1 \in Int : e1 = e + 1
      OBVIOUS
    <3>2. (e + 1) * h = e * h + h
      OBVIOUS
    <3>3. t = e1 * h + g
      BY <1>6, <1>7, <2>1, <3>1, <3>2
    <3>4. t \div h = e1 /\ t % h = g
      BY <3>3, DivModUnique
    <3> QED BY <3>1, <3>4
  <2>3. (e + 1) * h <= t
    <3>1. (e + 1) * h = e * h + h
      OBVIOUS
    <3> QED BY <1>6, <1>7, <2>1, <3>1
  <2>4. g % (2 * l) = g
    <3>1. PICK k \in Nat \ {0} : k = 2 * l /\ g \in 0 .. k - 1
      BY <2>1
    <3>2. g % k = g
      BY <3>1, ModNear
    <3> QED BY <3>1, <3>2
  <2>5. PICK e1 \in Nat : e1 = e + 1
    OBVIOUS
  <2>6. out = [s |-> v.s, e |-> e1 % b, f |-> g]
    BY <1>8, <2>2, <2>5
  <2>7. F!to_fac(out, n).s = v.s /\ F!to_fac(out, n).e = e1 % b /\ F!to_fac(out, n).f = 0
    <3>1. g - (g % (2 * l)) = 0
      BY <2>4
    <3> QED BY <1>2, <2>6, <3>1 DEF F!to_fac
  <2>8. CASE e = b - 1
    <3>1. Over(v)
      BY <1>10, <1>13, <2>8
    <3>2. t >= bh
      BY <1>7, <2>3, <2>8
    <3>3. e1 % b = 0
      <4>1. e1 = b
        BY <2>5, <2>8
      <4>2. b % b = b - b
        <5>1. b \in b .. 2 * b - 1
          OBVIOUS
        <5> QED BY <5>1, ModNear
      <4> QED BY <4>1, <4>2
    <3>4. o = F!Excepted(out, TRUE, "OVFLO", m)
      BY <1>9, <3>2, Zenon
    <3>5. /\ o.overflow = TRUE /\ (o.v = out \/ o.v = F!Zero)
      BY <3>4 DEF F!Excepted, F!Outcome
    <3>6. rv.e = 0 /\ rv.f = 0
      <4>1. F!to_fac(F!Zero, n).e = 0 /\ F!to_fac(F!Zero, n).f = 0
        <5>1. F!to_fac(F!Zero, n) = F!Zero
          BY ZeroStays
        <5> QED BY <5>1 DEF F!Zero
      <4> QED BY <2>7, <3>3, <3>5, <4>1, Zenon DEF rv
    <3>7. o.overflow = (~FALSE /\ Over(v))
      BY <3>1, <3>5
    <3>8. IsNarrowed(v, rv, o.overflow, FALSE)
      BY <3>1, <3>6, <3>7, Zenon DEF IsNarrowed
    <3> QED BY <3>1, <3>8, Zenon DEF rv, o
  <2>9. CASE e # b - 1
    <3>1. ~Over(v)
      BY <1>10, <2>9
    <3>2. ~(t >= bh)
      <4>1. (e + 2) * h <= b * h
        <5>1. e + 2 <= b
          BY <1>4, <2>9
        <5> QED BY <5>1, TimesGrows
      <4>2. (e + 2) * h = e * h + 2 * h
        OBVIOUS
      <4> QED BY <1>6, <1>7, <2>1, <4>1, <4>2
    <3>3. e1 % b = e1
      <4>1. e1 \in 0 .. b - 1
        BY <1>4, <2>5, <2>9
      <4> QED BY <4>1, ModNear
    <3>4. o = F!Outcome(out, FALSE, "")
      BY <1>9, <3>2, Zenon
    <3>5. o.v = out /\ o.overflow = FALSE /\ o.code = ""
      BY <3>4 DEF F!Outcome
    <3>6. rv.s = v.s /\ rv.e = e1 /\ rv.f = 0
      BY <2>7, <3>3, <3>5, Zenon DEF rv
    <3>7. F!Fraction(rv) = h
      BY <1>2, <3>6 DEF F!Fraction
    <3>8. rv.e - v.e = 1
      BY <1>4, <2>5, <3>6
    <3>9. F!Rounds(h * 2, 2 * (2 * l), x, FALSE)
      BY <1>5, <2>1 DEF F!Rounds
    <3>10. F!Rounds(F!Fraction(rv) * F!Power[1], F!Power[F!LowBits + 1], F!Fraction(v), FALSE)
      BY <1>2, <1>5, <1>11, <3>7, <3>9, Zenon
    <3>11. F!Rounds(F!Fraction(rv) * F!Power[rv.e - v.e], F!Power[F!LowBits + (rv.e - v.e)],
                    F!Fraction(v), FALSE)
      BY <3>8, <3>10, Zenon
    <3>12. rv.e - v.e \in {0, 1}
      BY <3>8
    <3>13. o.overflow = (~FALSE /\ Over(v))
      BY <3>1, <3>5
    <3>14. IsNarrowed(v, rv, o.overflow, FALSE)
      BY <3>1, <3>6, <3>11, <3>12, <3>13, Zenon DEF IsNarrowed
    <3>15. F!Fraction(rv) \in Nat
      BY <3>7
    <3> QED BY <3>5, <3>14, <3>15, Zenon DEF rv, o
  <2> QED BY <2>8, <2>9
<1> QED BY <1>12, <1>13
\* A clean zero in either precision.
LEMMA ZeroNarrows ==
  ASSUME NEW v, NEW m, NEW n, v.e = 0, ~n.d
  PROVE  /\ IsNarrowed(v, F!to_fac(F!Zero, n), FALSE, TRUE)
         /\ LET o == F!roundfp11(F!Zero, m)
            IN  IsNarrowed(v, F!to_fac(o.v, n), o.overflow, FALSE)
<1>1. F!Zero.e = 0 /\ F!Zero.f = 0 /\ F!Zero.s = 0
  BY DEF F!Zero
<1>2. ~Over(v)
  BY Ranges DEF Over
<1> DEFINE sum == F!Magnitude(F!Zero) + F!Power[F!LowBits - 1]
           out == [s |-> F!Zero.s, e |-> (sum \div F!Hidden) % F!Power[ExpBits],
                   f |-> sum % F!Hidden]
           o == F!roundfp11(F!Zero, m)
<1>3. o = IF sum >= F!Power[ExpBits] * F!Hidden THEN F!Excepted(out, TRUE, "OVFLO", m)
          ELSE F!Outcome(out, FALSE, "")
  BY Zenon DEF F!roundfp11
<1>4. PICK h \in Nat \ {0}, l \in Nat \ {0} :
           /\ h = F!Hidden /\ l = F!Power[F!LowBits - 1] /\ 2 * l <= h
           /\ F!Power[F!LowBits] = 2 * l
  BY LowHalf, Ranges
<1>5. PICK b \in Nat \ {0} : b = F!Power[ExpBits]
  BY Ranges
<1>6. sum = l
  <2>1. 0 * F!Hidden = 0
    BY Ranges
  <2> QED BY <1>1, <1>4, <2>1 DEF F!Magnitude
<1>7. out = [s |-> 0, e |-> (l \div h) % b, f |-> l % h]
  BY <1>1, <1>4, <1>5, <1>6, Zenon
<1>8. o = IF l >= b * h THEN F!Excepted(out, TRUE, "OVFLO", m) ELSE F!Outcome(out, FALSE, "")
  BY <1>3, <1>4, <1>5, <1>6, Zenon
<1> HIDE DEF sum, out, o
<1>9. ~(l >= b * h)
  <2>1. 1 * h <= b * h
    BY TimesGrows
  <2> QED BY <1>4, <2>1
<1>10. l \div h = 0 /\ l % h = l
  <2>1. PICK z \in Int, y \in 0 .. h - 1, q \in Int : z = l /\ y = l /\ q = 0 /\ z = q * h + y
    BY <1>4
  <2>2. z \div h = q /\ z % h = y
    BY <2>1, DivModUnique
  <2> QED BY <2>1, <2>2
<1>11. o.v = out /\ o.overflow = FALSE
  <2>1. o = F!Outcome(out, FALSE, "")
    BY <1>8, <1>9, Zenon
  <2> QED BY <2>1 DEF F!Outcome
<1>12. F!to_fac(out, n).e = 0 /\ F!to_fac(out, n).f = 0
  <2>1. 0 % b = 0
    BY ModNear
  <2>2. l % (2 * l) = l
    <3>1. PICK k \in Nat \ {0} : k = 2 * l /\ l \in 0 .. k - 1
      OBVIOUS
    <3>2. l % k = l
      BY <3>1, ModNear
    <3> QED BY <3>1, <3>2
  <2>3. out = [s |-> 0, e |-> 0, f |-> l]
    BY <1>7, <1>10, <2>1
  <2> QED BY <1>4, <2>2, <2>3 DEF F!to_fac
<1>13. IsNarrowed(v, F!to_fac(o.v, n), o.overflow, FALSE)
  <2>1. F!to_fac(o.v, n).e = 0 /\ F!to_fac(o.v, n).f = 0
    BY <1>11, <1>12, Zenon
  <2>2. o.overflow = (~FALSE /\ Over(v))
    BY <1>2, <1>11
  <2> QED BY <2>1, <2>2, Zenon DEF IsNarrowed
<1>14. IsNarrowed(v, F!to_fac(F!Zero, n), FALSE, TRUE)
  <2>1. F!to_fac(F!Zero, n).e = 0 /\ F!to_fac(F!Zero, n).f = 0
    BY <1>1, ZeroStays, Zenon
  <2>2. FALSE = (~TRUE /\ Over(v))
    OBVIOUS
  <2> QED BY <2>1, <2>2, Zenon DEF IsNarrowed
<1> QED BY <1>13, <1>14 DEF o

\* What the property says of a comparison.
Order(v) == IF v.e = 0 THEN 0 ELSE F!Signed(v, F!Magnitude(v))
IsOrdered(codes, a, b) ==
  codes.n = (Order(b) < Order(a)) /\ codes.z = (Order(b) = Order(a))

\* A clean value is ordered by its sign and magnitude, and is what those make it.
Clean(v) == v = F!Zero \/ (v \in F!Value /\ v.e # 0)

\* The order of clean values is that of their signed magnitudes.
LEMMA CleanOrder ==
  ASSUME NEW v, Clean(v)
  PROVE  \E n \in Nat : /\ n = F!Magnitude(v) /\ v.s \in 0 .. 1
                        /\ Order(v) = IF v.s = 1 THEN -n ELSE n
                        /\ (n = 0 <=> v = F!Zero) /\ (n = 0 => v.s = 0)
<1>1. PICK h \in Nat \ {0} : h = F!Hidden
  BY Ranges
<1>2. CASE v = F!Zero
  <2>1. v.s = 0 /\ v.e = 0 /\ v.f = 0
    BY <1>2 DEF F!Zero
  <2>2. F!Magnitude(v) = 0
    <3>1. 0 * h = 0
      OBVIOUS
    <3> QED BY <1>1, <2>1, <3>1 DEF F!Magnitude
  <2>3. Order(v) = 0
    BY <2>1 DEF Order
  <2> QED BY <1>2, <2>1, <2>2, <2>3
<1>3. CASE v # F!Zero
  <2>1. v \in F!Value /\ v.e # 0
    BY <1>3 DEF Clean
  <2>2. PICK e \in Nat, f \in Nat : e = v.e /\ f = v.f /\ F!Magnitude(v) = e * h + f
    BY <1>1, <2>1, ValueFields
  <2>3. e * h + f \in Nat \ {0}
    <3>1. 1 <= e
      BY <2>1, <2>2
    <3>2. 1 * h <= e * h
      BY <3>1, TimesGrows
    <3> QED BY <3>2
  <2>4. v.s \in 0 .. 1
    BY <2>1, ValueFields
  <2>5. Order(v) = IF v.s = 1 THEN -(e * h + f) ELSE e * h + f
    BY <2>1, <2>2 DEF Order, F!Signed
  <2> QED BY <1>3, <2>2, <2>3, <2>4, <2>5
<1> QED BY <1>2, <1>3

\* Sign and magnitude make up the value.
LEMMA MagnitudeIs ==
  ASSUME NEW v \in F!Value, NEW w \in F!Value, v.s = w.s, F!Magnitude(v) = F!Magnitude(w)
  PROVE  v = w
<1>1. PICK h \in Nat \ {0} : h = F!Hidden
  BY Ranges
<1>2. PICK e \in Nat, f \in 0 .. h - 1 : e = v.e /\ f = v.f /\ F!Magnitude(v) = e * h + f
  BY <1>1, ValueFields
<1>3. PICK d \in Nat, g \in 0 .. h - 1 : d = w.e /\ g = w.f /\ F!Magnitude(w) = d * h + g
  BY <1>1, ValueFields
<1>4. PICK x \in Int : x = e * h + f /\ x = d * h + g
  <2>1. e * h + f \in Int
    OBVIOUS
  <2> QED BY <1>2, <1>3, <2>1
<1>5. x \div h = e /\ x % h = f
  BY <1>4, DivModUnique
<1>6. x \div h = d /\ x % h = g
  BY <1>4, DivModUnique
<1>7. v.e = w.e /\ v.f = w.f
  BY <1>2, <1>3, <1>5, <1>6
<1> QED BY <1>7 DEF F!Value

\* fp.c, pdp11_fp_cmp: the codes order any two values as their numbers do.
LEMMA CmpOrders ==
  ASSUME NEW a \in F!Value, NEW b \in F!Value
  PROVE  IsOrdered(F!pdp11_fp_cmp(a, b), a, b)
<1> DEFINE x == IF a.e = 0 THEN F!Zero ELSE a
           y == IF b.e = 0 THEN F!Zero ELSE b
           flips == x.s = y.s /\ x # F!Zero /\ F!Magnitude(y) < F!Magnitude(x)
           codes == F!pdp11_fp_cmp(a, b)
<1>1. codes = IF x = y THEN [n |-> FALSE, z |-> TRUE, v |-> FALSE, c |-> FALSE]
              ELSE [n |-> (y.s = 1) # flips, z |-> FALSE, v |-> FALSE, c |-> FALSE]
  BY Zenon DEF F!pdp11_fp_cmp
<1>2. F!Zero \in F!Value /\ Order(F!Zero) = 0
  <2>1. F!Zero.e = 0
    BY DEF F!Zero
  <2>2. F!Zero \in F!Value
    BY Ranges DEF F!Zero, F!Value
  <2> QED BY <2>1, <2>2 DEF Order
<1>3. Clean(x) /\ x \in F!Value /\ Order(x) = Order(a)
  <2>1. CASE a.e = 0
    <3>1. Order(a) = 0 /\ x = F!Zero
      BY <2>1 DEF Order
    <3> QED BY <1>2, <3>1, Zenon DEF Clean
  <2>2. CASE a.e # 0
    <3>1. x = a
      BY <2>2
    <3> QED BY <2>2, <3>1, Zenon DEF Clean
  <2> QED BY <2>1, <2>2
<1>4. Clean(y) /\ y \in F!Value /\ Order(y) = Order(b)
  <2>1. CASE b.e = 0
    <3>1. Order(b) = 0 /\ y = F!Zero
      BY <2>1 DEF Order
    <3> QED BY <1>2, <3>1, Zenon DEF Clean
  <2>2. CASE b.e # 0
    <3>1. y = b
      BY <2>2
    <3> QED BY <2>2, <3>1, Zenon DEF Clean
  <2> QED BY <2>1, <2>2
<1> HIDE DEF codes, x, y
<1>5. PICK p \in Nat : /\ p = F!Magnitude(x) /\ x.s \in 0 .. 1
                       /\ Order(x) = IF x.s = 1 THEN -p ELSE p
                       /\ (p = 0 <=> x = F!Zero) /\ (p = 0 => x.s = 0)
  BY <1>3, CleanOrder
<1>6. PICK q \in Nat : /\ q = F!Magnitude(y) /\ y.s \in 0 .. 1
                       /\ Order(y) = IF y.s = 1 THEN -q ELSE q
                       /\ (q = 0 <=> y = F!Zero) /\ (q = 0 => y.s = 0)
  BY <1>4, CleanOrder
<1>7. x.s = y.s /\ p = q => x = y
  BY <1>3, <1>4, <1>5, <1>6, MagnitudeIs
<1>8. flips <=> x.s = y.s /\ p # 0 /\ q < p
  BY <1>5, <1>6
<1>9. CASE x = y
  <2>1. codes.n = FALSE /\ codes.z = TRUE
    BY <1>1, <1>9
  <2>2. Order(b) = Order(a) /\ Order(a) \in Int
    BY <1>3, <1>4, <1>5, <1>9
  <2>3. (Order(b) < Order(a)) = FALSE /\ (Order(b) = Order(a)) = TRUE
    BY <2>2
  <2> QED BY <2>1, <2>3, Zenon DEF IsOrdered, codes
<1>10. CASE x # y
  <2>1. codes.n = ((y.s = 1) # flips) /\ codes.z = FALSE
    BY <1>1, <1>10
  <2> HIDE DEF flips
  <2>2. PICK s \in 0 .. 1, d \in 0 .. 1 : s = x.s /\ d = y.s
    BY <1>5, <1>6
  <2>3. ~(s = d /\ p = q) /\ (p = 0 => s = 0) /\ (q = 0 => d = 0)
    BY <1>5, <1>6, <1>7, <1>10, <2>2
  <2>4. Order(a) = IF s = 1 THEN -p ELSE p
    BY <1>3, <1>5, <2>2
  <2>5. Order(b) = IF d = 1 THEN -q ELSE q
    BY <1>4, <1>6, <2>2
  <2>6. (Order(b) = Order(a)) = FALSE
    BY <2>3, <2>4, <2>5
  <2>7. flips <=> s = d /\ p # 0 /\ q < p
    BY <1>8, <2>2
  <2>8. Order(b) < Order(a) <=> (d = 1 /\ ~(s = d /\ p # 0 /\ q < p))
                                \/ (d # 1 /\ s = d /\ p # 0 /\ q < p)
    BY <2>3, <2>4, <2>5
  <2>9. (Order(b) < Order(a)) = ((y.s = 1) # flips)
    <3>1. CASE Order(b) < Order(a)
      <4>1. ((y.s = 1) # flips) = TRUE /\ (Order(b) < Order(a)) = TRUE
        BY <2>2, <2>7, <2>8, <3>1
      <4> QED BY <4>1, Zenon
    <3>2. CASE ~(Order(b) < Order(a))
      <4>1. (y.s = 1) <=> flips
        BY <2>2, <2>7, <2>8, <3>2
      <4>2. ((y.s = 1) # flips) = FALSE
        BY <4>1
      <4>3. (Order(b) < Order(a)) = FALSE
        BY <3>2
      <4> QED BY <4>2, <4>3, Zenon
    <3> QED BY <3>1, <3>2
  <2> QED BY <2>1, <2>6, <2>9, Zenon DEF IsOrdered, codes
<1> QED BY <1>9, <1>10
\* What the property says of an integer loaded.
SignedInt(i) == IF i >= F!Power[IntBits - 1] THEN i - F!Power[IntBits] ELSE i
Justify(x) == CHOOSE n \in 0 .. IntBits :
           F!Distance(x, 0) * F!Power[n] \in F!Power[IntBits - 1] .. (F!Power[IntBits] - 1)
Width(m) == IF m.l THEN IntBits ELSE ShortBits
IsLoaded(rv, i, code, m) ==
  IF i = 0 THEN rv = F!Zero
  ELSE /\ Near(rv, code, m, F!Distance(SignedInt(i), 0) * F!Power[Justify(SignedInt(i))],
               F!Power[IntBits], F!Bias + Width(m) - Justify(SignedInt(i)), m.t)
       /\ (rv.s = 1) = (SignedInt(i) < 0)

\* A value brought to the precision of the mode.
Shortened(rv, v, m, t) ==
  /\ rv.s = v.s /\ rv.e - v.e \in {0, 1} /\ F!Fraction(rv) \in Nat
  /\ F!Rounds(F!Fraction(rv) * F!Power[rv.e - v.e], LastPlace(m) * F!Power[rv.e - v.e],
              F!Fraction(v), t)

\* roundfp11 narrows a double to the nearest single number, or cuts it off.
LEMMA Shortens ==
  ASSUME NEW v \in F!Value, NEW m, Mode(m), ~Over(v), v.e # 0
  PROVE  Shortened(F!to_fac(IF ~m.d /\ ~m.t THEN F!roundfp11(v, m).v ELSE v, m), v, m, m.t)
<1> DEFINE o == F!roundfp11(v, m)
<1>1. m.t \in BOOLEAN
  BY Zenon DEF Mode
<1>2. \A u \in Nat : u * F!Power[0] = u
  BY FpPowerSteps
<1>3. CASE ~m.d /\ ~m.t
  <2>1. IsNarrowed(v, F!to_fac(o.v, m), o.overflow, FALSE) /\ F!Fraction(F!to_fac(o.v, m)) \in Nat
    BY <1>3, RoundNarrows
  <2> DEFINE rv == F!to_fac(o.v, m)
  <2> HIDE DEF rv, o
  <2>2. /\ rv.s = v.s /\ rv.e - v.e \in {0, 1}
        /\ F!Rounds(F!Fraction(rv) * F!Power[rv.e - v.e], F!Power[F!LowBits + (rv.e - v.e)],
                    F!Fraction(v), FALSE)
    BY <2>1, Zenon DEF IsNarrowed, rv
  <2>3. PICK k \in {0, 1} : k = rv.e - v.e
    BY <2>2
  <2>4. F!Power[F!LowBits + k] = LastPlace(m) * F!Power[k]
    <3>1. F!LowBits \in Nat /\ k \in Nat
      BY Ranges
    <3>2. F!Power[F!LowBits + k] = F!Power[F!LowBits] * F!Power[k]
      BY <3>1, FpPowerOfSum
    <3> QED BY <1>3, <3>2 DEF LastPlace
  <2>5. F!Rounds(F!Fraction(rv) * F!Power[rv.e - v.e], LastPlace(m) * F!Power[rv.e - v.e],
                 F!Fraction(v), m.t)
    <3>1. m.t = FALSE
      BY <1>1, <1>3
    <3> QED BY <2>2, <2>3, <2>4, <3>1, Zenon
  <2>6. Shortened(rv, v, m, m.t)
    BY <2>1, <2>2, <2>5, Zenon DEF Shortened, rv
  <2> QED BY <1>3, <2>6, Zenon DEF rv, o
<1>4. CASE ~(~m.d /\ ~m.t)
  <2>1. PICK h \in Nat \ {0}, x \in F!Hidden .. 2 * F!Hidden - 1, e \in Nat :
             h = F!Hidden /\ x = F!Fraction(v) /\ e = v.e /\ x = h + v.f
    BY Ranges, ValueFields DEF F!Fraction
  <2>2. v.f \in 0 .. h - 1 /\ x % h = v.f
    <3>1. x \in h .. 2 * h - 1 /\ x % h = x - h /\ v.f \in Nat
      BY <2>1, ValueFields, ModNear
    <3> QED BY <2>1, <3>1
  <2>3. v = [s |-> v.s, e |-> e, f |-> x % F!Hidden]
    BY <2>1, <2>2 DEF F!Value
  <2>4. MaskedTo(F!to_fac(v, m), m, v.s, e, x)
    BY <2>3, Masked, Zenon
  <2> DEFINE rv == F!to_fac(v, m)
  <2> HIDE DEF rv
  <2>5. /\ rv.s = v.s /\ rv.e = e /\ F!Fraction(rv) \in Nat
        /\ F!Fraction(rv) <= x /\ x < F!Fraction(rv) + LastPlace(m)
    BY <2>1, <2>4 DEF MaskedTo, rv
  <2>6. rv.e - v.e = 0 /\ LastPlace(m) \in Nat
    BY <2>1, <2>5, Places
  <2>7. F!Rounds(F!Fraction(rv) * F!Power[0], LastPlace(m) * F!Power[0], x, m.t)
    <3>1. CASE m.t
      BY <1>2, <2>5, <2>6, <3>1 DEF F!Rounds
    <3>2. CASE ~m.t
      <4>1. LastPlace(m) = 1
        BY <1>4, <3>2 DEF LastPlace
      <4>2. F!Fraction(rv) = x /\ x \in Nat
        BY <2>1, <2>5, <4>1, Ranges
      <4>3. F!Fraction(rv) * F!Power[0] = x /\ LastPlace(m) * F!Power[0] = 1
        BY <1>2, <4>1, <4>2
      <4>4. F!Rounds(x, 1, x, m.t)
        BY <3>2, <4>2 DEF F!Rounds
      <4> QED BY <4>3, <4>4, Zenon
    <3> QED BY <3>1, <3>2
  <2>8. F!Rounds(F!Fraction(rv) * F!Power[rv.e - v.e], LastPlace(m) * F!Power[rv.e - v.e],
                 F!Fraction(v), m.t)
    BY <2>1, <2>6, <2>7, Zenon
  <2>9. rv.e - v.e \in {0, 1}
    BY <2>6
  <2>10. Shortened(rv, v, m, m.t)
    BY <2>5, <2>8, <2>9, Zenon DEF Shortened
  <2> QED BY <1>4, <2>10, Zenon DEF rv
<1> QED BY <1>3, <1>4

\* The widths of integers and of the fraction they go to.
LEMMA IntWidths ==
  /\ IntBits \in Nat /\ ShortBits \in Nat /\ ShortBits >= 1 /\ ShortBits <= IntBits
  /\ IntBits - 1 \in Nat /\ DoubleBits - IntBits \in Nat /\ IntBits + 2 <= F!Bias
  /\ \E p \in Nat \ {0}, g \in Nat \ {0} :
       /\ p = F!Power[IntBits - 1] /\ F!Power[IntBits] = 2 * p
       /\ g = F!Power[DoubleBits - IntBits] /\ F!Hidden = p * g
       /\ F!Power[DoubleBits] = F!Power[IntBits] * g
<1>1. /\ IntBits \in Nat /\ ShortBits \in Nat /\ ShortBits >= 1 /\ ShortBits <= IntBits
      /\ IntBits - 1 \in Nat /\ DoubleBits - IntBits \in Nat /\ IntBits + 2 <= F!Bias
      /\ (IntBits - 1) + 1 = IntBits /\ (IntBits - 1) + (DoubleBits - IntBits) = DoubleBits - 1
      /\ IntBits + (DoubleBits - IntBits) = DoubleBits
  BY FpWidths, Ranges DEF F!WidthAssumption
<1>2. PICK p \in Nat \ {0}, g \in Nat \ {0} :
           p = F!Power[IntBits - 1] /\ g = F!Power[DoubleBits - IntBits]
  BY <1>1, FpPowerSteps
<1>3. F!Power[IntBits] = 2 * p
  BY <1>1, <1>2, FpPowerSteps
<1>4. F!Hidden = p * g
  <2>1. F!Power[(IntBits - 1) + (DoubleBits - IntBits)] = p * g
    BY <1>1, <1>2, FpPowerOfSum
  <2> QED BY <1>1, <2>1 DEF F!Hidden
<1>5. F!Power[DoubleBits] = F!Power[IntBits] * g
  <2>1. F!Power[IntBits + (DoubleBits - IntBits)] = F!Power[IntBits] * g
    BY <1>1, <1>2, FpPowerOfSum
  <2> QED BY <1>1, <2>1
<1> QED BY <1>1, <1>2, <1>3, <1>4, <1>5
\* fp.c, pdp11_fp_ldcif: the integer is normalised and then rounded once.
LEMMA LoadsExact ==
  ASSUME NEW m, Mode(m), NEW i \in 0 .. F!Power[IntBits] - 1
  PROVE  IsLoaded(F!to_fac(F!pdp11_fp_ldcif(i, m), m), i, "", m)
<1> DEFINE negative == i >= F!Power[IntBits - 1]
           mag == IF negative THEN F!Power[IntBits] - i ELSE i
           n == CHOOSE k \in 0 .. IntBits :
                  mag * F!Power[k] \in F!Power[IntBits - 1] .. (F!Power[IntBits] - 1)
           v == [s |-> IF negative THEN 1 ELSE 0,
                 e |-> F!Bias + (IF m.l THEN IntBits ELSE ShortBits) - n,
                 f |-> mag * F!Power[n] * F!Power[DoubleBits - IntBits] - F!Hidden]
           out == F!pdp11_fp_ldcif(i, m)
<1>1. out = IF i = 0 THEN F!Zero
            ELSE IF ~m.d /\ ~m.t THEN F!roundfp11(v, m).v ELSE v
  BY Zenon DEF F!pdp11_fp_ldcif
<1>2. CASE i = 0
  <2>1. out = F!Zero
    BY <1>1, <1>2
  <2> HIDE DEF out
  <2>2. F!to_fac(out, m) = F!Zero
    BY <2>1, ZeroStays
  <2> QED BY <1>2, <2>2, Zenon DEF IsLoaded, out
<1>3. CASE i # 0
  <2>1. PICK p \in Nat \ {0}, g \in Nat \ {0} :
             /\ p = F!Power[IntBits - 1] /\ F!Power[IntBits] = 2 * p
             /\ g = F!Power[DoubleBits - IntBits] /\ F!Hidden = p * g
             /\ F!Power[DoubleBits] = (2 * p) * g
    BY IntWidths
  <2>2. PICK x \in Nat \ {0} : /\ x = mag /\ x = F!Distance(SignedInt(i), 0) /\ x <= p
                               /\ (negative <=> SignedInt(i) < 0)
    <3>1. i \in 1 .. 2 * p - 1
      BY <1>3, <2>1
    <3>2. CASE negative
      <4>1. mag = 2 * p - i /\ SignedInt(i) = i - 2 * p /\ i >= p
        BY <2>1, <3>2 DEF SignedInt
      <4>2. F!Distance(i - 2 * p, 0) = 2 * p - i
        BY <3>1 DEF F!Distance
      <4>3. 2 * p - i \in Nat \ {0} /\ 2 * p - i <= p /\ i - 2 * p < 0
        BY <3>1, <4>1
      <4> QED BY <3>2, <4>1, <4>2, <4>3
    <3>3. CASE ~negative
      <4>1. mag = i /\ SignedInt(i) = i /\ i < p
        BY <2>1, <3>1, <3>3 DEF SignedInt
      <4>2. F!Distance(i, 0) = i
        BY <3>1 DEF F!Distance
      <4> QED BY <3>1, <3>3, <4>1, <4>2
    <3> QED BY <3>2, <3>3
  <2>3. n = Justify(SignedInt(i))
    <3>1. n = CHOOSE k \in 0 .. IntBits :
                F!Distance(SignedInt(i), 0) * F!Power[k]
                  \in F!Power[IntBits - 1] .. (F!Power[IntBits] - 1)
      BY <2>2, Zenon
    <3> QED BY <3>1, Zenon DEF Justify
  <2>4. PICK j \in 0 .. IntBits, y \in Nat :
             j = n /\ y = x * F!Power[j] /\ p <= y /\ y <= 2 * p - 1
    <3>1. \E k \in 0 .. IntBits : x * F!Power[k] \in F!Power[IntBits - 1] .. (F!Power[IntBits] - 1)
      <4>1. PICK j0 \in Nat : j0 = IntBits - 1 /\ j0 <= IntBits /\ p = F!Power[j0]
        BY <2>1, IntWidths
      <4>2. x <= 2 * F!Power[j0] - 1
        BY <2>2, <4>1
      <4>3. \E k \in 0 .. j0 : x * F!Power[k] \in F!Power[j0] .. 2 * F!Power[j0] - 1
        BY <4>2, Normalises
      <4>4. PICK k \in 0 .. j0 : x * F!Power[k] \in p .. 2 * p - 1
        BY <4>1, <4>3
      <4>5. k \in 0 .. IntBits
        BY <4>1, IntWidths
      <4>6. x * F!Power[k] \in F!Power[IntBits - 1] .. (F!Power[IntBits] - 1)
        BY <2>1, <4>4
      <4> QED BY <4>5, <4>6
    <3>2. n = CHOOSE k \in 0 .. IntBits :
                x * F!Power[k] \in F!Power[IntBits - 1] .. (F!Power[IntBits] - 1)
      BY <2>2, Zenon
    <3> HIDE DEF n
    <3>3. n \in 0 .. IntBits /\ x * F!Power[n] \in F!Power[IntBits - 1] .. (F!Power[IntBits] - 1)
      BY <3>1, <3>2, Zenon
    <3>4. x * F!Power[n] \in p .. 2 * p - 1
      BY <2>1, <3>3
    <3> QED BY <3>3, <3>4
  <2>5. PICK e \in Nat : e = F!Bias + Width(m) - j /\ 1 <= e /\ e < F!MaxExp
    <3>1. Width(m) \in 1 .. IntBits
      BY IntWidths DEF Width
    <3> QED BY <3>1, IntWidths, Ranges
  <2>6. PICK z \in Nat : z = y * g /\ z \in F!Hidden .. 2 * F!Hidden - 1
    <3>1. p * g <= y * g /\ (y + 1) * g <= (2 * p) * g
      <4>1. y + 1 <= 2 * p
        BY <2>4
      <4> QED BY <2>4, <4>1, TimesGrows
    <3>2. (y + 1) * g = y * g + g /\ (2 * p) * g = 2 * (p * g) /\ y * g \in Nat /\ p * g \in Nat
      OBVIOUS
    <3> QED BY <2>1, <3>1, <3>2
  <2>7. v = [s |-> IF negative THEN 1 ELSE 0, e |-> e, f |-> z - F!Hidden]
    <3>1. mag * F!Power[n] * F!Power[DoubleBits - IntBits] = z
      BY <2>1, <2>2, <2>4, <2>6, Zenon
    <3>2. F!Bias + (IF m.l THEN IntBits ELSE ShortBits) - n = e
      BY <2>4, <2>5, Zenon DEF Width
    <3> HIDE DEF mag, n
    <3> QED BY <3>1, <3>2
  <2> HIDE DEF v, mag, n, out, negative
  <2>8. v \in F!Value /\ v.e = e /\ F!Fraction(v) = z /\ (v.s = 1) = (SignedInt(i) < 0)
    <3>1. v.e = e /\ v.f = z - F!Hidden /\ v.s = IF negative THEN 1 ELSE 0
      BY <2>7
    <3>2. F!Fraction(v) = z
      BY <2>6, <3>1, Ranges DEF F!Fraction
    <3>3. v \in F!Value
      BY <2>5, <2>6, <2>7, Ranges DEF F!Value
    <3>4. (v.s = 1) = (SignedInt(i) < 0)
      BY <2>2, <3>1
    <3> QED BY <3>1, <3>2, <3>3, <3>4
  <2>9. ~Over(v) /\ v.e # 0
    BY <2>5, <2>8, Ranges DEF Over
  <2> DEFINE rv == F!to_fac(out, m)
  <2>10. Shortened(rv, v, m, m.t)
    <3>1. out = IF ~m.d /\ ~m.t THEN F!roundfp11(v, m).v ELSE v
      BY <1>1, <1>3, Zenon
    <3>2. Shortened(F!to_fac(IF ~m.d /\ ~m.t THEN F!roundfp11(v, m).v ELSE v, m), v, m, m.t)
      BY <2>8, <2>9, Shortens, Zenon
    <3> QED BY <3>1, <3>2, Zenon
  <2> HIDE DEF rv
  <2>11. PICK k \in {0, 1}, f \in Nat :
              /\ k = rv.e - e /\ rv.s = v.s /\ f = F!Fraction(rv)
              /\ F!Rounds(f * F!Power[k], LastPlace(m) * F!Power[k], z, m.t)
    BY <2>8, <2>10 DEF Shortened
  <2>12. PICK q \in Nat, u \in Nat : q = f * F!Power[k] /\ u = LastPlace(m) * F!Power[k]
    <3>1. k \in Nat
      OBVIOUS
    <3>2. PICK pk \in Nat, l \in Nat : pk = F!Power[k] /\ l = LastPlace(m)
      BY <3>1, FpPowerSteps, Places
    <3>3. f * pk \in Nat /\ l * pk \in Nat
      OBVIOUS
    <3> QED BY <3>2, <3>3
  <2>13. PICK c \in Nat \ {0} : c = F!Power[IntBits] /\ c = 2 * p
    BY <2>1
  <2>14. F!Rounds(q * c, u * c, z * c, m.t)
    BY <2>11, <2>12, RoundsTimes
  <2>15. z * c = y * F!Power[DoubleBits]
    <3>1. (y * g) * (2 * p) = y * ((2 * p) * g)
      OBVIOUS
    <3> QED BY <2>1, <2>6, <2>13, <3>1
  <2>16. Posted(rv, "") = rv.e /\ ~Gone(rv, "")
    <3>1. Posted(rv, "") = rv.e
      BY Zenon DEF Posted
    <3>3. rv.e # F!Zero.e
      <4>1. F!Zero.e = 0
        BY DEF F!Zero
      <4>2. rv.e # 0
        BY <2>5, <2>11
      <4> QED BY <4>1, <4>2
    <3> QED BY <3>1, <3>3, Zenon DEF Gone
  <2>17. Near(rv, "", m, y, F!Power[IntBits], e, m.t)
    BY <2>11, <2>12, <2>13, <2>14, <2>15, <2>16, Zenon DEF Near
  <2>18. (rv.s = 1) = (SignedInt(i) < 0)
    BY <2>8, <2>11, Zenon
  <2>19. IsLoaded(rv, i, "", m)
    <3>1. y = F!Distance(SignedInt(i), 0) * F!Power[Justify(SignedInt(i))]
      BY <2>2, <2>3, <2>4, Zenon
    <3>2. e = F!Bias + Width(m) - Justify(SignedInt(i))
      BY <2>3, <2>4, <2>5, Zenon
    <3> QED BY <1>3, <2>17, <2>18, <3>1, <3>2, Zenon DEF IsLoaded
  <2> QED BY <2>19 DEF rv, out
<1> QED BY <1>2, <1>3
\* A product of positive numbers is positive.
LEMMA TimesPositive ==
  ASSUME NEW x \in Nat \ {0}, NEW y \in Nat \ {0}
  PROVE  x * y \in Nat \ {0}
<1>1. 1 * y <= x * y
  BY TimesGrows
<1> QED BY <1>1

\* The integer part of a fraction, in units of what the integer does not hold.
KeepsWhole(x, fa, fu, pk) ==
  LET q == (x * pk) \div ((fa * fu) * pk)
  IN  q \in Nat /\ (x \div fa) - ((x \div fa) % fu) = q * fu

\* The bits kept of a stored integer are the quotient times the unit.
LEMMA KeptWhole ==
  ASSUME NEW x \in Nat, NEW fa \in Nat \ {0}, NEW fu \in Nat \ {0}, NEW pk \in Nat \ {0}
  PROVE  KeepsWhole(x, fa, fu, pk)
<1>1. PICK w \in Nat, d \in 0 .. fa - 1 : w = x \div fa /\ x = fa * w + d
  <2>1. \E w \in Nat, d \in 0 .. fa - 1 : w = x \div fa /\ d = x % fa /\ x = fa * w + d
    BY DivMod, Zenon
  <2> QED BY <2>1
<1>2. PICK q \in Nat, d2 \in 0 .. fu - 1 : d2 = w % fu /\ w = fu * q + d2
  <2>1. \E q \in Nat, d2 \in 0 .. fu - 1 : q = w \div fu /\ d2 = w % fu /\ w = fu * q + d2
    BY DivMod, Zenon
  <2> QED BY <2>1
<1>3. w - (w % fu) = q * fu
  <2>1. fu * q = q * fu /\ q * fu \in Nat
    OBVIOUS
  <2> QED BY <1>2, <2>1
<1>4. PICK n \in Nat \ {0} : n = fa * fu
  BY TimesPositive, Zenon
<1>5. PICK d3 \in Nat : d3 = fa * d2 + d /\ d3 < n
  <2>1. (d2 + 1) * fa <= fu * fa
    <3>1. d2 + 1 <= fu
      OBVIOUS
    <3> QED BY <3>1, TimesGrows
  <2>2. (d2 + 1) * fa = fa * d2 + fa /\ fu * fa = fa * fu /\ fa * d2 \in Nat
    OBVIOUS
  <2> QED BY <1>4, <2>1, <2>2
<1>6. x = q * n + d3
  <2>1. fa * (fu * q + d2) = (fa * fu) * q + fa * d2
    OBVIOUS
  <2>2. n * q = q * n /\ n * q \in Nat /\ fa * d2 \in Nat
    OBVIOUS
  <2>3. x = fa * (fu * q + d2) + d
    BY <1>1, <1>2, Zenon
  <2>4. (fa * fu) * q = n * q
    BY <1>4, Zenon
  <2> QED BY <1>5, <2>1, <2>2, <2>3, <2>4
<1>7. PICK m \in Nat \ {0} : m = n * pk
  BY TimesPositive, Zenon
<1>8. PICK d4 \in 0 .. m - 1 : d4 = d3 * pk
  <2>1. (d3 + 1) * pk <= n * pk
    BY <1>5, TimesGrows
  <2>2. (d3 + 1) * pk = d3 * pk + pk /\ d3 * pk \in Nat
    OBVIOUS
  <2> QED BY <1>7, <2>1, <2>2
<1>9. x * pk = q * m + d4
  <2>1. (q * n + d3) * pk = q * (n * pk) + d3 * pk
    OBVIOUS
  <2> QED BY <1>6, <1>7, <1>8, <2>1
<1>10. (x * pk) \div m = q
  <2>1. PICK y \in Int : y = x * pk
    OBVIOUS
  <2>2. y \div m = q
    BY <1>9, <2>1, DivModUnique
  <2> QED BY <2>1, <2>2
<1>11. (fa * fu) * pk = m
  BY <1>4, <1>7
<1> QED BY <1>1, <1>3, <1>10, <1>11, Zenon DEF KeepsWhole

\* fp.c, pdp11_fp_stcfi: a magnitude fits as i_limit says, and the long integer holds it.
LEMMA StoredSigned ==
  ASSUME NEW s \in 0 .. 1, NEW q \in Nat, NEW h \in Nat \ {0}, NEW fu \in Nat \ {0},
         h * fu = F!Power[IntBits - 1]
  PROVE  LET kept == q * fu
             limit == IF s = 1 THEN F!Power[IntBits - 1] + fu ELSE F!Power[IntBits - 1]
             i == IF s = 1 THEN (F!Power[IntBits] - kept) % F!Power[IntBits] ELSE kept
             x == IF s = 1 THEN -q ELSE q
         IN  /\ kept >= limit <=> x \notin -h .. h - 1
             /\ kept < limit => SignedInt(i) = x * fu
<1>1. PICK p \in Nat \ {0} : p = F!Power[IntBits - 1] /\ F!Power[IntBits] = 2 * p /\ p = h * fu
  BY IntWidths
<1>2. PICK kept \in Nat : kept = q * fu
  OBVIOUS
<1>3. q >= h => kept >= p
  <2>1. q >= h => h * fu <= q * fu
    BY TimesGrows
  <2> QED BY <1>1, <1>2, <2>1
<1>4. q < h => kept + fu <= p
  <2>1. q + 1 <= h => (q + 1) * fu <= h * fu
    BY TimesGrows
  <2>2. (q + 1) * fu = q * fu + fu
    OBVIOUS
  <2> QED BY <1>1, <1>2, <2>1, <2>2
<1>5. q >= h + 1 => kept >= p + fu
  <2>1. q >= h + 1 => (h + 1) * fu <= q * fu
    BY TimesGrows
  <2>2. (h + 1) * fu = h * fu + fu
    OBVIOUS
  <2> QED BY <1>1, <1>2, <2>1, <2>2
<1>6. q <= h => kept <= p
  <2>1. q <= h => q * fu <= h * fu
    BY TimesGrows
  <2> QED BY <1>1, <1>2, <2>1
<1>7. CASE s = 1
  <2>1. kept >= p + fu <=> -q \notin -h .. h - 1
    BY <1>5, <1>6
  <2>2. ASSUME kept < p + fu PROVE SignedInt((2 * p - kept) % (2 * p)) = (-q) * fu
    <3>1. kept <= p
      BY <1>5, <1>6, <2>2
    <3>2. (-q) * fu = -kept
      BY <1>2
    <3>3. PICK n \in Nat \ {0}, y \in Int : n = 2 * p /\ y = 2 * p - kept
      <4>1. 2 * p \in Nat \ {0} /\ 2 * p - kept \in Int
        OBVIOUS
      <4> QED BY <4>1
    <3>4. CASE kept = 0
      <4>1. y % n = y - n
        <5>1. y \in n .. 2 * n - 1
          BY <3>3, <3>4
        <5> QED BY <5>1, ModNear
      <4> QED BY <1>1, <3>2, <3>3, <3>4, <4>1 DEF SignedInt
    <3>5. CASE kept # 0
      <4>1. y % n = y
        <5>1. y \in 0 .. n - 1
          BY <3>1, <3>3, <3>5
        <5> QED BY <5>1, ModNear
      <4> QED BY <1>1, <3>1, <3>2, <3>3, <4>1 DEF SignedInt
    <3> QED BY <3>4, <3>5
  <2> QED BY <1>1, <1>2, <1>7, <2>1, <2>2
<1>8. CASE s # 1
  <2>1. kept >= p <=> q \notin -h .. h - 1
    BY <1>3, <1>4
  <2>2. kept < p => SignedInt(kept) = kept
    BY <1>1 DEF SignedInt
  <2> QED BY <1>1, <1>2, <1>8, <2>1, <2>2
<1> QED BY <1>7, <1>8

\* What the property says of an integer stored, c telling that the value did not fit.
Towards0(v, m) ==
  IF v.e <= F!Bias THEN 0
  ELSE F!Signed(v, (F!Fraction(F!to_fac(v, m)) * F!Power[v.e - F!Bias]) \div F!Power[DoubleBits])
Holds(x, w) == x \in -(F!Power[w - 1]) .. (F!Power[w - 1] - 1)
IsStored(i, c, v, m) ==
  /\ c = ~Holds(Towards0(v, m), Width(m))
  /\ SignedInt(i) = IF Holds(Towards0(v, m), Width(m))
                    THEN Towards0(v, m) * F!Power[IntBits - Width(m)] ELSE 0

\* The widths a value is stored in, k bits of it before the point.
LEMMA StoreWidths ==
  ASSUME NEW m
  PROVE  /\ Width(m) \in 1 .. IntBits
         /\ \E h \in Nat \ {0}, fu \in Nat \ {0} :
              /\ h = F!Power[Width(m) - 1] /\ fu = F!Power[IntBits - Width(m)]
              /\ h * fu = F!Power[IntBits - 1]
         /\ \A k \in 1 .. Width(m) : \E fa \in Nat \ {0}, pk \in Nat \ {0} :
              /\ fa = F!Power[DoubleBits - IntBits + Width(m) - k] /\ pk = F!Power[k]
              /\ (fa * F!Power[IntBits - Width(m)]) * pk = F!Power[DoubleBits]
         /\ \A k \in Nat : k > Width(m) => \E pk \in Nat \ {0}, n \in Nat \ {0} :
              pk = F!Power[k] /\ pk = (2 * (2 * F!Power[Width(m) - 1])) * n
<1>1. PICK w \in 1 .. IntBits : w = Width(m) /\ w - 1 \in Nat /\ IntBits - w \in Nat
  BY IntWidths DEF Width
<1>2. PICK h \in Nat \ {0}, fu \in Nat \ {0} : h = F!Power[w - 1] /\ fu = F!Power[IntBits - w]
  BY <1>1, FpPowerSteps
<1>3. h * fu = F!Power[IntBits - 1]
  <2>1. (w - 1) + (IntBits - w) = IntBits - 1
    BY IntWidths
  <2>2. F!Power[(w - 1) + (IntBits - w)] = h * fu
    BY <1>1, <1>2, FpPowerOfSum
  <2> QED BY <2>1, <2>2
<1>4. ASSUME NEW k \in 1 .. w
      PROVE  \E fa \in Nat \ {0}, pk \in Nat \ {0} :
               /\ fa = F!Power[DoubleBits - IntBits + w - k] /\ pk = F!Power[k]
               /\ (fa * fu) * pk = F!Power[DoubleBits]
  <2>1. PICK z \in Nat, y \in Nat : /\ z = DoubleBits - IntBits + w - k /\ y = IntBits - w
                                    /\ (z + y) + k = DoubleBits /\ z + y \in Nat /\ k \in Nat
    <3>1. DoubleBits - IntBits \in Nat /\ IntBits \in Nat
      BY IntWidths
    <3>2. DoubleBits - IntBits + w - k \in Nat
      BY <1>1, <3>1
    <3> QED BY <1>1, <3>1, <3>2, FpWidths DEF F!WidthAssumption
  <2>2. PICK fa \in Nat \ {0}, pk \in Nat \ {0} : fa = F!Power[z] /\ pk = F!Power[k]
    BY <2>1, FpPowerSteps
  <2>3. F!Power[z + y] = fa * fu
    BY <1>2, <2>1, <2>2, FpPowerOfSum
  <2>4. F!Power[(z + y) + k] = (fa * fu) * pk
    <3>1. PICK zy \in Nat : zy = z + y /\ F!Power[zy] = fa * fu
      BY <2>1, <2>3
    <3>2. F!Power[zy + k] = F!Power[zy] * F!Power[k]
      BY <2>1, FpPowerOfSum
    <3> QED BY <2>2, <3>1, <3>2
  <2> QED BY <2>1, <2>2, <2>4
<1>5. ASSUME NEW k \in Nat, k > w
      PROVE  \E pk \in Nat \ {0}, n \in Nat \ {0} : pk = F!Power[k] /\ pk = (2 * (2 * h)) * n
  <2>1. PICK z \in Nat, y \in Nat : /\ z = k - w - 1 /\ y = w + 1 /\ y + z = k
                                    /\ y = ((w - 1) + 1) + 1
    <3>1. k - w - 1 \in Nat /\ w + 1 \in Nat
      BY <1>1, <1>5
    <3> QED BY <1>1, <3>1
  <2>2. F!Power[y] = 2 * (2 * h)
    BY <1>1, <1>2, <2>1, FpPowerSteps
  <2>3. PICK n \in Nat \ {0} : n = F!Power[z]
    BY FpPowerSteps
  <2>4. F!Power[k] = (2 * (2 * h)) * n
    BY <2>1, <2>2, <2>3, FpPowerOfSum
  <2>5. F!Power[k] \in Nat \ {0}
    BY FpPowerSteps
  <2> QED BY <2>3, <2>4, <2>5
<1>6. Width(m) \in 1 .. IntBits
  BY <1>1
<1>7. \E a \in Nat \ {0}, b \in Nat \ {0} :
        /\ a = F!Power[Width(m) - 1] /\ b = F!Power[IntBits - Width(m)]
        /\ a * b = F!Power[IntBits - 1]
  BY <1>1, <1>2, <1>3, Zenon
<1>8. \A k \in 1 .. Width(m) : \E fa \in Nat \ {0}, pk \in Nat \ {0} :
        /\ fa = F!Power[DoubleBits - IntBits + Width(m) - k] /\ pk = F!Power[k]
        /\ (fa * F!Power[IntBits - Width(m)]) * pk = F!Power[DoubleBits]
  <2> SUFFICES ASSUME NEW k \in 1 .. Width(m)
               PROVE  \E fa \in Nat \ {0}, pk \in Nat \ {0} :
                        /\ fa = F!Power[DoubleBits - IntBits + Width(m) - k] /\ pk = F!Power[k]
                        /\ (fa * F!Power[IntBits - Width(m)]) * pk = F!Power[DoubleBits]
    OBVIOUS
  <2>1. k \in 1 .. w
    BY <1>1
  <2>2. PICK fa \in Nat \ {0}, pk \in Nat \ {0} :
             /\ fa = F!Power[DoubleBits - IntBits + w - k] /\ pk = F!Power[k]
             /\ (fa * fu) * pk = F!Power[DoubleBits]
    BY <1>4, <2>1
  <2>3. /\ fa = F!Power[DoubleBits - IntBits + Width(m) - k]
        /\ (fa * F!Power[IntBits - Width(m)]) * pk = F!Power[DoubleBits]
    BY <1>1, <1>2, <2>2, Zenon
  <2> QED BY <2>2, <2>3
<1>9. \A k \in Nat : k > Width(m) => \E pk \in Nat \ {0}, n \in Nat \ {0} :
        pk = F!Power[k] /\ pk = (2 * (2 * F!Power[Width(m) - 1])) * n
  BY <1>1, <1>2, <1>5, Zenon
<1> QED BY <1>6, <1>7, <1>8, <1>9, Zenon

\* A value of more bits than the width is too large for it.
LEMMA StoreTooLarge ==
  ASSUME NEW x \in F!Hidden .. 2 * F!Hidden - 1, NEW pk \in Nat \ {0}, NEW n \in Nat \ {0},
         NEW h \in Nat \ {0}, pk = (2 * (2 * h)) * n
  PROVE  (x * pk) \div F!Power[DoubleBits] \in Nat /\ (x * pk) \div F!Power[DoubleBits] >= 2 * h
<1>1. PICK g \in Nat \ {0} : g = F!Hidden /\ F!Power[DoubleBits] = 2 * g /\ x \in Nat /\ x >= g
  BY Ranges, GuardedHidden
<1>2. PICK y \in Nat : y = x * pk /\ y >= (2 * g) * (2 * h)
  <2>1. g * pk <= x * pk
    BY <1>1, TimesGrows
  <2>2. PICK d \in Nat : d = (2 * g) * (2 * h)
    OBVIOUS
  <2>3. g * ((2 * (2 * h)) * n) = n * ((2 * g) * (2 * h))
    OBVIOUS
  <2>4. g * pk = n * d
    BY <2>2, <2>3
  <2>5. 1 * d <= n * d
    BY TimesGrows
  <2>6. x * pk \in Nat /\ n * d \in Nat
    BY <1>1
  <2> QED BY <2>1, <2>2, <2>4, <2>5, <2>6
<1>3. PICK b \in Nat \ {0} : b = 2 * g
  <2>1. 2 * g \in Nat \ {0}
    OBVIOUS
  <2> QED BY <2>1
<1>4. PICK q \in Nat, d \in 0 .. b - 1 : q = y \div b /\ y = b * q + d
  <2>1. \E q \in Nat, d \in 0 .. b - 1 : q = y \div b /\ d = y % b /\ y = b * q + d
    BY DivMod, Zenon
  <2> QED BY <2>1
<1>5. q >= 2 * h
  <2> SUFFICES ASSUME q + 1 <= 2 * h PROVE FALSE
    OBVIOUS
  <2>1. (q + 1) * b <= (2 * h) * b
    BY TimesGrows
  <2>2. (q + 1) * b = b * q + b /\ (2 * h) * b = b * (2 * h)
    OBVIOUS
  <2>3. y >= b * (2 * h)
    BY <1>2, <1>3
  <2>4. b * q \in Nat /\ b * (2 * h) \in Nat
    OBVIOUS
  <2> QED BY <1>4, <2>1, <2>2, <2>3, <2>4
<1> QED BY <1>1, <1>2, <1>3, <1>4, <1>5
\* fp.c, pdp11_fp_stcfi: the value towards zero, or C and zero when it does not fit.
LEMMA StoresExact ==
  ASSUME NEW m, NEW v \in F!Value
  PROVE  LET o == F!pdp11_fp_stcfi(v, m) IN IsStored(o.i, o.c, v, m)
<1> DEFINE unit0 == F!Power[IntBits - Width(m)]
           frac == F!Fraction(F!to_fac(v, m))
           whole == frac \div F!Power[DoubleBits - IntBits + F!Bias + Width(m) - v.e]
           kept0 == whole - (whole % unit0)
           long == IF v.s = 1 THEN (F!Power[IntBits] - kept0) % F!Power[IntBits] ELSE kept0
           limit0 == F!IntLimit(v.s, unit0)
           o == F!pdp11_fp_stcfi(v, m)
           fits == Holds(Towards0(v, m), Width(m))
<1>1. /\ v.e <= F!Bias => o.i = 0 /\ o.c = FALSE
      /\ ~(v.e <= F!Bias) /\ (v.e > F!Bias + Width(m) \/ kept0 >= limit0) => o.i = 0 /\ o.c = TRUE
      /\ ~(v.e <= F!Bias) /\ ~(v.e > F!Bias + Width(m) \/ kept0 >= limit0) =>
           o.i = long /\ o.c = FALSE
  <2> DEFINE no == [i |-> 0, c |-> TRUE, code |-> IF "ICVT" \in m.enable THEN "ICVT" ELSE ""]
             none == [i |-> 0, c |-> FALSE, code |-> ""]
             yes == [i |-> long, c |-> FALSE, code |-> ""]
  <2>1. o = IF v.e <= F!Bias THEN none
            ELSE IF v.e > F!Bias + Width(m) \/ kept0 >= limit0 THEN no ELSE yes
    BY Zenon DEF F!pdp11_fp_stcfi, Width
  <2>2. none.i = 0 /\ none.c = FALSE /\ no.i = 0 /\ no.c = TRUE /\ yes.i = long /\ yes.c = FALSE
    BY Zenon
  <2> HIDE DEF no, none, yes, o, long, kept0, limit0
  <2> QED BY <2>1, <2>2, Zenon
<1>2. PICK w \in 1 .. IntBits : w = Width(m)
  BY StoreWidths
<1>3. PICK h \in Nat \ {0}, fu \in Nat \ {0} :
           h = F!Power[Width(m) - 1] /\ fu = unit0 /\ h * fu = F!Power[IntBits - 1]
  BY StoreWidths
<1>4. fits <=> Towards0(v, m) \in -h .. h - 1
  BY <1>3 DEF Holds
<1>5. SignedInt(0) = 0
  BY IntWidths DEF SignedInt
<1>6. PICK x \in F!Hidden .. 2 * F!Hidden - 1 : x = frac
  BY FacType, ValueFields
<1>7. v.e \in Nat /\ v.s \in 0 .. 1 /\ F!Bias \in Nat
  BY ValueFields, Ranges
<1> HIDE DEF o, long, kept0, limit0, fits, frac, unit0, whole
<1>8. CASE v.e <= F!Bias
  <2>1. Towards0(v, m) = 0
    BY <1>8 DEF Towards0
  <2>2. fits
    BY <1>3, <1>4, <2>1
  <2>3. o.c = ~fits
    BY <1>1, <1>8, <2>2
  <2>4. SignedInt(o.i) = IF fits THEN Towards0(v, m) * unit0 ELSE 0
    <3>1. Towards0(v, m) * unit0 = 0
      BY <1>3, <2>1
    <3> QED BY <1>1, <1>5, <1>8, <2>2, <3>1
  <2> QED BY <2>3, <2>4, Zenon DEF IsStored, fits, unit0, o
<1>9. CASE ~(v.e <= F!Bias)
  <2>1. PICK k \in Nat \ {0} : k = v.e - F!Bias
    BY <1>7, <1>9
  <2>2. PICK q : /\ q = (x * F!Power[k]) \div F!Power[DoubleBits]
                 /\ Towards0(v, m) = IF v.s = 1 THEN -q ELSE q
    BY <1>6, <1>9, <2>1 DEF Towards0, F!Signed, frac
  <2>3. CASE k > w
    <3>1. PICK pk \in Nat \ {0}, n \in Nat \ {0} : pk = F!Power[k] /\ pk = (2 * (2 * h)) * n
      BY <1>2, <1>3, <2>3, StoreWidths
    <3>2. q \in Nat /\ q >= 2 * h
      BY <2>2, <3>1, StoreTooLarge
    <3>3. ~fits
      BY <1>3, <1>4, <1>7, <2>2, <3>2
    <3>4. v.e > F!Bias + Width(m)
      BY <1>2, <1>7, <2>1, <2>3
    <3>5. o.i = 0 /\ o.c = TRUE
      BY <1>1, <1>9, <3>4
    <3> QED BY <1>5, <3>3, <3>5, Zenon DEF IsStored, fits, o
  <2>4. CASE k <= w
    <3>1. k \in 1 .. Width(m)
      BY <1>2, <2>4
    <3>2. PICK fa \in Nat \ {0}, pk \in Nat \ {0} :
               /\ fa = F!Power[DoubleBits - IntBits + Width(m) - k] /\ pk = F!Power[k]
               /\ (fa * fu) * pk = F!Power[DoubleBits]
      BY <1>3, <3>1, StoreWidths DEF unit0
    <3>3. whole = x \div fa
      <4>1. DoubleBits - IntBits + Width(m) - k = DoubleBits - IntBits + F!Bias + Width(m) - v.e
        BY <1>2, <1>7, <2>1, FpWidths DEF F!WidthAssumption
      <4> QED BY <1>6, <3>2, <4>1, Zenon DEF whole
    <3>4. q \in Nat /\ kept0 = q * fu
      <4>1. x \in Nat
        BY Ranges
      <4>2. KeepsWhole(x, fa, fu, pk)
        BY <4>1, KeptWhole
      <4>3. q = (x * pk) \div ((fa * fu) * pk)
        BY <2>2, <3>2, Zenon
      <4> QED BY <1>3, <3>3, <4>2, <4>3, Zenon DEF kept0, KeepsWhole
    <3>5. limit0 = IF v.s = 1 THEN F!Power[IntBits - 1] + fu ELSE F!Power[IntBits - 1]
      BY <1>3, Zenon DEF limit0, F!IntLimit
    <3>6. ~(v.e > F!Bias + Width(m))
      BY <1>2, <1>7, <2>1, <2>4
    <3>7. /\ kept0 >= limit0 <=> ~fits
          /\ kept0 < limit0 => SignedInt(long) = Towards0(v, m) * fu
      <4>1. PICK s \in 0 .. 1 : s = v.s
        BY <1>7
      <4> DEFINE limit == IF s = 1 THEN F!Power[IntBits - 1] + fu ELSE F!Power[IntBits - 1]
                 i == IF s = 1 THEN (F!Power[IntBits] - q * fu) % F!Power[IntBits] ELSE q * fu
                 t == IF s = 1 THEN -q ELSE q
      <4>2. /\ q * fu >= limit <=> t \notin -h .. h - 1
            /\ q * fu < limit => SignedInt(i) = t * fu
        BY <1>3, <3>4, StoredSigned
      <4>3. limit0 = limit
        BY <3>5, <4>1, Zenon
      <4>4. t = Towards0(v, m)
        BY <2>2, <4>1, Zenon
      <4>5. i = long
        BY <3>4, <4>1, Zenon DEF long
      <4> HIDE DEF limit, i, t
      <4>6. /\ q * fu >= limit0 <=> Towards0(v, m) \notin -h .. h - 1
            /\ q * fu < limit0 => SignedInt(long) = Towards0(v, m) * fu
        BY <4>2, <4>3, <4>4, <4>5, Zenon
      <4> QED BY <1>4, <3>4, <4>6, Zenon
    <3>8. kept0 >= limit0 \/ kept0 < limit0
      <4>1. kept0 \in Nat /\ limit0 \in Nat
        BY <1>3, <3>4, <3>5, IntWidths
      <4> QED BY <4>1
    <3>9. CASE kept0 >= limit0
      <4>1. o.i = 0 /\ o.c = TRUE /\ ~fits
        BY <1>1, <1>9, <3>7, <3>9
      <4> QED BY <1>5, <4>1, Zenon DEF IsStored, fits, o
    <3>10. CASE ~(kept0 >= limit0)
      <4>1. o.i = long /\ o.c = FALSE
        BY <1>1, <1>9, <3>6, <3>10
      <4>2. fits /\ SignedInt(long) = Towards0(v, m) * unit0
        BY <1>3, <3>7, <3>8, <3>10
      <4> QED BY <4>1, <4>2, Zenon DEF IsStored, fits, o, unit0
    <3> QED BY <3>9, <3>10
  <2> QED BY <1>2, <2>1, <2>3, <2>4
<1> QED BY <1>8, <1>9
\* A value in double precision keeps every bit.
IsWidened(v, rv, flag) == ~flag /\ rv = IF v.e = 0 THEN F!Zero ELSE v

\* cpu.c, LDCff': only the load into single precision rounds; into double it keeps
\* the operand, a whole accumulator too.
LEMMA LdcfExact ==
  ASSUME NEW m \in F!FpsModes, NEW b \in F!Value
  PROVE  LET v == IF b.e = 0 THEN F!Zero ELSE b
             o == IF ~m.d /\ ~m.t THEN F!roundfp11(v, m) ELSE F!Outcome(v, FALSE, "")
         IN  IF m.d THEN IsWidened(b, o.v, o.overflow)
             ELSE IsNarrowed(b, F!to_fac(o.v, m), o.overflow, m.t)
<1> DEFINE v == IF b.e = 0 THEN F!Zero ELSE b
           plain == F!Outcome(v, FALSE, "")
           o == IF ~m.d /\ ~m.t THEN F!roundfp11(v, m) ELSE plain
<1>1. plain.v = v /\ plain.overflow = FALSE
  BY DEF F!Outcome
<1>2. m.t \in BOOLEAN
  BY DEF F!FpsModes
<1> HIDE DEF plain
<1>3. CASE m.d
  <2>1. o = plain
    BY <1>3
  <2>2. v = IF b.e = 0 THEN F!Zero ELSE b
    BY Zenon
  <2> HIDE DEF v, o
  <2>4. IsWidened(b, o.v, o.overflow)
    BY <1>1, <2>1, <2>2, Zenon DEF IsWidened
  <2> QED BY <1>3, <2>4, Zenon DEF o, v, plain
<1>4. CASE ~m.d /\ ~m.t
  <2>1. m.t = FALSE
    BY <1>2, <1>4
  <2>2. o = F!roundfp11(v, m)
    BY <1>4
  <2>3. IsNarrowed(b, F!to_fac(o.v, m), o.overflow, FALSE)
    <3>1. CASE b.e = 0
      <4>1. v = F!Zero
        BY <3>1
      <4>2. o = F!roundfp11(F!Zero, m)
        BY <2>2, <4>1, Zenon
      <4> HIDE DEF v, o
      <4> QED BY <1>4, <3>1, <4>2, ZeroNarrows, Zenon
    <3>2. CASE b.e # 0
      <4>1. v = b
        BY <1>4, <3>2
      <4>2. o = F!roundfp11(b, m)
        BY <2>2, <4>1, Zenon
      <4> HIDE DEF v, o
      <4> QED BY <1>4, <3>2, <4>2, RoundNarrows, Zenon
    <3> QED BY <3>1, <3>2
  <2> HIDE DEF v, o
  <2> QED BY <1>4, <2>1, <2>3, Zenon DEF o, v, plain
<1>5. CASE ~m.d /\ m.t
  <2>1. m.t = TRUE
    BY <1>2, <1>5
  <2>2. o.v = v /\ o.overflow = FALSE
    BY <1>1, <1>5
  <2>3. IsNarrowed(b, F!to_fac(v, m), FALSE, TRUE)
    <3>1. CASE b.e = 0
      <4>1. v = F!Zero
        BY <3>1
      <4> HIDE DEF v, o
      <4> QED BY <1>5, <3>1, <4>1, ZeroNarrows, Zenon
    <3>2. CASE b.e # 0
      <4>1. v = b
        BY <1>5, <3>2
      <4> HIDE DEF v, o
      <4> QED BY <1>5, <3>2, <4>1, CutNarrows, Zenon
    <3> QED BY <3>1, <3>2
  <2> HIDE DEF v, o
  <2>4. IsNarrowed(b, F!to_fac(o.v, m), o.overflow, m.t)
    BY <2>1, <2>2, <2>3, Zenon
  <2> QED BY <1>5, <2>4, Zenon DEF o, v, plain
<1> QED BY <1>3, <1>4, <1>5

\* cpu.c, STCff': only the store in single precision rounds.
LEMMA StcfExact ==
  ASSUME NEW m \in F!FpsModes, NEW a \in F!Value
  PROVE  LET x == F!to_fac(a, m)
             v == IF a.e = 0 THEN F!Zero ELSE x
             o == IF m.d /\ ~m.t THEN F!roundfp11(v, m) ELSE F!Outcome(v, FALSE, "")
             n == [m EXCEPT !.d = ~@]
         IN  IF m.d THEN IsNarrowed(x, F!to_fac(o.v, n), o.overflow, m.t)
             ELSE IsWidened(x, F!to_fac(o.v, n), o.overflow)
<1> DEFINE x == F!to_fac(a, m)
           v == IF a.e = 0 THEN F!Zero ELSE x
           plain == F!Outcome(v, FALSE, "")
           o == IF m.d /\ ~m.t THEN F!roundfp11(v, m) ELSE plain
           n == [m EXCEPT !.d = ~@]
<1>1. plain.v = v /\ plain.overflow = FALSE
  BY DEF F!Outcome
<1>2. m.t \in BOOLEAN /\ m.d \in BOOLEAN /\ n.d = (~m.d)
  BY DEF F!FpsModes
<1>3. x \in F!Value /\ x.e = a.e
  BY FacType
<1> HIDE DEF plain, n, x
<1>4. CASE ~m.d
  <2>1. o = plain
    BY <1>4
  <2>2. F!to_fac(v, n) = v
    BY <1>2, <1>4 DEF F!to_fac
  <2>3. v = IF x.e = 0 THEN F!Zero ELSE x
    BY <1>3, Zenon
  <2> HIDE DEF v, o
  <2>4. IsWidened(x, F!to_fac(o.v, n), o.overflow)
    BY <1>1, <2>1, <2>2, <2>3, Zenon DEF IsWidened
  <2> QED BY <1>4, <2>4, Zenon DEF o, v, plain, x, n
<1>5. CASE m.d /\ ~m.t
  <2>1. m.t = FALSE /\ ~n.d
    BY <1>2, <1>5
  <2>2. o = F!roundfp11(v, m)
    BY <1>5
  <2>3. IsNarrowed(x, F!to_fac(o.v, n), o.overflow, FALSE)
    <3>1. CASE a.e = 0
      <4>1. v = F!Zero /\ x.e = 0
        BY <1>3, <3>1
      <4>2. o = F!roundfp11(F!Zero, m)
        BY <2>2, <4>1, Zenon
      <4> HIDE DEF v, o
      <4> QED BY <2>1, <4>1, <4>2, ZeroNarrows, Zenon
    <3>2. CASE a.e # 0
      <4>1. v = x /\ x.e # 0
        BY <1>3, <3>2
      <4>2. o = F!roundfp11(x, m)
        BY <2>2, <4>1, Zenon
      <4> HIDE DEF v, o
      <4> QED BY <1>3, <2>1, <4>1, <4>2, RoundNarrows, Zenon
    <3> QED BY <3>1, <3>2
  <2> HIDE DEF v, o
  <2> QED BY <1>5, <2>1, <2>3, Zenon DEF o, v, plain, x, n
<1>6. CASE m.d /\ m.t
  <2>1. m.t = TRUE /\ ~n.d
    BY <1>2, <1>6
  <2>2. o.v = v /\ o.overflow = FALSE
    BY <1>1, <1>6
  <2>3. IsNarrowed(x, F!to_fac(v, n), FALSE, TRUE)
    <3>1. CASE a.e = 0
      <4>1. v = F!Zero /\ x.e = 0
        BY <1>3, <3>1
      <4> HIDE DEF v, o
      <4> QED BY <2>1, <4>1, ZeroNarrows, Zenon
    <3>2. CASE a.e # 0
      <4>1. v = x /\ x.e # 0
        BY <1>3, <3>2
      <4> HIDE DEF v, o
      <4> QED BY <1>3, <2>1, <4>1, CutNarrows, Zenon
    <3> QED BY <3>1, <3>2
  <2> HIDE DEF v, o
  <2>4. IsNarrowed(x, F!to_fac(o.v, n), o.overflow, m.t)
    BY <2>1, <2>2, <2>3, Zenon
  <2> QED BY <1>6, <2>4, Zenon DEF o, v, plain, x, n
<1> QED BY <1>4, <1>5, <1>6

\* Cutting a fraction to its precision twice is cutting it once, whatever its sign.
LEMMA FacTwice ==
  ASSUME NEW v \in F!Value, NEW m
  PROVE  F!to_fac(F!to_fac(v, m), m) = F!to_fac(v, m)
<1>1. PICK n \in Nat \ {0} : n = F!Power[F!LowBits]
  BY Ranges
<1>2. PICK f \in Nat : f = v.f
  BY ValueFields
<1> DEFINE w == F!to_fac(v, m)
<1>3. w = IF m.d THEN v ELSE [v EXCEPT !.f = @ - (@ % n)]
  BY <1>1, Zenon DEF F!to_fac
<1>4. F!to_fac(w, m) = IF m.d THEN w ELSE [w EXCEPT !.f = @ - (@ % n)]
  BY <1>1, Zenon DEF F!to_fac
<1>5. CASE m.d
  BY <1>3, <1>4, <1>5, Zenon
<1>6. CASE ~m.d
  <2>1. w \in F!Value
    BY FacType
  <2>2. w.f = f - (f % n)
    BY <1>2, <1>3, <1>6 DEF F!Value
  <2>3. PICK k \in Int : f - (f % n) = k * n + 0
    <3>1. PICK q \in Nat, d \in 0 .. n - 1 : d = f % n /\ f = n * q + d
      BY DivMod
    <3>2. n * q = q * n /\ q * n \in Nat
      OBVIOUS
    <3>3. f - (f % n) = q * n + 0
      BY <3>1, <3>2
    <3> QED BY <3>3
  <2>4. PICK x \in Int : x = w.f /\ x = k * n + 0
    <3>1. w.f \in Int
      BY <2>1, ValueFields
    <3> QED BY <2>2, <2>3, <3>1
  <2>5. x % n = 0
    <3>1. 0 \in 0 .. n - 1
      OBVIOUS
    <3> QED BY <2>4, <3>1, DivModUnique
  <2> HIDE DEF w
  <2>6. [w EXCEPT !.f = @ - (@ % n)] = w
    <3>1. x - (x % n) = x
      BY <2>5
    <3>2. [w EXCEPT !.f = @ - (@ % n)] = [w EXCEPT !.f = x - (x % n)]
      BY <2>4, Zenon
    <3>3. [w EXCEPT !.f = x] = w
      BY <2>1, <2>4 DEF F!Value
    <3> QED BY <3>1, <3>2, <3>3, Zenon
  <2> QED BY <1>4, <1>6, <2>6, Zenon DEF w
<1> QED BY <1>5, <1>6

\* Rounding to single precision gives a value.
LEMMA RoundType ==
  ASSUME NEW v \in F!Value, NEW m
  PROVE  F!roundfp11(v, m).v \in F!Value
<1> DEFINE sum == F!Magnitude(v) + F!Power[F!LowBits - 1]
           out == [s |-> v.s, e |-> (sum \div F!Hidden) % F!Power[ExpBits],
                   f |-> sum % F!Hidden]
           posted == F!Excepted(out, TRUE, "OVFLO", m)
           plain == F!Outcome(out, FALSE, "")
           o == F!roundfp11(v, m)
<1>1. o = IF sum >= F!Power[ExpBits] * F!Hidden THEN posted ELSE plain
  BY Zenon DEF F!roundfp11
<1>2. PICK h \in Nat \ {0}, b \in Nat \ {0} :
           h = F!Hidden /\ b = F!Power[ExpBits] /\ F!MaxExp = b - 1
  BY Ranges
<1>3. PICK t \in Nat : t = sum
  <2>1. PICK l \in Nat : l = F!Power[F!LowBits - 1]
    BY LowHalf
  <2>2. PICK e \in Nat, f \in Nat : F!Magnitude(v) = e * h + f
    BY <1>2, ValueFields
  <2>3. e * h \in Nat
    OBVIOUS
  <2> QED BY <2>1, <2>2, <2>3
<1> HIDE DEF sum, o
<1>4. out \in F!Value
  <2>1. t \div h \in Nat /\ t % h \in 0 .. h - 1
    BY DivMod
  <2>2. PICK q \in Nat : q = t \div h
    BY <2>1
  <2>3. q % b \in 0 .. b - 1
    BY DivMod
  <2>4. v.s \in 0 .. 1
    BY ValueFields
  <2> QED BY <1>2, <1>3, <2>1, <2>2, <2>3, <2>4 DEF F!Value
<1>5. F!Zero \in F!Value
  BY Ranges DEF F!Zero, F!Value
<1> HIDE DEF out
<1>6. posted.v \in F!Value /\ plain.v \in F!Value
  BY <1>4, <1>5 DEF F!Excepted, F!Outcome
<1> HIDE DEF posted, plain
<1>7. o.v \in F!Value
  BY <1>1, <1>6, Zenon
<1> QED BY <1>7 DEF o

\* cpu.c, write_fp: read in the precision it was stored in, a value is the same in
\* memory and in an accumulator; in double precision it is the value itself.
LEMMA TransferReads ==
  ASSUME NEW w \in F!Value, NEW reg, NEW n
  PROVE  /\ F!to_fac(F!Transferred(w, reg, n), n) = F!to_fac(w, n)
         /\ n.d => F!Transferred(w, reg, n) = F!to_fac(w, n)
<1>1. F!Transferred(w, reg, n) = w \/ F!Transferred(w, reg, n) = F!to_fac(w, n)
  BY Zenon DEF F!Transferred
<1>2. F!to_fac(F!to_fac(w, n), n) = F!to_fac(w, n)
  BY FacTwice
<1>3. n.d => F!to_fac(w, n) = w
  BY Zenon DEF F!to_fac
<1> QED BY <1>1, <1>2, <1>3, Zenon

\* The property speaks of an instruction's own operand and result.
ConvertsNow ==
  /\ last.op = "LDCif" => IsLoaded(F!R, dst, fec, fps)
  /\ last.op = "STCfi" => IsStored(dst, fpCc.c, ac, fps)
  /\ last.op = "LDCff" =>
       IF fps.d THEN IsWidened(last.b, ac, fpCc.v)
       ELSE IsNarrowed(last.b, F!R, fpCc.v, fps.t)
  /\ last.op = "STCff" =>
       IF fps.d THEN IsNarrowed(F!A, F!to_fac(ac1, F!Other(fps)), fpCc.v, fps.t)
       ELSE IsWidened(F!A, ac1, fpCc.v)
  /\ last.op = "CMP" => IsOrdered(fpCc, F!A, F!B)

\* What the induction keeps is the property.
LEMMA ConvertsNowMeans == ConvertsNow => F!ConversionsExact
<1> SUFFICES ASSUME ConvertsNow PROVE F!ConversionsExact
  OBVIOUS
<1>1. F!Unit = LastPlace(fps)
  BY Zenon DEF F!Unit, LastPlace
<1>2. \A v : F!Suppressed(v) <=> Gone(v, fec)
  BY Zenon DEF F!Suppressed, Gone
<1>3. \A v : F!Unwrapped(v) = Posted(v, fec)
  BY Zenon DEF F!Unwrapped, Posted
<1>4. \A v, num, den, exp, t :
        Near(v, fec, fps, num, den, exp, t) => F!RoundedTo(v, num, den, exp, t)
  BY <1>1, <1>2, <1>3, Zenon DEF Near, F!RoundedTo
<1>5. \A v, rv : IsNarrowed(v, rv, fpCc.v, fps.t) => F!Narrowed(v, rv)
  BY Zenon DEF IsNarrowed, Over, F!Narrowed
<1>6. \A v, rv : IsWidened(v, rv, fpCc.v) => F!Widened(v, rv)
  BY Zenon DEF IsWidened, F!Widened
<1> DEFINE w == Width(fps)
           signed == SignedInt(dst)
           towards0 == Towards0(ac, fps)
<1>7. last.op = "LDCif" =>
        IF dst = 0 THEN F!R = F!Zero
        ELSE /\ F!RoundedTo(F!R, F!Distance(signed, 0) * F!Power[Justify(signed)],
                            F!Power[IntBits], F!Bias + w - Justify(signed), fps.t)
             /\ (F!R.s = 1) = (signed < 0)
  BY <1>4, Zenon DEF ConvertsNow, IsLoaded
<1>8. last.op = "STCfi" =>
        /\ fpCc.c = ~Holds(towards0, w)
        /\ signed = IF Holds(towards0, w) THEN towards0 * F!Power[IntBits - w] ELSE 0
  BY Zenon DEF ConvertsNow, IsStored
<1>9. last.op = "LDCff" =>
        IF fps.d THEN F!Widened(last.b, ac) ELSE F!Narrowed(last.b, F!R)
  BY <1>5, <1>6, Zenon DEF ConvertsNow
<1>10. last.op = "STCff" => IF fps.d THEN F!Narrowed(F!A, F!to_fac(ac1, F!Other(fps)))
                           ELSE F!Widened(F!A, ac1)
  BY <1>5, <1>6, Zenon DEF ConvertsNow
<1>11. last.op = "CMP" => /\ fpCc.n = (Order(F!B) < Order(F!A))
                          /\ fpCc.z = (Order(F!B) = Order(F!A))
  BY Zenon DEF ConvertsNow, IsOrdered
<1> QED BY <1>7, <1>8, <1>9, <1>10, <1>11, Zenon
        DEF F!ConversionsExact, SignedInt, Towards0, Holds, Justify, Width, Order, F!R

\* Every instruction keeps it.
LEMMA FpStepConverts ==
  ASSUME Ready, ConvertsNow, F!Next
  PROVE  ConvertsNow'
<1> DEFINE Converts == {"LDCif", "STCfi", "LDCff", "STCff", "CMP"}
<1>1. CASE last.op = "none" /\ \E m \in Settings, v \in FpValues : F!Load(m, v)
  <2>1. last'.op = "load"
    BY <1>1 DEF F!Load
  <2> QED BY <2>1 DEF ConvertsNow
<1>2. CASE F!Reset
  <2>1. last'.op = "none"
    BY <1>2 DEF F!Reset
  <2> QED BY <2>1 DEF ConvertsNow
<1>3. CASE last.op = "load" /\ F!Execute
  <2>1. er = FALSE /\ fec = "" /\ fps \in F!FpsModes /\ ac \in F!Value
    BY <1>3, Zenon DEF Ready
  <2>2. Mode(fps)
    BY <2>1 DEF F!FpsModes, Mode
  <2>3. FpValues \subseteq F!Value
    BY FpWidths DEF F!WidthAssumption
  <2>4. \A v \in F!Value : F!to_fac(v, fps) \in F!Value
    BY FacType
  <2>5. ASSUME NEW op, NEW b, F!Executes(op, b), op \notin Converts
        PROVE  ConvertsNow'
    <3>1. last'.op = op
      BY <2>5 DEF F!Executes
    <3> QED BY <2>5, <3>1, Zenon DEF ConvertsNow
  <2>6. ASSUME NEW b \in FpValues, F!CMPf(b) PROVE ConvertsNow'
    <3>1. /\ F!Executes("CMP", b)
          /\ fpCc' = F!pdp11_fp_cmp(F!to_fac(ac, fps), F!to_fac(b, fps))
      BY <2>6, Zenon DEF F!CMPf
    <3>2. last'.op = "CMP" /\ last'.b = b /\ last'.a = ac /\ fps' = fps
      BY <3>1 DEF F!Executes
    <3>3. F!to_fac(ac, fps) \in F!Value /\ F!to_fac(b, fps) \in F!Value
      BY <2>1, <2>3, <2>4
    <3>4. IsOrdered(fpCc', F!to_fac(last'.a, fps'), F!to_fac(last'.b, fps'))
      BY <3>1, <3>2, <3>3, CmpOrders, Zenon
    <3>5. last'.op \notin {"LDCif", "STCfi", "LDCff", "STCff"}
      BY <3>2
    <3> QED BY <3>4, <3>5, Zenon DEF ConvertsNow, IsOrdered, F!A, F!B
  <2>7. ASSUME NEW b \in FpValues, NEW reg \in BOOLEAN, F!LDCff(b, reg) PROVE ConvertsNow'
    <3> DEFINE source == F!Transferred(b, reg, F!Other(fps))
               v == IF source.e = 0 THEN F!Zero ELSE source
               o == IF ~fps.d /\ ~fps.t THEN F!roundfp11(v, fps) ELSE F!Outcome(v, FALSE, "")
    <3>1. F!Executes("LDCff", source) /\ ac' = o.v /\ fpCc' = F!fp_setcc(o.v, o.overflow)
      BY <2>7, Zenon DEF F!LDCff
    <3>7. source \in F!Value
      BY <2>3, FacType DEF F!Transferred
    <3> HIDE DEF source
    <3>2. IF fps.d THEN IsWidened(source, o.v, o.overflow)
          ELSE IsNarrowed(source, F!to_fac(o.v, fps), o.overflow, fps.t)
      BY <2>1, <3>7, LdcfExact, Zenon
    <3> HIDE DEF v, o
    <3>3. last'.op = "LDCff" /\ last'.b = source /\ fps' = fps
      BY <3>1 DEF F!Executes
    <3>4. fpCc'.v = o.overflow
      BY <3>1 DEF F!fp_setcc
    <3>5. IF fps'.d THEN IsWidened(last'.b, ac', fpCc'.v)
          ELSE IsNarrowed(last'.b, F!to_fac(ac', fps'), fpCc'.v, fps'.t)
      BY <3>1, <3>2, <3>3, <3>4, Zenon
    <3>6. last'.op \notin {"LDCif", "STCfi", "STCff", "CMP"}
      BY <3>3
    <3> QED BY <3>5, <3>6, Zenon DEF ConvertsNow, F!R
  <2>8. ASSUME NEW reg \in BOOLEAN, F!STCff(reg) PROVE ConvertsNow'
    <3> DEFINE v == IF ac.e = 0 THEN F!Zero ELSE F!to_fac(ac, fps)
               plain == F!Outcome(v, FALSE, "")
               o == IF fps.d /\ ~fps.t THEN F!roundfp11(v, fps) ELSE plain
               n == F!Other(fps)
    <3>1. /\ F!Executes("STCff", F!Zero) /\ ac1' = F!Transferred(o.v, reg, n)
          /\ fpCc' = F!fp_setcc(o.v, o.overflow)
      BY <2>8, Zenon DEF F!STCff
    <3>2. IF fps.d THEN IsNarrowed(F!to_fac(ac, fps), F!to_fac(o.v, n), o.overflow, fps.t)
          ELSE IsWidened(F!to_fac(ac, fps), F!to_fac(o.v, n), o.overflow)
      BY <2>1, StcfExact, Zenon DEF F!Other
    <3>7. n.d = ~fps.d
      BY <2>1 DEF F!Other, F!FpsModes
    <3>8. o.v \in F!Value
      <4>1. F!to_fac(ac, fps) \in F!Value
        BY <2>1, <2>4, Zenon
      <4>5. F!Zero \in F!Value
        BY Ranges DEF F!Zero, F!Value
      <4>2. v \in F!Value
        BY <4>1, <4>5, Zenon
      <4>3. plain.v = v
        BY DEF F!Outcome
      <4> HIDE DEF v, plain
      <4>4. F!roundfp11(v, fps).v \in F!Value
        BY <4>2, RoundType
      <4> QED BY <4>2, <4>3, <4>4, Zenon
    <3> HIDE DEF v, plain, o, n
    <3>9. /\ F!to_fac(ac1', n) = F!to_fac(o.v, n)
          /\ ~fps.d => ac1' = F!to_fac(o.v, n)
      BY <3>1, <3>7, <3>8, TransferReads, Zenon
    <3>3. last'.op = "STCff" /\ last'.a = ac /\ fps' = fps
      BY <3>1 DEF F!Executes
    <3>4. fpCc'.v = o.overflow
      BY <3>1 DEF F!fp_setcc
    <3>10. n = F!Other(fps')
      BY <3>3, Zenon DEF n
    <3>5. IF fps'.d THEN IsNarrowed(F!to_fac(last'.a, fps'), F!to_fac(ac1', F!Other(fps')),
                                    fpCc'.v, fps'.t)
          ELSE IsWidened(F!to_fac(last'.a, fps'), ac1', fpCc'.v)
      BY <3>2, <3>3, <3>4, <3>9, <3>10, Zenon
    <3>6. last'.op \notin {"LDCif", "STCfi", "LDCff", "CMP"}
      BY <3>3
    <3> QED BY <3>5, <3>6, Zenon DEF ConvertsNow, F!A
  <2>9. ASSUME F!STCfi PROVE ConvertsNow'
    <3> DEFINE o == F!pdp11_fp_stcfi(ac, fps)
    <3>1. /\ F!Executes("STCfi", F!Zero) /\ dst' = o.i /\ ac' = ac
          /\ fpCc' = [n |-> o.i >= F!Power[IntBits - 1], z |-> o.i = 0, v |-> FALSE, c |-> o.c]
      BY <2>9, Zenon DEF F!STCfi
    <3>2. IsStored(o.i, o.c, ac, fps)
      BY <2>1, StoresExact, Zenon
    <3> HIDE DEF o
    <3>3. last'.op = "STCfi" /\ fps' = fps
      BY <3>1 DEF F!Executes
    <3>4. fpCc'.c = o.c
      BY <3>1
    <3>5. IsStored(dst', fpCc'.c, ac', fps')
      BY <3>1, <3>2, <3>3, <3>4, Zenon
    <3>6. last'.op \notin {"LDCif", "STCff", "LDCff", "CMP"}
      BY <3>3
    <3> QED BY <3>5, <3>6, Zenon DEF ConvertsNow
  <2>10. ASSUME NEW i \in 0 .. F!Power[IntBits] - 1, F!LDCif(i) PROVE ConvertsNow'
    <3>1. /\ F!Executes("LDCif", F!Zero) /\ dst' = i /\ fec' = fec
          /\ ac' = F!pdp11_fp_ldcif(i, fps)
      BY <2>10, Zenon DEF F!LDCif
    <3>2. IsLoaded(F!to_fac(F!pdp11_fp_ldcif(i, fps), fps), i, "", fps)
      BY <2>2, LoadsExact, Zenon
    <3>3. last'.op = "LDCif" /\ fps' = fps
      BY <3>1 DEF F!Executes
    <3>4. IsLoaded(F!to_fac(ac', fps'), dst', fec', fps')
      BY <2>1, <3>1, <3>2, <3>3, Zenon
    <3>5. last'.op \notin {"STCfi", "STCff", "LDCff", "CMP"}
      BY <3>3
    <3> QED BY <3>4, <3>5, Zenon DEF ConvertsNow, F!R
  <2>11. ASSUME NEW b \in FpValues, NEW op \in {"ADD", "SUB", "MUL"}, F!Arithmetic(op, b)
         PROVE  ConvertsNow'
    <3>1. F!Executes(op, b)
      BY <2>11, Zenon DEF F!Arithmetic
    <3>2. op \notin Converts
      OBVIOUS
    <3> QED BY <2>5, <3>1, <3>2, Zenon
  <2>12. ASSUME NEW b \in FpValues, F!DIVf(b) \/ F!MODf(b) PROVE ConvertsNow'
    <3>1. F!Executes("DIV", b) \/ F!Executes("MOD", b)
      BY <2>12, Zenon DEF F!DIVf, F!MODf
    <3>2. "DIV" \notin Converts /\ "MOD" \notin Converts
      OBVIOUS
    <3> QED BY <2>5, <3>1, <3>2, Zenon
  <2>13. ASSUME NEW op \in {"CLR", "TST", "ABS", "NEG"}, F!Unary(op) PROVE ConvertsNow'
    <3>1. F!Executes(op, F!Zero)
      BY <2>13, Zenon DEF F!Unary
    <3>2. op \notin Converts
      OBVIOUS
    <3> QED BY <2>5, <3>1, <3>2, Zenon
  <2>14. ASSUME F!STEXP \/ (\E x \in Exponents : F!LDEXP(x)) PROVE ConvertsNow'
    <3>1. F!Executes("STEXP", F!Zero) \/ F!Executes("LDEXP", F!Zero)
      BY <2>14, Zenon DEF F!STEXP, F!LDEXP
    <3>2. "STEXP" \notin Converts /\ "LDEXP" \notin Converts
      OBVIOUS
    <3> QED BY <2>5, <3>1, <3>2, Zenon
  <2> QED BY <1>3, <2>6, <2>7, <2>8, <2>9, <2>10, <2>11, <2>12, <2>13, <2>14, Zenon DEF F!Execute
<1> QED BY <1>1, <1>2, <1>3 DEF F!Next

\* fp.c, pdp11_fp_ldcif, pdp11_fp_stcfi, roundfp11 and pdp11_fp_cmp: an integer becomes
\* the nearest value, a value the integer towards zero or C and zero where that does not
\* fit, a precision narrows by rounding and widens without, and values compare as their
\* numbers do.
THEOREM FpConversions == DatapathSpec => []FpConversionsExact
<1> DEFINE Inv == Ready /\ F!ExceptionsReported /\ ConvertsNow
<1>1. DatapathInit => Inv
  <2> SUFFICES ASSUME DatapathInit PROVE Inv
    OBVIOUS
  <2>1. /\ last.op = "none" /\ er = FALSE /\ trapped = FALSE
        /\ fec = "" /\ fpCc.c = FALSE /\ fpCc.v = FALSE
    BY DEF DatapathInit, F!Init, F!fp_setcc
  <2> QED BY <2>1 DEF Ready, F!ExceptionsReported, ConvertsNow
<1>2. Inv /\ [DatapathNext]_<<unit, vars, aluVars, fpVars>> => Inv'
  <2> SUFFICES ASSUME Inv, [DatapathNext]_<<unit, vars, aluVars, fpVars>> PROVE Inv'
    OBVIOUS
  <2>1. CASE F!Next
    BY <2>1, FpStepReports, FpStepConverts
  <2>2. CASE UNCHANGED fpVars
    <3>1. Ready' /\ F!ExceptionsReported'
      BY <2>2 DEF fpVars, Ready, F!ExceptionsReported, F!R, F!A, F!B, F!to_fac
    <3>2. ConvertsNow'
      <4>1. /\ fps' = fps /\ fpCc' = fpCc /\ fec' = fec /\ ac' = ac /\ ac1' = ac1 /\ dst' = dst
            /\ last' = last
        BY <2>2, Zenon DEF fpVars
      <4> QED BY <4>1, Zenon DEF ConvertsNow, F!R, F!A, F!B, IsOrdered
    <3> QED BY <3>1, <3>2
  <2> QED BY <2>1, <2>2 DEF DatapathNext
<1>3. Inv => FpConversionsExact
  BY ConvertsNowMeans DEF FpConversionsExact
<1> QED BY <1>1, <1>2, <1>3, PTL DEF DatapathSpec
-----------------------------------------------------------------------------
(* Sums.                                                                    *)

\* A number rv against the sum x, both in units of 2 to the minus Low: within a last
\* place u, and when rounding within half of one and less than two guard bits.
Low == DoubleBits + Guard
Within(rv, u, place, x, t) ==
  /\ F!Distance(rv, x) < u
  /\ t \/ (2 * F!Distance(rv, x) - u) * F!Power[Guard] < 4 * place
IsSumOf(v, code, m, s, x) ==
  LET place == F!Power[Posted(v, code) + Low]
  IN  IF Gone(v, code)
      THEN \/ x < 2 * F!Hidden * F!Power[Low]
           \/ x > (2 * F!Hidden - LastPlace(m)) * F!Power[F!MaxExp + Low]
      ELSE /\ v.s = s /\ F!Fraction(v) * place \in Nat
           /\ Within(F!Fraction(v) * place, LastPlace(m) * place, place, x, m.t)

Straddles(rv, u, frac, g, p, q, x, t, h) ==
  /\ rv \in Nat /\ u \in Nat \ {0} /\ frac \in Nat /\ g \in Nat \ {0} /\ p \in Nat \ {0}
  /\ q \in Nat \ {0} /\ x \in Nat /\ t \in BOOLEAN /\ h \in Nat
  /\ g = F!Power[Guard] /\ u * g = 2 * h /\ u * g >= 4 /\ p <= q
  /\ F!Rounds(rv * g, u * g, frac, t)
  /\ (frac - 2) * p < x * g /\ x * g < (frac + 1) * p

\* What is rounded to rv in units g * p, and lies between two units below and one above
\* frac, is within.
LEMMA NearIsWithin ==
  ASSUME NEW rv, NEW u, NEW frac, NEW g, NEW p, NEW q, NEW x, NEW t, NEW h,
         Straddles(rv, u, frac, g, p, q, x, t, h)
  PROVE  Within(rv * p, u * p, q, x, t)
<1>0. /\ rv \in Nat /\ u \in Nat \ {0} /\ frac \in Nat /\ g \in Nat \ {0} /\ p \in Nat \ {0}
      /\ q \in Nat \ {0} /\ x \in Nat /\ t \in BOOLEAN /\ h \in Nat
      /\ g = F!Power[Guard] /\ u * g = 2 * h /\ u * g >= 4 /\ p <= q
      /\ F!Rounds(rv * g, u * g, frac, t)
      /\ (frac - 2) * p < x * g /\ x * g < (frac + 1) * p
  BY Zenon DEF Straddles
<1> USE <1>0
<1>1. PICK a \in Nat, w \in Nat : a = rv * g /\ w = u * g
  OBVIOUS
<1>2. PICK ap \in Nat, wp \in Nat, fp \in Nat, xg \in Nat :
           ap = a * p /\ wp = w * p /\ fp = frac * p /\ xg = x * g
  <2>1. a * p \in Nat /\ w * p \in Nat /\ frac * p \in Nat /\ x * g \in Nat
    OBVIOUS
  <2> QED BY <2>1
<1>3. fp - 2 * p < xg /\ xg < fp + p
  <2>1. (frac - 2) * p = frac * p - 2 * p /\ (frac + 1) * p = frac * p + p
    OBVIOUS
  <2> QED BY <1>2, <2>1
<1>4. PICK rp \in Nat, up \in Nat : rp = rv * p /\ up = u * p
  OBVIOUS
<1>5. ap = rp * g /\ wp = up * g
  <2>1. (rv * g) * p = (rv * p) * g /\ (u * g) * p = (u * p) * g
    OBVIOUS
  <2> QED BY <1>1, <1>2, <1>4, <2>1
<1>6. PICK e \in Nat : e = F!Distance(rp, x)
  <2>1. F!Distance(rp, x) \in Nat
    BY DEF F!Distance
  <2> QED BY <2>1
<1>7. PICK eg \in Nat : eg = e * g
  OBVIOUS
<1>8. eg = F!Distance(ap, xg)
  <2>1. CASE rp < x
    <3>1. e = x - rp
      BY <1>6, <2>1 DEF F!Distance
    <3>2. (x - rp) * g = x * g - rp * g
      OBVIOUS
    <3>3. rp * g <= x * g
      BY <2>1, TimesGrows
    <3> QED BY <1>2, <1>5, <1>7, <3>1, <3>2, <3>3 DEF F!Distance
  <2>2. CASE ~(rp < x)
    <3>1. e = rp - x
      BY <1>6, <2>2 DEF F!Distance
    <3>2. (rp - x) * g = rp * g - x * g
      OBVIOUS
    <3>3. x * g <= rp * g
      BY <2>2, TimesGrows
    <3> QED BY <1>2, <1>5, <1>7, <3>1, <3>2, <3>3 DEF F!Distance
  <2> QED BY <2>1, <2>2
<1>9. 4 * p <= wp
  <2>1. 4 * p <= w * p
    BY <1>1, TimesGrows
  <2> QED BY <1>2, <2>1
<1>10. CASE t
  <2>1. a <= frac /\ frac + 1 <= a + w
    BY <1>1, <1>10 DEF F!Rounds
  <2>2. a * p <= frac * p /\ (frac + 1) * p <= (a + w) * p
    BY <2>1, TimesGrows
  <2>3. (frac + 1) * p = frac * p + p /\ (a + w) * p = a * p + w * p
    OBVIOUS
  <2>4. ap <= fp /\ fp + p <= ap + wp
    BY <1>2, <2>2, <2>3
  <2>5. eg < wp
    BY <1>3, <1>8, <1>9, <2>4 DEF F!Distance
  <2>6. e < up
    BY <1>5, <1>7, <2>5, TimesCancels
  <2> QED BY <1>4, <1>6, <1>10, <2>6 DEF Within
<1>11. CASE ~t
  <2>1. 2 * (a - frac) <= w /\ 2 * (frac - a) < w
    BY <1>1, <1>11 DEF F!Rounds
  <2>2. a <= frac + h /\ frac + 1 <= a + h /\ w = 2 * h
    BY <1>1, <2>1
  <2>3. a * p <= (frac + h) * p /\ (frac + 1) * p <= (a + h) * p
    BY <2>2, TimesGrows
  <2>4. PICK hp \in Nat : hp = h * p
    OBVIOUS
  <2>5. /\ (frac + 1) * p = frac * p + p /\ (a + h) * p = a * p + h * p
        /\ (frac + h) * p = frac * p + h * p /\ (2 * h) * p = 2 * (h * p)
    OBVIOUS
  <2>6. ap <= fp + hp /\ fp + p <= ap + hp /\ wp = 2 * hp
    BY <1>2, <2>2, <2>3, <2>4, <2>5
  <2>7. 2 * eg < wp + 4 * p
    BY <1>3, <1>8, <2>6 DEF F!Distance
  <2>8. eg < wp
    BY <1>9, <2>7
  <2>9. e < up
    BY <1>5, <1>7, <2>8, TimesCancels
  <2>10. (2 * e - up) * g < 4 * q
    <3>1. (2 * e - up) * g = 2 * (e * g) - up * g
      OBVIOUS
    <3> QED BY <1>5, <1>7, <2>7, <3>1
  <2> QED BY <1>4, <1>6, <2>9, <2>10, Zenon DEF Within
<1> QED BY <1>10, <1>11

\* A guarded fraction between two of its units below and one above a sum, to be packed
\* with the exponent exp.
SumNear(exp, frac, p, x) ==
  /\ exp \in Int /\ frac \in Nat /\ p \in Nat \ {0}
  /\ exp \in 1 - 2 * F!Bias .. 4 * F!Bias - 2 /\ exp + Low \in Nat
  /\ p = F!Power[exp + Low] /\ frac \in F!One .. 2 * F!One - 1 /\ x \in Nat
  /\ (frac - 2) * p < x * F!Power[Guard] /\ x * F!Power[Guard] < (frac + 1) * p

\* Two guard bits at least, and the places of a precision counted in guard bits.
LEMMA GuardPlaces ==
  ASSUME NEW m
  PROVE  \E g \in Nat \ {0}, l \in Nat \ {0}, h \in Nat \ {0}, n \in Nat \ {0} :
           /\ g = F!Power[Guard] /\ l = LastPlace(m) /\ h = Half(m) /\ n = F!Hidden
           /\ g >= 4 /\ l * g = 2 * h /\ h >= 2 /\ F!One = n * g /\ l <= n
<1>1. PICK g \in Nat \ {0}, l \in Nat \ {0}, h \in Nat \ {0}, n \in Nat \ {0} :
           g = F!Power[Guard] /\ l = LastPlace(m) /\ h = Half(m) /\ n = F!Hidden
  BY Places, GuardedHidden, Ranges
<1>2. g >= 4
  <2>1. Guard - 2 \in Nat /\ Guard = (Guard - 2) + 1 + 1
    BY FpWidths DEF F!WidthAssumption
  <2>2. F!Power[(Guard - 2) + 1] = 2 * F!Power[Guard - 2] /\ F!Power[Guard - 2] \in Nat \ {0}
    BY <2>1, FpPowerSteps
  <2>3. (Guard - 2) + 1 \in Nat
    BY <2>1
  <2>4. F!Power[((Guard - 2) + 1) + 1] = 2 * F!Power[(Guard - 2) + 1]
    BY <2>3, FpPowerSteps
  <2> QED BY <1>1, <2>1, <2>2, <2>4
<1>3. 2 * h = g * l /\ F!One = n * g
  BY <1>1, Places, GuardedHidden
<1>4. g * l = l * g /\ 4 * l <= g * l
  BY <1>2, TimesGrows
<1>5. l <= n
  <2>1. PICK k \in Nat \ {0} : n = l * k
    BY <1>1, Places
  <2>2. 1 * l <= k * l /\ k * l = l * k
    BY TimesGrows
  <2> QED BY <2>1, <2>2
<1> QED BY <1>1, <1>2, <1>3, <1>4, <1>5

CarryLoses(m, s, frac, round) ==
  /\ m.t \in BOOLEAN /\ frac \in F!One .. 2 * F!One - 1 /\ round \in BOOLEAN /\ round
  /\ Lost(F!round_and_pack(s, F!MaxExp, frac, round, m), m)

\* Only a carry out of the fraction takes the largest exponent over the end.
LEMMA CarriesOver ==
  ASSUME NEW m, NEW s, NEW frac, NEW round, CarryLoses(m, s, frac, round)
  PROVE  ~m.t /\ frac + Half(m) >= 2 * F!One
<1>0. /\ m.t \in BOOLEAN /\ frac \in F!One .. 2 * F!One - 1 /\ round \in BOOLEAN /\ round
      /\ Lost(F!round_and_pack(s, F!MaxExp, frac, round, m), m)
  BY Zenon DEF CarryLoses
<1> USE <1>0
<1> DEFINE half == IF m.d THEN F!Power[Guard - 1] ELSE F!Power[Guard - 1 + F!LowBits]
           sum == IF round /\ ~m.t THEN frac + half ELSE frac
           carried == sum >= 2 * F!One
           ex == IF carried THEN F!MaxExp + 1 ELSE F!MaxExp
           packed == [s |-> s, e |-> ex % F!Power[ExpBits],
                      f |-> ((IF carried THEN sum \div 2 ELSE sum) \div F!Power[Guard])
                              % F!Hidden]
           o == F!round_and_pack(s, F!MaxExp, frac, round, m)
<1>1. o = IF ex > F!MaxExp THEN F!Excepted(packed, TRUE, "OVFLO", m)
          ELSE IF F!Underflows(ex) THEN F!Excepted(packed, FALSE, "UNFLO", m)
          ELSE F!Outcome(packed, FALSE, "")
  BY Zenon DEF F!round_and_pack
<1>2. PICK n \in Nat \ {0} : n = F!Power[ExpBits] /\ F!MaxExp = n - 1 /\ n >= 2
  BY Ranges
<1>3. half = Half(m)
  BY Zenon DEF Half
<1>4. F!to_fac(packed, m).e = ex % n
  BY <1>2 DEF F!to_fac
<1>5. F!to_fac(F!Zero, m) = F!Zero /\ F!Zero.e = 0
  BY ZeroStays DEF F!Zero
<1>6. Lost(o, m)
  OBVIOUS
<1>7. ex = IF carried THEN F!MaxExp + 1 ELSE F!MaxExp
  OBVIOUS
<1>8. carried = (sum >= 2 * F!One) /\ sum = IF ~m.t THEN frac + half ELSE frac
  OBVIOUS
<1> HIDE DEF o, ex, packed, carried, sum, half
<1>9. CASE carried
  <2>1. ~(frac >= 2 * F!One)
    BY Ranges
  <2> QED BY <1>3, <1>8, <1>9, <2>1
<1>10. CASE ~carried
  <2>1. ex = n - 1
    BY <1>2, <1>7, <1>10
  <2>2. ~(ex > F!MaxExp) /\ ~F!Underflows(ex)
    BY <1>2, <2>1 DEF F!Underflows
  <2>3. o = F!Outcome(packed, FALSE, "")
    BY <1>1, <2>2, Zenon
  <2>4. F!to_fac(o.v, m).e = ex % n
    BY <1>4, <2>3 DEF F!Outcome
  <2>5. ex % n = ex /\ ex # 0
    BY <1>2, <2>1, ModNear
  <2> QED BY <1>5, <1>6, <2>4, <2>5, Zenon DEF Lost
<1> QED BY <1>9, <1>10

\* A power of two for a larger exponent.
LEMMA PowerTimes ==
  ASSUME NEW e \in Int, e + Low \in Nat, NEW k \in Nat
  PROVE  /\ e + k + Low \in Nat
         /\ F!Power[e + k + Low] = F!Power[e + Low] * F!Power[k]
<1>1. PICK n \in Nat : n = e + Low
  OBVIOUS
<1>2. Low \in Nat
  BY FpWidths DEF F!WidthAssumption, Low
<1>3. e + k + Low = n + k
  BY <1>1, <1>2
<1>4. F!Power[n + k] = F!Power[n] * F!Power[k]
  BY FpPowerOfSum
<1> QED BY <1>1, <1>3, <1>4

\* o is what is packed of a guarded fraction near a sum.
PacksSum(m, s, exp, frac, p, x, o) ==
  m.t \in BOOLEAN /\ SumNear(exp, frac, p, x) /\ o = F!round_and_pack(s, exp, frac, TRUE, m)

\* What is packed is the rounded sum, or lost only when the sum is out of range.
LEMMA SumPacks ==
  ASSUME NEW m, NEW s, NEW exp, NEW frac, NEW p, NEW x, NEW o,
         PacksSum(m, s, exp, frac, p, x, o)
  PROVE  IsSumOf(F!to_fac(o.v, m), o.code, m, s, x)
<1>14. m.t \in BOOLEAN /\ SumNear(exp, frac, p, x)
  BY Zenon DEF PacksSum
<1>15. o = F!round_and_pack(s, exp, frac, TRUE, m)
  BY Zenon DEF PacksSum
<1>0. exp \in Int /\ frac \in Nat /\ p \in Nat \ {0} /\ x \in Nat /\ m.t \in BOOLEAN
  BY <1>14, Zenon DEF SumNear
<1> USE <1>0
<1>1. PICK g \in Nat \ {0}, l \in Nat \ {0}, h \in Nat \ {0}, n \in Nat \ {0} :
           /\ g = F!Power[Guard] /\ l = LastPlace(m) /\ h = Half(m) /\ n = F!Hidden
           /\ g >= 4 /\ l * g = 2 * h /\ h >= 2 /\ F!One = n * g /\ l <= n
  BY GuardPlaces
<1>13. PICK ng \in Nat : ng = n * g /\ F!One = ng
  BY <1>1
<1>2. /\ exp \in Int /\ 1 - 2 * F!Bias <= exp /\ exp <= 4 * F!Bias - 2 /\ exp + Low \in Nat
      /\ p \in Nat \ {0} /\ p = F!Power[exp + Low]
      /\ frac \in Nat /\ frac \in F!One .. 2 * F!One - 1 /\ x \in Nat
      /\ (frac - 2) * p < x * g /\ x * g < (frac + 1) * p
  <2>1. F!Bias \in Nat /\ F!One \in Nat
    BY Ranges
  <2>2. /\ exp \in 1 - 2 * F!Bias .. 4 * F!Bias - 2 /\ exp + Low \in Nat
        /\ p = F!Power[exp + Low] /\ frac \in F!One .. 2 * F!One - 1 /\ x \in Nat
        /\ (frac - 2) * p < x * g /\ x * g < (frac + 1) * p
    BY <1>1, <1>14, Zenon DEF SumNear
  <2>3. p \in Nat \ {0}
    BY <2>2, FpPowerSteps
  <2> QED BY <2>1, <2>2, <2>3
<1>12. PICK one \in Nat \ {0} : one = 1
  OBVIOUS
<1>3. PICK yes \in BOOLEAN, t \in BOOLEAN : yes = TRUE /\ t = m.t /\ (t <=> ~(yes /\ ~m.t))
  BY Zenon
<1>4. PICK k, pk :
           /\ PacksAs(o, m, s, exp, k, pk)
           /\ F!Rounds((F!Fraction(F!to_fac(pk, m)) * F!Power[k]) * (F!Power[Guard] * one),
                       (LastPlace(m) * F!Power[k]) * (F!Power[Guard] * one), frac, t)
  <2>1. frac = one * frac /\ h = one * h /\ frac * one = frac /\ (frac + one) * one = frac + 1
    BY <1>2, <1>12
  <2>2. Below(m, frac, one, frac, h, one, frac)
    BY <1>1, <1>2, <2>1 DEF Below
  <2>3. \E k, pk :
           /\ PacksAs(F!round_and_pack(s, exp, frac, yes, m), m, s, exp, k, pk)
           /\ F!Rounds((F!Fraction(F!to_fac(pk, m)) * F!Power[k]) * (F!Power[Guard] * one),
                       (LastPlace(m) * F!Power[k]) * (F!Power[Guard] * one), frac,
                       ~(yes /\ ~m.t))
    BY <1>2, <2>2, PackRounds
  <2> QED BY <1>3, <1>15, <2>3, Zenon
<1>5. \/ Lost(o, m) /\ (exp <= 0 \/ exp >= F!MaxExp)
      \/ ~Lost(o, m) /\ UnwrappedIn(o, m) = exp + k /\ o.v = pk
  BY <1>2, <1>4, Unwraps
<1>6. Gone(F!to_fac(o.v, m), o.code) <=> Lost(o, m)
  BY Zenon DEF Gone, Lost
<1>7. UnwrappedIn(o, m) = Posted(F!to_fac(o.v, m), o.code)
  BY Zenon DEF UnwrappedIn, Posted
<1>8. Lost(o, m) => exp # F!MaxExp \/ (~m.t /\ frac + h >= 2 * F!One)
  <2> SUFFICES ASSUME Lost(o, m), exp = F!MaxExp PROVE ~m.t /\ frac + h >= 2 * F!One
    BY Zenon
  <2>1. Lost(F!round_and_pack(s, F!MaxExp, frac, yes, m), m)
    BY <1>3, <1>15, Zenon
  <2>2. frac + Half(m) >= 2 * F!One /\ ~m.t
    <3>1. yes /\ frac \in F!One .. 2 * F!One - 1
      BY <1>2, <1>3, Zenon
    <3>2. CarryLoses(m, s, frac, yes)
      BY <2>1, <3>1, Zenon DEF CarryLoses
    <3> QED BY <3>2, CarriesOver, Zenon
  <2> QED BY <1>1, <2>2, Zenon
<1>9. CASE ~Lost(o, m) /\ UnwrappedIn(o, m) = exp + k /\ o.v = pk
  <2>1. k \in {0, 1} /\ k \in Nat
    <3>1. k \in {0, 1}
      BY <1>4, Zenon DEF PacksAs
    <3> QED BY <3>1
  <2>2. PICK a \in Nat, c \in Nat \ {0} : a = F!Fraction(F!to_fac(pk, m)) /\ c = F!Power[k]
    BY <1>4, <2>1, FpPowerSteps DEF PacksAs
  <2>3. PICK q \in Nat \ {0} : q = F!Power[exp + k + Low] /\ q = p * c
    <3>1. F!Power[exp + k + Low] = p * c /\ exp + k + Low \in Nat
      BY <1>2, <2>1, <2>2, PowerTimes
    <3> QED BY <3>1, FpPowerSteps
  <2>4. PICK rv \in Nat, u \in Nat \ {0} : rv = a * c /\ u = l * c
    <3>1. a * c \in Nat /\ l * c \in Nat \ {0}
      BY TimesPositive
    <3> QED BY <3>1
  <2>5. F!Rounds(rv * g, u * g, frac, t)
    <3>1. g * one = g
      BY <1>12
    <3> QED BY <1>1, <1>4, <2>2, <2>4, <3>1, Zenon
  <2>6. \E j \in Nat : u * g = 2 * j
    <3>1. (l * c) * g = (l * g) * c /\ (2 * h) * c = 2 * (h * c) /\ h * c \in Nat
      OBVIOUS
    <3> QED BY <1>1, <2>4, <3>1
  <2>7. u * g >= 4
    <3>1. 1 * g <= u * g
      BY TimesGrows
    <3> QED BY <1>1, <3>1
  <2>8. p <= q
    <3>1. 1 * p <= c * p
      BY TimesGrows
    <3>2. c * p = p * c
      OBVIOUS
    <3> QED BY <2>3, <3>1, <3>2
  <2>9. Within(rv * p, u * p, q, x, t)
    <3>1. PICK j \in Nat : u * g = 2 * j
      BY <2>6
    <3>2. (frac - 2) * p < x * g /\ x * g < (frac + 1) * p /\ g = F!Power[Guard]
      BY <1>1, <1>2, Zenon
    <3>3. Straddles(rv, u, frac, g, p, q, x, t, j)
      BY <2>5, <2>7, <2>8, <3>1, <3>2, Zenon DEF Straddles
    <3> QED BY <3>3, NearIsWithin, Zenon
  <2>10. rv * p = a * q /\ u * p = l * q
    <3>1. (a * c) * p = a * (p * c) /\ (l * c) * p = l * (p * c)
      OBVIOUS
    <3> QED BY <2>3, <2>4, <3>1
  <2>11. F!to_fac(o.v, m).s = s
    BY <1>4, <1>9 DEF PacksAs
  <2>12. F!Power[Posted(F!to_fac(o.v, m), o.code) + Low] = q
    BY <1>7, <1>9, <2>3, Zenon
  <2>13. F!Fraction(F!to_fac(o.v, m)) = a
    BY <1>9, <2>2, Zenon
  <2>14. Within(a * q, l * q, q, x, m.t)
    BY <1>3, <2>9, <2>10, Zenon
  <2>15. IsSumOf(F!to_fac(o.v, m), o.code, m, s, x)
    <3>1. a * q \in Nat
      OBVIOUS
    <3> QED BY <1>1, <1>6, <1>9, <2>11, <2>12, <2>13, <2>14, <3>1, Zenon DEF IsSumOf
  <2> QED BY <2>15
<1>10. CASE Lost(o, m) /\ exp <= 0
  <2>1. PICK w \in Nat \ {0} : w = F!Power[Low]
    <3>1. Low \in Nat
      BY FpWidths DEF F!WidthAssumption, Low
    <3> QED BY <3>1, FpPowerSteps
  <2>2. p <= w
    <3>1. PICK i \in Nat, j \in Nat : i = exp + Low /\ j = -exp /\ i + j = Low
      <4>1. Low \in Nat
        BY FpWidths DEF F!WidthAssumption, Low
      <4>2. exp + Low \in Nat /\ -exp \in Nat /\ (exp + Low) + (-exp) = Low
        BY <1>2, <1>10, <4>1
      <4> QED BY <4>2
    <3>2. F!Power[i + j] = F!Power[i] * F!Power[j]
      BY FpPowerOfSum
    <3>3. PICK pj \in Nat \ {0} : pj = F!Power[j]
      BY FpPowerSteps
    <3>4. w = p * pj
      BY <1>2, <2>1, <3>1, <3>2, <3>3, Zenon
    <3>5. 1 * p <= pj * p /\ pj * p = p * pj
      BY TimesGrows
    <3> QED BY <3>4, <3>5
  <2>3. x * g < ((2 * n) * w) * g
    <3>1. frac + 1 <= 2 * (n * g)
      BY <1>1, <1>2
    <3>2. PICK b \in Nat : b = 2 * (n * g)
      OBVIOUS
    <3>3. (frac + 1) * p <= b * p
      BY <1>2, <3>1, <3>2, TimesGrows
    <3>4. p * b <= w * b
      BY <2>2, TimesGrows
    <3>5. p * b = b * p
      BY <1>2
    <3>6. w * (2 * (n * g)) = ((2 * n) * w) * g
      OBVIOUS
    <3>7. PICK bp \in Nat, wb \in Nat, f1 \in Int, xg \in Nat :
               bp = b * p /\ wb = w * b /\ f1 = (frac + 1) * p /\ xg = x * g
      <4>1. b * p \in Nat /\ w * b \in Nat /\ (frac + 1) * p \in Int /\ x * g \in Nat
        BY <1>2
      <4> QED BY <4>1
    <3>8. xg < wb
      BY <1>2, <3>3, <3>4, <3>5, <3>7
    <3> QED BY <3>2, <3>6, <3>7, <3>8
  <2>4. x < (2 * n) * w
    <3>1. PICK z \in Nat : z = (2 * n) * w
      OBVIOUS
    <3> QED BY <1>2, <2>3, <3>1, TimesCancels
  <2>5. IsSumOf(F!to_fac(o.v, m), o.code, m, s, x)
    BY <1>1, <1>6, <1>10, <2>1, <2>4, Zenon DEF IsSumOf
  <2> QED BY <2>5
<1>11. CASE Lost(o, m) /\ exp >= F!MaxExp
  <2>1. PICK w \in Nat \ {0} : w = F!Power[F!MaxExp + Low]
    <3>1. F!MaxExp + Low \in Nat
      BY FpWidths, Ranges DEF F!WidthAssumption, Low
    <3> QED BY <3>1, FpPowerSteps
  <2>2. PICK d \in Nat : d = (2 * n - l) /\ d = 2 * n - l
    BY <1>1
  <2>3. (d * w) * g < x * g
    <3>1. PICK dg \in Nat : dg = d * g /\ dg = 2 * ng - 2 * h
      <4>1. (2 * n - l) * g = 2 * (n * g) - l * g
        OBVIOUS
      <4>2. d * g \in Nat
        OBVIOUS
      <4> QED BY <1>1, <1>13, <2>2, <4>1, <4>2
    <3>2. (d * w) * g = dg * w
      <4>1. (d * w) * g = (d * g) * w
        OBVIOUS
      <4> QED BY <3>1, <4>1
    <3>3. CASE exp = F!MaxExp
      <4>1. p = w /\ dg <= frac - 2
        BY <1>1, <1>2, <1>8, <1>11, <1>13, <2>1, <3>1, <3>3
      <4>2. dg * w <= (frac - 2) * w
        <5>1. PICK f2 \in Nat : f2 = frac - 2
          BY <4>1
        <5> QED BY <4>1, <5>1, TimesGrows
      <4>3. PICK dw \in Nat, fw \in Int, xg \in Nat :
                 dw = dg * w /\ fw = (frac - 2) * w /\ xg = x * g
        <5>1. dg * w \in Nat /\ (frac - 2) * w \in Int /\ x * g \in Nat
          BY <1>2
        <5> QED BY <5>1
      <4>4. fw < xg
        BY <1>2, <4>1, <4>3
      <4> QED BY <3>2, <4>2, <4>3, <4>4
    <3>4. CASE exp # F!MaxExp
      <4>1. PICK j \in Nat : exp = F!MaxExp + 1 + j
        <5>1. exp - F!MaxExp - 1 \in Nat /\ exp = F!MaxExp + 1 + (exp - F!MaxExp - 1)
          BY <1>2, <1>11, <3>4, Ranges
        <5> QED BY <5>1
      <4>2. 2 * w <= p
        <5>1. F!MaxExp \in Int /\ F!MaxExp + Low \in Nat
          BY FpWidths, Ranges DEF F!WidthAssumption, Low
        <5>2. F!Power[F!MaxExp + (1 + j) + Low] = w * F!Power[1 + j]
          BY <2>1, <5>1, PowerTimes
        <5>3. F!Power[j + 1] = 2 * F!Power[j]
          BY FpPowerSteps
        <5>4. PICK pj \in Nat \ {0} : pj = F!Power[j]
          BY FpPowerSteps
        <5>5. exp + Low = F!MaxExp + (1 + j) + Low /\ 1 + j = j + 1
          BY <4>1, <5>1, FpWidths DEF F!WidthAssumption, Low
        <5>6. p = w * (2 * pj)
          BY <1>2, <5>2, <5>3, <5>4, <5>5
        <5>7. w * (2 * pj) = pj * (2 * w)
          OBVIOUS
        <5>8. PICK w2 \in Nat : w2 = 2 * w
          OBVIOUS
        <5>9. 1 * w2 <= pj * w2
          BY TimesGrows
        <5> QED BY <5>6, <5>7, <5>8, <5>9
      <4>3. PICK f2 \in Nat : f2 = frac - 2 /\ dg <= 2 * f2
        <5>1. frac >= ng /\ frac - 2 \in Nat
          <6>1. 1 * g <= n * g
            BY TimesGrows
          <6> QED BY <1>1, <1>2, <1>13, <6>1
        <5>2. dg <= 2 * (frac - 2)
          BY <1>1, <3>1, <5>1
        <5> QED BY <5>1, <5>2
      <4>4. dg * w <= (2 * f2) * w
        BY <4>3, TimesGrows
      <4>5. (2 * w) * f2 <= p * f2
        BY <1>2, <4>2, TimesGrows
      <4>6. (2 * w) * f2 = (2 * f2) * w /\ p * f2 = f2 * p
        BY <1>2
      <4>7. PICK dw \in Nat, fw \in Nat, fp \in Nat, xg \in Nat :
                 dw = dg * w /\ fw = (2 * f2) * w /\ fp = f2 * p /\ xg = x * g
        <5>1. dg * w \in Nat /\ (2 * f2) * w \in Nat /\ f2 * p \in Nat /\ x * g \in Nat
          BY <1>2
        <5> QED BY <5>1
      <4>8. fp < xg
        BY <1>2, <4>3, <4>7
      <4> QED BY <3>2, <4>4, <4>5, <4>6, <4>7, <4>8
    <3> QED BY <3>3, <3>4
  <2>4. d * w < x
    <3>1. PICK z \in Nat : z = d * w
      OBVIOUS
    <3> QED BY <1>2, <2>3, <3>1, TimesCancels
  <2>5. x > (2 * n - l) * w
    BY <1>2, <2>2, <2>4
  <2>6. IsSumOf(F!to_fac(o.v, m), o.code, m, s, x)
    BY <1>1, <1>6, <1>11, <2>1, <2>5, Zenon DEF IsSumOf
  <2> QED BY <2>6
<1> QED BY <1>5, <1>9, <1>10, <1>11

\* What alignment shifts out of a guarded fraction: nothing, or so much has been shifted
\* that less than a quarter is left.
LEMMA ShiftsOut ==
  ASSUME NEW v \in F!Value, NEW d \in Nat
  PROVE  \E z \in Nat, y \in Nat, pd \in Nat \ {0}, lost \in Nat :
           /\ z = F!Fraction(v) * F!Power[Guard] /\ pd = F!Power[d] /\ y = z \div pd
           /\ z = pd * y + lost /\ lost < pd /\ (lost = 0 \/ 4 * y < F!One)
<1>1. PICK g \in Nat \ {0}, n \in Nat \ {0}, ng \in Nat :
           g = F!Power[Guard] /\ n = F!Hidden /\ ng = n * g /\ F!One = ng
  BY GuardedHidden, Ranges
<1>2. PICK f \in Nat : f = F!Fraction(v) /\ f <= 2 * n - 1
  BY <1>1, ValueFields
<1>3. PICK z \in Nat : z = f * g /\ z < 2 * ng
  <2>1. PICK b \in Nat : b = 2 * n - 1
    BY <1>1
  <2>2. f * g <= b * g
    BY <1>2, <2>1, TimesGrows
  <2>3. (2 * n - 1) * g = 2 * (n * g) - g /\ f * g \in Nat
    OBVIOUS
  <2> QED BY <1>1, <2>1, <2>2, <2>3
<1>4. PICK pd \in Nat \ {0} : pd = F!Power[d]
  BY FpPowerSteps
<1>5. PICK y \in Nat, lost \in 0 .. pd - 1 : y = z \div pd /\ lost = z % pd /\ z = pd * y + lost
  BY DivMod
<1>8. z = F!Fraction(v) * F!Power[Guard] /\ lost \in Nat /\ lost < pd
  <2>1. z = F!Fraction(v) * F!Power[Guard]
    BY <1>1, <1>2, <1>3, Zenon
  <2> QED BY <2>1
<1>6. CASE d <= Guard
  <2>1. PICK j \in Nat : j = Guard - d /\ d + j = Guard
    <3>1. Guard - d \in Nat /\ d + (Guard - d) = Guard
      BY <1>6, FpWidths DEF F!WidthAssumption
    <3> QED BY <3>1
  <2>2. PICK pj \in Nat : pj = F!Power[j]
    BY FpPowerSteps
  <2>3. F!Power[d + j] = F!Power[d] * F!Power[j]
    BY FpPowerOfSum
  <2>4. g = pd * pj
    BY <1>1, <1>4, <2>1, <2>2, <2>3, Zenon
  <2>5. z = (f * pj) * pd + 0 /\ f * pj \in Int /\ 0 \in 0 .. pd - 1
    <3>1. f * (pd * pj) = (f * pj) * pd
      OBVIOUS
    <3> QED BY <1>3, <2>4, <3>1
  <2>6. PICK k \in Int : k = f * pj
    BY <2>5
  <2>7. z % pd = 0
    <3>1. z \in Int /\ z = k * pd + 0
      BY <2>5, <2>6
    <3> QED BY <2>5, <3>1, DivModUnique
  <2>8. lost = 0
    BY <1>5, <2>7
  <2> QED BY <1>4, <1>5, <1>8, <2>8, Zenon
<1>7. CASE ~(d <= Guard)
  <2>1. PICK j \in Nat : d = j + 1 + 1 + 1
    <3>1. d - 3 \in Nat /\ d = (d - 3) + 1 + 1 + 1
      BY <1>7, FpWidths DEF F!WidthAssumption
    <3> QED BY <3>1
  <2>2. PICK pj \in Nat \ {0} : pj = F!Power[j]
    BY FpPowerSteps
  <2>3. pd = 8 * pj
    <3>1. F!Power[j + 1] = 2 * F!Power[j]
      BY FpPowerSteps
    <3>2. j + 1 \in Nat /\ j + 1 + 1 \in Nat
      OBVIOUS
    <3>3. F!Power[(j + 1) + 1] = 2 * F!Power[j + 1]
      BY <3>2, FpPowerSteps
    <3>4. F!Power[(j + 1 + 1) + 1] = 2 * F!Power[j + 1 + 1]
      BY <3>2, FpPowerSteps
    <3> QED BY <1>4, <2>1, <2>2, <3>1, <3>3, <3>4
  <2>4. 8 <= pd
    BY <2>3
  <2>5. 8 * y <= pd * y
    BY <2>4, TimesGrows
  <2>6. PICK w \in Nat : w = pd * y
    OBVIOUS
  <2>7. 4 * y < ng
    BY <1>3, <1>5, <2>5, <2>6
  <2>8. 4 * y < F!One
    BY <1>1, <2>7
  <2> QED BY <1>4, <1>5, <1>8, <2>8, Zenon
<1> QED BY <1>6, <1>7

\* Two operands brought to the larger exponent, as addfp11 does it, and as numbers.
AlignedAs(P, X, Z, g, x, y, rest) ==
  /\ P \in Nat \ {0} /\ X \in Nat /\ Z \in Nat /\ g \in Nat \ {0} /\ g = F!Power[Guard]
  /\ x \in F!One .. 2 * F!One - 1 /\ x \in Nat /\ y \in Nat /\ y <= x /\ rest \in Nat
  /\ X * g = x * P /\ Z * g = y * P + rest /\ rest < P
  /\ rest = 0 \/ 4 * y < F!One
Term(v) == F!Fraction(v) * F!Power[v.e + Low]

\* Alignment is as described: the larger operand exactly, the smaller less a rest that
\* its shift has dropped.
LEMMA Aligns ==
  ASSUME NEW big \in F!Value, NEW small \in F!Value,
         ~(F!Magnitude(big) < F!Magnitude(small))
  PROVE  \E rest :
           AlignedAs(F!Power[big.e + Low], Term(big), Term(small), F!Power[Guard],
                     F!Fraction(big) * F!Power[Guard],
                     (F!Fraction(small) * F!Power[Guard]) \div F!Power[big.e - small.e], rest)
<1> DEFINE ediff == big.e - small.e
           xx == F!Fraction(big) * F!Power[Guard]
           yy == (F!Fraction(small) * F!Power[Guard]) \div F!Power[ediff]
<1>1. ediff \in Nat /\ xx \in F!One .. 2 * F!One - 1 /\ yy \in Nat /\ yy <= xx
  BY Aligned
<1>2. PICK d \in Nat : d = ediff
  BY <1>1
<1>3. PICK z \in Nat, y \in Nat, pd \in Nat \ {0}, lost \in Nat :
           /\ z = F!Fraction(small) * F!Power[Guard] /\ pd = F!Power[d] /\ y = z \div pd
           /\ z = pd * y + lost /\ lost < pd /\ (lost = 0 \/ 4 * y < F!One)
  BY ShiftsOut
<1>4. y = yy
  BY <1>2, <1>3, Zenon
<1>5. PICK g \in Nat \ {0} : g = F!Power[Guard]
  BY GuardedHidden
<1>6. PICK fx \in Nat, fz \in Nat : fx = F!Fraction(big) /\ fz = F!Fraction(small)
  BY ValueFields, Ranges
<1>7. PICK x \in Nat : x = xx /\ x = fx * g
  <2>1. xx = fx * g /\ fx * g \in Nat
    BY <1>5, <1>6
  <2> QED BY <2>1
<1>8. /\ small.e \in Int /\ small.e + Low \in Nat /\ big.e + Low \in Nat
      /\ big.e + Low = small.e + d + Low
  <2>1. Low \in Nat /\ small.e \in Nat /\ big.e \in Nat
    BY FpWidths, ValueFields DEF F!WidthAssumption, Low
  <2> QED BY <1>2, <2>1
<1>9. PICK q \in Nat \ {0}, P \in Nat \ {0} :
           q = F!Power[small.e + Low] /\ P = F!Power[big.e + Low]
  BY <1>8, FpPowerSteps
<1>10. P = q * pd
  <2>1. F!Power[small.e + d + Low] = F!Power[small.e + Low] * F!Power[d]
    BY <1>8, PowerTimes
  <2> QED BY <1>3, <1>8, <1>9, <2>1, Zenon
<1> HIDE DEF xx, yy, ediff
<1>11. PICK X \in Nat, Z \in Nat, rest \in Nat :
            X = Term(big) /\ Z = Term(small) /\ X = fx * P /\ Z = fz * q /\ rest = lost * q
  <2>1. fx * P \in Nat /\ fz * q \in Nat /\ lost * q \in Nat
    OBVIOUS
  <2>2. Term(big) = fx * P /\ Term(small) = fz * q
    BY <1>6, <1>9, Zenon DEF Term
  <2> QED BY <2>1, <2>2
<1>12. X * g = x * P
  <2>1. (fx * P) * g = (fx * g) * P
    OBVIOUS
  <2> QED BY <1>7, <1>11, <2>1
<1>13. Z * g = y * P + rest
  <2>1. (fz * q) * g = (fz * g) * q /\ (pd * y + lost) * q = y * (q * pd) + lost * q
    OBVIOUS
  <2>2. fz * g = pd * y + lost
    BY <1>3, <1>5, <1>6, Zenon
  <2> QED BY <1>10, <1>11, <2>1, <2>2
<1>14. rest < P
  <2>1. PICK l1 \in Nat : l1 = lost + 1 /\ l1 <= pd
    BY <1>3
  <2>2. l1 * q <= pd * q
    BY <2>1, TimesGrows
  <2>3. (lost + 1) * q = lost * q + q /\ pd * q = q * pd
    OBVIOUS
  <2> QED BY <1>10, <1>11, <2>1, <2>2, <2>3
<1>15. rest = 0 \/ 4 * y < F!One
  <2>1. 0 * q = 0
    OBVIOUS
  <2> QED BY <1>3, <1>11, <2>1
<1>16. AlignedAs(P, X, Z, g, x, y, rest)
  <2>1. /\ P \in Nat \ {0} /\ X \in Nat /\ Z \in Nat /\ g \in Nat \ {0} /\ x \in Nat
        /\ y \in Nat /\ rest \in Nat
    OBVIOUS
  <2>2. x \in F!One .. 2 * F!One - 1 /\ y <= x
    BY <1>1, <1>4, <1>7, Zenon
  <2> QED BY <1>5, <1>12, <1>13, <1>14, <1>15, <2>1, <2>2, Zenon DEF AlignedAs
<1> QED BY <1>4, <1>5, <1>7, <1>9, <1>11, <1>16, Zenon DEF xx, yy, ediff

\* The sum of two fractions, shifted right when it carries.
LEMMA AddsNear ==
  ASSUME NEW e \in 1 .. F!MaxExp, NEW X, NEW Z, NEW g, NEW x, NEW y, NEW rest,
         AlignedAs(F!Power[e + Low], X, Z, g, x, y, rest)
  PROVE  /\ ~(x + y >= 2 * F!One) => SumNear(e, x + y, F!Power[e + Low], X + Z)
         /\ x + y >= 2 * F!One =>
              SumNear(e + 1, (x + y) \div 2, F!Power[e + 1 + Low], X + Z)
<1>1. PICK P : P = F!Power[e + Low]
  OBVIOUS
<1>2. /\ P \in Nat \ {0} /\ X \in Nat /\ Z \in Nat /\ g \in Nat \ {0} /\ g = F!Power[Guard]
      /\ x \in F!One .. 2 * F!One - 1 /\ x \in Nat /\ y \in Nat /\ y <= x /\ rest \in Nat
      /\ X * g = x * P /\ Z * g = y * P + rest /\ rest < P
  BY <1>1, Zenon DEF AlignedAs
<1> USE <1>2
<1>3. PICK one \in Nat \ {0}, b \in Nat \ {0} : one = F!One /\ b = F!Bias /\ F!MaxExp = 2 * b - 1
  BY Ranges
<1>4. e \in Int /\ e + Low \in Nat /\ e + 1 + Low \in Nat /\ Low \in Nat
      /\ e >= 1 /\ e <= 2 * b - 1
  BY <1>3, FpWidths DEF F!WidthAssumption, Low
<1>5. PICK f \in Nat, sum \in Nat : f = x + y /\ sum = X + Z
  OBVIOUS
<1>6. PICK fp \in Nat, sg \in Nat :
           fp = f * P /\ sg = sum * g /\ sg = fp + rest
  <2>1. (x + y) * P = x * P + y * P /\ (X + Z) * g = X * g + Z * g
    OBVIOUS
  <2>2. f * P \in Nat /\ sum * g \in Nat
    OBVIOUS
  <2>3. f * P = x * P + y * P /\ sum * g = X * g + Z * g
    BY <1>5, <2>1
  <2>4. PICK xp \in Nat, yp \in Nat : xp = x * P /\ yp = y * P
    OBVIOUS
  <2>5. sum * g = f * P + rest
    BY <2>3, <2>4
  <2> QED BY <2>2, <2>5
<1>7. CASE ~(f >= 2 * one)
  <2>1. (f - 2) * P = f * P - 2 * P /\ (f + 1) * P = f * P + P
    OBVIOUS
  <2>2. (f - 2) * P < sum * g /\ sum * g < (f + 1) * P
    BY <1>6, <2>1
  <2>3. f \in one .. 2 * one - 1 /\ e \in 1 - 2 * b .. 4 * b - 2
    BY <1>3, <1>4, <1>5, <1>7
  <2>4. SumNear(e, f, P, sum)
    BY <1>1, <1>3, <1>4, <2>2, <2>3, Zenon DEF SumNear
  <2> QED BY <1>1, <1>3, <1>5, <1>7, <2>4, Zenon
<1>8. CASE f >= 2 * one
  <2>1. PICK h \in Nat, d \in 0 .. 1 : h = f \div 2 /\ f = 2 * h + d
    <3>1. f \div 2 \in Nat /\ f % 2 \in 0 .. 1 /\ f = 2 * (f \div 2) + (f % 2)
      OBVIOUS
    <3> QED BY <3>1
  <2>2. PICK P2 \in Nat \ {0} : P2 = F!Power[e + 1 + Low] /\ P2 = 2 * P
    <3>1. F!Power[e + 1 + Low] = F!Power[e + Low] * F!Power[1]
      BY <1>4, PowerTimes
    <3>2. F!Power[1] = 2
      <4>1. F!Power[0 + 1] = 2 * F!Power[0] /\ F!Power[0] = 1
        BY FpPowerSteps
      <4> QED BY <4>1
    <3> QED BY <1>1, <3>1, <3>2
  <2>3. (h - 2) * P2 < sum * g /\ sum * g < (h + 1) * P2
    <3>1. (2 * h + d) * P = 2 * (h * P) + d * P
      OBVIOUS
    <3>2. (h - 2) * (2 * P) = 2 * (h * P) - 4 * P /\ (h + 1) * (2 * P) = 2 * (h * P) + 2 * P
      OBVIOUS
    <3>3. PICK hp \in Nat : hp = h * P
      OBVIOUS
    <3>4. d * P \in {0, P}
      <4>1. 0 * P = 0 /\ 1 * P = P /\ (d = 0 \/ d = 1)
        OBVIOUS
      <4> QED BY <4>1
    <3> QED BY <1>6, <2>1, <2>2, <3>1, <3>2, <3>3, <3>4
  <2>4. h \in one .. 2 * one - 1 /\ e + 1 \in 1 - 2 * b .. 4 * b - 2
    BY <1>3, <1>4, <1>5, <1>8, <2>1
  <2>5. e + 1 \in Int
    BY <1>4
  <2>6. SumNear(e + 1, h, P2, sum)
    BY <1>3, <1>4, <2>2, <2>3, <2>4, <2>5, Zenon DEF SumNear
  <2> QED BY <1>3, <1>5, <1>8, <2>1, <2>2, <2>6, Zenon
<1> QED BY <1>3, <1>7, <1>8

\* The difference of two fractions, shifted left until its hidden bit is set: what was
\* shifted out of the smaller is less than two units of it.
LEMMA SubsNear ==
  ASSUME NEW e \in 1 .. F!MaxExp, NEW X, NEW Z, NEW g, NEW x, NEW y, NEW rest,
         AlignedAs(F!Power[e + Low], X, Z, g, x, y, rest), x # y
  PROVE  LET n == F!Shifts(x - y)
         IN  /\ Z < X
             /\ SumNear(e - n, (x - y) * F!Power[n], F!Power[e - n + Low], X - Z)
<1> DEFINE n == F!Shifts(x - y)
<1>1. PICK P : P = F!Power[e + Low]
  OBVIOUS
<1>2. /\ P \in Nat \ {0} /\ X \in Nat /\ Z \in Nat /\ g \in Nat \ {0} /\ g = F!Power[Guard]
      /\ x \in F!One .. 2 * F!One - 1 /\ x \in Nat /\ y \in Nat /\ y <= x /\ rest \in Nat
      /\ X * g = x * P /\ Z * g = y * P + rest /\ rest < P
      /\ rest = 0 \/ 4 * y < F!One
  BY <1>1, Zenon DEF AlignedAs
<1> USE <1>2
<1>3. PICK one \in Nat \ {0}, b \in Nat \ {0} : one = F!One /\ b = F!Bias /\ F!MaxExp = 2 * b - 1
  BY Ranges
<1>4. e \in Int /\ e + Low \in Nat /\ Low \in Nat /\ Low = DoubleBits + Guard /\ Low <= b
      /\ e >= 1 /\ e <= 2 * b - 1
  BY <1>3, FpWidths DEF F!WidthAssumption, Low
<1>5. PICK f \in Nat \ {0} : f = x - y
  <2>1. x - y \in Nat \ {0}
    BY <1>2
  <2> QED BY <2>1
<1>6. PICK k \in Nat : k = n /\ k \in 0 .. Low - 1 /\ f * F!Power[k] \in one .. 2 * one - 1
  <2>1. f <= 2 * F!One - 1
    BY <1>3, <1>5
  <2>2. F!Shifts(f) \in 0 .. DoubleBits + Guard - 1 /\ f * F!Power[F!Shifts(f)] \in one .. 2 * one - 1
    BY <1>3, <2>1, ShiftsExist
  <2>3. n = F!Shifts(f)
    BY <1>5
  <2> HIDE DEF n
  <2>4. n \in 0 .. Low - 1 /\ f * F!Power[n] \in one .. 2 * one - 1
    <3>1. DoubleBits + Guard - 1 = Low - 1
      BY FpWidths DEF F!WidthAssumption, Low
    <3> QED BY <2>2, <2>3, <3>1, Zenon
  <2>5. n \in Nat
    BY <1>4, <2>4
  <2> QED BY <2>4, <2>5, Zenon
<1> HIDE DEF n
<1>7. PICK pk \in Nat \ {0}, fk \in Nat : pk = F!Power[k] /\ fk = f * pk
  <2>1. PICK pk \in Nat \ {0} : pk = F!Power[k]
    BY FpPowerSteps
  <2>2. f * pk \in Nat
    OBVIOUS
  <2> QED BY <2>1, <2>2
<1>8. e - k \in Int /\ e - k + Low \in Nat /\ e - k \in 1 - 2 * b .. 4 * b - 2
  BY <1>3, <1>4, <1>6
<1>9. PICK p \in Nat \ {0} : p = F!Power[e - k + Low] /\ P = p * pk
  <2>1. F!Power[(e - k) + k + Low] = F!Power[e - k + Low] * F!Power[k]
    BY <1>8, PowerTimes
  <2>2. (e - k) + k + Low = e + Low
    BY <1>4
  <2>3. PICK p \in Nat \ {0} : p = F!Power[e - k + Low]
    BY <1>8, FpPowerSteps
  <2> QED BY <1>1, <1>7, <2>1, <2>2, <2>3, Zenon
<1>10. PICK xg \in Nat, zg \in Nat, yp \in Nat, fp \in Nat :
            /\ xg = X * g /\ zg = Z * g /\ yp = y * P /\ fp = f * P
            /\ xg = yp + fp /\ zg = yp + rest /\ P <= fp
  <2>1. x = y + f /\ (y + f) * P = y * P + f * P
    BY <1>5
  <2>2. X * g \in Nat /\ Z * g \in Nat /\ y * P \in Nat /\ f * P \in Nat
    OBVIOUS
  <2>3. 1 * P <= f * P
    BY TimesGrows
  <2> QED BY <2>1, <2>2, <2>3
<1>11. Z < X
  BY <1>10, TimesCancels
<1>12. PICK dif \in Nat : dif = X - Z
  BY <1>11
<1>13. dif * g = fp - rest
  <2>1. (X - Z) * g = X * g - Z * g
    OBVIOUS
  <2> QED BY <1>10, <1>12, <2>1
<1>14. fk * p = fp
  <2>1. (f * pk) * p = f * (p * pk)
    OBVIOUS
  <2> QED BY <1>7, <1>9, <1>10, <2>1
<1>15. rest < 2 * p
  <2>1. CASE rest = 0
    BY <2>1
  <2>2. CASE rest # 0
    <3>1. 4 * f > 2 * one
      BY <1>3, <1>5, <2>2
    <3>2. pk <= 2
      <4>1. SUFFICES ASSUME ~(pk <= 2) PROVE FALSE
        OBVIOUS
      <4>2. pk >= 4
        <5>1. k # 0 /\ k # 1
          <6>1. F!Power[0] = 1 /\ F!Power[0 + 1] = 2 * F!Power[0]
            BY FpPowerSteps
          <6> QED BY <1>7, <4>1, <6>1
        <5>2. PICK j \in Nat : k = j + 1 + 1
          <6>1. k - 2 \in Nat /\ k = (k - 2) + 1 + 1
            BY <5>1
          <6> QED BY <6>1
        <5>3. F!Power[j + 1] = 2 * F!Power[j] /\ F!Power[j] \in Nat \ {0}
          BY FpPowerSteps
        <5>4. j + 1 \in Nat
          OBVIOUS
        <5>5. F!Power[(j + 1) + 1] = 2 * F!Power[j + 1]
          BY <5>4, FpPowerSteps
        <5> QED BY <1>7, <5>2, <5>3, <5>5
      <4>3. 4 * f <= pk * f
        BY <4>2, TimesGrows
      <4>4. pk * f = fk
        <5>1. pk * f = f * pk
          OBVIOUS
        <5> QED BY <1>7, <5>1
      <4>5. fk <= 2 * one - 1
        BY <1>6, <1>7
      <4> QED BY <3>1, <4>3, <4>4, <4>5
    <3>3. pk * p <= 2 * p
      BY <3>2, TimesGrows
    <3>4. pk * p = p * pk
      OBVIOUS
    <3> QED BY <1>9, <3>3, <3>4
  <2> QED BY <2>1, <2>2
<1>16. (fk - 2) * p < dif * g /\ dif * g < (fk + 1) * p
  <2>1. (fk - 2) * p = fk * p - 2 * p /\ (fk + 1) * p = fk * p + p
    OBVIOUS
  <2> QED BY <1>13, <1>14, <1>15, <2>1
<1>17. fk \in one .. 2 * one - 1
  BY <1>6, <1>7
<1>18. SumNear(e - k, fk, p, dif)
  BY <1>3, <1>8, <1>9, <1>16, <1>17, Zenon DEF SumNear
<1>19. SumNear(e - n, (x - y) * F!Power[n], F!Power[e - n + Low], X - Z)
  BY <1>5, <1>6, <1>7, <1>9, <1>12, <1>18, Zenon
<1> QED BY <1>11, <1>19 DEF n

\* The sum that an instruction is to deliver, and a result that is faithful to it.
SignedTerm(v) == IF v.e = 0 THEN 0 ELSE F!Signed(v, Term(v))
IsSum(v, code, m, exact) ==
  LET place == F!Power[Posted(v, code) + Low]
  IN  IF Gone(v, code)
      THEN \/ F!Distance(exact, 0) < 2 * F!Hidden * F!Power[Low]
           \/ F!Distance(exact, 0) > (2 * F!Hidden - LastPlace(m)) * F!Power[F!MaxExp + Low]
      ELSE Within(F!Signed(v, F!Fraction(v) * place), LastPlace(m) * place, place, exact, m.t)

\* A distance does not change with the signs of both ends.
LEMMA SignedSum ==
  ASSUME NEW v, NEW code, NEW m, NEW s \in 0 .. 1, NEW x \in Nat, NEW exact,
         exact = (IF s = 1 THEN -x ELSE x), IsSumOf(v, code, m, s, x)
  PROVE  IsSum(v, code, m, exact)
<1>1. exact \in Int /\ F!Distance(exact, 0) = x
  BY DEF F!Distance
<1>2. CASE Gone(v, code)
  BY <1>1, <1>2, Zenon DEF IsSumOf, IsSum
<1>3. CASE ~Gone(v, code)
  <2>1. PICK place, u : place = F!Power[Posted(v, code) + Low] /\ u = LastPlace(m) * place
    OBVIOUS
  <2>2. v.s = s /\ F!Fraction(v) * place \in Nat /\ Within(F!Fraction(v) * place, u, place, x, m.t)
    BY <1>3, <2>1, Zenon DEF IsSumOf
  <2>3. PICK rv \in Nat : rv = F!Fraction(v) * place
    BY <2>2
  <2>4. PICK sv \in Int : sv = F!Signed(v, rv) /\ sv = IF s = 1 THEN -rv ELSE rv
    <3>1. F!Signed(v, rv) = IF s = 1 THEN -rv ELSE rv
      BY <2>2, Zenon DEF F!Signed
    <3>2. (IF s = 1 THEN -rv ELSE rv) \in Int
      OBVIOUS
    <3> QED BY <3>1, <3>2
  <2>5. F!Distance(sv, exact) = F!Distance(rv, x)
    BY <1>1, <2>4 DEF F!Distance
  <2>6. Within(sv, u, place, exact, m.t)
    BY <2>2, <2>3, <2>5, Zenon DEF Within
  <2> QED BY <1>3, <2>1, <2>3, <2>4, <2>6, Zenon DEF IsSum
<1> QED BY <1>2, <1>3

\* An operand that addfp11 neglects is less than a guard bit of the other.
LEMMA Neglects ==
  ASSUME NEW small \in F!Value, NEW d \in Nat, F!Negligible(d)
  PROVE  (F!Fraction(small) * F!Power[Guard]) \div F!Power[d] = 0
<1>1. PICK g \in Nat \ {0}, n \in Nat \ {0}, ng \in Nat :
           g = F!Power[Guard] /\ n = F!Hidden /\ ng = n * g /\ F!One = ng
  BY GuardedHidden, Ranges
<1>2. PICK z \in Nat : z = F!Fraction(small) * F!Power[Guard] /\ z < 2 * ng
  <2>1. PICK f \in Nat, b \in Nat : f = F!Fraction(small) /\ b = 2 * n - 1 /\ f <= b
    BY <1>1, ValueFields
  <2>2. f * g <= b * g
    BY <2>1, TimesGrows
  <2>3. (2 * n - 1) * g = 2 * (n * g) - g /\ f * g \in Nat
    OBVIOUS
  <2> QED BY <1>1, <2>1, <2>2, <2>3
<1>3. PICK k \in Nat, j \in Nat : k = DoubleBits - 1 + Guard /\ d = (k + 1) + j
  <2>1. d >= DoubleBits + Guard + 1
    BY DEF F!Negligible
  <2>2. DoubleBits - 1 + Guard \in Nat /\ d - (DoubleBits + Guard) \in Nat
        /\ d = ((DoubleBits - 1 + Guard) + 1) + (d - (DoubleBits + Guard))
    BY <2>1, FpWidths DEF F!WidthAssumption
  <2> QED BY <2>2
<1>4. PICK pd \in Nat \ {0}, pj \in Nat \ {0} : pd = F!Power[d] /\ pj = F!Power[j]
  BY FpPowerSteps
<1>5. pd = (2 * ng) * pj
  <2>1. F!Power[(k + 1) + j] = F!Power[k + 1] * F!Power[j]
    BY FpPowerOfSum
  <2>2. F!Power[k + 1] = 2 * F!Power[k] /\ F!Power[k] = ng
    BY <1>1, <1>3, FpPowerSteps DEF F!One
  <2> QED BY <1>3, <1>4, <2>1, <2>2
<1>6. 2 * ng <= pd
  <2>1. PICK w \in Nat : w = 2 * ng
    OBVIOUS
  <2>2. 1 * w <= pj * w /\ pj * w = w * pj
    BY TimesGrows
  <2> QED BY <1>5, <2>1, <2>2
<1>7. z \in Int /\ z \in 0 .. pd - 1 /\ z = 0 * pd + z
  BY <1>2, <1>6
<1>8. z \div pd = 0
  BY <1>7, DivModUnique
<1> QED BY <1>2, <1>4, <1>8

\* What addfp11 is given: operands in the precision of the mode.
Summed(m, a, b) ==
  /\ Mode(m) /\ a \in F!Value /\ b \in F!Value /\ F!to_fac(a, m) = a /\ F!to_fac(b, m) = b

\* The larger operand stands for the sum where the smaller is zero or neglected.
LEMMA LargerStands ==
  ASSUME NEW m, NEW big \in F!Value, big.e # 0, NEW exact \in Int, NEW g, NEW x, NEW rest,
         NEW Z \in Nat,
         AlignedAs(F!Power[big.e + Low], Term(big), Z, g, x, 0, rest),
         F!Distance(F!Signed(big, Term(big)), exact) \in {0, Z}
  PROVE  IsSum(big, "", m, exact)
<1>1. PICK P, X : P = F!Power[big.e + Low] /\ X = Term(big)
  OBVIOUS
<1>2. /\ P \in Nat \ {0} /\ X \in Nat /\ g \in Nat \ {0} /\ g = F!Power[Guard]
      /\ rest \in Nat /\ Z * g = 0 * P + rest /\ rest < P
  BY <1>1, Zenon DEF AlignedAs
<1> USE <1>2
<1>3. PICK zg \in Nat : zg = Z * g /\ zg < P
  <2>1. 0 * P = 0 /\ Z * g \in Nat
    OBVIOUS
  <2> QED BY <2>1
<1>4. PICK l \in Nat \ {0} : l = LastPlace(m)
  BY Places
<1>5. PICK u \in Nat : u = l * P /\ P <= u
  <2>1. 1 * P <= l * P /\ l * P \in Nat
    BY TimesGrows
  <2> QED BY <2>1
<1>6. PICK ug \in Nat : ug = u * g
  OBVIOUS
<1>7. PICK d \in Nat : d = F!Distance(F!Signed(big, X), exact) /\ d \in {0, Z}
  BY <1>1
<1>8. PICK dg \in Nat : dg = d * g /\ dg < P
  <2>1. 0 * g = 0
    OBVIOUS
  <2> QED BY <1>3, <1>7, <2>1
<1>9. d < u
  <2>1. 1 * d <= g * d /\ g * d = d * g
    BY TimesGrows
  <2> QED BY <1>5, <1>8, <2>1
<1>10. (2 * d - u) * g < 4 * P
  <2>1. (2 * d - u) * g = 2 * (d * g) - u * g
    OBVIOUS
  <2> QED BY <1>6, <1>8, <2>1
<1>11. Within(F!Signed(big, X), u, P, exact, m.t)
  BY <1>7, <1>9, <1>10, Zenon DEF Within
<1>12. ~Gone(big, "")
  <2>1. big # F!Zero
    BY DEF F!Zero
  <2> QED BY <2>1, Zenon DEF Gone
<1>13. Posted(big, "") = big.e
  BY DEF Posted
<1>14. X = F!Fraction(big) * P
  BY <1>1, Zenon DEF Term
<1> QED BY <1>1, <1>4, <1>5, <1>11, <1>12, <1>13, <1>14, Zenon DEF IsSum

\* fp.c, addfp11.
LEMMA AddFaithful ==
  ASSUME NEW m, NEW a, NEW b, Summed(m, a, b)
  PROVE  LET o == F!addfp11(a, b, m)
         IN  IsSum(F!to_fac(o.v, m), o.code, m, SignedTerm(a) + SignedTerm(b))
<1> DEFINE big == IF F!Magnitude(a) < F!Magnitude(b) THEN b ELSE a
           small == IF F!Magnitude(a) < F!Magnitude(b) THEN a ELSE b
           ediff == big.e - small.e
           x == F!Fraction(big) * F!Power[Guard]
           y == (F!Fraction(small) * F!Power[Guard]) \div F!Power[ediff]
           o == F!addfp11(a, b, m)
           exact == SignedTerm(a) + SignedTerm(b)
<1>0. m.t \in BOOLEAN /\ a \in F!Value /\ b \in F!Value /\ F!to_fac(a, m) = a /\ F!to_fac(b, m) = b
  BY Zenon DEF Summed, Mode
<1>1. o = IF big.e = 0 THEN F!Outcome(F!Zero, FALSE, "")
          ELSE IF small.e = 0 \/ F!Negligible(ediff) THEN F!Outcome(big, FALSE, "")
          ELSE IF big.s = small.s
          THEN IF x + y >= 2 * F!One
               THEN F!round_and_pack(big.s, big.e + 1, (x + y) \div 2, TRUE, m)
               ELSE F!round_and_pack(big.s, big.e, x + y, TRUE, m)
          ELSE IF x = y THEN F!Outcome(F!Zero, FALSE, "")
          ELSE F!round_and_pack(big.s, big.e - F!Shifts(x - y),
                                (x - y) * F!Power[F!Shifts(x - y)], TRUE, m)
  BY Zenon DEF F!addfp11
<1>2. big \in F!Value /\ small \in F!Value /\ ~(F!Magnitude(big) < F!Magnitude(small))
      /\ F!to_fac(big, m) = big
  BY <1>0, ValueFields, Ranges
<1>3. \/ exact = SignedTerm(big) + SignedTerm(small)
      \/ exact = SignedTerm(small) + SignedTerm(big)
  OBVIOUS
<1> HIDE DEF big, small, exact
<1>4. PICK rest : AlignedAs(F!Power[big.e + Low], Term(big), Term(small), F!Power[Guard], x, y, rest)
  BY <1>2, Aligns
<1>5. ediff \in Nat /\ y \in Nat
  BY <1>2, Aligned
<1> HIDE DEF o, x, y, ediff
<1>6. PICK X \in Nat, Z \in Nat, P \in Nat \ {0}, g \in Nat \ {0} :
           /\ X = Term(big) /\ Z = Term(small) /\ P = F!Power[big.e + Low] /\ g = F!Power[Guard]
           /\ AlignedAs(P, X, Z, g, x, y, rest)
           /\ X * g = x * P /\ Z * g = y * P + rest /\ x \in Nat /\ y \in Nat
           /\ (rest = 0 \/ 4 * y < F!One) /\ x \in F!One .. 2 * F!One - 1
  BY <1>4, Zenon DEF AlignedAs
<1>7. /\ big.s \in 0 .. 1 /\ small.s \in 0 .. 1 /\ big.e \in Nat /\ small.e \in Nat
      /\ big.e \in 0 .. F!MaxExp
  BY <1>2, ValueFields
<1>8. /\ SignedTerm(big) = IF big.e = 0 THEN 0 ELSE IF big.s = 1 THEN -X ELSE X
      /\ SignedTerm(small) = IF small.e = 0 THEN 0 ELSE IF small.s = 1 THEN -Z ELSE Z
  BY <1>6, Zenon DEF SignedTerm, F!Signed
<1>9. /\ exact = SignedTerm(big) + SignedTerm(small) /\ exact \in Int
      /\ SignedTerm(big) \in Int /\ SignedTerm(small) \in Int
  BY <1>3, <1>8
<1>10. SUFFICES IsSum(F!to_fac(o.v, m), o.code, m, exact)
  BY DEF o, exact
<1>11. ASSUME o = F!Outcome(F!Zero, FALSE, ""), exact = 0
       PROVE  IsSum(F!to_fac(o.v, m), o.code, m, exact)
  <2>1. o.v = F!Zero /\ o.code = ""
    BY <1>11 DEF F!Outcome
  <2>2. F!to_fac(o.v, m) = F!Zero
    BY <2>1, ZeroStays
  <2>3. Gone(F!to_fac(o.v, m), o.code)
    BY <2>1, <2>2, Zenon DEF Gone
  <2>4. F!Distance(exact, 0) = 0
    <3>1. F!Distance(0, 0) = 0
      BY DEF F!Distance
    <3> QED BY <1>11, <3>1, Zenon
  <2>5. 0 < 2 * F!Hidden * F!Power[Low]
    <3>1. Low \in Nat
      BY FpWidths DEF F!WidthAssumption, Low
    <3>2. PICK n \in Nat \ {0}, w \in Nat \ {0} : n = F!Hidden /\ w = F!Power[Low]
      BY <3>1, FpPowerSteps, Ranges
    <3>3. n * w \in Nat \ {0}
      BY TimesPositive
    <3>4. 2 * n * w = 2 * (n * w)
      OBVIOUS
    <3> QED BY <3>2, <3>3, <3>4
  <2> QED BY <2>3, <2>4, <2>5, Zenon DEF IsSum
<1>12. CASE big.e = 0
  <2>1. small.e = 0
    BY <1>5, <1>7, <1>12 DEF ediff
  <2>2. exact = 0
    BY <1>8, <1>9, <1>12, <2>1
  <2> QED BY <1>1, <1>11, <1>12, <2>2, Zenon
<1>13. CASE big.e # 0 /\ (small.e = 0 \/ F!Negligible(ediff))
  <2>1. o = F!Outcome(big, FALSE, "")
    BY <1>1, <1>13, Zenon
  <2>2. o.v = big /\ o.code = ""
    BY <2>1 DEF F!Outcome
  <2>3. F!to_fac(o.v, m) = big
    BY <1>2, <2>2
  <2>4. SignedTerm(big) = F!Signed(big, X)
    BY <1>6, <1>13, Zenon DEF SignedTerm
  <2>5. F!Distance(SignedTerm(big), exact) = IF small.e = 0 THEN 0 ELSE Z
    <3>1. PICK sb \in Int, sz \in Int : sb = SignedTerm(big) /\ sz = SignedTerm(small)
      BY <1>9
    <3>2. exact = sb + sz
      BY <1>9, <3>1
    <3>3. sz = 0 \/ sz = Z \/ sz = -Z
      BY <1>8, <3>1
    <3>4. small.e = 0 => sz = 0
      BY <1>8, <3>1
    <3>5. small.e # 0 => sz = Z \/ sz = -Z
      BY <1>8, <3>1
    <3> QED BY <3>1, <3>2, <3>4, <3>5 DEF F!Distance
  <2>6. CASE small.e = 0
    <3>1. F!Distance(SignedTerm(big), exact) = 0
      BY <2>5, <2>6
    <3>2. PICK zero \in Nat : zero = 0
      OBVIOUS
    <3>3. AlignedAs(P, X, zero, g, x, 0, zero)
      <4>1. zero * g = 0 * P + zero /\ 0 \in Nat /\ 0 <= x /\ zero < P
        BY <1>6, <3>2
      <4> QED BY <1>4, <1>6, <3>2, <4>1, Zenon DEF AlignedAs
    <3> QED BY <1>2, <1>6, <1>9, <1>13, <2>2, <2>3, <2>4, <3>1, <3>3, LargerStands
  <2>7. CASE small.e # 0 /\ F!Negligible(ediff)
    <3>1. y = 0
      BY <1>2, <1>5, <2>7, Neglects DEF y
    <3>2. F!Distance(SignedTerm(big), exact) = Z
      BY <2>5, <2>7
    <3> QED BY <1>2, <1>6, <1>9, <1>13, <2>2, <2>3, <2>4, <3>1, <3>2, LargerStands
  <2> QED BY <1>13, <2>6, <2>7
<1>14. CASE big.e # 0 /\ ~(small.e = 0 \/ F!Negligible(ediff)) /\ big.s = small.s
  <2>1. PICK e \in 1 .. F!MaxExp : e = big.e
    BY <1>7, <1>14
  <2>2. /\ ~(x + y >= 2 * F!One) => SumNear(e, x + y, F!Power[e + Low], X + Z)
        /\ x + y >= 2 * F!One =>
             SumNear(e + 1, (x + y) \div 2, F!Power[e + 1 + Low], X + Z)
    BY <1>6, <2>1, AddsNear, Zenon
  <2>3. PICK sum \in Nat : sum = X + Z
    OBVIOUS
  <2>4. exact = IF big.s = 1 THEN -sum ELSE sum
    BY <1>7, <1>8, <1>9, <1>14, <2>3
  <2>5. IsSumOf(F!to_fac(o.v, m), o.code, m, big.s, sum)
    <3>1. CASE x + y >= 2 * F!One
      <4>1. o = F!round_and_pack(big.s, e + 1, (x + y) \div 2, TRUE, m)
        BY <1>1, <1>14, <2>1, <3>1, Zenon
      <4>2. PICK e1, fr, q : e1 = e + 1 /\ fr = (x + y) \div 2 /\ q = F!Power[e + 1 + Low]
        OBVIOUS
      <4>3. PacksSum(m, big.s, e1, fr, q, sum, o)
        BY <1>0, <2>2, <2>3, <3>1, <4>1, <4>2, Zenon DEF PacksSum
      <4> QED BY <4>3, SumPacks, Zenon
    <3>2. CASE ~(x + y >= 2 * F!One)
      <4>1. o = F!round_and_pack(big.s, e, x + y, TRUE, m)
        BY <1>1, <1>14, <2>1, <3>2, Zenon
      <4>2. PICK fr, q : fr = x + y /\ q = F!Power[e + Low]
        OBVIOUS
      <4>3. PacksSum(m, big.s, e, fr, q, sum, o)
        BY <1>0, <2>2, <2>3, <3>2, <4>1, <4>2, Zenon DEF PacksSum
      <4> QED BY <4>3, SumPacks, Zenon
    <3> QED BY <3>1, <3>2
  <2> QED BY <1>7, <2>4, <2>5, SignedSum, Zenon
<1>15. CASE /\ big.e # 0 /\ ~(small.e = 0 \/ F!Negligible(ediff)) /\ big.s # small.s
            /\ x = y
  <2>1. o = F!Outcome(F!Zero, FALSE, "")
    BY <1>1, <1>15, Zenon
  <2>2. rest = 0
    BY <1>6, <1>15, Ranges
  <2>3. X * g = Z * g
    BY <1>6, <1>15, <2>2
  <2>4. X = Z
    <3>1. ~(X < Z)
      <4>1. SUFFICES ASSUME X < Z PROVE FALSE
        OBVIOUS
      <4>2. PICK k \in Nat : Z = X + k + 1
        <5>1. Z - X - 1 \in Nat /\ Z = X + (Z - X - 1) + 1
          BY <4>1
        <5> QED BY <5>1
      <4>3. (X + k + 1) * g = X * g + k * g + g /\ k * g \in Nat /\ X * g \in Nat
        OBVIOUS
      <4> QED BY <2>3, <4>2, <4>3
    <3>2. ~(Z < X)
      <4>1. SUFFICES ASSUME Z < X PROVE FALSE
        OBVIOUS
      <4>2. PICK k \in Nat : X = Z + k + 1
        <5>1. X - Z - 1 \in Nat /\ X = Z + (X - Z - 1) + 1
          BY <4>1
        <5> QED BY <5>1
      <4>3. (Z + k + 1) * g = Z * g + k * g + g /\ k * g \in Nat /\ Z * g \in Nat
        OBVIOUS
      <4> QED BY <2>3, <4>2, <4>3
    <3> QED BY <3>1, <3>2
  <2>5. exact = 0
    BY <1>7, <1>8, <1>9, <1>15, <2>4
  <2> QED BY <1>11, <2>1, <2>5, Zenon
<1>16. CASE /\ big.e # 0 /\ ~(small.e = 0 \/ F!Negligible(ediff)) /\ big.s # small.s
            /\ x # y
  <2>1. PICK e \in 1 .. F!MaxExp : e = big.e
    BY <1>7, <1>16
  <2>2. PICK n : n = F!Shifts(x - y)
    OBVIOUS
  <2>3. Z < X /\ SumNear(e - n, (x - y) * F!Power[n], F!Power[e - n + Low], X - Z)
    BY <1>6, <1>16, <2>1, <2>2, SubsNear, Zenon
  <2>4. PICK dif \in Nat : dif = X - Z
    BY <2>3
  <2>5. exact = IF big.s = 1 THEN -dif ELSE dif
    BY <1>7, <1>8, <1>9, <1>16, <2>4
  <2>6. o = F!round_and_pack(big.s, e - n, (x - y) * F!Power[n], TRUE, m)
    BY <1>1, <1>16, <2>1, <2>2, Zenon
  <2>7. IsSumOf(F!to_fac(o.v, m), o.code, m, big.s, dif)
    <3>1. PICK e1, fr, q : /\ e1 = e - n /\ fr = (x - y) * F!Power[n]
                           /\ q = F!Power[e - n + Low]
      OBVIOUS
    <3>2. PacksSum(m, big.s, e1, fr, q, dif, o)
      BY <1>0, <2>3, <2>4, <2>6, <3>1, Zenon DEF PacksSum
    <3> QED BY <3>2, SumPacks, Zenon
  <2> QED BY <1>7, <2>5, <2>7, SignedSum, Zenon
<1> QED BY <1>12, <1>13, <1>14, <1>15, <1>16

\* fp.c, SUBf: the operand with its sign changed counts against the sum.
LEMMA SignChanged ==
  ASSUME NEW b \in F!Value, NEW m, NEW w, w = [b EXCEPT !.s = 1 - @]
  PROVE  /\ w \in F!Value
         /\ SignedTerm(F!to_fac(w, m)) = -SignedTerm(F!to_fac(b, m))
         /\ SignedTerm(F!to_fac(b, m)) \in Int
<1>1. PICK h \in Nat \ {0}, n \in Nat \ {0} : h = F!Hidden /\ n = F!Power[F!LowBits]
  BY Ranges
<1>2. b \in [s : 0 .. 1, e : 0 .. F!MaxExp, f : 0 .. h - 1]
  BY <1>1 DEF F!Value
<1>3. w \in [s : 0 .. 1, e : 0 .. F!MaxExp, f : 0 .. h - 1]
  BY <1>2
<1>4. w \in F!Value
  BY <1>1, <1>3 DEF F!Value
<1>5. w.s = 1 - b.s /\ w.e = b.e /\ w.f = b.f
  BY <1>2
<1> DEFINE fb == F!to_fac(b, m)
           fw == F!to_fac(w, m)
<1>6. fb \in F!Value /\ fb.s = b.s /\ fb.e = b.e /\ fw \in F!Value /\ fw.s = w.s /\ fw.e = w.e
  BY <1>4, FacType
<1>7. fw.f = fb.f
  <2>1. fb = IF m.d THEN b ELSE [b EXCEPT !.f = @ - (@ % n)]
    BY <1>1, Zenon DEF F!to_fac
  <2>2. fw = IF m.d THEN w ELSE [w EXCEPT !.f = @ - (@ % n)]
    BY <1>1, Zenon DEF F!to_fac
  <2>3. b.f \in Nat
    BY ValueFields
  <2> HIDE DEF fb, fw
  <2> QED BY <1>2, <1>3, <1>5, <2>1, <2>2, <2>3
<1> HIDE DEF fb, fw
<1>8. Term(fw) = Term(fb)
  BY <1>5, <1>6, <1>7, Zenon DEF Term, F!Fraction
<1>9. PICK x \in Int : x = Term(fb)
  <2>1. fb.e + Low \in Nat
    BY <1>6, ValueFields, FpWidths DEF F!WidthAssumption, Low
  <2>2. PICK p \in Nat : p = F!Power[fb.e + Low]
    BY <2>1, FpPowerSteps
  <2>3. PICK f \in Nat : f = F!Fraction(fb)
    BY <1>1, <1>6, ValueFields
  <2>4. f * p \in Int
    OBVIOUS
  <2> QED BY <2>2, <2>3, <2>4 DEF Term
<1>10. b.s \in 0 .. 1
  BY ValueFields
<1>11. SignedTerm(fb) = IF b.e = 0 THEN 0 ELSE IF b.s = 1 THEN -x ELSE x
  BY <1>6, <1>9, Zenon DEF SignedTerm, F!Signed
<1>12. SignedTerm(fw) = IF b.e = 0 THEN 0 ELSE IF w.s = 1 THEN -x ELSE x
  BY <1>5, <1>6, <1>8, <1>9, Zenon DEF SignedTerm, F!Signed
<1> QED BY <1>4, <1>5, <1>10, <1>11, <1>12 DEF fb, fw

\* The property speaks of an instruction's own operands and result.
SumsNow ==
  /\ last.op = "ADD" => IsSum(F!R, fec, fps, SignedTerm(F!A) + SignedTerm(F!B))
  /\ last.op = "SUB" => IsSum(F!R, fec, fps, SignedTerm(F!A) - SignedTerm(F!B))

\* What the induction keeps is the property.
LEMMA SumsNowMeans == SumsNow => F!SumsFaithful
<1> SUFFICES ASSUME SumsNow PROVE F!SumsFaithful
  OBVIOUS
<1>1. F!Unit = LastPlace(fps) /\ Low = DoubleBits + Guard
  BY Zenon DEF F!Unit, LastPlace, Low
<1>2. F!Suppressed(F!R) <=> Gone(F!R, fec)
  BY Zenon DEF F!Suppressed, Gone
<1>3. F!Unwrapped(F!R) = Posted(F!R, fec)
  BY Zenon DEF F!Unwrapped, Posted
<1> DEFINE exact == IF last.op = "ADD" THEN SignedTerm(F!A) + SignedTerm(F!B)
                    ELSE SignedTerm(F!A) - SignedTerm(F!B)
           place == F!Power[Posted(F!R, fec) + Low]
<1>4. ASSUME last.op \in {"ADD", "SUB"}
      PROVE  IF Gone(F!R, fec)
             THEN \/ F!Distance(exact, 0) < 2 * F!Hidden * F!Power[Low]
                  \/ F!Distance(exact, 0)
                       > (2 * F!Hidden - LastPlace(fps)) * F!Power[F!MaxExp + Low]
             ELSE Within(F!Signed(F!R, F!Fraction(F!R) * place), LastPlace(fps) * place,
                         place, exact, fps.t)
  <2>1. last.op = "ADD" \/ last.op = "SUB"
    BY <1>4
  <2>2. "ADD" # "SUB"
    OBVIOUS
  <2>3. IsSum(F!R, fec, fps, exact)
    BY <2>1, <2>2, Zenon DEF SumsNow
  <2> HIDE DEF exact
  <2> QED BY <2>3, Zenon DEF IsSum
<1>5. /\ SignedTerm(F!A) = IF F!A.e = 0 THEN 0
                           ELSE F!Signed(F!A, F!Fraction(F!A) * F!Power[F!A.e + Low])
      /\ SignedTerm(F!B) = IF F!B.e = 0 THEN 0
                           ELSE F!Signed(F!B, F!Fraction(F!B) * F!Power[F!B.e + Low])
  BY Zenon DEF SignedTerm, Term
<1> QED BY <1>1, <1>2, <1>3, <1>4, <1>5, Zenon DEF F!SumsFaithful, Within

\* Every instruction keeps it.
LEMMA FpStepSums ==
  ASSUME Ready, SumsNow, F!Next
  PROVE  SumsNow'
<1>1. CASE last.op = "none" /\ \E m \in Settings, v \in FpValues : F!Load(m, v)
  <2>1. last'.op = "load"
    BY <1>1 DEF F!Load
  <2> QED BY <2>1 DEF SumsNow
<1>2. CASE F!Reset
  <2>1. last'.op = "none"
    BY <1>2 DEF F!Reset
  <2> QED BY <2>1 DEF SumsNow
<1>3. CASE last.op = "load" /\ F!Execute
  <2>1. er = FALSE /\ fec = "" /\ fps \in F!FpsModes /\ ac \in F!Value
    BY <1>3, Zenon DEF Ready
  <2>2. Mode(fps)
    BY <2>1 DEF F!FpsModes, Mode
  <2>3. FpValues \subseteq F!Value
    BY FpWidths DEF F!WidthAssumption
  <2>4. \A v \in F!Value : /\ F!to_fac(v, fps) \in F!Value
                           /\ F!to_fac(F!to_fac(v, fps), fps) = F!to_fac(v, fps)
    BY FacType, FacTwice
  <2>5. ASSUME NEW op, NEW b, F!Executes(op, b), op \notin {"ADD", "SUB"}
        PROVE  SumsNow'
    <3>1. last'.op = op
      BY <2>5 DEF F!Executes
    <3>2. op # "ADD" /\ op # "SUB"
      BY <2>5
    <3> QED BY <3>1, <3>2, Zenon DEF SumsNow
  <2>6. ASSUME NEW b \in FpValues, NEW op \in {"ADD", "SUB", "MUL"}, F!Arithmetic(op, b)
        PROVE  SumsNow'
    <3> DEFINE src == IF op = "SUB" /\ b.e # 0 THEN [b EXCEPT !.s = 1 - @] ELSE b
               o == IF op = "MUL" THEN F!mulfp11(F!to_fac(ac, fps), F!to_fac(src, fps), fps)
                    ELSE F!addfp11(F!to_fac(ac, fps), F!to_fac(src, fps), fps)
    <3>1. F!Executes(op, b) /\ ac' = o.v /\ F!post_fpe(o.code, op)
      BY <2>6, Zenon DEF F!Arithmetic
    <3>2. CASE op = "MUL"
      <4>1. op \notin {"ADD", "SUB"}
        BY <3>2
      <4> QED BY <2>5, <3>1, <4>1, Zenon
    <3>3. CASE op # "MUL"
      <4>1. o = F!addfp11(F!to_fac(ac, fps), F!to_fac(src, fps), fps)
        BY <3>3, Zenon
      <4>2. b \in F!Value
        BY <2>3
      <4>3. PICK w : w = [b EXCEPT !.s = 1 - @]
        OBVIOUS
      <4>4. /\ w \in F!Value
            /\ SignedTerm(F!to_fac(w, fps)) = -SignedTerm(F!to_fac(b, fps))
            /\ SignedTerm(F!to_fac(b, fps)) \in Int
        BY <4>2, <4>3, SignChanged
      <4>5. src = IF op = "SUB" /\ b.e # 0 THEN w ELSE b
        BY <4>3, Zenon
      <4> HIDE DEF o, src
      <4>6. src \in F!Value
        BY <4>2, <4>4, <4>5
      <4>7. PICK a, c, db : a = F!to_fac(ac, fps) /\ c = F!to_fac(src, fps) /\ db = F!to_fac(b, fps)
        OBVIOUS
      <4>8. Summed(fps, a, c)
        BY <2>1, <2>2, <2>4, <4>6, <4>7, Zenon DEF Summed
      <4>9. o = F!addfp11(a, c, fps)
        BY <4>1, <4>7, Zenon
      <4>10. IsSum(F!to_fac(o.v, fps), o.code, fps, SignedTerm(a) + SignedTerm(c))
        <5>1. LET q == F!addfp11(a, c, fps)
              IN  IsSum(F!to_fac(q.v, fps), q.code, fps, SignedTerm(a) + SignedTerm(c))
          BY <4>8, AddFaithful, Zenon
        <5> QED BY <4>9, <5>1, Zenon
      <4>11. /\ last'.op = op /\ last'.b = b /\ last'.a = ac /\ fps' = fps /\ fec' = o.code
        BY <1>3, <3>1, OperandsKept, Zenon
      <4>12. F!R' = F!to_fac(o.v, fps) /\ F!A' = a /\ F!B' = db
        BY <3>1, <4>7, <4>11, Zenon DEF F!R, F!A, F!B
      <4>13. PICK sa \in Int, sb \in Int : sa = SignedTerm(a) /\ sb = SignedTerm(db)
        <5>1. PICK v \in F!Value : v = ac /\ v = ac
          BY <2>1
        <5>2. PICK u : u = [v EXCEPT !.s = 1 - @]
          OBVIOUS
        <5>3. SignedTerm(F!to_fac(v, fps)) \in Int
          BY <5>2, SignChanged
        <5>4. SignedTerm(a) \in Int /\ SignedTerm(db) \in Int
          BY <4>4, <4>7, <5>1, <5>3, Zenon
        <5> QED BY <5>4
      <4>14. CASE op = "ADD"
        <5>1. src = b
          BY <4>5, <4>14
        <5>2. IsSum(F!R', fec', fps', SignedTerm(F!A') + SignedTerm(F!B'))
          BY <4>7, <4>10, <4>11, <4>12, <5>1, Zenon
        <5>3. "ADD" # "SUB"
          OBVIOUS
        <5> QED BY <4>11, <4>14, <5>2, <5>3, Zenon DEF SumsNow
      <4>15. CASE op = "SUB"
        <5>1. SignedTerm(c) = -sb
          <6>1. CASE b.e # 0
            <7>1. src = w
              BY <4>5, <4>15, <6>1, Zenon
            <7> QED BY <4>4, <4>7, <4>13, <7>1, Zenon
          <6>2. CASE b.e = 0
            <7>1. src = b
              BY <4>5, <6>2
            <7>2. c = db /\ db.e = 0
              BY <4>2, <4>7, <6>2, <7>1, FacType
            <7>3. SignedTerm(c) = 0 /\ sb = 0
              BY <4>13, <7>2, Zenon DEF SignedTerm
            <7>4. PICK z \in Int : z = -sb /\ sb + z = 0
              OBVIOUS
            <7>5. z = 0
              <8>1. sb + z = 0 /\ sb = 0
                BY <7>3, <7>4, Zenon
              <8> QED BY <8>1
            <7> QED BY <7>3, <7>4, <7>5, Zenon
          <6> QED BY <6>1, <6>2
        <5>2. SignedTerm(a) + SignedTerm(c) = sa - sb
          BY <4>13, <5>1
        <5>3. IsSum(F!R', fec', fps', SignedTerm(F!A') - SignedTerm(F!B'))
          BY <4>10, <4>11, <4>12, <4>13, <5>2, Zenon
        <5>4. "ADD" # "SUB"
          OBVIOUS
        <5> QED BY <4>11, <4>15, <5>3, <5>4, Zenon DEF SumsNow
      <4> QED BY <3>3, <4>14, <4>15
    <3> QED BY <3>2, <3>3
  <2>7. ASSUME NEW b \in FpValues, F!DIVf(b) \/ F!MODf(b) \/ F!CMPf(b)
                  \/ (\E reg \in BOOLEAN : F!LDCff(b, reg))
        PROVE  SumsNow'
    <3>1. \E source : \E op \in {"DIV", "MOD", "CMP", "LDCff"} : F!Executes(op, source)
      BY <2>7, Zenon DEF F!DIVf, F!MODf, F!CMPf, F!LDCff
    <3>4. PICK source : \E op \in {"DIV", "MOD", "CMP", "LDCff"} : F!Executes(op, source)
      BY <3>1
    <3>2. PICK op \in {"DIV", "MOD", "CMP", "LDCff"} : F!Executes(op, source)
      BY <3>4
    <3>3. op \notin {"ADD", "SUB"}
      OBVIOUS
    <3> QED BY <2>5, <3>2, <3>3, Zenon
  <2>8. ASSUME NEW op \in {"CLR", "TST", "ABS", "NEG"}, F!Unary(op) PROVE SumsNow'
    <3>1. F!Executes(op, F!Zero)
      BY <2>8, Zenon DEF F!Unary
    <3>2. op \notin {"ADD", "SUB"}
      OBVIOUS
    <3> QED BY <2>5, <3>1, <3>2, Zenon
  <2>9. ASSUME (\E reg \in BOOLEAN : F!STCff(reg)) \/ F!STEXP \/ F!STCfi
                 \/ (\E x \in Exponents : F!LDEXP(x))
                 \/ (\E i \in 0 .. F!Power[IntBits] - 1 : F!LDCif(i))
        PROVE  SumsNow'
    <3>1. \E op \in {"STCff", "STEXP", "STCfi", "LDEXP", "LDCif"} : F!Executes(op, F!Zero)
      BY <2>9, Zenon DEF F!STCff, F!STEXP, F!STCfi, F!LDEXP, F!LDCif
    <3>2. PICK op \in {"STCff", "STEXP", "STCfi", "LDEXP", "LDCif"} : F!Executes(op, F!Zero)
      BY <3>1
    <3>3. op \notin {"ADD", "SUB"}
      OBVIOUS
    <3> QED BY <2>5, <3>2, <3>3, Zenon
  <2> QED BY <1>3, <2>6, <2>7, <2>8, <2>9, Zenon DEF F!Execute
<1> QED BY <1>1, <1>2, <1>3 DEF F!Next

\* fp.c, addfp11: a sum and a difference are within a last place of the exact ones, and
\* when rounding within half of one and less than two guard bits, whatever alignment has
\* shifted out; a result that is replaced by zero lies outside the exponent range.
THEOREM FpSums == DatapathSpec => []FpSumsFaithful
<1> DEFINE Inv == Ready /\ F!ExceptionsReported /\ SumsNow
<1>1. DatapathInit => Inv
  <2> SUFFICES ASSUME DatapathInit PROVE Inv
    OBVIOUS
  <2>1. /\ last.op = "none" /\ er = FALSE /\ trapped = FALSE
        /\ fec = "" /\ fpCc.c = FALSE /\ fpCc.v = FALSE
    BY DEF DatapathInit, F!Init, F!fp_setcc
  <2> QED BY <2>1 DEF Ready, F!ExceptionsReported, SumsNow
<1>2. Inv /\ [DatapathNext]_<<unit, vars, aluVars, fpVars>> => Inv'
  <2> SUFFICES ASSUME Inv, [DatapathNext]_<<unit, vars, aluVars, fpVars>> PROVE Inv'
    OBVIOUS
  <2>1. CASE F!Next
    BY <2>1, FpStepReports, FpStepSums
  <2>2. CASE UNCHANGED fpVars
    <3>1. Ready' /\ F!ExceptionsReported'
      BY <2>2 DEF fpVars, Ready, F!ExceptionsReported, F!R, F!A, F!B, F!to_fac
    <3>2. SumsNow'
      <4>1. fps' = fps /\ fec' = fec /\ ac' = ac /\ last' = last
        BY <2>2, Zenon DEF fpVars
      <4> QED BY <4>1, Zenon DEF SumsNow, F!R, F!A, F!B
    <3> QED BY <3>1, <3>2
  <2> QED BY <2>1, <2>2 DEF DatapathNext
<1>3. Inv => FpSumsFaithful
  BY SumsNowMeans DEF FpSumsFaithful
<1> QED BY <1>1, <1>2, <1>3, PTL DEF DatapathSpec
=============================================================================
