--------------------------- MODULE Datapath_proofs ---------------------------
(***************************************************************************)
(* The data path. The banked register file implements per-set and per-mode *)
(* registers, for every set of registers, modes and values.                *)
(*                                                                         *)
(* The ALU, for every even number of bits of a word from four on: results  *)
(* and condition codes are those of the integers, multiple-word arithmetic *)
(* and the branches after a comparison included; shifts of every length    *)
(* leave what a loop of single shifts does; DIV leaves the quotient and the*)
(* remainder.                                                              *)
(***************************************************************************)
EXTENDS MCDatapath, WellFoundedInduction, TLAPS

\* The cleared register file is typed.
LEMMA InitTyped == Init => TypeOK
BY BankAssumption DEF Init, TypeOK, Psw

\* A register array and a stack pointer are copied whole by put_psw.
LEMMA SwitchTyped ==
  ASSUME TypeOK, NEW new \in Psw, NEW w \in Values, NEW n \in 0..2,
         SwitchSet(new), SwitchMode(new, w, n)
  PROVE  /\ r' \in [Gprs -> Values] /\ regfile' \in [Gprs -> [Sets -> Values]]
         /\ rsp' \in Values /\ stackfile' \in [Modes -> Values]
<1>1. psw \in Psw /\ new.cm \in Modes /\ new.rs \in Sets /\ psw.cm \in Modes
  BY DEF TypeOK, Psw
<1>2. \A v \in Values : Pushed(n, v) \in Values
  BY BankAssumption DEF Pushed
<1>3. r' \in [Gprs -> Values] /\ regfile' \in [Gprs -> [Sets -> Values]]
  BY <1>1 DEF SwitchSet, TypeOK
<1>4. rsp' \in Values /\ stackfile' \in [Modes -> Values]
  BY <1>1, <1>2 DEF SwitchMode, TypeOK
<1> QED
  BY <1>3, <1>4

\* Every step keeps it typed.
LEMMA StepTyped == TypeOK /\ [Next]_vars => TypeOK'
<1> SUFFICES ASSUME TypeOK, [Next]_vars PROVE TypeOK'
  OBVIOUS
<1>1. psw \in Psw /\ psw.cm \in Modes /\ psw.pm \in Modes /\ rsp \in Values
  BY DEF TypeOK, Psw
<1>2. ASSUME NEW new \in Psw, PutPsw(new) \/ Return(new)
      PROVE  TypeOK'
  <2>1. Up[Up[rsp]] \in Values
    BY <1>1, BankAssumption
  <2> QED
    BY <1>1, <1>2, <2>1, SwitchTyped DEF PutPsw, Return, TypeOK
<1>3. ASSUME NEW new \in Psw, NEW n \in 1..2, Trap(new, n)
      PROVE  TypeOK'
  <2>1. [new EXCEPT !.pm = psw.cm] \in Psw
    BY <1>1 DEF Psw
  <2> QED
    BY <1>1, <1>3, <2>1, SwitchTyped DEF Trap, TypeOK
<1>4. ASSUME NEW i \in Gprs, NEW v \in Values, SetGpr(i, v)
      PROVE  TypeOK'
  BY <1>4 DEF SetGpr, TypeOK
<1>5. ASSUME NEW v \in Values, SetSp(v) \/ MoveToPrevious(v)
      PROVE  TypeOK'
  BY <1>1, <1>5, BankAssumption DEF SetSp, MoveToPrevious, TypeOK
<1>6. CASE RedZone
  BY <1>6, BankAssumption DEF RedZone, TypeOK
<1>7. CASE MoveFromPrevious
  BY <1>1, <1>7, BankAssumption DEF MoveFromPrevious, TypeOK
<1>8. CASE UNCHANGED vars
  BY <1>8 DEF vars, TypeOK
<1> QED
  BY <1>2, <1>3, <1>4, <1>5, <1>6, <1>7, <1>8 DEF Next

\* Every register holds a register value in every reachable state.
THEOREM TypeCorrect == Spec => []TypeOK
BY InitTyped, StepTyped, PTL DEF Spec
-----------------------------------------------------------------------------
(* Refinement.                                                             *)

\* The views are functions over sets and modes, and the live copies are r[].
LEMMA Views ==
  ASSUME TypeOK
  PROVE  /\ gprOf \in [Sets -> [Gprs -> Values]]
         /\ spOf \in [Modes -> Values]
         /\ gprOf[psw.rs] = r
         /\ spOf[psw.cm] = rsp
         /\ \A m \in Modes : m # psw.cm => spOf[m] = stackfile[m]
BY DEF TypeOK, Psw, gprOf, spOf

\* Saving the old set and loading the new one changes no register.
LEMMA SetSwitchInvisible ==
  ASSUME TypeOK, NEW new \in Psw, SwitchSet(new), psw'.rs = new.rs
  PROVE  gprOf' = gprOf
<1>1. psw.rs \in Sets /\ new.rs \in Sets
  BY DEF TypeOK, Psw
<1>2. ASSUME NEW s \in Sets, NEW i \in Gprs
      PROVE  (IF s = new.rs THEN r'[i] ELSE regfile'[i][s])
               = (IF s = psw.rs THEN r[i] ELSE regfile[i][s])
  BY <1>1 DEF SwitchSet, TypeOK
<1> QED
  BY <1>2 DEF gprOf

\* Switching modes with the old stack pointer at w and pushing n words changes
\* those two stack pointers only.
LEMMA ModeSwitchVisible ==
  ASSUME TypeOK, NEW new \in Psw, NEW w \in Values, NEW n \in 0..2,
         SwitchMode(new, w, n), psw'.cm = new.cm
  PROVE  \A m \in Modes :
           spOf'[m] = IF m = new.cm
                      THEN Pushed(n, IF m = psw.cm THEN w ELSE spOf[m])
                      ELSE IF m = psw.cm THEN w ELSE spOf[m]
<1>1. psw.cm \in Modes /\ new.cm \in Modes
  BY DEF TypeOK, Psw
<1>2. \A m \in Modes : spOf'[m] = IF m = new.cm THEN rsp' ELSE stackfile'[m]
  BY DEF spOf
<1>3. \A m \in Modes : spOf[m] = IF m = psw.cm THEN rsp ELSE stackfile[m]
  BY DEF spOf
<1> QED
  BY <1>1, <1>2, <1>3 DEF SwitchMode, TypeOK

\* Two stack-pointer views that agree on every mode are equal.
LEMMA SameStacks ==
  ASSUME NEW f \in [Modes -> Values], \A m \in Modes : spOf'[m] = f[m]
  PROVE  spOf' = f
<1>1. spOf' = [m \in Modes |-> spOf'[m]]
  BY DEF spOf
<1> QED
  BY <1>1

\* A cleared register file is a possible start of the promised registers.
LEMMA InitRefines == Init => Program!Init
<1> SUFFICES ASSUME Init PROVE Program!Init
  OBVIOUS
<1>1. TypeOK
  BY InitTyped
<1> QED
  BY <1>1, Views DEF TypeOK, Psw, Program!Init, Program!Psw

\* Every step of the register file is the program's step of the same name; the
\* red-zone reset is an assignment to the kernel stack pointer.
LEMMA StepRefines == TypeOK /\ [Next]_vars => [Program!Next]_(Program!vars)
<1> SUFFICES ASSUME TypeOK, TypeOK', [Next]_vars
             PROVE  [Program!Next]_(Program!vars)
  BY StepTyped
<1>1. /\ psw \in Psw /\ psw.cm \in Modes /\ psw.pm \in Modes /\ psw.rs \in Sets
      /\ rsp \in Values /\ Up[rsp] \in Values /\ Up[Up[rsp]] \in Values
      /\ Down[rsp] \in Values
      /\ \A n \in 0..2, v \in Values : Pushed(n, v) \in Values
  BY BankAssumption DEF TypeOK, Psw, Pushed
<1>2. ASSUME NEW new \in Psw, PutPsw(new)
      PROVE  Program!LoadPsw(new)
  <2>1. gprOf' = gprOf
    BY <1>2, SetSwitchInvisible DEF PutPsw
  <2>2. \A m \in Modes : spOf'[m] = spOf[m]
    BY <1>1, <1>2, ModeSwitchVisible, Views DEF PutPsw, Pushed
  <2>3. spOf' = spOf
    BY <2>2, Views, SameStacks
  <2> QED
    BY <1>2, <2>1, <2>3 DEF PutPsw, Program!LoadPsw
<1>3. ASSUME NEW new \in Psw, Return(new)
      PROVE  Program!Return(new)
  <2>1. gprOf' = gprOf
    BY <1>3, SetSwitchInvisible DEF Return
  <2>2. \A m \in Modes :
          spOf'[m] = [spOf EXCEPT ![psw.cm] = Up[Up[@]]][m]
    BY <1>1, <1>3, ModeSwitchVisible, Views DEF Return, Pushed
  <2>3. [spOf EXCEPT ![psw.cm] = Up[Up[@]]] \in [Modes -> Values]
    BY <1>1, Views
  <2>4. spOf' = [spOf EXCEPT ![psw.cm] = Up[Up[@]]]
    BY <2>2, <2>3, SameStacks
  <2> QED
    BY <1>3, <2>1, <2>4 DEF Return, Program!Return
<1>4. ASSUME NEW new \in Psw, NEW n \in 1..2, Trap(new, n)
      PROVE  Program!Trap(new, n)
  <2> DEFINE loaded == [new EXCEPT !.pm = psw.cm]
  <2>1. loaded \in Psw /\ loaded.rs = new.rs /\ loaded.cm = new.cm
    BY <1>1 DEF Psw
  <2>2. gprOf' = gprOf
    BY <1>4, <2>1, SetSwitchInvisible DEF Trap
  <2>3. \A m \in Modes :
          spOf'[m] = [spOf EXCEPT ![new.cm] = Pushed(n, @)][m]
    BY <1>1, <1>4, <2>1, ModeSwitchVisible, Views DEF Trap
  <2>4. [spOf EXCEPT ![new.cm] = Pushed(n, @)] \in [Modes -> Values]
    <3>1. n \in 0..2
      OBVIOUS
    <3>2. \A v \in Values : Pushed(n, v) \in Values
      BY <1>1, <3>1
    <3> QED
      BY <1>1, <3>2, Views
  <2>5. spOf' = [spOf EXCEPT ![new.cm] = Pushed(n, @)]
    BY <2>3, <2>4, SameStacks
  <2> QED
    BY <1>4, <2>2, <2>5 DEF Trap, Program!Trap, Pushed, Program!Pushed
<1>5. ASSUME NEW i \in Gprs, NEW v \in Values, SetGpr(i, v)
      PROVE  Program!SetGpr(i, v)
  <2>1. spOf' = spOf
    BY <1>5 DEF SetGpr, spOf
  <2>2. gprOf' = [gprOf EXCEPT ![psw.rs][i] = v]
    BY <1>1, <1>5 DEF SetGpr, gprOf, TypeOK
  <2> QED
    BY <1>5, <2>1, <2>2 DEF SetGpr, Program!SetGpr
<1>6. ASSUME NEW v \in Values, SetSp(v)
      PROVE  Program!SetSp(psw.cm, v)
  <2>1. spOf' = [spOf EXCEPT ![psw.cm] = v]
    BY <1>1, <1>6 DEF SetSp, spOf
  <2> QED
    BY <1>6, <2>1 DEF SetSp, gprOf, Program!SetSp
<1>7. ASSUME RedZone
      PROVE  Program!SetSp(psw.cm, RedReset) /\ RedReset \in Values
  <2>1. spOf' = [spOf EXCEPT ![psw.cm] = RedReset]
    BY <1>1, <1>7 DEF RedZone, spOf, TypeOK
  <2> QED
    BY <1>7, <2>1, BankAssumption DEF RedZone, gprOf, Program!SetSp
<1>8. ASSUME MoveFromPrevious
      PROVE  Program!MoveFromPrevious
  <2>1. spOf' = [spOf EXCEPT ![psw.cm] = Down[@]]
    BY <1>1, <1>8 DEF MoveFromPrevious, spOf
  <2>2. seen' = spOf[psw.pm]
    BY <1>1, <1>8 DEF MoveFromPrevious, spOf
  <2> QED
    BY <1>8, <2>1, <2>2 DEF MoveFromPrevious, gprOf, Program!MoveFromPrevious
<1>9. ASSUME NEW v \in Values, MoveToPrevious(v)
      PROVE  Program!MoveToPrevious(v)
  <2>1. \A m \in Modes :
          spOf'[m] = [[spOf EXCEPT ![psw.cm] = Up[@]] EXCEPT ![psw.pm] = v][m]
    BY <1>1, <1>9 DEF MoveToPrevious, spOf, TypeOK
  <2>2. [[spOf EXCEPT ![psw.cm] = Up[@]] EXCEPT ![psw.pm] = v]
          \in [Modes -> Values]
    BY <1>1, Views
  <2>3. spOf' = [[spOf EXCEPT ![psw.cm] = Up[@]] EXCEPT ![psw.pm] = v]
    BY <2>1, <2>2, SameStacks
  <2> QED
    BY <1>9, <2>3 DEF MoveToPrevious, gprOf, Program!MoveToPrevious
<1>10. CASE UNCHANGED vars
  BY <1>10 DEF vars, gprOf, spOf, Program!vars
<1>11. ASSUME Next
       PROVE  Program!Next
  BY <1>2, <1>3, <1>4, <1>5, <1>6, <1>7, <1>8, <1>9, <1>11
     DEF Next, Psw, Program!Next, Program!Psw
<1> QED
  BY <1>10, <1>11

\* The saved copies are invisible: a program sees registers that stay put.
THEOREM Refinement == Spec => ImplementsModeRegs
BY InitRefines, StepRefines, TypeCorrect, PTL
   DEF Spec, ImplementsModeRegs, Program!Spec

-----------------------------------------------------------------------------
(* Powers of two.                                                           *)

\* A set of numbers that has zero and every successor has every number.
LEMMA NatSetInduction ==
  ASSUME NEW S, 0 \in S, \A n \in Nat : n \in S => n + 1 \in S
  PROVE  Nat \subseteq S
<1> DEFINE Less == OpToRel(<, Nat)
           T == Nat \ S
<1>1. IsWellFoundedOn(Less, Nat)
  BY NatLessThanWellFounded, Zenon
<1>2. \A y, x \in Nat : y < x => <<y, x>> \in Less
  BY DEF OpToRel
<1> HIDE DEF Less
<1> SUFFICES ASSUME T # {} PROVE FALSE
  OBVIOUS
<1>3. PICK x \in T : \A y \in T : ~(<<y, x>> \in Less)
  <2>1. T \subseteq Nat
    OBVIOUS
  <2> QED BY <1>1, <2>1, WFMin, Zenon
<1>4. x - 1 \in Nat /\ x \in Nat /\ x - 1 < x /\ x \notin S
  BY <1>3
<1>5. (x - 1) + 1 \in S
  BY <1>2, <1>3, <1>4
<1>6. (x - 1) + 1 = x
  BY <1>4
<1> QED BY <1>4, <1>5, <1>6

\* The powers of two up to any exponent exist.
LEMMA PowersExist ==
  ASSUME NEW n \in Nat
  PROVE  \E f : f = [k \in 0 .. n |-> IF k = 0 THEN 1 ELSE 2 * f[k - 1]]
<1> DEFINE Powers(f, m) == f = [k \in 0 .. m |-> IF k = 0 THEN 1 ELSE 2 * f[k - 1]]
           S == {m \in Nat : \E f : Powers(f, m)}
<1>1. 0 \in S
  <2> DEFINE f == [k \in 0 .. 0 |-> 1]
  <2>1. Powers(f, 0)
    OBVIOUS
  <2> QED BY <2>1
<1>2. ASSUME NEW m \in Nat, m \in S
      PROVE  m + 1 \in S
  <2>1. PICK f : Powers(f, m)
    BY <1>2
  <2> DEFINE g == [k \in 0 .. m + 1 |-> IF k = m + 1 THEN 2 * f[m] ELSE f[k]]
  <2>2. ASSUME NEW k \in 0 .. m + 1
        PROVE  g[k] = IF k = 0 THEN 1 ELSE 2 * g[k - 1]
    <3>1. CASE k = m + 1
      BY <3>1
    <3>2. CASE k = 0
      BY <2>1, <3>2
    <3>3. CASE k # m + 1 /\ k # 0
      <4>1. k \in 0 .. m /\ k - 1 \in 0 .. m /\ k - 1 # m + 1
        BY <3>3
      <4>2. f[k] = 2 * f[k - 1]
        BY <2>1, <3>3, <4>1
      <4> QED BY <3>3, <4>1, <4>2
    <3> QED BY <3>1, <3>2, <3>3
  <2>3. g = [k \in 0 .. m + 1 |-> g[k]]
    OBVIOUS
  <2> HIDE DEF g
  <2>4. Powers(g, m + 1)
    BY <2>2, <2>3
  <2>5. m + 1 \in Nat
    OBVIOUS
  <2> HIDE DEF Powers
  <2> QED BY <2>4, <2>5, Zenon DEF S
<1> HIDE DEF S
<1>3. n \in S
  BY <1>1, <1>2, NatSetInduction
<1> QED BY <1>3 DEF S

\* Each power is twice the one before.
LEMMA PowerSteps ==
  /\ A!Power[0] = 1
  /\ \A n \in 0 .. 2 * W - 1 : A!Power[n + 1] = 2 * A!Power[n]
  /\ \A n \in 0 .. 2 * W : A!Power[n] \in Nat \ {0}
<1> DEFINE top == 2 * W
           Powers(f) == f = [k \in 0 .. 2 * W |-> IF k = 0 THEN 1 ELSE 2 * f[k - 1]]
           power == A!Power
<1>1. top \in Nat
  BY AluWords DEF A!WordAssumption
<1>2. \E f : Powers(f)
  BY <1>1, PowersExist
<1>3. power = CHOOSE f : Powers(f)
  BY Zenon DEF A!Power
<1> HIDE DEF Powers
<1>4. Powers(power)
  BY <1>2, <1>3, Zenon
<1> HIDE DEF power
<1>5. power[0] = 1 /\ \A n \in 0 .. top - 1 : power[n + 1] = 2 * power[n]
  BY <1>1, <1>4 DEF Powers
<1> DEFINE S == {n \in Nat : n <= top => power[n] \in Nat \ {0}}
<1> HIDE DEF top
<1>6. Nat \subseteq S
  <2>1. 0 \in S
    BY <1>5
  <2>2. ASSUME NEW n \in Nat, n \in S
        PROVE  n + 1 \in S
    BY <1>1, <1>5, <2>2
  <2> HIDE DEF S
  <2> QED BY <2>1, <2>2, NatSetInduction
<1>7. \A n \in 0 .. top : power[n] \in Nat \ {0}
  BY <1>1, <1>6
<1> QED BY <1>5, <1>7 DEF top, power

\* The power of a sum is the product of the powers.
LEMMA PowerOfSum ==
  ASSUME NEW m \in Nat, NEW n \in Nat, m + n <= 2 * W
  PROVE  A!Power[m + n] = A!Power[m] * A!Power[n]
<1> DEFINE S == {k \in Nat : m + k <= 2 * W => A!Power[m + k] = A!Power[m] * A!Power[k]}
<1>1. W \in Nat
  BY AluWords DEF A!WordAssumption
<1>2. 0 \in S
  <2>1. m + 0 = m
    OBVIOUS
  <2>2. m \in 0 .. 2 * W
    BY <1>1
  <2>3. PICK x \in Nat : x = A!Power[m]
    BY <2>2, PowerSteps
  <2>4. x = x * 1
    OBVIOUS
  <2> QED BY <2>1, <2>3, <2>4, PowerSteps
<1>3. ASSUME NEW k \in Nat, k \in S
      PROVE  k + 1 \in S
  <2> SUFFICES ASSUME m + (k + 1) <= 2 * W
               PROVE  A!Power[m + (k + 1)] = A!Power[m] * A!Power[k + 1]
    OBVIOUS
  <2>1. /\ m \in 0 .. 2 * W /\ k \in 0 .. 2 * W - 1 /\ m + k \in 0 .. 2 * W - 1
        /\ m + (k + 1) = (m + k) + 1
    BY <1>1
  <2>2. A!Power[m + k] = A!Power[m] * A!Power[k]
    BY <1>1, <1>3, <2>1
  <2>3. A!Power[m + (k + 1)] = 2 * A!Power[m + k] /\ A!Power[k + 1] = 2 * A!Power[k]
    BY <2>1, PowerSteps
  <2>4. PICK x \in Nat, y \in Nat : x = A!Power[m] /\ y = A!Power[k]
    BY <1>1, <2>1, PowerSteps
  <2>5. 2 * (x * y) = x * (2 * y)
    OBVIOUS
  <2> QED BY <2>2, <2>3, <2>4, <2>5
<1> HIDE DEF S
<1>4. n \in S
  BY <1>2, <1>3, NatSetInduction
<1> QED BY <1>4 DEF S
-----------------------------------------------------------------------------
(* Widths and types of the ALU.                                             *)

\* A byte is half a word, and both count twice as far as their sign bit.
LEMMA Widths ==
  ASSUME NEW b \in BOOLEAN
  PROVE  /\ A!Bits(b) \in 1 .. W
         /\ A!WordCount(b) = 2 * A!Power[A!Bits(b) - 1]
         /\ A!Power[A!Bits(b) - 1] \in Nat \ {0}
         /\ \E q \in Nat \ {0} : A!Power[W] = q * A!WordCount(b)
<1>1. PICK h \in Nat \ {0} : W = 2 * h /\ W \div 2 = h
  <2>1. W \in Nat \ {0} /\ W % 2 = 0
    BY AluWords DEF A!WordAssumption
  <2>2. W % 2 = W - 2 * (W \div 2) /\ W \div 2 \in Nat
    BY <2>1
  <2> QED BY <2>1, <2>2
<1>2. CASE b
  <2>1. A!Bits(b) = h
    BY <1>1, <1>2 DEF A!Bits
  <2>2. A!Power[(h - 1) + 1] = 2 * A!Power[h - 1] /\ A!Power[h - 1] \in Nat \ {0}
    BY <1>1, PowerSteps
  <2>3. (h - 1) + 1 = h /\ h \in 0 .. 2 * W
    BY <1>1
  <2>4. A!Power[h + h] = A!Power[h] * A!Power[h]
    BY <1>1, PowerOfSum
  <2>5. h + h = W /\ h \in 1 .. W
    BY <1>1
  <2>6. A!Power[h] \in Nat \ {0}
    BY <2>3, PowerSteps
  <2> QED BY <2>1, <2>2, <2>3, <2>4, <2>5, <2>6 DEF A!WordCount
<1>3. CASE ~b
  <2>1. A!Bits(b) = W
    BY <1>3 DEF A!Bits
  <2>2. A!Power[(W - 1) + 1] = 2 * A!Power[W - 1] /\ A!Power[W - 1] \in Nat \ {0}
    BY <1>1, PowerSteps
  <2>3. (W - 1) + 1 = W /\ W \in 1 .. W /\ W \in 0 .. 2 * W
    BY <1>1
  <2>4. A!Power[W] \in Nat /\ A!Power[W] = 1 * A!Power[W]
    BY <2>3, PowerSteps
  <2> QED BY <2>1, <2>2, <2>3, <2>4 DEF A!WordCount
<1> QED BY <1>2, <1>3

\* The low part of a number is below the count of its width.
LEMMA LowType ==
  ASSUME NEW b \in BOOLEAN, NEW x \in Int
  PROVE  A!Low(x, b) \in 0 .. A!WordCount(b) - 1
<1>1. A!WordCount(b) \in Nat \ {0}
  BY Widths
<1> QED BY <1>1 DEF A!Low

\* The sums of the first numbers of a list exist.
LEMMA SumsExist ==
  ASSUME NEW d \in [Nat -> Int], NEW n \in Nat
  PROVE  \E f \in [0 .. n -> Int] :
           f = [k \in 0 .. n |-> IF k = 0 THEN 0 ELSE f[k - 1] + d[k]]
<1> DEFINE Sums(f, m) == f = [k \in 0 .. m |-> IF k = 0 THEN 0 ELSE f[k - 1] + d[k]]
           S == {m \in Nat : \E f \in [0 .. m -> Int] : Sums(f, m)}
<1>1. 0 \in S
  <2> DEFINE f == [k \in 0 .. 0 |-> 0]
  <2>1. f \in [0 .. 0 -> Int] /\ Sums(f, 0)
    OBVIOUS
  <2> QED BY <2>1
<1>2. ASSUME NEW m \in Nat, m \in S
      PROVE  m + 1 \in S
  <2>1. PICK f \in [0 .. m -> Int] : Sums(f, m)
    BY <1>2
  <2> DEFINE g == [k \in 0 .. m + 1 |-> IF k = m + 1 THEN f[m] + d[m + 1] ELSE f[k]]
  <2>2. g \in [0 .. m + 1 -> Int]
    BY <2>1
  <2>3. ASSUME NEW k \in 0 .. m + 1
        PROVE  g[k] = IF k = 0 THEN 0 ELSE g[k - 1] + d[k]
    <3>1. CASE k = m + 1
      BY <3>1
    <3>2. CASE k = 0
      BY <2>1, <3>2
    <3>3. CASE k # m + 1 /\ k # 0
      <4>1. k \in 0 .. m /\ k - 1 \in 0 .. m /\ k - 1 # m + 1
        BY <3>3
      <4>2. f[k] = f[k - 1] + d[k]
        BY <2>1, <3>3, <4>1
      <4> QED BY <3>3, <4>1, <4>2
    <3> QED BY <3>1, <3>2, <3>3
  <2> HIDE DEF g
  <2>4. Sums(g, m + 1)
    BY <2>2, <2>3
  <2>5. m + 1 \in Nat
    OBVIOUS
  <2> HIDE DEF Sums
  <2> QED BY <2>2, <2>4, <2>5, Zenon DEF S
<1> HIDE DEF S
<1>3. n \in S
  BY <1>1, <1>2, NatSetInduction
<1> QED BY <1>3 DEF S

\* Two numbers combined bit by bit give a word.
LEMMA CombinedType ==
  ASSUME NEW x \in Int, NEW y \in Int, NEW op \in {A!And, A!Or, A!Xor}
  PROVE  A!Combined(op, x, y) \in A!Word /\ A!Combined(op, x, y) \in Int
<1> DEFINE d == [k \in Nat |-> IF k \in 1 .. W
                   THEN A!Power[k - 1] * op[<<A!BitOf(x, k - 1), A!BitOf(y, k - 1)>>] ELSE 0]
           Sums(f) ==
             f = [n \in 0 .. W |-> IF n = 0 THEN 0 ELSE f[n - 1] +
                    A!Power[n - 1] * op[<<A!BitOf(x, n - 1), A!BitOf(y, n - 1)>>]]
           low == CHOOSE f : Sums(f)
<1>1. W \in Nat
  BY AluWords DEF A!WordAssumption
<1>2. ASSUME NEW k \in 1 .. W
      PROVE  A!Power[k - 1] * op[<<A!BitOf(x, k - 1), A!BitOf(y, k - 1)>>] \in Int
  <2>1. k - 1 \in 0 .. 2 * W
    BY <1>1
  <2>2. A!Power[k - 1] \in Nat \ {0}
    BY <2>1, PowerSteps
  <2>3. A!BitOf(x, k - 1) \in {0, 1} /\ A!BitOf(y, k - 1) \in {0, 1}
    BY <2>2 DEF A!BitOf
  <2>4. \A a, c \in {0, 1} : op[<<a, c>>] \in Int
    BY DEF A!And, A!Or, A!Xor
  <2>5. op[<<A!BitOf(x, k - 1), A!BitOf(y, k - 1)>>] \in Int
    BY <2>3, <2>4
  <2> QED BY <2>2, <2>5
<1>3. d \in [Nat -> Int]
  BY <1>2
<1>4. PICK f \in [0 .. W -> Int] :
        f = [k \in 0 .. W |-> IF k = 0 THEN 0 ELSE f[k - 1] + d[k]]
  BY <1>1, <1>3, SumsExist
<1>5. Sums(f)
  <2>1. \A k \in 0 .. W : k # 0 =>
          d[k] = A!Power[k - 1] * op[<<A!BitOf(x, k - 1), A!BitOf(y, k - 1)>>]
    BY <1>1
  <2> HIDE DEF d
  <2> QED BY <1>4, <2>1
<1>6. A!Combined(op, x, y) = low[W]
  BY Zenon DEF A!Combined
<1> HIDE DEF Sums
<1>7. Sums(low)
  BY <1>5, Zenon
<1> HIDE DEF low
<1>8. /\ low[0] = 0
      /\ \A n \in 0 .. W - 1 : low[n + 1] =
           low[n] + A!Power[n] * op[<<A!BitOf(x, n), A!BitOf(y, n)>>]
  BY <1>1, <1>7 DEF Sums
<1>9. \A n \in 0 .. W - 1 :
        /\ op[<<A!BitOf(x, n), A!BitOf(y, n)>>] \in {0, 1}
        /\ A!Power[n] \in Nat \ {0} /\ A!Power[n + 1] = 2 * A!Power[n]
  <2> SUFFICES ASSUME NEW n \in 0 .. W - 1
               PROVE  /\ op[<<A!BitOf(x, n), A!BitOf(y, n)>>] \in {0, 1}
                      /\ A!Power[n] \in Nat \ {0} /\ A!Power[n + 1] = 2 * A!Power[n]
    OBVIOUS
  <2>1. n \in 0 .. 2 * W /\ n \in 0 .. 2 * W - 1
    BY <1>1
  <2>2. A!Power[n] \in Nat \ {0} /\ A!Power[n + 1] = 2 * A!Power[n]
    BY <2>1, PowerSteps
  <2>3. A!BitOf(x, n) \in {0, 1} /\ A!BitOf(y, n) \in {0, 1}
    BY <2>2 DEF A!BitOf
  <2>4. \A a, c \in {0, 1} : op[<<a, c>>] \in {0, 1}
    BY DEF A!And, A!Or, A!Xor
  <2> QED BY <2>2, <2>3, <2>4
<1> DEFINE S == {n \in Nat : n <= W => low[n] \in 0 .. A!Power[n] - 1}
<1>10. Nat \subseteq S
  <2>1. 0 \in S
    <3>1. A!Power[0] = 1
      BY PowerSteps
    <3> QED BY <1>8, <3>1
  <2>2. ASSUME NEW n \in Nat, n \in S
        PROVE  n + 1 \in S
    <3> SUFFICES ASSUME n + 1 <= W PROVE low[n + 1] \in 0 .. A!Power[n + 1] - 1
      OBVIOUS
    <3>1. n \in 0 .. W - 1
      BY <1>1, <2>2
    <3>2. PICK p \in Nat \ {0} : p = A!Power[n] /\ A!Power[n + 1] = 2 * p
      BY <1>9, <3>1
    <3>3. PICK a \in {0, 1} : a = op[<<A!BitOf(x, n), A!BitOf(y, n)>>]
      BY <1>9, <3>1
    <3>4. PICK before \in 0 .. p - 1 : before = low[n]
      BY <1>1, <2>2, <3>1, <3>2
    <3>5. low[n + 1] = before + p * a
      BY <1>8, <3>1, <3>2, <3>3, <3>4, Zenon
    <3>6. before + p * a \in 0 .. 2 * p - 1
      <4>1. CASE a = 0
        BY <4>1
      <4>2. CASE a = 1
        BY <4>2
      <4> QED BY <4>1, <4>2
    <3> QED BY <3>2, <3>5, <3>6
  <2> HIDE DEF S
  <2> QED BY <2>1, <2>2, NatSetInduction
<1>11. low[W] \in 0 .. A!Power[W] - 1
  BY <1>1, <1>10
<1>12. A!Power[W] \in Nat
  BY <1>1, PowerSteps
<1> QED BY <1>6, <1>11, <1>12 DEF A!Word

\* What is left of an instruction: a number and condition codes.
Left == [res : Int, cc : A!Codes]

\* Any number with flags is.
LEMMA OutcomeType ==
  ASSUME NEW res \in Int, NEW b \in BOOLEAN, NEW v \in BOOLEAN, NEW c \in BOOLEAN
  PROVE  A!Outcome(res, b, v, c) \in Left
BY DEF A!Outcome, A!Codes, A!Msb, Left

\* Sums and differences are.
LEMMA SumType ==
  ASSUME NEW b \in BOOLEAN, NEW x \in Int, NEW y \in Int
  PROVE  A!AluAdd(x, y, b) \in Left /\ A!AluSub(x, y, b) \in Left
<1>1. A!Low(x, b) \in Int /\ A!Low(y, b) \in Int /\ A!WordCount(b) \in Int
  BY LowType, Widths
<1>2. A!Complement(y, b) \in Int
  BY <1>1 DEF A!Complement
<1>3. ASSUME NEW sum \in Int, NEW v \in BOOLEAN, NEW c \in BOOLEAN
      PROVE  A!Outcome(A!Low(sum, b), b, v, c) \in Left
  BY <1>3, LowType, OutcomeType
<1>4. A!AluAdd(x, y, b) \in Left
  <2> DEFINE sum == A!Low(x, b) + A!Low(y, b)
             v == A!Msb(x, b) = A!Msb(y, b) /\ A!Msb(x, b) # A!Msb(sum, b)
             c == sum >= A!WordCount(b)
  <2>1. sum \in Int
    BY <1>1
  <2>2. A!AluAdd(x, y, b) = A!Outcome(A!Low(sum, b), b, v, c)
    BY DEF A!AluAdd
  <2>3. v \in BOOLEAN /\ c \in BOOLEAN
    OBVIOUS
  <2> HIDE DEF sum, v, c
  <2> QED BY <1>3, <2>1, <2>2, <2>3
<1>5. A!AluSub(x, y, b) \in Left
  <2> DEFINE sum == A!Low(x, b) + A!Complement(y, b) + 1
             v == A!Msb(x, b) # A!Msb(y, b) /\ A!Msb(x, b) # A!Msb(sum, b)
             c == sum < A!WordCount(b)
  <2>1. sum \in Int
    BY <1>1, <1>2
  <2>2. A!AluSub(x, y, b) = A!Outcome(A!Low(sum, b), b, v, c)
    BY DEF A!AluSub
  <2>3. v \in BOOLEAN /\ c \in BOOLEAN
    OBVIOUS
  <2> HIDE DEF sum, v, c
  <2> QED BY <1>3, <2>1, <2>2, <2>3
<1> QED BY <1>4, <1>5

\* Double-operand instructions do.
LEMMA DoubleType ==
  ASSUME NEW op \in A!DoubleOps, NEW s \in Int, NEW d \in Int, NEW b \in BOOLEAN,
         NEW old \in A!Codes
  PROVE  A!Double(op, s, d, b, old) \in Left
<1> DEFINE o == A!Double(op, s, d, b, old)
<1>1. old.c \in BOOLEAN /\ FALSE \in BOOLEAN
  BY DEF A!Codes
<1>2. A!Complement(s, b) \in Int
  BY LowType, Widths DEF A!Complement
<1>3. A!Combined(A!And, s, d) \in Int
  BY CombinedType
<1>4. A!Combined(A!And, d, A!Complement(s, b)) \in Int
  BY <1>2, CombinedType
<1>5. A!Combined(A!Or, d, s) \in Int
  BY CombinedType
<1>6. op = "MOV" => o = A!Outcome(s, b, FALSE, old.c)
  BY DEF A!Double
<1>7. op = "BIT" => o = A!Outcome(A!Combined(A!And, s, d), b, FALSE, old.c)
  BY DEF A!Double
<1>8. op = "BIC" =>
        o = A!Outcome(A!Combined(A!And, d, A!Complement(s, b)), b, FALSE, old.c)
  BY DEF A!Double
<1>9. op = "BIS" => o = A!Outcome(A!Combined(A!Or, d, s), b, FALSE, old.c)
  BY DEF A!Double
<1>10. op = "CMP" => o = A!AluSub(s, d, b)
  BY DEF A!Double
<1>11. op = "ADD" => o = A!AluAdd(d, s, b)
  BY DEF A!Double
<1>12. op = "SUB" => o = A!AluSub(d, s, b)
  BY DEF A!Double
<1>13. op \in {"MOV", "BIT", "BIC", "BIS", "CMP", "ADD", "SUB"}
  BY DEF A!DoubleOps
<1> HIDE DEF o
<1>14. CASE op = "MOV"
  BY <1>1, <1>6, <1>14, OutcomeType DEF o
<1>15. CASE op = "BIT"
  BY <1>1, <1>3, <1>7, <1>15, OutcomeType DEF o
<1>16. CASE op = "BIC"
  BY <1>1, <1>4, <1>8, <1>16, OutcomeType DEF o
<1>17. CASE op = "BIS"
  BY <1>1, <1>5, <1>9, <1>17, OutcomeType DEF o
<1>18. CASE op = "CMP"
  BY <1>10, <1>18, SumType DEF o
<1>19. CASE op = "ADD"
  BY <1>11, <1>19, SumType DEF o
<1>20. CASE op = "SUB"
  BY <1>12, <1>20, SumType DEF o
<1> QED BY <1>13, <1>14, <1>15, <1>16, <1>17, <1>18, <1>19, <1>20 DEF o
\* So do shifts by one place.
LEMMA ShiftedType ==
  ASSUME NEW res \in Int, NEW b \in BOOLEAN, NEW c \in BOOLEAN
  PROVE  A!Shifted(res, b, c) \in Left
<1> DEFINE v == A!Msb(res, b) # c
<1>1. A!Shifted(res, b, c) = A!Outcome(res, b, v, c)
  BY DEF A!Shifted
<1>2. v \in BOOLEAN
  OBVIOUS
<1> HIDE DEF v
<1> QED BY <1>1, <1>2, OutcomeType

\* And single-operand instructions.
LEMMA SingleType ==
  ASSUME NEW op \in A!SingleOps, NEW x \in Int, NEW b \in BOOLEAN, NEW old \in A!Codes
  PROVE  A!Single(op, x, b, old) \in Left
<1> DEFINE o == A!Single(op, x, b, old)
           d == A!Low(x, b)
           sign == A!Power[A!Bits(b) - 1]
           most == A!WordCount(b) - 1
           carry == A!Bit(old.c)
           top == A!Bit(A!Msb(d, b))
           odd == d % 2 = 1
           high == A!Msb(d, b)
<1>1. /\ d \in Int /\ sign \in Int /\ most \in Int /\ carry \in Int /\ top \in Int
      /\ odd \in BOOLEAN /\ high \in BOOLEAN /\ old.c \in BOOLEAN
      /\ FALSE \in BOOLEAN /\ TRUE \in BOOLEAN
  BY LowType, Widths DEF A!Bit, A!Msb, A!Codes
<1>2. /\ A!Complement(d, b) \in Int /\ A!Low(d + 1, b) \in Int /\ A!Low(d - 1, b) \in Int
      /\ A!Low(0 - d, b) \in Int /\ A!Low(d + carry, b) \in Int
      /\ A!Low(d - carry, b) \in Int /\ A!Low(2 * d + carry, b) \in Int
      /\ A!Low(2 * d, b) \in Int
  <2>1. \A i \in Int : A!Low(i, b) \in Int
    BY LowType, Widths
  <2>2. A!Complement(d, b) \in Int
    BY <1>1, <2>1, Widths DEF A!Complement
  <2> HIDE DEF d, carry
  <2> QED BY <1>1, <2>1, <2>2
<1>3. CASE op = "CLR"
  <2>1. o = A!Outcome(0, b, FALSE, FALSE)
    BY <1>3 DEF A!Single
  <2>2. \A z \in Int : A!Outcome(z, b, FALSE, FALSE) \in Left
    BY <1>1, OutcomeType
  <2>3. 0 \in Int
    OBVIOUS
  <2> QED BY <2>1, <2>2, <2>3, Zenon
<1>4. CASE op = "COM"
  <2>1. o = A!Outcome(A!Complement(d, b), b, FALSE, TRUE)
    BY <1>4 DEF A!Single
  <2> QED BY <1>1, <1>2, <2>1, OutcomeType
<1>5. CASE op = "INC"
  <2> DEFINE v == d = sign - 1
  <2>1. o = A!Outcome(A!Low(d + 1, b), b, v, old.c)
    BY <1>5 DEF A!Single
  <2>2. v \in BOOLEAN
    OBVIOUS
  <2> HIDE DEF v
  <2> QED BY <1>1, <1>2, <2>1, <2>2, OutcomeType
<1>6. CASE op = "DEC"
  <2> DEFINE v == d = sign
  <2>1. o = A!Outcome(A!Low(d - 1, b), b, v, old.c)
    BY <1>6 DEF A!Single
  <2>2. v \in BOOLEAN
    OBVIOUS
  <2> HIDE DEF v
  <2> QED BY <1>1, <1>2, <2>1, <2>2, OutcomeType
<1>7. CASE op = "NEG"
  <2> DEFINE v == A!Low(0 - d, b) = sign
             c == d # 0
  <2>1. o = A!Outcome(A!Low(0 - d, b), b, v, c)
    BY <1>7 DEF A!Single
  <2>2. v \in BOOLEAN /\ c \in BOOLEAN
    OBVIOUS
  <2> HIDE DEF v, c
  <2> QED BY <1>1, <1>2, <2>1, <2>2, OutcomeType
<1>8. CASE op = "ADC"
  <2> DEFINE v == old.c /\ d = sign - 1
             c == old.c /\ d = most
  <2>1. o = A!Outcome(A!Low(d + carry, b), b, v, c)
    BY <1>8 DEF A!Single
  <2>2. v \in BOOLEAN /\ c \in BOOLEAN
    OBVIOUS
  <2> HIDE DEF v, c
  <2> QED BY <1>1, <1>2, <2>1, <2>2, OutcomeType
<1>9. CASE op = "SBC"
  <2> DEFINE v == old.c /\ d = sign
             c == old.c /\ d = 0
  <2>1. o = A!Outcome(A!Low(d - carry, b), b, v, c)
    BY <1>9 DEF A!Single
  <2>2. v \in BOOLEAN /\ c \in BOOLEAN
    OBVIOUS
  <2> HIDE DEF v, c
  <2> QED BY <1>1, <1>2, <2>1, <2>2, OutcomeType
<1>10. CASE op = "TST"
  <2>1. o = A!Outcome(d, b, FALSE, FALSE)
    BY <1>10 DEF A!Single
  <2> QED BY <1>1, <2>1, OutcomeType
<1>11. CASE op = "ROR"
  <2>1. o = A!Shifted(d \div 2 + sign * carry, b, odd)
    BY <1>11 DEF A!Single
  <2>2. d \div 2 + sign * carry \in Int
    BY <1>1
  <2> QED BY <1>1, <2>1, <2>2, ShiftedType
<1>12. CASE op = "ROL"
  <2>1. o = A!Shifted(A!Low(2 * d + carry, b), b, high)
    BY <1>12 DEF A!Single
  <2> QED BY <1>1, <1>2, <2>1, ShiftedType
<1>13. CASE op = "ASR"
  <2>1. o = A!Shifted(d \div 2 + sign * top, b, odd)
    BY <1>13 DEF A!Single
  <2>2. d \div 2 + sign * top \in Int
    BY <1>1
  <2> QED BY <1>1, <2>1, <2>2, ShiftedType
<1>14. CASE op = "ASL"
  <2>1. o = A!Shifted(A!Low(2 * d, b), b, high)
    BY <1>14 DEF A!Single
  <2> QED BY <1>1, <1>2, <2>1, ShiftedType
<1>15. CASE op = "SWAB"
  <2> DEFINE half == A!Power[W \div 2]
             res == (d % half) * half + d \div half
  <2>1. half \in Nat \ {0}
    <3>1. W \div 2 \in 0 .. 2 * W
      BY AluWords DEF A!WordAssumption
    <3> QED BY <3>1, PowerSteps
  <2>2. res \in Int
    BY <1>1, <2>1
  <2>3. o = [res |-> res, cc |-> [n |-> A!Msb(res, TRUE), z |-> A!Low(res, TRUE) = 0,
                        v |-> ~SwabClearsV /\ old.v, c |-> FALSE]]
    BY <1>15 DEF A!Single, A!Swab
  <2> HIDE DEF res
  <2> QED BY <2>2, <2>3 DEF Left, A!Codes, A!Msb
<1>16. CASE op = "SXT"
  <2>1. o = A!Sxt(old)
    BY <1>16 DEF A!Single
  <2>2. A!Power[W] \in Nat
    BY AluWords, PowerSteps DEF A!WordAssumption
  <2> DEFINE res == IF old.n THEN A!Power[W] - 1 ELSE 0
             cc == [old EXCEPT !.z = ~old.n, !.v = FALSE]
  <2>3. o = [res |-> res, cc |-> cc]
    BY <2>1 DEF A!Sxt
  <2>4. res \in Int
    BY <2>2
  <2>5. cc \in A!Codes
    <3>1. (~old.n) \in BOOLEAN /\ FALSE \in BOOLEAN
      OBVIOUS
    <3> QED BY <3>1 DEF A!Codes
  <2> HIDE DEF res, cc
  <2> QED BY <2>3, <2>4, <2>5 DEF Left
<1>17. op \in {"CLR", "COM", "INC", "DEC", "NEG", "ADC", "SBC", "TST",
               "ROR", "ROL", "ASR", "ASL", "SWAB", "SXT"}
  BY DEF A!SingleOps
<1> QED BY <1>3, <1>4, <1>5, <1>6, <1>7, <1>8, <1>9, <1>10, <1>11, <1>12, <1>13,
           <1>14, <1>15, <1>16, <1>17
\* The number a word stands for is one; only 0 stands for 0.
LEMMA SignedType ==
  ASSUME NEW n \in 1 .. 2 * W, NEW x \in 0 .. A!Power[n] - 1
  PROVE  /\ A!Signed(x, n) \in Int
         /\ x # 0 => A!Signed(x, n) # 0
<1>1. W \in Nat
  BY AluWords DEF A!WordAssumption
<1>2. n \in 0 .. 2 * W /\ n - 1 \in 0 .. 2 * W
  BY <1>1
<1>3. A!Power[n] \in Nat /\ A!Power[n - 1] \in Nat
  BY <1>2, PowerSteps
<1> QED BY <1>3 DEF A!Signed

\* A byte put into the low half of a word leaves a word.
LEMMA ByteFits ==
  ASSUME NEW q \in Nat, NEW count \in Nat \ {0}, NEW x \in 0 .. q * count - 1,
         NEW low \in 0 .. count - 1
  PROVE  x - (x % count) + low \in 0 .. q * count - 1
<1>1. PICK k \in Nat : k = x \div count
  OBVIOUS
<1>2. x % count = x - count * k /\ x % count \in 0 .. count - 1
  BY <1>1
<1>3. count * k \in Nat /\ count * k = k * count /\ q * count \in Nat
  OBVIOUS
<1>4. k < q
  <2> SUFFICES ASSUME q <= k PROVE FALSE
    OBVIOUS
  <2>1. PICK e \in Nat : k = q + e
    <3>1. k - q \in Nat /\ k = q + (k - q)
      OBVIOUS
    <3> QED BY <3>1
  <2>2. (q + e) * count = q * count + e * count /\ e * count \in Nat
    OBVIOUS
  <2> QED BY <1>2, <1>3, <2>1, <2>2
<1>5. k * count + count <= q * count
  <2>1. PICK e \in Nat : q = k + 1 + e
    <3>1. q - k - 1 \in Nat /\ q = k + 1 + (q - k - 1)
      BY <1>4
    <3> QED BY <3>1
  <2>2. (k + 1 + e) * count = k * count + count + e * count /\ e * count \in Nat
    OBVIOUS
  <2> QED BY <2>1, <2>2
<1> QED BY <1>2, <1>3, <1>5

\* What an instruction stores in a register is a word.
LEMMA StoreType ==
  ASSUME A!TypeOK, NEW d \in A!Regs, NEW op, NEW b \in BOOLEAN, NEW res \in Int
  PROVE  A!StoreReg(d, op, b, res) \in [A!Regs -> A!Word]
<1>1. aluR \in [A!Regs -> A!Word] /\ aluR[d] \in A!Word
  BY DEF A!TypeOK
<1>2. W \in Nat \ {0} /\ A!Power[W] \in Nat \ {0}
  BY AluWords, PowerSteps DEF A!WordAssumption
<1>3. A!Low(res, b) \in 0 .. A!WordCount(b) - 1 /\ A!WordCount(b) \in Nat \ {0}
  BY LowType, Widths
<1>4. aluR[d] - A!Low(aluR[d], b) + A!Low(res, b) \in A!Word
  <2>1. PICK q \in Nat \ {0} : A!Power[W] = q * A!WordCount(b)
    BY Widths
  <2>2. PICK count \in Nat \ {0} : count = A!WordCount(b)
    BY <1>3
  <2>3. PICK x \in 0 .. q * count - 1 : x = aluR[d]
    BY <1>1, <2>1, <2>2 DEF A!Word
  <2>4. PICK low \in 0 .. count - 1 : low = A!Low(res, b)
    BY <1>3, <2>2
  <2>5. PICK m \in 0 .. count - 1 : m = x % count
    OBVIOUS
  <2>6. A!Low(aluR[d], b) = m
    BY <2>2, <2>3, <2>5, Zenon DEF A!Low
  <2>7. PICK y \in 0 .. q * count - 1 : y = x - m + low
    BY <2>5, ByteFits
  <2>8. \A w, v, u : w = x /\ v = m /\ u = low => w - v + u = y
    BY <2>7
  <2>9. aluR[d] - A!Low(aluR[d], b) + A!Low(res, b) = y
    BY <2>3, <2>4, <2>6, <2>8, Zenon
  <2> QED BY <2>1, <2>2, <2>7, <2>9, Zenon DEF A!Word
<1>5. A!Signed(A!Low(res, b), A!Bits(b)) % A!Power[W] \in A!Word
  <2>1. A!Bits(b) \in 1 .. 2 * W
    BY <1>2, Widths
  <2>2. A!Low(res, b) \in 0 .. A!Power[A!Bits(b)] - 1
    BY <1>3 DEF A!WordCount
  <2>3. A!Signed(A!Low(res, b), A!Bits(b)) \in Int
    BY <2>1, <2>2, SignedType
  <2>4. \A v \in Int, n \in Nat \ {0} : v % n \in 0 .. n - 1
    OBVIOUS
  <2> QED BY <1>2, <2>3, <2>4, Zenon DEF A!Word
<1> HIDE DEF A!Word
<1> QED BY <1>1, <1>4, <1>5 DEF A!StoreReg

\* A double word splits into two words.
LEMMA SplitType ==
  ASSUME A!TypeOK, NEW reg \in A!Regs, NEW y \in 0 .. A!Power[2 * W] - 1
  PROVE  A!Split(reg, y) \in [A!Regs -> A!Word]
<1>1. W \in Nat \ {0}
  BY AluWords DEF A!WordAssumption
<1>2. PICK n \in Nat \ {0} : n = A!Power[W]
  BY <1>1, PowerSteps
<1>3. A!Power[2 * W] = n * n
  <2>1. A!Power[W + W] = A!Power[W] * A!Power[W] /\ W + W = 2 * W
    BY <1>1, PowerOfSum
  <2> QED BY <1>2, <2>1
<1>4. y \div n \in 0 .. n - 1 /\ y % n \in 0 .. n - 1
  <2>1. PICK k \in Int : k = y \div n
    BY <1>2, <1>3
  <2>2. y \in 0 .. n * n - 1
    BY <1>3
  <2>3. y % n \in 0 .. n - 1 /\ y % n = y - n * k /\ k \in Nat
    BY <2>1, <2>2
  <2>4. n * k < n * n
    BY <2>2, <2>3
  <2>5. k < n
    <3> SUFFICES ASSUME n <= k PROVE FALSE
      OBVIOUS
    <3>1. PICK e \in Nat : k = n + e
      <4>1. k - n \in Nat /\ k = n + (k - n)
        BY <2>3
      <4> QED BY <4>1
    <3>2. n * (n + e) = n * n + n * e /\ n * e \in Nat
      OBVIOUS
    <3> QED BY <2>4, <3>1, <3>2
  <2> QED BY <2>1, <2>3, <2>5
<1>5. y \div n \in A!Word /\ y % n \in A!Word
  BY <1>2, <1>4 DEF A!Word
<1> HIDE DEF A!Word
<1>6. aluR \in [A!Regs -> A!Word]
  BY DEF A!TypeOK
<1> QED BY <1>2, <1>5, <1>6 DEF A!Split
-----------------------------------------------------------------------------
(* Types of the extended instructions.                                      *)

\* A shift leaves a number and two flags.
LEMMA ShiftType ==
  ASSUME NEW src \in Int, NEW code \in 0 .. 4 * W - 1, NEW bits \in {W, 2 * W}
  PROVE  /\ A!Shift(src, code, bits).x \in Int
         /\ A!Shift(src, code, bits).v \in BOOLEAN
         /\ A!Shift(src, code, bits).c \in BOOLEAN
<1> DEFINE s == A!Shift(src, code, bits)
           left == A!Lost(src, code, bits)
           res == (src * A!Power[code]) % A!Power[bits]
           right == 4 * W - code
<1>1. W \in Nat \ {0} /\ code \in Int /\ bits \in Nat \ {0}
  BY AluWords DEF A!WordAssumption
<1>2. CASE code = 0
  <2>1. s = [x |-> src, v |-> FALSE, c |-> FALSE]
    BY <1>1, <1>2 DEF A!Shift
  <2> QED BY <2>1
<1>3. CASE code \in 1 .. bits - 1
  <2>1. code \in 0 .. 2 * W /\ bits \in 0 .. 2 * W
    BY <1>1, <1>3
  <2>2. A!Power[code] \in Nat \ {0} /\ A!Power[bits] \in Nat \ {0}
    BY <2>1, PowerSteps
  <2>3. res \in Int
    <3>1. \A p, q \in Nat \ {0} : (src * p) % q \in Int
      OBVIOUS
    <3> QED BY <2>2, <3>1, Zenon
  <2> DEFINE v == left # (IF res >= A!Power[bits - 1] THEN -1 ELSE 0)
             c == left % 2 = 1
  <2>4. s = [x |-> res, v |-> v, c |-> c]
    BY <1>1, <1>3 DEF A!Shift
  <2>5. v \in BOOLEAN /\ c \in BOOLEAN
    OBVIOUS
  <2> HIDE DEF res, v, c
  <2> QED BY <2>3, <2>4, <2>5
<1>4. CASE code \in bits .. 2 * W - 1
  <2> DEFINE v == src # 0
             c == (src * A!Power[code - bits]) % 2 = 1
  <2>1. s = [x |-> 0, v |-> v, c |-> c]
    BY <1>1, <1>4 DEF A!Shift
  <2>2. v \in BOOLEAN /\ c \in BOOLEAN
    OBVIOUS
  <2> HIDE DEF v, c
  <2> QED BY <2>1, <2>2
<1>5. CASE code = 2 * W
  <2> DEFINE c == src < 0
  <2>1. s = [x |-> IF src < 0 THEN -1 ELSE 0, v |-> FALSE, c |-> c]
    BY <1>1, <1>5 DEF A!Shift
  <2>2. c \in BOOLEAN
    OBVIOUS
  <2> HIDE DEF c
  <2> QED BY <2>1, <2>2
<1>6. CASE code > 2 * W
  <2>1. right \in 0 .. 2 * W
    BY <1>1, <1>6
  <2>2. A!Power[right] \in Nat \ {0}
    BY <2>1, PowerSteps
  <2> DEFINE c == (src \div A!Power[right - 1]) % 2 = 1
             q == src \div A!Power[right]
  <2>3. s = [x |-> q, v |-> FALSE, c |-> c]
    BY <1>1, <1>6 DEF A!Shift
  <2>4. c \in BOOLEAN
    OBVIOUS
  <2>5. q \in Int
    <3>1. \A p \in Nat \ {0} : src \div p \in Int
      OBVIOUS
    <3> QED BY <2>2, <3>1, Zenon
  <2> HIDE DEF c, q
  <2> QED BY <2>3, <2>4, <2>5
<1>7. code = 0 \/ code \in 1 .. bits - 1 \/ code \in bits .. 2 * W - 1
      \/ code = 2 * W \/ code > 2 * W
  BY <1>1
<1> QED BY <1>2, <1>3, <1>4, <1>5, <1>6, <1>7

\* The registers as one double word.
LEMMA JoinedType ==
  ASSUME A!TypeOK, NEW reg \in A!Regs
  PROVE  A!Joined(reg) \in 0 .. A!Power[2 * W] - 1
<1>1. W \in Nat \ {0}
  BY AluWords DEF A!WordAssumption
<1>2. PICK n \in Nat \ {0} : n = A!Power[W]
  BY <1>1, PowerSteps
<1>3. A!Power[2 * W] = n * n
  <2>1. A!Power[W + W] = A!Power[W] * A!Power[W] /\ W + W = 2 * W
    BY <1>1, PowerOfSum
  <2> QED BY <1>2, <2>1
<1>4. PICK x \in 0 .. n - 1, y \in 0 .. n - 1 : x = aluR[reg] /\ y = aluR[1]
  BY <1>2 DEF A!TypeOK, A!Word, A!Regs
<1>5. x * n + y \in 0 .. n * n - 1
  <2>1. PICK e \in Nat : n = x + 1 + e
    <3>1. n - x - 1 \in Nat /\ n = x + 1 + (n - x - 1)
      OBVIOUS
    <3> QED BY <3>1
  <2>2. (x + 1 + e) * n = x * n + n + e * n /\ e * n \in Nat /\ x * n \in Nat
    OBVIOUS
  <2>3. n * n = x * n + n + e * n
    BY <2>1, <2>2
  <2> QED BY <2>2, <2>3
<1> QED BY <1>2, <1>3, <1>4, <1>5 DEF A!Joined

\* The extended instructions leave words in the registers.
LEMMA ExtendedType ==
  ASSUME A!TypeOK, NEW op \in A!ExtendedOps, NEW reg \in A!Regs, NEW x \in A!Word
  PROVE  /\ A!Extended(op, reg, x).r \in [A!Regs -> A!Word]
         /\ A!Extended(op, reg, x).cc \in A!Codes
<1>1. W \in Nat \ {0}
  BY AluWords DEF A!WordAssumption
<1>2. /\ A!Power[W] \in Nat \ {0} /\ A!Power[2 * W] \in Nat \ {0}
      /\ A!Power[2 * W - 1] \in Nat \ {0}
  <2>1. W \in 0 .. 2 * W /\ 2 * W \in 0 .. 2 * W /\ 2 * W - 1 \in 0 .. 2 * W
    BY <1>1
  <2> QED BY <2>1, PowerSteps
<1>3. aluR \in [A!Regs -> A!Word] /\ aluR[reg] \in A!Word
  BY DEF A!TypeOK
<1>4. /\ A!Signed(aluR[reg], W) \in Int /\ A!Signed(x, W) \in Int
      /\ A!Signed(A!Joined(reg), 2 * W) \in Int
      /\ x # 0 => A!Signed(x, W) # 0
  <2>1. W \in 1 .. 2 * W /\ 2 * W \in 1 .. 2 * W
    BY <1>1
  <2> QED BY <1>3, <2>1, SignedType, JoinedType DEF A!Word
<1>5. \A v \in Int, n \in Nat \ {0} : v % n \in 0 .. n - 1
  OBVIOUS
<1>6. CASE op = "MUL"
  <2> DEFINE product == A!Signed(aluR[reg], W) * A!Signed(x, W)
             n == product < 0
             z == product = 0
             c == product \notin -(A!Power[W - 1]) .. A!Power[W - 1] - 1
  <2>1. A!Extended(op, reg, x) = [r |-> A!Split(reg, product % A!Power[2 * W]),
          cc |-> [n |-> n, z |-> z, v |-> FALSE, c |-> c]]
    BY <1>6 DEF A!Extended, A!Mul
  <2>2. n \in BOOLEAN /\ z \in BOOLEAN /\ c \in BOOLEAN
    OBVIOUS
  <2>3. product \in Int
    BY <1>4
  <2> HIDE DEF product, n, z, c
  <2>4. product % A!Power[2 * W] \in 0 .. A!Power[2 * W] - 1
    BY <1>2, <1>5, <2>3, Zenon
  <2>5. A!Split(reg, product % A!Power[2 * W]) \in [A!Regs -> A!Word]
    BY <2>4, SplitType
  <2> QED BY <2>1, <2>2, <2>5 DEF A!Codes
<1>7. CASE op = "DIV"
  <2> DEFINE dividend == A!Signed(A!Joined(reg), 2 * W)
             divisor == A!Signed(x, W)
             q == A!Quotient(dividend, divisor)
             less == q < 0
             zero == q = 0
             quotient == q % A!Power[W]
             rest == (dividend - divisor * q) % A!Power[W]
             refused(n, z, c) ==
               [r |-> aluR, cc |-> [n |-> n, z |-> z, v |-> TRUE, c |-> c]]
  <2>1. A!Extended(op, reg, x) = A!Div(reg, x)
    BY <1>7 DEF A!Extended
  <2>2. less \in BOOLEAN /\ zero \in BOOLEAN
    OBVIOUS
  <2>3. CASE x = 0
    <3>1. A!Div(reg, x) = refused(FALSE, TRUE, TRUE)
      BY <2>3 DEF A!Div
    <3> QED BY <1>3, <2>1, <3>1 DEF A!Codes
  <2>4. CASE x # 0 /\ ~A!Fits(q)
    <3>1. A!Div(reg, x) = refused(less, FALSE, FALSE)
      BY <2>4 DEF A!Div
    <3> HIDE DEF less
    <3> QED BY <1>3, <2>1, <2>2, <3>1 DEF A!Codes
  <2>5. CASE x # 0 /\ A!Fits(q)
    <3>1. A!Div(reg, x) =
            [r |-> [aluR EXCEPT ![reg] = quotient, ![1] = rest],
             cc |-> [n |-> less, z |-> zero, v |-> FALSE, c |-> FALSE]]
      BY <2>5 DEF A!Div
    <3>2. q \in Int
      BY <2>5, <1>2 DEF A!Fits
    <3> HIDE DEF q
    <3>3. dividend - divisor * q \in Int
      <4>1. \A a, d, e \in Int : a - d * e \in Int
        OBVIOUS
      <4> QED BY <1>4, <3>2, <4>1, Zenon
    <3>4. quotient \in A!Word /\ rest \in A!Word
      BY <1>2, <1>5, <3>2, <3>3, Zenon DEF A!Word
    <3> HIDE DEF quotient, rest, less, zero, A!Word
    <3>5. [aluR EXCEPT ![reg] = quotient, ![1] = rest] \in [A!Regs -> A!Word]
      BY <1>3, <3>4 DEF A!Regs
    <3> QED BY <2>1, <2>2, <3>1, <3>5 DEF A!Codes
  <2> QED BY <2>3, <2>4, <2>5
<1>8. CASE op = "ASH"
  <2> DEFINE s == A!Shift(A!Signed(aluR[reg], W), x % (4 * W), W)
             res == s.x % A!Power[W]
             o == A!Outcome(res, FALSE, s.v, s.c)
  <2>1. x % (4 * W) \in 0 .. 4 * W - 1
    BY <1>1, <1>2 DEF A!Word
  <2>2. s.x \in Int /\ s.v \in BOOLEAN /\ s.c \in BOOLEAN
    BY <1>4, <2>1, ShiftType
  <2> HIDE DEF s
  <2>3. res \in A!Word /\ res \in Int
    <3>1. res \in A!Word
      BY <1>2, <1>5, <2>2, Zenon DEF A!Word
    <3>2. \A w \in A!Word : w \in Int
      BY <1>2 DEF A!Word
    <3> QED BY <3>1, <3>2, Zenon
  <2>4. FALSE \in BOOLEAN
    OBVIOUS
  <2>5. o \in Left
    BY <2>2, <2>3, <2>4, OutcomeType
  <2>6. o.res = res
    BY DEF A!Outcome
  <2>7. A!Extended(op, reg, x) = [r |-> [aluR EXCEPT ![reg] = o.res], cc |-> o.cc]
    BY <1>8 DEF A!Extended, A!Ash, s
  <2> HIDE DEF res, o, A!Word
  <2> QED BY <1>3, <2>3, <2>5, <2>6, <2>7 DEF Left
<1>9. CASE op = "ASHC"
  <2> DEFINE s == A!Shift(A!Signed(A!Joined(reg), 2 * W), x % (4 * W), 2 * W)
             both == s.x % A!Power[2 * W]
             n == both >= A!Power[2 * W - 1]
             z == both = 0
  <2>1. x % (4 * W) \in 0 .. 4 * W - 1
    BY <1>1, <1>2 DEF A!Word
  <2>2. s.x \in Int /\ s.v \in BOOLEAN /\ s.c \in BOOLEAN
    BY <1>4, <2>1, ShiftType
  <2>3. A!Extended(op, reg, x) = [r |-> A!Split(reg, both),
          cc |-> [n |-> n, z |-> z, v |-> s.v, c |-> s.c]]
    BY <1>9 DEF A!Extended, A!Ashc
  <2>4. n \in BOOLEAN /\ z \in BOOLEAN
    OBVIOUS
  <2> HIDE DEF s
  <2>5. both \in 0 .. A!Power[2 * W] - 1
    BY <1>2, <1>5, <2>2, Zenon
  <2> HIDE DEF both, n, z
  <2>6. A!Split(reg, both) \in [A!Regs -> A!Word]
    BY <2>5, SplitType
  <2> QED BY <2>2, <2>3, <2>4, <2>6 DEF A!Codes
<1> QED BY <1>6, <1>7, <1>8, <1>9 DEF A!ExtendedOps
\* Every instruction of the ALU keeps its types.
LEMMA AluStepTyped == A!TypeOK /\ A!Next => A!TypeOK'
<1> SUFFICES ASSUME A!TypeOK, A!Next PROVE A!TypeOK'
  OBVIOUS
<1>1. /\ aluR \in [A!Regs -> A!Word] /\ aluCc \in A!Codes
      /\ \A w \in A!Word : w \in Int
      /\ A!Power[W] \in Nat \ {0}
  <2>1. W \in 0 .. 2 * W
    BY AluWords DEF A!WordAssumption
  <2>2. A!Power[W] \in Nat \ {0}
    BY <2>1, PowerSteps
  <2> QED BY <2>2 DEF A!TypeOK, A!Word
<1>2. \A b \in BOOLEAN, x \in Int : A!Low(x, b) \in Int
  BY LowType, Widths
<1> HIDE DEF A!Word, A!Codes
<1>3. ASSUME NEW op \in A!DoubleOps, NEW s \in A!Word, NEW d \in A!Regs, NEW b \in BOOLEAN,
             A!DoDouble(op, s, d, b)
      PROVE  A!TypeOK'
  <2> DEFINE o == A!Double(op, A!Low(s, b), A!Low(aluR[d], b), b, aluCc)
  <2>1. aluR' = A!StoreReg(d, op, b, o.res) /\ aluCc' = o.cc
    BY <1>3 DEF A!DoDouble
  <2>2. A!Low(s, b) \in Int /\ A!Low(aluR[d], b) \in Int
    BY <1>1, <1>2
  <2>3. o \in Left
    BY <1>1, <2>2, DoubleType
  <2> HIDE DEF o
  <2>4. o.res \in Int /\ o.cc \in A!Codes
    BY <2>3 DEF Left
  <2> QED BY <2>1, <2>4, StoreType DEF A!TypeOK
<1>4. ASSUME NEW op \in A!SingleOps, NEW d \in A!Regs, NEW b \in BOOLEAN,
             A!DoSingle(op, d, b)
      PROVE  A!TypeOK'
  <2> DEFINE o == A!Single(op, aluR[d], b, aluCc)
  <2>1. aluR' = A!StoreReg(d, op, b, o.res) /\ aluCc' = o.cc
    BY <1>4 DEF A!DoSingle
  <2>2. o \in Left
    BY <1>1, SingleType
  <2> HIDE DEF o
  <2>3. o.res \in Int /\ o.cc \in A!Codes
    BY <2>2 DEF Left
  <2> QED BY <2>1, <2>3, StoreType DEF A!TypeOK
<1>5. ASSUME NEW op \in A!ExtendedOps, NEW reg \in A!Regs, NEW x \in A!Word,
             A!DoExtended(op, reg, x)
      PROVE  A!TypeOK'
  BY <1>5, ExtendedType DEF A!DoExtended, A!TypeOK
<1>6. ASSUME NEW reg \in A!Regs, NEW d \in A!Regs, A!DoXor(reg, d)
      PROVE  A!TypeOK'
  <2> DEFINE res == A!Combined(A!Xor, aluR[d], aluR[reg])
             o == A!Outcome(res, FALSE, FALSE, aluCc.c)
  <2>1. aluR' = [aluR EXCEPT ![d] = o.res] /\ aluCc' = o.cc
    BY <1>6 DEF A!DoXor
  <2>2. res \in Int /\ aluCc.c \in BOOLEAN /\ FALSE \in BOOLEAN
    BY <1>1, CombinedType DEF A!Codes
  <2>3. o \in Left
    BY <2>2, OutcomeType
  <2>4. o.res = res
    BY DEF A!Outcome
  <2>5. res \in A!Word
    BY <1>1, CombinedType
  <2> HIDE DEF o, res
  <2>6. aluCc' \in A!Codes
    BY <2>1, <2>3 DEF Left
  <2> QED BY <1>1, <2>1, <2>4, <2>5, <2>6 DEF A!TypeOK
<1>7. ASSUME NEW reg \in A!Regs, A!DoSob(reg)
      PROVE  A!TypeOK'
  <2>1. (aluR[reg] - 1) % A!Power[W] \in A!Word
    <3>1. \A n \in Nat \ {0}, x \in Int : (x - 1) % n \in 0 .. n - 1
      OBVIOUS
    <3> QED BY <1>1, <3>1, Zenon DEF A!Word
  <2> QED BY <1>1, <1>7, <2>1 DEF A!DoSob, A!TypeOK
<1>8. ASSUME NEW named \in SUBSET DOMAIN aluCc, NEW on \in BOOLEAN, A!DoCodes(named, on)
      PROVE  A!TypeOK'
  <2>1. aluCc' = [f \in DOMAIN aluCc |-> IF f \in named THEN on ELSE aluCc[f]] /\ aluR' = aluR
    BY <1>8 DEF A!DoCodes
  <2>2. aluCc' \in A!Codes
    BY <1>1, <2>1 DEF A!Codes
  <2> QED BY <1>1, <2>1, <2>2 DEF A!TypeOK
<1> QED BY <1>3, <1>4, <1>5, <1>6, <1>7, <1>8 DEF A!Next
-----------------------------------------------------------------------------
(* Sums and differences.                                                    *)

\* A remainder of a number that is at most once too large or too small.
LEMMA ModNear ==
  ASSUME NEW n \in Nat \ {0}, NEW x \in Int
  PROVE  /\ x \in 0 .. n - 1 => x % n = x
         /\ x \in n .. 2 * n - 1 => x % n = x - n
         /\ x \in -n .. -1 => x % n = x + n
<1>1. PICK k \in Int, m \in 0 .. n - 1 : k = x \div n /\ m = x % n /\ m = x - n * k
  <2>1. x \div n \in Int /\ x % n \in 0 .. n - 1 /\ x % n = x - n * (x \div n)
    OBVIOUS
  <2> QED BY <2>1
<1>2. k >= 2 => n * k >= 2 * n
  OBVIOUS
<1>3. k <= -2 => n * k <= -2 * n
  OBVIOUS
<1>4. n * 0 = 0 /\ n * 1 = n /\ n * (-1) = -n
  OBVIOUS
<1>5. x \in 0 .. n - 1 => k = 0
  <2> SUFFICES ASSUME x \in 0 .. n - 1, k # 0 PROVE FALSE
    OBVIOUS
  <2>1. k >= 2 \/ k = 1 \/ k = -1 \/ k <= -2
    OBVIOUS
  <2> QED BY <1>1, <1>2, <1>3, <1>4, <2>1
<1>6. x \in n .. 2 * n - 1 => k = 1
  <2> SUFFICES ASSUME x \in n .. 2 * n - 1, k # 1 PROVE FALSE
    OBVIOUS
  <2>1. k >= 2 \/ k = 0 \/ k = -1 \/ k <= -2
    OBVIOUS
  <2> QED BY <1>1, <1>2, <1>3, <1>4, <2>1
<1>7. x \in -n .. -1 => k = -1
  <2> SUFFICES ASSUME x \in -n .. -1, k # -1 PROVE FALSE
    OBVIOUS
  <2>1. k >= 2 \/ k = 0 \/ k = 1 \/ k <= -2
    OBVIOUS
  <2> QED BY <1>1, <1>2, <1>3, <1>4, <2>1
<1> QED BY <1>1, <1>4, <1>5, <1>6, <1>7

\* The half of a width's numbers that have the sign bit, and what the other
\* definitions make of it.
LEMMA Halves ==
  ASSUME NEW b \in BOOLEAN
  PROVE  \E h \in Nat \ {0} :
           /\ A!WordCount(b) = 2 * h /\ A!Power[A!Bits(b) - 1] = h
           /\ \A x \in Int :
                /\ A!Low(x, b) \in 0 .. 2 * h - 1
                /\ A!Msb(x, b) <=> A!Low(x, b) >= h
                /\ x \in 0 .. 2 * h - 1 => A!Low(x, b) = x
                /\ x \in 2 * h .. 4 * h - 1 => A!Low(x, b) = x - 2 * h
                /\ x \in -(2 * h) .. -1 => A!Low(x, b) = x + 2 * h
           /\ \A x \in 0 .. 2 * h - 1 :
                A!Signed(x, A!Bits(b)) = IF x >= h THEN x - 2 * h ELSE x
<1>1. PICK h \in Nat \ {0} : A!WordCount(b) = 2 * h /\ A!Power[A!Bits(b) - 1] = h
  BY Widths
<1>2. A!Power[A!Bits(b)] = 2 * h
  BY <1>1 DEF A!WordCount
<1>3. ASSUME NEW x \in Int
      PROVE  /\ A!Low(x, b) \in 0 .. 2 * h - 1
             /\ A!Msb(x, b) <=> A!Low(x, b) >= h
             /\ x \in 0 .. 2 * h - 1 => A!Low(x, b) = x
             /\ x \in 2 * h .. 4 * h - 1 => A!Low(x, b) = x - 2 * h
             /\ x \in -(2 * h) .. -1 => A!Low(x, b) = x + 2 * h
  <2>1. PICK n \in Nat \ {0} : n = 2 * h
    OBVIOUS
  <2>2. A!Low(x, b) = x % n
    BY <1>1, <2>1 DEF A!Low
  <2>3. x % n \in 0 .. n - 1
    OBVIOUS
  <2>4. /\ x \in 0 .. n - 1 => x % n = x
        /\ x \in n .. 2 * n - 1 => x % n = x - n
        /\ x \in -n .. -1 => x % n = x + n
    BY ModNear
  <2>5. A!Msb(x, b) <=> A!Low(x, b) >= h
    BY <1>1 DEF A!Msb
  <2> QED BY <2>1, <2>2, <2>3, <2>4, <2>5
<1>4. ASSUME NEW x \in 0 .. 2 * h - 1
      PROVE  A!Signed(x, A!Bits(b)) = IF x >= h THEN x - 2 * h ELSE x
  BY <1>1, <1>2 DEF A!Signed
<1> QED BY <1>1, <1>3, <1>4

\* A word is a number.
LEMMA WordsAreNumbers == A!Word \subseteq Nat
<1>1. W \in 0 .. 2 * W
  BY AluWords DEF A!WordAssumption
<1>2. A!Power[W] \in Nat
  BY <1>1, PowerSteps
<1> QED BY <1>2 DEF A!Word

\* What an outcome says of its result and of V and C.
LEMMA OutcomeSays ==
  ASSUME NEW res, NEW b, NEW v \in BOOLEAN, NEW c \in BOOLEAN
  PROVE  /\ A!Outcome(res, b, v, c).res = res
         /\ A!Outcome(res, b, v, c).cc.v <=> v
         /\ A!Outcome(res, b, v, c).cc.c <=> c
BY DEF A!Outcome

\* The carry, or with sign -1 the borrow, makes up for what the result leaves out.
Carried(o, b, x, sign) ==
  /\ o.res \in 0 .. A!WordCount(b) - 1
  /\ IF o.cc.c THEN o.res = x - sign * A!WordCount(b) ELSE o.res = x

\* What alu_add leaves is exact.
LEMMA AddExact ==
  ASSUME NEW b \in BOOLEAN, NEW x \in Int, NEW y \in Int
  PROVE  /\ A!Exact(A!AluAdd(x, y, b), b,
                    A!Signed(A!Low(x, b), A!Bits(b)) + A!Signed(A!Low(y, b), A!Bits(b)),
                    A!Low(x, b) + A!Low(y, b))
         /\ Carried(A!AluAdd(x, y, b), b, A!Low(x, b) + A!Low(y, b), 1)
<1>1. PICK h \in Nat \ {0} :
           /\ A!WordCount(b) = 2 * h /\ A!Power[A!Bits(b) - 1] = h
           /\ \A i \in Int :
                /\ A!Low(i, b) \in 0 .. 2 * h - 1
                /\ A!Msb(i, b) <=> A!Low(i, b) >= h
                /\ i \in 0 .. 2 * h - 1 => A!Low(i, b) = i
                /\ i \in 2 * h .. 4 * h - 1 => A!Low(i, b) = i - 2 * h
                /\ i \in -(2 * h) .. -1 => A!Low(i, b) = i + 2 * h
           /\ \A i \in 0 .. 2 * h - 1 :
                A!Signed(i, A!Bits(b)) = IF i >= h THEN i - 2 * h ELSE i
  BY Halves
<1>2. PICK lx \in 0 .. 2 * h - 1, ly \in 0 .. 2 * h - 1 : lx = A!Low(x, b) /\ ly = A!Low(y, b)
  BY <1>1
<1>3. PICK sx \in -h .. h - 1, sy \in -h .. h - 1 :
           /\ sx = A!Signed(lx, A!Bits(b)) /\ sy = A!Signed(ly, A!Bits(b))
           /\ sx = (IF lx >= h THEN lx - 2 * h ELSE lx)
           /\ sy = (IF ly >= h THEN ly - 2 * h ELSE ly)
  BY <1>1
<1>4. PICK sum \in 0 .. 4 * h - 2 : sum = lx + ly
  OBVIOUS
<1>5. PICK ls \in 0 .. 2 * h - 1 :
           ls = A!Low(sum, b) /\ ls = (IF sum >= 2 * h THEN sum - 2 * h ELSE sum)
  BY <1>1
<1>6. PICK mx \in BOOLEAN, my \in BOOLEAN, ms \in BOOLEAN :
           /\ mx = A!Msb(x, b) /\ my = A!Msb(y, b) /\ ms = A!Msb(sum, b)
           /\ (mx <=> lx >= h) /\ (my <=> ly >= h) /\ (ms <=> ls >= h)
  <2>1. /\ (A!Msb(x, b) <=> lx >= h) /\ (A!Msb(y, b) <=> ly >= h)
        /\ (A!Msb(sum, b) <=> ls >= h)
    BY <1>1, <1>2, <1>5
  <2>2. A!Msb(x, b) \in BOOLEAN /\ A!Msb(y, b) \in BOOLEAN /\ A!Msb(sum, b) \in BOOLEAN
    BY DEF A!Msb
  <2> QED BY <2>1, <2>2, Zenon
<1> DEFINE o == A!AluAdd(x, y, b)
<1>7. o.res = ls /\ (o.cc.v <=> (mx = my /\ mx # ms)) /\ (o.cc.c <=> sum >= 2 * h)
  <2> DEFINE total == A!Low(x, b) + A!Low(y, b)
             v == A!Msb(x, b) = A!Msb(y, b) /\ A!Msb(x, b) # A!Msb(total, b)
             c == total >= A!WordCount(b)
  <2>1. o = A!Outcome(A!Low(total, b), b, v, c)
    BY DEF A!AluAdd
  <2>2. v \in BOOLEAN /\ c \in BOOLEAN
    OBVIOUS
  <2>3. total = sum
    BY <1>2, <1>4
  <2>4. (v <=> (mx = my /\ mx # ms)) /\ (c <=> sum >= 2 * h)
    <3> HIDE DEF total
    <3>1. A!Msb(total, b) = ms
      BY <1>6, <2>3
    <3> QED BY <1>1, <1>6, <2>3, <3>1
  <2> HIDE DEF o, total, v, c
  <2>5. o.res = A!Low(total, b) /\ (o.cc.v <=> v) /\ (o.cc.c <=> c)
    BY <2>1, <2>2, OutcomeSays
  <2> QED BY <1>5, <2>3, <2>4, <2>5
<1> HIDE DEF o
<1>8. ls = (sx + sy) % A!WordCount(b)
  <2>1. A!Low(sx + sy, b) = ls
    BY <1>1, <1>3, <1>4, <1>5
  <2> QED BY <2>1 DEF A!Low
<1>9. o.cc.v <=> sx + sy \notin -h .. h - 1
  BY <1>3, <1>4, <1>5, <1>6, <1>7
<1>10. o.cc.c <=> lx + ly \notin 0 .. 2 * h - 1
  BY <1>4, <1>7
<1>11. Carried(o, b, lx + ly, 1)
  BY <1>1, <1>4, <1>5, <1>7 DEF Carried
<1> QED BY <1>1, <1>2, <1>3, <1>7, <1>8, <1>9, <1>10, <1>11 DEF A!Exact, o

\* What alu_sub leaves is.
LEMMA SubExact ==
  ASSUME NEW b \in BOOLEAN, NEW x \in Int, NEW y \in Int
  PROVE  /\ A!Exact(A!AluSub(x, y, b), b,
                    A!Signed(A!Low(x, b), A!Bits(b)) - A!Signed(A!Low(y, b), A!Bits(b)),
                    A!Low(x, b) - A!Low(y, b))
         /\ Carried(A!AluSub(x, y, b), b, A!Low(x, b) - A!Low(y, b), -1)
<1>1. PICK h \in Nat \ {0} :
           /\ A!WordCount(b) = 2 * h /\ A!Power[A!Bits(b) - 1] = h
           /\ \A i \in Int :
                /\ A!Low(i, b) \in 0 .. 2 * h - 1
                /\ A!Msb(i, b) <=> A!Low(i, b) >= h
                /\ i \in 0 .. 2 * h - 1 => A!Low(i, b) = i
                /\ i \in 2 * h .. 4 * h - 1 => A!Low(i, b) = i - 2 * h
                /\ i \in -(2 * h) .. -1 => A!Low(i, b) = i + 2 * h
           /\ \A i \in 0 .. 2 * h - 1 :
                A!Signed(i, A!Bits(b)) = IF i >= h THEN i - 2 * h ELSE i
  BY Halves
<1>2. PICK lx \in 0 .. 2 * h - 1, ly \in 0 .. 2 * h - 1 : lx = A!Low(x, b) /\ ly = A!Low(y, b)
  BY <1>1
<1>3. PICK sx \in -h .. h - 1, sy \in -h .. h - 1 :
           /\ sx = A!Signed(lx, A!Bits(b)) /\ sy = A!Signed(ly, A!Bits(b))
           /\ sx = (IF lx >= h THEN lx - 2 * h ELSE lx)
           /\ sy = (IF ly >= h THEN ly - 2 * h ELSE ly)
  BY <1>1
<1>4. PICK sum \in 0 .. 4 * h - 1 :
           sum = lx + (2 * h - 1 - ly) + 1 /\ sum = lx + A!Complement(y, b) + 1
  BY <1>1, <1>2 DEF A!Complement
<1>5. PICK ls \in 0 .. 2 * h - 1 :
           ls = A!Low(sum, b) /\ ls = (IF sum >= 2 * h THEN sum - 2 * h ELSE sum)
  BY <1>1
<1>6. PICK mx \in BOOLEAN, my \in BOOLEAN, ms \in BOOLEAN :
           /\ mx = A!Msb(x, b) /\ my = A!Msb(y, b) /\ ms = A!Msb(sum, b)
           /\ (mx <=> lx >= h) /\ (my <=> ly >= h) /\ (ms <=> ls >= h)
  <2>1. /\ (A!Msb(x, b) <=> lx >= h) /\ (A!Msb(y, b) <=> ly >= h)
        /\ (A!Msb(sum, b) <=> ls >= h)
    BY <1>1, <1>2, <1>5
  <2>2. A!Msb(x, b) \in BOOLEAN /\ A!Msb(y, b) \in BOOLEAN /\ A!Msb(sum, b) \in BOOLEAN
    BY DEF A!Msb
  <2> QED BY <2>1, <2>2, Zenon
<1> DEFINE o == A!AluSub(x, y, b)
<1>7. o.res = ls /\ (o.cc.v <=> (mx # my /\ mx # ms)) /\ (o.cc.c <=> sum < 2 * h)
  <2> DEFINE total == A!Low(x, b) + A!Complement(y, b) + 1
             v == A!Msb(x, b) # A!Msb(y, b) /\ A!Msb(x, b) # A!Msb(total, b)
             c == total < A!WordCount(b)
  <2>1. o = A!Outcome(A!Low(total, b), b, v, c)
    BY DEF A!AluSub
  <2>2. v \in BOOLEAN /\ c \in BOOLEAN
    OBVIOUS
  <2>3. total = sum
    BY <1>2, <1>4
  <2>4. (v <=> (mx # my /\ mx # ms)) /\ (c <=> sum < 2 * h)
    <3> HIDE DEF total
    <3>1. A!Msb(total, b) = ms
      BY <1>6, <2>3
    <3> QED BY <1>1, <1>6, <2>3, <3>1
  <2> HIDE DEF o, total, v, c
  <2>5. o.res = A!Low(total, b) /\ (o.cc.v <=> v) /\ (o.cc.c <=> c)
    BY <2>1, <2>2, OutcomeSays
  <2> QED BY <1>5, <2>3, <2>4, <2>5
<1> HIDE DEF o
<1>8. ls = (sx - sy) % A!WordCount(b)
  <2>1. A!Low(sx - sy, b) = ls
    BY <1>1, <1>3, <1>4, <1>5
  <2> QED BY <2>1 DEF A!Low
<1>9. o.cc.v <=> sx - sy \notin -h .. h - 1
  BY <1>3, <1>4, <1>5, <1>6, <1>7
<1>10. o.cc.c <=> lx - ly \notin 0 .. 2 * h - 1
  BY <1>4, <1>7
<1>11. Carried(o, b, lx - ly, -1)
  BY <1>1, <1>4, <1>5, <1>7 DEF Carried
<1> QED BY <1>1, <1>2, <1>3, <1>7, <1>8, <1>9, <1>10, <1>11 DEF A!Exact, o

\* After a comparison N and Z are those of the difference, and with V and C they
\* order the operands.
LEMMA Compared ==
  ASSUME NEW b \in BOOLEAN, NEW x \in Int, NEW y \in Int
  PROVE  LET f == A!AluSub(x, y, b).cc
             sx == A!Signed(A!Low(x, b), A!Bits(b))
             sy == A!Signed(A!Low(y, b), A!Bits(b))
         IN /\ f.z <=> sx = sy
            /\ f.z <=> A!Low(x, b) = A!Low(y, b)
            /\ f.n # f.v <=> sx < sy
            /\ f.c <=> A!Low(x, b) < A!Low(y, b)
<1>1. PICK h \in Nat \ {0} :
           /\ A!WordCount(b) = 2 * h /\ A!Power[A!Bits(b) - 1] = h
           /\ \A i \in Int :
                /\ A!Low(i, b) \in 0 .. 2 * h - 1
                /\ A!Msb(i, b) <=> A!Low(i, b) >= h
                /\ i \in 0 .. 2 * h - 1 => A!Low(i, b) = i
                /\ i \in 2 * h .. 4 * h - 1 => A!Low(i, b) = i - 2 * h
                /\ i \in -(2 * h) .. -1 => A!Low(i, b) = i + 2 * h
           /\ \A i \in 0 .. 2 * h - 1 :
                A!Signed(i, A!Bits(b)) = IF i >= h THEN i - 2 * h ELSE i
  BY Halves
<1> DEFINE f == A!AluSub(x, y, b).cc
           res == A!AluSub(x, y, b).res
<1>2. PICK lx \in 0 .. 2 * h - 1, ly \in 0 .. 2 * h - 1 : lx = A!Low(x, b) /\ ly = A!Low(y, b)
  BY <1>1
<1>3. PICK sx \in -h .. h - 1, sy \in -h .. h - 1 :
           /\ sx = A!Signed(lx, A!Bits(b)) /\ sy = A!Signed(ly, A!Bits(b))
           /\ sx = (IF lx >= h THEN lx - 2 * h ELSE lx)
           /\ sy = (IF ly >= h THEN ly - 2 * h ELSE ly)
  BY <1>1
<1>4. /\ f.v <=> sx - sy \notin -h .. h - 1
      /\ f.c <=> lx - ly \notin 0 .. 2 * h - 1
      /\ res \in 0 .. 2 * h - 1
      /\ IF f.c THEN res = lx - ly + 2 * h ELSE res = lx - ly
  <2>1. A!Exact(A!AluSub(x, y, b), b, sx - sy, lx - ly)
    BY <1>2, <1>3, SubExact
  <2>2. Carried(A!AluSub(x, y, b), b, lx - ly, -1)
    BY <1>2, SubExact
  <2> QED BY <1>1, <2>1, <2>2 DEF A!Exact, Carried
<1>5. f.n \in BOOLEAN /\ f.v \in BOOLEAN /\ (f.n <=> A!Msb(res, b)) /\ (f.z <=> A!Low(res, b) = 0)
  <2>1. A!AluSub(x, y, b) \in Left
    BY SumType
  <2>2. f.n \in BOOLEAN /\ f.v \in BOOLEAN
    <3> HIDE DEF f
    <3>1. f \in A!Codes
      BY <2>1 DEF Left, f
    <3> QED BY <3>1 DEF A!Codes
  <2>3. (f.n <=> A!Msb(res, b)) /\ (f.z <=> A!Low(res, b) = 0)
    BY DEF A!AluSub, A!Outcome, A!Msb
  <2> QED BY <2>2, <2>3
<1> HIDE DEF f, res
<1>6. A!Low(res, b) = res /\ (A!Msb(res, b) <=> res >= h)
  BY <1>1, <1>4
<1>7. (f.z <=> res = 0) /\ (f.n <=> res >= h)
  BY <1>5, <1>6
<1>8. (f.z <=> sx = sy) /\ (f.z <=> lx = ly) /\ (f.c <=> lx < ly)
  BY <1>3, <1>4, <1>7
<1>9. f.n # f.v <=> sx < sy
  <2>1. (f.n <=> ~f.v) <=> sx < sy
    BY <1>3, <1>4, <1>7
  <2> QED BY <1>5, <2>1
<1> QED BY <1>2, <1>3, <1>8, <1>9 DEF f

\* 1 is a positive number in a byte and in a word.
LEMMA OneIsPositive ==
  ASSUME NEW b \in BOOLEAN
  PROVE  A!Power[A!Bits(b) - 1] \in Nat /\ A!Power[A!Bits(b) - 1] >= 2
<1>1. W \in Nat /\ W \div 2 >= 2 /\ W \div 2 \in Nat /\ W \div 2 <= W /\ W >= 4
  <2>1. W \in Nat /\ W >= 4 /\ W % 2 = 0
    BY AluWords DEF A!WordAssumption
  <2>2. W % 2 = W - 2 * (W \div 2) /\ W \div 2 \in Nat
    BY <2>1
  <2> QED BY <2>1, <2>2
<1>2. PICK k \in Nat : A!Bits(b) - 1 = k + 1 /\ k + 1 <= W
  <2>1. A!Bits(b) \in 2 .. W
    BY <1>1 DEF A!Bits
  <2>2. A!Bits(b) - 2 \in Nat /\ A!Bits(b) - 1 = (A!Bits(b) - 2) + 1
    BY <1>1, <2>1
  <2> QED BY <1>1, <2>1, <2>2
<1>3. A!Power[k + 1] = 2 * A!Power[k] /\ A!Power[k] \in Nat \ {0}
  BY <1>1, <1>2, PowerSteps
<1> QED BY <1>2, <1>3

\* What ADC leaves is the exact sum with the carry.
LEMMA AdcExact ==
  ASSUME NEW b \in BOOLEAN, NEW x \in Int, NEW old \in A!Codes
  PROVE  LET o == A!Single("ADC", x, b, old)
             d == A!Low(x, b)
             sd == A!Signed(d, A!Bits(b))
             carry == A!Bit(old.c)
         IN /\ A!Exact(o, b, sd + carry, d + carry)
            /\ Carried(o, b, d + carry, 1)
<1>1. PICK h \in Nat \ {0} :
           /\ A!WordCount(b) = 2 * h /\ A!Power[A!Bits(b) - 1] = h
           /\ \A i \in Int :
                /\ A!Low(i, b) \in 0 .. 2 * h - 1
                /\ A!Msb(i, b) <=> A!Low(i, b) >= h
                /\ i \in 0 .. 2 * h - 1 => A!Low(i, b) = i
                /\ i \in 2 * h .. 4 * h - 1 => A!Low(i, b) = i - 2 * h
                /\ i \in -(2 * h) .. -1 => A!Low(i, b) = i + 2 * h
           /\ \A i \in 0 .. 2 * h - 1 :
                A!Signed(i, A!Bits(b)) = IF i >= h THEN i - 2 * h ELSE i
  BY Halves
<1>2. PICK d \in 0 .. 2 * h - 1 : d = A!Low(x, b)
  BY <1>1
<1>3. PICK sd \in -h .. h - 1 :
           sd = A!Signed(d, A!Bits(b)) /\ sd = (IF d >= h THEN d - 2 * h ELSE d)
  BY <1>1
<1>4. PICK carry \in {0, 1} : carry = A!Bit(old.c) /\ (old.c <=> carry = 1)
  BY DEF A!Bit, A!Codes
<1>5. old.c \in BOOLEAN
  BY DEF A!Codes
<1>6. PICK low \in 0 .. 2 * h - 1 : low = A!Low(d + carry, b)
  BY <1>1
<1> DEFINE o == A!Single("ADC", x, b, old)
           v == old.c /\ d = A!Power[A!Bits(b) - 1] - 1
           c == old.c /\ d = A!WordCount(b) - 1
<1>7. o = A!Outcome(low, b, v, c)
  BY <1>1, <1>2, <1>4, <1>6, Zenon DEF A!Single
<1>8. v \in BOOLEAN /\ c \in BOOLEAN
  OBVIOUS
<1> HIDE DEF o
<1>9. o.res = low /\ (o.cc.v <=> v) /\ (o.cc.c <=> c)
  <2> HIDE DEF v, c
  <2> QED BY <1>7, <1>8, OutcomeSays
<1>10. low = (sd + carry) % A!WordCount(b)
  <2>1. A!Low(sd + carry, b) = low
    BY <1>1, <1>3, <1>4, <1>6
  <2> QED BY <2>1 DEF A!Low
<1>11. v <=> sd + carry \notin -h .. h - 1
  BY <1>1, <1>3, <1>4, <1>6
<1>12. c <=> d + carry \notin 0 .. 2 * h - 1
  BY <1>1, <1>3, <1>4
<1>13. Carried(o, b, d + carry, 1)
  <2>1. IF c THEN low = d + carry - 1 * (2 * h) ELSE low = d + carry
    BY <1>1, <1>6, <1>12, <1>4
  <2> HIDE DEF c
  <2> QED BY <1>1, <1>9, <2>1 DEF Carried
<1> HIDE DEF v, c
<1> QED BY <1>1, <1>2, <1>3, <1>4, <1>9, <1>10, <1>11, <1>12, <1>13 DEF A!Exact, o

\* What SBC leaves is the exact difference from the carry.
LEMMA SbcExact ==
  ASSUME NEW b \in BOOLEAN, NEW x \in Int, NEW old \in A!Codes
  PROVE  LET o == A!Single("SBC", x, b, old)
             d == A!Low(x, b)
             sd == A!Signed(d, A!Bits(b))
             carry == A!Bit(old.c)
         IN /\ A!Exact(o, b, sd - carry, d - carry)
            /\ Carried(o, b, d - carry, (-1))
<1>1. PICK h \in Nat \ {0} :
           /\ A!WordCount(b) = 2 * h /\ A!Power[A!Bits(b) - 1] = h
           /\ \A i \in Int :
                /\ A!Low(i, b) \in 0 .. 2 * h - 1
                /\ A!Msb(i, b) <=> A!Low(i, b) >= h
                /\ i \in 0 .. 2 * h - 1 => A!Low(i, b) = i
                /\ i \in 2 * h .. 4 * h - 1 => A!Low(i, b) = i - 2 * h
                /\ i \in -(2 * h) .. -1 => A!Low(i, b) = i + 2 * h
           /\ \A i \in 0 .. 2 * h - 1 :
                A!Signed(i, A!Bits(b)) = IF i >= h THEN i - 2 * h ELSE i
  BY Halves
<1>2. PICK d \in 0 .. 2 * h - 1 : d = A!Low(x, b)
  BY <1>1
<1>3. PICK sd \in -h .. h - 1 :
           sd = A!Signed(d, A!Bits(b)) /\ sd = (IF d >= h THEN d - 2 * h ELSE d)
  BY <1>1
<1>4. PICK carry \in {0, 1} : carry = A!Bit(old.c) /\ (old.c <=> carry = 1)
  BY DEF A!Bit, A!Codes
<1>5. old.c \in BOOLEAN
  BY DEF A!Codes
<1>6. PICK low \in 0 .. 2 * h - 1 : low = A!Low(d - carry, b)
  BY <1>1
<1> DEFINE o == A!Single("SBC", x, b, old)
           v == old.c /\ d = A!Power[A!Bits(b) - 1]
           c == old.c /\ d = 0
<1>7. o = A!Outcome(low, b, v, c)
  BY <1>1, <1>2, <1>4, <1>6, Zenon DEF A!Single
<1>8. v \in BOOLEAN /\ c \in BOOLEAN
  OBVIOUS
<1> HIDE DEF o
<1>9. o.res = low /\ (o.cc.v <=> v) /\ (o.cc.c <=> c)
  <2> HIDE DEF v, c
  <2> QED BY <1>7, <1>8, OutcomeSays
<1>10. low = (sd - carry) % A!WordCount(b)
  <2>1. A!Low(sd - carry, b) = low
    BY <1>1, <1>3, <1>4, <1>6
  <2> QED BY <2>1 DEF A!Low
<1>11. v <=> sd - carry \notin -h .. h - 1
  BY <1>1, <1>3, <1>4, <1>6
<1>12. c <=> d - carry \notin 0 .. 2 * h - 1
  BY <1>1, <1>3, <1>4
<1>13. Carried(o, b, d - carry, (-1))
  <2>1. IF c THEN low = d - carry - (-1) * (2 * h) ELSE low = d - carry
    BY <1>1, <1>6, <1>12, <1>4
  <2> HIDE DEF c
  <2> QED BY <1>1, <1>9, <2>1 DEF Carried
<1> HIDE DEF v, c
<1> QED BY <1>1, <1>2, <1>3, <1>4, <1>9, <1>10, <1>11, <1>12, <1>13 DEF A!Exact, o

\* What NEG leaves is the exact difference from zero.
LEMMA NegExact ==
  ASSUME NEW b \in BOOLEAN, NEW x \in Int, NEW old \in A!Codes
  PROVE  LET o == A!Single("NEG", x, b, old)
             d == A!Low(x, b)
             sd == A!Signed(d, A!Bits(b))
         IN /\ A!Exact(o, b, 0 - sd, 0 - d)
            /\ Carried(o, b, 0 - d, (-1))
<1>1. PICK h \in Nat \ {0} :
           /\ A!WordCount(b) = 2 * h /\ A!Power[A!Bits(b) - 1] = h
           /\ \A i \in Int :
                /\ A!Low(i, b) \in 0 .. 2 * h - 1
                /\ A!Msb(i, b) <=> A!Low(i, b) >= h
                /\ i \in 0 .. 2 * h - 1 => A!Low(i, b) = i
                /\ i \in 2 * h .. 4 * h - 1 => A!Low(i, b) = i - 2 * h
                /\ i \in -(2 * h) .. -1 => A!Low(i, b) = i + 2 * h
           /\ \A i \in 0 .. 2 * h - 1 :
                A!Signed(i, A!Bits(b)) = IF i >= h THEN i - 2 * h ELSE i
  BY Halves
<1>2. PICK d \in 0 .. 2 * h - 1 : d = A!Low(x, b)
  BY <1>1
<1>3. PICK sd \in -h .. h - 1 :
           sd = A!Signed(d, A!Bits(b)) /\ sd = (IF d >= h THEN d - 2 * h ELSE d)
  BY <1>1
<1>6. PICK low \in 0 .. 2 * h - 1 : low = A!Low(0 - d, b)
  BY <1>1
<1> DEFINE o == A!Single("NEG", x, b, old)
           v == A!Low(0 - d, b) = A!Power[A!Bits(b) - 1]
           c == d # 0
<1>7. o = A!Outcome(low, b, v, c)
  BY <1>1, <1>2, <1>6, Zenon DEF A!Single
<1>8. v \in BOOLEAN /\ c \in BOOLEAN
  OBVIOUS
<1> HIDE DEF o
<1>9. o.res = low /\ (o.cc.v <=> v) /\ (o.cc.c <=> c)
  <2> HIDE DEF v, c
  <2> QED BY <1>7, <1>8, OutcomeSays
<1>10. low = (0 - sd) % A!WordCount(b)
  <2>1. A!Low(0 - sd, b) = low
    BY <1>1, <1>3, <1>6
  <2> QED BY <2>1 DEF A!Low
<1>11. v <=> 0 - sd \notin -h .. h - 1
  BY <1>1, <1>3, <1>6
<1>12. c <=> 0 - d \notin 0 .. 2 * h - 1
  BY <1>1, <1>3
<1>13. Carried(o, b, 0 - d, (-1))
  <2>1. IF c THEN low = 0 - d - (-1) * (2 * h) ELSE low = 0 - d
    BY <1>1, <1>6, <1>12
  <2> HIDE DEF c
  <2> QED BY <1>1, <1>9, <2>1 DEF Carried
<1> HIDE DEF v, c
<1> QED BY <1>1, <1>2, <1>3, <1>9, <1>10, <1>11, <1>12, <1>13 DEF A!Exact, o

\* INC and DEC overflow when the addition and the subtraction of 1 do.
LEMMA StepOverflow ==
  ASSUME NEW b \in BOOLEAN, NEW x \in Int, NEW old \in A!Codes
  PROVE  /\ A!Single("INC", x, b, old).cc.v = A!AluAdd(x, 1, b).cc.v
         /\ A!Single("DEC", x, b, old).cc.v = A!AluSub(x, 1, b).cc.v
<1>1. PICK h \in Nat \ {0} :
           /\ A!WordCount(b) = 2 * h /\ A!Power[A!Bits(b) - 1] = h
           /\ \A i \in Int :
                /\ A!Low(i, b) \in 0 .. 2 * h - 1
                /\ i \in 0 .. 2 * h - 1 => A!Low(i, b) = i
           /\ \A i \in 0 .. 2 * h - 1 :
                A!Signed(i, A!Bits(b)) = IF i >= h THEN i - 2 * h ELSE i
  BY Halves
<1>2. PICK d \in 0 .. 2 * h - 1 : d = A!Low(x, b)
  BY <1>1
<1>3. PICK sd \in -h .. h - 1 :
           sd = A!Signed(d, A!Bits(b)) /\ sd = (IF d >= h THEN d - 2 * h ELSE d)
  BY <1>1
<1>4. A!Low(1, b) = 1 /\ A!Signed(1, A!Bits(b)) = 1 /\ h >= 2
  BY <1>1, OneIsPositive
<1> DEFINE inc == A!Single("INC", x, b, old)
           dec == A!Single("DEC", x, b, old)
           add == A!AluAdd(x, 1, b)
           sub == A!AluSub(x, 1, b)
           most == d = A!Power[A!Bits(b) - 1] - 1
           least == d = A!Power[A!Bits(b) - 1]
<1>5. old.c \in BOOLEAN /\ most \in BOOLEAN /\ least \in BOOLEAN
  BY DEF A!Codes
<1>6. /\ inc = A!Outcome(A!Low(d + 1, b), b, most, old.c)
      /\ dec = A!Outcome(A!Low(d - 1, b), b, least, old.c)
  BY <1>2, Zenon DEF A!Single
<1>7. /\ A!Exact(add, b, sd + 1, d + 1)
      /\ A!Exact(sub, b, sd - 1, d - 1)
  <2>1. /\ A!Exact(add, b, A!Signed(A!Low(x, b), A!Bits(b))
                             + A!Signed(A!Low(1, b), A!Bits(b)), A!Low(x, b) + A!Low(1, b))
        /\ A!Exact(sub, b, A!Signed(A!Low(x, b), A!Bits(b))
                             - A!Signed(A!Low(1, b), A!Bits(b)), A!Low(x, b) - A!Low(1, b))
    <3>1. 1 \in Int
      OBVIOUS
    <3> QED BY <3>1, AddExact, SubExact, Zenon
  <2> HIDE DEF add, sub
  <2> QED BY <1>2, <1>3, <1>4, <2>1, Zenon
<1>8. add \in Left /\ sub \in Left
  BY SumType
<1> HIDE DEF inc, dec, add, sub
<1>9. add.cc.v \in BOOLEAN /\ sub.cc.v \in BOOLEAN
  BY <1>8 DEF Left, A!Codes
<1>10. (add.cc.v <=> most) /\ (sub.cc.v <=> least)
  BY <1>1, <1>3, <1>4, <1>7 DEF A!Exact
<1>11. inc.cc.v = most /\ dec.cc.v = least
  <2> HIDE DEF most, least
  <2> QED BY <1>6 DEF A!Outcome
<1> HIDE DEF most, least
<1> QED BY <1>5, <1>9, <1>10, <1>11, Zenon DEF inc, dec, add, sub

\* Every operand that is a word agrees with the integers it stands for.
LEMMA ResultsExact == A!TypeOK => A!ExactResults
<1> SUFFICES ASSUME A!TypeOK, NEW b \in BOOLEAN
             PROVE  LET x == A!Number(0, b)       y == A!Number(1, b)
                        ux == A!Low(aluR[0], b)   uy == A!Low(aluR[1], b)
                        one(op) == A!Single(op, aluR[0], b, aluCc)
                        c == A!Bit(aluCc.c)
                    IN /\ A!Exact(A!AluAdd(aluR[0], aluR[1], b), b, x + y, ux + uy)
                       /\ A!Exact(A!AluSub(aluR[0], aluR[1], b), b, x - y, ux - uy)
                       /\ A!Exact(one("ADC"), b, x + c, ux + c)
                       /\ A!Exact(one("SBC"), b, x - c, ux - c)
                       /\ A!Exact(one("NEG"), b, 0 - x, 0 - ux)
                       /\ one("INC").cc.v = A!AluAdd(aluR[0], 1, b).cc.v
                       /\ one("DEC").cc.v = A!AluSub(aluR[0], 1, b).cc.v
  BY Zenon DEF A!ExactResults
<1>1. aluR[0] \in Int /\ aluR[1] \in Int /\ aluCc \in A!Codes
  <2>1. aluR[0] \in A!Word /\ aluR[1] \in A!Word /\ aluCc \in A!Codes
    <3> HIDE DEF A!Word, A!Codes
    <3> QED BY DEF A!TypeOK, A!Regs
  <2>2. \A w \in A!Word : w \in Int
    <3>1. Nat \subseteq Int
      OBVIOUS
    <3> QED BY <3>1, WordsAreNumbers, Zenon
  <2> QED BY <2>1, <2>2, Zenon
<1> QED
  BY <1>1, AddExact, SubExact, AdcExact, SbcExact, NegExact, StepOverflow, Zenon DEF A!Number

\* The branches after a comparison go by it.
LEMMA BranchesCompare == A!TypeOK => A!ComparesBranch
<1> SUFFICES ASSUME A!TypeOK, NEW b \in BOOLEAN
             PROVE  LET f == A!Double("CMP", aluR[0], aluR[1], b, aluCc).cc
                        x == A!Number(0, b)       y == A!Number(1, b)
                        ux == A!Low(aluR[0], b)   uy == A!Low(aluR[1], b)
                    IN /\ A!Taken("BEQ", f)  <=> x = y
                       /\ A!Taken("BLT", f)  <=> x < y
                       /\ A!Taken("BLE", f)  <=> x <= y
                       /\ A!Taken("BLO", f)  <=> ux < uy
                       /\ A!Taken("BLOS", f) <=> ux <= uy
  BY Zenon DEF A!ComparesBranch
<1> DEFINE f == A!Double("CMP", aluR[0], aluR[1], b, aluCc).cc
<1>1. aluR[0] \in Int /\ aluR[1] \in Int
  <2>1. aluR[0] \in A!Word /\ aluR[1] \in A!Word /\ aluCc \in A!Codes
    <3> HIDE DEF A!Word, A!Codes
    <3> QED BY DEF A!TypeOK, A!Regs
  <2>2. \A w \in A!Word : w \in Int
    <3>1. Nat \subseteq Int
      OBVIOUS
    <3> QED BY <3>1, WordsAreNumbers, Zenon
  <2> QED BY <2>1, <2>2, Zenon
<1>2. f = A!AluSub(aluR[0], aluR[1], b).cc
  BY DEF A!Double
<1> HIDE DEF f
<1>3. /\ f.z <=> A!Number(0, b) = A!Number(1, b)
      /\ f.z <=> A!Low(aluR[0], b) = A!Low(aluR[1], b)
      /\ f.n # f.v <=> A!Number(0, b) < A!Number(1, b)
      /\ f.c <=> A!Low(aluR[0], b) < A!Low(aluR[1], b)
  BY <1>1, <1>2, Compared, Zenon DEF A!Number
<1>4. /\ A!Low(aluR[0], b) \in Int /\ A!Low(aluR[1], b) \in Int
      /\ A!Number(0, b) \in Int /\ A!Number(1, b) \in Int
  <2>1. \A i \in Int : A!Low(i, b) \in 0 .. A!Power[A!Bits(b)] - 1
    BY LowType DEF A!WordCount
  <2>2. A!Bits(b) \in 1 .. 2 * W
    BY Widths, AluWords DEF A!WordAssumption
  <2>3. \A i \in 0 .. A!Power[A!Bits(b)] - 1 : A!Signed(i, A!Bits(b)) \in Int /\ i \in Int
    BY <2>2, SignedType
  <2> QED BY <1>1, <2>1, <2>3 DEF A!Number
<1>5. /\ A!Taken("BEQ", f) <=> f.z
      /\ A!Taken("BLT", f) <=> f.n # f.v
      /\ A!Taken("BLE", f) <=> f.z \/ (f.n # f.v)
      /\ A!Taken("BLO", f) <=> f.c
      /\ A!Taken("BLOS", f) <=> f.c \/ f.z
  BY DEF A!Taken
<1> QED BY <1>3, <1>4, <1>5 DEF f
-----------------------------------------------------------------------------
(* Arithmetic in two words.                                                 *)

\* Two digits, the low one with e times the base borrowed from the high one and
\* the high one brought back below the base, are the number modulo the square.
LEMMA TwoDigits ==
  ASSUME NEW n \in Nat \ {0}, NEW u \in Int, NEW v \in Int, NEW e \in Int, NEW k \in Int,
         NEW s \in 0 .. n - 1, NEW l \in 0 .. n - 1,
         s = u - e + k * n, l = v + e * n
  PROVE  s * n + l = (u * n + v) % (n * n)
<1>1. PICK m \in Nat \ {0} : m = n * n
  OBVIOUS
<1>2. s * n = u * n - e * n + (k * n) * n
  <2>1. PICK j \in Int : j = k * n
    OBVIOUS
  <2>2. (u - e + j) * n = u * n - e * n + j * n
    OBVIOUS
  <2> QED BY <2>1, <2>2
<1>3. (k * n) * n = k * m /\ k * m \in Int /\ u * n \in Int /\ e * n \in Int
  BY <1>1
<1>4. PICK y \in Int : y = s * n + l
  OBVIOUS
<1>5. u * n + v = y + m * (-k)
  <2>1. m * (-k) = -(k * m)
    OBVIOUS
  <2> QED BY <1>2, <1>3, <1>4, <2>1
<1>6. y \in 0 .. m - 1
  <2>1. PICK r0 \in Nat : n = s + r0 + 1
    <3>1. n - s - 1 \in Nat /\ n = s + (n - s - 1) + 1
      OBVIOUS
    <3> QED BY <3>1
  <2>2. (s + r0 + 1) * n = s * n + r0 * n + n /\ r0 * n \in Nat /\ s * n \in Nat
    OBVIOUS
  <2> QED BY <1>1, <1>4, <2>1, <2>2
<1>7. (y + m * (-k)) % m = y
  <2>1. (y + m * (-k)) % m = y % m /\ y % m = y
    BY <1>6
  <2> QED BY <2>1
<1> QED BY <1>1, <1>4, <1>5, <1>7

\* The number of words, and of pairs of words.
LEMMA WordPairs ==
  /\ A!Power[W] \in Nat \ {0}
  /\ A!Power[2 * W] = A!Power[W] * A!Power[W]
  /\ A!WordCount(FALSE) = A!Power[W]
  /\ \A x \in A!Word : A!Low(x, FALSE) = x
<1>1. W \in Nat /\ W \in 0 .. 2 * W /\ 2 * W = W + W
  BY AluWords DEF A!WordAssumption
<1>2. A!Power[W] \in Nat \ {0} /\ A!Power[W + W] = A!Power[W] * A!Power[W]
  BY <1>1, PowerSteps, PowerOfSum
<1>3. A!WordCount(FALSE) = A!Power[W]
  BY DEF A!WordCount, A!Bits
<1>4. ASSUME NEW x \in A!Word
      PROVE  A!Low(x, FALSE) = x
  <2>1. PICK n \in Nat \ {0} : n = A!Power[W]
    BY <1>2
  <2>2. x \in 0 .. n - 1
    BY <2>1 DEF A!Word
  <2>3. x % n = x
    BY <2>2, ModNear
  <2> QED BY <1>3, <2>1, <2>3 DEF A!Low
<1> QED BY <1>1, <1>2, <1>3, <1>4

\* A word result with its carry or borrow is a digit.
LEMMA CarriedDigit ==
  ASSUME NEW o \in Left, NEW x \in Int, NEW sign \in {-1, 1}, Carried(o, FALSE, x, sign)
  PROVE  /\ o.res \in A!Word /\ o.cc \in A!Codes
         /\ \E k \in {0, 1} :
              /\ k = A!Bit(o.cc.c)
              /\ sign = 1 => o.res = x - k * A!Power[W]
              /\ sign = -1 => o.res = x + k * A!Power[W]
<1>1. PICK n \in Nat \ {0} : n = A!Power[W] /\ A!WordCount(FALSE) = n
  BY WordPairs
<1>2. o.res \in 0 .. n - 1 /\ IF o.cc.c THEN o.res = x - sign * n ELSE o.res = x
  BY <1>1 DEF Carried
<1>3. o.cc \in A!Codes
  BY DEF Left
<1>4. A!Bit(o.cc.c) = IF o.cc.c THEN 1 ELSE 0
  BY DEF A!Bit
<1>5. o.res \in A!Word
  BY <1>1, <1>2 DEF A!Word
<1>6. CASE o.cc.c
  <2>1. /\ sign = 1 => o.res = x - 1 * n
        /\ sign = -1 => o.res = x + 1 * n
        /\ A!Bit(o.cc.c) = 1
    BY <1>2, <1>4, <1>6
  <2> QED BY <1>1, <1>3, <1>5, <2>1
<1>7. CASE ~o.cc.c
  <2>1. /\ sign = 1 => o.res = x - 0 * n
        /\ sign = -1 => o.res = x + 0 * n
        /\ A!Bit(o.cc.c) = 0
    BY <1>2, <1>4, <1>7
  <2> QED BY <1>1, <1>3, <1>5, <2>1
<1> QED BY <1>6, <1>7


\* The digit of a sum.
LEMMA AddedDigit ==
  ASSUME NEW o \in Left, NEW x \in Int, Carried(o, FALSE, x, 1)
  PROVE  /\ o.res \in A!Word /\ o.cc \in A!Codes
         /\ \E k \in {0, 1} : k = A!Bit(o.cc.c) /\ o.res = x - k * A!Power[W]
<1>1. PICK sign \in {-1, 1} : sign = 1
  OBVIOUS
<1>2. Carried(o, FALSE, x, sign)
  BY <1>1, Zenon
<1> QED BY <1>1, <1>2, CarriedDigit

\* One digit of a sum or difference of words.
LEMMA SumDigits ==
  ASSUME NEW x \in A!Word, NEW y \in A!Word
  PROVE  /\ A!AluAdd(x, y, FALSE) \in Left
         /\ Carried(A!AluAdd(x, y, FALSE), FALSE, x + y, 1)
         /\ A!AluSub(x, y, FALSE) \in Left
         /\ Carried(A!AluSub(x, y, FALSE), FALSE, x - y, -1)
<1>1. x \in Int /\ y \in Int /\ FALSE \in BOOLEAN
  BY WordsAreNumbers
<1>2. A!Low(x, FALSE) = x /\ A!Low(y, FALSE) = y
  BY WordPairs
<1>3. A!AluAdd(x, y, FALSE) \in Left /\ A!AluSub(x, y, FALSE) \in Left
  BY <1>1, SumType, Zenon
<1>4. /\ Carried(A!AluAdd(x, y, FALSE), FALSE, x + y, 1)
      /\ Carried(A!AluSub(x, y, FALSE), FALSE, x - y, -1)
  BY <1>1, <1>2, AddExact, SubExact, Zenon
<1> QED BY <1>3, <1>4

\* One digit with a carry or borrow from another, or negated.
LEMMA CarryDigits ==
  ASSUME NEW x \in A!Word, NEW old \in A!Codes
  PROVE  /\ A!Single("ADC", x, FALSE, old) \in Left
         /\ Carried(A!Single("ADC", x, FALSE, old), FALSE, x + A!Bit(old.c), 1)
         /\ A!Single("SBC", x, FALSE, old) \in Left
         /\ Carried(A!Single("SBC", x, FALSE, old), FALSE, x - A!Bit(old.c), -1)
         /\ A!Single("NEG", x, FALSE, old) \in Left
         /\ Carried(A!Single("NEG", x, FALSE, old), FALSE, 0 - x, -1)
<1>1. x \in Int /\ FALSE \in BOOLEAN
  BY WordsAreNumbers
<1>2. A!Low(x, FALSE) = x
  BY WordPairs
<1>3. "ADC" \in A!SingleOps /\ "SBC" \in A!SingleOps /\ "NEG" \in A!SingleOps
  BY DEF A!SingleOps
<1>4. /\ A!Single("ADC", x, FALSE, old) \in Left
      /\ A!Single("SBC", x, FALSE, old) \in Left
      /\ A!Single("NEG", x, FALSE, old) \in Left
  BY <1>1, <1>3, SingleType, Zenon
<1>5. /\ Carried(A!Single("ADC", x, FALSE, old), FALSE, x + A!Bit(old.c), 1)
      /\ Carried(A!Single("SBC", x, FALSE, old), FALSE, x - A!Bit(old.c), -1)
      /\ Carried(A!Single("NEG", x, FALSE, old), FALSE, 0 - x, -1)
  BY <1>1, <1>2, AdcExact, SbcExact, NegExact, Zenon
<1> QED BY <1>4, <1>5

\* ADD, ADC and ADD compute the sum of two pairs.
WideSum(r0, r1, hi, lo) ==
  LET low == A!AluAdd(r1, lo, FALSE)
      high == A!Single("ADC", r0, FALSE, low.cc)
      sum == A!AluAdd(high.res, hi, FALSE)
  IN sum.res * A!Power[W] + low.res
       = ((r0 * A!Power[W] + r1) + hi * A!Power[W] + lo) % A!Power[2 * W]

LEMMA WideSums ==
  ASSUME NEW r0 \in A!Word, NEW r1 \in A!Word, NEW hi \in A!Word, NEW lo \in A!Word
  PROVE  WideSum(r0, r1, hi, lo)
<1>1. PICK n \in Nat \ {0} : n = A!Power[W] /\ A!Power[2 * W] = n * n
  BY WordPairs
<1>2. \A w \in A!Word : w \in 0 .. n - 1
  BY <1>1 DEF A!Word
<1> DEFINE low == A!AluAdd(r1, lo, FALSE)
           high == A!Single("ADC", r0, FALSE, low.cc)
           sum == A!AluAdd(high.res, hi, FALSE)
<1>3. PICK e \in {0, 1} : /\ e = A!Bit(low.cc.c) /\ low.res = (r1 + lo) - e * n
                          /\ low.res \in A!Word /\ low.cc \in A!Codes
  <2>1. low \in Left /\ Carried(low, FALSE, r1 + lo, 1)
    BY SumDigits
  <2>2. r1 + lo \in Int
    BY <1>2
  <2> HIDE DEF low
  <2>3. /\ low.res \in A!Word /\ low.cc \in A!Codes
        /\ \E i \in {0, 1} : i = A!Bit(low.cc.c) /\ low.res = (r1 + lo) - i * A!Power[W]
    BY <2>1, <2>2, AddedDigit, Zenon
  <2> QED BY <1>1, <2>3, Zenon
<1> HIDE DEF low
<1>4. PICK j \in {0, 1} : high.res = (r0 + e) - j * n /\ high.res \in A!Word
  <2>1. high \in Left /\ Carried(high, FALSE, r0 + e, 1)
    BY <1>3, CarryDigits
  <2>2. r0 + e \in Int
    BY <1>2
  <2> HIDE DEF high
  <2>3. /\ high.res \in A!Word /\ high.cc \in A!Codes
        /\ \E i \in {0, 1} : i = A!Bit(high.cc.c) /\ high.res = (r0 + e) - i * A!Power[W]
    BY <2>1, <2>2, AddedDigit, Zenon
  <2> QED BY <1>1, <2>3, Zenon
<1> HIDE DEF high
<1>5. PICK k \in {0, 1} : sum.res = (high.res + hi) - k * n /\ sum.res \in A!Word
  <2>1. sum \in Left /\ Carried(sum, FALSE, high.res + hi, 1)
    BY <1>3, <1>4, SumDigits
  <2>2. high.res + hi \in Int
    BY <1>2, <1>4
  <2> HIDE DEF sum
  <2>3. /\ sum.res \in A!Word /\ sum.cc \in A!Codes
        /\ \E i \in {0, 1} : i = A!Bit(sum.cc.c) /\ sum.res = (high.res + hi) - i * A!Power[W]
    BY <2>1, <2>2, AddedDigit, Zenon
  <2> QED BY <1>1, <2>3, Zenon
<1> HIDE DEF sum
<1>6. PICK u \in Int, v \in Int : u = r0 + hi /\ v = r1 + lo
  BY <1>2
<1>7. PICK d \in {-1, 0}, q \in {-2, -1, 0} :
           d = -e /\ d * n = -(e * n) /\ q = -(j + k) /\ q * n = -(j * n + k * n)
  OBVIOUS
<1>8. sum.res = u - d + q * n /\ low.res = v + d * n
  BY <1>2, <1>3, <1>4, <1>5, <1>6, <1>7
<1>9. sum.res * n + low.res = (u * n + v) % (n * n)
  <2>1. sum.res \in 0 .. n - 1 /\ low.res \in 0 .. n - 1
    BY <1>2, <1>3, <1>5
  <2> QED BY <1>8, <2>1, TwoDigits
<1>10. u * n + v = (r0 * n + r1) + hi * n + lo
  <2>1. \A x, y \in Int : (x + y) * n = x * n + y * n /\ x * n \in Int
    OBVIOUS
  <2> QED BY <1>2, <1>6, <2>1
<1> QED BY <1>1, <1>9, <1>10 DEF WideSum, low, high, sum

\* SUB, SBC and SUB compute their difference.
WideDifference(r0, r1, hi, lo) ==
  LET low == A!AluSub(r1, lo, FALSE)
      high == A!Single("SBC", r0, FALSE, low.cc)
      difference == A!AluSub(high.res, hi, FALSE)
  IN difference.res * A!Power[W] + low.res
       = ((r0 * A!Power[W] + r1) - (hi * A!Power[W] + lo)) % A!Power[2 * W]

LEMMA WideDifferences ==
  ASSUME NEW r0 \in A!Word, NEW r1 \in A!Word, NEW hi \in A!Word, NEW lo \in A!Word
  PROVE  WideDifference(r0, r1, hi, lo)
<1>1. PICK n \in Nat \ {0} : n = A!Power[W] /\ A!Power[2 * W] = n * n
  BY WordPairs
<1>2. \A w \in A!Word : w \in 0 .. n - 1
  BY <1>1 DEF A!Word
<1> DEFINE low == A!AluSub(r1, lo, FALSE)
           high == A!Single("SBC", r0, FALSE, low.cc)
           difference == A!AluSub(high.res, hi, FALSE)
<1>3. PICK e \in {0, 1} : /\ e = A!Bit(low.cc.c) /\ low.res = r1 - lo + e * n
                          /\ low.res \in A!Word /\ low.cc \in A!Codes
  <2>1. low \in Left /\ Carried(low, FALSE, r1 - lo, -1)
    BY SumDigits
  <2>2. r1 - lo \in Int /\ -1 \in {-1, 1}
    BY <1>2
  <2> HIDE DEF low
  <2> QED BY <1>1, <2>1, <2>2, CarriedDigit
<1> HIDE DEF low
<1>4. PICK j \in {0, 1} : high.res = r0 - e + j * n /\ high.res \in A!Word
  <2>1. high \in Left /\ Carried(high, FALSE, r0 - e, -1)
    BY <1>3, CarryDigits
  <2>2. r0 - e \in Int /\ -1 \in {-1, 1}
    BY <1>2
  <2> HIDE DEF high
  <2> QED BY <1>1, <2>1, <2>2, CarriedDigit
<1> HIDE DEF high
<1>5. PICK k \in {0, 1} :
           difference.res = high.res - hi + k * n /\ difference.res \in A!Word
  <2>1. difference \in Left /\ Carried(difference, FALSE, high.res - hi, -1)
    BY <1>3, <1>4, SumDigits
  <2>2. high.res - hi \in Int /\ -1 \in {-1, 1}
    BY <1>2, <1>4
  <2> HIDE DEF difference
  <2> QED BY <1>1, <2>1, <2>2, CarriedDigit
<1> HIDE DEF difference
<1>6. PICK u \in Int, v \in Int : u = r0 - hi /\ v = r1 - lo
  BY <1>2
<1>7. PICK q \in {0, 1, 2} : q = j + k /\ q * n = j * n + k * n
  OBVIOUS
<1>8. difference.res = u - e + q * n /\ low.res = v + e * n
  BY <1>2, <1>3, <1>4, <1>5, <1>6, <1>7
<1>9. difference.res * n + low.res = (u * n + v) % (n * n)
  <2>1. difference.res \in 0 .. n - 1 /\ low.res \in 0 .. n - 1
    BY <1>2, <1>3, <1>5
  <2> QED BY <1>8, <2>1, TwoDigits
<1>10. u * n + v = (r0 * n + r1) - (hi * n + lo)
  <2>1. \A x, y \in Int : (x - y) * n = x * n - y * n /\ x * n \in Int
    OBVIOUS
  <2> QED BY <1>2, <1>6, <2>1
<1> QED BY <1>1, <1>9, <1>10 DEF WideDifference, low, high, difference

\* NEG, NEG and SBC negate one pair.
LEMMA WideNegation ==
  ASSUME NEW r0 \in A!Word, NEW r1 \in A!Word, NEW old \in A!Codes
  PROVE  LET high == A!Single("NEG", r0, FALSE, old)
             low == A!Single("NEG", r1, FALSE, high.cc)
             carried == A!Single("SBC", high.res, FALSE, low.cc)
         IN carried.res * A!Power[W] + low.res
              = (0 - (r0 * A!Power[W] + r1)) % A!Power[2 * W]
<1>1. PICK n \in Nat \ {0} : n = A!Power[W] /\ A!Power[2 * W] = n * n
  BY WordPairs
<1>2. \A w \in A!Word : w \in 0 .. n - 1
  BY <1>1 DEF A!Word
<1> DEFINE high == A!Single("NEG", r0, FALSE, old)
           low == A!Single("NEG", r1, FALSE, high.cc)
           carried == A!Single("SBC", high.res, FALSE, low.cc)
<1>3. PICK j \in {0, 1} : /\ high.res = 0 - r0 + j * n
                          /\ high.res \in A!Word /\ high.cc \in A!Codes
  <2>1. high \in Left /\ Carried(high, FALSE, 0 - r0, -1)
    BY CarryDigits
  <2>2. 0 - r0 \in Int /\ -1 \in {-1, 1}
    BY <1>2
  <2> HIDE DEF high
  <2> QED BY <1>1, <2>1, <2>2, CarriedDigit
<1> HIDE DEF high
<1>4. PICK e \in {0, 1} : /\ e = A!Bit(low.cc.c) /\ low.res = 0 - r1 + e * n
                          /\ low.res \in A!Word /\ low.cc \in A!Codes
  <2>1. low \in Left /\ Carried(low, FALSE, 0 - r1, -1)
    BY <1>3, CarryDigits
  <2>2. 0 - r1 \in Int /\ -1 \in {-1, 1}
    BY <1>2
  <2> HIDE DEF low
  <2> QED BY <1>1, <2>1, <2>2, CarriedDigit
<1> HIDE DEF low
<1>5. PICK k \in {0, 1} :
           carried.res = high.res - e + k * n /\ carried.res \in A!Word
  <2>1. carried \in Left /\ Carried(carried, FALSE, high.res - e, -1)
    BY <1>3, <1>4, CarryDigits
  <2>2. high.res - e \in Int /\ -1 \in {-1, 1}
    BY <1>2, <1>3
  <2> HIDE DEF carried
  <2> QED BY <1>1, <2>1, <2>2, CarriedDigit
<1> HIDE DEF carried
<1>6. PICK u \in Int, v \in Int : u = 0 - r0 /\ v = 0 - r1
  BY <1>2
<1>7. PICK q \in {0, 1, 2} : q = j + k /\ q * n = j * n + k * n
  OBVIOUS
<1>8. carried.res = u - e + q * n /\ low.res = v + e * n
  <2>1. r0 \in Int /\ r1 \in Int /\ j * n \in Int /\ k * n \in Int /\ e * n \in Int
    BY <1>2
  <2>2. high.res = u + j * n /\ low.res = v + e * n
    BY <1>3, <1>4, <1>6, <2>1
  <2>3. carried.res = u + j * n - e + k * n
    BY <1>5, <2>2
  <2> QED BY <1>7, <2>1, <2>2, <2>3
<1>9. carried.res * n + low.res = (u * n + v) % (n * n)
  <2>1. carried.res \in 0 .. n - 1 /\ low.res \in 0 .. n - 1
    BY <1>2, <1>4, <1>5
  <2> QED BY <1>8, <2>1, TwoDigits
<1>10. u * n + v = 0 - (r0 * n + r1)
  <2>1. \A x \in Int : (0 - x) * n = 0 - x * n /\ x * n \in Int
    OBVIOUS
  <2> QED BY <1>2, <1>6, <2>1
<1> QED BY <1>1, <1>9, <1>10 DEF low, high, carried

\* Sums, differences and negations of the register pair are those of one number.
LEMMA PairsCompute == A!TypeOK => A!WideArithmetic
<1> SUFFICES ASSUME A!TypeOK PROVE A!WideArithmetic
  OBVIOUS
<1>1. aluR[0] \in A!Word /\ aluR[1] \in A!Word /\ aluCc \in A!Codes
  <2> HIDE DEF A!Word, A!Codes
  <2> QED BY DEF A!TypeOK, A!Regs
<1>2. A!Pair = aluR[0] * A!Power[W] + aluR[1]
  BY DEF A!Pair, A!Joined
<1>3. ASSUME NEW hi \in A!Word, NEW lo \in A!Word
      PROVE  LET low == A!AluAdd(aluR[1], lo, FALSE)
                 high == A!Single("ADC", aluR[0], FALSE, low.cc)
                 sum == A!AluAdd(high.res, hi, FALSE)
             IN sum.res * A!Power[W] + low.res
                  = (A!Pair + hi * A!Power[W] + lo) % A!Power[2 * W]
  <2>1. WideSum(aluR[0], aluR[1], hi, lo)
    BY <1>1, WideSums, Zenon
  <2> QED BY <1>2, <2>1, Zenon DEF WideSum
<1>4. ASSUME NEW hi \in A!Word, NEW lo \in A!Word
      PROVE  LET low2 == A!AluSub(aluR[1], lo, FALSE)
                 high2 == A!Single("SBC", aluR[0], FALSE, low2.cc)
                 difference == A!AluSub(high2.res, hi, FALSE)
             IN difference.res * A!Power[W] + low2.res
                  = (A!Pair - (hi * A!Power[W] + lo)) % A!Power[2 * W]
  <2>1. WideDifference(aluR[0], aluR[1], hi, lo)
    BY <1>1, WideDifferences, Zenon
  <2> QED BY <1>2, <2>1, Zenon DEF WideDifference
<1>5. LET high == A!Single("NEG", aluR[0], FALSE, aluCc)
          low == A!Single("NEG", aluR[1], FALSE, high.cc)
          carried == A!Single("SBC", high.res, FALSE, low.cc)
      IN carried.res * A!Power[W] + low.res = (0 - A!Pair) % A!Power[2 * W]
  BY <1>1, <1>2, WideNegation, Zenon
<1>6. \A hi \in IF \E f \in DOMAIN aluCc : aluCc[f] THEN {} ELSE A!Word : hi \in A!Word
  OBVIOUS
<1> QED BY <1>3, <1>4, <1>5, <1>6, Zenon DEF A!WideArithmetic

-----------------------------------------------------------------------------
(* Division.                                                                *)

\* q is the quotient of a division that drops the fraction.
Truncates(x, y, q) ==
  /\ A!Abs(x - q * y) < A!Abs(y)
  /\ x - q * y # 0 => (x - q * y < 0) = (x < 0)

\* The quotient of the code does.
LEMMA QuotientTruncates ==
  ASSUME NEW x \in Int, NEW y \in Int \ {0}
  PROVE  A!Quotient(x, y) \in Int /\ Truncates(x, y, A!Quotient(x, y))
<1>1. PICK a \in Nat, m \in Nat \ {0} : a = A!Abs(x) /\ m = A!Abs(y)
  BY DEF A!Abs
<1>2. PICK t \in Nat, e \in 0 .. m - 1 : t = a \div m /\ a = m * t + e
  <2>1. a \div m \in Nat /\ a % m \in 0 .. m - 1 /\ a = m * (a \div m) + (a % m)
    OBVIOUS
  <2> QED BY <2>1
<1>3. m * t = t * m /\ (-t) * (-m) = t * m /\ t * (-m) = -(t * m) /\ (-t) * m = -(t * m)
      /\ t * m \in Int
  OBVIOUS
<1> DEFINE q == A!Quotient(x, y)
<1>4. q = IF (x < 0) = (y < 0) THEN t ELSE -t
  BY <1>1, <1>2 DEF A!Quotient
<1> HIDE DEF q
<1>5. x = (IF x < 0 THEN -a ELSE a) /\ y = (IF y < 0 THEN -m ELSE m)
  BY <1>1 DEF A!Abs
<1>6. q * y = IF x < 0 THEN -(t * m) ELSE t * m
  <2>1. CASE x < 0 /\ y < 0
    BY <1>3, <1>4, <1>5, <2>1
  <2>2. CASE x < 0 /\ ~(y < 0)
    BY <1>3, <1>4, <1>5, <2>2
  <2>3. CASE ~(x < 0) /\ y < 0
    BY <1>3, <1>4, <1>5, <2>3
  <2>4. CASE ~(x < 0) /\ ~(y < 0)
    BY <1>3, <1>4, <1>5, <2>4
  <2> QED BY <2>1, <2>2, <2>3, <2>4
<1>7. x - q * y = IF x < 0 THEN -e ELSE e
  <2>1. a - t * m = e
    BY <1>2, <1>3
  <2> QED BY <1>3, <1>5, <1>6, <2>1
<1>8. q \in Int
  BY <1>4
<1>9. A!Abs(x - q * y) = e /\ A!Abs(y) = m
  BY <1>1, <1>7 DEF A!Abs
<1>10. x - q * y # 0 => (x - q * y < 0 <=> x < 0)
  BY <1>7
<1> QED BY <1>8, <1>9, <1>10 DEF Truncates, q

\* No other number does.
LEMMA QuotientUnique ==
  ASSUME NEW x \in Int, NEW y \in Int \ {0}, NEW p \in Int, NEW q \in Int,
         Truncates(x, y, p), Truncates(x, y, q)
  PROVE  p = q
<1>1. PICK s \in Int, u \in Int : s = x - p * y /\ u = x - q * y
  OBVIOUS
<1>2. PICK m \in Nat \ {0} : m = A!Abs(y) /\ (y = m \/ y = -m)
  BY DEF A!Abs
<1>3. A!Abs(s) < m /\ A!Abs(u) < m
  BY <1>1, <1>2, Zenon DEF Truncates
<1>4. s \in -m + 1 .. m - 1 /\ u \in -m + 1 .. m - 1
  BY <1>3 DEF A!Abs
<1>5. (s # 0 => (s < 0 <=> x < 0)) /\ (u # 0 => (u < 0 <=> x < 0))
  <2>1. (s # 0 => (s < 0) = (x < 0)) /\ (u # 0 => (u < 0) = (x < 0))
    BY <1>1, Zenon DEF Truncates
  <2> QED BY <2>1
<1>6. PICK k \in Int : k = p - q
  OBVIOUS
<1>7. k * y = u - s
  <2>1. (p - q) * y = p * y - q * y /\ p * y \in Int /\ q * y \in Int
    OBVIOUS
  <2> QED BY <1>1, <1>6, <2>1
<1>8. k * m = u - s \/ k * m = s - u
  <2>1. k * (-m) = -(k * m) /\ k * m \in Int
    OBVIOUS
  <2> QED BY <1>2, <1>7, <2>1
<1>9. u - s \in -m + 1 .. m - 1 /\ s - u \in -m + 1 .. m - 1
  BY <1>4, <1>5
<1>10. k = 0
  <2>1. k >= 1 => k * m >= m
    OBVIOUS
  <2>2. k <= -1 => k * m <= -m
    OBVIOUS
  <2> QED BY <1>8, <1>9, <2>1, <2>2
<1> QED BY <1>6, <1>10

\* A number that fits in a word is what its word stands for.
LEMMA SignedOfWord ==
  ASSUME NEW z \in -(A!Power[W - 1]) .. A!Power[W - 1] - 1
  PROVE  A!Signed(z % A!Power[W], W) = z
<1>0. PICK b \in BOOLEAN : b = FALSE
  OBVIOUS
<1>1. PICK h \in Nat \ {0} :
           /\ A!WordCount(b) = 2 * h /\ A!Power[A!Bits(b) - 1] = h
           /\ \A i \in Int :
                /\ i \in 0 .. 2 * h - 1 => A!Low(i, b) = i
                /\ i \in -(2 * h) .. -1 => A!Low(i, b) = i + 2 * h
           /\ \A i \in 0 .. 2 * h - 1 :
                A!Signed(i, A!Bits(b)) = IF i >= h THEN i - 2 * h ELSE i
  BY Halves
<1>2. A!Bits(b) = W
  BY <1>0 DEF A!Bits
<1>3. A!Power[W - 1] = h /\ A!Power[W] = 2 * h
  BY <1>0, <1>1, <1>2, WordPairs, Zenon
<1>4. z % A!Power[W] = A!Low(z, b)
  BY <1>0, WordPairs, Zenon DEF A!Low
<1>5. z \in -h .. h - 1
  BY <1>3
<1>6. PICK i \in -h .. h - 1 : i = z
  BY <1>5
<1>7. PICK low \in 0 .. 2 * h - 1 :
           low = A!Low(i, b) /\ low = (IF i < 0 THEN i + 2 * h ELSE i)
  <2>1. CASE i < 0
    <3>1. A!Low(i, b) = i + 2 * h
      BY <1>1, <2>1
    <3> QED BY <2>1, <3>1
  <2>2. CASE ~(i < 0)
    <3>1. A!Low(i, b) = i
      BY <1>1, <2>2
    <3> QED BY <2>2, <3>1
  <2> QED BY <2>1, <2>2
<1>8. A!Signed(low, W) = i
  <2>1. A!Signed(low, A!Bits(b)) = IF low >= h THEN low - 2 * h ELSE low
    BY <1>1
  <2> QED BY <1>2, <1>7, <2>1
<1> QED BY <1>4, <1>6, <1>7, <1>8, Zenon

\* op_div leaves the quotient and the remainder, or the registers as they were
\* because no word is the quotient.
LEMMA Divides == A!TypeOK => A!DividesExactly
<1> SUFFICES ASSUME A!TypeOK, NEW x \in A!Word
             PROVE  LET dividend == A!Signed(A!Pair, 2 * W)
                        divisor == A!Signed(x, W)
                        rest(q) == dividend - q * divisor
                        right(q) == /\ A!Abs(rest(q)) < A!Abs(divisor)
                                    /\ rest(q) # 0 => (rest(q) < 0) = (dividend < 0)
                        o == A!Div(0, x)
                    IN IF o.cc.v
                         THEN /\ o.r = aluR
                              /\ \A q \in -(A!Power[W - 1]) .. A!Power[W - 1] - 1 : ~right(q)
                         ELSE /\ right(A!Signed(o.r[0], W))
                              /\ A!Signed(o.r[1], W) = rest(A!Signed(o.r[0], W))
  BY Zenon DEF A!DividesExactly
<1> DEFINE dividend == A!Signed(A!Pair, 2 * W)
           divisor == A!Signed(x, W)
           o == A!Div(0, x)
           range == -(A!Power[W - 1]) .. A!Power[W - 1] - 1
<1>1. W \in Nat \ {0} /\ W \in 1 .. 2 * W /\ 2 * W \in 1 .. 2 * W
  BY AluWords DEF A!WordAssumption
<1>2. dividend \in Int
  <2>1. A!Pair \in 0 .. A!Power[2 * W] - 1
    BY JoinedType DEF A!Pair, A!Regs
  <2> QED BY <1>1, <2>1, SignedType
<1>3. divisor \in range /\ (x = 0 <=> divisor = 0)
  <2>1. PICK h \in Nat \ {0} : A!Power[W - 1] = h /\ A!Power[W] = 2 * h
    <3>1. W - 1 \in 0 .. 2 * W - 1 /\ (W - 1) + 1 = W /\ W - 1 \in 0 .. 2 * W
      BY <1>1
    <3> QED BY <3>1, PowerSteps
  <2>2. x \in 0 .. 2 * h - 1
    BY <2>1 DEF A!Word
  <2> QED BY <2>1, <2>2 DEF A!Signed
<1>4. aluR \in [A!Regs -> A!Word] /\ range \subseteq Int /\ A!Power[W - 1] \in Nat
  <2>1. A!Power[W - 1] \in Nat
    <3>1. W - 1 \in 0 .. 2 * W
      BY <1>1
    <3> QED BY <3>1, PowerSteps
  <2> HIDE DEF A!Word, A!Codes, A!Regs
  <2> QED BY <2>1 DEF A!TypeOK
<1>5. Truncates(0, 1, 0)
  BY DEF Truncates, A!Abs
<1> SUFFICES /\ o.cc.v \in BOOLEAN
             /\ o.cc.v => /\ o.r = aluR
                          /\ \A q \in range : ~Truncates(dividend, divisor, q)
             /\ ~o.cc.v => /\ Truncates(dividend, divisor, A!Signed(o.r[0], W))
                           /\ A!Signed(o.r[1], W) = dividend - A!Signed(o.r[0], W) * divisor
  BY Zenon DEF Truncates
<1> DEFINE q == A!Quotient(dividend, divisor)
           n == A!Power[W]
<1>6. CASE x = 0
  <2>1. o.cc.v = TRUE /\ o.r = aluR
    BY <1>6 DEF A!Div
  <2>2. divisor = 0
    BY <1>3, <1>6
  <2> HIDE DEF o, dividend, divisor
  <2>3. ASSUME NEW i \in range, Truncates(dividend, divisor, i)
        PROVE  FALSE
    <3>1. A!Abs(dividend - i * 0) < A!Abs(0)
      BY <2>2, <2>3, Zenon DEF Truncates
    <3>2. PICK j \in Int : j = dividend - i * 0
      BY <1>2, <1>4
    <3> QED BY <3>1, <3>2 DEF A!Abs
  <2> QED BY <2>1, <2>3
<1>7. ASSUME x # 0
      PROVE  divisor \in Int \ {0} /\ q \in Int /\ Truncates(dividend, divisor, q)
  <2>1. divisor \in Int \ {0}
    BY <1>3, <1>4, <1>7
  <2> HIDE DEF dividend, divisor
  <2> QED BY <1>2, <2>1, QuotientTruncates
<1>8. CASE x # 0 /\ ~A!Fits(q)
  <2>1. o.cc.v = TRUE /\ o.r = aluR
    <3>1. o = [r |-> aluR, cc |-> [n |-> q < 0, z |-> FALSE, v |-> TRUE, c |-> FALSE]]
      BY <1>8 DEF A!Div, A!Pair
    <3> HIDE DEF o, q
    <3> QED BY <3>1
  <2> HIDE DEF o, dividend, divisor
  <2>2. ASSUME NEW i \in range, Truncates(dividend, divisor, i)
        PROVE  FALSE
    <3>1. i = q
      BY <1>2, <1>4, <1>7, <1>8, <2>2, QuotientUnique
    <3> QED BY <1>8, <2>2, <3>1 DEF A!Fits
  <2> QED BY <2>1, <2>2
<1>9. CASE x # 0 /\ A!Fits(q)
  <2>1. /\ o.cc.v = FALSE
        /\ o.r = [aluR EXCEPT ![0] = q % n, ![1] = (dividend - divisor * q) % n]
    <3>1. o = [r |-> [aluR EXCEPT ![0] = q % n, ![1] = (dividend - divisor * q) % n],
               cc |-> [n |-> q < 0, z |-> q = 0, v |-> FALSE, c |-> FALSE]]
      BY <1>9 DEF A!Div, A!Pair
    <3> HIDE DEF o, q, n, dividend, divisor
    <3> QED BY <3>1
  <2> HIDE DEF o, dividend, divisor, q, n
  <2>2. o.r[0] = q % n /\ o.r[1] = (dividend - divisor * q) % n
    BY <1>4, <2>1 DEF A!Regs
  <2>3. q \in range
    BY <1>9 DEF A!Fits
  <2>4. A!Signed(o.r[0], W) = q
    BY <2>2, <2>3, SignedOfWord DEF n
  <2>5. PICK i \in Int : i = dividend - divisor * q /\ i = dividend - q * divisor
    <3>1. \A y \in Int \ {0}, z \in Int : z * y = y * z /\ z * y \in Int
      OBVIOUS
    <3> QED BY <1>2, <1>7, <1>9, <3>1
  <2>6. A!Abs(i) < A!Abs(divisor)
    BY <1>7, <1>9, <2>5, Zenon DEF Truncates
  <2>7. i \in range
    BY <1>3, <1>4, <2>6 DEF A!Abs
  <2>8. A!Signed(o.r[1], W) = dividend - q * divisor
    BY <2>2, <2>5, <2>7, SignedOfWord DEF n
  <2> QED BY <1>7, <1>9, <2>1, <2>4, <2>8
<1> QED BY <1>6, <1>8, <1>9

-----------------------------------------------------------------------------
(* Shifts by one place and by many.                                         *)

\* A quotient and a remainder are the only ones.
LEMMA DivModUnique ==
  ASSUME NEW m \in Nat \ {0}, NEW a \in Int, NEW k \in Int, NEW e \in 0 .. m - 1,
         a = k * m + e
  PROVE  a \div m = k /\ a % m = e
<1>1. PICK q \in Int, d \in 0 .. m - 1 : q = a \div m /\ d = a % m /\ a = m * q + d
  <2>1. a \div m \in Int /\ a % m \in 0 .. m - 1 /\ a = m * (a \div m) + (a % m)
    OBVIOUS
  <2> QED BY <2>1
<1>2. PICK j \in Int : j = q - k
  OBVIOUS
<1>3. j * m = e - d
  <2>1. q = k + j
    BY <1>2
  <2>2. a = m * (k + j) + d
    BY <1>1, <2>1, Zenon
  <2>3. m * (k + j) = k * m + j * m /\ k * m \in Int /\ j * m \in Int
    OBVIOUS
  <2> QED BY <2>2, <2>3
<1>4. j = 0
  <2>1. j >= 1 => j * m >= m
    OBVIOUS
  <2>2. j <= -1 => j * m <= -m
    OBVIOUS
  <2> QED BY <1>3, <2>1, <2>2
<1>5. q = k /\ d = e
  <2>1. 0 * m = 0
    OBVIOUS
  <2> QED BY <1>2, <1>3, <1>4, <2>1
<1> QED BY <1>1, <1>5

\* A number of one word or of two is signed by its top half.
LEMMA Sizes ==
  ASSUME NEW bits \in {W, 2 * W}
  PROVE  /\ W \in Nat /\ W >= 4 /\ bits \in 1 .. 2 * W
         /\ \E half \in Nat \ {0} : A!Power[bits] = 2 * half /\ A!Power[bits - 1] = half
<1>1. W \in Nat /\ W >= 4
  BY AluWords DEF A!WordAssumption
<1>2. bits \in 1 .. 2 * W /\ bits - 1 \in 0 .. 2 * W - 1 /\ (bits - 1) + 1 = bits
      /\ bits - 1 \in 0 .. 2 * W
  BY <1>1
<1> QED BY <1>1, <1>2, PowerSteps

\* The signed number that a word or a pair stands for.
LEMMA SignedSpan ==
  ASSUME NEW bits \in {W, 2 * W}, NEW x \in 0 .. A!Power[bits] - 1
  PROVE  /\ A!Signed(x, bits) \in -(A!Power[bits - 1]) .. A!Power[bits - 1] - 1
         /\ A!Signed(x, bits) % A!Power[bits] = x
         /\ A!Signed(x, bits) \div A!Power[bits]
              = IF x >= A!Power[bits - 1] THEN -1 ELSE 0
<1>1. PICK half \in Nat \ {0} : A!Power[bits] = 2 * half /\ A!Power[bits - 1] = half
  BY Sizes
<1>2. PICK m \in Nat \ {0} : m = 2 * half
  OBVIOUS
<1>3. A!Signed(x, bits) = IF x >= half THEN x - m ELSE x
  BY <1>1, <1>2 DEF A!Signed
<1>4. x \in 0 .. m - 1
  BY <1>1, <1>2
<1>5. CASE x >= half
  <2>1. PICK a \in Int : a = x - m
    BY <1>4
  <2>2. a = (-1) * m + x
    BY <1>4, <2>1
  <2>3. a \div m = -1 /\ a % m = x
    BY <1>4, <2>2, DivModUnique
  <2> QED BY <1>1, <1>2, <1>3, <1>4, <1>5, <2>1, <2>3
<1>6. CASE ~(x >= half)
  <2>1. PICK a \in Int : a = x
    BY <1>4
  <2>2. a = 0 * m + x
    BY <1>4, <2>1
  <2>3. a \div m = 0 /\ a % m = x
    BY <1>4, <2>2, DivModUnique
  <2> QED BY <1>1, <1>2, <1>3, <1>4, <1>6, <2>1, <2>3
<1> QED BY <1>5, <1>6

\* n places to the left: what is left and what was lost are the remainder and the
\* quotient by the width.
LeftOf(src, n, bits, p) ==
  LET a == src * A!Power[n]
      m == A!Power[bits]
  IN /\ p.x = a % m
     /\ p.v \in BOOLEAN /\ p.c \in BOOLEAN
     /\ p.v <=> a \div m # (IF a % m >= A!Power[bits - 1] THEN -1 ELSE 0)
     /\ p.c <=> n # 0 /\ (a \div m) % 2 = 1

\* One place to the left.
OneLeft(p, o, bits) ==
  LET sign == A!Power[bits - 1]
  IN /\ o.x = IF p.x >= sign THEN 2 * p.x - A!Power[bits] ELSE 2 * p.x
     /\ o.v \in BOOLEAN /\ o.c \in BOOLEAN
     /\ o.v <=> p.v \/ ~(o.x >= sign <=> p.x >= sign)
     /\ o.c <=> p.x >= sign

\* One place more after n.
LEMMA LeftAgain ==
  ASSUME NEW bits \in {W, 2 * W}, NEW src \in Int, NEW n \in 0 .. 2 * W - 1, NEW p, NEW o,
         LeftOf(src, n, bits, p), OneLeft(p, o, bits)
  PROVE  LeftOf(src, n + 1, bits, o)
<1>1. PICK half \in Nat \ {0} : A!Power[bits] = 2 * half /\ A!Power[bits - 1] = half
  BY Sizes
<1>2. PICK m \in Nat \ {0} : m = 2 * half
  OBVIOUS
<1>3. PICK t \in Nat : t = A!Power[n] /\ A!Power[n + 1] = 2 * t
  <2>1. n \in 0 .. 2 * W
    BY Sizes
  <2> QED BY <2>1, PowerSteps
<1>4. PICK a \in Int : a = src * t
  OBVIOUS
<1>5. PICK a2 \in Int : a2 = 2 * a /\ a2 = src * (2 * t)
  BY <1>4
<1>6. PICK k \in Int, x \in 0 .. m - 1 : k = a \div m /\ x = a % m /\ a = k * m + x
  <2>1. a \div m \in Int /\ a % m \in 0 .. m - 1 /\ a = (a \div m) * m + (a % m)
    OBVIOUS
  <2> QED BY <2>1
<1>7. PICK b \in {0, 1} : b = IF x >= half THEN 1 ELSE 0
  OBVIOUS
<1>8. PICK x2 \in 0 .. m - 1 : x2 = IF x >= half THEN 2 * x - m ELSE 2 * x
  <2>1. CASE x >= half
    <3>1. 2 * x - m \in 0 .. m - 1
      BY <1>2, <2>1
    <3> QED BY <2>1, <3>1
  <2>2. CASE ~(x >= half)
    <3>1. 2 * x \in 0 .. m - 1
      BY <1>2, <2>2
    <3> QED BY <2>2, <3>1
  <2> QED BY <2>1, <2>2
<1>9. PICK k2 \in Int : k2 = 2 * k + b
  OBVIOUS
<1>10. a2 \div m = k2 /\ a2 % m = x2
  <2>1. k2 * m = 2 * (k * m) + b * m /\ k * m \in Int /\ 0 * m = 0 /\ 1 * m = m
    <3>1. (2 * k + b) * m = 2 * (k * m) + b * m
      OBVIOUS
    <3> QED BY <1>9, <3>1
  <2>2. a2 = k2 * m + x2
    BY <1>5, <1>6, <1>7, <1>8, <2>1
  <2> QED BY <2>2, DivModUnique
<1>11. /\ p.x = x
       /\ p.v <=> k # (IF x >= half THEN -1 ELSE 0)
  BY <1>1, <1>2, <1>3, <1>4, <1>6, Zenon DEF LeftOf
<1>12. /\ o.x = IF p.x >= half THEN 2 * p.x - m ELSE 2 * p.x
       /\ o.v <=> p.v \/ ~(o.x >= half <=> p.x >= half)
       /\ o.c <=> p.x >= half
       /\ o.v \in BOOLEAN /\ o.c \in BOOLEAN
  BY <1>1, <1>2, Zenon DEF OneLeft
<1>13. o.x = x2 /\ (o.c <=> b = 1)
  BY <1>7, <1>8, <1>11, <1>12
<1>14. o.v <=> k2 # (IF x2 >= half THEN -1 ELSE 0)
  <2>1. o.v <=> (k # (IF x >= half THEN -1 ELSE 0)) \/ ~(x2 >= half <=> x >= half)
    BY <1>11, <1>12, <1>13
  <2> QED BY <1>7, <1>9, <2>1
<1>15. k2 % 2 = 1 <=> b = 1
  <2>1. k2 = k * 2 + b /\ b \in 0 .. 2 - 1
    BY <1>9
  <2>2. k2 % 2 = b
    BY <2>1, DivModUnique
  <2> QED BY <2>2
<1>16. n + 1 # 0
  BY Sizes
<1>17. src * A!Power[n + 1] = a2 /\ A!Power[bits] = m /\ A!Power[bits - 1] = half
  BY <1>1, <1>2, <1>3, <1>5, Zenon
<1> QED BY <1>10, <1>12, <1>13, <1>14, <1>15, <1>16, <1>17, Zenon DEF LeftOf

\* n places to the right: the quotient by that power, and the last bit dropped.
RightOf(src, n, bits, p) ==
  /\ p.x = (src \div A!Power[n]) % A!Power[bits]
  /\ p.v = FALSE /\ p.c \in BOOLEAN
  /\ p.c <=> n # 0 /\ (src \div A!Power[n - 1]) % 2 = 1

\* One place to the right.
OneRight(p, o, bits) ==
  LET sign == A!Power[bits - 1]
  IN /\ o.x = p.x \div 2 + (IF p.x >= sign THEN sign ELSE 0)
     /\ o.v = p.v /\ o.c \in BOOLEAN
     /\ o.c <=> p.x % 2 = 1

\* A quotient by a power of two is no larger than the number.
LEMMA Shrinks ==
  ASSUME NEW half \in Nat, NEW src \in -half .. half - 1, NEW t \in Nat \ {0}
  PROVE  src \div t \in -half .. half - 1
<1>1. PICK k \in Int, e \in 0 .. t - 1 : k = src \div t /\ src = k * t + e
  <2>1. src \div t \in Int /\ src % t \in 0 .. t - 1 /\ src = (src \div t) * t + (src % t)
    OBVIOUS
  <2> QED BY <2>1
<1>2. CASE k >= 0
  <2>1. k * t >= k
    BY <1>2
  <2> QED BY <1>1, <1>2, <2>1
<1>3. CASE k <= -1
  <2>1. PICK j \in Nat : k = -1 - j
    <3>1. -1 - k \in Nat /\ k = -1 - (-1 - k)
      BY <1>3
    <3> QED BY <3>1
  <2>2. src = (-1 - j) * t + e
    BY <1>1, <2>1, Zenon
  <2>3. (-1 - j) * t = -t - j * t /\ j * t >= j /\ j * t \in Nat
    OBVIOUS
  <2> QED BY <1>1, <2>1, <2>2, <2>3
<1> QED BY <1>1, <1>2, <1>3

\* One place more after n.
LEMMA RightAgain ==
  ASSUME NEW bits \in {W, 2 * W}, NEW n \in 0 .. 2 * W - 1, NEW p, NEW o,
         NEW src \in -(A!Power[bits - 1]) .. A!Power[bits - 1] - 1,
         RightOf(src, n, bits, p), OneRight(p, o, bits)
  PROVE  RightOf(src, n + 1, bits, o)
<1>1. PICK half \in Nat \ {0} : A!Power[bits] = 2 * half /\ A!Power[bits - 1] = half
  BY Sizes
<1>2. PICK m \in Nat \ {0} : m = 2 * half
  OBVIOUS
<1>3. PICK t \in Nat \ {0} : t = A!Power[n] /\ A!Power[n + 1] = 2 * t
  <2>1. n \in 0 .. 2 * W
    BY Sizes
  <2> QED BY <2>1, PowerSteps
<1>4. PICK i \in -half .. half - 1 : i = src
  BY <1>1
<1>5. PICK y \in -half .. half - 1 : y = i \div t
  BY Shrinks
<1>6. PICK k \in Int, e \in {0, 1} : k = y \div 2 /\ e = y % 2 /\ y = 2 * k + e
  <2>1. y \div 2 \in Int /\ y % 2 \in {0, 1} /\ y = 2 * (y \div 2) + (y % 2)
    OBVIOUS
  <2> QED BY <2>1
<1>7. i \div (2 * t) = k
  <2>1. PICK d \in 0 .. t - 1 : i = y * t + d
    <3>1. i % t \in 0 .. t - 1 /\ i = (i \div t) * t + (i % t)
      OBVIOUS
    <3> QED BY <1>5, <3>1
  <2>2. i = (2 * k + e) * t + d
    BY <1>6, <2>1, Zenon
  <2>3. (2 * k + e) * t = k * (2 * t) + e * t /\ 0 * t = 0 /\ 1 * t = t /\ e * t \in Nat
        /\ k * (2 * t) \in Int
    OBVIOUS
  <2>4. PICK d2 \in 0 .. 2 * t - 1 : d2 = e * t + d
    BY <2>3
  <2>5. i = k * (2 * t) + d2
    BY <2>2, <2>3, <2>4
  <2>6. 2 * t \in Nat \ {0}
    OBVIOUS
  <2> QED BY <2>5, <2>6, DivModUnique
<1>8. PICK x \in 0 .. m - 1 : x = y % m /\ x = IF y < 0 THEN y + m ELSE y
  <2>1. y % m \in 0 .. m - 1
    OBVIOUS
  <2>2. y % m = IF y < 0 THEN y + m ELSE y
    <3>1. y \in Int
      OBVIOUS
    <3>2. /\ y \in 0 .. m - 1 => y % m = y
          /\ y \in -m .. -1 => y % m = y + m
      BY <3>1, ModNear, Zenon
    <3> QED BY <1>2, <3>2
  <2> QED BY <2>1, <2>2
<1>9. x \div 2 = (IF y < 0 THEN k + half ELSE k) /\ x % 2 = e
  <2>1. PICK g \in Int : g = IF y < 0 THEN k + half ELSE k
    OBVIOUS
  <2>2. x = g * 2 + e /\ e \in 0 .. 2 - 1
    BY <1>2, <1>6, <1>8, <2>1
  <2>3. x \div 2 = g /\ x % 2 = e
    BY <2>2, DivModUnique
  <2> QED BY <2>1, <2>3
<1>10. p.x = x /\ p.v = FALSE
  BY <1>1, <1>2, <1>3, <1>4, <1>5, <1>8, Zenon DEF RightOf
<1>11. /\ o.x = p.x \div 2 + (IF p.x >= half THEN half ELSE 0)
       /\ o.v = p.v /\ o.c \in BOOLEAN /\ (o.c <=> p.x % 2 = 1)
  BY <1>1, Zenon DEF OneRight
<1>12. o.x = k % m
  <2>1. k \in -half .. half - 1
    BY <1>6
  <2>2. k % m = IF k < 0 THEN k + m ELSE k
    <3>1. k \in 0 .. m - 1 => k % m = k
      BY ModNear
    <3>2. k \in -m .. -1 => k % m = k + m
      BY ModNear
    <3> QED BY <1>2, <2>1, <3>1, <3>2
  <2>3. (k < 0 <=> y < 0) /\ (x >= half <=> y < 0)
    BY <1>2, <1>6, <1>8
  <2> QED BY <1>2, <1>9, <1>10, <1>11, <2>2, <2>3
<1>13. o.c <=> (i \div t) % 2 = 1
  <2>1. p.x % 2 = e /\ (i \div t) % 2 = e
    BY <1>5, <1>6, <1>9, <1>10, Zenon
  <2> QED BY <1>11, <2>1, Zenon
<1>14. (n + 1) - 1 = n /\ n + 1 # 0
  BY Sizes
<1> QED BY <1>1, <1>2, <1>3, <1>4, <1>7, <1>10, <1>11, <1>12, <1>13, <1>14, Zenon DEF RightOf

\* ASL, ROL, ASR and ROR of a word.
WordShifted(x, old, h) ==
  LET asl == A!Single("ASL", x, FALSE, old)
      rol == A!Single("ROL", x, FALSE, old)
      asr == A!Single("ASR", x, FALSE, old)
      ror == A!Single("ROR", x, FALSE, old)
      carry == A!Bit(old.c)
  IN /\ asl \in Left /\ rol \in Left /\ asr \in Left /\ ror \in Left
     /\ asl.res = IF x >= h THEN 2 * x - 2 * h ELSE 2 * x
     /\ rol.res = IF x >= h THEN 2 * x + carry - 2 * h ELSE 2 * x + carry
     /\ asr.res = x \div 2 + (IF x >= h THEN h ELSE 0)
     /\ ror.res = x \div 2 + h * carry
     /\ asl.cc.c <=> x >= h
     /\ rol.cc.c <=> x >= h
     /\ asr.cc.c <=> x % 2 = 1
     /\ ror.cc.c <=> x % 2 = 1
     /\ asl.cc.v <=> ~(asl.res >= h <=> x >= h)
     /\ rol.cc.v <=> ~(rol.res >= h <=> x >= h)

LEMMA WordShifts ==
  \E h \in Nat \ {0} :
    /\ A!Power[W] = 2 * h /\ A!Power[W - 1] = h
    /\ \A x \in A!Word, old \in A!Codes : WordShifted(x, old, h)
<1>0. PICK b \in BOOLEAN : b = FALSE
  OBVIOUS
<1>1. PICK h \in Nat \ {0} :
           /\ A!WordCount(b) = 2 * h /\ A!Power[A!Bits(b) - 1] = h
           /\ \A i \in Int :
                /\ A!Low(i, b) \in 0 .. 2 * h - 1
                /\ A!Msb(i, b) <=> A!Low(i, b) >= h
                /\ i \in 0 .. 2 * h - 1 => A!Low(i, b) = i
                /\ i \in 2 * h .. 4 * h - 1 => A!Low(i, b) = i - 2 * h
                /\ i \in -(2 * h) .. -1 => A!Low(i, b) = i + 2 * h
           /\ \A i \in 0 .. 2 * h - 1 :
                A!Signed(i, A!Bits(b)) = IF i >= h THEN i - 2 * h ELSE i
  BY Halves
<1>2. A!Bits(b) = W
  BY <1>0 DEF A!Bits
<1>3. A!Power[W - 1] = h /\ A!Power[W] = 2 * h
  BY <1>0, <1>1, <1>2, WordPairs, Zenon
<1> SUFFICES ASSUME NEW x \in A!Word, NEW old \in A!Codes
             PROVE  WordShifted(x, old, h)
  BY <1>3
<1>4. PICK d \in 0 .. 2 * h - 1 : d = x /\ A!Low(x, b) = d /\ A!Low(d, b) = d
  <2>1. x \in 0 .. 2 * h - 1
    BY <1>3 DEF A!Word
  <2> QED BY <1>1, <2>1
<1>5. PICK carry \in {0, 1} : carry = A!Bit(old.c)
  BY DEF A!Bit
<1>6. PICK high \in BOOLEAN : high = A!Msb(d, b) /\ (high <=> d >= h)
  <2>1. A!Msb(d, b) \in BOOLEAN
    BY DEF A!Msb
  <2>2. A!Msb(d, b) <=> d >= h
    BY <1>1, <1>4
  <2> QED BY <2>1, <2>2, Zenon
<1>7. PICK odd \in BOOLEAN : odd <=> d % 2 = 1
  OBVIOUS
<1>8. PICK left \in 0 .. 2 * h - 1 :
           left = A!Low(2 * d, b) /\ left = (IF d >= h THEN 2 * d - 2 * h ELSE 2 * d)
  <2>1. CASE d >= h
    <3>1. 2 * d \in 2 * h .. 4 * h - 1 /\ 2 * d \in Int
      BY <2>1
    <3> QED BY <1>1, <2>1, <3>1
  <2>2. CASE ~(d >= h)
    <3>1. 2 * d \in 0 .. 2 * h - 1 /\ 2 * d \in Int
      BY <2>2
    <3> QED BY <1>1, <2>2, <3>1
  <2> QED BY <2>1, <2>2
<1>9. PICK turned \in 0 .. 2 * h - 1 :
           /\ turned = A!Low(2 * d + carry, b)
           /\ turned = IF d >= h THEN 2 * d + carry - 2 * h ELSE 2 * d + carry
  <2>1. PICK i \in Int : i = 2 * d + carry
    OBVIOUS
  <2>2. CASE d >= h
    <3>1. i \in 2 * h .. 4 * h - 1
      BY <2>1, <2>2
    <3> QED BY <1>1, <2>1, <2>2, <3>1
  <2>3. CASE ~(d >= h)
    <3>1. i \in 0 .. 2 * h - 1
      BY <2>1, <2>3
    <3> QED BY <1>1, <2>1, <2>3, <3>1
  <2> QED BY <2>2, <2>3
<1>10. PICK right \in Int : right = d \div 2 + h * A!Bit(high)
  BY DEF A!Bit
<1>11. right = d \div 2 + (IF d >= h THEN h ELSE 0)
  BY <1>6, <1>10 DEF A!Bit
<1>12. PICK wrapped \in Int : wrapped = d \div 2 + h * carry
  OBVIOUS
<1>13. ASSUME NEW res \in Int, NEW c \in BOOLEAN
       PROVE  /\ A!Shifted(res, b, c).res = res
              /\ A!Shifted(res, b, c).cc.c <=> c
              /\ res \in 0 .. 2 * h - 1 => (A!Shifted(res, b, c).cc.v <=> ~(res >= h <=> c))
  <2> DEFINE v == A!Msb(res, b) # c
  <2>1. A!Shifted(res, b, c) = A!Outcome(res, b, v, c)
    BY DEF A!Shifted
  <2>2. v \in BOOLEAN
    OBVIOUS
  <2>3. res \in 0 .. 2 * h - 1 => (v <=> ~(res >= h <=> c))
    <3>1. A!Msb(res, b) \in BOOLEAN
      BY DEF A!Msb
    <3>2. res \in 0 .. 2 * h - 1 => (A!Msb(res, b) <=> res >= h)
      BY <1>1
    <3> QED BY <3>1, <3>2
  <2> HIDE DEF v
  <2> QED BY <2>1, <2>2, <2>3, OutcomeSays
<1> DEFINE asl == A!Single("ASL", x, b, old)
           rol == A!Single("ROL", x, b, old)
           asr == A!Single("ASR", x, b, old)
           ror == A!Single("ROR", x, b, old)
<1>14. /\ asl = A!Shifted(left, b, high)
       /\ rol = A!Shifted(turned, b, high)
  BY <1>4, <1>5, <1>6, <1>8, <1>9, Zenon DEF A!Single
<1>15. (d % 2 = 1) = odd
  BY <1>7
<1>16. asr = A!Shifted(right, b, odd)
  BY <1>1, <1>4, <1>6, <1>10, <1>15, Zenon DEF A!Single
<1>17. ror = A!Shifted(wrapped, b, odd)
  BY <1>1, <1>4, <1>5, <1>12, <1>15, Zenon DEF A!Single
<1>18. asl \in Left /\ rol \in Left /\ asr \in Left /\ ror \in Left
  <2>1. {"ASL", "ROL", "ASR", "ROR"} \subseteq A!SingleOps
    BY DEF A!SingleOps
  <2>2. x \in Int
    BY <1>4
  <2> QED BY <2>1, <2>2, SingleType
<1> HIDE DEF asl, rol, asr, ror
<1>19. /\ asl.res = left /\ (asl.cc.c <=> high) /\ (asl.cc.v <=> ~(left >= h <=> high))
       /\ rol.res = turned /\ (rol.cc.c <=> high) /\ (rol.cc.v <=> ~(turned >= h <=> high))
  BY <1>13, <1>14
<1>20. asr.res = right /\ (asr.cc.c <=> odd) /\ ror.res = wrapped /\ (ror.cc.c <=> odd)
  BY <1>13, <1>16, <1>17
<1>21. /\ asl.res = IF x >= h THEN 2 * x - 2 * h ELSE 2 * x
       /\ rol.res = IF x >= h THEN 2 * x + carry - 2 * h ELSE 2 * x + carry
       /\ asl.cc.c <=> x >= h
       /\ rol.cc.c <=> x >= h
       /\ asl.cc.v <=> ~(asl.res >= h <=> x >= h)
       /\ rol.cc.v <=> ~(rol.res >= h <=> x >= h)
  BY <1>4, <1>6, <1>8, <1>9, <1>19
<1>22. /\ asr.res = x \div 2 + (IF x >= h THEN h ELSE 0)
       /\ ror.res = x \div 2 + h * carry
       /\ asr.cc.c <=> x % 2 = 1
       /\ ror.cc.c <=> x % 2 = 1
  BY <1>4, <1>7, <1>11, <1>12, <1>20
<1> QED BY <1>0, <1>5, <1>18, <1>21, <1>22, Zenon DEF WordShifted, asl, rol, asr, ror

\* What a shift leaves of a word or a pair of `bits' bits.
Shifting(bits) == [x : 0 .. A!Power[bits] - 1, v : BOOLEAN, c : BOOLEAN]

\* A word shifted by one place.
LEMMA WordByOne ==
  ASSUME NEW old \in A!Codes, aluCc = old, NEW p \in Shifting(W)
  PROVE  /\ A!ShiftWord("ASL", p) \in Shifting(W) /\ OneLeft(p, A!ShiftWord("ASL", p), W)
         /\ A!ShiftWord("ASR", p) \in Shifting(W) /\ OneRight(p, A!ShiftWord("ASR", p), W)
<1>1. p.x \in A!Word /\ p.v \in BOOLEAN
  BY DEF Shifting, A!Word
<1> DEFINE asl == A!Single("ASL", p.x, FALSE, old)
           asr == A!Single("ASR", p.x, FALSE, old)
<1>2. PICK h \in Nat \ {0} : /\ A!Power[W] = 2 * h /\ A!Power[W - 1] = h
                             /\ asl \in Left /\ asr \in Left
                             /\ asl.res = IF p.x >= h THEN 2 * p.x - 2 * h ELSE 2 * p.x
                             /\ asr.res = p.x \div 2 + (IF p.x >= h THEN h ELSE 0)
                             /\ asl.cc.c <=> p.x >= h
                             /\ asr.cc.c <=> p.x % 2 = 1
                             /\ asl.cc.v <=> ~(asl.res >= h <=> p.x >= h)
  <2>1. PICK h \in Nat \ {0} :
             /\ A!Power[W] = 2 * h /\ A!Power[W - 1] = h
             /\ \A x \in A!Word, i \in A!Codes : WordShifted(x, i, h)
    BY WordShifts
  <2>2. WordShifted(p.x, old, h)
    BY <1>1, <2>1, Zenon
  <2>3. /\ asl \in Left /\ asr \in Left
        /\ asl.res = IF p.x >= h THEN 2 * p.x - 2 * h ELSE 2 * p.x
        /\ asr.res = p.x \div 2 + (IF p.x >= h THEN h ELSE 0)
        /\ asl.cc.c <=> p.x >= h
        /\ asr.cc.c <=> p.x % 2 = 1
        /\ asl.cc.v <=> ~(asl.res >= h <=> p.x >= h)
    BY <2>2, Zenon DEF WordShifted
  <2> HIDE DEF asl, asr
  <2> QED BY <2>1, <2>3, Zenon
<1> HIDE DEF asl, asr
<1>3. PICK x \in 0 .. 2 * h - 1 : x = p.x
  BY <1>1, <1>2 DEF A!Word
<1>4. asl.res \in 0 .. 2 * h - 1
  BY <1>2, <1>3
<1>5. asr.res \in 0 .. 2 * h - 1
  <2>1. PICK k \in 0 .. h - 1 : k = x \div 2
    OBVIOUS
  <2>2. asr.res = k + (IF x >= h THEN h ELSE 0)
    BY <1>2, <1>3, <2>1
  <2> QED BY <2>1, <2>2
<1>6. asl.cc.c \in BOOLEAN /\ asl.cc.v \in BOOLEAN /\ asr.cc.c \in BOOLEAN
  BY <1>2 DEF Left, A!Codes
<1>7. PICK v \in BOOLEAN : v = (p.v \/ asl.cc.v)
  OBVIOUS
<1>8. /\ A!ShiftWord("ASL", p) = [x |-> asl.res, v |-> v, c |-> asl.cc.c]
      /\ A!ShiftWord("ASR", p) = [x |-> asr.res, v |-> p.v, c |-> asr.cc.c]
  <2>1. A!ShiftWord("ASL", p) = [x |-> asl.res, v |-> v, c |-> asl.cc.c]
    <3>1. (p.v \/ ("ASL" = "ASL" /\ asl.cc.v)) = v
      BY <1>7
    <3> QED BY <3>1, Zenon DEF A!ShiftWord, asl
  <2>2. A!ShiftWord("ASR", p) = [x |-> asr.res, v |-> p.v, c |-> asr.cc.c]
    <3>1. (p.v \/ ("ASR" = "ASL" /\ asr.cc.v)) = p.v
      BY <1>1
    <3> QED BY <3>1, Zenon DEF A!ShiftWord, asr
  <2> QED BY <2>1, <2>2
<1> DEFINE left == A!ShiftWord("ASL", p)
           right == A!ShiftWord("ASR", p)
<1> HIDE DEF left, right
<1>9. /\ left.x = asl.res /\ left.v = v /\ left.c = asl.cc.c
      /\ right.x = asr.res /\ right.v = p.v /\ right.c = asr.cc.c
  BY <1>8 DEF left, right
<1>10. left \in Shifting(W) /\ right \in Shifting(W)
  BY <1>1, <1>2, <1>4, <1>5, <1>6, <1>7, <1>8 DEF Shifting, left, right
<1>11. OneLeft(p, left, W)
  <2>1. left.v <=> p.v \/ ~(asl.res >= h <=> p.x >= h)
    BY <1>1, <1>2, <1>6, <1>7, <1>9
  <2> QED BY <1>2, <1>6, <1>7, <1>9, <2>1, Zenon DEF OneLeft
<1>12. OneRight(p, right, W)
  BY <1>2, <1>6, <1>9, Zenon DEF OneRight
<1> QED BY <1>10, <1>11, <1>12, Zenon DEF left, right

\* The top bit of a pair is that of its high word.
LEMMA TopOfPair ==
  ASSUME NEW m \in Nat \ {0}, NEW h \in Nat, NEW hi \in Int, NEW lo \in 0 .. m - 1
  PROVE  hi * m + lo >= h * m <=> hi >= h
<1>1. PICK j \in Int : j = hi - h /\ hi = h + j
  <2>1. hi - h \in Int /\ hi = h + (hi - h)
    OBVIOUS
  <2> QED BY <2>1
<1>2. (h + j) * m = h * m + j * m /\ h * m \in Int /\ j * m \in Int
  OBVIOUS
<1>3. hi * m = h * m + j * m
  BY <1>1, <1>2, Zenon
<1>4. j >= 0 => j * m >= 0
  OBVIOUS
<1>5. j <= -1 => j * m <= -m
  OBVIOUS
<1> QED BY <1>1, <1>2, <1>3, <1>4, <1>5

\* The words of a pair.
LEMMA WordsOfPair ==
  ASSUME NEW x \in 0 .. A!Power[2 * W] - 1
  PROVE  /\ x \div A!Power[W] \in A!Word /\ x % A!Power[W] \in A!Word
         /\ x = (x \div A!Power[W]) * A!Power[W] + (x % A!Power[W])
<1>1. PICK n \in Nat \ {0} : n = A!Power[W] /\ A!Power[2 * W] = n * n
  BY WordPairs
<1>2. PICK k \in Int, e \in 0 .. n - 1 : k = x \div n /\ e = x % n /\ x = k * n + e
  <2>1. PICK i \in Nat : i = x
    BY <1>1
  <2>2. i \div n \in Int /\ i % n \in 0 .. n - 1 /\ i = (i \div n) * n + (i % n)
    OBVIOUS
  <2> QED BY <2>1, <2>2
<1>3. x \in 0 .. n * n - 1 /\ n * n \in Nat
  BY <1>1
<1>4. k >= 0
  <2> SUFFICES ASSUME k <= -1 PROVE FALSE
    OBVIOUS
  <2>1. k * n <= -n
    OBVIOUS
  <2> QED BY <1>2, <1>3, <2>1
<1>5. k < n
  <2>1. k * n + e >= n * n <=> k >= n
    BY <1>2, TopOfPair
  <2> QED BY <1>2, <1>3, <2>1
<1> QED BY <1>1, <1>2, <1>4, <1>5 DEF A!Word

\* Half of a pair's numbers have the top bit.
LEMMA PairHalf ==
  ASSUME NEW h \in Nat \ {0}, A!Power[W] = 2 * h, A!Power[W - 1] = h
  PROVE  A!Power[2 * W - 1] = h * (2 * h) /\ A!Power[2 * W] = (2 * h) * (2 * h)
<1>1. W \in Nat /\ W >= 4
  BY Sizes
<1>2. A!Power[(W - 1) + W] = A!Power[W - 1] * A!Power[W]
  <2>1. W - 1 \in Nat /\ (W - 1) + W <= 2 * W
    BY <1>1
  <2> QED BY <1>1, <2>1, PowerOfSum
<1>3. (W - 1) + W = 2 * W - 1
  BY <1>1
<1>4. A!Power[2 * W] = A!Power[W] * A!Power[W]
  BY WordPairs
<1> QED BY <1>2, <1>3, <1>4, Zenon

\* A pair shifted left by one place: ASL of the low word and ROL of the high one.
LEMMA PairLeft ==
  ASSUME NEW old \in A!Codes, aluCc = old, NEW p \in Shifting(2 * W)
  PROVE  A!ShiftPair("ASL", p) \in Shifting(2 * W) /\ OneLeft(p, A!ShiftPair("ASL", p), 2 * W)
<1>1. PICK h \in Nat \ {0} :
           /\ A!Power[W] = 2 * h /\ A!Power[W - 1] = h
           /\ \A x \in A!Word, i \in A!Codes : WordShifted(x, i, h)
  BY WordShifts
<1>2. PICK m \in Nat \ {0} : m = 2 * h
  OBVIOUS
<1>3. A!Power[2 * W - 1] = h * m /\ A!Power[2 * W] = m * m
  BY <1>1, <1>2, PairHalf
<1>4. p.x \in 0 .. A!Power[2 * W] - 1 /\ p.v \in BOOLEAN
  BY DEF Shifting
<1>5. PICK hi \in A!Word, lo \in A!Word :
           /\ hi = p.x \div A!Power[W] /\ lo = p.x % A!Power[W]
           /\ p.x = hi * m + lo
  <2>1. A!Power[W] = m
    BY <1>1, <1>2
  <2>2. /\ p.x \div A!Power[W] \in A!Word /\ p.x % A!Power[W] \in A!Word
        /\ p.x = (p.x \div A!Power[W]) * A!Power[W] + (p.x % A!Power[W])
    BY <1>4, WordsOfPair, Zenon
  <2>3. p.x = (p.x \div A!Power[W]) * m + (p.x % A!Power[W])
    BY <2>1, <2>2, Zenon
  <2> QED BY <2>2, <2>3, Zenon
<1>6. hi \in 0 .. m - 1 /\ lo \in 0 .. m - 1
  BY <1>1, <1>2 DEF A!Word
<1> DEFINE first == A!Single("ASL", lo, FALSE, old)
           second == A!Single("ROL", hi, FALSE, first.cc)
<1>7. /\ first \in Left
      /\ first.res = IF lo >= h THEN 2 * lo - 2 * h ELSE 2 * lo
      /\ first.cc.c <=> lo >= h
  <2>1. WordShifted(lo, old, h)
    BY <1>1, Zenon
  <2> QED BY <2>1, Zenon DEF WordShifted
<1> HIDE DEF first
<1>8. first.cc \in A!Codes
  BY <1>7 DEF Left
<1>9. PICK b \in {0, 1} : b = A!Bit(first.cc.c) /\ b = IF lo >= h THEN 1 ELSE 0
  BY <1>7 DEF A!Bit
<1>10. /\ second \in Left
       /\ second.res = IF hi >= h THEN 2 * hi + A!Bit(first.cc.c) - 2 * h
                                  ELSE 2 * hi + A!Bit(first.cc.c)
       /\ second.cc.c <=> hi >= h
       /\ second.cc.v <=> ~(second.res >= h <=> hi >= h)
  <2>1. WordShifted(hi, first.cc, h)
    BY <1>1, <1>8, Zenon
  <2> QED BY <2>1, Zenon DEF WordShifted
<1> HIDE DEF second
<1>11. second.cc.c \in BOOLEAN /\ second.cc.v \in BOOLEAN
  BY <1>10 DEF Left, A!Codes
<1>12. PICK t \in {0, 1} : t = IF hi >= h THEN 1 ELSE 0
  OBVIOUS
<1>13. PICK l \in 0 .. m - 1, u \in 0 .. m - 1 :
            /\ l = first.res /\ l = 2 * lo - b * m
            /\ u = second.res /\ u = 2 * hi + b - t * m
  <2>1. first.res = 2 * lo - b * m /\ first.res \in 0 .. m - 1
    BY <1>2, <1>6, <1>7, <1>9
  <2>2. second.res = 2 * hi + b - t * m /\ second.res \in 0 .. m - 1
    <3>1. second.res = IF hi >= h THEN 2 * hi + b - 2 * h ELSE 2 * hi + b
      BY <1>9, <1>10, Zenon
    <3>2. CASE hi >= h
      <4>1. t * m = 2 * h
        BY <1>2, <1>12, <3>2
      <4> QED BY <1>2, <1>6, <3>1, <3>2, <4>1
    <3>3. CASE ~(hi >= h)
      <4>1. t * m = 0
        BY <1>12, <3>3
      <4> QED BY <1>2, <1>6, <3>1, <3>3, <4>1
    <3> QED BY <3>2, <3>3
  <2> QED BY <2>1, <2>2
<1>14. PICK v \in BOOLEAN : v = (p.v \/ second.cc.v)
  OBVIOUS
<1>15. A!ShiftPair("ASL", p) = [x |-> u * m + l, v |-> v, c |-> second.cc.c]
  <2>1. (p.v \/ ("ASL" = "ASL" /\ second.cc.v)) = v
    BY <1>14
  <2> DEFINE new == A!ShiftPair("ASL", p)
  <2>2. new = [x |-> second.res * A!Power[W] + first.res,
               v |-> p.v \/ ("ASL" = "ASL" /\ second.cc.v), c |-> second.cc.c]
    BY <1>5 DEF A!ShiftPair, first, second
  <2> HIDE DEF new
  <2>3. A!Power[W] = m
    BY <1>1, <1>2
  <2>4. new = [x |-> u * m + l, v |-> v, c |-> second.cc.c]
    BY <1>13, <2>1, <2>2, <2>3, Zenon
  <2> QED BY <2>4 DEF new
<1>16. PICK x \in Int, y \in Int : x = hi * m + lo /\ y = u * m + l
  BY <1>6
<1>17. (x >= h * m <=> hi >= h) /\ (y >= h * m <=> u >= h)
  BY <1>6, <1>16, TopOfPair
<1>18. y = 2 * x - t * (m * m)
  <2>1. PICK c \in Int, d \in Int : c = b * m /\ d = t * m
    OBVIOUS
  <2>2. (2 * hi + b - d) * m = 2 * (hi * m) + b * m - d * m /\ hi * m \in Int
    <3>1. hi \in Int
      BY <1>6
    <3> QED BY <3>1
  <2>3. d * m = t * (m * m)
    BY <2>1
  <2>4. u * m = (2 * hi + b - d) * m
    BY <1>13, <2>1, Zenon
  <2> QED BY <1>6, <1>13, <1>16, <2>1, <2>2, <2>3, <2>4
<1>19. y \in 0 .. m * m - 1
  <2>1. u * m + l >= m * m <=> u >= m
    BY TopOfPair
  <2>2. u * m >= 0 /\ u * m \in Int /\ m * m \in Int
    OBVIOUS
  <2> QED BY <1>16, <2>1, <2>2
<1>20. y = IF x >= h * m THEN 2 * x - m * m ELSE 2 * x
  <2>1. 0 * (m * m) = 0 /\ 1 * (m * m) = m * m
    OBVIOUS
  <2> QED BY <1>12, <1>17, <1>18, <2>1
<1> DEFINE new == A!ShiftPair("ASL", p)
<1>21. new.x = y /\ new.v = v /\ new.c = second.cc.c
  BY <1>15, <1>16
<1>22. new \in Shifting(2 * W)
  <2> HIDE DEF new
  <2>1. new = [x |-> y, v |-> v, c |-> second.cc.c]
    BY <1>15, <1>16, Zenon DEF new
  <2> QED BY <1>3, <1>11, <1>19, <2>1 DEF Shifting
<1> HIDE DEF new
<1>23. p.x = x
  BY <1>5, <1>16
<1>24. new.c <=> x >= h * m
  BY <1>10, <1>17, <1>21
<1>25. new.v <=> p.v \/ ~(y >= h * m <=> x >= h * m)
  BY <1>4, <1>10, <1>11, <1>13, <1>14, <1>17, <1>21
<1>26. OneLeft(p, new, 2 * W)
  BY <1>3, <1>11, <1>14, <1>20, <1>21, <1>23, <1>24, <1>25, Zenon DEF OneLeft
<1> QED BY <1>22, <1>26, Zenon DEF new

\* And to the right: ASR of the high word and ROR of the low one.
LEMMA PairRight ==
  ASSUME NEW old \in A!Codes, aluCc = old, NEW p \in Shifting(2 * W)
  PROVE  A!ShiftPair("ASR", p) \in Shifting(2 * W) /\ OneRight(p, A!ShiftPair("ASR", p), 2 * W)
<1>1. PICK h \in Nat \ {0} :
           /\ A!Power[W] = 2 * h /\ A!Power[W - 1] = h
           /\ \A x \in A!Word, i \in A!Codes : WordShifted(x, i, h)
  BY WordShifts
<1>2. PICK m \in Nat \ {0} : m = 2 * h
  OBVIOUS
<1>3. A!Power[2 * W - 1] = h * m /\ A!Power[2 * W] = m * m
  BY <1>1, <1>2, PairHalf
<1>4. p.x \in 0 .. A!Power[2 * W] - 1 /\ p.v \in BOOLEAN
  BY DEF Shifting
<1>5. PICK hi \in A!Word, lo \in A!Word :
           /\ hi = p.x \div A!Power[W] /\ lo = p.x % A!Power[W]
           /\ p.x = hi * m + lo
  <2>1. A!Power[W] = m
    BY <1>1, <1>2
  <2>2. /\ p.x \div A!Power[W] \in A!Word /\ p.x % A!Power[W] \in A!Word
        /\ p.x = (p.x \div A!Power[W]) * A!Power[W] + (p.x % A!Power[W])
    BY <1>4, WordsOfPair, Zenon
  <2>3. p.x = (p.x \div A!Power[W]) * m + (p.x % A!Power[W])
    BY <2>1, <2>2, Zenon
  <2> QED BY <2>2, <2>3, Zenon
<1>6. hi \in 0 .. m - 1 /\ lo \in 0 .. m - 1
  BY <1>1, <1>2 DEF A!Word
<1> DEFINE first == A!Single("ASR", hi, FALSE, old)
           second == A!Single("ROR", lo, FALSE, first.cc)
<1>7. /\ first \in Left
      /\ first.res = hi \div 2 + (IF hi >= h THEN h ELSE 0)
      /\ first.cc.c <=> hi % 2 = 1
  <2>1. WordShifted(hi, old, h)
    BY <1>1, Zenon
  <2> QED BY <2>1, Zenon DEF WordShifted
<1> HIDE DEF first
<1>8. first.cc \in A!Codes
  BY <1>7 DEF Left
<1>9. PICK k \in 0 .. h - 1, b \in {0, 1} : k = hi \div 2 /\ b = hi % 2 /\ hi = 2 * k + b
  <2>1. hi \div 2 \in 0 .. h - 1 /\ hi % 2 \in {0, 1} /\ hi = 2 * (hi \div 2) + (hi % 2)
    BY <1>2, <1>6
  <2> QED BY <2>1
<1>10. PICK j \in 0 .. h - 1, d \in {0, 1} : j = lo \div 2 /\ d = lo % 2 /\ lo = 2 * j + d
  <2>1. lo \div 2 \in 0 .. h - 1 /\ lo % 2 \in {0, 1} /\ lo = 2 * (lo \div 2) + (lo % 2)
    BY <1>2, <1>6
  <2> QED BY <2>1
<1>11. A!Bit(first.cc.c) = b
  BY <1>7, <1>9 DEF A!Bit
<1>12. /\ second \in Left
       /\ second.res = lo \div 2 + h * A!Bit(first.cc.c)
       /\ second.cc.c <=> lo % 2 = 1
  <2>1. WordShifted(lo, first.cc, h)
    BY <1>1, <1>8, Zenon
  <2> QED BY <2>1, Zenon DEF WordShifted
<1> HIDE DEF second
<1>13. second.cc.c \in BOOLEAN
  BY <1>12 DEF Left, A!Codes
<1>14. PICK t \in {0, 1} : t = IF hi >= h THEN 1 ELSE 0
  OBVIOUS
<1>15. PICK u \in 0 .. m - 1, l \in 0 .. m - 1 :
            /\ u = first.res /\ u = k + t * h
            /\ l = second.res /\ l = j + h * b
  <2>1. first.res = k + t * h /\ k + t * h \in 0 .. m - 1
    BY <1>2, <1>7, <1>9, <1>14
  <2>2. second.res = j + h * b /\ j + h * b \in 0 .. m - 1
    BY <1>2, <1>10, <1>11, <1>12
  <2> QED BY <2>1, <2>2
<1>16. A!ShiftPair("ASR", p) = [x |-> u * m + l, v |-> p.v, c |-> second.cc.c]
  <2>1. (p.v \/ ("ASR" = "ASL" /\ second.cc.v)) = p.v
    BY <1>4
  <2> DEFINE new == A!ShiftPair("ASR", p)
  <2>2. new = [x |-> first.res * A!Power[W] + second.res,
               v |-> p.v \/ ("ASR" = "ASL" /\ second.cc.v), c |-> second.cc.c]
    BY <1>5 DEF A!ShiftPair, first, second
  <2> HIDE DEF new
  <2>3. A!Power[W] = m
    BY <1>1, <1>2
  <2>4. new = [x |-> u * m + l, v |-> p.v, c |-> second.cc.c]
    BY <1>15, <2>1, <2>2, <2>3, Zenon
  <2> QED BY <2>4 DEF new
<1>17. PICK x \in Int, y \in Int : x = hi * m + lo /\ y = u * m + l
  BY <1>6
<1>18. x >= h * m <=> hi >= h
  BY <1>6, <1>17, TopOfPair
<1>19. x \div 2 = k * m + h * b + j /\ x % 2 = d
  <2>1. PICK g \in Int : g = k * m + h * b + j
    OBVIOUS
  <2>2. hi * m = 2 * (k * m) + b * m /\ k * m \in Int
    <3>1. (2 * k + b) * m = 2 * (k * m) + b * m /\ k * m \in Int
      OBVIOUS
    <3> QED BY <1>9, <3>1, Zenon
  <2>3. b * m = 2 * (h * b) /\ h * b \in Int
    BY <1>2
  <2>4. x = g * 2 + d /\ d \in 0 .. 2 - 1
    BY <1>10, <1>17, <2>1, <2>2, <2>3
  <2> QED BY <2>1, <2>4, DivModUnique
<1>20. y = x \div 2 + (IF x >= h * m THEN h * m ELSE 0)
  <2>1. u * m = k * m + t * (h * m)
    <3>1. (k + t * h) * m = k * m + t * (h * m)
      OBVIOUS
    <3> QED BY <1>15, <3>1, Zenon
  <2>2. 0 * (h * m) = 0 /\ 1 * (h * m) = h * m /\ k * m \in Int /\ h * b \in Int /\ h * m \in Int
    OBVIOUS
  <2> QED BY <1>14, <1>15, <1>17, <1>18, <1>19, <2>1, <2>2
<1>21. y \in 0 .. m * m - 1
  <2>1. u * m + l >= m * m <=> u >= m
    BY TopOfPair
  <2>2. u * m >= 0 /\ u * m \in Int /\ m * m \in Int
    OBVIOUS
  <2> QED BY <1>17, <2>1, <2>2
<1> DEFINE new == A!ShiftPair("ASR", p)
<1>22. new = [x |-> y, v |-> p.v, c |-> second.cc.c]
  BY <1>16, <1>17, Zenon
<1> HIDE DEF new
<1>23. new \in Shifting(2 * W)
  BY <1>3, <1>4, <1>13, <1>21, <1>22 DEF Shifting
<1>24. new.x = y /\ new.v = p.v /\ new.c = second.cc.c
  BY <1>22
<1>25. p.x = x /\ (new.c <=> x % 2 = 1)
  BY <1>5, <1>10, <1>12, <1>17, <1>19, <1>24
<1>26. OneRight(p, new, 2 * W)
  BY <1>3, <1>13, <1>20, <1>24, <1>25, Zenon DEF OneRight
<1> QED BY <1>23, <1>26, Zenon DEF new

\* The result of op_ash and op_ashc as a word or a pair.
Result(src, code, bits) ==
  LET s == A!Shift(src, code, bits)
  IN [x |-> s.x % A!Power[bits], v |-> s.v, c |-> s.c]

\* The ranges of the shift code.
LEMMA ShiftCases ==
  ASSUME NEW bits \in {W, 2 * W}, NEW src \in Int, NEW code \in 0 .. 4 * W - 1
  PROVE  LET s == A!Shift(src, code, bits)
             left == A!Lost(src, code, bits)
             res == (src * A!Power[code]) % A!Power[bits]
             right == 4 * W - code
         IN /\ code = 0 => s = [x |-> src, v |-> FALSE, c |-> FALSE]
            /\ code \in 1 .. bits - 1 =>
                 s = [x |-> res, v |-> left # (IF res >= A!Power[bits - 1] THEN -1 ELSE 0),
                      c |-> left % 2 = 1]
            /\ code \in bits .. 2 * W - 1 =>
                 s = [x |-> 0, v |-> src # 0,
                      c |-> (src * A!Power[code - bits]) % 2 = 1]
            /\ code = 2 * W =>
                 s = [x |-> IF src < 0 THEN -1 ELSE 0, v |-> FALSE, c |-> src < 0]
            /\ code \in 2 * W + 1 .. 4 * W - 1 =>
                 s = [x |-> src \div A!Power[right], v |-> FALSE,
                      c |-> (src \div A!Power[right - 1]) % 2 = 1]
<1>1. W \in Nat /\ W >= 4 /\ bits \in 1 .. 2 * W
  BY Sizes
<1> DEFINE s == A!Shift(src, code, bits)
           left == A!Lost(src, code, bits)
           res == (src * A!Power[code]) % A!Power[bits]
           right == 4 * W - code
           v == left # (IF res >= A!Power[bits - 1] THEN -1 ELSE 0)
           lost == left % 2 = 1
           last0 == (src * A!Power[code - bits]) % 2 = 1
           dropped == (src \div A!Power[right - 1]) % 2 = 1
           shrunk == src \div A!Power[right]
<1>2. s = CASE code = 0 -> [x |-> src, v |-> FALSE, c |-> FALSE]
            [] code \in 1 .. bits - 1 -> [x |-> res, v |-> v, c |-> lost]
            [] code \in bits .. 2 * W - 1 -> [x |-> 0, v |-> src # 0, c |-> last0]
            [] code = 2 * W -> [x |-> IF src < 0 THEN -1 ELSE 0, v |-> FALSE, c |-> src < 0]
            [] OTHER -> [x |-> shrunk, v |-> FALSE, c |-> dropped]
  BY DEF A!Shift
<1> HIDE DEF s, res, v, lost, last0, dropped, shrunk
<1>3. code = 0 => s = [x |-> src, v |-> FALSE, c |-> FALSE]
  BY <1>1, <1>2
<1>4. code \in 1 .. bits - 1 => s = [x |-> res, v |-> v, c |-> lost]
  BY <1>1, <1>2
<1>5. code \in bits .. 2 * W - 1 => s = [x |-> 0, v |-> src # 0, c |-> last0]
  BY <1>1, <1>2
<1>6. code = 2 * W => s = [x |-> IF src < 0 THEN -1 ELSE 0, v |-> FALSE, c |-> src < 0]
  BY <1>1, <1>2
<1>7. code \in 2 * W + 1 .. 4 * W - 1 => s = [x |-> shrunk, v |-> FALSE, c |-> dropped]
  BY <1>1, <1>2
<1> QED BY <1>3, <1>4, <1>5, <1>6, <1>7, Zenon DEF s, res, v, lost, last0, dropped, shrunk

\* What was lost to the left is the quotient by the width.
LEMMA LostIsQuotient ==
  ASSUME NEW bits \in {W, 2 * W}, NEW n \in 0 .. bits, NEW src \in Int
  PROVE  A!Lost(src, n, bits) = (src * A!Power[n]) \div A!Power[bits]
<1>1. bits \in 1 .. 2 * W /\ W \in Nat
  BY Sizes
<1>2. PICK t \in Nat \ {0}, g \in Nat \ {0} :
           t = A!Power[n] /\ g = A!Power[bits - n] /\ A!Power[bits] = g * t
  <2>1. n \in 0 .. 2 * W /\ bits - n \in 0 .. 2 * W /\ bits - n \in Nat /\ n \in Nat
        /\ (bits - n) + n = bits
    BY <1>1
  <2>2. A!Power[(bits - n) + n] = A!Power[bits - n] * A!Power[n]
    BY <1>1, <2>1, PowerOfSum
  <2> QED BY <2>1, <2>2, PowerSteps
<1>3. PICK k \in Int, e \in 0 .. g - 1 : k = src \div g /\ src = k * g + e
  <2>1. src \div g \in Int /\ src % g \in 0 .. g - 1 /\ src = (src \div g) * g + (src % g)
    OBVIOUS
  <2> QED BY <2>1
<1>4. PICK m \in Nat \ {0} : m = g * t
  OBVIOUS
<1>5. PICK a \in Int : a = src * t
  OBVIOUS
<1>6. a = k * m + e * t
  <2>1. (k * g + e) * t = k * (g * t) + e * t
    OBVIOUS
  <2> QED BY <1>3, <1>4, <1>5, <2>1, Zenon
<1>7. e * t \in 0 .. m - 1
  <2>1. PICK j \in Nat : g = e + 1 + j
    <3>1. g - e - 1 \in Nat /\ g = e + 1 + (g - e - 1)
      OBVIOUS
    <3> QED BY <3>1
  <2>2. (e + 1 + j) * t = e * t + t + j * t /\ e * t \in Nat /\ j * t \in Nat
    OBVIOUS
  <2>3. m = e * t + t + j * t
    BY <1>4, <2>1, <2>2, Zenon
  <2> QED BY <2>2, <2>3
<1>8. a \div m = k
  BY <1>6, <1>7, DivModUnique
<1> QED BY <1>2, <1>3, <1>4, <1>5, <1>8 DEF A!Lost

\* Shifts to the left leave that remainder, and lose that quotient.
LEMMA ResultLeft ==
  ASSUME NEW bits \in {W, 2 * W}, NEW n \in 0 .. 2 * W - 1,
         NEW src \in -(A!Power[bits - 1]) .. A!Power[bits - 1] - 1
  PROVE  LeftOf(src, n, bits, Result(src, n, bits))
<1>1. W \in Nat /\ W >= 4 /\ bits \in 1 .. 2 * W /\ n \in 0 .. 4 * W - 1
  BY Sizes
<1>2. PICK half \in Nat \ {0} : A!Power[bits] = 2 * half /\ A!Power[bits - 1] = half
  BY Sizes
<1>3. PICK m \in Nat \ {0} : m = 2 * half
  OBVIOUS
<1>4. PICK i \in -half .. half - 1 : i = src
  BY <1>2
<1>5. PICK t \in Nat \ {0} : t = A!Power[n]
  BY <1>1, PowerSteps
<1>6. PICK a \in Int : a = i * t
  OBVIOUS
<1>7. PICK x \in 0 .. m - 1, k \in Int : x = a % m /\ k = a \div m
  <2>1. a % m \in 0 .. m - 1 /\ a \div m \in Int
    OBVIOUS
  <2> QED BY <2>1
<1> DEFINE s == A!Shift(src, n, bits)
           p == Result(src, n, bits)
<1>8. p.x = s.x % m /\ p.v = s.v /\ p.c = s.c
  BY <1>2, <1>3 DEF Result
<1> SUFFICES /\ p.x = x /\ p.v \in BOOLEAN /\ p.c \in BOOLEAN
             /\ p.v <=> k # (IF x >= half THEN -1 ELSE 0)
             /\ p.c <=> n # 0 /\ k % 2 = 1
  BY <1>2, <1>3, <1>4, <1>5, <1>6, <1>7, Zenon DEF LeftOf
<1> HIDE DEF p, s
<1>9. CASE n = 0
  <2>1. s = [x |-> src, v |-> FALSE, c |-> FALSE]
    <3>1. src \in Int
      BY <1>4
    <3> QED BY <1>1, <1>9, <3>1, ShiftCases, Zenon DEF s
  <2>2. t = 1
    BY <1>5, <1>9, PowerSteps
  <2>3. a = i
    BY <1>6, <2>2
  <2>4. k = (IF x >= half THEN -1 ELSE 0)
    <3>1. CASE i < 0
      <4>1. PICK e \in 0 .. m - 1 : e = i + m
        BY <1>3, <3>1
      <4>2. a = (-1) * m + e
        BY <2>3, <4>1
      <4>3. a \div m = -1 /\ a % m = e
        BY <4>2, DivModUnique
      <4>4. k = -1 /\ x = e
        BY <1>7, <4>3, Zenon
      <4> QED BY <1>3, <3>1, <4>1, <4>4
    <3>2. CASE ~(i < 0)
      <4>1. a = 0 * m + i /\ i \in 0 .. m - 1
        BY <1>3, <2>3, <3>2
      <4>2. a \div m = 0 /\ a % m = i
        BY <4>1, DivModUnique
      <4>3. k = 0 /\ x = i
        BY <1>7, <4>2, Zenon
      <4> QED BY <1>3, <3>2, <4>1, <4>3
    <3> QED BY <3>1, <3>2
  <2>5. p.x = x
    BY <1>4, <1>7, <1>8, <2>1, <2>3
  <2>6. p.v = FALSE /\ p.c = FALSE
    BY <1>8, <2>1
  <2> QED BY <1>9, <2>4, <2>5, <2>6
<1>10. CASE n \in 1 .. bits - 1
  <2>1. A!Lost(src, n, bits) = k
    <3>1. n \in 0 .. bits /\ src \in Int
      BY <1>1, <1>4, <1>10
    <3>2. A!Lost(src, n, bits) = (src * A!Power[n]) \div A!Power[bits]
      BY <3>1, LostIsQuotient
    <3> QED BY <1>2, <1>3, <1>4, <1>5, <1>6, <1>7, <3>2, Zenon
  <2>2. (src * A!Power[n]) % A!Power[bits] = x
    BY <1>2, <1>3, <1>4, <1>5, <1>6, <1>7, Zenon
  <2> DEFINE v == k # (IF x >= half THEN -1 ELSE 0)
             c == k % 2 = 1
  <2>3. s = [x |-> x, v |-> v, c |-> c]
    <3>1. src \in Int
      BY <1>4
    <3>2. s = [x |-> (src * A!Power[n]) % A!Power[bits],
               v |-> A!Lost(src, n, bits)
                       # (IF (src * A!Power[n]) % A!Power[bits] >= A!Power[bits - 1] THEN -1 ELSE 0),
               c |-> A!Lost(src, n, bits) % 2 = 1]
      BY <1>1, <1>10, <3>1, ShiftCases, Zenon DEF s
    <3> QED BY <1>2, <2>1, <2>2, <3>2, Zenon
  <2>4. v \in BOOLEAN /\ c \in BOOLEAN /\ n # 0
    BY <1>1, <1>10
  <2>5. x % m = x
    BY ModNear
  <2> HIDE DEF v, c
  <2>6. p.x = x /\ p.v = v /\ p.c = c
    BY <1>8, <2>3, <2>5
  <2> QED BY <2>4, <2>6 DEF v, c
<1>11. CASE n \in bits .. 2 * W - 1
  <2>1. PICK g \in Nat \ {0} : g = A!Power[n - bits] /\ t = g * m
    <3>1. n - bits \in Nat /\ n - bits \in 0 .. 2 * W /\ bits \in Nat /\ (n - bits) + bits = n
          /\ n <= 2 * W
      BY <1>1, <1>11
    <3>2. A!Power[(n - bits) + bits] = A!Power[n - bits] * A!Power[bits]
      BY <3>1, PowerOfSum
    <3> QED BY <1>2, <1>3, <1>5, <3>1, <3>2, PowerSteps
  <2>2. PICK j \in Int : j = i * g
    OBVIOUS
  <2>3. k = j /\ x = 0
    <3>1. i * (g * m) = (i * g) * m
      OBVIOUS
    <3>2. a = j * m + 0 /\ 0 \in 0 .. m - 1
      BY <1>6, <2>1, <2>2, <3>1
    <3>3. a \div m = j /\ a % m = 0
      BY <3>2, DivModUnique
    <3> QED BY <1>7, <3>3, Zenon
  <2>4. j # 0 <=> i # 0
    BY <2>2
  <2> DEFINE v == src # 0
             c == j % 2 = 1
  <2>5. s = [x |-> 0, v |-> v, c |-> c]
    <3>1. src \in Int
      BY <1>4
    <3>2. s = [x |-> 0, v |-> src # 0, c |-> (src * A!Power[n - bits]) % 2 = 1]
      BY <1>1, <1>11, <3>1, ShiftCases, Zenon DEF s
    <3> QED BY <1>4, <2>1, <2>2, <3>2, Zenon
  <2>6. v \in BOOLEAN /\ c \in BOOLEAN /\ n # 0
    BY <1>1, <1>11
  <2>7. 0 % m = 0
    BY ModNear
  <2>8. v <=> j # 0
    BY <1>4, <2>4
  <2> HIDE DEF v, c
  <2>9. p.x = 0 /\ p.v = v /\ p.c = c
    BY <1>8, <2>5, <2>7
  <2>10. (IF x >= half THEN -1 ELSE 0) = 0
    BY <2>3
  <2> QED BY <2>3, <2>6, <2>8, <2>9, <2>10 DEF c
<1> QED BY <1>1, <1>9, <1>10, <1>11

\* Shifts to the right leave the quotient by that power, and drop its last bit.
LEMMA ResultRight ==
  ASSUME NEW bits \in {W, 2 * W}, NEW n \in 0 .. 2 * W,
         NEW src \in -(A!Power[bits - 1]) .. A!Power[bits - 1] - 1
  PROVE  RightOf(src, n, bits, Result(src, (4 * W - n) % (4 * W), bits))
<1>1. W \in Nat /\ W >= 4 /\ bits \in 1 .. 2 * W
  BY Sizes
<1>2. PICK half \in Nat \ {0} : A!Power[bits] = 2 * half /\ A!Power[bits - 1] = half
  BY Sizes
<1>3. PICK m \in Nat \ {0} : m = 2 * half
  OBVIOUS
<1>4. PICK i \in -half .. half - 1 : i = src
  BY <1>2
<1>5. PICK code \in 0 .. 4 * W - 1 :
           code = (4 * W - n) % (4 * W) /\ code = (IF n = 0 THEN 0 ELSE 4 * W - n)
  <2>1. PICK d \in Nat \ {0} : d = 4 * W
    BY <1>1
  <2>2. (d - n) % d = (IF n = 0 THEN 0 ELSE d - n)
    <3>1. CASE n = 0
      <4>1. d - n = 1 * d + 0 /\ 0 \in 0 .. d - 1 /\ d - n \in Int
        BY <3>1
      <4>2. (d - n) % d = 0
        BY <4>1, DivModUnique
      <4> QED BY <3>1, <4>2
    <3>2. CASE n # 0
      <4>1. PICK e \in 0 .. d - 1 : e = d - n
        <5>1. n \in Int /\ n >= 1 /\ n <= 2 * W
          BY <1>1, <3>2
        <5>2. d - n \in Int /\ d - n >= 0 /\ d - n <= d - 1
          BY <1>1, <2>1, <5>1
        <5>3. d - n \in 0 .. d - 1
          BY <5>2
        <5> QED BY <5>3, Zenon
      <4>2. e \in Int /\ e = 0 * d + e
        OBVIOUS
      <4>3. e % d = e
        BY <4>2, DivModUnique
      <4> QED BY <3>2, <4>1, <4>3
    <3> QED BY <3>1, <3>2
  <2>3. (4 * W - n) % (4 * W) = (IF n = 0 THEN 0 ELSE 4 * W - n)
    BY <2>1, <2>2, Zenon
  <2>4. (IF n = 0 THEN 0 ELSE 4 * W - n) \in 0 .. 4 * W - 1
    BY <1>1
  <2> QED BY <2>3, <2>4
<1> DEFINE s == A!Shift(src, code, bits)
           p == Result(src, code, bits)
<1>6. p.x = s.x % A!Power[bits] /\ p.v = s.v /\ p.c = s.c
  BY DEF Result
<1> SUFFICES /\ p.x = (src \div A!Power[n]) % A!Power[bits]
             /\ p.v = FALSE /\ p.c \in BOOLEAN
             /\ p.c <=> n # 0 /\ (src \div A!Power[n - 1]) % 2 = 1
  BY <1>5, Zenon DEF RightOf
<1> HIDE DEF p, s
<1>7. src \in Int
  BY <1>4
<1>8. CASE n = 0
  <2>1. code = 0
    BY <1>5, <1>8
  <2>2. s = [x |-> src, v |-> FALSE, c |-> FALSE]
    BY <1>7, <2>1, ShiftCases, Zenon DEF s
  <2>3. A!Power[n] = 1
    BY <1>8, PowerSteps
  <2>4. src \div A!Power[n] = src
    <3>1. i = i * 1 + 0 /\ 0 \in 0 .. 1 - 1
      OBVIOUS
    <3>2. i \div 1 = i
      BY <3>1, DivModUnique
    <3> QED BY <1>4, <2>3, <3>2, Zenon
  <2>5. p.x = src % A!Power[bits] /\ p.v = FALSE /\ p.c = FALSE
    BY <1>6, <2>2
  <2> QED BY <1>8, <2>4, <2>5
<1>9. CASE n \in 1 .. 2 * W - 1
  <2>1. code \in 2 * W + 1 .. 4 * W - 1 /\ 4 * W - code = n
    BY <1>1, <1>5, <1>9
  <2> DEFINE c == (src \div A!Power[n - 1]) % 2 = 1
  <2>2. s = [x |-> src \div A!Power[n], v |-> FALSE, c |-> c]
    <3>1. s = [x |-> src \div A!Power[4 * W - code], v |-> FALSE,
               c |-> (src \div A!Power[4 * W - code - 1]) % 2 = 1]
      BY <1>7, <2>1, ShiftCases, Zenon DEF s
    <3> QED BY <2>1, <3>1, Zenon
  <2>3. c \in BOOLEAN /\ n # 0
    BY <1>9
  <2> HIDE DEF c
  <2>4. p.x = (src \div A!Power[n]) % A!Power[bits] /\ p.v = FALSE /\ p.c = c
    BY <1>6, <2>2
  <2> QED BY <2>3, <2>4, Zenon DEF c
<1>10. CASE n = 2 * W
  <2>1. code = 2 * W
    BY <1>1, <1>5, <1>10
  <2> DEFINE c == src < 0
             x == IF src < 0 THEN -1 ELSE 0
  <2>2. s = [x |-> x, v |-> FALSE, c |-> c]
    BY <1>7, <2>1, ShiftCases, Zenon DEF s
  <2>3. PICK g \in Nat \ {0} : /\ g = A!Power[2 * W - 1] /\ A!Power[2 * W] = 2 * g
                               /\ half <= g
    <3>1. CASE bits = 2 * W
      BY <1>2, <3>1
    <3>2. CASE bits = W
      <4>1. A!Power[2 * W - 1] = half * (2 * half) /\ A!Power[2 * W] = (2 * half) * (2 * half)
        BY <1>2, <3>2, PairHalf
      <4>2. PICK g \in Nat \ {0} : g = half * (2 * half)
        OBVIOUS
      <4>3. (2 * half) * (2 * half) = 2 * (half * (2 * half)) /\ half <= half * (2 * half)
        <5>1. half * half >= half /\ half * half \in Nat /\ half * (2 * half) = 2 * (half * half)
          OBVIOUS
        <5>2. (2 * half) * (2 * half) = 2 * (half * (2 * half))
          OBVIOUS
        <5> QED BY <5>1, <5>2
      <4> QED BY <4>1, <4>2, <4>3
    <3> QED BY <3>1, <3>2
  <2>4. i \div (2 * g) = x /\ i \div g = x
    <3>1. PICK j \in {-1, 0} : j = x
      OBVIOUS
    <3>2. PICK e \in 0 .. g - 1 : i = j * g + e
      <4>1. i - j * g \in 0 .. g - 1 /\ i = j * g + (i - j * g)
        <5>1. (-1) * g = -g /\ 0 * g = 0
          OBVIOUS
        <5> QED BY <1>4, <2>3, <3>1, <5>1
      <4> QED BY <4>1
    <3>3. PICK e2 \in 0 .. 2 * g - 1 : i = j * (2 * g) + e2
      <4>1. i - j * (2 * g) \in 0 .. 2 * g - 1 /\ i = j * (2 * g) + (i - j * (2 * g))
        <5>1. (-1) * (2 * g) = -(2 * g) /\ 0 * (2 * g) = 0
          OBVIOUS
        <5> QED BY <1>4, <2>3, <3>1, <5>1
      <4> QED BY <4>1
    <3>4. PICK f \in Nat \ {0} : f = 2 * g
      OBVIOUS
    <3>5. i \div g = j
      BY <3>2, DivModUnique
    <3>6. i = j * f + e2 /\ e2 \in 0 .. f - 1
      BY <3>3, <3>4
    <3>7. i \div f = j
      BY <3>6, DivModUnique
    <3> QED BY <3>1, <3>4, <3>5, <3>7
  <2>5. src \div A!Power[n] = x /\ src \div A!Power[n - 1] = x
    BY <1>4, <1>10, <2>3, <2>4, Zenon
  <2>6. x % 2 = 1 <=> c
    <3>1. PICK j \in {-1, 0} : j = x
      OBVIOUS
    <3>2. PICK d \in 0 .. 2 - 1 : d = IF j = -1 THEN 1 ELSE 0
      OBVIOUS
    <3>3. j = j * 2 + d
      BY <3>2
    <3>4. j % 2 = d
      BY <3>3, DivModUnique
    <3> QED BY <3>1, <3>2, <3>4
  <2>7. c \in BOOLEAN /\ n # 0
    BY <1>1, <1>10
  <2> HIDE DEF c, x
  <2>8. p.x = x % A!Power[bits] /\ p.v = FALSE /\ p.c = c
    BY <1>6, <2>2
  <2> QED BY <2>5, <2>6, <2>7, <2>8, Zenon
<1>11. n = 0 \/ n \in 1 .. 2 * W - 1 \/ n = 2 * W
  BY <1>1
<1> QED BY <1>8, <1>9, <1>10, <1>11, Zenon

\* A step repeated.
Iterates(f, step, z, n) == f = [k \in 0 .. n |-> IF k = 0 THEN z ELSE step[f[k - 1]]]

LEMMA IteratesExist ==
  ASSUME NEW S, NEW step \in [S -> S], NEW z \in S, NEW n \in Nat
  PROVE  \E f \in [0 .. n -> S] : Iterates(f, step, z, n)
<1> DEFINE T == {m \in Nat : \E f \in [0 .. m -> S] : Iterates(f, step, z, m)}
<1>1. 0 \in T
  <2> DEFINE f == [k \in 0 .. 0 |-> z]
  <2>1. f \in [0 .. 0 -> S] /\ Iterates(f, step, z, 0)
    BY DEF Iterates
  <2> QED BY <2>1
<1>2. ASSUME NEW m \in Nat, m \in T
      PROVE  m + 1 \in T
  <2>1. PICK f \in [0 .. m -> S] : Iterates(f, step, z, m)
    BY <1>2
  <2> DEFINE g == [k \in 0 .. m + 1 |-> IF k = m + 1 THEN step[f[m]] ELSE f[k]]
  <2>2. g \in [0 .. m + 1 -> S]
    BY <2>1
  <2>3. ASSUME NEW k \in 0 .. m + 1
        PROVE  g[k] = IF k = 0 THEN z ELSE step[g[k - 1]]
    <3>1. CASE k = m + 1
      BY <3>1
    <3>2. CASE k = 0
      BY <2>1, <3>2 DEF Iterates
    <3>3. CASE k # m + 1 /\ k # 0
      <4>1. k \in 0 .. m /\ k - 1 \in 0 .. m /\ k - 1 # m + 1
        BY <3>3
      <4>2. f[k] = step[f[k - 1]]
        BY <2>1, <3>3, <4>1 DEF Iterates
      <4> QED BY <3>3, <4>1, <4>2
    <3> QED BY <3>1, <3>2, <3>3
  <2> HIDE DEF g
  <2>4. Iterates(g, step, z, m + 1)
    BY <2>2, <2>3 DEF Iterates
  <2>5. m + 1 \in Nat
    OBVIOUS
  <2> QED BY <2>2, <2>4, <2>5, Zenon DEF T
<1> HIDE DEF T
<1>3. n \in T
  BY <1>1, <1>2, NatSetInduction
<1> QED BY <1>3 DEF T

\* The shifts by one place, of a word and of a pair.
Start(x) == [x |-> x, v |-> FALSE, c |-> FALSE]

WordLoop(op, most) ==
  CHOOSE f : f = [n \in 0 .. most |-> IF n = 0 THEN Start(aluR[0]) ELSE A!ShiftWord(op, f[n - 1])]

PairLoop(op, most) ==
  CHOOSE f : f = [n \in 0 .. most |-> IF n = 0 THEN Start(A!Pair) ELSE A!ShiftPair(op, f[n - 1])]

LEMMA WordLoops ==
  ASSUME A!TypeOK, NEW op \in {"ASL", "ASR"}, NEW most \in Nat
  PROVE  /\ WordLoop(op, most) \in [0 .. most -> Shifting(W)]
         /\ WordLoop(op, most)[0] = Start(aluR[0])
         /\ \A n \in 0 .. most - 1 :
              WordLoop(op, most)[n + 1] = A!ShiftWord(op, WordLoop(op, most)[n])
<1> DEFINE step == [p \in Shifting(W) |-> A!ShiftWord(op, p)]
           Loop(f) ==
             f = [n \in 0 .. most |->
                    IF n = 0 THEN Start(aluR[0]) ELSE A!ShiftWord(op, f[n - 1])]
           loop == WordLoop(op, most)
<1>1. step \in [Shifting(W) -> Shifting(W)]
  <2> SUFFICES ASSUME NEW p \in Shifting(W) PROVE A!ShiftWord(op, p) \in Shifting(W)
    OBVIOUS
  <2>1. aluCc \in A!Codes
    BY DEF A!TypeOK
  <2>2. A!ShiftWord("ASL", p) \in Shifting(W) /\ A!ShiftWord("ASR", p) \in Shifting(W)
    BY <2>1, WordByOne
  <2> QED BY <2>2
<1>2. Start(aluR[0]) \in Shifting(W)
  BY DEF A!TypeOK, A!Regs, A!Word, Start, Shifting
<1> HIDE DEF step
<1>3. PICK f \in [0 .. most -> Shifting(W)] :
           f = [n \in 0 .. most |-> IF n = 0 THEN Start(aluR[0]) ELSE step[f[n - 1]]]
  <2>1. \E f \in [0 .. most -> Shifting(W)] : Iterates(f, step, Start(aluR[0]), most)
    BY <1>1, <1>2, IteratesExist, Zenon
  <2> QED BY <2>1, Zenon DEF Iterates
<1>4. Loop(f)
  <2>1. \A n \in 0 .. most : n # 0 => step[f[n - 1]] = A!ShiftWord(op, f[n - 1])
    <3> SUFFICES ASSUME NEW n \in 0 .. most, n # 0
                 PROVE  step[f[n - 1]] = A!ShiftWord(op, f[n - 1])
      OBVIOUS
    <3>1. n - 1 \in 0 .. most
      OBVIOUS
    <3>2. f[n - 1] \in Shifting(W)
      BY <1>3, <3>1, Zenon
    <3> QED BY <3>2, Zenon DEF step
  <2>2. [n \in 0 .. most |-> IF n = 0 THEN Start(aluR[0]) ELSE step[f[n - 1]]]
          = [n \in 0 .. most |-> IF n = 0 THEN Start(aluR[0]) ELSE A!ShiftWord(op, f[n - 1])]
    BY <2>1
  <2> QED BY <1>3, <2>2, Zenon
<1>5. loop = CHOOSE g : Loop(g)
  BY Zenon DEF WordLoop
<1> HIDE DEF Loop, loop
<1>6. Loop(loop)
  BY <1>4, <1>5, Zenon
<1>7. loop = [n \in 0 .. most |->
                IF n = 0 THEN Start(aluR[0]) ELSE A!ShiftWord(op, loop[n - 1])]
  BY <1>6, Zenon DEF Loop
<1>8. loop[0] = Start(aluR[0])
  BY <1>7
<1>9. \A n \in 0 .. most - 1 : loop[n + 1] = A!ShiftWord(op, loop[n])
  <2> SUFFICES ASSUME NEW n \in 0 .. most - 1
               PROVE  loop[n + 1] = A!ShiftWord(op, loop[n])
    OBVIOUS
  <2>1. n + 1 \in 0 .. most /\ n + 1 # 0 /\ (n + 1) - 1 = n
    OBVIOUS
  <2>2. loop[n + 1] = A!ShiftWord(op, loop[(n + 1) - 1])
    BY <1>7, <2>1, Zenon
  <2> QED BY <2>1, <2>2, Zenon
<1> DEFINE T == {n \in Nat : n <= most => loop[n] \in Shifting(W)}
<1>10. Nat \subseteq T
  <2>1. 0 \in T
    BY <1>2, <1>8
  <2>2. ASSUME NEW n \in Nat, n \in T
        PROVE  n + 1 \in T
    <3> SUFFICES ASSUME n + 1 <= most PROVE loop[n + 1] \in Shifting(W)
      OBVIOUS
    <3>1. n \in 0 .. most - 1 /\ loop[n] \in Shifting(W)
      BY <2>2
    <3>2. loop[n + 1] = step[loop[n]]
      BY <1>9, <3>1, Zenon DEF step
    <3> QED BY <1>1, <3>1, <3>2
  <2> HIDE DEF T
  <2> QED BY <2>1, <2>2, NatSetInduction
<1>11. loop \in [0 .. most -> Shifting(W)]
  <2>1. \A n \in 0 .. most : loop[n] \in Shifting(W)
    BY <1>10
  <2>2. loop = [n \in 0 .. most |-> loop[n]]
    BY <1>7
  <2> QED BY <2>1, <2>2
<1> QED BY <1>8, <1>9, <1>11, Zenon DEF loop

LEMMA PairLoops ==
  ASSUME A!TypeOK, NEW op \in {"ASL", "ASR"}, NEW most \in Nat
  PROVE  /\ PairLoop(op, most) \in [0 .. most -> Shifting(2 * W)]
         /\ PairLoop(op, most)[0] = Start(A!Pair)
         /\ \A n \in 0 .. most - 1 :
              PairLoop(op, most)[n + 1] = A!ShiftPair(op, PairLoop(op, most)[n])
<1> DEFINE step == [p \in Shifting(2 * W) |-> A!ShiftPair(op, p)]
           Loop(f) ==
             f = [n \in 0 .. most |->
                    IF n = 0 THEN Start(A!Pair) ELSE A!ShiftPair(op, f[n - 1])]
           loop == PairLoop(op, most)
<1>1. step \in [Shifting(2 * W) -> Shifting(2 * W)]
  <2> SUFFICES ASSUME NEW p \in Shifting(2 * W) PROVE A!ShiftPair(op, p) \in Shifting(2 * W)
    OBVIOUS
  <2>1. aluCc \in A!Codes
    BY DEF A!TypeOK
  <2>2. A!ShiftPair("ASL", p) \in Shifting(2 * W) /\ A!ShiftPair("ASR", p) \in Shifting(2 * W)
    BY <2>1, PairLeft, PairRight
  <2> QED BY <2>2
<1>2. Start(A!Pair) \in Shifting(2 * W)
  <2>1. A!Pair \in 0 .. A!Power[2 * W] - 1
    BY JoinedType DEF A!Pair, A!Regs
  <2> QED BY <2>1 DEF Start, Shifting
<1> HIDE DEF step
<1>3. PICK f \in [0 .. most -> Shifting(2 * W)] :
           f = [n \in 0 .. most |-> IF n = 0 THEN Start(A!Pair) ELSE step[f[n - 1]]]
  <2>1. \E f \in [0 .. most -> Shifting(2 * W)] : Iterates(f, step, Start(A!Pair), most)
    BY <1>1, <1>2, IteratesExist, Zenon
  <2> QED BY <2>1, Zenon DEF Iterates
<1>4. Loop(f)
  <2>1. \A n \in 0 .. most : n # 0 => step[f[n - 1]] = A!ShiftPair(op, f[n - 1])
    <3> SUFFICES ASSUME NEW n \in 0 .. most, n # 0
                 PROVE  step[f[n - 1]] = A!ShiftPair(op, f[n - 1])
      OBVIOUS
    <3>1. n - 1 \in 0 .. most
      OBVIOUS
    <3>2. f[n - 1] \in Shifting(2 * W)
      BY <1>3, <3>1, Zenon
    <3> QED BY <3>2, Zenon DEF step
  <2>2. [n \in 0 .. most |-> IF n = 0 THEN Start(A!Pair) ELSE step[f[n - 1]]]
          = [n \in 0 .. most |-> IF n = 0 THEN Start(A!Pair) ELSE A!ShiftPair(op, f[n - 1])]
    BY <2>1
  <2> QED BY <1>3, <2>2, Zenon
<1>5. loop = CHOOSE g : Loop(g)
  BY Zenon DEF PairLoop
<1> HIDE DEF Loop, loop
<1>6. Loop(loop)
  BY <1>4, <1>5, Zenon
<1>7. loop = [n \in 0 .. most |->
                IF n = 0 THEN Start(A!Pair) ELSE A!ShiftPair(op, loop[n - 1])]
  BY <1>6, Zenon DEF Loop
<1>8. loop[0] = Start(A!Pair)
  BY <1>7
<1>9. \A n \in 0 .. most - 1 : loop[n + 1] = A!ShiftPair(op, loop[n])
  <2> SUFFICES ASSUME NEW n \in 0 .. most - 1
               PROVE  loop[n + 1] = A!ShiftPair(op, loop[n])
    OBVIOUS
  <2>1. n + 1 \in 0 .. most /\ n + 1 # 0 /\ (n + 1) - 1 = n
    OBVIOUS
  <2>2. loop[n + 1] = A!ShiftPair(op, loop[(n + 1) - 1])
    BY <1>7, <2>1, Zenon
  <2> QED BY <2>1, <2>2, Zenon
<1> DEFINE T == {n \in Nat : n <= most => loop[n] \in Shifting(2 * W)}
<1>10. Nat \subseteq T
  <2>1. 0 \in T
    BY <1>2, <1>8
  <2>2. ASSUME NEW n \in Nat, n \in T
        PROVE  n + 1 \in T
    <3> SUFFICES ASSUME n + 1 <= most PROVE loop[n + 1] \in Shifting(2 * W)
      OBVIOUS
    <3>1. n \in 0 .. most - 1 /\ loop[n] \in Shifting(2 * W)
      BY <2>2
    <3>2. loop[n + 1] = step[loop[n]]
      BY <1>9, <3>1, Zenon DEF step
    <3> QED BY <1>1, <3>1, <3>2
  <2> HIDE DEF T
  <2> QED BY <2>1, <2>2, NatSetInduction
<1>11. loop \in [0 .. most -> Shifting(2 * W)]
  <2>1. \A n \in 0 .. most : loop[n] \in Shifting(2 * W)
    BY <1>10
  <2>2. loop = [n \in 0 .. most |-> loop[n]]
    BY <1>7
  <2> QED BY <2>1, <2>2
<1> QED BY <1>8, <1>9, <1>11, Zenon DEF loop

\* What one operand and one count of places leave is the only one.
LEMMA LeftUnique ==
  ASSUME NEW src, NEW n, NEW bits, NEW p, NEW q, LeftOf(src, n, bits, p), LeftOf(src, n, bits, q)
  PROVE  p.x = q.x /\ p.v = q.v /\ p.c = q.c
<1>1. p.x = q.x
  BY Zenon DEF LeftOf
<1>2. p.v \in BOOLEAN /\ q.v \in BOOLEAN /\ (p.v <=> q.v)
  BY Zenon DEF LeftOf
<1>3. p.c \in BOOLEAN /\ q.c \in BOOLEAN /\ (p.c <=> q.c)
  BY Zenon DEF LeftOf
<1> QED BY <1>1, <1>2, <1>3

LEMMA RightUnique ==
  ASSUME NEW src, NEW n, NEW bits, NEW p, NEW q, RightOf(src, n, bits, p), RightOf(src, n, bits, q)
  PROVE  p.x = q.x /\ p.v = q.v /\ p.c = q.c
<1>1. p.x = q.x /\ p.v = q.v
  BY Zenon DEF RightOf
<1>2. p.c \in BOOLEAN /\ q.c \in BOOLEAN /\ (p.c <=> q.c)
  BY Zenon DEF RightOf
<1> QED BY <1>1, <1>2

\* No places: the operand.
LEMMA StartIsBoth ==
  ASSUME NEW bits \in {W, 2 * W}, NEW x \in 0 .. A!Power[bits] - 1
  PROVE  /\ LeftOf(A!Signed(x, bits), 0, bits, Start(x))
         /\ RightOf(A!Signed(x, bits), 0, bits, Start(x))
<1>1. PICK half \in Nat \ {0} : A!Power[bits] = 2 * half /\ A!Power[bits - 1] = half
  BY Sizes
<1>2. PICK m \in Nat \ {0} : m = 2 * half
  OBVIOUS
<1>3. PICK i \in Int : i = A!Signed(x, bits)
  BY <1>1 DEF A!Signed
<1>4. i % m = x /\ i \div m = IF x >= half THEN -1 ELSE 0
  BY <1>1, <1>2, <1>3, SignedSpan, Zenon
<1>5. A!Power[0] = 1 /\ i * 1 = i /\ i \div 1 = i
  <2>1. i = i * 1 + 0 /\ 0 \in 0 .. 1 - 1
    OBVIOUS
  <2>2. i \div 1 = i
    BY <2>1, DivModUnique
  <2> QED BY <2>1, <2>2, PowerSteps
<1>6. Start(x).x = x /\ Start(x).v = FALSE /\ Start(x).c = FALSE
  BY DEF Start
<1>7. i * A!Power[0] = i /\ i \div A!Power[0] = i
  BY <1>5, Zenon
<1>8. LeftOf(i, 0, bits, Start(x))
  <2>1. /\ Start(x).v <=> i \div m # (IF i % m >= half THEN -1 ELSE 0)
        /\ Start(x).c <=> 0 # 0 /\ (i \div m) % 2 = 1
    BY <1>4, <1>6
  <2> QED BY <1>1, <1>2, <1>4, <1>6, <1>7, <2>1, Zenon DEF LeftOf
<1>9. RightOf(i, 0, bits, Start(x))
  BY <1>1, <1>2, <1>4, <1>6, <1>7, Zenon DEF RightOf
<1> QED BY <1>3, <1>8, <1>9, Zenon

\* The loops to the left leave what one shift by as many places does.
LEMMA LeftLoop ==
  ASSUME NEW bits \in {W, 2 * W}, NEW x \in 0 .. A!Power[bits] - 1, NEW f, f[0] = Start(x),
         \A n \in 0 .. 2 * W - 2 : OneLeft(f[n], f[n + 1], bits)
  PROVE  \A n \in 0 .. 2 * W - 1 :
           LET q == Result(A!Signed(x, bits), n, bits)
           IN f[n].x = q.x /\ f[n].v = q.v /\ f[n].c = q.c
<1>1. W \in Nat /\ W >= 4
  BY Sizes
<1>2. PICK src \in -(A!Power[bits - 1]) .. A!Power[bits - 1] - 1 : src = A!Signed(x, bits)
  BY SignedSpan
<1>3. src \in Int
  BY <1>2, Sizes
<1> DEFINE S == {n \in Nat : n <= 2 * W - 1 => LeftOf(src, n, bits, f[n])}
<1>4. Nat \subseteq S
  <2>1. 0 \in S
    <3>1. LeftOf(src, 0, bits, f[0])
      BY <1>2, StartIsBoth, Zenon
    <3> QED BY <3>1
  <2>2. ASSUME NEW n \in Nat, n \in S
        PROVE  n + 1 \in S
    <3> SUFFICES ASSUME n + 1 <= 2 * W - 1 PROVE LeftOf(src, n + 1, bits, f[n + 1])
      OBVIOUS
    <3>1. n \in 0 .. 2 * W - 2 /\ n \in 0 .. 2 * W - 1 /\ n <= 2 * W - 1
      BY <1>1
    <3>2. LeftOf(src, n, bits, f[n])
      BY <2>2, <3>1
    <3>3. OneLeft(f[n], f[n + 1], bits)
      BY <3>1
    <3> QED BY <1>3, <3>1, <3>2, <3>3, LeftAgain, Zenon
  <2> HIDE DEF S
  <2> QED BY <2>1, <2>2, NatSetInduction
<1> SUFFICES ASSUME NEW n \in 0 .. 2 * W - 1
             PROVE  LET q == Result(src, n, bits)
                    IN f[n].x = q.x /\ f[n].v = q.v /\ f[n].c = q.c
  BY <1>2, Zenon
<1>5. LeftOf(src, n, bits, f[n])
  <2>1. n \in Nat /\ n <= 2 * W - 1
    BY <1>1
  <2> QED BY <1>4, <2>1
<1>6. LeftOf(src, n, bits, Result(src, n, bits))
  BY ResultLeft
<1> DEFINE p == f[n]
           q == Result(src, n, bits)
<1> HIDE DEF p, q
<1>7. LeftOf(src, n, bits, p) /\ LeftOf(src, n, bits, q)
  BY <1>5, <1>6, Zenon DEF p, q
<1>8. p.x = q.x /\ p.v = q.v /\ p.c = q.c
  BY <1>7, LeftUnique
<1> QED BY <1>8, Zenon DEF p, q

\* The loops to the right too.
LEMMA RightLoop ==
  ASSUME NEW bits \in {W, 2 * W}, NEW x \in 0 .. A!Power[bits] - 1, NEW f, f[0] = Start(x),
         \A n \in 0 .. 2 * W - 1 : OneRight(f[n], f[n + 1], bits)
  PROVE  \A n \in 0 .. 2 * W :
           LET q == Result(A!Signed(x, bits), (4 * W - n) % (4 * W), bits)
           IN f[n].x = q.x /\ f[n].v = q.v /\ f[n].c = q.c
<1>1. W \in Nat /\ W >= 4
  BY Sizes
<1>2. PICK src \in -(A!Power[bits - 1]) .. A!Power[bits - 1] - 1 : src = A!Signed(x, bits)
  BY SignedSpan
<1> DEFINE S == {n \in Nat : n <= 2 * W => RightOf(src, n, bits, f[n])}
<1>4. Nat \subseteq S
  <2>1. 0 \in S
    <3>1. RightOf(src, 0, bits, f[0])
      BY <1>2, StartIsBoth, Zenon
    <3> QED BY <3>1
  <2>2. ASSUME NEW n \in Nat, n \in S
        PROVE  n + 1 \in S
    <3> SUFFICES ASSUME n + 1 <= 2 * W PROVE RightOf(src, n + 1, bits, f[n + 1])
      OBVIOUS
    <3>1. n \in 0 .. 2 * W - 1 /\ n <= 2 * W
      BY <1>1
    <3>2. RightOf(src, n, bits, f[n])
      BY <2>2, <3>1
    <3>3. OneRight(f[n], f[n + 1], bits)
      BY <3>1
    <3> QED BY <3>1, <3>2, <3>3, RightAgain, Zenon
  <2> HIDE DEF S
  <2> QED BY <2>1, <2>2, NatSetInduction
<1> SUFFICES ASSUME NEW n \in 0 .. 2 * W
             PROVE  LET q == Result(src, (4 * W - n) % (4 * W), bits)
                    IN f[n].x = q.x /\ f[n].v = q.v /\ f[n].c = q.c
  BY <1>2, Zenon
<1>5. RightOf(src, n, bits, f[n])
  <2>1. n \in Nat /\ n <= 2 * W
    BY <1>1
  <2> QED BY <1>4, <2>1
<1>6. RightOf(src, n, bits, Result(src, (4 * W - n) % (4 * W), bits))
  BY ResultRight
<1> DEFINE p == f[n]
           q == Result(src, (4 * W - n) % (4 * W), bits)
<1> HIDE DEF p, q
<1>7. RightOf(src, n, bits, p) /\ RightOf(src, n, bits, q)
  BY <1>5, <1>6, Zenon DEF p, q
<1>8. p.x = q.x /\ p.v = q.v /\ p.c = q.c
  BY <1>7, RightUnique
<1> QED BY <1>8, Zenon DEF p, q

\* ASH and ASHC leave that result in one register and in two.
Leaves(o, res, q) == res = q.x /\ o.cc.v = q.v /\ o.cc.c = q.c

LEMMA AshLeaves ==
  ASSUME A!TypeOK, NEW code \in 0 .. 4 * W - 1
  PROVE  Leaves(A!Ash(0, code), A!Ash(0, code).r[0], Result(A!Signed(aluR[0], W), code, W))
<1>1. W \in Nat /\ W >= 4
  BY Sizes
<1>2. code % (4 * W) = code
  <2>1. PICK d \in Nat \ {0} : d = 4 * W
    BY <1>1
  <2>2. code \in Int /\ code \in 0 .. d - 1
    BY <2>1
  <2>3. code % d = code
    BY <2>2, ModNear
  <2> QED BY <2>1, <2>3, Zenon
<1> DEFINE s == A!Shift(A!Signed(aluR[0], W), code, W)
           o == A!Outcome(s.x % A!Power[W], FALSE, s.v, s.c)
           one == A!Ash(0, code)
           q == Result(A!Signed(aluR[0], W), code, W)
<1>3. one = [r |-> [aluR EXCEPT ![0] = o.res], cc |-> o.cc]
  BY <1>2, Zenon DEF A!Ash
<1>4. q.x = s.x % A!Power[W] /\ q.v = s.v /\ q.c = s.c
  BY DEF Result
<1>5. o.res = s.x % A!Power[W] /\ o.cc.v = s.v /\ o.cc.c = s.c
  BY DEF A!Outcome
<1>6. 0 \in DOMAIN aluR
  BY DEF A!TypeOK, A!Regs
<1> HIDE DEF one, o, q, s
<1>7. one.r[0] = o.res /\ one.cc = o.cc
  BY <1>3, <1>6
<1>8. one.r[0] = q.x /\ one.cc.v = q.v /\ one.cc.c = q.c
  BY <1>4, <1>5, <1>7
<1> QED BY <1>8, Zenon DEF Leaves, one, q

LEMMA AshcLeaves ==
  ASSUME A!TypeOK, NEW code \in 0 .. 4 * W - 1,
         Result(A!Signed(A!Pair, 2 * W), code, 2 * W).x \in 0 .. A!Power[2 * W] - 1
  PROVE  LET two == A!Ashc(0, code)
         IN Leaves(two, two.r[0] * A!Power[W] + two.r[1],
                   Result(A!Signed(A!Pair, 2 * W), code, 2 * W))
<1>1. W \in Nat /\ W >= 4
  BY Sizes
<1>2. code % (4 * W) = code
  <2>1. PICK d \in Nat \ {0} : d = 4 * W
    BY <1>1
  <2>2. code \in Int /\ code \in 0 .. d - 1
    BY <2>1
  <2>3. code % d = code
    BY <2>2, ModNear
  <2> QED BY <2>1, <2>3, Zenon
<1> DEFINE s == A!Shift(A!Signed(A!Pair, 2 * W), code, 2 * W)
           both == s.x % A!Power[2 * W]
           two == A!Ashc(0, code)
           q == Result(A!Signed(A!Pair, 2 * W), code, 2 * W)
<1>3. /\ two.r = [aluR EXCEPT ![0] = both \div A!Power[W], ![1] = both % A!Power[W]]
      /\ two.cc.v = s.v /\ two.cc.c = s.c
  <2>1. two = [r |-> A!Split(0, both),
               cc |-> [n |-> both >= A!Power[2 * W - 1], z |-> both = 0,
                       v |-> s.v, c |-> s.c]]
    BY <1>2, Zenon DEF A!Ashc, A!Pair
  <2>2. A!Split(0, both) = [aluR EXCEPT ![0] = both \div A!Power[W], ![1] = both % A!Power[W]]
    BY Zenon DEF A!Split
  <2> HIDE DEF two, both, s
  <2>3. two.r = A!Split(0, both) /\ two.cc.v = s.v /\ two.cc.c = s.c
    BY <2>1
  <2> QED BY <2>2, <2>3, Zenon
<1>4. q.x = both /\ q.v = s.v /\ q.c = s.c
  BY DEF Result
<1>5. aluR \in [{0, 1} -> A!Word]
  BY DEF A!TypeOK, A!Regs
<1> HIDE DEF two, both, q, s
<1>6. two.r[0] = both \div A!Power[W] /\ two.r[1] = both % A!Power[W]
  BY <1>3, <1>5
<1>7. both = (both \div A!Power[W]) * A!Power[W] + (both % A!Power[W])
  <2>1. both \in 0 .. A!Power[2 * W] - 1
    BY <1>4, Zenon DEF q
  <2> QED BY <2>1, WordsOfPair, Zenon
<1>8. two.r[0] * A!Power[W] + two.r[1] = q.x
  BY <1>4, <1>6, <1>7, Zenon
<1>9. Leaves(two, two.r[0] * A!Power[W] + two.r[1], q)
  BY <1>3, <1>4, <1>8, Zenon DEF Leaves
<1> QED BY <1>9, Zenon DEF two, q

\* Shifts in one direction.
LoopsAgree(op, most, n, code) ==
  LET one == A!Ash(0, code)
      two == A!Ashc(0, code)
  IN /\ Leaves(one, one.r[0], WordLoop(op, most)[n])
     /\ Leaves(two, two.r[0] * A!Power[W] + two.r[1], PairLoop(op, most)[n])

LEMMA Agreement ==
  ASSUME A!TypeOK, NEW op, NEW most, NEW n, NEW code \in 0 .. 4 * W - 1,
         LET p == WordLoop(op, most)[n]
             q == Result(A!Signed(aluR[0], W), code, W)
         IN p.x = q.x /\ p.v = q.v /\ p.c = q.c,
         LET p == PairLoop(op, most)[n]
             q == Result(A!Signed(A!Pair, 2 * W), code, 2 * W)
         IN p.x = q.x /\ p.v = q.v /\ p.c = q.c,
         PairLoop(op, most)[n] \in Shifting(2 * W)
  PROVE  LoopsAgree(op, most, n, code)
<1> DEFINE p == WordLoop(op, most)[n]
           q == Result(A!Signed(aluR[0], W), code, W)
           p2 == PairLoop(op, most)[n]
           q2 == Result(A!Signed(A!Pair, 2 * W), code, 2 * W)
           one == A!Ash(0, code)
           two == A!Ashc(0, code)
<1>1. p.x = q.x /\ p.v = q.v /\ p.c = q.c /\ p2.x = q2.x /\ p2.v = q2.v /\ p2.c = q2.c
  BY Zenon
<1>2. Leaves(one, one.r[0], q)
  BY AshLeaves, Zenon
<1>3. Leaves(two, two.r[0] * A!Power[W] + two.r[1], q2)
  <2>1. p2.x \in 0 .. A!Power[2 * W] - 1
    <3> HIDE DEF p2
    <3>1. p2 \in Shifting(2 * W)
      BY Zenon DEF p2
    <3> QED BY <3>1 DEF Shifting
  <2>2. q2.x \in 0 .. A!Power[2 * W] - 1
    BY <1>1, <2>1, Zenon
  <2> QED BY <2>2, AshcLeaves, Zenon
<1> HIDE DEF p, q, p2, q2, one, two
<1>4. Leaves(one, one.r[0], p) /\ Leaves(two, two.r[0] * A!Power[W] + two.r[1], p2)
  BY <1>1, <1>2, <1>3, Zenon DEF Leaves
<1> QED BY <1>4, Zenon DEF LoopsAgree, p, p2, one, two

LEMMA LeftAgrees ==
  ASSUME A!TypeOK
  PROVE  \A n \in 0 .. 2 * W - 1 : LoopsAgree("ASL", 2 * W - 1, n, n)
<1>1. W \in Nat /\ W >= 4 /\ 2 * W - 1 \in Nat
  BY Sizes
<1>2. aluCc \in A!Codes /\ aluR[0] \in 0 .. A!Power[W] - 1
      /\ A!Pair \in 0 .. A!Power[2 * W] - 1
  BY JoinedType DEF A!TypeOK, A!Regs, A!Word, A!Pair
<1> DEFINE most == 2 * W - 1
           word == WordLoop("ASL", most)
           pair == PairLoop("ASL", most)
<1>3. /\ word \in [0 .. most -> Shifting(W)] /\ word[0] = Start(aluR[0])
      /\ \A n \in 0 .. most - 1 : word[n + 1] = A!ShiftWord("ASL", word[n])
  BY <1>1, WordLoops
<1>4. /\ pair \in [0 .. most -> Shifting(2 * W)] /\ pair[0] = Start(A!Pair)
      /\ \A n \in 0 .. most - 1 : pair[n + 1] = A!ShiftPair("ASL", pair[n])
  BY <1>1, PairLoops
<1> HIDE DEF word, pair
<1>5. ASSUME NEW n \in 0 .. 2 * W - 2
      PROVE  OneLeft(word[n], word[n + 1], W) /\ OneLeft(pair[n], pair[n + 1], 2 * W)
  <2>1. n \in 0 .. most - 1 /\ n \in 0 .. most
    BY <1>1
  <2>2. word[n] \in Shifting(W) /\ pair[n] \in Shifting(2 * W)
    BY <1>3, <1>4, <2>1
  <2>3. OneLeft(word[n], A!ShiftWord("ASL", word[n]), W)
    BY <1>2, <2>2, WordByOne, Zenon
  <2>4. OneLeft(pair[n], A!ShiftPair("ASL", pair[n]), 2 * W)
    BY <1>2, <2>2, PairLeft, Zenon
  <2> QED BY <1>3, <1>4, <2>1, <2>3, <2>4, Zenon
<1>6. \A n \in 0 .. 2 * W - 1 :
        LET q == Result(A!Signed(aluR[0], W), n, W)
        IN word[n].x = q.x /\ word[n].v = q.v /\ word[n].c = q.c
  <2>1. W \in {W, 2 * W}
    OBVIOUS
  <2> QED BY <1>2, <1>3, <1>5, <2>1, LeftLoop, Zenon
<1>7. \A n \in 0 .. 2 * W - 1 :
        LET q == Result(A!Signed(A!Pair, 2 * W), n, 2 * W)
        IN pair[n].x = q.x /\ pair[n].v = q.v /\ pair[n].c = q.c
  <2>1. 2 * W \in {W, 2 * W}
    OBVIOUS
  <2> QED BY <1>2, <1>4, <1>5, <2>1, LeftLoop, Zenon
<1> SUFFICES ASSUME NEW n \in 0 .. 2 * W - 1
             PROVE  LoopsAgree("ASL", most, n, n)
  OBVIOUS
<1>8. n \in 0 .. 4 * W - 1
  BY <1>1
<1>9. pair[n] \in Shifting(2 * W)
  BY <1>4
<1> QED BY <1>6, <1>7, <1>8, <1>9, Agreement, Zenon DEF word, pair

LEMMA RightAgrees ==
  ASSUME A!TypeOK
  PROVE  \A n \in 0 .. 2 * W : LoopsAgree("ASR", 2 * W, n, (4 * W - n) % (4 * W))
<1>1. W \in Nat /\ W >= 4 /\ 2 * W \in Nat
  BY Sizes
<1>2. aluCc \in A!Codes /\ aluR[0] \in 0 .. A!Power[W] - 1
      /\ A!Pair \in 0 .. A!Power[2 * W] - 1
  BY JoinedType DEF A!TypeOK, A!Regs, A!Word, A!Pair
<1> DEFINE most == 2 * W
           word == WordLoop("ASR", most)
           pair == PairLoop("ASR", most)
<1>3. /\ word \in [0 .. most -> Shifting(W)] /\ word[0] = Start(aluR[0])
      /\ \A n \in 0 .. most - 1 : word[n + 1] = A!ShiftWord("ASR", word[n])
  BY <1>1, WordLoops
<1>4. /\ pair \in [0 .. most -> Shifting(2 * W)] /\ pair[0] = Start(A!Pair)
      /\ \A n \in 0 .. most - 1 : pair[n + 1] = A!ShiftPair("ASR", pair[n])
  BY <1>1, PairLoops
<1> HIDE DEF word, pair
<1>5. ASSUME NEW n \in 0 .. 2 * W - 1
      PROVE  OneRight(word[n], word[n + 1], W) /\ OneRight(pair[n], pair[n + 1], 2 * W)
  <2>1. n \in 0 .. most - 1 /\ n \in 0 .. most
    BY <1>1
  <2>2. word[n] \in Shifting(W) /\ pair[n] \in Shifting(2 * W)
    BY <1>3, <1>4, <2>1
  <2>3. OneRight(word[n], A!ShiftWord("ASR", word[n]), W)
    BY <1>2, <2>2, WordByOne, Zenon
  <2>4. OneRight(pair[n], A!ShiftPair("ASR", pair[n]), 2 * W)
    BY <1>2, <2>2, PairRight, Zenon
  <2> QED BY <1>3, <1>4, <2>1, <2>3, <2>4, Zenon
<1>6. \A n \in 0 .. 2 * W :
        LET q == Result(A!Signed(aluR[0], W), (4 * W - n) % (4 * W), W)
        IN word[n].x = q.x /\ word[n].v = q.v /\ word[n].c = q.c
  <2>1. W \in {W, 2 * W}
    OBVIOUS
  <2> QED BY <1>2, <1>3, <1>5, <2>1, RightLoop, Zenon
<1>7. \A n \in 0 .. 2 * W :
        LET q == Result(A!Signed(A!Pair, 2 * W), (4 * W - n) % (4 * W), 2 * W)
        IN pair[n].x = q.x /\ pair[n].v = q.v /\ pair[n].c = q.c
  <2>1. 2 * W \in {W, 2 * W}
    OBVIOUS
  <2> QED BY <1>2, <1>4, <1>5, <2>1, RightLoop, Zenon
<1> SUFFICES ASSUME NEW n \in 0 .. 2 * W
             PROVE  LoopsAgree("ASR", most, n, (4 * W - n) % (4 * W))
  OBVIOUS
<1>8. (4 * W - n) % (4 * W) \in 0 .. 4 * W - 1
  <2>1. PICK d \in Nat \ {0}, a \in Int : d = 4 * W /\ a = 4 * W - n
    BY <1>1
  <2>2. a % d \in 0 .. d - 1
    OBVIOUS
  <2> QED BY <2>1, <2>2, Zenon
<1>9. pair[n] \in Shifting(2 * W)
  BY <1>4
<1> QED BY <1>6, <1>7, <1>8, <1>9, Agreement, Zenon DEF word, pair

\* Every shift code does what the loop of single shifts would.
LEMMA ShiftsLikeLoops == A!TypeOK => A!ShiftsByOne
<1> SUFFICES ASSUME A!TypeOK PROVE A!ShiftsByOne
  OBVIOUS
<1>1. ASSUME NEW right \in BOOLEAN
      PROVE  LET op == IF right THEN "ASR" ELSE "ASL"
                 most == IF right THEN 2 * W ELSE 2 * W - 1
             IN \A n \in 0 .. most :
                  LoopsAgree(op, most, n, IF right THEN (4 * W - n) % (4 * W) ELSE n)
  <2>1. CASE right = TRUE
    BY <2>1, RightAgrees
  <2>2. CASE right = FALSE
    BY <2>2, LeftAgrees
  <2> QED BY <2>1, <2>2
<1> QED BY <1>1, Zenon DEF A!ShiftsByOne, LoopsAgree, Leaves, WordLoop, PairLoop, Start

-----------------------------------------------------------------------------
(* Together.                                                                *)

\* cpu.c: every instruction leaves words in the registers.
THEOREM AluTypes == DatapathSpec => []A!TypeOK
<1>1. DatapathInit => A!TypeOK
  BY DEF DatapathInit, A!Init, A!TypeOK
<1>2. A!TypeOK /\ [DatapathNext]_<<unit, vars, aluVars, fpVars>> => A!TypeOK'
  <2> SUFFICES ASSUME A!TypeOK, [DatapathNext]_<<unit, vars, aluVars, fpVars>>
               PROVE  A!TypeOK'
    OBVIOUS
  <2>1. CASE A!Next
    BY <2>1, AluStepTyped
  <2>2. CASE UNCHANGED aluVars
    BY <2>2 DEF aluVars, A!TypeOK, A!Regs, A!Word, A!Codes
  <2> QED BY <2>1, <2>2 DEF DatapathNext, aluVars
<1> QED BY <1>1, <1>2, PTL DEF DatapathSpec

\* cpu.c: alu_add, alu_sub, single_op and branch_taken compute what the integers
\* do, whatever the number of bits of a word: the results, overflow, carry and
\* borrow, the order the branches see, and sums, differences and negations carried
\* from one word to the next.
THEOREM AluComputes == DatapathSpec => []AluArithmeticExact
<1>1. A!TypeOK => AluArithmeticExact
  BY ResultsExact, BranchesCompare, PairsCompute, Zenon DEF AluArithmeticExact, A!ArithmeticExact
<1> QED BY <1>1, AluTypes, PTL

\* cpu.c: op_ash and op_ashc leave what that many shifts by one place do, for every
\* shift code, and op_div leaves the quotient and the remainder of the integers or
\* refuses the division because no quotient fits, whatever the number of bits.
THEOREM AluExtends == DatapathSpec => []AluExtendedExact
<1>1. A!TypeOK => AluExtendedExact
  BY ShiftsLikeLoops, Divides, Zenon DEF AluExtendedExact, A!ExtendedExact
<1> QED BY <1>1, AluTypes, PTL
=============================================================================
