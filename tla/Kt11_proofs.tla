----------------------------- MODULE Kt11_proofs -----------------------------
(***************************************************************************)
(* Memory management and the restart of an aborted instruction, for every    *)
(* geometry, every program of the modelled instructions and every use the    *)
(* operating system makes of the descriptors: what the first abort recorded  *)
(* is kept, a page's W flag says that it was written, and a restartable      *)
(* instruction moves its registers exactly once.                            *)
(***************************************************************************)
EXTENDS Kt11, WellFoundedInduction, TLAPS

-----------------------------------------------------------------------------
(* The first abort is kept.                                                 *)

\* A frozen log, a frozen address and a frozen error take nothing new.
LEMMA FrozenKeeps ==
  ASSUME Frozen
  PROVE  /\ \A log, reg, delta : mmr1_track(log, reg, delta) = log
         /\ \A va, write : Captured(va, write) = mmr0
         /\ ClearedLog = mmr1
         /\ \A address : LatchedAt(address) = mmr2
BY DEF mmr1_track, Captured, ClearedLog, LatchedAt

\* So the registers of a step all have the log as it is.
LEMMA FrozenLogs ==
  ASSUME Frozen
  PROVE  /\ Now.log = mmr1 /\ Fetched.log = mmr1
         /\ MovedOnly.log = mmr1 /\ MovedAndLogged.log = mmr1
BY FrozenKeeps DEF Now, Fetched, MovedOnly, MovedAndLogged

\* A reference changes no record of an abort that is held.
LEMMA FrozenReference ==
  ASSUME Frozen, NEW va, NEW write, NEW word, NEW atFault, NEW atPass,
         atFault.log = mmr1, atPass.log = mmr1,
         Reference(va, write, word, atFault, atPass)
  PROVE  UNCHANGED <<mmr0, mmr1>>
BY FrozenKeeps DEF Reference, Left

\* Nor does a step of an instruction.
LEMMA FrozenExecute == ASSUME Frozen, Execute PROVE UNCHANGED <<mmr0, mmr1, mmr2>>
<1> USE FrozenLogs, FrozenReference
<1>1. CASE Fetch
  BY <1>1 DEF Fetch, Execute
<1>2. CASE Point \/ AutoIncrement \/ AutoDecrement
  BY <1>2 DEF Point, AutoIncrement, AutoDecrement, Resolve, Left, Execute
<1>3. CASE IncrementDeferred
  BY <1>3 DEF IncrementDeferred, Execute
<1>4. CASE DecrementDeferred
  BY <1>4 DEF DecrementDeferred, Execute
<1>5. CASE Index
  BY <1>5 DEF Index, Execute
<1>6. CASE Pointer
  BY <1>6 DEF Pointer, Execute
<1>7. CASE Read
  BY <1>7 DEF Read, Execute
<1>8. CASE Write
  BY <1>8 DEF Write, Execute
<1>9. CASE PushWord
  BY <1>9 DEF PushWord, Execute
<1>10. CASE PopWord
  BY <1>10 DEF PopWord, Execute
<1> QED BY <1>1, <1>2, <1>3, <1>4, <1>5, <1>6, <1>7, <1>8, <1>9, <1>10 DEF Execute

\* While an error is held nothing changes MMR0, MMR1 or MMR2 but the handler
\* that clears it, for any number of pages and any program.
THEOREM FirstAbortIsKept == Spec => FirstAbortKept
<1> DEFINE Kept == Frozen /\ mmr0'.err # {} => UNCHANGED <<mmr0, mmr1, mmr2>>
<1>1. ASSUME Next, Frozen, mmr0'.err # {}
      PROVE  UNCHANGED <<mmr0, mmr1, mmr2>>
  <2> USE FrozenKeeps, <1>1
  <2>1. CASE \E i \in Instructions, at \in PcStarts : Begin(i, at)
    BY <2>1 DEF Begin
  <2>2. CASE Execute
    BY <2>2, FrozenExecute
  <2>3. CASE Retire \/ EndProgram \/ \E p \in Pages, d \in PdrStores : StorePdr(p, d)
    BY <2>3 DEF Retire, EndProgram, StorePdr
  <2>4. CASE HandlerInstruction \/ \E va \in Va : NestedAbort(va)
    BY <2>4 DEF HandlerInstruction, NestedAbort
  <2>5. CASE SaveAndClear
    BY <2>5 DEF SaveAndClear
  <2>6. CASE Resume
    BY <2>6 DEF Resume
  <2> QED BY <2>1, <2>2, <2>3, <2>4, <2>5, <2>6 DEF Next
<1>2. [Next]_vars => [Kept]_vars
  BY <1>1
<1> QED BY <1>2, PTL DEF Spec, FirstAbortKept

-----------------------------------------------------------------------------
(* The plan of an instruction.                                              *)

Logging == {"autoinc", "autodec", "incdef", "decdef"}
Silent == {"fetch", "point", "index", "pointer", "read", "write", "push", "pop"}

\* A step has its fields, and only those of decode_operand that move a register
\* tell MMR1.
PlanStep ==
  {s \in [op : Logging \cup Silent, reg : Registers, delta : Int, tracked : BOOLEAN] :
     s.tracked => s.op \in Logging}

\* No step of a list tells MMR1, at most one does, at most two do.
Tracked(list) == {j \in 1 .. Len(list) : list[j].tracked}
None(list) == Tracked(list) = {}
Once(list) == \A j, k \in Tracked(list) : j = k
Twice(list) == \A j, k, l \in Tracked(list) : j = k \/ k = l \/ j = l

\* The elements of two lists one after the other, and of short lists.
LEMMA ConcatAt ==
  ASSUME NEW S, NEW s \in Seq(S), NEW t \in Seq(S), NEW j \in 1 .. Len(s \o t)
  PROVE  \/ j \in 1 .. Len(s) /\ (s \o t)[j] = s[j]
         \/ /\ j - Len(s) \in 1 .. Len(t) /\ j \notin 1 .. Len(s)
            /\ (s \o t)[j] = t[j - Len(s)]
<1>1. Len(s \o t) = Len(s) + Len(t) /\ Len(s) \in Nat /\ Len(t) \in Nat
  OBVIOUS
<1>2. CASE j <= Len(s)
  BY <1>1, <1>2
<1>3. CASE j > Len(s)
  BY <1>1, <1>3
<1> QED BY <1>1, <1>2, <1>3

LEMMA ShortLists ==
  ASSUME NEW S, NEW a \in S, NEW b \in S
  PROVE  /\ <<>> \in Seq(S) /\ Len(<<>>) = 0
         /\ <<a>> \in Seq(S) /\ Len(<<a>>) = 1 /\ <<a>>[1] = a
         /\ <<a, b>> \in Seq(S) /\ Len(<<a, b>>) = 2
         /\ <<a, b>>[1] = a /\ <<a, b>>[2] = b
OBVIOUS

\* What two lists tell MMR1 together.
LEMMA Joined ==
  ASSUME NEW s \in Seq(PlanStep), NEW t \in Seq(PlanStep)
  PROVE  /\ s \o t \in Seq(PlanStep)
         /\ None(s) /\ None(t) => None(s \o t)
         /\ Once(s) /\ None(t) => Once(s \o t)
         /\ None(s) /\ Once(t) => Once(s \o t)
         /\ Once(s) /\ Once(t) => Twice(s \o t)
         /\ Twice(s) /\ None(t) => Twice(s \o t)
         /\ None(s) /\ Twice(t) => Twice(s \o t)
<1>1. s \o t \in Seq(PlanStep)
  OBVIOUS
<1>2. \A j \in Tracked(s \o t) :
        \/ j \in Tracked(s)
        \/ j - Len(s) \in Tracked(t)
  <2>1. TAKE j \in Tracked(s \o t)
  <2>2. j \in 1 .. Len(s \o t) /\ (s \o t)[j].tracked
    BY DEF Tracked
  <2>3. CASE j \in 1 .. Len(s) /\ (s \o t)[j] = s[j]
    BY <2>2, <2>3 DEF Tracked
  <2>4. CASE j - Len(s) \in 1 .. Len(t) /\ (s \o t)[j] = t[j - Len(s)]
    BY <2>2, <2>4 DEF Tracked
  <2> QED BY <2>2, <2>3, <2>4, ConcatAt
<1>3. \A j, k \in Tracked(s \o t) : j - Len(s) = k - Len(s) => j = k
  BY DEF Tracked
<1>4. None(s) /\ None(t) => None(s \o t)
  BY <1>2, Zenon DEF None
<1>5. Once(s) /\ None(t) => Once(s \o t)
  BY <1>2, Zenon DEF None, Once
<1>6. None(s) /\ Once(t) => Once(s \o t)
  BY <1>2, <1>3, Zenon DEF None, Once
<1>7. Once(s) /\ Once(t) => Twice(s \o t)
  BY <1>2, <1>3, Zenon DEF Once, Twice
<1>8. Twice(s) /\ None(t) => Twice(s \o t)
  BY <1>2, Zenon DEF None, Twice
<1>9. None(s) /\ Twice(t) => Twice(s \o t)
  BY <1>2, <1>3, Zenon DEF None, Twice
<1> QED BY <1>1, <1>4, <1>5, <1>6, <1>7, <1>8, <1>9

\* Few are fewer.
LEMMA Fewer ==
  ASSUME NEW list
  PROVE  (None(list) => Once(list)) /\ (Once(list) => Twice(list))
BY DEF None, Once, Twice

\* A list of one or two steps that tell MMR1 nothing.
LEMMA ShortNone ==
  ASSUME NEW a \in PlanStep, NEW b \in PlanStep, ~a.tracked, ~b.tracked
  PROVE  /\ <<a>> \in Seq(PlanStep) /\ None(<<a>>)
         /\ <<a, b>> \in Seq(PlanStep) /\ None(<<a, b>>)
<1> DEFINE one == <<a>> two == <<a, b>>
<1>1. /\ one \in Seq(PlanStep) /\ Len(one) = 1 /\ one[1] = a
      /\ two \in Seq(PlanStep) /\ Len(two) = 2 /\ two[1] = a /\ two[2] = b
  BY ShortLists
<1> HIDE DEF one, two
<1>2. None(one) /\ None(two)
  BY <1>1 DEF None, Tracked
<1> QED BY <1>1, <1>2 DEF one, two

LEMMA PlainStep ==
  ASSUME NEW op \in Silent
  PROVE  Plain(op) \in PlanStep /\ ~Plain(op).tracked
BY DEF Plain, Step, PlanStep, Registers

LEMMA StackStep == Push \in PlanStep /\ ~Push.tracked /\ Pop \in PlanStep /\ ~Pop.tracked
<1>1. \A op \in Silent, by \in Int :
        Step(op, "SP", by, FALSE) \in PlanStep /\ ~Step(op, "SP", by, FALSE).tracked
  BY DEF Step, PlanStep, Registers
<1>2. "push" \in Silent /\ "pop" \in Silent /\ -2 \in Int /\ 2 \in Int
  BY DEF Silent
<1> QED BY <1>1, <1>2, Zenon DEF Push, Pop

\* An operand is resolved by steps of which at most one tells MMR1.
LEMMA DecodeOperandSteps ==
  ASSUME NEW o \in Operands, NEW byte
  PROVE  decode_operand(o, byte) \in Seq(PlanStep) /\ Once(decode_operand(o, byte))
<1> DEFINE by == operand_step(o.reg, byte)
<1>1. by \in Int /\ o.reg \in Registers
  BY DEF operand_step, Operands
<1>2. ASSUME NEW s \in PlanStep
      PROVE  <<s>> \in Seq(PlanStep) /\ Once(<<s>>)
  <2> DEFINE one == <<s>>
  <2>1. one \in Seq(PlanStep) /\ Len(one) = 1
    BY <1>2, ShortLists
  <2> HIDE DEF one
  <2>2. Once(one)
    BY <2>1 DEF Once, Tracked
  <2> QED BY <2>1, <2>2 DEF one
<1> HIDE DEF by
<1>3. \A op \in Logging, delta \in Int : Logged(op, o.reg, delta) \in PlanStep
  BY <1>1 DEF Logged, Step, PlanStep
<1>4. Through(o.reg) \in PlanStep
  BY <1>1 DEF Through, Step, PlanStep, Silent
<1>5. Plain("index") \in PlanStep
  BY PlainStep DEF Silent
<1>6. /\ <<Plain("index"), Plain("pointer")>> \in Seq(PlanStep)
      /\ Once(<<Plain("index"), Plain("pointer")>>)
  <2>1. /\ Plain("index") \in PlanStep /\ ~Plain("index").tracked
        /\ Plain("pointer") \in PlanStep /\ ~Plain("pointer").tracked
    BY PlainStep DEF Silent
  <2> QED BY <2>1, ShortNone, Fewer
<1>7. <<>> \in Seq(PlanStep) /\ Once(<<>>)
  BY <1>4, ShortLists DEF Once, Tracked
<1>8. o.mode \in 0..7
  BY DEF Operands
<1>9. CASE o.mode = 0
  BY <1>7, <1>9 DEF decode_operand
<1>10. CASE o.mode = 1
  <2>1. decode_operand(o, byte) = <<Through(o.reg)>>
    BY <1>10 DEF decode_operand
  <2> QED BY <1>2, <1>4, <2>1
<1>11. ASSUME NEW op \in Logging, NEW delta \in Int,
              decode_operand(o, byte) = <<Logged(op, o.reg, delta)>>
       PROVE  decode_operand(o, byte) \in Seq(PlanStep) /\ Once(decode_operand(o, byte))
  BY <1>2, <1>3, <1>11, Zenon
<1>12. CASE o.mode \in {2, 3, 4, 5}
  <2>1. \/ decode_operand(o, byte) = <<Logged("autoinc", o.reg, by)>>
        \/ decode_operand(o, byte) = <<Logged("incdef", o.reg, 2)>>
        \/ decode_operand(o, byte) = <<Logged("autodec", o.reg, -by)>>
        \/ decode_operand(o, byte) = <<Logged("decdef", o.reg, -2)>>
    BY <1>12 DEF decode_operand, by
  <2>2. /\ "autoinc" \in Logging /\ "incdef" \in Logging
        /\ "autodec" \in Logging /\ "decdef" \in Logging
    BY DEF Logging
  <2>3. by \in Int /\ 2 \in Int /\ -by \in Int /\ -2 \in Int
    BY <1>1
  <2> QED BY <1>11, <2>1, <2>2, <2>3, Zenon
<1>13. CASE o.mode = 6
  BY <1>2, <1>5, <1>13 DEF decode_operand
<1>14. CASE o.mode = 7
  BY <1>6, <1>14 DEF decode_operand
<1> QED BY <1>8, <1>9, <1>10, <1>12, <1>13, <1>14

\* A sequence built index by index.
LEMMA BuiltList ==
  ASSUME NEW n \in Nat, NEW S, NEW f \in [1 .. n -> S]
  PROVE  f \in Seq(S) /\ Len(f) = n
OBVIOUS

\* An FP11 operand is resolved without telling MMR1 anything.
LEMMA DecodeFpSteps ==
  ASSUME NEW o \in Operands, NEW words \in Nat
  PROVE  decode_fp(o, words) \in Seq(PlanStep) /\ None(decode_fp(o, words))
<1> DEFINE list == decode_operand(o, FALSE)
           by(s) == IF s.op = "autoinc" THEN 2 * words
                    ELSE IF s.op = "autodec" THEN -2 * words ELSE s.delta
           quiet(s) == [s EXCEPT !.tracked = FALSE, !.delta = by(s)]
<1>1. list \in Seq(PlanStep)
  BY DecodeOperandSteps
<1>2. ASSUME NEW s \in PlanStep
      PROVE  quiet(s) \in PlanStep /\ ~quiet(s).tracked
  <2>1. /\ s \in [op : Logging \cup Silent, reg : Registers, delta : Int, tracked : BOOLEAN]
        /\ by(s) \in Int
    BY <1>2 DEF PlanStep
  <2> HIDE DEF by
  <2> QED BY <2>1 DEF PlanStep
<1>3. decode_fp(o, words) = [i \in DOMAIN list |-> quiet(list[i])]
  BY Zenon DEF decode_fp
<1> HIDE DEF list, quiet
<1>4. /\ Len(list) \in Nat /\ \A i \in 1 .. Len(list) : list[i] \in PlanStep
      /\ DOMAIN list = 1 .. Len(list)
  BY <1>1
<1> DEFINE made == [i \in 1 .. Len(list) |-> quiet(list[i])]
<1>5. made \in [1 .. Len(list) -> PlanStep]
  BY <1>2, <1>4
<1>6. made \in Seq(PlanStep) /\ Len(made) = Len(list)
  BY <1>4, <1>5, BuiltList
<1>7. \A i \in 1 .. Len(list) : ~made[i].tracked
  BY <1>2, <1>4
<1> HIDE DEF made
<1>8. None(made)
  BY <1>6, <1>7 DEF None, Tracked
<1> QED BY <1>3, <1>4, <1>6, <1>8, Zenon DEF made

\* Nor do the references to the operand itself.
LEMMA AccessSteps ==
  ASSUME NEW o \in Operands, NEW op \in Silent, NEW words \in Nat
  PROVE  /\ Access(o, op) \in Seq(PlanStep) /\ None(Access(o, op))
         /\ FpWords(o, op, words) \in Seq(PlanStep) /\ None(FpWords(o, op, words))
<1>1. Plain(op) \in PlanStep /\ ~Plain(op).tracked
  BY PlainStep
<1>2. <<>> \in Seq(PlanStep) /\ None(<<>>)
  BY <1>1, ShortLists DEF None, Tracked
<1>3. <<Plain(op)>> \in Seq(PlanStep) /\ None(<<Plain(op)>>)
  BY <1>1, ShortNone
<1>4. Access(o, op) \in Seq(PlanStep) /\ None(Access(o, op))
  BY <1>2, <1>3 DEF Access
<1> DEFINE word(i) == [Plain(op) EXCEPT !.delta = 2 * (i - 1)]
           made == [i \in 1 .. words |-> word(i)]
<1>5. \A i \in 1 .. words : word(i) \in PlanStep /\ ~word(i).tracked
  BY <1>1 DEF PlanStep
<1> HIDE DEF word
<1>6. made \in [1 .. words -> PlanStep]
  BY <1>5
<1>7. made \in Seq(PlanStep) /\ Len(made) = words
  BY <1>6, BuiltList
<1>8. \A i \in 1 .. words : ~made[i].tracked
  BY <1>5
<1> HIDE DEF made
<1>9. None(made)
  BY <1>7, <1>8 DEF None, Tracked
<1>10. FpWords(o, op, words) \in {<<>>, made}
  BY DEF FpWords, made, word
<1> QED BY <1>2, <1>4, <1>7, <1>9, <1>10

\* An instruction has at most two steps that tell MMR1, one for each operand.
LEMMA PlanSteps ==
  ASSUME NEW i \in Instructions
  PROVE  Plan(i) \in Seq(PlanStep) /\ Twice(Plan(i))
<1>1. /\ i.kind \in Kinds /\ i.src \in Operands /\ i.dst \in Operands /\ i.words \in Nat
  BY ProgramAssumption
<1> DEFINE src == decode_operand(i.src, i.byte)
           dst == decode_operand(i.dst, i.byte)
           srcWord == decode_operand(i.src, FALSE)
           dstWord == decode_operand(i.dst, FALSE)
           Ok(list) == list \in Seq(PlanStep)
<1>2. /\ Ok(src) /\ Once(src) /\ Ok(dst) /\ Once(dst)
      /\ Ok(srcWord) /\ Once(srcWord) /\ Ok(dstWord) /\ Once(dstWord)
  BY <1>1, DecodeOperandSteps
<1>3. /\ Ok(Access(i.src, "read")) /\ None(Access(i.src, "read"))
      /\ Ok(Access(i.dst, "read")) /\ None(Access(i.dst, "read"))
      /\ Ok(Access(i.dst, "write")) /\ None(Access(i.dst, "write"))
      /\ Ok(FpWords(i.src, "read", i.words)) /\ None(FpWords(i.src, "read", i.words))
      /\ Ok(FpWords(i.dst, "write", i.words)) /\ None(FpWords(i.dst, "write", i.words))
  BY <1>1, AccessSteps DEF Silent
<1>4. /\ Ok(decode_fp(i.src, i.words)) /\ None(decode_fp(i.src, i.words))
      /\ Ok(decode_fp(i.dst, i.words)) /\ None(decode_fp(i.dst, i.words))
  BY <1>1, DecodeFpSteps
<1>5. /\ Ok(<<Push>>) /\ None(<<Push>>) /\ Ok(<<Pop>>) /\ None(<<Pop>>)
      /\ Ok(<<Pop, Pop>>) /\ None(<<Pop, Pop>>)
  BY StackStep, ShortNone
<1>6. Ok(<<Plain("fetch")>>) /\ None(<<Plain("fetch")>>)
  BY PlainStep, ShortNone DEF Silent
<1> HIDE DEF src, dst, srcWord, dstWord, Ok
<1>7. \A s, t : Ok(s) /\ Ok(t) =>
        /\ Ok(s \o t)
        /\ None(s) /\ None(t) => None(s \o t)
        /\ Once(s) /\ None(t) => Once(s \o t)
        /\ None(s) /\ Once(t) => Once(s \o t)
        /\ Once(s) /\ Once(t) => Twice(s \o t)
        /\ Twice(s) /\ None(t) => Twice(s \o t)
        /\ None(s) /\ Twice(t) => Twice(s \o t)
  BY Joined DEF Ok
<1>8. Ok(Body(i)) /\ Twice(Body(i))
  <2>1. CASE i.kind = "double"
    <3>1. Body(i) = (((src \o Access(i.src, "read")) \o dst) \o Access(i.dst, "read"))
                      \o Access(i.dst, "write")
      BY <2>1 DEF Body, src, dst
    <3>2. Ok(src \o Access(i.src, "read")) /\ Once(src \o Access(i.src, "read"))
      BY <1>2, <1>3, <1>7
    <3>3. /\ Ok((src \o Access(i.src, "read")) \o dst)
          /\ Twice((src \o Access(i.src, "read")) \o dst)
      BY <1>2, <1>7, <3>2
    <3> QED BY <1>3, <1>7, <3>1, <3>3
  <2>2. CASE i.kind = "mov"
    <3>1. Body(i) = ((src \o Access(i.src, "read")) \o dst) \o Access(i.dst, "write")
      BY <2>2 DEF Body, src, dst
    <3>2. Ok(src \o Access(i.src, "read")) /\ Once(src \o Access(i.src, "read"))
      BY <1>2, <1>3, <1>7
    <3> QED BY <1>2, <1>3, <1>7, <3>1, <3>2
  <2>3. CASE i.kind = "jsr"
    <3>1. Body(i) = dstWord \o <<Push>>
      BY <2>3 DEF Body, dstWord
    <3> QED BY <1>2, <1>5, <1>7, <3>1, Fewer
  <2>4. CASE i.kind = "rts"
    BY <1>5, <2>4, Fewer DEF Body
  <2>5. CASE i.kind = "rti"
    BY <1>5, <2>5, Fewer DEF Body
  <2>6. CASE i.kind = "mfp"
    <3>1. Body(i) = (srcWord \o Access(i.src, "read")) \o <<Push>>
      BY <2>6 DEF Body, srcWord
    <3> QED BY <1>2, <1>3, <1>5, <1>7, <3>1, Fewer
  <2>7. CASE i.kind = "mtp"
    <3>1. Body(i) = (<<Pop>> \o dstWord) \o Access(i.dst, "write")
      BY <2>7 DEF Body, dstWord
    <3> QED BY <1>2, <1>3, <1>5, <1>7, <3>1, Fewer
  <2>8. CASE i.kind = "ldf"
    <3>1. Body(i) = decode_fp(i.src, i.words) \o FpWords(i.src, "read", i.words)
      BY <2>8 DEF Body
    <3> QED BY <1>3, <1>4, <1>7, <3>1, Fewer
  <2>9. CASE i.kind = "stf"
    <3>1. Body(i) = decode_fp(i.dst, i.words) \o FpWords(i.dst, "write", i.words)
      BY <2>9 DEF Body
    <3> QED BY <1>3, <1>4, <1>7, <3>1, Fewer
  <2> QED BY <1>1, <2>1, <2>2, <2>3, <2>4, <2>5, <2>6, <2>7, <2>8, <2>9 DEF Kinds
<1> QED BY <1>6, <1>7, <1>8 DEF Plan, Ok

-----------------------------------------------------------------------------
(* Addresses.                                                               *)

\* A whole number of n's does not change the rest of a division by n.
LEMMA SameRest ==
  ASSUME NEW n \in Nat \ {0}, NEW a \in 0 .. n - 1, NEW q \in Int
  PROVE  (a + n * q) % n = a
OBVIOUS

\* Moves that wrap around add up.
LEMMA RestsAdd ==
  ASSUME NEW n \in Nat \ {0}, NEW a \in Int, NEW b \in Int
  PROVE  ((a % n) + b) % n = (a + b) % n
<1> DEFINE d == a \div n
           e == (a + b) \div n
           rest == (a + b) % n
           left == a % n
<1>1. left = a - n * d /\ d \in Int /\ left \in Int
  OBVIOUS
<1>2. rest = a + b - n * e /\ e \in Int /\ rest \in 0 .. n - 1
  OBVIOUS
<1> HIDE DEF d, e, rest, left
<1>3. n * (e - d) = n * e - n * d /\ n * e \in Int /\ n * d \in Int
  BY <1>1, <1>2
<1>4. left + b = rest + n * (e - d)
  BY <1>1, <1>2, <1>3
<1>5. \A q \in Int : (rest + n * q) % n = rest
  BY <1>2, SameRest
<1>6. e - d \in Int
  BY <1>1, <1>2
<1> QED BY <1>4, <1>5, <1>6, Zenon DEF rest, left

LEMMA RangeType == VaRange \in Nat \ {0} /\ PageBytes \in Nat \ {0}
<1>1. PageBytes \in Nat \ {0}
  BY GeometryAssumption DEF PageBytes
<1> QED BY <1>1, GeometryAssumption DEF VaRange

\* A moved register holds an address; moves add up, and one undone leaves nothing.
LEMMA ShiftedType == ASSUME NEW a \in Int, NEW b \in Int PROVE Shifted(a, b) \in Va
<1>1. VaRange \in Nat \ {0} /\ a + b \in Int
  BY RangeType
<1> QED BY <1>1 DEF Shifted, Va

LEMMA ShiftsAdd ==
  ASSUME NEW a \in Int, NEW b \in Int, NEW c \in Int
  PROVE  Shifted(Shifted(a, b), c) = Shifted(a, b + c)
<1>1. VaRange \in Nat \ {0} /\ a + b \in Int
  BY RangeType
<1>2. (((a + b) % VaRange) + c) % VaRange = (a + b + c) % VaRange
  BY <1>1, RestsAdd
<1>3. a + b + c = a + (b + c)
  OBVIOUS
<1> QED BY <1>2, <1>3 DEF Shifted

LEMMA ShiftUndone ==
  ASSUME NEW a \in Va, NEW b \in Int
  PROVE  Shifted(Shifted(a, b), -b) = a /\ Shifted(a, 0) = a
<1>1. VaRange \in Nat \ {0} /\ a \in Int /\ -b \in Int /\ a \in 0 .. VaRange - 1
  BY RangeType DEF Va
<1>2. Shifted(Shifted(a, b), -b) = Shifted(a, b + (-b))
  BY <1>1, ShiftsAdd
<1>3. b + (-b) = 0 /\ a + 0 = a
  BY <1>1
<1>4. a % VaRange = a
  BY <1>1
<1> QED BY <1>2, <1>3, <1>4 DEF Shifted

\* An address lies on a page.
LEMMA PageType == ASSUME NEW va \in Va PROVE PageOf(va) \in Pages
<1> DEFINE p == va \div PageBytes
<1>1. /\ PageBytes \in Nat \ {0} /\ PageCount \in Nat \ {0}
      /\ va \in Nat /\ va < PageCount * PageBytes
  BY RangeType, GeometryAssumption DEF Va, VaRange
<1>2. /\ PageBytes * p <= va /\ va < PageBytes * p + PageBytes /\ p \in Int
      /\ PageBytes * p \in Int
  BY <1>1
<1> HIDE DEF p
<1>3. p >= 0
  <2>1. SUFFICES ASSUME p <= -1 PROVE FALSE
    BY <1>2
  <2>2. PageBytes * p <= -PageBytes
    BY <1>1, <1>2, <2>1
  <2> QED BY <1>1, <1>2, <2>2
<1>4. p < PageCount
  <2>1. SUFFICES ASSUME p >= PageCount PROVE FALSE
    BY <1>1, <1>2
  <2>2. PageBytes * p >= PageBytes * PageCount
    BY <1>1, <1>2, <2>1
  <2>3. PageBytes * PageCount = PageCount * PageBytes
    BY <1>1
  <2> QED BY <1>1, <1>2, <2>2, <2>3
<1> QED BY <1>1, <1>2, <1>3, <1>4 DEF PageOf, Pages, p

-----------------------------------------------------------------------------
(* Sums over a plan.                                                        *)

\* A set of numbers that has zero and every successor has every number.
LEMMA NatSetInduction ==
  ASSUME NEW S, 0 \in S, \A n \in Nat : n \in S => n + 1 \in S
  PROVE  Nat \subseteq S
<1> DEFINE Less == OpToRel(<, Nat)
           T == Nat \ S
<1>1. IsWellFoundedOn(Less, Nat)
  BY NatLessThanWellFounded, Zenon
<1>2. \A y, x \in Nat : y < x => <<y, x>> \in Less
  BY DEF OpToRel
<1> HIDE DEF Less
<1> SUFFICES ASSUME T # {} PROVE FALSE
  OBVIOUS
<1>3. PICK x \in T : \A y \in T : ~(<<y, x>> \in Less)
  <2>1. T \subseteq Nat
    OBVIOUS
  <2> QED BY <1>1, <2>1, WFMin, Zenon
<1>4. x - 1 \in Nat /\ x \in Nat /\ x - 1 < x /\ x \notin S
  BY <1>3
<1>5. (x - 1) + 1 \in S
  BY <1>2, <1>3, <1>4
<1>6. (x - 1) + 1 = x
  BY <1>4
<1> QED BY <1>4, <1>5, <1>6

\* The sums of the first numbers of a list exist.
LEMMA SumsExist ==
  ASSUME NEW d \in [Nat -> Int], NEW n \in Nat
  PROVE  \E f \in [0 .. n -> Int] :
           f = [k \in 0 .. n |-> IF k = 0 THEN 0 ELSE f[k - 1] + d[k]]
<1> DEFINE Sums(f, m) == f = [k \in 0 .. m |-> IF k = 0 THEN 0 ELSE f[k - 1] + d[k]]
           S == {m \in Nat : \E f \in [0 .. m -> Int] : Sums(f, m)}
<1>1. 0 \in S
  <2> DEFINE f == [k \in 0 .. 0 |-> 0]
  <2>1. f \in [0 .. 0 -> Int] /\ Sums(f, 0)
    OBVIOUS
  <2> QED BY <2>1
<1>2. ASSUME NEW m \in Nat, m \in S
      PROVE  m + 1 \in S
  <2>1. PICK f \in [0 .. m -> Int] : Sums(f, m)
    BY <1>2
  <2> DEFINE g == [k \in 0 .. m + 1 |-> IF k = m + 1 THEN f[m] + d[m + 1] ELSE f[k]]
  <2>2. g \in [0 .. m + 1 -> Int]
    BY <2>1
  <2>3. ASSUME NEW k \in 0 .. m + 1
        PROVE  g[k] = IF k = 0 THEN 0 ELSE g[k - 1] + d[k]
    <3>1. CASE k = m + 1
      BY <3>1
    <3>2. CASE k = 0
      BY <2>1, <3>2
    <3>3. CASE k # m + 1 /\ k # 0
      <4>1. k \in 0 .. m /\ k - 1 \in 0 .. m /\ k - 1 # m + 1
        BY <3>3
      <4>2. f[k] = f[k - 1] + d[k]
        BY <2>1, <3>3, <4>1
      <4> QED BY <3>3, <4>1, <4>2
    <3> QED BY <3>1, <3>2, <3>3
  <2> HIDE DEF g
  <2>4. Sums(g, m + 1)
    BY <2>2, <2>3
  <2>5. m + 1 \in Nat
    OBVIOUS
  <2> HIDE DEF Sums
  <2> QED BY <2>2, <2>4, <2>5, Zenon DEF S
<1> HIDE DEF S
<1>3. n \in S
  BY <1>1, <1>2, NatSetInduction
<1> QED BY <1>3 DEF S

\* What the first steps of a plan move a register by, step by step.
LEMMA MovedBySteps ==
  ASSUME NEW plan \in Seq(PlanStep), NEW reg \in Registers
  PROVE  /\ MovedBy(plan, reg) \in [0 .. Len(plan) -> Int]
         /\ MovedBy(plan, reg)[0] = 0
         /\ \A k \in 0 .. Len(plan) - 1 :
              MovedBy(plan, reg)[k + 1] =
                MovedBy(plan, reg)[k] + StepMove(plan[k + 1], reg)
<1> DEFINE n == Len(plan)
           d == [k \in Nat |-> IF k \in 1 .. n THEN StepMove(plan[k], reg) ELSE 0]
           Sums(f) == f = [k \in 0 .. n |-> IF k = 0 THEN 0
                                            ELSE f[k - 1] + StepMove(plan[k], reg)]
           sum == MovedBy(plan, reg)
<1>1. n \in Nat
  OBVIOUS
<1>2. \A k \in 1 .. n : StepMove(plan[k], reg) \in Int
  BY DEF StepMove, PlanStep
<1>3. d \in [Nat -> Int]
  BY <1>2
<1>4. PICK f \in [0 .. n -> Int] :
        f = [k \in 0 .. n |-> IF k = 0 THEN 0 ELSE f[k - 1] + d[k]]
  BY <1>1, <1>3, SumsExist
<1>5. Sums(f)
  <2>1. \A k \in 0 .. n : k # 0 => d[k] = StepMove(plan[k], reg)
    BY <1>1
  <2> HIDE DEF d
  <2> QED BY <1>4, <2>1
<1>6. sum = CHOOSE g : Sums(g)
  BY Zenon DEF MovedBy
<1> HIDE DEF Sums
<1>7. Sums(sum)
  BY <1>5, <1>6, Zenon
<1> HIDE DEF sum
<1>8. DOMAIN sum = 0 .. n /\ sum[0] = 0
  BY <1>1, <1>7 DEF Sums
<1>9. \A k \in 0 .. n - 1 : sum[k + 1] = sum[k] + StepMove(plan[k + 1], reg)
  BY <1>1, <1>7 DEF Sums
<1> DEFINE S == {k \in Nat : k <= n => sum[k] \in Int}
<1>10. Nat \subseteq S
  <2>1. 0 \in S
    BY <1>8
  <2>2. ASSUME NEW k \in Nat, k \in S
        PROVE  k + 1 \in S
    BY <1>1, <1>2, <1>9, <2>2
  <2> HIDE DEF S
  <2> QED BY <2>1, <2>2, NatSetInduction
<1>11. \A k \in 0 .. n : sum[k] \in Int
  BY <1>1, <1>10
<1>12. sum = [k \in 0 .. n |-> sum[k]]
  BY <1>7 DEF Sums
<1>13. sum \in [0 .. n -> Int]
  BY <1>11, <1>12
<1> QED BY <1>8, <1>9, <1>13 DEF sum

-----------------------------------------------------------------------------
(* The invariant.                                                           *)

Errs == [err : SUBSET {"NR", "PL", "RO"}, page : Pages]
Entries == Registers \X Int
Log(log) == log \in Seq(Entries) /\ Len(log) <= 2

\* What is left to do is the end of the plan, behind the steps done.
StepsDone == Len(Plan(insn)) - Len(todo)
Ahead ==
  /\ todo \in Seq(PlanStep) /\ Len(todo) <= Len(Plan(insn))
  /\ \A j \in 1 .. Len(todo) : todo[j] = Plan(insn)[StepsDone + j]

\* Each entry of MMR1 comes from a step done.
Room ==
  /\ Len(mmr1) >= 1 => \E j \in Tracked(Plan(insn)) : j <= StepsDone
  /\ Len(mmr1) = 2 =>
       \E j, k \in Tracked(Plan(insn)) : j < k /\ k <= StepsDone

\* An attempt has moved the registers by the steps done; if the instruction is
\* restartable MMR1 lists just these moves while a reference can still abort.
Running ==
  /\ insn \in Instructions /\ mmr2 \in Va /\ mmr2 = start.pc
  /\ Ahead /\ Room
  /\ Restartable(insn) =>
       \A reg \in Registers :
         /\ r[reg] = Shifted(start.r[reg], MovedBy(Plan(insn), reg)[StepsDone])
         /\ todo # <<>> => LoggedMove(mmr1, reg) = MovedBy(Plan(insn), reg)[StepsDone]

\* An aborted attempt of a restartable instruction is undone by its log.
Waiting(log, at) ==
  /\ insn \in Instructions /\ at \in Va /\ at = start.pc /\ Log(log)
  /\ Restartable(insn) =>
       \A reg \in Registers : r[reg] = Shifted(start.r[reg], LoggedMove(log, reg))

\* An error is held from the abort until the handler has read it; the handler
\* has what it takes to undo the attempt.
Inv ==
  /\ WrittenIsFlagged /\ mmr0 \in Errs /\ Log(mmr1)
  /\ Frozen <=> phase = "entry"
  /\ phase # "next" => start.r \in [Registers -> Va]
  /\ phase = "run" => Running
  /\ phase = "entry" => Waiting(mmr1, mmr2)
  /\ phase = "fixing" => saved.page \in Pages /\ Waiting(saved.log, saved.at)

\* The descriptors have their widths, and their W flags say which pages a write was
\* let through to.
Descriptor ==
  [acf : 0..7, plf : 0..(BlockCount - 1), ed : BOOLEAN, a : BOOLEAN, w : BOOLEAN]
FlagsRight ==
  /\ pdr \in [Pages -> Descriptor]
  /\ dirty \subseteq Pages /\ missed \subseteq Pages
  /\ \A p \in Pages : p \in dirty \cup missed <=> pdr[p].w

LEMMA FlagsRightIs ==
  ASSUME Inv PROVE FlagsRight
BY DEF Inv, WrittenIsFlagged, TypeOK, FlagsRight, Descriptor

\* A reference that the descriptor lets through marks its page as the program used it,
\* whether memory answers or not.
LEMMA MarkedRight ==
  ASSUME FlagsRight, NEW va \in Va, NEW write \in BOOLEAN,
         pdr' = Marked(va, write),
         dirty' \subseteq dirty \cup {PageOf(va)}, missed' \subseteq missed \cup {PageOf(va)},
         dirty' \cup missed' = IF write THEN dirty \cup missed \cup {PageOf(va)}
                                        ELSE dirty \cup missed
  PROVE  FlagsRight'
<1> DEFINE q == PageOf(va)
<1>1. q \in Pages
  BY PageType
<1>2. pdr' = [pdr EXCEPT ![q] = [pdr[q] EXCEPT !.a = TRUE, !.w = pdr[q].w \/ write]]
  BY <1>1 DEF Marked, FlagsRight, Descriptor
<1> HIDE DEF q
<1>3. [pdr[q] EXCEPT !.a = TRUE, !.w = pdr[q].w \/ write] \in Descriptor
  BY <1>1 DEF FlagsRight, Descriptor
<1>4. pdr' \in [Pages -> Descriptor]
  BY <1>1, <1>2, <1>3 DEF FlagsRight
<1>5. dirty' \subseteq Pages /\ missed' \subseteq Pages
  BY <1>1 DEF FlagsRight, q
<1>6. ASSUME NEW p \in Pages
      PROVE  p \in dirty' \cup missed' <=> pdr'[p].w
  <2>1. CASE p # q
    <3>1. pdr'[p] = pdr[p] /\ (p \in dirty' \cup missed' <=> p \in dirty \cup missed)
      BY <1>2, <2>1 DEF FlagsRight, q
    <3> QED BY <3>1 DEF FlagsRight
  <2>2. CASE p = q
    <3>1. pdr'[p].w <=> pdr[q].w \/ write
      BY <1>1, <1>2, <2>2 DEF FlagsRight, Descriptor
    <3>2. p \in dirty' \cup missed' <=> q \in dirty \cup missed \/ write
      BY <2>2 DEF q
    <3> QED BY <1>1, <3>1, <3>2 DEF FlagsRight
  <2> QED BY <2>1, <2>2
<1> QED BY <1>4, <1>5, <1>6 DEF FlagsRight

\* A store to a descriptor, of a page the operating system then has a copy of.
LEMMA StoredRight ==
  ASSUME FlagsRight, NEW p \in Pages,
         NEW d \in [acf : 0..7, plf : 0..(BlockCount - 1), ed : BOOLEAN],
         pdr' = Stored(p, d), dirty' = dirty \ {p}, missed' = missed \ {p}
  PROVE  FlagsRight'
<1> DEFINE new == [acf |-> d.acf, plf |-> d.plf, ed |-> d.ed, a |-> FALSE, w |-> FALSE]
<1>1. new \in Descriptor /\ ~new.w
  BY DEF Descriptor
<1>2. pdr' = [pdr EXCEPT ![p] = new]
  BY DEF Stored
<1> HIDE DEF new
<1> QED BY <1>1, <1>2 DEF FlagsRight

\* What a reference leaves.
Fault(at) ==
  /\ \/ phase' = "bus" /\ mmr0' = mmr0
     \/ phase' = "entry" /\ mmr0' \in Errs /\ mmr0'.err # {}
  /\ todo' = <<>>
  /\ Left(at)

Pass(at) ==
  /\ phase' = phase /\ mmr0' = mmr0 /\ todo' = Tail(todo)
  /\ Left(at)

LEMMA ReferenceOutcome ==
  ASSUME FlagsRight, ~Frozen,
         NEW va \in Va, NEW write \in BOOLEAN, NEW word, NEW atFault, NEW atPass,
         Reference(va, write, word, atFault, atPass)
  PROVE  FlagsRight' /\ (Fault(atFault) \/ Pass(atPass))
<1>1. CASE word /\ va % 2 = 1
  BY <1>1 DEF Reference, FlagsRight, Fault, written
<1>2. CASE ~(word /\ va % 2 = 1) /\ Errors(va, write) # {}
  <2>1. mmr0' = [err |-> Errors(va, write), page |-> PageOf(va)]
    BY <1>2 DEF Reference, Captured
  <2>2. Errors(va, write) \in SUBSET {"NR", "PL", "RO"}
    BY DEF Errors, acf_violation
  <2>3. mmr0' \in Errs /\ mmr0'.err # {}
    BY <1>2, <2>1, <2>2, PageType DEF Errs
  <2> QED BY <1>2, <2>3 DEF Reference, FlagsRight, Fault, written
<1>3. CASE ~(word /\ va % 2 = 1) /\ Errors(va, write) = {}
  <2>1. pdr' = Marked(va, write)
    BY <1>3 DEF Reference
  <2>2. \/ /\ dirty' = IF write THEN dirty \cup {PageOf(va)} ELSE dirty
           /\ missed' = missed /\ Pass(atPass)
        \/ /\ missed' = IF write THEN missed \cup {PageOf(va)} ELSE missed
           /\ dirty' = dirty /\ Fault(atFault)
    BY <1>3 DEF Reference, Pass, Fault
  <2> QED BY <2>1, <2>2, MarkedRight
<1> QED BY <1>1, <1>2, <1>3

\* The registers a step may leave.
Moved == [r EXCEPT ![step.reg] = Shifted(@, step.delta)]
LoggedStep == IF step.tracked THEN Append(mmr1, <<step.reg, step.delta>>) ELSE mmr1

LEMMA Points ==
  ASSUME r \in [Registers -> Va], ~Frozen
  PROVE  /\ Now.r = r /\ Now.pc = pc /\ Now.log = mmr1
         /\ Fetched.r = r /\ Fetched.pc = Shifted(pc, 2) /\ Fetched.log = mmr1
         /\ MovedOnly.r = Moved /\ MovedOnly.pc = pc /\ MovedOnly.log = mmr1
         /\ MovedAndLogged.r = Moved /\ MovedAndLogged.pc = pc
         /\ MovedAndLogged.log = LoggedStep
BY DEF Now, Fetched, MovedOnly, MovedAndLogged, Moved, LoggedStep, mmr1_track

\* What a step of an instruction does: it is refused, with the registers as they
\* were or, for a push and @-(Rn), as it has moved them; or it is done.
Refused ==
  /\ \/ phase' = "bus" /\ mmr0' = mmr0
     \/ phase' = "entry" /\ mmr0' \in Errs /\ mmr0'.err # {}
  /\ todo' = <<>>
  /\ r' = r \/ (step.op \in {"push", "decdef"} /\ r' = Moved)
  /\ mmr1' = mmr1

Completed ==
  /\ phase' = phase /\ mmr0' = mmr0 /\ todo' = Tail(todo)
  /\ r' = IF Moving(step) THEN Moved ELSE r
  /\ mmr1' = LoggedStep

\* The addresses a step refers to are addresses.
LEMMA StepAddresses ==
  ASSUME Inv, step \in PlanStep
  PROVE  /\ r \in [Registers -> Va] /\ pc \in Va /\ ea \in Va
         /\ r[step.reg] \in Va /\ r["SP"] \in Va
         /\ Shifted(r[step.reg], step.delta) \in Va /\ Shifted(ea, step.delta) \in Va
         /\ Shifted(r["SP"], -2) \in Va /\ Shifted(pc, 2) \in Va
         /\ Moved \in [Registers -> Va]
<1>1. r \in [Registers -> Va] /\ pc \in Va /\ ea \in Va
  BY DEF Inv, WrittenIsFlagged, TypeOK
<1>2. step.reg \in Registers /\ step.delta \in Int /\ "SP" \in Registers
  BY DEF PlanStep, Registers
<1>3. \A a \in Va, b \in Int : Shifted(a, b) \in Va
  <2>1. \A a \in Va : a \in Int
    BY RangeType DEF Va
  <2> QED BY <2>1, ShiftedType
<1>4. r[step.reg] \in Va /\ r["SP"] \in Va
  BY <1>1, <1>2
<1>5. Shifted(r[step.reg], step.delta) \in Va
  BY <1>2, <1>3, <1>4
<1>6. /\ Shifted(ea, step.delta) \in Va /\ Shifted(r["SP"], -2) \in Va
      /\ Shifted(pc, 2) \in Va
  BY <1>1, <1>2, <1>3, <1>4
<1>7. Moved \in [Registers -> Va]
  BY <1>1, <1>5 DEF Moved
<1> QED BY <1>1, <1>4, <1>5, <1>6, <1>7

LEMMA ExecuteOutcome ==
  ASSUME Inv, phase = "run", todo # <<>>, step \in PlanStep, Execute
  PROVE  /\ FlagsRight' /\ pc' \in Va /\ ea' \in Va
         /\ Refused \/ Completed
         /\ UNCHANGED <<mmr2, insn, saved, start>>
<1>1. FlagsRight /\ ~Frozen
  BY FlagsRightIs DEF Inv
<1>2. /\ r \in [Registers -> Va] /\ pc \in Va /\ ea \in Va
      /\ r[step.reg] \in Va /\ r["SP"] \in Va
      /\ Shifted(r[step.reg], step.delta) \in Va /\ Shifted(ea, step.delta) \in Va
      /\ Shifted(r["SP"], -2) \in Va /\ Shifted(pc, 2) \in Va
      /\ Moved \in [Registers -> Va]
  BY StepAddresses
<1>3. /\ Now.r = r /\ Now.pc = pc /\ Now.log = mmr1
      /\ Fetched.r = r /\ Fetched.pc = Shifted(pc, 2) /\ Fetched.log = mmr1
      /\ MovedOnly.r = Moved /\ MovedOnly.pc = pc /\ MovedOnly.log = mmr1
      /\ MovedAndLogged.r = Moved /\ MovedAndLogged.pc = pc
      /\ MovedAndLogged.log = LoggedStep
  BY <1>1, <1>2, Points
<1>4. step.op \notin Logging => LoggedStep = mmr1
  BY DEF LoggedStep, PlanStep
<1>5. UNCHANGED <<mmr2, insn, saved, start>>
  BY DEF Execute
<1> USE DEF Left, Refused, Completed, Moving, Logging
<1>6. CASE Fetch
  <2>1. FlagsRight' /\ (Fault(Now) \/ Pass(Fetched)) /\ ea' = ea
    BY <1>1, <1>2, <1>6, ReferenceOutcome DEF Fetch
  <2>2. step.op = "fetch"
    BY <1>6 DEF Fetch, Doing, step
  <2> QED BY <1>2, <1>3, <1>4, <1>5, <2>1, <2>2 DEF Fault, Pass
<1>7. CASE Index
  <2>1. FlagsRight' /\ (Fault(Now) \/ Pass(Fetched)) /\ ea' \in Va
    BY <1>1, <1>2, <1>7, ReferenceOutcome DEF Index
  <2>2. step.op = "index"
    BY <1>7 DEF Index, Doing, step
  <2> QED BY <1>2, <1>3, <1>4, <1>5, <2>1, <2>2 DEF Fault, Pass
<1>8. CASE Pointer
  <2>1. FlagsRight' /\ (Fault(Now) \/ Pass(Now)) /\ ea' \in Va
    BY <1>1, <1>2, <1>8, ReferenceOutcome DEF Pointer
  <2>2. step.op = "pointer"
    BY <1>8 DEF Pointer, Doing, step
  <2> QED BY <1>2, <1>3, <1>4, <1>5, <2>1, <2>2 DEF Fault, Pass
<1>9. CASE Read
  <2>1. FlagsRight' /\ (Fault(Now) \/ Pass(Now)) /\ ea' = ea
    BY <1>1, <1>2, <1>9, ReferenceOutcome DEF Read
  <2>2. step.op = "read"
    BY <1>9 DEF Read, Doing, step
  <2> QED BY <1>2, <1>3, <1>4, <1>5, <2>1, <2>2 DEF Fault, Pass
<1>10. CASE Write
  <2>1. FlagsRight' /\ (Fault(Now) \/ Pass(Now)) /\ ea' = ea
    BY <1>1, <1>2, <1>10, ReferenceOutcome DEF Write
  <2>2. step.op = "write"
    BY <1>10 DEF Write, Doing, step
  <2> QED BY <1>2, <1>3, <1>4, <1>5, <2>1, <2>2 DEF Fault, Pass
<1>11. CASE IncrementDeferred
  <2>1. FlagsRight' /\ (Fault(Now) \/ Pass(MovedAndLogged)) /\ ea' \in Va
    BY <1>1, <1>2, <1>11, ReferenceOutcome DEF IncrementDeferred
  <2>2. step.op = "incdef"
    BY <1>11 DEF IncrementDeferred, Doing, step
  <2> QED BY <1>2, <1>3, <1>4, <1>5, <2>1, <2>2 DEF Fault, Pass
<1>12. CASE DecrementDeferred
  <2>1. FlagsRight' /\ (Fault(MovedOnly) \/ Pass(MovedAndLogged)) /\ ea' \in Va
    BY <1>1, <1>2, <1>12, ReferenceOutcome DEF DecrementDeferred
  <2>2. step.op = "decdef"
    BY <1>12 DEF DecrementDeferred, Doing, step
  <2> QED BY <1>2, <1>3, <1>4, <1>5, <2>1, <2>2 DEF Fault, Pass
<1>13. CASE PushWord
  <2>1. FlagsRight' /\ (Fault(MovedOnly) \/ Pass(MovedOnly)) /\ ea' = ea
    BY <1>1, <1>2, <1>13, ReferenceOutcome DEF PushWord
  <2>2. step.op = "push"
    BY <1>13 DEF PushWord, Doing, step
  <2> QED BY <1>2, <1>3, <1>4, <1>5, <2>1, <2>2 DEF Fault, Pass
<1>14. CASE PopWord
  <2>1. FlagsRight' /\ (Fault(Now) \/ Pass(MovedOnly)) /\ ea' = ea
    BY <1>1, <1>2, <1>14, ReferenceOutcome DEF PopWord
  <2>2. step.op = "pop"
    BY <1>14 DEF PopWord, Doing, step
  <2> QED BY <1>2, <1>3, <1>4, <1>5, <2>1, <2>2 DEF Fault, Pass
<1>15. CASE Point \/ AutoIncrement \/ AutoDecrement
  <2>1. /\ FlagsRight' /\ ea' \in Va
        /\ phase' = phase /\ mmr0' = mmr0 /\ todo' = Tail(todo)
    BY <1>1, <1>2, <1>15
       DEF Point, AutoIncrement, AutoDecrement, Resolve, FlagsRight, written
  <2>2. CASE Point
    <3>1. step.op = "point"
      BY <2>2 DEF Point, Doing, step
    <3> QED BY <1>2, <1>3, <1>4, <1>5, <2>1, <2>2, <3>1 DEF Point, Resolve
  <2>3. CASE AutoIncrement
    <3>1. step.op = "autoinc"
      BY <2>3 DEF AutoIncrement, Doing, step
    <3> QED BY <1>2, <1>3, <1>5, <2>1, <2>3, <3>1 DEF AutoIncrement, Resolve
  <2>4. CASE AutoDecrement
    <3>1. step.op = "autodec"
      BY <2>4 DEF AutoDecrement, Doing, step
    <3> QED BY <1>2, <1>3, <1>5, <2>1, <2>4, <3>1 DEF AutoDecrement, Resolve
  <2> QED BY <1>15, <2>2, <2>3, <2>4
<1> QED BY <1>6, <1>7, <1>8, <1>9, <1>10, <1>11, <1>12, <1>13, <1>14, <1>15 DEF Execute

-----------------------------------------------------------------------------
(* The steps of an instruction preserve the invariant.                      *)

\* The log of at most two moves, when one more is told.
LEMMA LoggedMoveAdds ==
  ASSUME NEW log \in Seq(Entries), Len(log) <= 1,
         NEW reg \in Registers, NEW moved \in Registers, NEW delta \in Int
  PROVE  /\ Log(Append(log, <<moved, delta>>))
         /\ LoggedMove(Append(log, <<moved, delta>>), reg) =
              LoggedMove(log, reg) + (IF moved = reg THEN delta ELSE 0)
<1> DEFINE m == <<moved, delta>>
           new == Append(log, m)
<1>1. /\ m \in Entries /\ m[1] = moved /\ m[2] = delta
      /\ \A e \in Entries : e[2] \in Int
  BY DEF Entries
<1> HIDE DEF m
<1>2. /\ new \in Seq(Entries) /\ Len(new) = Len(log) + 1
      /\ DOMAIN new = 1 .. Len(log) + 1 /\ DOMAIN log = 1 .. Len(log)
      /\ new[Len(log) + 1] = m
      /\ \A j \in 1 .. Len(log) : new[j] = log[j] /\ log[j] \in Entries
  BY <1>1
<1> HIDE DEF new
<1>3. CASE Len(log) = 0
  <2>1. /\ HalfMove(new, 1, reg) = (IF moved = reg THEN delta ELSE 0)
        /\ HalfMove(new, 2, reg) = 0
        /\ HalfMove(log, 1, reg) = 0 /\ HalfMove(log, 2, reg) = 0
    BY <1>1, <1>2, <1>3 DEF HalfMove
  <2> QED BY <1>2, <1>3, <2>1 DEF Log, LoggedMove, new, m
<1>4. CASE Len(log) = 1
  <2>1. /\ HalfMove(new, 2, reg) = (IF moved = reg THEN delta ELSE 0)
        /\ HalfMove(new, 1, reg) = HalfMove(log, 1, reg) /\ HalfMove(log, 1, reg) \in Int
        /\ HalfMove(log, 2, reg) = 0
    BY <1>1, <1>2, <1>4 DEF HalfMove
  <2> QED BY <1>2, <1>4, <2>1 DEF Log, LoggedMove, new, m
<1> QED BY <1>2, <1>3, <1>4

LEMMA LoggedMoveType ==
  ASSUME NEW log, Log(log), NEW reg
  PROVE  LoggedMove(log, reg) \in Int
<1>1. \A j \in DOMAIN log : log[j] \in Entries
  BY DEF Log
<1>2. \A j \in DOMAIN log : log[j][2] \in Int
  BY <1>1 DEF Entries
<1> QED BY <1>2 DEF LoggedMove, HalfMove

\* The next step is the one of the plan behind those done.
LEMMA NextStep ==
  ASSUME Running, todo # <<>>
  PROVE  /\ step \in PlanStep
         /\ StepsDone \in 0 .. Len(Plan(insn)) - 1
         /\ Len(Plan(insn)) \in Nat
         /\ step = Plan(insn)[StepsDone + 1]
<1>1. /\ todo \in Seq(PlanStep) /\ Len(todo) <= Len(Plan(insn))
      /\ \A j \in 1 .. Len(todo) : todo[j] = Plan(insn)[StepsDone + j]
  BY DEF Running, Ahead
<1>2. Plan(insn) \in Seq(PlanStep)
  BY PlanSteps DEF Running
<1>3. Len(todo) \in Nat /\ Len(Plan(insn)) \in Nat /\ Len(todo) >= 1
  BY <1>1, <1>2
<1>4. step = todo[1] /\ todo[1] \in PlanStep
  BY <1>1, <1>3 DEF step
<1> QED BY <1>1, <1>3, <1>4 DEF StepsDone

\* A step that is done.
LEMMA CompletedAhead ==
  ASSUME Running, todo # <<>>, insn' = insn, todo' = Tail(todo)
  PROVE  Ahead' /\ StepsDone' = StepsDone + 1
<1>1. /\ todo \in Seq(PlanStep) /\ Len(todo) <= Len(Plan(insn))
      /\ \A j \in 1 .. Len(todo) : todo[j] = Plan(insn)[StepsDone + j]
  BY DEF Running, Ahead
<1>2. Len(Plan(insn)) \in Nat /\ Len(todo) \in Nat /\ Len(todo) >= 1
  BY <1>1, NextStep
<1>3. /\ todo' \in Seq(PlanStep) /\ Len(todo') = Len(todo) - 1
      /\ \A j \in 1 .. Len(todo) - 1 : todo'[j] = todo[j + 1]
  BY <1>1, <1>2
<1>4. StepsDone' = StepsDone + 1 /\ StepsDone \in Int
  BY <1>2, <1>3 DEF StepsDone
<1>5. \A j \in 1 .. Len(todo') : todo'[j] = Plan(insn')[StepsDone' + j]
  <2>1. TAKE j \in 1 .. Len(todo')
  <2>2. j + 1 \in 1 .. Len(todo) /\ todo'[j] = todo[j + 1]
    BY <1>2, <1>3
  <2>3. todo[j + 1] = Plan(insn)[StepsDone + (j + 1)]
    BY <1>1, <2>2
  <2>4. StepsDone + (j + 1) = StepsDone' + j
    BY <1>4, <2>2
  <2> QED BY <2>2, <2>3, <2>4
<1>6. Len(todo') <= Len(Plan(insn'))
  BY <1>1, <1>2, <1>3
<1> QED BY <1>3, <1>4, <1>5, <1>6 DEF Ahead

\* MMR1 has room for a step that tells it, and names it then.
LEMMA CompletedRoom ==
  ASSUME Inv, Running, todo # <<>>, insn' = insn, todo' = Tail(todo),
         mmr1' = LoggedStep
  PROVE  /\ Log(mmr1') /\ Room'
         /\ step.tracked => Len(mmr1) <= 1
<1> DEFINE plan == Plan(insn)
           k == StepsDone + 1
<1>1. /\ step \in PlanStep /\ step = plan[k] /\ k \in 1 .. Len(plan)
      /\ Len(plan) \in Nat /\ StepsDone' = k /\ StepsDone \in Int
  BY NextStep, CompletedAhead
<1>2. Twice(plan)
  BY PlanSteps DEF Running
<1>3. Log(mmr1) /\ Room
  BY DEF Inv, Running
<1>4. plan' = plan
  OBVIOUS
<1> HIDE DEF plan, k
<1>5. CASE ~step.tracked
  <2>1. mmr1' = mmr1
    BY <1>5 DEF LoggedStep
  <2>2. \A j \in Tracked(plan) : j <= StepsDone => j <= StepsDone'
    BY <1>1 DEF Tracked, k
  <2>3. Room'
    BY <1>3, <1>4, <2>1, <2>2 DEF Room, plan
  <2> QED BY <1>3, <1>5, <2>1, <2>3
<1>6. CASE step.tracked
  <2>1. k \in Tracked(plan) /\ \A j \in Tracked(plan) : j \in Int
    BY <1>1, <1>6 DEF Tracked
  <2>2. Len(mmr1) # 2
    <3>1. SUFFICES ASSUME Len(mmr1) = 2 PROVE FALSE
      OBVIOUS
    <3>2. PICK i \in Tracked(plan), j \in Tracked(plan) : i < j /\ j <= StepsDone
      BY <1>3, <3>1 DEF Room, plan
    <3>3. i # j /\ j # k /\ i # k
      BY <1>1, <2>1, <3>2 DEF k
    <3> QED BY <1>2, <2>1, <3>2, <3>3 DEF Twice
  <2>3. mmr1 \in Seq(Entries) /\ Len(mmr1) \in Nat /\ Len(mmr1) <= 1
    <3>1. mmr1 \in Seq(Entries) /\ Len(mmr1) <= 2
      BY <1>3 DEF Log
    <3>2. Len(mmr1) \in Nat
      BY <3>1
    <3>3. \A n \in Nat : n <= 2 /\ n # 2 => n <= 1
      OBVIOUS
    <3> QED BY <2>2, <3>1, <3>2, <3>3, Zenon
  <2>4. step.reg \in Registers /\ step.delta \in Int
    BY <1>1 DEF PlanStep
  <2>5. mmr1' = Append(mmr1, <<step.reg, step.delta>>)
    BY <1>6 DEF LoggedStep
  <2>6. Log(mmr1')
    BY <2>3, <2>4, <2>5, LoggedMoveAdds
  <2>7. Len(mmr1') = Len(mmr1) + 1
    <3>1. <<step.reg, step.delta>> \in Entries
      BY <2>4 DEF Entries
    <3> QED BY <2>3, <2>5, <3>1
  <2>8. Len(mmr1) = 1 => \E j \in Tracked(plan) : j < k
    BY <1>1, <1>3, <2>1 DEF Room, plan, k
  <2>9. Room'
    <3>1. k <= StepsDone' /\ k \in Int
      BY <1>1
    <3>2. ASSUME Len(mmr1') = 2
          PROVE  \E i, j \in Tracked(plan) : i < j /\ j <= StepsDone'
      <4>1. \A n \in Nat : n + 1 = 2 => n = 1
        OBVIOUS
      <4>2. Len(mmr1) = 1
        BY <2>3, <2>7, <3>2, <4>1, Zenon
      <4> QED BY <2>1, <2>8, <3>1, <4>2, Zenon
    <3>3. \E j \in Tracked(plan) : j <= StepsDone'
      BY <2>1, <3>1
    <3> QED BY <1>4, <3>2, <3>3, Zenon DEF Room, plan
  <2> QED BY <2>3, <2>6, <2>9
<1> QED BY <1>5, <1>6

\* The parts of TypeOK and WrittenIsFlagged from those the proofs carry.
LEMMA FlaggedNext ==
  ASSUME FlagsRight', r' \in [Registers -> Va], pc' \in Va, ea' \in Va,
         mmr0' \in Errs, Log(mmr1'), mmr2' \in Va \cup {HandlerAddress},
         phase' \in {"next", "run", "entry", "fixing", "bus"},
         insn' \in Instructions \cup {NoInstruction}
  PROVE  WrittenIsFlagged'
<1>1. mmr0'.err \subseteq {"NR", "PL", "RO"} /\ mmr0'.page \in Pages /\ Len(mmr1') <= 2
  BY DEF Errs, Log
<1>2. /\ pdr' \in [Pages -> [acf : 0..7, plf : 0..(BlockCount - 1), ed : BOOLEAN,
                             a : BOOLEAN, w : BOOLEAN]]
      /\ dirty' \subseteq Pages /\ missed' \subseteq Pages
  BY DEF FlagsRight, Descriptor
<1>3. TypeOK'
  BY <1>1, <1>2 DEF TypeOK
<1>4. dirty' \cup missed' = {p \in Pages : pdr'[p].w}
  BY DEF FlagsRight
<1> QED BY <1>3, <1>4 DEF WrittenIsFlagged

\* A step that is done moves a register of a restartable instruction by what the
\* plan says, and MMR1 with it while a reference is still to come.
LEMMA CompletedRegisters ==
  ASSUME Inv, phase = "run", Running, todo # <<>>, Completed, UNCHANGED <<insn, start>>,
         Restartable(insn), NEW reg \in Registers
  PROVE  LET sum == MovedBy(Plan(insn), reg)
         IN  /\ r'[reg] = Shifted(start.r[reg], sum[StepsDone + 1])
             /\ todo' # <<>> => LoggedMove(mmr1', reg) = sum[StepsDone + 1]
<1> DEFINE plan == Plan(insn)
           sum == MovedBy(plan, reg)
           k == StepsDone
           move == StepMove(step, reg)
<1>1. /\ step \in PlanStep /\ step = plan[k + 1] /\ k \in 0 .. Len(plan) - 1
      /\ Len(plan) \in Nat
  BY NextStep
<1>2. plan \in Seq(PlanStep)
  BY PlanSteps DEF Running
<1>3. sum[k] \in Int /\ sum[k + 1] = sum[k] + move
  BY <1>1, <1>2, MovedBySteps
<1>4. step.reg \in Registers /\ step.delta \in Int /\ move \in Int
  BY <1>1 DEF PlanStep, StepMove
<1>5. /\ r[reg] = Shifted(start.r[reg], sum[k])
      /\ LoggedMove(mmr1, reg) = sum[k]
  BY DEF Running
<1>6. r \in [Registers -> Va] /\ start.r[reg] \in Va
  BY DEF Inv, WrittenIsFlagged, TypeOK
<1>7. ~UnloggedMove(plan, k + 1)
  <2>1. k + 1 \in DOMAIN plan
    BY <1>1, <1>2
  <2> QED BY <2>1 DEF Restartable
<1>8. todo' # <<>> => k + 1 < Len(plan)
  <2>1. /\ todo \in Seq(PlanStep) /\ k = Len(plan) - Len(todo)
        /\ todo' = Tail(todo)
    BY DEF Running, Ahead, StepsDone, Completed
  <2>2. Len(todo) = 1 => todo' = <<>>
    BY <2>1
  <2>3. Len(todo) \in Nat /\ Len(todo) # 0
    BY <2>1
  <2> HIDE DEF k, plan
  <2> QED BY <1>1, <2>1, <2>2, <2>3
<1> HIDE DEF plan, sum, k
<1>9. r'[reg] = Shifted(r[reg], move)
  <2>1. CASE Moving(step) /\ step.reg = reg
    BY <1>4, <1>6, <2>1 DEF Completed, Moved, StepMove
  <2>2. CASE ~(Moving(step) /\ step.reg = reg)
    <3>1. r'[reg] = r[reg] /\ move = 0 /\ r[reg] \in Va
      BY <1>4, <1>6, <2>2 DEF Completed, Moved, StepMove
    <3> QED BY <3>1, ShiftUndone
  <2> QED BY <2>1, <2>2
<1> HIDE DEF move
<1>10. r'[reg] = Shifted(start.r[reg], sum[k + 1])
  <2>1. start.r[reg] \in Int
    BY <1>6, RangeType DEF Va
  <2>2. \A a, b, c \in Int : Shifted(Shifted(a, b), c) = Shifted(a, b + c)
    BY ShiftsAdd
  <2>3. Shifted(Shifted(start.r[reg], sum[k]), move) = Shifted(start.r[reg], sum[k] + move)
    BY <1>3, <1>4, <2>1, <2>2, Zenon
  <2> QED BY <1>3, <1>5, <1>9, <2>3, Zenon
<1>11. ASSUME todo' # <<>>
       PROVE  LoggedMove(mmr1', reg) = sum[k + 1]
  <2>1. CASE step.tracked
    <3>1. Moving(step)
      BY <1>1, <2>1 DEF PlanStep, Logging, Moving
    <3>2. mmr1' = Append(mmr1, <<step.reg, step.delta>>)
      BY <2>1 DEF Completed, LoggedStep
    <3>3. mmr1 \in Seq(Entries) /\ Len(mmr1) <= 1
      <4>1. Log(mmr1) /\ (step.tracked => Len(mmr1) <= 1)
        BY CompletedRoom DEF Inv, Completed
      <4> QED BY <2>1, <4>1 DEF Log
    <3>4. LoggedMove(mmr1', reg) =
            LoggedMove(mmr1, reg) + (IF step.reg = reg THEN step.delta ELSE 0)
      BY <1>4, <3>2, <3>3, LoggedMoveAdds
    <3>5. (IF step.reg = reg THEN step.delta ELSE 0) = move
      BY <3>1 DEF move, StepMove
    <3> QED BY <1>3, <1>5, <3>4, <3>5
  <2>2. CASE ~step.tracked
    <3>1. ~Moving(step)
      BY <1>1, <1>7, <1>8, <1>11, <2>2 DEF UnloggedMove
    <3>2. move = 0 /\ mmr1' = mmr1
      BY <2>2, <3>1 DEF move, StepMove, Completed, LoggedStep
    <3> QED BY <1>3, <1>5, <3>2
  <2> QED BY <2>1, <2>2
<1> QED BY <1>10, <1>11 DEF sum, k, plan

LEMMA CompletedInv ==
  ASSUME Inv, phase = "run", todo # <<>>, Completed,
         FlagsRight', pc' \in Va, ea' \in Va, UNCHANGED <<mmr2, insn, saved, start>>
  PROVE  Inv'
<1>1. Running /\ step \in PlanStep
  BY NextStep DEF Inv
<1>2. Ahead' /\ StepsDone' = StepsDone + 1
  BY <1>1, CompletedAhead DEF Completed
<1>3. Log(mmr1') /\ Room'
  BY <1>1, CompletedRoom DEF Completed
<1>4. r' \in [Registers -> Va]
  BY <1>1, StepAddresses DEF Completed
<1>5. phase' = "run" /\ mmr0' = mmr0 /\ mmr0 \in Errs /\ ~Frozen
  BY DEF Inv, Completed
<1>6. ASSUME Restartable(insn), NEW reg \in Registers
      PROVE  /\ r'[reg] = Shifted(start'.r[reg], MovedBy(Plan(insn'), reg)[StepsDone'])
             /\ todo' # <<>> =>
                  LoggedMove(mmr1', reg) = MovedBy(Plan(insn'), reg)[StepsDone']
  BY <1>1, <1>2, <1>6, CompletedRegisters
<1>7. Running'
  BY <1>1, <1>2, <1>3, <1>6 DEF Running
<1>8. WrittenIsFlagged'
  <2>1. insn' \in Instructions /\ mmr2' \in Va
    BY <1>1 DEF Running
  <2> QED BY <1>3, <1>4, <1>5, <2>1, FlaggedNext
<1>9. start'.r \in [Registers -> Va]
  BY DEF Inv
<1>10. ~Frozen'
  BY <1>5 DEF Frozen
<1> QED BY <1>3, <1>5, <1>7, <1>8, <1>9, <1>10 DEF Inv

\* A step that is refused leaves what it takes to undo the attempt.
LEMMA RefusedInv ==
  ASSUME Inv, phase = "run", todo # <<>>, Refused,
         FlagsRight', pc' \in Va, ea' \in Va, UNCHANGED <<mmr2, insn, saved, start>>
  PROVE  Inv'
<1>1. Running /\ step \in PlanStep /\ step = Plan(insn)[StepsDone + 1]
  BY NextStep DEF Inv
<1>2. /\ mmr2' \in Va /\ mmr2' = start'.pc
      /\ insn' \in Instructions /\ Log(mmr1') /\ mmr0' \in Errs
      /\ start'.r \in [Registers -> Va] /\ phase' \in {"bus", "entry"}
      /\ mmr1' = mmr1 /\ ~Frozen
  BY <1>1 DEF Inv, Running, Refused
<1>3. r' \in [Registers -> Va]
  BY <1>1, StepAddresses DEF Refused
<1>4. Restartable(insn) => step.op \notin {"push", "decdef"}
  <2>1. StepsDone + 1 \in DOMAIN Plan(insn)
    BY <1>1, NextStep, PlanSteps DEF Running
  <2> QED BY <1>1, <2>1 DEF Restartable, UnloggedMove
<1>5. ASSUME Restartable(insn), NEW reg \in Registers
      PROVE  r'[reg] = Shifted(start.r[reg], LoggedMove(mmr1, reg))
  <2>1. r' = r
    BY <1>4, <1>5 DEF Refused
  <2> QED BY <1>1, <1>5, <2>1 DEF Running
<1>6. Waiting(mmr1, mmr2)'
  BY <1>2, <1>5 DEF Waiting
<1>7. WrittenIsFlagged'
  BY <1>2, <1>3, FlaggedNext
<1>8. Frozen' <=> phase' = "entry"
  BY <1>2 DEF Refused, Frozen
<1> QED BY <1>2, <1>6, <1>7, <1>8 DEF Inv

\* So every step of an instruction preserves the invariant.
LEMMA ExecuteInv == ASSUME Inv, Execute PROVE Inv'
<1>1. phase = "run" /\ todo # <<>>
  BY DEF Execute, Fetch, Point, AutoIncrement, AutoDecrement, IncrementDeferred,
         DecrementDeferred, Index, Pointer, Read, Write, PushWord, PopWord, Doing
<1>2. step \in PlanStep
  BY <1>1, NextStep DEF Inv
<1> QED BY <1>1, <1>2, ExecuteOutcome, CompletedInv, RefusedInv

-----------------------------------------------------------------------------
(* The other steps.                                                         *)

\* An attempt begins with a plan none of whose steps is done.
LEMMA BegunRunning ==
  ASSUME NEW i \in Instructions, insn' = i, todo' = Plan(i), mmr1' = <<>>,
         mmr2' \in Va, mmr2' = start'.pc,
         Restartable(i) => \A reg \in Registers : r'[reg] = Shifted(start'.r[reg], 0)
  PROVE  Running' /\ Log(mmr1')
<1>1. Plan(i) \in Seq(PlanStep)
  BY PlanSteps
<1>2. StepsDone' = 0 /\ Len(Plan(i)) \in Nat
  BY <1>1 DEF StepsDone
<1>3. Ahead'
  <2>1. \A j \in 1 .. Len(Plan(i)) : Plan(i)[j] = Plan(i)[0 + j]
    BY <1>1
  <2> QED BY <1>1, <1>2, <2>1 DEF Ahead
<1>4. Room' /\ Log(mmr1')
  <2>1. <<>> \in Seq(Entries) /\ Len(<<>>) = 0
    OBVIOUS
  <2> QED BY <2>1 DEF Room, Log
<1>5. \A reg \in Registers : MovedBy(Plan(i), reg)[0] = 0 /\ LoggedMove(mmr1', reg) = 0
  <2>1. \A reg \in Registers : MovedBy(Plan(i), reg)[0] = 0
    BY <1>1, MovedBySteps
  <2>2. \A reg \in Registers : LoggedMove(mmr1', reg) = 0
    BY DEF LoggedMove, HalfMove
  <2> QED BY <2>1, <2>2
<1>6. Restartable(insn') =>
        \A reg \in Registers :
          /\ r'[reg] = Shifted(start'.r[reg], MovedBy(Plan(insn'), reg)[StepsDone'])
          /\ todo' # <<>> =>
               LoggedMove(mmr1', reg) = MovedBy(Plan(insn'), reg)[StepsDone']
  BY <1>2, <1>5
<1> QED BY <1>3, <1>4, <1>6 DEF Running

LEMMA BeginInv ==
  ASSUME Inv, NEW i \in Instructions, NEW at \in PcStarts, Begin(i, at)
  PROVE  Inv'
<1>1. /\ r \in [Registers -> Va] /\ FlagsRight /\ mmr0 \in Errs /\ ~Frozen
  BY FlagsRightIs DEF Inv, WrittenIsFlagged, TypeOK, Begin
<1>2. at \in Va /\ 0 \in Va
  BY ProgramAssumption, RangeType DEF Va
<1>3. /\ phase' = "run" /\ insn' = i /\ todo' = Plan(i) /\ pc' = at /\ ea' = 0
      /\ mmr1' = <<>> /\ mmr2' = at /\ start'.r = r /\ start'.pc = at
      /\ r' = r /\ pdr' = pdr /\ mmr0' = mmr0 /\ dirty' = dirty /\ missed' = missed
  BY <1>1 DEF Begin, ClearedLog, LatchedAt, written
<1>4. \A reg \in Registers : r'[reg] = Shifted(start'.r[reg], 0)
  BY <1>1, <1>3, ShiftUndone
<1>5. Running' /\ Log(mmr1')
  BY <1>2, <1>3, <1>4, BegunRunning
<1>6. FlagsRight' /\ ~Frozen'
  BY <1>1, <1>3 DEF FlagsRight, Frozen
<1>7. WrittenIsFlagged'
  BY <1>1, <1>2, <1>3, <1>5, <1>6, FlaggedNext
<1> QED BY <1>1, <1>3, <1>5, <1>6, <1>7 DEF Inv

\* Undoing the moves of the log of an aborted attempt.
LEMMA UndoneIsStart ==
  ASSUME NEW log, Log(log), start.r \in [Registers -> Va], NEW reg \in Registers,
         r[reg] = Shifted(start.r[reg], LoggedMove(log, reg))
  PROVE  Undone(log)[reg] = start.r[reg]
<1>1. LoggedMove(log, reg) \in Int /\ start.r[reg] \in Va
  BY LoggedMoveType
<1>2. \A a \in Va, b \in Int : Shifted(Shifted(a, b), -b) = a
  BY ShiftUndone
<1>3. Undone(log)[reg] = Shifted(r[reg], -LoggedMove(log, reg))
  BY DEF Undone
<1> QED BY <1>1, <1>2, <1>3, Zenon

LEMMA ResumeInv == ASSUME Inv, Resume PROVE Inv'
<1>1. /\ FlagsRight /\ mmr0 \in Errs /\ ~Frozen /\ start.r \in [Registers -> Va]
      /\ r \in [Registers -> Va] /\ saved.page \in Pages /\ Waiting(saved.log, saved.at)
  BY FlagsRightIs DEF Inv, WrittenIsFlagged, TypeOK, Resume
<1>2. /\ insn \in Instructions /\ saved.at \in Va /\ saved.at = start.pc /\ Log(saved.log)
      /\ Restartable(insn) => \A reg \in Registers :
           r[reg] = Shifted(start.r[reg], LoggedMove(saved.log, reg))
  BY <1>1 DEF Waiting
<1>3. /\ phase' = "run" /\ insn' = insn /\ todo' = Plan(insn) /\ ea' = 0
      /\ mmr1' = <<>> /\ mmr2' = saved.at /\ start' = start /\ mmr0' = mmr0
      /\ pc' = saved.at /\ r' = Undone(saved.log)
  BY <1>1 DEF Resume, ClearedLog, LatchedAt
<1>4. FlagsRight'
  <2> DEFINE d == [acf |-> 6, plf |-> BlockCount - 1, ed |-> FALSE]
  <2>1. d \in [acf : 0..7, plf : 0..(BlockCount - 1), ed : BOOLEAN]
    BY GeometryAssumption
  <2>2. /\ pdr' = Stored(saved.page, d)
        /\ dirty' = dirty \ {saved.page} /\ missed' = missed \ {saved.page}
    BY DEF Resume
  <2> HIDE DEF d
  <2> QED BY <1>1, <2>1, <2>2, StoredRight
<1>5. r' \in [Registers -> Va]
  <2>1. \A reg \in Registers : Shifted(r[reg], -LoggedMove(saved.log, reg)) \in Va
    <3>1. TAKE reg \in Registers
    <3>2. LoggedMove(saved.log, reg) \in Int
      BY <1>2, LoggedMoveType
    <3>3. r[reg] \in Int /\ -LoggedMove(saved.log, reg) \in Int
      BY <1>1, <3>2, RangeType DEF Va
    <3> QED BY <3>3, ShiftedType
  <2> QED BY <1>3, <2>1 DEF Undone
<1>6. ASSUME Restartable(insn), NEW reg \in Registers
      PROVE  r'[reg] = Shifted(start'.r[reg], 0)
  <2>1. r'[reg] = start.r[reg]
    BY <1>1, <1>2, <1>3, <1>6, UndoneIsStart
  <2>2. start.r[reg] \in Va
    BY <1>1
  <2> QED BY <1>3, <2>1, <2>2, ShiftUndone
<1>7. Running' /\ Log(mmr1')
  BY <1>2, <1>3, <1>6, BegunRunning
<1>8. 0 \in Va
  BY RangeType DEF Va
<1>9. WrittenIsFlagged'
  BY <1>1, <1>2, <1>3, <1>4, <1>5, <1>7, <1>8, FlaggedNext
<1>10. ~Frozen'
  BY <1>1, <1>3 DEF Frozen
<1> QED BY <1>1, <1>3, <1>7, <1>9, <1>10 DEF Inv

LEMMA InitInv == Init => Inv
<1> SUFFICES ASSUME Init PROVE Inv
  OBVIOUS
<1>1. 0 \in Va /\ 0 \in Pages /\ BlockCount - 1 \in 0 .. BlockCount - 1
  BY RangeType, GeometryAssumption DEF Va, Pages
<1>2. FullPage \in Descriptor /\ ~FullPage.w
  BY <1>1 DEF FullPage, Descriptor
<1>3. /\ pdr \in [Pages -> Descriptor] /\ dirty \cup missed = {p \in Pages : pdr[p].w}
      /\ dirty \subseteq Pages /\ missed \subseteq Pages
  BY <1>2 DEF Init
<1>4. mmr0 \in Errs /\ ~Frozen
  BY <1>1 DEF Init, Errs, Frozen
<1>5. Log(mmr1)
  <2>1. <<>> \in Seq(Entries) /\ Len(<<>>) = 0
    OBVIOUS
  <2> QED BY <2>1 DEF Init, Log
<1>6. TypeOK
  BY <1>1, <1>3, <1>4, <1>5 DEF Init, TypeOK, Descriptor, Errs, Log
<1> QED BY <1>3, <1>4, <1>5, <1>6 DEF Init, Inv, WrittenIsFlagged

\* The handler's own moves and aborts disturb no attempt.
LEMMA HandlerInv ==
  ASSUME Inv, HandlerInstruction \/ \E va \in Va : NestedAbort(va) PROVE Inv'
<1>1. /\ UNCHANGED <<r, pc, pdr, mmr0, phase, insn, todo, ea, saved, start, written>>
      /\ phase \in {"entry", "fixing", "bus"}
  BY FrozenKeeps DEF HandlerInstruction, NestedAbort, Inv
<1>2. ASSUME phase = "entry"
      PROVE  mmr1' = mmr1 /\ mmr2' = mmr2
  <2>1. Frozen
    BY <1>2 DEF Inv
  <2>2. /\ \A log, reg, delta : mmr1_track(log, reg, delta) = log
        /\ ClearedLog = mmr1 /\ \A address : LatchedAt(address) = mmr2
    BY <2>1, FrozenKeeps
  <2>3. CASE HandlerInstruction
    BY <2>2, <2>3, Zenon DEF HandlerInstruction
  <2>4. CASE \E va \in Va : NestedAbort(va)
    BY <2>2, <2>4, Zenon DEF NestedAbort
  <2> QED BY <2>3, <2>4
<1>3. Log(mmr1') /\ mmr2' \in Va \cup {HandlerAddress}
  <2>1. CASE phase = "entry"
    BY <1>2, <2>1 DEF Inv, WrittenIsFlagged, TypeOK
  <2>2. CASE phase # "entry"
    <3>1. mmr1' = Append(<<>>, <<"SP", 2>>) /\ mmr2' = HandlerAddress
      <4>1. ~Frozen /\ HandlerInstruction
        BY <2>2 DEF Inv, NestedAbort
      <4> QED BY <4>1 DEF HandlerInstruction, mmr1_track, ClearedLog, LatchedAt
    <3>2. \A e \in Entries : Append(<<>>, e) \in Seq(Entries) /\ Len(Append(<<>>, e)) = 1
      OBVIOUS
    <3>3. <<"SP", 2>> \in Entries
      BY DEF Entries, Registers
    <3>4. Log(Append(<<>>, <<"SP", 2>>))
      <4>1. \A n : n = 1 => n <= 2
        OBVIOUS
      <4> QED BY <3>2, <3>3, <4>1, Zenon DEF Log
    <3> QED BY <3>1, <3>4
  <2> QED BY <2>1, <2>2
<1>4. FlagsRight'
  BY <1>1, FlagsRightIs DEF FlagsRight, written
<1>5. WrittenIsFlagged'
  BY <1>1, <1>3, <1>4, FlaggedNext DEF Inv, WrittenIsFlagged, TypeOK
<1>6. Waiting(mmr1, mmr2)' \/ phase # "entry"
  BY <1>1, <1>2 DEF Inv, Waiting
<1>7. phase = "fixing" => saved'.page \in Pages /\ Waiting(saved.log, saved.at)'
  BY <1>1 DEF Inv, Waiting
<1> QED BY <1>1, <1>3, <1>5, <1>6, <1>7 DEF Inv, Frozen

LEMMA SaveAndClearInv == ASSUME Inv, SaveAndClear PROVE Inv'
<1>1. /\ phase = "entry" /\ phase' = "fixing"
      /\ saved'.page = mmr0.page /\ saved'.log = mmr1 /\ saved'.at = mmr2
      /\ mmr0' = [mmr0 EXCEPT !.err = {}]
      /\ UNCHANGED <<r, pc, pdr, mmr1, mmr2, insn, todo, ea, start, written>>
  BY DEF SaveAndClear
<1>2. mmr0' \in Errs /\ ~Frozen' /\ mmr0.page \in Pages
  BY <1>1 DEF Inv, Errs, Frozen
<1>3. Waiting(saved.log, saved.at)'
  BY <1>1 DEF Inv, Waiting
<1>4. FlagsRight'
  BY <1>1, FlagsRightIs DEF FlagsRight, written
<1>5. WrittenIsFlagged'
  BY <1>1, <1>2, <1>4, FlaggedNext DEF Inv, WrittenIsFlagged, TypeOK
<1> QED BY <1>1, <1>2, <1>3, <1>5 DEF Inv

\* Between two instructions nothing is promised of the registers.
LEMMA BetweenInv ==
  ASSUME Inv, phase' = "next", UNCHANGED <<mmr0, mmr1, mmr2>>, phase # "entry", FlagsRight',
         r' \in [Registers -> Va], pc' \in Va, ea' \in Va,
         insn' \in Instructions \cup {NoInstruction}
  PROVE  Inv'
<1>1. mmr0' \in Errs /\ Log(mmr1') /\ mmr2' \in Va \cup {HandlerAddress} /\ ~Frozen'
  BY DEF Inv, WrittenIsFlagged, TypeOK, Frozen
<1>2. WrittenIsFlagged'
  BY <1>1, FlaggedNext
<1> QED BY <1>1, <1>2 DEF Inv

LEMMA StepInv == ASSUME Inv, [Next]_vars PROVE Inv'
<1>1. CASE \E i \in Instructions, at \in PcStarts : Begin(i, at)
  BY <1>1, BeginInv
<1>2. CASE Execute
  BY <1>2, ExecuteInv
<1>3. CASE HandlerInstruction \/ \E va \in Va : NestedAbort(va)
  BY <1>3, HandlerInv
<1>4. CASE SaveAndClear
  BY <1>4, SaveAndClearInv
<1>5. CASE Resume
  BY <1>5, ResumeInv
<1>6. /\ r \in [Registers -> Va] /\ pc \in Va /\ ea \in Va /\ FlagsRight /\ 0 \in Va
      /\ insn \in Instructions \cup {NoInstruction}
  BY FlagsRightIs, RangeType DEF Inv, WrittenIsFlagged, TypeOK, Va
<1>7. CASE Retire
  BY <1>6, <1>7, BetweenInv DEF Retire, FlagsRight, written
<1>8. CASE EndProgram
  BY <1>6, <1>8, BetweenInv DEF EndProgram, FlagsRight, written
<1>9. CASE \E p \in Pages, d \in PdrStores : StorePdr(p, d)
  <2>1. PICK p \in Pages, d \in PdrStores : StorePdr(p, d)
    BY <1>9
  <2>2. FlagsRight'
    BY <1>6, <2>1, ProgramAssumption, StoredRight DEF StorePdr
  <2> QED BY <1>6, <2>1, <2>2, BetweenInv DEF StorePdr
<1>10. CASE UNCHANGED vars
  BY <1>10 DEF vars, written, Inv, WrittenIsFlagged, TypeOK, Frozen, Running, Ahead, Room, StepsDone,
               Waiting
<1> QED BY <1>1, <1>2, <1>3, <1>4, <1>5, <1>7, <1>8, <1>9, <1>10 DEF Next

LEMMA SpecInv == Spec => []Inv
BY InitInv, StepInv, PTL DEF Spec

\* The W flag is set for every page that holds data newer than its copy on disk, and
\* else only for one to which a write was let through that found neither memory nor a
\* device, whatever aborts and restarts came between, for every geometry and every
\* program.
THEOREM WrittenAreFlagged == Spec => []WrittenIsFlagged
<1>1. Inv => WrittenIsFlagged
  BY DEF Inv
<1> QED BY <1>1, SpecInv, PTL

\* When a restartable instruction retires each register has moved exactly once by
\* what its operands call for, however often it was begun again.
THEOREM InstructionMovesOnce == Spec => MovesExactlyOnce
<1> DEFINE MovedOnce == Retire /\ Restartable(insn) =>
                      \A reg \in Registers : r[reg] = Shifted(start.r[reg], NetMove(insn, reg))
<1>1. ASSUME Inv, Retire, Restartable(insn), NEW reg \in Registers
      PROVE  r[reg] = Shifted(start.r[reg], NetMove(insn, reg))
  <2>1. Running /\ todo = <<>>
    BY <1>1 DEF Inv, Retire
  <2>2. Len(Plan(insn)) \in Nat
    BY <2>1, PlanSteps DEF Running
  <2>3. StepsDone = Len(Plan(insn))
    BY <2>1, <2>2 DEF StepsDone
  <2> QED BY <1>1, <2>1, <2>3 DEF Running, NetMove
<1>2. Inv /\ [Next]_vars => [MovedOnce]_vars
  BY <1>1
<1> QED BY <1>2, SpecInv, PTL DEF Spec, MovesExactlyOnce

\* Each time the handler begins a restartable instruction again, the registers and
\* the PC are those of its first attempt: for these instructions MMR1 is what cpu.h
\* says it is (EveryAbortUnwinds claims it of all).
THEOREM RestartUnwinds ==
  Spec => [][Resume /\ Restartable(insn) => r' = start.r /\ pc' = start.pc]_vars
<1> DEFINE Unwound == Resume /\ Restartable(insn) => r' = start.r /\ pc' = start.pc
<1>1. ASSUME Inv, Resume, Restartable(insn)
      PROVE  r' = start.r /\ pc' = start.pc
  <2>1. /\ Waiting(saved.log, saved.at) /\ start.r \in [Registers -> Va]
        /\ r' = Undone(saved.log) /\ pc' = saved.at
    BY <1>1 DEF Inv, Resume
  <2>2. \A reg \in Registers : Undone(saved.log)[reg] = start.r[reg]
    BY <1>1, <2>1, UndoneIsStart DEF Waiting
  <2>3. Undone(saved.log) = [reg \in Registers |-> Undone(saved.log)[reg]]
    BY DEF Undone
  <2> QED BY <2>1, <2>2, <2>3 DEF Waiting
<1>2. Inv /\ [Next]_vars => [Unwound]_vars
  BY <1>1
<1> QED BY <1>2, SpecInv, PTL DEF Spec
=============================================================================
