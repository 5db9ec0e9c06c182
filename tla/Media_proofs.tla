---------------------------- MODULE Media_proofs ----------------------------
(***************************************************************************)
(* The TM11 for every tape: a command is scheduled exactly while DONE is   *)
(* clear, the bus request is an edge latch on DONE and IE, a tape that is  *)
(* write-protected keeps its contents, and a tape of whole records stays   *)
(* one, with the drive at the edge of a record.                            *)
(*                                                                         *)
(* The RX11 for every size of buffer and disk: its types, the handshake by *)
(* which a program and the controller move bytes, its progress, and that   *)
(* fill and empty move the buffer whole and in order.                      *)
(***************************************************************************)
EXTENDS MCMedia, WellFoundedInduction, TLAPS

\* The control bits have their types, a command is scheduled or the controller
\* is done, and it requests only while DONE and IE are both set.
ControlInv ==
  /\ done \in BOOLEAN /\ ie \in BOOLEAN
  /\ busy \in BOOLEAN /\ request \in BOOLEAN /\ given \in BOOLEAN
  /\ DoneXorBusy
  /\ request => done /\ ie

\* The controller powers up ready, with interrupts disabled.
LEMMA InitInv == Init => ControlInv
BY DEF Init, ControlInv, DoneXorBusy

\* A store to MTC starts a command, refuses it, or only replaces the function
\* of one in flight; the controller is left done, with a request on the edge,
\* or busy with none.
LEMMA WriteMtcInv ==
  ASSUME ControlInv,
         NEW f \in Functions, NEW e \in BOOLEAN, NEW go \in BOOLEAN,
         WriteMtc(f, e, go)
  PROVE  /\ ControlInv'
         /\ given' # given => done
         /\ request' = (ie' /\ done' /\ (request \/ ~(ie /\ done) \/ given' # given))
<1>1. ie' = e
  BY DEF WriteMtc
<1>2. CASE done /\ go /\ Refuse(f, e) /\ given' = ~given
  BY <1>1, <1>2 DEF Refuse, Finish, ControlInv, DoneXorBusy
<1>3. CASE done /\ go /\ Begin(f) /\ given' = ~given
  BY <1>1, <1>3 DEF Begin, ControlInv, DoneXorBusy
<1>4. CASE ~(done /\ go)
  <2>1. /\ done' = done /\ busy' = busy /\ given' = given
        /\ request' = (e /\ (request \/ (done /\ ~ie)))
    BY <1>4 DEF WriteMtc, Requested
  <2> QED BY <1>1, <2>1 DEF ControlInv, DoneXorBusy
<1> QED BY <1>2, <1>3, <1>4 DEF WriteMtc

\* Every step preserves the invariant and is a step of the latch.
LEMMA StepInv ==
  ControlInv /\ [Next]_vars => ControlInv' /\ [Latch!Next]_(Latch!vars)
<1> SUFFICES ASSUME ControlInv, [Next]_vars
             PROVE  ControlInv' /\ (Latch!Next \/ UNCHANGED <<ie, done, given, request>>)
  BY DEF Latch!vars
<1> USE DEF Latch!Next, Latch!Change, Latch!Acknowledge, Latch!Both, Latch!Edge
<1>1. ASSUME NEW f \in Functions, NEW e \in BOOLEAN, NEW go \in BOOLEAN,
             WriteMtc(f, e, go)
      PROVE  ControlInv' /\ Latch!Next
  <2>1. /\ ControlInv'
        /\ given' # given => done
        /\ request' = (ie' /\ done' /\ (request \/ ~(ie /\ done) \/ given' # given))
    BY <1>1, WriteMtcInv
  <2> QED BY <2>1 DEF ControlInv
<1>2. CASE \/ \E v \in 0 .. CountRange - 1 : WriteCount(v)
           \/ UNCHANGED vars
  BY <1>2 DEF WriteCount, vars, mtc, ControlInv, DoneXorBusy
<1>3. CASE Poll
  <2>1. done' = TRUE /\ busy' = FALSE /\ request' = ie /\ ie' = ie /\ given' = given
    BY <1>3 DEF Poll, Finish
  <2>2. ~done /\ ~request
    BY <1>3 DEF Poll, ControlInv, DoneXorBusy
  <2> QED BY <2>1, <2>2 DEF ControlInv, DoneXorBusy
<1>4. CASE Grant
  BY <1>4 DEF Grant, mtc, ControlInv, DoneXorBusy
<1>5. CASE ControllerInit(0) \/ ControllerInit(bc)
  BY <1>5 DEF ControllerInit, ControlInv, DoneXorBusy
<1> QED BY <1>1, <1>2, <1>3, <1>4, <1>5 DEF Next

\* Every reachable state satisfies the invariant.
LEMMA InvHolds == Spec => []ControlInv
BY InitInv, StepInv, PTL DEF Spec

\* The bus request implements the edge latch, although the enable bit that
\* counts is the one stored last before the command runs.
THEOREM RequestIsLatch == Spec => LatchesInterrupt
<1>1. Init => Latch!Init
  BY DEF Init, Latch!Init
<1> QED BY <1>1, StepInv, InvHolds, PTL DEF LatchesInterrupt, Latch!Spec, Spec

\* DONE is clear exactly while a command is scheduled.
THEOREM DoneMeansIdle == Spec => []DoneXorBusy
<1>1. ControlInv => DoneXorBusy
  BY DEF ControlInv
<1> QED BY <1>1, InvHolds, PTL

-----------------------------------------------------------------------------

\* A command that runs on a protected tape leaves the image alone: what may
\* have been checked when another function was given is checked again.
LEMMA ExecuteKeeps ==
  ASSUME Execute, wrp
  PROVE  tape' = tape
<1>1. CASE Read
  BY <1>1 DEF Read, Fail, medium
<1>2. CASE Write
  BY <1>2 DEF Write, Fail, MayWrite, medium
<1>3. CASE WriteMark
  BY <1>3 DEF WriteMark, Fail, MayWrite, medium
<1>4. CASE SpaceForward
  BY <1>4 DEF SpaceForward, Fail, medium
<1>5. CASE SpaceReverse
  BY <1>5 DEF SpaceReverse
<1>6. CASE Rewind
  BY <1>6 DEF Rewind
<1> QED BY <1>1, <1>2, <1>3, <1>4, <1>5, <1>6 DEF Execute

\* A write-protected tape never changes, whichever function is in the register
\* by the time the command runs.
THEOREM ProtectionHolds == Spec => ProtectedKeeps
<1>1. ASSUME Next, wrp
      PROVE  tape' = tape
  <2>1. ASSUME NEW f \in Functions, NEW e \in BOOLEAN, NEW go \in BOOLEAN,
               WriteMtc(f, e, go)
        PROVE  tape' = tape
    BY <2>1 DEF WriteMtc, medium
  <2>2. CASE Poll
    BY <1>1, <2>2, ExecuteKeeps DEF Poll
  <2>3. CASE \/ \E v \in 0 .. CountRange - 1 : WriteCount(v)
             \/ ControllerInit(0) \/ ControllerInit(bc) \/ Grant
    BY <2>3 DEF WriteCount, ControllerInit, Grant, medium
  <2> QED BY <1>1, <2>1, <2>2, <2>3 DEF Next
<1>2. [Next]_vars => [wrp => UNCHANGED tape]_vars
  BY <1>1
<1> QED BY <1>2, PTL DEF Spec, ProtectedKeeps

-----------------------------------------------------------------------------
(* The records of the tape.                                                 *)

\* What holds of zero, and of each successor with its number, holds of every number.
LEMMA NatSetInduction ==
  ASSUME NEW S, 0 \in S, \A n \in Nat : n \in S => n + 1 \in S
  PROVE  Nat \subseteq S
<1> DEFINE Less == OpToRel(<, Nat)
           T == Nat \ S
<1>1. IsWellFoundedOn(Less, Nat)
  BY NatLessThanWellFounded, Zenon
<1>2. \A y, x \in Nat : y < x => <<y, x>> \in Less
  BY DEF OpToRel
<1> HIDE DEF Less
<1> SUFFICES ASSUME T # {} PROVE FALSE
  OBVIOUS
<1>3. PICK x \in T : \A y \in T : ~(<<y, x>> \in Less)
  <2>1. T \subseteq Nat
    OBVIOUS
  <2> QED BY <1>1, <2>1, WFMin, Zenon
<1>4. x - 1 \in Nat /\ x \in Nat /\ x - 1 < x /\ x \notin S
  BY <1>3
<1>5. (x - 1) + 1 \in S
  BY <1>2, <1>3, <1>4
<1>6. (x - 1) + 1 = x
  BY <1>4
<1> QED BY <1>4, <1>5, <1>6

\* A walk from record to record that ends at a goal, as FramedFrom and PassesPos
\* take it.
Walk(f, goal) ==
  f = [at \in 0 .. Cells |->
         \/ at = goal
         \/ at < goal /\ Stands(at) /\ f[EndOf(tape, at)]]

\* Places from each of which the walk goes on within them until the goal.
Leads(places, goal) ==
  /\ places \subseteq 0 .. Cells
  /\ \A at \in places :
       at = goal \/ (at < goal /\ Stands(at) /\ EndOf(tape, at) \in places)

\* A record or mark that stands takes cells of the tape.
LEMMA StandsBetween ==
  ASSUME TypeOK, NEW at \in 0 .. Cells, Stands(at)
  PROVE  /\ at + Header <= Cells /\ tape[at] \in Nat
         /\ EndOf(tape, at) \in 0 .. Cells /\ at + Header <= EndOf(tape, at)
<1>1. Cells \in Nat /\ dataEnd \in 0 .. Cells
  BY ImageAssumption DEF TypeOK
<1>2. at + Header <= Cells /\ tape[at] >= 0
  BY <1>1 DEF Stands, LengthAt, NoRecord, Header
<1>3. tape[at] \in Nat
  BY <1>1, <1>2, ImageAssumption DEF TypeOK, Cell, Data, Header
<1>4. EndOf(tape, at) \in Nat /\ at + Header <= EndOf(tape, at)
  BY <1>1, <1>3 DEF EndOf, After, Padded, Header
<1>5. EndOf(tape, at) <= dataEnd
  BY DEF Stands
<1> QED BY <1>1, <1>2, <1>3, <1>4, <1>5

\* There is such a walk: the one that is true at the places that lead to the goal.
LEMMA WalkExists ==
  ASSUME TypeOK, NEW goal \in 0 .. Cells
  PROVE  \E f : Walk(f, goal)
<1> DEFINE good(at) == \E places : at \in places /\ Leads(places, goal)
           f == [at \in 0 .. Cells |-> good(at)]
           next(at) == EndOf(tape, at)
<1>1. ASSUME NEW at \in 0 .. Cells
      PROVE  good(at) <=> at = goal \/ (at < goal /\ Stands(at) /\ f[next(at)])
  <2>1. Stands(at) => next(at) \in 0 .. Cells
    BY <1>1, StandsBetween
  <2>2. Stands(at) => (f[next(at)] <=> good(next(at)))
    BY <2>1
  <2> HIDE DEF f, next
  <2>3. ASSUME good(at), at # goal
        PROVE  at < goal /\ Stands(at) /\ good(next(at))
    BY <2>3 DEF Leads, next
  <2>4. CASE at = goal
    <3>1. Leads({goal}, goal)
      BY DEF Leads
    <3> QED BY <2>4, <3>1
  <2>5. ASSUME at < goal, Stands(at), good(next(at))
        PROVE  good(at)
    <3>1. PICK places : next(at) \in places /\ Leads(places, goal)
      BY <2>5
    <3>2. Leads(places \cup {at}, goal)
      BY <1>1, <2>5, <3>1 DEF Leads, next
    <3> QED BY <3>2
  <2> HIDE DEF good
  <2> QED BY <2>2, <2>3, <2>4, <2>5
<1>2. Walk(f, goal)
  <2> DEFINE onwards(at) == at = goal \/ (at < goal /\ Stands(at) /\ f[next(at)])
  <2>1. ASSUME NEW at \in 0 .. Cells
        PROVE  good(at) = onwards(at)
    <3>1. good(at) <=> onwards(at)
      BY <1>1, Zenon
    <3>2. good(at) \in BOOLEAN /\ onwards(at) \in BOOLEAN
      OBVIOUS
    <3> HIDE DEF good, onwards
    <3> QED BY <3>1, <3>2
  <2>2. f = [at \in 0 .. Cells |-> onwards(at)]
    <3> HIDE DEF good, onwards
    <3> QED BY <2>1, Zenon
  <2> QED BY <2>2, Zenon DEF Walk
<1> QED BY <1>2

\* Every such walk reaches the goal from a place that leads to it.
LEMMA WalkReaches ==
  ASSUME TypeOK, NEW goal \in 0 .. Cells, NEW f, Walk(f, goal),
         NEW places, Leads(places, goal), NEW start \in places
  PROVE  f[start]
<1>1. \A at \in 0 .. Cells :
        f[at] <=> at = goal \/ (at < goal /\ Stands(at) /\ f[EndOf(tape, at)])
  BY Zenon DEF Walk
<1> DEFINE S == {n \in Nat : \A at \in places : goal - at <= n => f[at]}
<1>2. places \subseteq 0 .. Cells /\ goal \in Nat
  BY ImageAssumption DEF Leads
<1>3. 0 \in S
  <2>1. ASSUME NEW at \in places, goal - at <= 0 PROVE f[at]
    <3>1. at = goal
      BY <1>2, <2>1, ImageAssumption DEF Leads
    <3> QED BY <1>1, <1>2, <3>1
  <2> QED BY <2>1
<1>4. ASSUME NEW n \in Nat, n \in S
      PROVE  n + 1 \in S
  <2>1. ASSUME NEW at \in places, goal - at <= n + 1 PROVE f[at]
    <3>1. at \in 0 .. Cells
      BY <1>2
    <3>2. CASE at = goal
      BY <1>1, <3>1, <3>2
    <3>3. CASE at # goal
      <4>1. at < goal /\ Stands(at) /\ EndOf(tape, at) \in places
        BY <3>3 DEF Leads
      <4>2. at + Header <= EndOf(tape, at) /\ EndOf(tape, at) \in 0 .. Cells
        BY <3>1, <4>1, StandsBetween
      <4>3. goal - EndOf(tape, at) <= n
        BY <1>2, <2>1, <3>1, <4>2, ImageAssumption DEF Header
      <4>4. f[EndOf(tape, at)]
        BY <1>4, <4>1, <4>3
      <4> QED BY <1>1, <3>1, <4>1, <4>4
    <3> QED BY <3>2, <3>3
  <2>2. n + 1 \in Nat
    OBVIOUS
  <2> QED BY <2>1, <2>2
<1>5. Nat \subseteq S
  <2> HIDE DEF S
  <2> QED BY <1>3, <1>4, NatSetInduction
<1>6. \A n \in Nat : \A at \in places : goal - at <= n => f[at]
  BY <1>5
<1>7. goal - start <= goal
  BY <1>2, ImageAssumption
<1> QED BY <1>2, <1>6, <1>7

\* The places where records and marks begin, one behind the other from the start of
\* the tape to the end of the data; the drive stands at one of them or behind all.
Records(places) ==
  /\ places \subseteq 0 .. dataEnd
  /\ 0 \in places /\ pos \in places /\ dataEnd \in places
  /\ \A at \in places : at # dataEnd => Stands(at) /\ EndOf(tape, at) \in places
  /\ \A at, later \in places : at < later => EndOf(tape, at) <= later

TapeInv == TypeOK /\ \E places : Records(places)

LEMMA TapeInvFramed == ASSUME TapeInv PROVE Framed
<1>1. TypeOK /\ Cells \in Nat /\ dataEnd \in 0 .. Cells /\ pos \in 0 .. Cells
  BY ImageAssumption DEF TapeInv, TypeOK
<1>2. PICK places : Records(places)
  BY DEF TapeInv
<1>3. places \subseteq 0 .. dataEnd /\ places \subseteq 0 .. Cells /\ pos <= dataEnd
  BY <1>1, <1>2 DEF Records
<1>4. FramedFrom[0]
  <2>1. Leads(places, dataEnd)
    <3>1. \A at \in places : at # dataEnd => at < dataEnd
      BY <1>1, <1>3
    <3> QED BY <1>2, <1>3, <3>1 DEF Records, Leads
  <2>2. FramedFrom = CHOOSE f : Walk(f, dataEnd)
    BY Zenon DEF FramedFrom, Walk
  <2>3. Walk(FramedFrom, dataEnd)
    <3>1. \E f : Walk(f, dataEnd)
      BY <1>1, WalkExists
    <3> QED BY <2>2, <3>1, Zenon
  <2>4. 0 \in places
    BY <1>2 DEF Records
  <2> QED BY <1>1, <2>1, <2>3, <2>4, WalkReaches
<1>5. PassesPos[0]
  <2> DEFINE before == {at \in places : at <= pos}
  <2>1. Leads(before, pos)
    <3>1. ASSUME NEW at \in before, at # pos
          PROVE  at < pos /\ Stands(at) /\ EndOf(tape, at) \in before
      <4>1. at < pos /\ at # dataEnd
        BY <1>1, <1>3, <3>1
      <4> QED BY <1>2, <3>1, <4>1 DEF Records
    <3> QED BY <1>3, <3>1 DEF Leads
  <2>2. PassesPos = CHOOSE f : Walk(f, pos)
    BY Zenon DEF PassesPos, Walk
  <2>3. Walk(PassesPos, pos)
    <3>1. \E f : Walk(f, pos)
      BY <1>1, WalkExists
    <3> QED BY <2>2, <3>1, Zenon
  <2>4. 0 \in before
    BY <1>1, <1>2 DEF Records
  <2> HIDE DEF before
  <2> QED BY <1>1, <2>1, <2>3, <2>4, WalkReaches
<1> QED BY <1>1, <1>4, <1>5 DEF Framed

\* The tape is attached with whole records, and the drive at its start.
LEMMA TapeInit == ASSUME Init PROVE TapeInv
<1>1. tape \in Images /\ pos = 0 /\ dataEnd = Cells
  BY DEF Init
<1>2. TypeOK
  <2>1. tape \in [0 .. Cells - 1 -> Cell] /\ Cells \in Nat /\ CountRange \in Nat \ {0}
    BY <1>1, ImageAssumption
  <2>2. 0 \in 0 .. CountRange - 1 /\ 0 \in 0 .. Cells /\ Cells \in 0 .. Cells
    BY <2>1
  <2> QED BY <1>1, <2>1, <2>2 DEF Init, TypeOK, Functions
<1>3. PICK places \in SUBSET (0 .. Cells) :
        /\ 0 \in places /\ Cells \in places
        /\ \A at \in places \ {Cells} :
             /\ at + Header <= Cells /\ tape[at] >= 0 /\ EndOf(tape, at) \in places
             /\ tape[EndOf(tape, at) - Header] = tape[at]
             /\ \A later \in places : at < later => EndOf(tape, at) <= later
  BY <1>1, RecordsAssumption, Zenon
<1>4. ASSUME NEW at \in places, at # Cells
      PROVE  Stands(at) /\ EndOf(tape, at) \in places
  <2>1. /\ at + Header <= Cells /\ tape[at] >= 0 /\ EndOf(tape, at) \in places
        /\ tape[EndOf(tape, at) - Header] = tape[at]
    BY <1>3, <1>4
  <2>2. \A place \in places : place \in Int /\ place <= Cells
    BY ImageAssumption
  <2>3. at \in Int /\ Cells \in Nat /\ EndOf(tape, at) <= Cells
    BY <2>1, <2>2, ImageAssumption, Zenon
  <2> QED BY <1>1, <2>1, <2>3 DEF Stands, LengthAt, Header
<1>5. ASSUME NEW at \in places, NEW later \in places, at < later
      PROVE  EndOf(tape, at) <= later
  <2>1. at # Cells
    BY <1>5, ImageAssumption
  <2> QED BY <1>3, <1>5, <2>1
<1>6. Records(places)
  BY <1>1, <1>3, <1>4, <1>5 DEF Records
<1> QED BY <1>2, <1>6 DEF TapeInv

\* A drive that is not at the start stands behind a record or mark.
LEMMA RecordBehind ==
  ASSUME TypeOK, NEW places, Records(places), pos # 0
  PROVE  \E at \in places : at < pos /\ Stands(at) /\ EndOf(tape, at) = pos
<1> DEFINE found == \E at \in places : at < pos /\ EndOf(tape, at) = pos
           S == {n \in Nat : \A at \in places : at < pos /\ pos - at <= n => found}
<1>1. /\ Cells \in Nat /\ dataEnd \in 0 .. Cells /\ pos \in 0 .. dataEnd
      /\ places \subseteq 0 .. dataEnd /\ places \subseteq 0 .. Cells
      /\ 0 \in places /\ pos \in places
  BY ImageAssumption DEF TypeOK, Records
<1>2. ASSUME NEW at \in places, at < pos
      PROVE  /\ Stands(at) /\ EndOf(tape, at) \in places /\ EndOf(tape, at) <= pos
             /\ at + Header <= EndOf(tape, at)
  <2>1. at # dataEnd /\ at \in 0 .. Cells
    BY <1>1, <1>2
  <2>2. Stands(at) /\ EndOf(tape, at) \in places /\ EndOf(tape, at) <= pos
    BY <1>1, <1>2, <2>1 DEF Records
  <2> QED BY <2>1, <2>2, StandsBetween
<1>3. 0 \in S
  BY <1>1
<1>4. ASSUME NEW n \in Nat, n \in S
      PROVE  n + 1 \in S
  <2>1. ASSUME NEW at \in places, at < pos, pos - at <= n + 1
        PROVE  found
    <3>1. /\ EndOf(tape, at) \in places /\ EndOf(tape, at) <= pos
          /\ at + Header <= EndOf(tape, at)
      BY <1>2, <2>1
    <3>2. CASE EndOf(tape, at) = pos
      BY <2>1, <3>2
    <3>3. CASE EndOf(tape, at) # pos
      <4>1. /\ at \in Int /\ EndOf(tape, at) \in Int /\ pos \in Int
        <5>1. \A place \in places : place \in Int
          BY <1>1
        <5> QED BY <1>1, <3>1, <5>1, Zenon
      <4>2. EndOf(tape, at) < pos /\ pos - EndOf(tape, at) <= n
        BY <2>1, <3>1, <3>3, <4>1 DEF Header
      <4> HIDE DEF found
      <4> QED BY <1>4, <3>1, <4>2
    <3> QED BY <3>2, <3>3
  <2>2. n + 1 \in Nat
    OBVIOUS
  <2> HIDE DEF found
  <2> QED BY <2>1, <2>2
<1>5. Nat \subseteq S
  <2> HIDE DEF S
  <2> QED BY <1>3, <1>4, NatSetInduction
<1>6. 0 < pos /\ pos - 0 <= pos /\ pos \in Nat
  BY <1>1
<1>7. found
  <2>1. \A at \in places : at < pos /\ pos - at <= pos => found
    BY <1>5, <1>6
  <2> HIDE DEF found
  <2> QED BY <1>1, <1>6, <2>1
<1> QED BY <1>2, <1>7

\* The commands that only move the drive, to another place between two records.
LEMMA MovedInv ==
  ASSUME TypeOK, NEW places, Records(places), pos' \in places,
         UNCHANGED <<tape, dataEnd>>, TypeOK'
  PROVE  TapeInv'
<1>1. Records(places)'
  BY DEF Records, Stands, EndOf, After, LengthAt
<1> QED BY <1>1 DEF TapeInv

\* The records before the position stay when the tape is written from there on, and
\* the data then ends behind what was written.
LEMMA ExtendedInv ==
  ASSUME TypeOK, TypeOK', NEW places, Records(places),
         \A c \in 0 .. pos - 1 : tape'[c] = tape[c],
         pos' = dataEnd',
         NEW more, more \subseteq pos .. dataEnd', pos \in more, dataEnd' \in more,
         \A at \in more : at # dataEnd' => Stands(at)' /\ EndOf(tape', at) \in more,
         \A at, later \in more : at < later => EndOf(tape', at) <= later
  PROVE  TapeInv'
<1> PICK before : before = {at \in places : at < pos}
  OBVIOUS
<1> PICK all : all = before \cup more
  OBVIOUS
<1>1. /\ Cells \in Nat /\ dataEnd \in 0 .. Cells /\ pos \in 0 .. dataEnd
      /\ dataEnd' \in 0 .. Cells /\ pos <= dataEnd'
      /\ places \subseteq 0 .. dataEnd /\ 0 \in places /\ pos \in places
  BY ImageAssumption DEF TypeOK, Records
<1>2. ASSUME NEW at \in before
      PROVE  /\ at \in 0 .. pos - 1
             /\ Stands(at)' /\ EndOf(tape', at) \in all /\ EndOf(tape', at) <= pos
             /\ EndOf(tape', at) = EndOf(tape, at)
  <2>1. at \in 0 .. pos - 1 /\ at \in 0 .. Cells /\ at # dataEnd /\ at \in places
    <3>1. at \in places /\ at < pos /\ at \in 0 .. dataEnd
      BY <1>1, <1>2
    <3> QED BY <1>1, <3>1
  <2>2. Stands(at) /\ EndOf(tape, at) \in places /\ EndOf(tape, at) <= pos
    BY <1>1, <2>1 DEF Records
  <2>3. /\ at + Header <= Cells /\ tape[at] \in Nat
        /\ EndOf(tape, at) \in 0 .. Cells /\ at + Header <= EndOf(tape, at)
    BY <2>1, <2>2, StandsBetween
  <2>4. tape'[at] = tape[at] /\ EndOf(tape', at) = EndOf(tape, at)
    BY <2>1 DEF EndOf
  <2> DEFINE end == EndOf(tape, at)
  <2>5. tape[end - Header] = tape[at]
    BY <2>2 DEF Stands
  <2> HIDE DEF end
  <2>6. end \in 0 .. Cells /\ at + Header <= end /\ end <= pos
    BY <2>2, <2>3 DEF end
  <2>7. end - Header \in 0 .. pos - 1
    BY <1>1, <2>1, <2>6 DEF Header
  <2>8. tape'[end - Header] = tape'[at]
    BY <2>4, <2>5, <2>7
  <2>9. LengthAt(at)' >= 0 /\ end <= dataEnd'
    BY <1>1, <2>1, <2>3, <2>4, <2>6 DEF LengthAt, Header
  <2>10. Stands(at)'
    BY <2>4, <2>8, <2>9 DEF Stands, end
  <2>11. end \in all
    BY <1>1, <2>2, <2>6 DEF end
  <2> QED BY <2>1, <2>4, <2>6, <2>10, <2>11 DEF end
<1>3. ASSUME NEW at \in all, at # dataEnd'
      PROVE  Stands(at)' /\ EndOf(tape', at) \in all
  <2>1. CASE at \in before
    BY <1>2, <2>1, Zenon
  <2>2. CASE at \in more
    BY <1>3, <2>2, Zenon
  <2> QED BY <2>1, <2>2
<1>4. ASSUME NEW at \in all, NEW later \in all, at < later
      PROVE  EndOf(tape', at) <= later
  <2>1. CASE at \in before /\ later \in before
    <3>1. EndOf(tape', at) = EndOf(tape, at)
      BY <1>2, <2>1, Zenon
    <3>2. at \in places /\ later \in places
      BY <2>1
    <3> QED BY <1>4, <3>1, <3>2 DEF Records
  <2>2. CASE at \in before /\ later \in more
    <3>1. EndOf(tape', at) <= pos /\ EndOf(tape', at) = EndOf(tape, at)
      BY <1>2, <2>2, Zenon
    <3>2. EndOf(tape, at) \in 0 .. Cells
      <4>1. at \in places /\ at \in 0 .. Cells /\ at # dataEnd
        BY <1>1, <2>2
      <4> QED BY <4>1, StandsBetween DEF Records
    <3>3. later \in Int /\ pos <= later /\ pos \in Int /\ EndOf(tape, at) \in Int
      BY <1>1, <2>2, <3>2
    <3> QED BY <3>1, <3>3
  <2>3. CASE at \in more /\ later \in before
    BY <1>1, <1>4, <2>3
  <2>4. CASE at \in more /\ later \in more
    BY <1>4, <2>4, Zenon
  <2> QED BY <2>1, <2>2, <2>3, <2>4
<1>5. all \subseteq 0 .. dataEnd' /\ 0 \in all /\ dataEnd' \in all
  <2>1. 0 \in all
    <3>1. CASE pos = 0
      BY <3>1
    <3>2. CASE pos # 0
      <4>1. 0 < pos
        BY <1>1, <3>2
      <4> QED BY <1>1, <4>1
    <3> QED BY <3>1, <3>2
  <2>2. before \subseteq 0 .. dataEnd'
    <3>1. \A at \in before : at \in Nat /\ at < pos
      BY <1>1
    <3>2. \A at \in Nat : at < pos => at \in 0 .. dataEnd'
      BY <1>1
    <3> QED BY <3>1, <3>2
  <2>3. more \subseteq 0 .. dataEnd'
    BY <1>1
  <2> QED BY <2>1, <2>2, <2>3
<1>6. Records(all)'
  BY <1>3, <1>4, <1>5 DEF Records
<1> QED BY <1>6 DEF TapeInv

\* A command that runs finds whole records behind it, or leaves the tape and the
\* drive alone.
LEMMA WriteMarkInv ==
  ASSUME TypeOK, TypeOK', NEW places, Records(places), WriteMark
  PROVE  TapeInv'
<1>1. CASE ~MayWrite(pos + Header) /\ Fail("ILL")
  <2>1. UNCHANGED <<tape, dataEnd, pos>>
    BY <1>1 DEF Fail, medium
  <2>2. pos' \in places
    BY <2>1 DEF Records
  <2> QED BY <2>1, <2>2, MovedInv
<1>2. CASE MayWrite(pos + Header) /\ tape' = Marked /\ pos' = pos + Header
           /\ dataEnd' = pos + Header
  <2> PICK at : at = pos
    OBVIOUS
  <2> PICK end : end = at + Header
    OBVIOUS
  <2> PICK more : more = {at, end}
    OBVIOUS
  <2>1. /\ at \in 0 .. Cells /\ Cells \in Nat /\ end <= Cells
        /\ tape \in [0 .. Cells - 1 -> Cell] /\ dataEnd' = end /\ pos' = end
    BY <1>2, ImageAssumption DEF TypeOK, MayWrite
  <2>2. /\ at \in 0 .. Cells - 1 /\ at + 1 \in 0 .. Cells - 1 /\ end = at + 2
        /\ end - Header = at
    BY <2>1 DEF Header
  <2>3. tape'[at] = 0 /\ \A c \in 0 .. at - 1 : tape'[c] = tape[c]
    BY <1>2, <2>1, <2>2 DEF Marked
  <2>4. EndOf(tape', at) = end
    BY <2>3 DEF EndOf
  <2>5. Stands(at)'
    <3>1. LengthAt(at)' = 0
      BY <2>1, <2>2, <2>3 DEF LengthAt
    <3> QED BY <2>1, <2>2, <2>3, <2>4, <3>1 DEF Stands
  <2>6. more \subseteq at .. end /\ at \in more /\ end \in more
    BY <2>1, <2>2
  <2>7. \A place \in more : place # end => Stands(place)' /\ EndOf(tape', place) \in more
    BY <2>4, <2>5, Zenon
  <2>8. \A place, later \in more : place < later => EndOf(tape', place) <= later
    BY <2>1, <2>2, <2>4
  <2> QED BY <2>1, <2>3, <2>6, <2>7, <2>8, ExtendedInv
<1> QED BY <1>1, <1>2 DEF WriteMark

LEMMA CountType == ASSUME TypeOK PROVE Count \in 0 .. CountRange - 1
<1>1. CountRange \in Nat \ {0} /\ CountRange - bc \in Int
  BY ImageAssumption DEF TypeOK
<1> QED BY <1>1 DEF Count

\* A record of no bytes is two marks.
LEMMA WriteInv ==
  ASSUME TypeOK, TypeOK', NEW places, Records(places), Write
  PROVE  TapeInv'
<1>1. CASE ~MayWrite(After(pos, Count)) /\ Fail("ILL")
  <2>1. UNCHANGED <<tape, dataEnd, pos>>
    BY <1>1 DEF Fail, medium
  <2>2. pos' \in places
    BY <2>1 DEF Records
  <2> QED BY <2>1, <2>2, MovedInv
<1>2. CASE /\ MayWrite(After(pos, Count)) /\ tape' = Written(Count)
           /\ pos' = After(pos, Count) /\ dataEnd' = After(pos, Count)
  <2> PICK at : at = pos
    OBVIOUS
  <2> PICK n : n = Count
    OBVIOUS
  <2> PICK end : end = After(at, n)
    OBVIOUS
  <2>1. /\ at \in 0 .. Cells /\ Cells \in Nat /\ end <= Cells /\ n \in Nat
        /\ tape \in [0 .. Cells - 1 -> Cell] /\ dataEnd' = end /\ pos' = end
    BY <1>2, ImageAssumption, CountType DEF TypeOK, MayWrite
  <2> PICK last : last = end - Header
    OBVIOUS
  <2>2. /\ end \in Nat /\ at + 4 <= end /\ last \in 0 .. Cells - 1
        /\ n = 0 => end = at + 4
        /\ at \in 0 .. Cells - 1 /\ at < last /\ last + 2 = end
    BY <2>1 DEF After, Padded, Header
  <2>3. tape' = [c \in 0 .. Cells - 1 |->
                   CASE c = at \/ c = last -> n
                     [] c \notin at .. end - 1 -> tape[c]
                     [] OTHER -> Data]
    BY <1>2 DEF Written
  <2>4. tape'[at] = n /\ tape'[last] = n
    BY <2>2, <2>3
  <2>5. ASSUME NEW c \in 0 .. at - 1
        PROVE  tape'[c] = tape[c]
    <3>1. c \in 0 .. Cells - 1 /\ c \in Int /\ c < at
      BY <2>1, <2>2
    <3>2. c # at /\ c # last /\ c \notin at .. end - 1
      BY <2>2, <3>1
    <3> QED BY <2>3, <3>1, <3>2
  <2>6. CASE n # 0
    <3> PICK more : more = {at, end}
      OBVIOUS
    <3>1. EndOf(tape', at) = end
      BY <2>4, <2>6 DEF EndOf
    <3>2. Stands(at)'
      <4>1. LengthAt(at)' = n
        BY <2>1, <2>2, <2>4 DEF LengthAt, Header
      <4> QED BY <2>1, <2>2, <2>4, <3>1, <4>1 DEF Stands, Header
    <3>3. more \subseteq at .. end /\ at \in more /\ end \in more
      BY <2>1, <2>2
    <3>4. \A place \in more : place # end => Stands(place)' /\ EndOf(tape', place) \in more
      BY <3>1, <3>2, Zenon
    <3>5. \A place, later \in more : place < later => EndOf(tape', place) <= later
      BY <2>1, <2>2, <3>1
    <3> QED BY <2>1, <2>5, <3>3, <3>4, <3>5, ExtendedInv
  <2>7. CASE n = 0
    <3> PICK more : more = {at, last, end}
      OBVIOUS
    <3>1. last = at + 2 /\ last \in Nat /\ last + Header = end /\ at + Header = last
      BY <2>1, <2>2, <2>7 DEF Header
    <3>2. EndOf(tape', at) = last /\ EndOf(tape', last) = end
      BY <2>4, <2>7, <3>1 DEF EndOf
    <3>3. Stands(at)' /\ Stands(last)'
      <4>1. LengthAt(at)' = 0 /\ LengthAt(last)' = 0
        BY <2>1, <2>2, <2>4, <2>7, <3>1 DEF LengthAt, Header
      <4>2. last - Header = at /\ end - Header = last
        BY <2>1, <2>2, <3>1 DEF Header
      <4> QED BY <2>1, <2>2, <2>4, <2>7, <3>1, <3>2, <4>1, <4>2 DEF Stands
    <3>4. more \subseteq at .. end /\ at \in more /\ end \in more
      BY <2>1, <2>2, <3>1
    <3>5. \A place \in more : place # end => Stands(place)' /\ EndOf(tape', place) \in more
      BY <3>2, <3>3, Zenon
    <3>6. ASSUME NEW place \in more, NEW later \in more, place < later
          PROVE  EndOf(tape', place) <= later
      <4>1. at < last /\ last < end /\ at \in Int /\ last \in Int /\ end \in Int
        BY <2>1, <2>2
      <4>2. \/ place = at /\ (later = last \/ later = end)
            \/ place = last /\ later = end
        BY <3>6, <4>1
      <4> QED BY <3>2, <4>1, <4>2
    <3> QED BY <2>1, <2>5, <3>4, <3>5, <3>6, ExtendedInv
  <2> QED BY <2>6, <2>7
<1> QED BY <1>1, <1>2 DEF Write

\* A command that runs over a record or mark finds it whole before it.
LEMMA ForwardMoves ==
  ASSUME NEW places, Records(places), Readable, Read \/ SpaceForward
  PROVE  pos' \in places /\ tape' = tape /\ dataEnd' = dataEnd
<1>1. CASE Fail("ILL")
  BY <1>1 DEF Fail, medium, Records
<1>2. CASE ~Fail("ILL")
  <2> PICK n : n = LengthAt(pos)
    OBVIOUS
  <2>1. /\ \/ n = 0 /\ pos' = pos + Header
           \/ n > 0 /\ pos' = After(pos, n)
        /\ tape' = tape /\ dataEnd' = dataEnd
    <3> DEFINE found == LengthAt(pos)
               moved == /\ \/ found = 0 /\ pos' = pos + Header
                           \/ found > 0 /\ pos' = After(pos, found)
                        /\ tape' = tape /\ dataEnd' = dataEnd
    <3>1. Read => Fail("ILL") \/ moved
      BY Zenon DEF Read
    <3>2. SpaceForward => Fail("ILL") \/ moved
      BY Zenon DEF SpaceForward
    <3>3. moved
      <4> HIDE DEF moved
      <4> QED BY <1>2, <3>1, <3>2, Zenon
    <3> QED BY <3>3, Zenon
  <2>2. n # NoRecord /\ n = tape[pos]
    BY <2>1 DEF LengthAt, NoRecord
  <2>3. pos # dataEnd /\ pos \in places
    BY <2>2 DEF Readable, Records
  <2>4. EndOf(tape, pos) \in places
    BY <2>3 DEF Records
  <2>5. pos' = EndOf(tape, pos)
    BY <2>1, <2>2 DEF EndOf
  <2> QED BY <2>1, <2>4, <2>5
<1> QED BY <1>1, <1>2

\* Backwards the second length of the record or mark behind the drive leads to where
\* that begins.
LEMMA ReverseMoves ==
  ASSUME TypeOK, NEW places, Records(places), SpaceReverse
  PROVE  pos' \in places /\ tape' = tape /\ dataEnd' = dataEnd
<1>1. UNCHANGED <<tape, dataEnd>>
  BY DEF SpaceReverse
<1>2. pos' \in places
  <2>1. CASE pos = 0
    BY <2>1 DEF SpaceReverse, Records
  <2>2. CASE pos # 0
    <3>1. PICK at \in places : at < pos /\ Stands(at) /\ EndOf(tape, at) = pos
      BY <2>2, RecordBehind
    <3>2. at \in 0 .. Cells /\ Cells \in Nat /\ pos \in 0 .. Cells
      BY ImageAssumption DEF Records, TypeOK
    <3>3. /\ at + Header <= Cells /\ tape[at] \in Nat
          /\ tape[pos - Header] = tape[at]
      BY <3>1, <3>2, StandsBetween DEF Stands
    <3> PICK n \in Nat : n = tape[at]
      BY <3>3
    <3>4. LengthAt(pos - Header) = n
      BY <3>2, <3>3 DEF LengthAt, Header
    <3>5. pos = IF n = 0 THEN at + Header ELSE at + Header + Padded(n) + Header
      BY <3>1 DEF EndOf, After
    <3>6. Padded(n) \in Nat
      BY DEF Padded
    <3>7. Before(pos, n) = at
      BY <3>2, <3>5, <3>6 DEF Before, Header
    <3> QED BY <2>2, <3>1, <3>4, <3>7 DEF SpaceReverse
  <2> QED BY <2>1, <2>2
<1> QED BY <1>1, <1>2

\* The registers that are no part of the medium keep their widths.
RegistersOK ==
  /\ attached \in BOOLEAN /\ wrp \in BOOLEAN
  /\ done \in BOOLEAN /\ ie \in BOOLEAN /\ func \in Functions
  /\ sta \subseteq Errors /\ bc \in 0 .. CountRange - 1
  /\ busy \in BOOLEAN /\ request \in BOOLEAN /\ given \in BOOLEAN
MediumOK == tape \in [0 .. Cells - 1 -> Cell] /\ pos \in 0 .. Cells /\ dataEnd \in 0 .. Cells

LEMMA TypeParts == TypeOK <=> RegistersOK /\ MediumOK
BY DEF TypeOK, RegistersOK, MediumOK

\* Counts wrap around within their width.
LEMMA CountWraps ==
  ASSUME NEW n \in Int
  PROVE  n % CountRange \in 0 .. CountRange - 1
BY ImageAssumption

LEMMA ExecuteRegisters ==
  ASSUME TypeOK, Execute
  PROVE  sta' \subseteq Errors /\ bc' \in 0 .. CountRange - 1
<1>1. sta \subseteq Errors /\ bc \in 0 .. CountRange - 1 /\ Count \in 0 .. CountRange - 1
  BY CountType DEF TypeOK
<1>2. {"ILL", "EOF", "RLE"} = Errors /\ 0 \in 0 .. CountRange - 1
  BY ImageAssumption DEF Errors
<1>3. \A n \in Int : n % CountRange \in 0 .. CountRange - 1
  BY CountWraps
<1>4. ASSUME Fail("ILL")
      PROVE  sta' \subseteq Errors /\ bc' \in 0 .. CountRange - 1
  BY <1>1, <1>2, <1>4 DEF Fail
<1>5. LengthAt(pos) \in Int \/ LengthAt(pos) = NoRecord
  BY ImageAssumption DEF LengthAt, TypeOK, Cell, Data, Header
<1> PICK n \in Int : n = LengthAt(pos)
  BY <1>5 DEF NoRecord
<1> PICK moved \in Int : moved = IF n < Count THEN n ELSE Count
  BY <1>1
<1>6. bc + moved \in Int /\ bc + 1 \in Int
  BY <1>1
<1>7. (bc + moved) % CountRange \in 0 .. CountRange - 1
      /\ (bc + 1) % CountRange \in 0 .. CountRange - 1
  BY <1>3, <1>6, Zenon
<1>8. CASE Read
  <2>1. \/ Fail("ILL")
        \/ sta' = sta \cup {"EOF"} /\ bc' = bc
        \/ /\ sta' \in {sta, sta \cup {"RLE"}}
           /\ bc' = (bc + (IF LengthAt(pos) < Count THEN LengthAt(pos) ELSE Count)) % CountRange
    BY <1>8 DEF Read
  <2>2. CASE Fail("ILL")
    BY <1>4, <2>2
  <2>3. CASE ~Fail("ILL")
    <3>1. bc' \in {bc, (bc + moved) % CountRange}
      BY <2>1, <2>3
    <3>2. sta' \in {sta, sta \cup {"EOF"}, sta \cup {"RLE"}}
      BY <2>1, <2>3
    <3> QED BY <1>1, <1>2, <1>7, <3>1, <3>2
  <2> QED BY <2>2, <2>3
<1>9. CASE SpaceForward
  <2>1. \/ Fail("ILL")
        \/ sta' = sta \cup {"EOF"} /\ bc' = bc
        \/ sta' = sta /\ bc' = (bc + 1) % CountRange
    BY <1>9 DEF SpaceForward
  <2> QED BY <1>1, <1>2, <1>4, <1>7, <2>1
<1>10. CASE Write \/ WriteMark
  <2>1. \/ Fail("ILL")
        \/ sta' = sta /\ bc' \in {0, bc}
    BY <1>10 DEF Write, WriteMark
  <2> QED BY <1>1, <1>2, <1>4, <2>1
<1>11. CASE SpaceReverse \/ Rewind
  BY <1>1, <1>11 DEF SpaceReverse, Rewind
<1> QED BY <1>8, <1>9, <1>10, <1>11 DEF Execute

\* The commands that only move the drive.
LEMMA MoveInv ==
  ASSUME TypeOK, RegistersOK', NEW places, Records(places),
         pos' \in places, tape' = tape, dataEnd' = dataEnd
  PROVE  TapeInv'
<1>1. pos' \in 0 .. Cells
  BY ImageAssumption DEF TypeOK, Records
<1>2. TypeOK'
  BY <1>1 DEF TypeOK, RegistersOK
<1> QED BY <1>2, MovedInv

\* The commands that write keep the medium's type.
LEMMA WriteMedium ==
  ASSUME TypeOK, Write \/ WriteMark
  PROVE  MediumOK'
<1>1. /\ tape \in [0 .. Cells - 1 -> Cell] /\ pos \in 0 .. Cells /\ dataEnd \in 0 .. Cells
      /\ Count \in Nat /\ Count \in Cell /\ 0 \in Cell /\ Data \in Cell /\ Cells \in Nat
  BY CountType, ImageAssumption DEF TypeOK, Cell, Data
<1>2. ASSUME Fail("ILL") PROVE MediumOK'
  BY <1>1, <1>2 DEF Fail, medium, MediumOK
<1>3. ASSUME MayWrite(After(pos, Count)), tape' = Written(Count),
             pos' = After(pos, Count), dataEnd' = After(pos, Count)
      PROVE  MediumOK'
  <2>1. After(pos, Count) \in Nat
    BY <1>1 DEF After, Padded, Header
  <2>2. After(pos, Count) \in 0 .. Cells
    BY <1>1, <1>3, <2>1 DEF MayWrite
  <2>3. tape' \in [0 .. Cells - 1 -> Cell]
    <3> DEFINE cell(c) == CASE c = pos \/ c = After(pos, Count) - Header -> Count
                            [] c \notin pos .. After(pos, Count) - 1 -> tape[c]
                            [] OTHER -> Data
    <3>1. \A c \in 0 .. Cells - 1 : cell(c) \in Cell
      BY <1>1
    <3>2. tape' = [c \in 0 .. Cells - 1 |-> cell(c)]
      BY <1>3 DEF Written
    <3> HIDE DEF cell
    <3> QED BY <3>1, <3>2
  <2> QED BY <1>3, <2>2, <2>3 DEF MediumOK
<1>4. ASSUME MayWrite(pos + Header), tape' = Marked,
             pos' = pos + Header, dataEnd' = pos + Header
      PROVE  MediumOK'
  <2>1. pos + Header \in 0 .. Cells /\ pos + 1 \in 0 .. Cells - 1 /\ pos \in 0 .. Cells - 1
    BY <1>1, <1>4 DEF MayWrite, Header
  <2>2. tape' \in [0 .. Cells - 1 -> Cell]
    BY <1>1, <1>4, <2>1 DEF Marked
  <2> QED BY <1>4, <2>1, <2>2 DEF MediumOK
<1> QED BY <1>2, <1>3, <1>4 DEF Write, WriteMark

LEMMA PollInv == ASSUME TapeInv, Poll PROVE TapeInv'
<1>1. TypeOK /\ Execute /\ (func \in {"read", "spacef"} => Readable)
  BY DEF TapeInv, Poll
<1> PICK places : Records(places)
  BY DEF TapeInv
<1>2. RegistersOK'
  BY <1>1, ExecuteRegisters DEF Poll, Finish, RegistersOK, TypeOK
<1>3. CASE func = "read" \/ func = "spacef"
  <2>1. Read \/ SpaceForward
    BY <1>1, <1>3 DEF Execute
  <2> QED BY <1>1, <1>2, <1>3, <2>1, ForwardMoves, MoveInv
<1>4. CASE func = "write" \/ func = "mark"
  <2>1. Write \/ WriteMark
    BY <1>1, <1>4 DEF Execute
  <2>2. TypeOK'
    BY <1>1, <1>2, <2>1, WriteMedium DEF MediumOK, RegistersOK, TypeOK
  <2> QED BY <1>1, <2>1, <2>2, WriteInv, WriteMarkInv
<1>5. CASE func = "spacer"
  <2>1. SpaceReverse
    BY <1>1, <1>5 DEF Execute
  <2> QED BY <1>1, <1>2, <2>1, ReverseMoves, MoveInv
<1>6. CASE func = "rewind"
  <2>1. Rewind
    BY <1>1, <1>6 DEF Execute
  <2> QED BY <1>1, <1>2, <2>1, MoveInv DEF Rewind, Records
<1> QED BY <1>1, <1>3, <1>4, <1>5, <1>6 DEF TypeOK, Functions

\* Stores and grants leave the medium alone.
LEMMA StoreInv == ASSUME TapeInv, RegistersOK', UNCHANGED medium PROVE TapeInv'
<1> PICK places : Records(places)
  BY DEF TapeInv
<1>1. pos' \in places /\ tape' = tape /\ dataEnd' = dataEnd
  BY DEF Records, medium
<1> QED BY <1>1, MoveInv DEF TapeInv

LEMMA TapeStep == ASSUME TapeInv, [Next]_vars PROVE TapeInv'
<1>1. /\ attached \in BOOLEAN /\ wrp \in BOOLEAN
      /\ done \in BOOLEAN /\ ie \in BOOLEAN /\ func \in Functions
      /\ sta \subseteq Errors /\ bc \in 0 .. CountRange - 1
      /\ busy \in BOOLEAN /\ request \in BOOLEAN /\ given \in BOOLEAN
  BY DEF TapeInv, TypeOK
<1>2. 0 \in 0 .. CountRange - 1 /\ "rewind" \in Functions /\ "ILL" \in Errors
  BY ImageAssumption DEF Functions, Errors
<1>3. ASSUME NEW f \in Functions, NEW e \in BOOLEAN, NEW go \in BOOLEAN, WriteMtc(f, e, go)
      PROVE  TapeInv'
  <2>1. RegistersOK'
    BY <1>1, <1>2, <1>3 DEF WriteMtc, Requested, Refuse, Begin, Finish, RegistersOK
  <2> QED BY <1>3, <2>1, StoreInv DEF WriteMtc
<1>4. CASE \E v \in 0 .. CountRange - 1 : WriteCount(v)
  BY <1>1, <1>4, StoreInv DEF WriteCount, mtc, RegistersOK
<1>5. CASE ControllerInit(0) \/ ControllerInit(bc)
  BY <1>1, <1>2, <1>5, StoreInv DEF ControllerInit, RegistersOK
<1>6. CASE Poll
  BY <1>6, PollInv
<1>7. CASE Grant
  BY <1>1, <1>7, StoreInv DEF Grant, mtc, RegistersOK
<1>8. CASE UNCHANGED vars
  BY <1>1, <1>8, StoreInv DEF vars, mtc, RegistersOK
<1> QED BY <1>3, <1>4, <1>5, <1>6, <1>7, <1>8 DEF Next

\* Whatever commands are given, replaced in flight or cleared, the tape is whole
\* records and marks up to the end of what was written, and the drive stands between
\* two of them; for every length of tape, every width of count and every image that
\* is whole records to begin with.
THEOREM TapeIsFramed == Spec => []Framed
<1>1. Init => TapeInv
  BY TapeInit
<1>2. TapeInv /\ [Next]_vars => TapeInv'
  BY TapeStep
<1>3. TapeInv => Framed
  BY TapeInvFramed
<1> QED BY <1>1, <1>2, <1>3, PTL DEF Spec

-----------------------------------------------------------------------------
(* The RX11.                                                                *)

\* What has been moved so far is the part of the buffer behind the pointer; on
\* the way out the next byte is already on offer.
RxMoving ==
  /\ state = "fill" =>
       /\ Len(passed) = bptr
       /\ \A i \in 1 .. bptr : passed[i] = buf[i]
  /\ state = "empty" /\ ~spoilt =>
       /\ Len(passed) = bptr - 1
       /\ \A i \in 1 .. bptr - 1 : passed[i] = buf[i]
       /\ rxdb = buf[bptr]
  /\ state = "empty" => rxdb \in Bytes

RxInv == RX!TypeOK /\ RX!Handshake /\ RxMoving

\* The controller powers up idle, with an empty buffer.
LEMMA RxInitInv == RX!Init => RxInv
<1> SUFFICES ASSUME RX!Init PROVE RxInv
  OBVIOUS
<1> USE RxGeometry DEF RX!GeometryAssumption
<1>1. RX!Blank \in RX!Contents
  BY DEF RX!Blank, RX!Contents
<1>2. disk \in [(0 .. Tracks - 1) \X (1 .. Sectors) -> RX!Contents]
  BY <1>1 DEF RX!Init
<1>3. passed \in Seq(Bytes) /\ bptr \in 0 .. NumBytes
  BY DEF RX!Init
<1>4. RX!TypeOK
  BY <1>1, <1>2, <1>3 DEF RX!Init, RX!TypeOK, RX!Functions, RX!States, RX!Flags, RX!Codes
<1> QED BY <1>4 DEF RX!Init, RxInv, RX!Handshake, RxMoving

\* The end of a command leaves types right.
LEMMA RxDoneType ==
  ASSUME RX!TypeOK, NEW flags \in SUBSET RX!Flags, NEW code \in RX!Codes,
         NEW e \in BOOLEAN, RX!Done(flags, code, e)
  PROVE  /\ rxDone' = TRUE /\ tr' = FALSE /\ err' \in BOOLEAN
         /\ rxRequest' \in BOOLEAN /\ state' = "idle"
         /\ rxes' \subseteq RX!Flags /\ ecode' \in RX!Codes
         /\ rxdb' \in Bytes \cup {RX!Shown}
BY DEF RX!Done, RX!DoneControl, RX!Ready, RX!Flags, RX!TypeOK

\* An idle controller satisfies the rest of the invariant.
LEMMA RxIdleInv ==
  ASSUME RX!TypeOK, state = "idle", rxDone = TRUE, tr = FALSE
  PROVE  RxInv
BY DEF RxInv, RX!Handshake, RxMoving

\* Initialisation.
LEMMA RxInitializeInv == ASSUME RxInv, RX!Initialize PROVE RxInv'
<1>0. /\ bptr' \in 0 .. NumBytes /\ passed' = passed /\ spoilt' = spoilt
      /\ rxes' \subseteq RX!Flags
  BY RxGeometry DEF RX!GeometryAssumption, RX!Initialize, RX!Ready, RX!Flags, RX!history
<1>1. RX!TypeOK'
  BY <1>0, Zenon DEF RX!Initialize, RxInv, RX!TypeOK, RX!Functions, RX!Codes, RX!States
<1>2. state' = "idle" /\ rxDone' = TRUE /\ tr' = FALSE
  BY DEF RX!Initialize
<1> QED BY <1>1, <1>2 DEF RxInv, RX!Handshake, RxMoving

\* A launched function.
LEMMA RxGoInv ==
  ASSUME RxInv, NEW f \in RX!Functions, NEW e \in BOOLEAN, RX!Go(f, e)
  PROVE  RxInv'
<1> USE RxGeometry DEF RX!GeometryAssumption
<1>1. /\ rxIe' = e /\ rxFunc' = f /\ passed' = <<>> /\ spoilt' = FALSE
      /\ rxAttached' = rxAttached /\ sector' = sector /\ track' = track
      /\ buf' = buf /\ disk' = disk
  BY DEF RX!Go
<1>2. RX!TypeOK
  BY DEF RxInv
<1>3. CASE RX!GoEnds(f, e)
  <2>1. bptr' = 0
    BY <1>3 DEF RX!GoEnds
  <2>2. CASE f = "status" /\ RX!Done(rxes, "none", e)
    <3>1. rxes \in SUBSET RX!Flags /\ "none" \in RX!Codes
      BY <1>2 DEF RX!TypeOK, RX!Codes
    <3>2. /\ rxDone' = TRUE /\ tr' = FALSE /\ err' \in BOOLEAN
          /\ rxRequest' \in BOOLEAN /\ state' = "idle"
          /\ rxes' \subseteq RX!Flags /\ ecode' \in RX!Codes
          /\ rxdb' \in Bytes \cup {RX!Shown}
      BY <1>2, <2>2, <3>1, RxDoneType
    <3>3. bptr' \in 0 .. NumBytes /\ passed' \in Seq(Bytes)
      BY <1>1, <2>1
    <3>4. RX!TypeOK'
      BY <1>1, <1>2, <3>2, <3>3, Zenon DEF RX!TypeOK, RX!States
    <3> QED BY <3>2, <3>4 DEF RxInv, RX!Handshake, RxMoving
  <2>3. CASE f = "ecode"
    <3>1. /\ rxDone' = TRUE /\ tr' = FALSE /\ err' \in BOOLEAN
          /\ rxRequest' \in BOOLEAN /\ state' = "idle" /\ rxdb' = RX!Shown
          /\ rxes' \subseteq RX!Flags /\ ecode' = ecode
      BY <1>2, <1>3, <2>3
         DEF RX!GoEnds, RX!Done, RX!DoneControl, RX!Ready, RX!Flags, RX!TypeOK
    <3>2. bptr' \in 0 .. NumBytes /\ passed' \in Seq(Bytes)
      BY <1>1, <2>1
    <3>3. RX!TypeOK'
      BY <1>1, <1>2, <3>1, <3>2, Zenon DEF RX!TypeOK, RX!States
    <3> QED BY <3>1, <3>3 DEF RxInv, RX!Handshake, RxMoving
  <2> QED BY <1>3, <2>2, <2>3 DEF RX!GoEnds
<1>4. CASE RX!GoWaits(f)
  <2>1. /\ rxDone' = FALSE /\ err' = FALSE /\ tr' = TRUE
        /\ ecode' = ecode /\ rxRequest' = rxRequest
    BY <1>4 DEF RX!GoWaits, RX!Ask
  <2>2. \/ f = "fill" /\ state' = "fill" /\ bptr' = 0 /\ rxdb' = rxdb
           /\ rxes' = rxes
        \/ f = "empty" /\ state' = "empty" /\ bptr' = 1 /\ rxdb' = buf[1]
           /\ rxes' = rxes
        \/ f \in {"read", "write"} /\ state' = "sector" /\ bptr' = 0
           /\ rxdb' = rxdb /\ rxes' = rxes \cap {"ID"}
    BY <1>4 DEF RX!GoWaits, RX!Ask
  <2>3. buf[1] \in Bytes
    BY <1>2 DEF RX!TypeOK, RX!Contents
  <2>0. /\ bptr' \in 0 .. NumBytes /\ passed' \in Seq(Bytes)
        /\ state' \in RX!States /\ rxdb' \in Bytes \cup {RX!Shown}
        /\ rxes' \subseteq RX!Flags
    BY <1>1, <1>2, <2>2, <2>3 DEF RX!TypeOK, RX!States
  <2>4. RX!TypeOK'
    BY <1>1, <1>2, <2>1, <2>0, Zenon DEF RX!TypeOK
  <2>5. RX!Handshake'
    BY <1>1, <2>1, <2>2 DEF RX!Handshake
  <2>6. RxMoving'
    BY <1>1, <2>2, <2>3 DEF RxMoving
  <2> QED BY <2>4, <2>5, <2>6 DEF RxInv
<1> QED BY <1>3, <1>4 DEF RX!Go

\* A store that changes the enable bit only.
LEMMA RxWriteEnableInv ==
  ASSUME RxInv, NEW e \in BOOLEAN, RX!WriteEnable(e)
  PROVE  RxInv'
<1>1. /\ rxIe' = e /\ rxRequest' = (e /\ (rxRequest \/ (rxDone /\ ~rxIe)))
      /\ UNCHANGED <<rxAttached, rxDone, tr, err, rxFunc, rxdb, RX!errors, RX!command,
                     buf, disk, RX!history>>
  BY DEF RX!WriteEnable
<1>2. rxRequest' \in BOOLEAN
  BY <1>1 DEF RxInv, RX!TypeOK
<1>3. RX!TypeOK'
  BY <1>1, <1>2 DEF RxInv, RX!TypeOK, RX!errors, RX!command, RX!history
<1> QED BY <1>1, <1>3 DEF RxInv, RX!Handshake, RxMoving, RX!errors, RX!command, RX!history

\* The end of a command reached from a state with a byte just moved.
LEMMA RxEndInv ==
  ASSUME RxInv, NEW flags \in SUBSET RX!Flags, NEW code \in RX!Codes,
         RX!Done(flags, code, rxIe),
         UNCHANGED <<rxAttached, rxIe, rxFunc>>,
         bptr' \in 0 .. NumBytes, sector' \in Bytes, track' \in Bytes,
         buf' \in RX!Contents, passed' \in Seq(Bytes), spoilt' = spoilt,
         disk' \in [(0 .. Tracks - 1) \X (1 .. Sectors) -> RX!Contents]
  PROVE  RxInv'
<1>1. RX!TypeOK
  BY DEF RxInv
<1>2. rxIe \in BOOLEAN
  BY <1>1 DEF RX!TypeOK
<1>3. /\ rxDone' = TRUE /\ tr' = FALSE /\ err' \in BOOLEAN
      /\ rxRequest' \in BOOLEAN /\ state' = "idle"
      /\ rxes' \subseteq RX!Flags /\ ecode' \in RX!Codes
      /\ rxdb' \in Bytes \cup {RX!Shown}
  BY <1>1, <1>2, RxDoneType
<1>4. RX!TypeOK'
  BY <1>1, <1>3, Zenon DEF RX!TypeOK, RX!States
<1> QED BY <1>3, <1>4 DEF RxInv, RX!Handshake, RxMoving

\* A byte of a fill.
LEMMA RxFillInv ==
  ASSUME RxInv, NEW v \in Bytes, state = "fill", tr, RX!Fill(v),
         passed' = Append(passed, v), UNCHANGED <<rxAttached, rxIe, rxFunc, spoilt>>
  PROVE  RxInv'
<1> USE RxGeometry DEF RX!GeometryAssumption
<1>1. /\ buf' = [buf EXCEPT ![bptr + 1] = v] /\ bptr' = bptr + 1
      /\ sector' = sector /\ track' = track /\ disk' = disk
  BY DEF RX!Fill
<1>2. RX!TypeOK
  BY DEF RxInv
<1>3. bptr \in 0 .. NumBytes - 1
  BY <1>2 DEF RxInv, RX!Handshake, RX!TypeOK
<1>4. buf' \in RX!Contents /\ passed' \in Seq(Bytes) /\ bptr' \in 0 .. NumBytes
  BY <1>1, <1>2, <1>3 DEF RX!TypeOK, RX!Contents
<1>5. CASE RX!FillNext /\ tr' = TRUE /\ rxdb' = v
           /\ UNCHANGED <<rxDone, err, RX!errors, state, rxRequest>>
  <2>1. rxdb' \in Bytes \cup {RX!Shown} /\ tr' \in BOOLEAN
    BY <1>5
  <2>2. RX!TypeOK'
    BY <1>1, <1>2, <1>4, <1>5, <2>1, Zenon DEF RX!TypeOK, RX!errors
  <2>3. RX!Handshake'
    BY <1>1, <1>3, <1>5 DEF RX!Handshake, RX!FillNext, RxInv
  <2>4. Len(passed) = bptr /\ \A i \in 1 .. bptr : passed[i] = buf[i]
    BY DEF RxInv, RxMoving
  <2>5. /\ Len(passed') = bptr'
        /\ \A i \in 1 .. bptr' : passed'[i] = buf'[i]
    BY <1>1, <1>2, <1>3, <2>4 DEF RX!TypeOK, RX!Contents
  <2>6. RxMoving'
    BY <1>5, <2>5 DEF RxMoving
  <2> QED BY <2>2, <2>3, <2>6 DEF RxInv
<1>6. CASE ~RX!FillNext /\ RX!Done(rxes, "none", rxIe)
  <2>1. rxes \in SUBSET RX!Flags /\ "none" \in RX!Codes
    BY <1>2 DEF RX!TypeOK, RX!Codes
  <2>2. sector' \in Bytes /\ track' \in Bytes
        /\ disk' \in [(0 .. Tracks - 1) \X (1 .. Sectors) -> RX!Contents]
    BY <1>1, <1>2 DEF RX!TypeOK
  <2> QED BY <1>4, <1>6, <2>1, <2>2, RxEndInv
<1> QED BY <1>5, <1>6 DEF RX!Fill

\* The sector number.
LEMMA RxTakeSectorInv ==
  ASSUME RxInv, NEW v \in Bytes, state = "sector", tr, RX!TakeSector(v),
         passed' = Append(passed, v), UNCHANGED <<rxAttached, rxIe, rxFunc, spoilt>>
  PROVE  RxInv'
<1>1. RX!TypeOK
  BY DEF RxInv
<1>2. /\ sector' = v /\ rxdb' = v /\ state' = "track" /\ tr' = TRUE
      /\ UNCHANGED <<rxDone, err, RX!errors, track, bptr, buf, disk, rxRequest>>
  BY DEF RX!TakeSector, RX!Ask
<1>3. passed' \in Seq(Bytes) /\ rxdb' \in Bytes \cup {RX!Shown} /\ tr' \in BOOLEAN
  BY <1>1, <1>2 DEF RX!TypeOK
<1>4. RX!TypeOK'
  BY <1>1, <1>2, <1>3, Zenon DEF RX!TypeOK, RX!errors, RX!States
<1>5. RX!Handshake'
  BY <1>2 DEF RxInv, RX!Handshake
<1> QED BY <1>2, <1>4, <1>5 DEF RxInv, RxMoving

\* The track number, and the access itself.
LEMMA RxAccessInv ==
  ASSUME RxInv, NEW v \in Bytes, state = "track", tr, RX!Access(v),
         passed' = Append(passed, v), UNCHANGED <<rxAttached, rxIe, rxFunc, spoilt>>
  PROVE  RxInv'
<1> USE RxGeometry DEF RX!GeometryAssumption
<1>1. RX!TypeOK
  BY DEF RxInv
<1>2. /\ track' = v /\ sector' = sector /\ bptr' = bptr
      /\ passed' \in Seq(Bytes)
  BY <1>1 DEF RX!Access, RX!TypeOK
<1>3. RX!Refusal(v) \in RX!Codes /\ "none" \in RX!Codes
  BY DEF RX!Refusal, RX!Codes
<1>4. rxes \in SUBSET RX!Flags
        /\ \A deleted \in SUBSET {"DD"} : rxes \cup deleted \in SUBSET RX!Flags
  BY <1>1 DEF RX!TypeOK, RX!Flags
<1>5. RX!Refusal(v) = "none" =>
        <<v, sector>> \in (0 .. Tracks - 1) \X (1 .. Sectors)
  <2>1. v \in Nat /\ sector \in Nat
    BY <1>1 DEF RX!TypeOK
  <2> QED BY <2>1 DEF RX!Refusal
<1>6. bptr \in 0 .. NumBytes /\ sector \in Bytes /\ track' \in Bytes
  BY <1>1, <1>2 DEF RX!TypeOK
<1>7. CASE RX!Refusal(v) # "none" /\ RX!Done(rxes, RX!Refusal(v), rxIe)
           /\ UNCHANGED <<buf, disk>>
  BY <1>1, <1>2, <1>3, <1>4, <1>6, <1>7, RxEndInv DEF RX!TypeOK
<1>8. CASE /\ RX!Refusal(v) = "none" /\ buf' = disk[<<v, sector>>]
           /\ RX!Done(rxes, "none", rxIe) /\ disk' = disk
  <2>1. buf' \in RX!Contents
    BY <1>1, <1>5, <1>8 DEF RX!TypeOK
  <2> QED BY <1>1, <1>2, <1>3, <1>4, <1>6, <1>8, <2>1, RxEndInv DEF RX!TypeOK
<1>9. ASSUME NEW deleted \in SUBSET {"DD"},
             RX!Done(rxes \cup deleted, "none", rxIe),
             disk' = [disk EXCEPT ![<<v, sector>>] = buf], buf' = buf
      PROVE  RxInv'
  <2>1. disk' \in [(0 .. Tracks - 1) \X (1 .. Sectors) -> RX!Contents]
    BY <1>1, <1>9 DEF RX!TypeOK
  <2>2. buf' \in RX!Contents /\ rxes \cup deleted \in SUBSET RX!Flags
    BY <1>1, <1>4, <1>9 DEF RX!TypeOK
  <2> QED BY <1>2, <1>3, <1>6, <1>9, <2>1, <2>2, RxEndInv
<1> QED BY <1>7, <1>8, <1>9 DEF RX!Access

\* Any store to RXDB that the controller asked for.
LEMMA RxGiveInv == ASSUME RxInv, NEW v \in Bytes, RX!Give(v) PROVE RxInv'
<1>1. /\ tr /\ passed' = Append(passed, v)
      /\ UNCHANGED <<rxAttached, rxIe, rxFunc, spoilt>>
  BY DEF RX!Give
<1>2. CASE state = "fill" /\ RX!Fill(v)
  BY <1>1, <1>2, RxFillInv
<1>3. CASE state = "sector" /\ RX!TakeSector(v)
  BY <1>1, <1>3, RxTakeSectorInv
<1>4. CASE state = "track" /\ RX!Access(v)
  BY <1>1, <1>4, RxAccessInv
<1> QED BY <1>2, <1>3, <1>4 DEF RX!Give

\* A store over the byte on offer.
LEMMA RxSpoilInv == ASSUME RxInv, NEW v \in Bytes, RX!Spoil(v) PROVE RxInv'
<1>1. /\ rxdb' = v /\ spoilt' = TRUE
      /\ UNCHANGED <<rxAttached, RX!rxcs, RX!errors, RX!command, buf, disk, rxRequest,
                     passed>>
  BY DEF RX!Spoil
<1>2. RX!TypeOK'
  BY <1>1 DEF RxInv, RX!TypeOK, RX!rxcs, RX!errors, RX!command
<1> QED BY <1>1, <1>2 DEF RxInv, RX!Handshake, RxMoving, RX!rxcs, RX!command

\* A byte of an empty.
LEMMA RxTakeInv == ASSUME RxInv, RX!Take PROVE RxInv'
<1> USE RxGeometry DEF RX!GeometryAssumption
<1>1. /\ tr /\ state = "empty" /\ passed' = Append(passed, rxdb)
      /\ UNCHANGED <<rxAttached, rxIe, rxFunc, sector, track, buf, disk, spoilt>>
  BY DEF RX!Take
<1>2. RX!TypeOK
  BY DEF RxInv
<1>3. rxdb \in Bytes /\ passed' \in Seq(Bytes)
  BY <1>1, <1>2 DEF RxInv, RxMoving, RX!TypeOK
<1>4. bptr \in 1 .. NumBytes
  BY <1>1 DEF RxInv, RX!Handshake
<1>5. CASE /\ bptr < NumBytes /\ rxdb' = buf[bptr + 1] /\ bptr' = bptr + 1
           /\ UNCHANGED <<rxDone, tr, err, RX!errors, state, rxRequest>>
  <2>1. bptr + 1 \in 1 .. NumBytes
    BY <1>4, <1>5
  <2>2. rxdb' \in Bytes /\ bptr' \in 0 .. NumBytes
    BY <1>2, <1>5, <2>1 DEF RX!TypeOK, RX!Contents
  <2>3. RX!TypeOK'
    BY <1>1, <1>2, <1>3, <1>5, <2>2, Zenon DEF RX!TypeOK, RX!errors
  <2>4. RX!Handshake'
    BY <1>1, <1>5, <2>1 DEF RxInv, RX!Handshake
  <2>5. ASSUME ~spoilt
        PROVE  /\ Len(passed') = bptr' - 1
               /\ \A i \in 1 .. bptr' - 1 : passed'[i] = buf'[i]
    <3>1. /\ Len(passed) = bptr - 1
          /\ \A i \in 1 .. bptr - 1 : passed[i] = buf[i]
          /\ rxdb = buf[bptr]
      BY <1>1, <2>5 DEF RxInv, RxMoving
    <3> QED BY <1>1, <1>2, <1>4, <1>5, <3>1 DEF RX!TypeOK
  <2>6. RxMoving'
    BY <1>1, <1>5, <2>2, <2>5 DEF RxMoving
  <2> QED BY <2>3, <2>4, <2>6 DEF RxInv
<1>6. CASE bptr >= NumBytes /\ RX!Done(rxes, "none", rxIe) /\ bptr' = bptr
  <2>1. rxes \in SUBSET RX!Flags /\ "none" \in RX!Codes
    BY <1>2 DEF RX!TypeOK, RX!Codes
  <2>2. /\ sector' \in Bytes /\ track' \in Bytes /\ buf' \in RX!Contents
        /\ disk' \in [(0 .. Tracks - 1) \X (1 .. Sectors) -> RX!Contents]
        /\ bptr' \in 0 .. NumBytes
    BY <1>1, <1>2, <1>6 DEF RX!TypeOK
  <2> QED BY <1>1, <1>3, <1>6, <2>1, <2>2, RxEndInv
<1> QED BY <1>5, <1>6 DEF RX!Take

\* A grant.
LEMMA RxGrantInv == ASSUME RxInv, RX!Grant PROVE RxInv'
<1>1. RX!TypeOK'
  BY DEF RxInv, RX!TypeOK, RX!Grant, RX!rxcs, RX!errors, RX!command, RX!history
<1> QED BY <1>1 DEF RxInv, RX!Handshake, RxMoving, RX!Grant, RX!rxcs, RX!command, RX!history

\* Every step preserves the invariant.
LEMMA RxStepInv == RxInv /\ [RX!Next]_(RX!vars) => RxInv'
<1> SUFFICES ASSUME RxInv, [RX!Next]_(RX!vars) PROVE RxInv'
  OBVIOUS
<1>1. CASE UNCHANGED RX!vars
  <2>1. RX!TypeOK'
    BY <1>1 DEF RxInv, RX!TypeOK, RX!vars, RX!rxcs, RX!errors, RX!command, RX!history
  <2> QED BY <1>1, <2>1
          DEF RxInv, RX!Handshake, RxMoving, RX!vars, RX!rxcs, RX!command, RX!history
<1> QED BY <1>1, RxInitializeInv, RxGoInv, RxWriteEnableInv, RxGiveInv, RxSpoilInv,
           RxTakeInv, RxGrantInv DEF RX!Next

\* Every reachable state satisfies the invariant.
LEMMA RxInvHolds == RX!Spec => []RxInv
BY RxInitInv, RxStepInv, PTL DEF RX!Spec

\* Every variable keeps its type.
THEOREM RxTypeCorrect == RX!Spec => []RX!TypeOK
<1>1. RxInv => RX!TypeOK
  BY DEF RxInv
<1> QED BY <1>1, RxInvHolds, PTL

\* The controller is idle and done, or asks for a byte it can take: no program
\* that polls it waits for ever, for any size of buffer and disk.
THEOREM RxHandshakeHolds == RX!Spec => []RxHandshake
<1>1. RxInv => RxHandshake
  BY DEF RxInv, RxHandshake
<1> QED BY <1>1, RxInvHolds, PTL

-----------------------------------------------------------------------------
(* Progress.                                                                *)

\* What remains is a number of bytes.
LEMMA RxRemainingType ==
  ASSUME RxInv
  PROVE  /\ RX!Remaining \in Nat
         /\ state # "idle" => RX!Remaining > 0
<1>1. bptr \in 0 .. NumBytes /\ NumBytes \in Nat /\ state \in RX!States
  BY RxGeometry DEF RX!GeometryAssumption, RxInv, RX!TypeOK
<1>2. /\ state = "fill" => bptr < NumBytes
      /\ state = "empty" => bptr \in 1 .. NumBytes
  BY DEF RxInv, RX!Handshake
<1> QED BY <1>1, <1>2 DEF RX!Remaining, RX!States

\* Nothing is left to move once a command has ended.
LEMMA RxDoneRemaining ==
  ASSUME NEW flags, NEW code, NEW e, RX!Done(flags, code, e)
  PROVE  RX!Remaining' = 0
BY DEF RX!Done, RX!Remaining

\* A byte that is moved brings the end nearer, nothing else delays it.
THEOREM RxProgressHolds == RX!Spec => RxProgress
<1> DEFINE Nearer == IF passed' # passed THEN RX!Remaining' < RX!Remaining
                                         ELSE RX!Remaining' <= RX!Remaining
<1>1. ASSUME RxInv, RX!Next, state # "idle"
      PROVE  Nearer
  <2> USE RxGeometry DEF RX!GeometryAssumption
  <2>1. RX!Remaining \in Nat /\ RX!Remaining > 0
    BY <1>1, RxRemainingType
  <2>2. bptr \in 0 .. NumBytes /\ passed \in Seq(Bytes)
    BY <1>1 DEF RxInv, RX!TypeOK
  <2>3. CASE RX!Initialize
    BY <2>1, <2>3 DEF RX!Initialize, RX!Remaining, RX!history
  <2>4. CASE \E e \in BOOLEAN : RX!WriteEnable(e)
    BY <2>1, <2>4 DEF RX!WriteEnable, RX!Remaining, RX!command, RX!history
  <2>5. CASE RX!Grant
    BY <2>1, <2>5 DEF RX!Grant, RX!Remaining, RX!command, RX!history
  <2>6. ASSUME NEW v \in Bytes, RX!Spoil(v)
        PROVE  Nearer
    BY <2>1, <2>6 DEF RX!Spoil, RX!Remaining, RX!command
  <2>7. ASSUME NEW v \in Bytes, RX!Give(v)
        PROVE  Nearer
    <3>1. CASE state = "fill" /\ RX!Fill(v)
      <4>1. CASE state' = state /\ bptr' = bptr + 1
        BY <2>1, <2>2, <3>1, <4>1 DEF RX!Remaining
      <4>2. CASE RX!Done(rxes, "none", rxIe)
        BY <2>1, <4>2, RxDoneRemaining
      <4> QED BY <3>1, <4>1, <4>2 DEF RX!Fill
    <3>2. CASE state = "sector" /\ RX!TakeSector(v)
      BY <2>1, <3>2 DEF RX!TakeSector, RX!Ask, RX!Remaining
    <3>3. CASE state = "track" /\ RX!Access(v)
      <4>1. RX!Remaining' = 0
        BY <3>3, RxDoneRemaining DEF RX!Access
      <4> QED BY <2>1, <4>1
    <3> QED BY <2>7, <3>1, <3>2, <3>3 DEF RX!Give
  <2>8. CASE RX!Take
    <3>1. CASE state' = state /\ bptr' = bptr + 1
      BY <2>1, <2>2, <2>8, <3>1 DEF RX!Take, RX!Remaining
    <3>2. CASE RX!Done(rxes, "none", rxIe)
      BY <2>1, <3>2, RxDoneRemaining
    <3> QED BY <2>8, <3>1, <3>2 DEF RX!Take
  <2>9. \A f \in RX!Functions, e \in BOOLEAN : ~RX!Go(f, e)
    BY <1>1 DEF RX!Go, RX!MayGo
  <2> QED BY <1>1, <2>3, <2>4, <2>5, <2>6, <2>7, <2>8, <2>9 DEF RX!Next
<1>2. RxInv /\ [RX!Next]_(RX!vars) => [state # "idle" => Nearer]_(RX!vars)
  BY <1>1
<1> QED BY <1>2, RxInvHolds, PTL DEF RX!Spec, RX!Progress, RxProgress

-----------------------------------------------------------------------------
(* The buffer.                                                              *)

\* A sequence as long as the buffer and alike in every byte is the buffer.
LEMMA RxSameContents ==
  ASSUME NEW s \in Seq(Bytes), NEW b \in RX!Contents, Len(s) = NumBytes,
         \A i \in 1 .. NumBytes : s[i] = b[i]
  PROVE  s = b
BY RxGeometry DEF RX!GeometryAssumption, RX!Contents

\* A fill that ends has stored what the program gave, and an empty that ends
\* has handed out the buffer, whole and in order, for any size of buffer.
THEOREM RxBufferIsWhole == RX!Spec => RxBufferWhole
<1>1. ASSUME RxInv, RX!Next, RX!TransferEnds, ~spoilt
      PROVE  passed' = buf'
  <2> USE RxGeometry DEF RX!GeometryAssumption
  <2>1. bptr \in 0 .. NumBytes /\ passed \in Seq(Bytes) /\ buf \in RX!Contents
    BY <1>1 DEF RxInv, RX!TypeOK
  <2>2. state \in {"fill", "empty"} /\ state' = "idle" /\ passed' # passed
    BY <1>1 DEF RX!TransferEnds
  <2>3. ASSUME NEW v \in Bytes, RX!Give(v)
        PROVE  passed' = buf'
    <3>1. state = "fill" /\ RX!Fill(v) /\ passed' = Append(passed, v)
      BY <2>2, <2>3 DEF RX!Give
    <3>2. /\ buf' = [buf EXCEPT ![bptr + 1] = v]
          /\ ~RX!FillNext
      BY <2>2, <3>1 DEF RX!Fill
    <3>3. /\ Len(passed) = bptr /\ bptr + 1 = NumBytes
          /\ \A i \in 1 .. bptr : passed[i] = buf[i]
      BY <1>1, <2>1, <3>1, <3>2 DEF RxInv, RX!Handshake, RxMoving, RX!FillNext
    <3>4. buf' \in RX!Contents /\ passed' \in Seq(Bytes)
      BY <2>1, <3>1, <3>2, <3>3 DEF RX!Contents
    <3>5. Len(passed') = NumBytes
      BY <2>1, <3>1, <3>3
    <3>6. \A i \in 1 .. NumBytes : passed'[i] = buf'[i]
      BY <2>1, <3>1, <3>2, <3>3 DEF RX!Contents
    <3> QED BY <3>4, <3>5, <3>6, RxSameContents
  <2>4. CASE RX!Take
    <3>1. /\ state = "empty" /\ passed' = Append(passed, rxdb) /\ buf' = buf
          /\ bptr >= NumBytes
      BY <2>2, <2>4 DEF RX!Take
    <3>2. /\ bptr = NumBytes /\ Len(passed) = bptr - 1 /\ rxdb = buf[bptr]
          /\ \A i \in 1 .. bptr - 1 : passed[i] = buf[i]
          /\ rxdb \in Bytes
      BY <1>1, <2>1, <3>1 DEF RxInv, RX!Handshake, RxMoving
    <3>3. passed' \in Seq(Bytes) /\ Len(passed') = NumBytes
      BY <2>1, <3>1, <3>2
    <3>4. \A i \in 1 .. NumBytes : passed'[i] = buf'[i]
      BY <2>1, <3>1, <3>2
    <3> QED BY <2>1, <3>1, <3>3, <3>4, RxSameContents
  <2>5. CASE \/ RX!Initialize \/ RX!Grant
             \/ \E e \in BOOLEAN : RX!WriteEnable(e)
             \/ \E v \in Bytes : RX!Spoil(v)
    BY <2>2, <2>5 DEF RX!Initialize, RX!Grant, RX!WriteEnable, RX!Spoil, RX!history
  <2>6. \A f \in RX!Functions, e \in BOOLEAN : ~RX!Go(f, e)
    BY <2>2 DEF RX!Go, RX!MayGo
  <2> QED BY <1>1, <2>3, <2>4, <2>5, <2>6 DEF RX!Next
<1>2. RxInv /\ [RX!Next]_(RX!vars) => [RX!TransferEnds /\ ~spoilt => passed' = buf']_(RX!vars)
  BY <1>1
<1> QED BY <1>2, RxInvHolds, PTL DEF RX!Spec, RX!BufferWhole, RxBufferWhole
=============================================================================
