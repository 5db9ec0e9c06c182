---------------------------- MODULE Disks_proofs ----------------------------
(***************************************************************************)
(* The three disk controllers for every geometry and every word size.  The  *)
(* RK11, with every image at least a disk long, and the RH70, with an image *)
(* of any size: a command is in progress exactly while DONE is clear, the   *)
(* bus request is an edge latch on DONE and IE, and the registers tell what *)
(* a transfer moved.  The RL11: its request means ready and enabled, and    *)
(* neither a transfer nor a seek leaves the drive.                          *)
(***************************************************************************)
EXTENDS MCDisks, TLAPS

\* The control bits have their types, the controller is ready or busy, and it
\* requests only while DONE and IE are both set.
ControlInv ==
  /\ done \in BOOLEAN /\ ie \in BOOLEAN
  /\ busy \in BOOLEAN /\ request \in BOOLEAN /\ given \in BOOLEAN
  /\ DoneXorBusy
  /\ request => done /\ ie

\* The controller powers up ready, with interrupts disabled.
LEMMA InitInv == Init => ControlInv
BY DEF Init, ControlInv, DoneXorBusy

\* A command leaves the controller either done, with a request if enabled, or
\* busy with none.
LEMMA GoInv ==
  ASSUME ControlInv, NEW f \in Functions, NEW e \in BOOLEAN, done, Go(f, e),
         given' = ~given
  PROVE  /\ ControlInv'
         /\ request' = (ie' /\ done')
<1>1. CASE ControlReset(f)
  BY <1>1 DEF ControlReset, ControlInv, DoneXorBusy
<1>2. CASE ie' = e /\ Refuse(f, e)
  BY <1>2 DEF Refuse, Finish, ControlInv, DoneXorBusy
<1>3. CASE ie' = e /\ WriteLock(f, e)
  BY <1>3 DEF WriteLock, Finish, ControlInv, DoneXorBusy
<1>4. CASE ie' = e /\ Begin(f)
  BY <1>4 DEF Begin, ControlInv, DoneXorBusy
<1> QED BY <1>1, <1>2, <1>3, <1>4 DEF Go

\* So does any store to RKCS.
LEMMA WriteCsrInv ==
  ASSUME ControlInv,
         NEW f \in Functions, NEW e \in BOOLEAN, NEW go \in BOOLEAN,
         WriteCsr(f, e, go)
  PROVE  /\ ControlInv'
         /\ given' # given => done
         /\ request' = (ie' /\ done' /\ (request \/ ~(ie /\ done) \/ given' # given))
<1>1. CASE done /\ go /\ Go(f, e) /\ given' = ~given
  <2>1. ControlInv' /\ request' = (ie' /\ done')
    BY <1>1, GoInv
  <2>2. given' # given
    BY <1>1 DEF ControlInv
  <2> QED BY <1>1, <2>1, <2>2
<1>2. CASE ~(done /\ go)
  <2>1. /\ ie' = e /\ done' = done /\ busy' = busy /\ given' = given
        /\ request' = (e /\ (request \/ (done /\ ~ie)))
    BY <1>2 DEF WriteCsr, Requested
  <2> QED BY <2>1 DEF ControlInv, DoneXorBusy
<1> QED BY <1>1, <1>2 DEF WriteCsr

\* Every step preserves the invariant and is a step of the latch.
LEMMA StepInv ==
  ControlInv /\ [Next]_vars => ControlInv' /\ [Latch!Next]_(Latch!vars)
<1> SUFFICES ASSUME ControlInv, [Next]_vars
             PROVE  ControlInv' /\ (Latch!Next \/ UNCHANGED <<ie, done, given, request>>)
  BY DEF Latch!vars
<1> USE DEF Latch!Next, Latch!Change, Latch!Acknowledge, Latch!Both, Latch!Edge
<1>1. ASSUME NEW f \in Functions, NEW e \in BOOLEAN, NEW go \in BOOLEAN,
             WriteCsr(f, e, go)
      PROVE  ControlInv' /\ Latch!Next
  <2>1. /\ ControlInv'
        /\ given' # given => done
        /\ request' = (ie' /\ done' /\ (request \/ ~(ie /\ done) \/ given' # given))
    BY <1>1, WriteCsrInv
  <2> QED BY <2>1 DEF ControlInv
<1>2. CASE \/ \E v \in 0 .. WordRange - 1 : WriteWc(v)
           \/ \E a \in Address : WriteDa(a)
           \/ UNCHANGED vars
  BY <1>2 DEF WriteWc, WriteDa, vars, csr, ControlInv, DoneXorBusy
<1>3. CASE Poll
  BY <1>3 DEF Poll, Finish, ControlInv, DoneXorBusy
<1>4. CASE Grant
  BY <1>4 DEF Grant, csr, ControlInv, DoneXorBusy
<1>5. CASE Reset
  BY <1>5 DEF Reset, ControlInv, DoneXorBusy
<1> QED BY <1>1, <1>2, <1>3, <1>4, <1>5 DEF Next

\* Every reachable state satisfies the invariant.
LEMMA InvHolds == Spec => []ControlInv
BY InitInv, StepInv, PTL DEF Spec

\* DONE is clear exactly while a completion is scheduled, whatever a program
\* stores and whenever RESET comes.
THEOREM DoneMeansIdle == Spec => []DoneXorBusy
<1>1. ControlInv => DoneXorBusy
  BY DEF ControlInv
<1> QED BY <1>1, InvHolds, PTL

\* The bus request implements the edge latch.
THEOREM RequestIsLatch == Spec => LatchesInterrupt
<1>1. Init => Latch!Init
  BY DEF Init, Latch!Init
<1> QED BY <1>1, StepInv, InvHolds, PTL DEF LatchesInterrupt, Latch!Spec, Spec

-----------------------------------------------------------------------------
(* Types.                                                                   *)

\* The first word of a disk address is a natural number.
LEMMA StartType == ASSUME TypeOK PROVE Start(rkda) \in Nat
<1> USE GeometryAssumption
<1>1. rkda.cyl \in Nat /\ rkda.surf \in Nat /\ rkda.sect \in Nat
  BY DEF TypeOK, Surfaces
<1>2. rkda.cyl * Surfaces + rkda.surf \in Nat
  BY <1>1 DEF Surfaces
<1>3. (rkda.cyl * Surfaces + rkda.surf) * Sectors + rkda.sect \in Nat
  BY <1>1, <1>2
<1> QED BY <1>3 DEF Start

\* What a transfer leaves in RKWC and RKDA, if it moves a natural number of
\* words.
LEMMA TransferType ==
  ASSUME TypeOK, NEW f \in Functions, Transfer(f), Moved(rkda, rkwc) \in Int,
         Start(rkda) + Moved(rkda, rkwc) \in Nat
  PROVE  /\ rker' \subseteq Errors
         /\ rkwc' \in 0 .. WordRange - 1
         /\ rkda' \in [drive : 0 .. Drives - 1, cyl : Nat,
                      surf : 0 .. Surfaces - 1, sect : 0 .. SectField - 1]
<1> DEFINE n == Moved(rkda, rkwc)
           end == Start(rkda) + n
           block == (end + SectWords - 1) \div SectWords
           track == block \div Sectors
<1>1. rker' \subseteq Errors
  BY DEF Transfer, TypeOK, Errors
<1>2. rkwc' = (rkwc + n) % WordRange
  BY DEF Transfer
<1>3. rkwc' \in 0 .. WordRange - 1
  BY <1>2, GeometryAssumption DEF TypeOK
<1>4. rkda' = [rkda EXCEPT !.cyl = track \div Surfaces,
                           !.surf = track % Surfaces, !.sect = block % Sectors]
  BY DEF Transfer, Advanced
<1>5. end + SectWords - 1 \in Nat
  BY GeometryAssumption
<1>6. block \in Nat
  BY <1>5, GeometryAssumption
<1> HIDE DEF block
<1>7. track \in Nat
  BY <1>6, GeometryAssumption
<1>8. block % Sectors \in 0 .. SectField - 1
  BY <1>6, GeometryAssumption
<1> HIDE DEF track
<1>9. track \div Surfaces \in Nat /\ track % Surfaces \in 0 .. Surfaces - 1
  BY <1>7 DEF Surfaces
<1> QED BY <1>1, <1>3, <1>4, <1>8, <1>9 DEF TypeOK

\* A transfer never moves less than nothing past the start of the disk.
LEMMA MovedType ==
  ASSUME TypeOK
  PROVE  /\ Moved(rkda, rkwc) \in Int
         /\ Start(rkda) + Moved(rkda, rkwc) \in Nat
<1>1. Start(rkda) \in Nat
  BY StartType
<1>2. Wanted(rkwc) \in Nat
  BY GeometryAssumption DEF Wanted, TypeOK
<1> HIDE DEF Start
<1>3. CASE Overruns(rkda, rkwc)
  BY <1>1, <1>3, GeometryAssumption DEF Moved
<1>4. CASE ~Overruns(rkda, rkwc)
  BY <1>1, <1>2, <1>4 DEF Moved
<1> QED BY <1>3, <1>4

\* A command keeps the types.
LEMMA GoType ==
  ASSUME TypeOK, NEW f \in Functions, NEW e \in BOOLEAN, Go(f, e),
         UNCHANGED attached, given' \in BOOLEAN
  PROVE  TypeOK'
<1> USE GeometryAssumption
<1>1. CASE ControlReset(f)
  <2>1. Home \in [drive : 0 .. Drives - 1, cyl : Nat,
                  surf : 0 .. Surfaces - 1, sect : 0 .. SectField - 1]
    BY DEF Home, Surfaces
  <2>2. rkda' = Home /\ rker' \subseteq Errors /\ rkwc' = rkwc
    BY <1>1 DEF ControlReset
  <2>3. /\ done' = TRUE /\ ie' = FALSE /\ func' = "creset"
        /\ busy' = FALSE /\ request' = FALSE
    BY <1>1 DEF ControlReset
  <2> QED BY <2>1, <2>2, <2>3, Zenon DEF TypeOK, Functions
<1>2. CASE ie' = e /\ func' = f /\ Refuse(f, e)
  <2>1. Refusal(f) # "none" => Refusal(f) \in Errors
    BY DEF Refusal, Errors
  <2> QED BY <1>2, <2>1 DEF Refuse, Finish, TypeOK
<1>3. CASE ie' = e /\ func' = f /\ WriteLock(f, e)
  BY <1>3 DEF WriteLock, Finish, TypeOK
<1>4. CASE ie' = e /\ func' = f /\ Begin(f)
  <2>1. CASE f \in Transfers
    <3>1. Transfer(f) /\ done' = FALSE /\ busy' = TRUE /\ request' = FALSE
      BY <1>4, <2>1 DEF Begin
    <3> QED BY <1>4, <3>1, MovedType, TransferType DEF TypeOK
  <2>2. CASE f \notin Transfers
    BY <1>4, <2>2 DEF Begin, TypeOK
  <2> QED BY <2>1, <2>2
<1> QED BY <1>1, <1>2, <1>3, <1>4 DEF Go

\* So does every step.
LEMMA StepType == TypeOK /\ [Next]_vars => TypeOK'
<1> SUFFICES ASSUME TypeOK, [Next]_vars PROVE TypeOK'
  OBVIOUS
<1>1. ASSUME NEW f \in Functions, NEW e \in BOOLEAN, NEW go \in BOOLEAN,
             WriteCsr(f, e, go)
      PROVE  TypeOK'
  <2>1. CASE done /\ go /\ Go(f, e) /\ given' = ~given
    BY <1>1, <2>1, GoType DEF WriteCsr
  <2>2. CASE ~(done /\ go)
    <3>1. /\ ie' = e /\ func' = f
          /\ request' = (e /\ (request \/ (done /\ ~ie)))
          /\ UNCHANGED <<attached, done, rker, rkwc, rkda, busy, given>>
      BY <1>1, <2>2 DEF WriteCsr, Requested
    <3>2. request' \in BOOLEAN
      BY <3>1 DEF TypeOK
    <3> QED BY <3>1, <3>2 DEF TypeOK
  <2> QED BY <1>1, <2>1, <2>2 DEF WriteCsr
<1>2. CASE \/ \E v \in 0 .. WordRange - 1 : WriteWc(v)
           \/ \E a \in Address : WriteDa(a)
  BY <1>2, GeometryAssumption DEF WriteWc, WriteDa, csr, TypeOK, Address
<1>3. CASE Poll
  BY <1>3 DEF Poll, Finish, TypeOK
<1>4. CASE Grant
  BY <1>4 DEF Grant, csr, TypeOK
<1>5. CASE Reset
  BY <1>5 DEF Reset, TypeOK, Functions
<1>6. CASE UNCHANGED vars
  BY <1>6 DEF vars, csr, TypeOK
<1> QED BY <1>1, <1>2, <1>3, <1>4, <1>5, <1>6 DEF Next

\* Every register of the RK11 keeps to its width, for any geometry, whatever
\* numbers a program has put into RKDA.
THEOREM TypeCorrect == Spec => []TypeOK
<1>1. Home \in [drive : 0 .. Drives - 1, cyl : Nat,
                surf : 0 .. Surfaces - 1, sect : 0 .. SectField - 1]
  BY GeometryAssumption DEF Home, Surfaces
<1>2. 0 \in 0 .. WordRange - 1
  BY GeometryAssumption
<1>3. Init => rker \subseteq Errors
  BY DEF Init
<1>4. Init => TypeOK
  BY <1>1, <1>2, <1>3, Zenon DEF Init, TypeOK, Functions
<1> QED BY <1>4, StepType, PTL DEF Spec

-----------------------------------------------------------------------------
(* What a transfer leaves in RKDA and RKWC.                                 *)

\* A number of words rounded up to whole sectors of n words is one of the n from
\* x on.
LEMMA RoundUp ==
  ASSUME NEW x \in Nat, NEW n \in Nat \ {0}
  PROVE  /\ (x + n - 1) \div n \in Nat
         /\ ((x + n - 1) \div n) * n \in x .. x + n - 1
<1> DEFINE y == x + n - 1
<1>1. y \in Nat
  OBVIOUS
<1> HIDE DEF y
<1>2. y \div n \in Nat /\ y % n \in 0 .. n - 1
  BY <1>1
<1>3. y % n = y - n * (y \div n)
  BY <1>1
<1>4. n * (y \div n) \in y - n + 1 .. y
  BY <1>1, <1>2, <1>3
<1>5. n * (y \div n) = (y \div n) * n
  BY <1>2
<1>6. (y \div n) * n \in y - n + 1 .. y
  BY <1>4, <1>5
<1> QED BY <1>2, <1>6 DEF y

\* A number taken apart by a division is put together again.
LEMMA Rejoin ==
  ASSUME NEW b \in Nat, NEW s \in Nat \ {0}
  PROVE  \E q \in Nat, r \in 0 .. s - 1 :
           q = b \div s /\ r = b % s /\ q * s + r = b
<1>1. b \div s \in Nat /\ b % s \in 0 .. s - 1 /\ b % s = b - s * (b \div s)
  OBVIOUS
<1>2. PICK q \in Nat : q = b \div s
  BY <1>1
<1>3. s * q = q * s /\ q * s \in Nat
  OBVIOUS
<1>4. PICK r \in 0 .. s - 1 : r = b % s
  BY <1>1
<1>5. r = b - q * s
  BY <1>1, <1>2, <1>3, <1>4
<1>6. q * s + r = b
  BY <1>3, <1>5
<1> QED BY <1>2, <1>4, <1>6

\* A product keeps the order of its first factor.
LEMMA ScaleUp ==
  ASSUME NEW x \in Int, NEW y \in Int, NEW k \in Nat, x <= y
  PROVE  x * k <= y * k
<1>1. PICK d \in Nat : y = x + d
  <2>1. y - x \in Nat /\ y = x + (y - x)
    OBVIOUS
  <2> QED BY <2>1
<1>2. (x + d) * k = x * k + d * k /\ d * k \in Nat
  OBVIOUS
<1> QED BY <1>1, <1>2

\* And a strict order, if the second is not 0: the larger product is ahead by at
\* least the factor.
LEMMA ScaleBy ==
  ASSUME NEW x \in Int, NEW y \in Int, NEW k \in Nat, x < y
  PROVE  x * k + k <= y * k
<1>1. (x + 1) * k <= y * k
  BY ScaleUp
<1>2. (x + 1) * k = x * k + k
  OBVIOUS
<1> QED BY <1>1, <1>2

\* The words of a whole disk, and of all the cylinders RKDA can name.
Whole == Cylinders * Surfaces * Sectors * SectWords
Nameable == CylField * Surfaces * Sectors * SectWords

\* An address that the controller does not refuse is that of a sector of the
\* disk.
LEMMA StartOnDisk ==
  ASSUME TypeOK, rkda.sect < Sectors, rkda.cyl < Cylinders
  PROVE  Start(rkda) + SectWords <= Whole
<1> DEFINE head == rkda.cyl * Surfaces + rkda.surf
           place == head * Sectors + rkda.sect
           heads == Cylinders * Surfaces
<1> USE GeometryAssumption
<1>1. rkda.cyl \in Nat /\ rkda.surf \in 0 .. Surfaces - 1 /\ rkda.sect \in Nat
  BY DEF TypeOK
<1>2. head \in Nat /\ heads \in Nat /\ head < heads
  BY <1>1 DEF Surfaces
<1> HIDE DEF head, heads
<1>3. head * Sectors + Sectors <= heads * Sectors
  BY <1>2, ScaleBy
<1>4. head * Sectors \in Nat /\ heads * Sectors \in Nat
  BY <1>2
<1>5. place \in Nat /\ place < heads * Sectors
  BY <1>1, <1>3, <1>4
<1> HIDE DEF place
<1>6. place * SectWords + SectWords <= heads * Sectors * SectWords
  BY <1>4, <1>5, ScaleBy
<1> QED BY <1>6 DEF Start, Whole, place, head, heads

\* RKDA taken apart from a sector number names that sector.
LEMMA StartOfBlock ==
  ASSUME TypeOK, NEW b \in Nat,
         rkda' = [rkda EXCEPT !.cyl = (b \div Sectors) \div Surfaces,
                              !.surf = (b \div Sectors) % Surfaces,
                              !.sect = b % Sectors]
  PROVE  /\ Start(rkda') = b * SectWords
         /\ rkda'.cyl \in Nat /\ rkda'.surf \in 0 .. Surfaces - 1
         /\ rkda'.sect \in 0 .. Sectors - 1
         /\ b = (rkda'.cyl * Surfaces + rkda'.surf) * Sectors + rkda'.sect
         /\ rkda'.drive = rkda.drive
<1>1. PICK track \in Nat, sect \in 0 .. Sectors - 1 :
        track = b \div Sectors /\ sect = b % Sectors /\ track * Sectors + sect = b
  BY Rejoin, GeometryAssumption
<1>2. PICK cyl \in Nat, surf \in 0 .. Surfaces - 1 :
        cyl = track \div Surfaces /\ surf = track % Surfaces
        /\ cyl * Surfaces + surf = track
  <2>1. Surfaces \in Nat \ {0}
    BY DEF Surfaces
  <2> QED BY <2>1, Rejoin
<1>3. rkda' = [rkda EXCEPT !.cyl = cyl, !.surf = surf, !.sect = sect]
  BY <1>1, <1>2
<1>4. /\ rkda'.cyl = cyl /\ rkda'.surf = surf
      /\ rkda'.sect = sect /\ rkda'.drive = rkda.drive
  BY <1>3 DEF TypeOK
<1>5. b = (rkda'.cyl * Surfaces + rkda'.surf) * Sectors + rkda'.sect
  <2>1. (cyl * Surfaces + surf) * Sectors + sect = b
    BY <1>1, <1>2, Zenon
  <2> QED BY <1>4, <2>1, Zenon
<1> QED BY <1>1, <1>2, <1>4, <1>5 DEF Start

\* A transfer that starts on the disk moves at least a word and ends in the
\* image; it is short exactly when it overruns, and then stops at the image's
\* end.
LEMMA MovedOnDisk ==
  ASSUME TypeOK, rkda.sect < Sectors, rkda.cyl < Cylinders
  PROVE  /\ Start(rkda) \in Nat /\ Moved(rkda, rkwc) \in Nat \ {0}
         /\ Moved(rkda, rkwc) <= WordRange - rkwc
         /\ Start(rkda) + Moved(rkda, rkwc) <= DiskWords
         /\ Overruns(rkda, rkwc) <=> Moved(rkda, rkwc) < WordRange - rkwc
         /\ Overruns(rkda, rkwc) => Start(rkda) + Moved(rkda, rkwc) = DiskWords
<1>1. Start(rkda) \in Nat
  BY StartType
<1>2. Start(rkda) < DiskWords
  <2>1. Start(rkda) + SectWords <= Whole
    BY StartOnDisk
  <2>2. Whole <= DiskWords
    BY GeometryAssumption DEF Whole
  <2>3. Whole \in Int
    <3>1. Cylinders * Surfaces \in Int
      BY GeometryAssumption DEF Surfaces
    <3>2. Cylinders * Surfaces * Sectors \in Int
      BY <3>1, GeometryAssumption
    <3> QED BY <3>2, GeometryAssumption DEF Whole
  <2> QED BY <1>1, <2>1, <2>2, <2>3, GeometryAssumption
<1>3. WordRange - rkwc \in Nat \ {0} /\ DiskWords \in Nat
  BY GeometryAssumption DEF TypeOK
<1>4. CASE Start(rkda) + (WordRange - rkwc) > DiskWords
  <2>1. Overruns(rkda, rkwc) /\ Moved(rkda, rkwc) = DiskWords - Start(rkda)
    BY <1>4 DEF Overruns, Moved, Wanted
  <2> QED BY <1>1, <1>2, <1>3, <1>4, <2>1
<1>5. CASE ~(Start(rkda) + (WordRange - rkwc) > DiskWords)
  <2>1. ~Overruns(rkda, rkwc) /\ Moved(rkda, rkwc) = WordRange - rkwc
    BY <1>5 DEF Overruns, Moved, Wanted
  <2> QED BY <1>1, <1>2, <1>3, <1>5, <2>1
<1> QED BY <1>4, <1>5

\* Only an accepted read, write or write check starts a transfer, and it is not
\* accepted for an address off the disk.
LEMMA StartsOnDisk ==
  ASSUME TypeOK, DoneXorBusy, [Next]_vars, TransferStarts
  PROVE  \E f \in Transfers :
           Transfer(f) /\ rkda.sect < Sectors /\ rkda.cyl < Cylinders
<1>1. PICK f \in Functions, e \in BOOLEAN, go \in BOOLEAN : WriteCsr(f, e, go)
  BY DEF TransferStarts, Next, vars, csr, WriteWc, WriteDa, Poll, Finish, Grant,
         Reset
<1>2. Go(f, e)
  BY <1>1 DEF WriteCsr, TransferStarts
<1>3. func' = f /\ Begin(f)
  BY <1>2 DEF Go, ControlReset, Refuse, WriteLock, Finish, TransferStarts
<1>4. f \in Transfers /\ Transfer(f)
  BY <1>3 DEF Begin, TransferStarts
<1>5. Refusal(f) = "none" /\ f \notin {"wlk", "dreset"}
  BY <1>3, <1>4 DEF Begin, Transfers
<1>6. ~(rkda.sect >= Sectors) /\ ~(rkda.cyl >= Cylinders)
  BY <1>5 DEF Refusal
<1>7. rkda.sect \in Int /\ rkda.cyl \in Int
  BY DEF TypeOK
<1> QED BY <1>4, <1>6, <1>7, GeometryAssumption

\* What such a transfer leaves: the address of the first sector not touched, and
\* in the word count whether it was short.
LEMMA TransferLeaves ==
  ASSUME TypeOK, rkda.sect < Sectors, rkda.cyl < Cylinders,
         NEW f \in Transfers, Transfer(f)
  PROVE  LET end == Start(rkda) + Moved(rkda, rkwc)
         IN /\ Start(rkda) <= end /\ end <= DiskWords
            /\ Start(rkda') \in end .. end + SectWords - 1
            /\ rkda' \in Address /\ rkda'.sect < Sectors
            /\ (rkwc' # 0) <=> Overruns(rkda, rkwc)
            /\ rkwc' # 0 => "OVR" \in rker' /\ rkda'.cyl >= Cylinders
<1> USE GeometryAssumption
<1> DEFINE n == Moved(rkda, rkwc)
           end == Start(rkda) + n
           b == (end + SectWords - 1) \div SectWords
<1>1. /\ Start(rkda) \in Nat /\ n \in Nat \ {0} /\ n <= WordRange - rkwc
      /\ end <= DiskWords
      /\ Overruns(rkda, rkwc) <=> n < WordRange - rkwc
      /\ Overruns(rkda, rkwc) => end = DiskWords
  BY MovedOnDisk
<1>2. end \in Nat /\ Start(rkda) <= end
  BY <1>1
<1>3. /\ rkwc' = (rkwc + n) % WordRange
      /\ Overruns(rkda, rkwc) => "OVR" \in rker'
      /\ rkda' = [rkda EXCEPT !.cyl = (b \div Sectors) \div Surfaces,
                              !.surf = (b \div Sectors) % Surfaces,
                              !.sect = b % Sectors]
  BY DEF Transfer, Advanced
<1>4. rkwc \in 0 .. WordRange - 1
  BY DEF TypeOK
<1>5. Start(rkda) + SectWords <= Whole /\ Whole \in Nat /\ Nameable \in Nat
      /\ Whole + WordRange <= Nameable /\ Whole <= DiskWords
  <2>1. Cylinders * Surfaces \in Nat /\ CylField * Surfaces \in Nat
    BY DEF Surfaces
  <2>2. Cylinders * Surfaces * Sectors \in Nat /\ CylField * Surfaces * Sectors \in Nat
    BY <2>1
  <2> QED BY <2>2, StartOnDisk DEF Whole, Nameable
<1> HIDE DEF n
<1>6. end <= Whole - SectWords + WordRange
  BY <1>1, <1>4, <1>5
<1> HIDE DEF end
<1>7. b \in Nat /\ b * SectWords \in end .. end + SectWords - 1
  BY <1>2, RoundUp
<1> HIDE DEF b
<1>8. /\ Start(rkda') = b * SectWords
      /\ rkda'.cyl \in Nat /\ rkda'.surf \in 0 .. Surfaces - 1
      /\ rkda'.sect \in 0 .. Sectors - 1
      /\ b = (rkda'.cyl * Surfaces + rkda'.surf) * Sectors + rkda'.sect
      /\ rkda'.drive = rkda.drive
  BY <1>3, <1>7, StartOfBlock
<1>9. PICK head \in Nat : head = rkda'.cyl * Surfaces + rkda'.surf
  BY <1>8 DEF Surfaces
<1>10. b = head * Sectors + rkda'.sect
  BY <1>8, <1>9
<1>11. rkda'.cyl < CylField
  <2> DEFINE heads == CylField * Surfaces
  <2> SUFFICES ASSUME ~(rkda'.cyl < CylField) PROVE FALSE
    OBVIOUS
  <2>1. heads \in Nat /\ heads <= head
    BY <1>8, <1>9 DEF Surfaces
  <2> HIDE DEF heads
  <2>2. heads * Sectors <= head * Sectors
    BY <2>1, ScaleUp
  <2>3. heads * Sectors \in Nat /\ head * Sectors \in Nat
    BY <2>1
  <2>4. heads * Sectors <= b
    BY <1>8, <1>10, <2>2, <2>3
  <2>5. heads * Sectors * SectWords <= b * SectWords
    BY <1>7, <2>3, <2>4, ScaleUp
  <2>6. Nameable <= b * SectWords
    BY <2>5 DEF Nameable, heads
  <2> QED BY <1>2, <1>5, <1>6, <1>7, <2>6
<1>12. rkda' \in Address
  <2>1. DOMAIN rkda' = {"drive", "cyl", "surf", "sect"}
    BY <1>3 DEF TypeOK
  <2>2. rkda'.sect \in 0 .. SectField - 1 /\ rkda'.cyl \in 0 .. CylField - 1
    BY <1>8, <1>11
  <2>3. rkda' = [drive |-> rkda'.drive, cyl |-> rkda'.cyl, surf |-> rkda'.surf,
                 sect |-> rkda'.sect]
    BY <1>3 DEF TypeOK
  <2> QED BY <1>8, <2>2, <2>3 DEF Address, TypeOK
<1>13. (rkwc' # 0) <=> Overruns(rkda, rkwc)
  <2>1. CASE n < WordRange - rkwc
    <3>1. rkwc + n \in 1 .. WordRange - 1
      BY <1>1, <1>4, <2>1
    <3>2. (rkwc + n) % WordRange = rkwc + n
      BY <3>1
    <3> QED BY <1>1, <1>3, <2>1, <3>1, <3>2
  <2>2. CASE n = WordRange - rkwc
    <3>1. rkwc + n = WordRange
      BY <1>4, <2>2
    <3>2. WordRange % WordRange = 0
      OBVIOUS
    <3>3. rkwc' = 0
      BY <1>3, <3>1, <3>2
    <3>4. ~Overruns(rkda, rkwc)
      BY <1>1, <1>4, <2>2
    <3> QED BY <3>3, <3>4
  <2> QED BY <1>1, <1>4, <2>1, <2>2
<1>14. Overruns(rkda, rkwc) => rkda'.cyl >= Cylinders
  <2> DEFINE heads == Cylinders * Surfaces
  <2> SUFFICES ASSUME Overruns(rkda, rkwc), ~(rkda'.cyl >= Cylinders) PROVE FALSE
    OBVIOUS
  <2>1. heads \in Nat /\ head < heads
    BY <1>8, <1>9 DEF Surfaces
  <2> HIDE DEF heads
  <2>2. head * Sectors + Sectors <= heads * Sectors
    BY <2>1, ScaleBy
  <2>3. heads * Sectors \in Nat /\ head * Sectors \in Nat
    BY <2>1
  <2>4. b < heads * Sectors
    BY <1>8, <1>10, <2>2, <2>3
  <2>5. b * SectWords + SectWords <= heads * Sectors * SectWords
    BY <1>7, <2>3, <2>4, ScaleBy
  <2>6. b * SectWords + SectWords <= Whole
    BY <2>5 DEF Whole, heads
  <2> QED BY <1>1, <1>2, <1>5, <1>7, <2>6
<1> QED BY <1>1, <1>2, <1>3, <1>7, <1>8, <1>12, <1>13, <1>14 DEF end, n

\* A transfer of the RK11 stays in the image and leaves in RKDA the first sector
\* it did not touch; the word count and OVR both tell a short one, whose address
\* the controller then refuses.  This for every geometry and any size of image.
THEOREM RkTransfersAccounted == Spec => TransfersAccounted
<1> DEFINE Leaves ==
      TransferStarts =>
        LET end == Start(rkda) + Moved(rkda, rkwc)
        IN /\ Start(rkda) <= end /\ end <= DiskWords
           /\ Start(rkda') \in end .. end + SectWords - 1
           /\ rkda' \in Address /\ rkda'.sect < Sectors
           /\ (rkwc' # 0) <=> Overruns(rkda, rkwc)
           /\ rkwc' # 0 => "OVR" \in rker' /\ rkda'.cyl >= Cylinders
<1>1. TypeOK /\ DoneXorBusy /\ [Next]_vars => Leaves
  BY StartsOnDisk, TransferLeaves
<1> QED BY <1>1, TypeCorrect, DoneMeansIdle, PTL
        DEF Spec, TransfersAccounted, AddressAdvances, ShortTransferShows

-----------------------------------------------------------------------------
(* The RL11.                                                                *)

\* A disk address turned into the one after n words is still an address, for the
\* fields wrap as the bits of RLDA do.
LEMMA RlAdvancedType ==
  ASSUME NEW a \in RL!Address, NEW n \in Nat
  PROVE  RL!Advanced(a, n) \in RL!Address
<1> USE RlGeometry DEF RL!GeometryAssumption
<1> DEFINE fields == (RL!Track(a) * RlSectField + a.sect) + (n + SectWords - 1) \div SectWords
           track == fields \div RlSectField
<1>1. a.cyl \in Nat /\ a.surf \in Nat /\ a.sect \in Nat
  BY DEF RL!Address, RL!Surfaces
<1>2. RL!Track(a) \in Nat
  BY <1>1 DEF RL!Track, RL!Surfaces
<1>3. n + SectWords - 1 \in Nat
  OBVIOUS
<1>4. (n + SectWords - 1) \div SectWords \in Nat
  BY <1>3
<1> HIDE DEF RL!Track
<1>5. RL!Track(a) * RlSectField \in Nat
  BY <1>2
<1>6. fields \in Nat
  BY <1>1, <1>4, <1>5
<1>7. RL!Advanced(a, n) = [cyl |-> (track \div RL!Surfaces) % CylField,
                           surf |-> track % RL!Surfaces, sect |-> fields % RlSectField]
  BY DEF RL!Advanced
<1> HIDE DEF fields
<1>8. track \in Nat /\ fields % RlSectField \in 0 .. RlSectField - 1
  BY <1>6
<1> HIDE DEF track
<1>9. track \div RL!Surfaces \in Nat /\ track % RL!Surfaces \in 0 .. RL!Surfaces - 1
  BY <1>8 DEF RL!Surfaces
<1>10. (track \div RL!Surfaces) % CylField \in 0 .. CylField - 1
  BY <1>9
<1> QED BY <1>7, <1>8, <1>9, <1>10 DEF RL!Address

\* A transfer moves a number of words that fits on the drive behind its start.
LEMMA RlMovedFits ==
  ASSUME RL!TypeOK
  PROVE  /\ RL!Moved(rlda, rlmp) \in Nat
         /\ \/ RL!Moved(rlda, rlmp) = 0
            \/ RL!Start(rlda) + RL!Moved(rlda, rlmp) <= RL!PackWords
<1> USE RlGeometry DEF RL!GeometryAssumption
<1>1. rlda.cyl \in Nat /\ rlda.surf \in Nat /\ rlda.sect \in Nat
  BY DEF RL!TypeOK, RL!Address, RL!Surfaces
<1>2. RL!Track(rlda) \in Nat
  BY <1>1 DEF RL!Track, RL!Surfaces
<1>3. RL!Track(rlda) * Sectors + rlda.sect \in Nat
  BY <1>1, <1>2
<1>4. RL!Start(rlda) \in Nat
  BY <1>3 DEF RL!Start
<1>5. RL!PackWords \in Nat
  <2>1. Cylinders * RL!Surfaces \in Nat
    BY DEF RL!Surfaces
  <2>2. Cylinders * RL!Surfaces * Sectors \in Nat
    BY <2>1
  <2> QED BY <2>2 DEF RL!PackWords
<1>6. RL!Wanted(rlmp) \in Nat
  BY DEF RL!Wanted, RL!TypeOK
<1>7. RL!LeftOnTrack(rlda) \in Nat
  <2>1. CASE rlda.sect > Sectors
    BY <2>1 DEF RL!LeftOnTrack
  <2>2. CASE ~(rlda.sect > Sectors)
    <3>1. Sectors - rlda.sect \in Nat
      BY <1>1, <2>2
    <3>2. (Sectors - rlda.sect) * SectWords \in Nat
      BY <3>1
    <3> QED BY <2>2, <3>2 DEF RL!LeftOnTrack
  <2> QED BY <2>1, <2>2
<1>8. RL!Least(RL!Wanted(rlmp), RL!LeftOnTrack(rlda)) \in Nat
  BY <1>6, <1>7 DEF RL!Least
<1> HIDE DEF RL!GeometryAssumption
<1> QED BY <1>4, <1>5, <1>8 DEF RL!Moved

\* A seek stops at the first or the last cylinder.
LEMMA RlSeekStays ==
  ASSUME NEW c \in Int
  PROVE  RL!Clamped(c) \in 0 .. Cylinders - 1
BY RlGeometry DEF RL!GeometryAssumption, RL!Clamped

\* What a command leaves: done with a request if enabled, or busy with none.
LEMMA RlGoInv ==
  ASSUME RL!RequestMeansReady, NEW f \in RL!Functions, NEW e \in BOOLEAN,
         UNCHANGED rlAttached, rlIe' = e, rlFunc' = f, RL!Go(f, e)
  PROVE  RL!RequestMeansReady'
<1> USE DEF RL!RequestMeansReady
<1>1. CASE RL!AtOnce(f, e)
  <2>1. /\ rlDone' = TRUE /\ rlBusy' = FALSE /\ rlRequest' = e
        /\ UNCHANGED <<rlda, rlTrk>>
    BY <1>1 DEF RL!AtOnce, RL!Finish
  <2>2. rlErr' \in {{}, {"INCMP"}, {"INCMP", "DRE"}}
    BY <1>1 DEF RL!AtOnce, RL!Finish
  <2>3. rlErr' \subseteq RL!Errors
    BY <2>2 DEF RL!Errors
  <2>4. rlmp' \in 0 .. RlWordRange - 1
    BY <1>1 DEF RL!AtOnce, RL!TypeOK
  <2> QED BY <2>1, <2>3, <2>4 DEF RL!TypeOK
<1>2. CASE RL!Seek(f)
  <2>1. /\ rlDone' = FALSE /\ rlBusy' = TRUE /\ rlRequest' = FALSE
        /\ rlErr' = {} /\ UNCHANGED <<rlmp, rlda>>
    BY <1>2 DEF RL!Seek, RL!Begin
  <2>2. PICK out \in BOOLEAN, side \in 0 .. RL!Surfaces - 1 :
          rlTrk' = [cyl |-> RL!Clamped(IF out THEN rlTrk.cyl + rlda.cyl ELSE rlTrk.cyl - rlda.cyl),
                    surf |-> side, sect |-> 0]
    BY <1>2 DEF RL!Seek
  <2>3. rlTrk.cyl \in Int /\ rlda.cyl \in Int
    BY DEF RL!TypeOK, RL!Address
  <2>4. RL!Clamped(IF out THEN rlTrk.cyl + rlda.cyl ELSE rlTrk.cyl - rlda.cyl)
          \in 0 .. Cylinders - 1
    BY <2>3, RlSeekStays
  <2>5. rlTrk' \in RL!Address
    BY <2>2, <2>4, RlGeometry DEF RL!GeometryAssumption, RL!Address
  <2> QED BY <2>1, <2>5 DEF RL!TypeOK, RL!Errors
<1>3. CASE RL!ReadHeader(f)
  BY <1>3 DEF RL!ReadHeader, RL!Begin, RL!TypeOK, RL!Errors
<1>4. CASE RL!Transfer(f)
  <2>1. /\ rlDone' = FALSE /\ rlBusy' = TRUE /\ rlRequest' = FALSE
        /\ rlmp' = (rlmp + RL!Moved(rlda, rlmp)) % RlWordRange
        /\ rlda' = RL!Advanced(rlda, RL!Moved(rlda, rlmp)) /\ rlTrk' = rlda'
        /\ rlErr' \subseteq RL!Errors
    BY <1>4 DEF RL!Transfer, RL!Begin, RL!Errors
  <2>2. RL!Moved(rlda, rlmp) \in Nat
    BY RlMovedFits
  <2>3. rlmp' \in 0 .. RlWordRange - 1
    BY <2>1, <2>2, RlGeometry DEF RL!GeometryAssumption, RL!TypeOK
  <2>4. rlda' \in RL!Address
    BY <2>1, <2>2, RlAdvancedType DEF RL!TypeOK
  <2> QED BY <2>1, <2>3, <2>4 DEF RL!TypeOK
<1> QED BY <1>1, <1>2, <1>3, <1>4 DEF RL!Go

\* Every step keeps it.
LEMMA RlStepInv ==
  RL!RequestMeansReady /\ [RL!Next]_(RL!vars) => RL!RequestMeansReady'
<1> SUFFICES ASSUME RL!RequestMeansReady, [RL!Next]_(RL!vars) PROVE RL!RequestMeansReady'
  OBVIOUS
<1> USE DEF RL!RequestMeansReady
<1>1. ASSUME NEW f \in RL!Functions, NEW e \in BOOLEAN, NEW d \in BOOLEAN,
             RL!WriteCsr(f, e, d)
      PROVE  RL!RequestMeansReady'
  <2>1. CASE ~d /\ RL!Go(f, e)
    BY <1>1, <2>1, RlGoInv DEF RL!WriteCsr
  <2>2. CASE d
    BY <1>1, <2>2 DEF RL!WriteCsr, RL!TypeOK
  <2> QED BY <1>1, <2>1, <2>2 DEF RL!WriteCsr
<1>2. CASE \E v \in 0 .. RlWordRange - 1 : RL!WriteMp(v)
  BY <1>2 DEF RL!WriteMp, RL!csr, RL!TypeOK
<1>3. CASE \E a \in RL!Address : RL!WriteDa(a)
  BY <1>3 DEF RL!WriteDa, RL!csr, RL!TypeOK
<1>4. CASE RL!Poll
  BY <1>4 DEF RL!Poll, RL!Finish, RL!TypeOK
<1>5. CASE RL!Grant \/ RL!Reset
  BY <1>5 DEF RL!Grant, RL!Reset, RL!csr, RL!TypeOK
<1>6. CASE UNCHANGED RL!vars
  BY <1>6 DEF RL!vars, RL!csr, RL!TypeOK
<1> QED BY <1>1, <1>2, <1>3, <1>4, <1>5, <1>6 DEF RL!Next

\* The controller powers up without a request.
LEMMA RlInit == RL!Init => RL!RequestMeansReady
<1>1. RL!Home \in RL!Address /\ 0 \in 0 .. RlWordRange - 1
  BY RlGeometry DEF RL!GeometryAssumption, RL!Home, RL!Address, RL!Surfaces
<1> QED BY <1>1 DEF RL!Init, RL!RequestMeansReady, RL!TypeOK, RL!Functions

\* The host of the controllers takes steps of the RL11 or leaves it alone.
LEMMA RlBehaves == DisksSpec => RL!Spec
<1>1. DisksInit => RL!Init
  BY DEF DisksInit
<1>2. [DisksNext]_disks => [RL!Next]_(RL!vars)
  BY DEF DisksNext, disks, rlVars, RL!vars, RL!csr
<1> QED BY <1>1, <1>2, PTL DEF DisksSpec, RL!Spec

\* Every reachable state of the RL11 satisfies the invariant.
LEMMA RlInvHolds == RL!Spec => []RL!RequestMeansReady
BY RlInit, RlStepInv, PTL DEF RL!Spec

\* Whatever stores, restarts, completions and RESETs a program makes, the RL11 requests
\* an interrupt only while DONE and IE are set, and its registers keep their widths.
THEOREM RlRequestsWhenReady == DisksSpec => []RlRequestMeansReady
BY RlBehaves, RlInvHolds, PTL DEF RlRequestMeansReady

\* One step moves data only within the drive, and the heads only to its cylinders.
LEMMA RlStepStays ==
  ASSUME RL!RequestMeansReady, [RL!Next]_(RL!vars)
  PROVE  [ /\ RL!TransferStarts =>
                \/ RL!Moved(rlda, rlmp) = 0
                \/ RL!Start(rlda) + RL!Moved(rlda, rlmp) <= RL!PackWords
           /\ rlTrk' # rlTrk /\ rlFunc' = "seek" => rlTrk'.cyl \in 0 .. Cylinders - 1]_(RL!vars)
<1>1. \/ RL!Moved(rlda, rlmp) = 0
      \/ RL!Start(rlda) + RL!Moved(rlda, rlmp) <= RL!PackWords
  BY RlMovedFits DEF RL!RequestMeansReady
<1>2. ASSUME rlTrk' # rlTrk, rlFunc' = "seek"
      PROVE  rlTrk'.cyl \in 0 .. Cylinders - 1
  <2>1. PICK f \in RL!Functions, e \in BOOLEAN, d \in BOOLEAN : RL!WriteCsr(f, e, d)
    BY <1>2 DEF RL!Next, RL!WriteMp, RL!WriteDa, RL!Poll, RL!Finish, RL!Grant, RL!Reset, RL!vars
  <2>2. f = "seek" /\ RL!Go(f, e)
    BY <1>2, <2>1 DEF RL!WriteCsr
  <2>3. RL!Seek(f)
    BY <1>2, <2>2 DEF RL!Go, RL!AtOnce, RL!ReadHeader, RL!Transfer, RL!Transfers
  <2>4. PICK out \in BOOLEAN, side \in 0 .. RL!Surfaces - 1 :
          rlTrk' = [cyl |-> RL!Clamped(IF out THEN rlTrk.cyl + rlda.cyl ELSE rlTrk.cyl - rlda.cyl),
                    surf |-> side, sect |-> 0]
    BY <2>3 DEF RL!Seek
  <2>5. rlTrk.cyl \in Int /\ rlda.cyl \in Int
    BY DEF RL!RequestMeansReady, RL!TypeOK, RL!Address
  <2>6. RL!Clamped(IF out THEN rlTrk.cyl + rlda.cyl ELSE rlTrk.cyl - rlda.cyl)
          \in 0 .. Cylinders - 1
    BY <2>5, RlSeekStays
  <2> QED BY <2>4, <2>6
<1> QED BY <1>1, <1>2

\* A transfer's words are the drive's, however far beyond it RLDA points (rl_transfer),
\* and a seek ends on one of its cylinders (rl_go).
THEOREM RlNeverLeavesDrive == DisksSpec => RlStaysOnDrive
<1>1. RL!Spec => RL!StaysOnDrive
  BY RlInvHolds, RlStepStays, PTL DEF RL!Spec, RL!StaysOnDrive
<1> QED BY <1>1, RlBehaves, PTL DEF RlStaysOnDrive

-----------------------------------------------------------------------------
(* The RH70 and its RP04: the interrupt request.                            *)

\* The control bits have their types, the controller is ready or busy, and it
\* requests only while DONE and IE are both set.
RpControlInv ==
  /\ rpDone \in BOOLEAN /\ rpIe \in BOOLEAN
  /\ rpBusy \in BOOLEAN /\ rpRequest \in BOOLEAN /\ rpGiven \in BOOLEAN
  /\ RP!DoneXorBusy
  /\ rpRequest => rpDone /\ rpIe

\* The controller powers up ready, with interrupts disabled.
LEMMA RpInitInv == RP!Init => RpControlInv
BY DEF RP!Init, RpControlInv, RP!DoneXorBusy

\* A store to RPCS1 starts a command or not; either way the controller is left
\* done, with a request on the edge, or busy with none.
LEMMA RpWriteCs1Inv ==
  ASSUME RpControlInv,
         NEW f \in RP!Functions, NEW e \in BOOLEAN, NEW go \in BOOLEAN,
         RP!WriteCs1(f, e, go)
  PROVE  /\ RpControlInv'
         /\ rpGiven' # rpGiven => rpDone
         /\ rpRequest' = (/\ rpIe' /\ rpDone'
                          /\ rpRequest \/ ~(rpIe /\ rpDone) \/ rpGiven' # rpGiven)
<1>1. rpIe' = e
  BY DEF RP!WriteCs1
<1>2. CASE rpDone /\ go /\ RP!Immediate(f, e) /\ rpGiven' = ~rpGiven
  BY <1>1, <1>2 DEF RP!Immediate, RP!Finish, RpControlInv, RP!DoneXorBusy
<1>3. CASE rpDone /\ go /\ RP!Begin(f) /\ rpGiven' = ~rpGiven
  BY <1>1, <1>3 DEF RP!Begin, RpControlInv, RP!DoneXorBusy
<1>4. CASE ~(rpDone /\ go)
  <2>1. /\ rpDone' = rpDone /\ rpBusy' = rpBusy /\ rpGiven' = rpGiven
        /\ rpRequest' = (e /\ (rpRequest \/ (rpDone /\ ~rpIe)))
    BY <1>4 DEF RP!WriteCs1
  <2> QED BY <1>1, <2>1 DEF RpControlInv, RP!DoneXorBusy
<1> QED BY <1>2, <1>3, <1>4 DEF RP!WriteCs1

\* Every step preserves the invariant and is a step of the latch.
LEMMA RpStepInv ==
  RpControlInv /\ [RP!Next]_(RP!vars) => RpControlInv' /\ [RP!Latch!Next]_(RP!Latch!vars)
<1> SUFFICES ASSUME RpControlInv, [RP!Next]_(RP!vars)
             PROVE  RpControlInv' /\ (RP!Latch!Next \/ UNCHANGED <<rpIe, rpDone, rpGiven, rpRequest>>)
  BY DEF RP!Latch!vars
<1> USE DEF RP!Latch!Next, RP!Latch!Change, RP!Latch!Acknowledge, RP!Latch!Both,
            RP!Latch!Edge
<1>1. ASSUME NEW f \in RP!Functions, NEW e \in BOOLEAN, NEW go \in BOOLEAN,
             RP!WriteCs1(f, e, go)
      PROVE  RpControlInv' /\ RP!Latch!Next
  <2>1. /\ RpControlInv'
        /\ rpGiven' # rpGiven => rpDone
        /\ rpRequest' = (/\ rpIe' /\ rpDone'
                         /\ rpRequest \/ ~(rpIe /\ rpDone) \/ rpGiven' # rpGiven)
    BY <1>1, RpWriteCs1Inv
  <2> QED BY <2>1 DEF RpControlInv
<1>2. CASE \/ \E v \in 0 .. RpWordRange - 1 : RP!WriteWc(v)
           \/ \E a \in RP!TrackAddress : RP!WriteDa(a)
           \/ \E c \in 0 .. RpCylField - 1 : RP!WriteDc(c)
           \/ UNCHANGED RP!vars
  BY <1>2 DEF RP!WriteWc, RP!WriteDa, RP!WriteDc, RP!vars, RP!cs1, RpControlInv, RP!DoneXorBusy
<1>3. CASE RP!Poll
  BY <1>3 DEF RP!Poll, RP!Finish, RpControlInv, RP!DoneXorBusy
<1>4. CASE RP!Grant
  BY <1>4 DEF RP!Grant, RP!cs1, RpControlInv, RP!DoneXorBusy
<1>5. CASE RP!ControllerClear
  BY <1>5 DEF RP!ControllerClear, RpControlInv, RP!DoneXorBusy
<1> QED BY <1>1, <1>2, <1>3, <1>4, <1>5 DEF RP!Next

\* The host of the controllers takes steps of the RH70 or leaves it alone.
LEMMA RpBehaves == DisksSpec => RP!Spec
<1>1. DisksInit => RP!Init
  BY DEF DisksInit
<1>2. [DisksNext]_disks => [RP!Next]_(RP!vars)
  BY DEF DisksNext, disks, rpVars, RP!vars, RP!cs1, RP!address
<1> QED BY <1>1, <1>2, PTL DEF DisksSpec, RP!Spec

\* Every reachable state satisfies the invariant.
LEMMA RpInvHolds == RP!Spec => []RpControlInv
BY RpInitInv, RpStepInv, PTL DEF RP!Spec

\* The bus request implements the edge latch, through controller clears in the
\* middle of a command too.
THEOREM RpRequestIsLatch == DisksSpec => RpLatchesInterrupt
<1>1. RP!Init => RP!Latch!Init
  BY DEF RP!Init, RP!Latch!Init
<1>2. RP!Spec => RP!LatchesInterrupt
  BY <1>1, RpStepInv, RpInvHolds, PTL DEF RP!LatchesInterrupt, RP!Latch!Spec, RP!Spec
<1> QED BY <1>2, RpBehaves, PTL DEF RpLatchesInterrupt

\* So it is done or busy.
LEMMA RpIdle == RP!Spec => []RP!DoneXorBusy
<1>1. RpControlInv => RP!DoneXorBusy
  BY DEF RpControlInv
<1> QED BY <1>1, RpInvHolds, PTL

\* DONE is clear exactly while a completion is scheduled: one that is left over
\* from a cleared command cannot end a later one.
THEOREM RpDoneMeansIdle == DisksSpec => []RP!DoneXorBusy
BY RpIdle, RpBehaves, PTL

-----------------------------------------------------------------------------
(* Types.                                                                   *)

\* The first word of a disk address is a natural number.
LEMMA RpStartType ==
  ASSUME NEW cyl \in Nat, NEW a \in RP!TrackAddress
  PROVE  RP!Start(cyl, a) \in Nat
<1> USE RpGeometry DEF RP!GeometryAssumption
<1>1. cyl % RpCylField \in Nat
  OBVIOUS
<1>2. a.surf \in Nat /\ a.sect \in Nat
  BY DEF RP!TrackAddress
<1>3. (cyl % RpCylField) * RpSurfaces + a.surf \in Nat
  BY <1>1, <1>2
<1>4. ((cyl % RpCylField) * RpSurfaces + a.surf) * RpSectors + a.sect \in Nat
  BY <1>2, <1>3
<1> QED BY <1>4 DEF RP!Start

\* What is moved is a natural number of words.
LEMMA RpMovedType ==
  ASSUME RP!TypeOK, NEW start \in Nat
  PROVE  RP!Moved(start) \in Nat
<1>1. RP!Size \in Nat /\ RP!Wanted \in Nat
  BY RpGeometry DEF RP!Size, RP!Wanted, RP!TypeOK, RP!GeometryAssumption
<1>2. CASE start >= RP!Size
  BY <1>2 DEF RP!Moved
<1>3. CASE start < RP!Size /\ start + RP!Wanted > RP!Size
  BY <1>1, <1>3 DEF RP!Moved
<1>4. CASE start < RP!Size /\ start + RP!Wanted <= RP!Size
  BY <1>1, <1>4 DEF RP!Moved
<1> QED BY <1>1, <1>2, <1>3, <1>4

\* The first sector not touched has a natural number.
LEMMA RpNextBlockType ==
  ASSUME NEW start \in Nat, NEW n \in Nat
  PROVE  RP!NextBlock(start, n) \in Nat
<1>1. start \div RpSectWords \in Nat
  BY RpGeometry DEF RP!GeometryAssumption
<1>2. (n + RpSectWords - 1) \in Nat
  BY RpGeometry DEF RP!GeometryAssumption
<1>3. (n + RpSectWords - 1) \div RpSectWords \in Nat
  BY <1>2, RpGeometry DEF RP!GeometryAssumption
<1> QED BY <1>1, <1>3 DEF RP!NextBlock

\* A transfer leaves every register within its width, wherever it started.
LEMMA RpTransferType ==
  ASSUME RP!TypeOK, RP!Transfer
  PROVE  /\ wc' \in 0 .. RpWordRange - 1
         /\ da' \in RP!TrackAddress /\ dc' \in Nat /\ cc' \in Nat
<1> DEFINE start == RP!Start(dc, da)
           n == RP!Moved(start)
           block == RP!NextBlock(start, n)
           track == block \div RpSectors
<1>1. /\ wc' = (wc + n) % RpWordRange
      /\ da' = [surf |-> track % RpSurfaces, sect |-> block % RpSectors]
      /\ dc' = track \div RpSurfaces
      /\ cc' = track \div RpSurfaces
  BY DEF RP!Transfer
<1>2. start \in Nat
  BY RpStartType DEF RP!TypeOK
<1>3. n \in Nat
  BY <1>2, RpMovedType
<1>4. block \in Nat
  BY <1>2, <1>3, RpNextBlockType
<1> HIDE DEF start, n, block
<1>5. track \in Nat
  BY <1>4, RpGeometry DEF RP!GeometryAssumption
<1> HIDE DEF track
<1>6. wc' \in 0 .. RpWordRange - 1
  BY <1>1, <1>3, RpGeometry DEF RP!TypeOK, RP!GeometryAssumption
<1>7. /\ track % RpSurfaces \in 0 .. RpSurfaces - 1
      /\ block % RpSectors \in 0 .. RpSectors - 1
  BY <1>4, <1>5, RpGeometry DEF RP!GeometryAssumption
<1>8. da' \in RP!TrackAddress
  BY <1>1, <1>7, RpGeometry DEF RP!TrackAddress, RP!GeometryAssumption
<1>9. track \div RpSurfaces \in Nat
  BY <1>5, RpGeometry DEF RP!GeometryAssumption
<1> QED BY <1>1, <1>6, <1>8, <1>9

\* Every step keeps the types.
LEMMA RpStepType == RP!TypeOK /\ [RP!Next]_(RP!vars) => RP!TypeOK'
<1> SUFFICES ASSUME RP!TypeOK, [RP!Next]_(RP!vars) PROVE RP!TypeOK'
  OBVIOUS
<1>1. ASSUME NEW f \in RP!Functions, NEW e \in BOOLEAN, NEW go \in BOOLEAN,
             RP!WriteCs1(f, e, go)
      PROVE  RP!TypeOK'
  <2>0. rpGiven' \in {rpGiven, ~rpGiven}
    BY <1>1 DEF RP!WriteCs1
  <2>1. rpAttached' = rpAttached /\ rpIe' = e /\ rpFunc' = f /\ rpGiven' \in BOOLEAN
    BY <1>1, <2>0 DEF RP!WriteCs1, RP!TypeOK
  <2>2. CASE RP!Immediate(f, e)
    BY <2>1, <2>2 DEF RP!Immediate, RP!Finish, RP!address, RP!TypeOK, RP!Status
  <2>3. CASE RP!Begin(f)
    <3>1. /\ ds' = ds
          /\ rpDone' = FALSE /\ rpBusy' = TRUE /\ rpRequest' = FALSE
      BY <2>3 DEF RP!Begin
    <3>2. CASE f = "transfer"
      <4>1. RP!Transfer
        BY <2>3, <3>2 DEF RP!Begin
      <4> QED BY <2>1, <3>1, <4>1, RpTransferType DEF RP!TypeOK
    <3>3. CASE f # "transfer"
      <4>1. wc' = wc /\ da' = da /\ dc' = dc /\ cc' \in {cc, dc}
        BY <2>3, <3>3 DEF RP!Begin, RP!address
      <4> QED BY <2>1, <3>1, <4>1 DEF RP!TypeOK
    <3> QED BY <3>2, <3>3
  <2>4. CASE ~(rpDone /\ go)
    <3>1. /\ rpRequest' = (e /\ (rpRequest \/ (rpDone /\ ~rpIe)))
          /\ UNCHANGED <<rpDone, ds, wc, RP!address, rpBusy>>
      BY <1>1, <2>4 DEF RP!WriteCs1
    <3>2. rpRequest' \in BOOLEAN
      BY <3>1 DEF RP!TypeOK
    <3> QED BY <2>1, <3>1, <3>2 DEF RP!address, RP!TypeOK
  <2> QED BY <1>1, <2>2, <2>3, <2>4 DEF RP!WriteCs1
<1>2. ASSUME NEW v \in 0 .. RpWordRange - 1, RP!WriteWc(v)
      PROVE  RP!TypeOK'
  BY <1>2 DEF RP!WriteWc, RP!cs1, RP!address, RP!TypeOK
<1>3. ASSUME NEW a \in RP!TrackAddress, RP!WriteDa(a)
      PROVE  RP!TypeOK'
  BY <1>3 DEF RP!WriteDa, RP!cs1, RP!TypeOK
<1>4. ASSUME NEW c \in 0 .. RpCylField - 1, RP!WriteDc(c)
      PROVE  RP!TypeOK'
  BY <1>4, RpGeometry DEF RP!WriteDc, RP!cs1, RP!TypeOK, RP!GeometryAssumption
<1>5. CASE RP!ControllerClear
  BY <1>5 DEF RP!ControllerClear, RP!address, RP!TypeOK, RP!Functions
<1>6. CASE RP!Poll
  BY <1>6 DEF RP!Poll, RP!Finish, RP!address, RP!TypeOK, RP!Status
<1>7. CASE RP!Grant
  BY <1>7 DEF RP!Grant, RP!cs1, RP!address, RP!TypeOK
<1>8. CASE UNCHANGED RP!vars
  BY <1>8 DEF RP!vars, RP!cs1, RP!address, RP!TypeOK
<1> QED BY <1>1, <1>2, <1>3, <1>4, <1>5, <1>6, <1>7, <1>8 DEF RP!Next

\* Every reachable state has its types.
LEMMA RpTyped == RP!Spec => []RP!TypeOK
<1>1. [surf |-> 0, sect |-> 0] \in RP!TrackAddress
  BY RpGeometry DEF RP!TrackAddress, RP!GeometryAssumption
<1>2. 0 \in 0 .. RpWordRange - 1
  BY RpGeometry DEF RP!GeometryAssumption
<1>3. RP!Init => wc \in 0 .. RpWordRange - 1 /\ da \in RP!TrackAddress
  BY <1>1, <1>2 DEF RP!Init
<1>4. RP!Init => dc \in Nat /\ cc \in Nat /\ ds \subseteq RP!Status
  BY DEF RP!Init
<1>5. RP!Init => RP!TypeOK
  BY <1>3, <1>4, Zenon DEF RP!Init, RP!TypeOK, RP!Functions
<1> QED BY <1>5, RpStepType, PTL DEF RP!Spec

\* Every register keeps to its width, for any geometry and image: the surface
\* and sector a transfer leaves are those of the pack, from whatever numbers it
\* started.
THEOREM RpTypeCorrect == DisksSpec => []RP!TypeOK
BY RpTyped, RpBehaves, PTL

-----------------------------------------------------------------------------
(* What a transfer leaves in RPDC, RPDA and RPWC.                           *)

\* The words of all the cylinders RPDC can name.
RpNameable == RpCylField * RpSurfaces * RpSectors * RpSectWords

\* What is moved, in its three cases: nothing from beyond the image, what is left
\* of it, or all that was asked for.
LEMMA RpMovedCases ==
  ASSUME RP!TypeOK, NEW start \in Nat
  PROVE  /\ RP!Size \in Nat /\ RP!Size <= RpDiskWords
         /\ \/ start >= RP!Size /\ RP!Moved(start) = 0
            \/ /\ start < RP!Size /\ start + (RpWordRange - wc) > RP!Size
               /\ RP!Moved(start) = RP!Size - start
            \/ /\ start < RP!Size /\ start + (RpWordRange - wc) <= RP!Size
               /\ RP!Moved(start) = RpWordRange - wc
<1>1. RP!Size \in Nat /\ RP!Size <= RpDiskWords
  BY RpGeometry DEF RP!Size, RP!GeometryAssumption
<1>2. RpWordRange - wc \in Nat
  BY RpGeometry DEF RP!TypeOK, RP!GeometryAssumption
<1> QED BY <1>1, <1>2 DEF RP!Moved, RP!Wanted

\* The sector number of an address, and the first word of it.
LEMMA RpStartOfSector ==
  ASSUME NEW cyl \in Nat, NEW a \in RP!TrackAddress
  PROVE  \E s \in Nat :
           /\ s = ((cyl % RpCylField) * RpSurfaces + a.surf) * RpSectors + a.sect
           /\ RP!Start(cyl, a) = s * RpSectWords
<1> USE RpGeometry DEF RP!GeometryAssumption
<1>1. cyl % RpCylField \in Nat
  OBVIOUS
<1>2. a.surf \in Nat /\ a.sect \in Nat
  BY DEF RP!TrackAddress
<1>3. (cyl % RpCylField) * RpSurfaces + a.surf \in Nat
  BY <1>1, <1>2
<1>4. ((cyl % RpCylField) * RpSurfaces + a.surf) * RpSectors + a.sect \in Nat
  BY <1>2, <1>3
<1> QED BY <1>4 DEF RP!Start

\* The first sector not touched starts with the end of the transfer, rounded up.
LEMMA RpBlockAfter ==
  ASSUME NEW s \in Nat, NEW n \in Nat
  PROVE  /\ RP!NextBlock(s * RpSectWords, n) \in Nat
         /\ RP!NextBlock(s * RpSectWords, n) * RpSectWords
              \in s * RpSectWords + n .. s * RpSectWords + n + RpSectWords - 1
         /\ n = 0 => RP!NextBlock(s * RpSectWords, n) = s
<1> USE RpGeometry DEF RP!GeometryAssumption
<1>1. (s * RpSectWords) \div RpSectWords = s
  OBVIOUS
<1>2. PICK c \in Nat : c = (n + RpSectWords - 1) \div RpSectWords
                       /\ c * RpSectWords \in n .. n + RpSectWords - 1
  BY RoundUp
<1>3. RP!NextBlock(s * RpSectWords, n) = s + c
  BY <1>1, <1>2 DEF RP!NextBlock
<1>4. (s + c) * RpSectWords = s * RpSectWords + c * RpSectWords
  OBVIOUS
<1>5. s * RpSectWords \in Nat
  OBVIOUS
<1>6. n = 0 => c = 0
  <2> SUFFICES ASSUME n = 0, c > 0 PROVE FALSE
    OBVIOUS
  <2>1. 0 * RpSectWords + RpSectWords <= c * RpSectWords
    BY ScaleBy
  <2> QED BY <1>2, <2>1
<1> QED BY <1>2, <1>3, <1>4, <1>5, <1>6

\* RPDC and RPDA taken apart from a sector number that RPDC can name are those of
\* that sector.
LEMMA RpStartOfBlock ==
  ASSUME NEW b \in Nat, b * RpSectWords < RpNameable,
         NEW a, a = [surf |-> (b \div RpSectors) % RpSurfaces, sect |-> b % RpSectors]
  PROVE  /\ RP!Start((b \div RpSectors) \div RpSurfaces, a) = b * RpSectWords
         /\ a.sect < RpSectors /\ a.surf < RpSurfaces
<1> USE RpGeometry DEF RP!GeometryAssumption
<1>1. PICK track \in Nat, sect \in 0 .. RpSectors - 1 :
        track = b \div RpSectors /\ sect = b % RpSectors /\ track * RpSectors + sect = b
  BY Rejoin
<1>2. PICK cyl \in Nat, surf \in 0 .. RpSurfaces - 1 :
        cyl = track \div RpSurfaces /\ surf = track % RpSurfaces
        /\ cyl * RpSurfaces + surf = track
  BY Rejoin
<1>3. cyl < RpCylField
  <2> SUFFICES ASSUME RpCylField <= cyl PROVE FALSE
    OBVIOUS
  <2>1. RpCylField * RpSurfaces <= cyl * RpSurfaces
    BY ScaleUp
  <2>2. RpCylField * RpSurfaces \in Nat /\ cyl * RpSurfaces \in Nat
    OBVIOUS
  <2>3. RpCylField * RpSurfaces <= track
    BY <1>2, <2>1, <2>2
  <2>4. RpCylField * RpSurfaces * RpSectors <= track * RpSectors
    BY <2>2, <2>3, ScaleUp
  <2>5. RpCylField * RpSurfaces * RpSectors \in Nat /\ track * RpSectors \in Nat
    BY <2>2
  <2>6. RpCylField * RpSurfaces * RpSectors <= b
    BY <1>1, <2>4, <2>5
  <2>7. RpNameable <= b * RpSectWords
    BY <2>5, <2>6, ScaleUp DEF RpNameable
  <2>8. RpNameable \in Nat /\ b * RpSectWords \in Nat
    BY <2>5 DEF RpNameable
  <2> QED BY <2>7, <2>8
<1>4. cyl % RpCylField = cyl
  BY <1>3
<1>5. a = [surf |-> surf, sect |-> sect] /\ (b \div RpSectors) \div RpSurfaces = cyl
  BY <1>1, <1>2
<1>6. RP!Start(cyl, a) = ((cyl * RpSurfaces + surf) * RpSectors + sect) * RpSectWords
  <2>1. a.surf = surf /\ a.sect = sect
    BY <1>5
  <2> QED BY <1>4, <2>1, Zenon DEF RP!Start
<1>7. (cyl * RpSurfaces + surf) * RpSectors + sect = b
  BY <1>1, <1>2, Zenon
<1>8. RP!Start(cyl, a) = b * RpSectWords
  BY <1>6, <1>7, Zenon
<1>9. a.sect < RpSectors /\ a.surf < RpSurfaces
  BY <1>5
<1> QED BY <1>5, <1>8, <1>9, Zenon
\* Only an accepted read or write starts a transfer.
LEMMA RpStartsTransfer ==
  ASSUME RP!DoneXorBusy, [RP!Next]_(RP!vars), RP!TransferStarts
  PROVE  RP!Transfer
<1>1. PICK f \in RP!Functions, e \in BOOLEAN, go \in BOOLEAN : RP!WriteCs1(f, e, go)
  BY DEF RP!TransferStarts, RP!Next, RP!vars, RP!cs1,
         RP!WriteWc, RP!WriteDa, RP!WriteDc, RP!Poll, RP!Finish,
         RP!Grant, RP!ControllerClear
<1>2. f = "transfer" /\ RP!Begin(f)
  BY <1>1 DEF RP!WriteCs1, RP!Immediate, RP!Finish, RP!TransferStarts
<1> QED BY <1>2 DEF RP!Begin

\* Where such a transfer leaves the disk address.
LEMMA RpTransferAdvances ==
  ASSUME RP!TypeOK, RP!Transfer, RP!Addressable(RP!Start(dc, da))
  PROVE  LET start == RP!Start(dc, da)
             end == start + RP!Moved(start)
         IN /\ start <= end /\ (RP!Moved(start) > 0 => end <= RP!Size)
            /\ RP!Start(dc', da') \in end .. end + RpSectWords - 1
            /\ da'.sect < RpSectors /\ da'.surf < RpSurfaces
            /\ cc' = dc'
<1> USE RpGeometry DEF RP!GeometryAssumption
<1>1. PICK s \in Nat : RP!Start(dc, da) = s * RpSectWords
  BY RpStartOfSector DEF RP!TypeOK
<1>2. PICK start \in Nat : start = RP!Start(dc, da)
  BY RpStartType DEF RP!TypeOK
<1>3. PICK n \in Nat : n = RP!Moved(start)
  BY RpMovedType
<1>4. /\ RP!Size \in Nat /\ RP!Size <= RpDiskWords
      /\ n > 0 => start + n <= RP!Size
  BY <1>3, RpMovedCases DEF RP!TypeOK
<1>5. PICK b \in Nat : b = RP!NextBlock(start, n)
  BY RpNextBlockType
<1>6. /\ b * RpSectWords \in start + n .. start + n + RpSectWords - 1
      /\ n = 0 => b * RpSectWords = start
  BY <1>1, <1>2, <1>5, RpBlockAfter
<1>7. b * RpSectWords < RpNameable
  <2>1. RpCylField * RpSurfaces \in Nat
    OBVIOUS
  <2>2. RpCylField * RpSurfaces * RpSectors \in Nat
    BY <2>1
  <2>3. RpNameable \in Nat /\ RpDiskWords + RpSectWords <= RpNameable
    BY <2>2 DEF RpNameable
  <2>4. CASE n = 0
    BY <1>2, <1>6, <2>4 DEF RP!Addressable, RpNameable
  <2>5. CASE n > 0
    BY <1>4, <1>6, <2>3, <2>5
  <2> QED BY <2>4, <2>5
<1>8. /\ da' = [surf |-> (b \div RpSectors) % RpSurfaces, sect |-> b % RpSectors]
      /\ dc' = (b \div RpSectors) \div RpSurfaces /\ cc' = dc'
  BY <1>2, <1>3, <1>5 DEF RP!Transfer
<1>9. /\ RP!Start((b \div RpSectors) \div RpSurfaces, da') = b * RpSectWords
      /\ da'.sect < RpSectors /\ da'.surf < RpSurfaces
  BY <1>7, <1>8, RpStartOfBlock
<1>10. RP!Start(dc', da') = b * RpSectWords
  BY <1>8, <1>9
<1>11. start <= start + n
  OBVIOUS
<1> QED BY <1>2, <1>3, <1>4, <1>6, <1>8, <1>9, <1>10, <1>11

\* And the word count.
LEMMA RpTransferCounts ==
  ASSUME RP!TypeOK, RP!Transfer
  PROVE  LET start == RP!Start(dc, da)
         IN wc' = 0 <=> \/ start + RP!Wanted <= RP!Size
                        \/ wc = 0 /\ start >= RP!Size
<1> USE RpGeometry DEF RP!GeometryAssumption
<1>1. PICK start \in Nat : start = RP!Start(dc, da)
  BY RpStartType DEF RP!TypeOK
<1>2. PICK n \in Nat : n = RP!Moved(start)
  BY RpMovedType
<1>3. wc' = (wc + n) % RpWordRange
  BY <1>1, <1>2 DEF RP!Transfer
<1>4. wc \in 0 .. RpWordRange - 1 /\ RP!Size \in Nat
  BY RpMovedCases DEF RP!TypeOK
<1>5. CASE start >= RP!Size /\ n = 0
  <2>1. wc' = wc
    BY <1>3, <1>4, <1>5
  <2> QED BY <1>1, <1>4, <1>5, <2>1 DEF RP!Wanted
<1>6. CASE start < RP!Size /\ start + (RpWordRange - wc) > RP!Size /\ n = RP!Size - start
  <2>1. wc + n \in 1 .. RpWordRange - 1
    BY <1>4, <1>6
  <2>2. (wc + n) % RpWordRange = wc + n
    BY <2>1
  <2>3. wc' # 0
    BY <1>3, <2>1, <2>2
  <2> QED BY <1>1, <1>4, <1>6, <2>3 DEF RP!Wanted
<1>7. CASE start < RP!Size /\ start + (RpWordRange - wc) <= RP!Size /\ n = RpWordRange - wc
  <2>1. wc + n = RpWordRange
    BY <1>4, <1>7
  <2>2. RpWordRange % RpWordRange = 0
    OBVIOUS
  <2>3. wc' = 0
    BY <1>3, <2>1, <2>2
  <2> QED BY <1>1, <1>7, <2>3 DEF RP!Wanted
<1> QED BY <1>2, <1>5, <1>6, <1>7, RpMovedCases

\* Every transfer of the RH70 is accounted for.
LEMMA RpAccounts == RP!Spec => RP!TransfersAccounted
<1> DEFINE Advances ==
      RP!TransferStarts /\ RP!Addressable(RP!Start(dc, da)) =>
        LET start == RP!Start(dc, da)
            end == start + RP!Moved(start)
        IN /\ start <= end /\ (RP!Moved(start) > 0 => end <= RP!Size)
           /\ RP!Start(dc', da') \in end .. end + RpSectWords - 1
           /\ da'.sect < RpSectors /\ da'.surf < RpSurfaces
           /\ cc' = dc'
           Counts ==
      RP!TransferStarts =>
        LET start == RP!Start(dc, da)
        IN wc' = 0 <=> \/ start + RP!Wanted <= RP!Size
                       \/ wc = 0 /\ start >= RP!Size
<1>1. RP!TypeOK /\ RP!DoneXorBusy /\ [RP!Next]_(RP!vars) => Advances
  BY RpStartsTransfer, RpTransferAdvances
<1>2. RP!TypeOK /\ RP!DoneXorBusy /\ [RP!Next]_(RP!vars) => Counts
  BY RpStartsTransfer, RpTransferCounts
<1> QED BY <1>1, <1>2, RpTyped, RpIdle, PTL
        DEF RP!Spec, RP!TransfersAccounted, RP!AddressAdvances, RP!ShortTransferShows

\* A transfer of the RH70 stays in the image, leaves RPDC and RPDA at the first
\* sector it did not touch, and clears the word count exactly if it was not cut
\* short, but for one of the full count from beyond the image.  This for every
\* geometry and image, and for any surface and sector number a program stores.
THEOREM RpAccounted == DisksSpec => RpTransfersAccounted
BY RpAccounts, RpBehaves, PTL DEF RpTransfersAccounted
=============================================================================
