----------------------------- MODULE Dl11_proofs -----------------------------
(***************************************************************************)
(* The DL11 for every size of the keyboard ring: its registers keep their   *)
(* types, and each half is an edge-latched interrupt source.  Behind either *)
(* frontend, for any number of keystrokes, none is lost without a reason,   *)
(* read twice, or read out of order.  In a dialog, for any script and guest, *)
(* every byte is read by the exchange it answers.                           *)
(***************************************************************************)
EXTENDS Dialog, SequenceTheorems, TLAPS

\* A half requests only while its IE and DONE bits are both set: what makes the
\* refinements inductive.
LatchInv ==
  /\ TypeOK
  /\ rreq => rie /\ rdone
  /\ xreq => xie /\ xdone
  /\ ReadyXorBusy

\* The next slot of the ring is a slot.
LEMMA AfterSlot == \A s \in Slots : After(s) \in Slots
BY RingAssumption DEF Slots, After

\* Reset leaves the receiver idle and the transmitter ready.
LEMMA InitInv == Init => LatchInv
<1> SUFFICES ASSUME Init PROVE LatchInv
  OBVIOUS
<1>1. 0 \in Slots /\ 0 \in Keys
  BY RingAssumption DEF Slots, Keys
<1>2. kbd \in [Slots -> Keys] /\ head \in Slots /\ tail \in Slots
  BY <1>1 DEF Init
<1>3. /\ rdone \in BOOLEAN /\ rie \in BOOLEAN /\ rbuf \in Keys /\ rreq \in BOOLEAN
      /\ xdone \in BOOLEAN /\ xie \in BOOLEAN
      /\ xbusy \in BOOLEAN /\ xreq \in BOOLEAN
  BY <1>1 DEF Init
<1>4. ~rreq /\ ~xreq /\ ReadyXorBusy
  BY DEF Init, ReadyXorBusy
<1> QED BY <1>1, <1>2, <1>3, <1>4 DEF Init, LatchInv, TypeOK

\* A keystroke goes into the ring or is dropped.
LEMMA TypeInv == LatchInv /\ Type => LatchInv'
<1> SUFFICES ASSUME LatchInv, Type PROVE LatchInv'
  OBVIOUS
<1>1. typed' \in Keys
  BY RingAssumption DEF Type, LatchInv, TypeOK, Keys
<1>2. kbd' \in [Slots -> Keys] /\ tail' \in Slots
  BY <1>1, AfterSlot DEF Type, LatchInv, TypeOK
<1>3. full' \subseteq Keys
  BY <1>1 DEF Type, LatchInv, TypeOK
<1> QED BY <1>1, <1>2, <1>3
        DEF Type, LatchInv, TypeOK, ReadyXorBusy, receiver, transmitter

\* Every step preserves the invariant.
LEMMA StepInv == LatchInv /\ [Next]_vars => LatchInv'
<1> SUFFICES ASSUME LatchInv, [Next]_vars PROVE LatchInv'
  OBVIOUS
<1> USE DEF LatchInv, TypeOK, ReadyXorBusy, ring, receiver, transmitter, history
<1>1. CASE Type
  BY <1>1, TypeInv
<1>2. CASE Feed
  BY <1>2, AfterSlot DEF Feed
<1>3. CASE ReadRbuf
  BY <1>3 DEF ReadRbuf
<1>4. CASE WriteXbuf
  BY <1>4 DEF WriteXbuf
<1>5. CASE TxPoll
  BY <1>5 DEF TxPoll
<1>6. ASSUME NEW e \in BOOLEAN, WriteRcsr(e) PROVE LatchInv'
  BY <1>6 DEF WriteRcsr, Requested
<1>7. ASSUME NEW e \in BOOLEAN, WriteXcsr(e) PROVE LatchInv'
  BY <1>7 DEF WriteXcsr, Requested
<1>8. CASE GrantReceiver
  BY <1>8 DEF GrantReceiver
<1>9. CASE GrantTransmitter
  BY <1>9 DEF GrantTransmitter
<1>10. CASE Reset
  BY <1>10 DEF Reset
<1>11. CASE UNCHANGED vars
  BY <1>11 DEF vars
<1> QED BY <1>1, <1>2, <1>3, <1>4, <1>5, <1>6, <1>7, <1>8, <1>9, <1>10, <1>11
        DEF Next

\* Every reachable state satisfies the invariant.
LEMMA InvHolds == Spec => []LatchInv
BY InitInv, StepInv, PTL DEF Spec

\* Every register and every index of the ring keeps its range.
THEOREM TypeCorrect == Spec => []TypeOK
<1>1. LatchInv => TypeOK
  BY DEF LatchInv
<1> QED BY <1>1, InvHolds, PTL

\* The transmitter is ready exactly when no completion is scheduled.
THEOREM TransmitterNeverStuck == Spec => []ReadyXorBusy
<1>1. LatchInv => ReadyXorBusy
  BY DEF LatchInv
<1> QED BY <1>1, InvHolds, PTL

-----------------------------------------------------------------------------
(* The two refinements.                                                     *)

\* Each step of the DL11 is a step of the receiver's latch, or leaves it alone.
LEMMA ReceiverStep ==
  LatchInv /\ LatchInv' /\ [Next]_vars => [ReceiverLatch!Next]_(ReceiverLatch!vars)
<1> SUFFICES ASSUME LatchInv, LatchInv', [Next]_vars
             PROVE  ReceiverLatch!Next \/ UNCHANGED <<rie, rdone, rreq>>
  BY DEF ReceiverLatch!vars
<1> USE DEF ReceiverLatch!Next, ReceiverLatch!Change, ReceiverLatch!Acknowledge,
            ReceiverLatch!Both, ReceiverLatch!Edge, LatchInv, TypeOK, ring, receiver, transmitter
<1>1. CASE Type \/ WriteXbuf \/ TxPoll \/ GrantTransmitter \/ UNCHANGED vars
  BY <1>1 DEF Type, WriteXbuf, TxPoll, GrantTransmitter, vars
<1>2. CASE Feed
  BY <1>2 DEF Feed
<1>3. CASE ReadRbuf
  BY <1>3 DEF ReadRbuf
<1>4. CASE \E e \in BOOLEAN : WriteRcsr(e)
  BY <1>4 DEF WriteRcsr, Requested
<1>5. CASE \E e \in BOOLEAN : WriteXcsr(e)
  BY <1>5 DEF WriteXcsr
<1>6. CASE GrantReceiver
  BY <1>6 DEF GrantReceiver
<1>7. CASE Reset
  BY <1>7 DEF Reset
<1> QED BY <1>1, <1>2, <1>3, <1>4, <1>5, <1>6, <1>7 DEF Next

\* The same for the transmitter's.
LEMMA TransmitterStep ==
  LatchInv /\ LatchInv' /\ [Next]_vars
    => [TransmitterLatch!Next]_(TransmitterLatch!vars)
<1> SUFFICES ASSUME LatchInv, LatchInv', [Next]_vars
             PROVE  TransmitterLatch!Next \/ UNCHANGED <<xie, xdone, xreq>>
  BY DEF TransmitterLatch!vars
<1> USE DEF TransmitterLatch!Next, TransmitterLatch!Change,
            TransmitterLatch!Acknowledge, TransmitterLatch!Both,
            TransmitterLatch!Edge,
            LatchInv, TypeOK, ring, receiver, transmitter
<1>1. CASE Type \/ Feed \/ ReadRbuf \/ GrantReceiver \/ UNCHANGED vars
  BY <1>1 DEF Type, Feed, ReadRbuf, GrantReceiver, vars
<1>2. CASE WriteXbuf
  BY <1>2 DEF WriteXbuf
<1>3. CASE TxPoll
  BY <1>3 DEF TxPoll, ReadyXorBusy
<1>4. CASE \E e \in BOOLEAN : WriteXcsr(e)
  BY <1>4 DEF WriteXcsr, Requested
<1>5. CASE \E e \in BOOLEAN : WriteRcsr(e)
  BY <1>5 DEF WriteRcsr
<1>6. CASE GrantTransmitter
  BY <1>6 DEF GrantTransmitter
<1>7. CASE Reset
  BY <1>7 DEF Reset
<1> QED BY <1>1, <1>2, <1>3, <1>4, <1>5, <1>6, <1>7 DEF Next

\* The receiver is an edge-latched interrupt source, whatever the frontend
\* types and the program stores.
LEMMA ReceiverIsLatch == Spec => ReceiverLatch!Spec
<1>1. Init => ReceiverLatch!Init
  BY DEF Init, ReceiverLatch!Init
<1> QED BY <1>1, ReceiverStep, InvHolds, PTL
        DEF ReceiverLatch!Spec, Spec

\* The transmitter is one, however often it is restarted.
LEMMA TransmitterIsLatch == Spec => TransmitterLatch!Spec
<1>1. Init => TransmitterLatch!Init
  BY DEF Init, TransmitterLatch!Init
<1> QED BY <1>1, TransmitterStep, InvHolds, PTL
        DEF TransmitterLatch!Spec, Spec

\* Both halves of the console are edge-latched interrupt sources.
THEOREM RequestsAreLatches == Spec => LatchesInterrupts
BY ReceiverIsLatch, TransmitterIsLatch, PTL DEF LatchesInterrupts

-----------------------------------------------------------------------------
(* Every keystroke is in one place, and they are read in order.             *)

\* A slot is in use: it lies between head and tail, round the end of the ring.
InUse(s) == IF head <= tail THEN head <= s /\ s < tail ELSE head <= s \/ s < tail

\* How many keystrokes are read before the one in slot s.
Turn(s) == IF head <= s THEN s - head ELSE s - head + RingSize

Gone == received \cup full \cup cleared

KeyTypes ==
  /\ kbd \in [Slots -> Int] /\ head \in Slots /\ tail \in Slots
  /\ rdone \in BOOLEAN /\ rbuf \in Int /\ typed \in Nat

\* What left the console is of one kind, and the receiver holds a key that did not.
GoneOnce ==
  /\ received \subseteq 1 .. typed /\ full \subseteq 1 .. typed /\ cleared \subseteq 1 .. typed
  /\ received \cap full = {} /\ received \cap cleared = {} /\ full \cap cleared = {}
ReceiverNewer ==
  rdone => rbuf \in 1 .. typed /\ rbuf \notin Gone /\ \A k \in received : k < rbuf

\* The ring holds keys that are newer than all of those, in the order of their slots.
RingNewer ==
  \A s \in Slots : InUse(s) =>
    /\ kbd[s] \in 1 .. typed /\ kbd[s] \notin Gone
    /\ rdone => rbuf < kbd[s]
    /\ \A k \in received : k < kbd[s]
RingSorted ==
  \A s, t \in Slots : InUse(s) /\ InUse(t) /\ Turn(s) < Turn(t) => kbd[s] < kbd[t]

NoneMissing ==
  \A k \in 1 .. typed :
    k \in Gone \/ (rdone /\ k = rbuf) \/ \E s \in Slots : InUse(s) /\ kbd[s] = k

\* The keys in the ring are sorted and newer than the one in the receiver, which is
\* newer than all that were read: without the order "none is read twice" and "in
\* order" are not inductive.
KeyInv ==
  KeyTypes /\ GoneOnce /\ ReceiverNewer /\ RingNewer /\ RingSorted /\ NoneMissing

\* The next slot, with the wrap written out.
LEMMA AfterIs ==
  ASSUME NEW s \in Slots
  PROVE  /\ After(s) = IF s = RingSize - 1 THEN 0 ELSE s + 1
         /\ After(s) \in Slots
<1>1. \A n \in Nat \ {0} : n % n = 0 /\ \A x \in 0 .. n - 1 : x % n = x
  OBVIOUS
<1> QED BY <1>1, RingAssumption DEF After, Slots

\* Remainders of the numbers that occur as positions in the ring.
LEMMA RingRemainder ==
  ASSUME NEW x \in Int
  PROVE  /\ 0 <= x /\ x < RingSize => x % RingSize = x
         /\ RingSize <= x /\ x < 2 * RingSize => x % RingSize = x - RingSize
         /\ -RingSize <= x /\ x < 0 => x % RingSize = x + RingSize
<1>1. \A m \in Nat \ {0}, y \in Int :
        /\ 0 <= y /\ y < m => y % m = y
        /\ m <= y /\ y < 2 * m => y % m = y - m
        /\ -m <= y /\ y < 0 => y % m = y + m
  OBVIOUS
<1> QED BY ONLY <1>1, RingAssumption, Zenon

\* The slots of Queued are those in use.
LEMMA QueuedIsInUse ==
  ASSUME KeyTypes
  PROVE  Queued = {s \in Slots : InUse(s)}
<1> DEFINE n == (tail - head) % RingSize
<1>1. RingSize \in Nat /\ head \in 0 .. RingSize - 1 /\ tail \in 0 .. RingSize - 1
  BY RingAssumption DEF KeyTypes, Slots
<1>2. n = IF head <= tail THEN tail - head ELSE tail - head + RingSize
  <2>1. tail - head \in Int /\ -RingSize <= tail - head /\ tail - head < RingSize
    BY <1>1
  <2>2. tail - head >= 0 <=> head <= tail
    BY <1>1
  <2> QED BY <2>1, <2>2, <1>1, RingRemainder
<1>3. ASSUME NEW i \in 0 .. n - 1
      PROVE  (head + i) % RingSize \in Slots /\ InUse((head + i) % RingSize)
  <2>1. i \in Int /\ 0 <= i /\ i < n
    BY <1>1, <1>2
  <2>2. head + i \in Int /\ 0 <= head + i /\ head + i < 2 * RingSize
    BY <1>1, <1>2, <2>1
  <2>3. (head + i) % RingSize = IF head + i < RingSize THEN head + i ELSE head + i - RingSize
    BY <1>1, <2>2, RingRemainder
  <2> HIDE DEF n
  <2> QED BY <1>1, <1>2, <2>1, <2>3 DEF Slots, InUse
<1>4. ASSUME NEW s \in Slots, InUse(s)
      PROVE  \E i \in 0 .. n - 1 : s = (head + i) % RingSize
  <2>1. Turn(s) \in 0 .. n - 1
    <3> HIDE DEF n
    <3> QED BY <1>1, <1>2, <1>4 DEF Slots, InUse, Turn
  <2>2. (head + Turn(s)) % RingSize = s
    <3>1. head + Turn(s) = IF head <= s THEN s ELSE s + RingSize
      BY <1>1 DEF Slots, Turn
    <3>2. s \in Int /\ 0 <= s /\ s < RingSize /\ s + RingSize \in Int
      BY <1>1 DEF Slots
    <3> QED BY <1>1, <3>1, <3>2, RingRemainder
  <2> QED BY <2>1, <2>2
<1> QED BY <1>3, <1>4 DEF Queued

\* What the invariant says of the places a key can be in.
LEMMA KeysAccounted == KeyInv => EveryKeyAccounted
<1> SUFFICES ASSUME KeyInv PROVE EveryKeyAccounted
  OBVIOUS
<1> DEFINE place == <<Waiting, InReceiver, received, full, cleared>>
<1>1. Waiting = {kbd[s] : s \in {t \in Slots : InUse(t)}}
  BY QueuedIsInUse DEF KeyInv, Waiting
<1>2. \A k : k \in Waiting <=> \E s \in Slots : InUse(s) /\ kbd[s] = k
  BY <1>1
<1>3. \A k : k \in InReceiver <=> rdone /\ k = rbuf
  BY DEF InReceiver
<1>4. Waiting \cup InReceiver \cup received \cup full \cup cleared = 1 .. typed
  <2>1. \A k \in Waiting \cup InReceiver \cup Gone : k \in 1 .. typed
    BY <1>2, <1>3 DEF KeyInv, RingNewer, ReceiverNewer, GoneOnce, Gone
  <2>2. \A k \in 1 .. typed : k \in Waiting \cup InReceiver \cup Gone
    BY <1>2, <1>3 DEF KeyInv, NoneMissing
  <2> QED BY <2>1, <2>2 DEF Gone
<1>5. UNION {place[i] : i \in 1 .. 5} = 1 .. typed
  <2>1. \A i \in 1 .. 5 : i = 1 \/ i = 2 \/ i = 3 \/ i = 4 \/ i = 5
    OBVIOUS
  <2>2. {place[i] : i \in 1 .. 5} = {Waiting, InReceiver, received, full, cleared}
    BY <2>1
  <2> QED BY <1>4, <2>2
<1>6. Waiting \cap InReceiver = {}
  BY <1>2, <1>3 DEF KeyInv, KeyTypes, RingNewer
<1>7. Waiting \cap Gone = {} /\ InReceiver \cap Gone = {}
  BY <1>2, <1>3 DEF KeyInv, RingNewer, ReceiverNewer
<1>8. ASSUME NEW i \in 1 .. 5, NEW j \in 1 .. 5, i # j
      PROVE  place[i] \cap place[j] = {}
  <2>1. /\ Waiting \cap InReceiver = {} /\ Waiting \cap received = {}
        /\ Waiting \cap full = {} /\ Waiting \cap cleared = {}
        /\ InReceiver \cap received = {} /\ InReceiver \cap full = {}
        /\ InReceiver \cap cleared = {}
    BY <1>6, <1>7 DEF Gone
  <2>2. received \cap full = {} /\ received \cap cleared = {} /\ full \cap cleared = {}
    BY DEF KeyInv, GoneOnce
  <2>3. /\ place[1] = Waiting /\ place[2] = InReceiver /\ place[3] = received
        /\ place[4] = full /\ place[5] = cleared
    OBVIOUS
  <2>4. \A k \in 1 .. 5 : k = 1 \/ k = 2 \/ k = 3 \/ k = 4 \/ k = 5
    OBVIOUS
  <2>5. i < j \/ j < i
    BY <1>8
  <2> HIDE DEF place
  <2>6. \A k, l \in 1 .. 5 : k < l => place[k] \cap place[l] = {}
    BY <2>1, <2>2, <2>3, <2>4
  <2> QED BY <2>5, <2>6
<1> QED BY <1>5, <1>8 DEF EveryKeyAccounted

\* Nothing typed yet.
LEMMA KeyInit == Init => KeyInv
<1> SUFFICES ASSUME Init PROVE KeyInv
  OBVIOUS
<1>1. 0 \in Slots
  BY RingAssumption DEF Slots
<1>2. \A s \in Slots : ~InUse(s)
  BY DEF Init, InUse, Slots
<1>3. KeyTypes
  <2>1. kbd \in [Slots -> Int]
    BY DEF Init
  <2> QED BY <1>1, <2>1 DEF Init, KeyTypes
<1>4. RingNewer /\ RingSorted
  BY <1>2 DEF RingNewer, RingSorted
<1> QED BY <1>3, <1>4 DEF Init, KeyInv, GoneOnce, ReceiverNewer, NoneMissing

\* A keystroke joins the ring as its newest, or is dropped.
LEMMA TypeKeepsKeys == KeyInv /\ Type => KeyInv'
<1> SUFFICES ASSUME KeyInv, Type PROVE KeyInv'
  OBVIOUS
<1> USE DEF KeyInv, KeyTypes
<1>1. CASE After(tail) = head
  <2>1. /\ typed' = typed + 1 /\ full' = full \cup {typed + 1}
        /\ UNCHANGED <<kbd, tail, head, rdone, rbuf, received, cleared>>
    BY <1>1 DEF Type, receiver
  <2>2. \A s : InUse(s)' = InUse(s) /\ Turn(s)' = Turn(s)
    BY <2>1 DEF InUse, Turn
  <2>3. GoneOnce' /\ ReceiverNewer'
    BY <2>1 DEF GoneOnce, ReceiverNewer, Gone
  <2>4. RingNewer' /\ RingSorted'
    BY <2>1, <2>2 DEF RingNewer, RingSorted, Gone
  <2>5. NoneMissing'
    BY <2>1, <2>2 DEF NoneMissing, Gone
  <2> QED BY <2>1, <2>3, <2>4, <2>5
<1>2. CASE After(tail) # head
  <2>1. /\ typed' = typed + 1 /\ kbd' = [kbd EXCEPT ![tail] = typed + 1] /\ tail' = After(tail)
        /\ UNCHANGED <<head, rdone, rbuf, received, full, cleared>>
    BY <1>2 DEF Type, receiver
  <2>2. ASSUME NEW s \in Slots
        PROVE  InUse(s)' <=> InUse(s) \/ s = tail
    <3>1. tail' = IF tail = RingSize - 1 THEN 0 ELSE tail + 1
      BY <2>1, AfterIs
    <3> QED BY <1>2, <2>1, <3>1, RingAssumption DEF InUse, Slots
  <2>3. ~InUse(tail)
    BY DEF InUse, Slots
  <2>4. ASSUME NEW s \in Slots
        PROVE  kbd'[s] = IF s = tail THEN typed + 1 ELSE kbd[s]
    BY <2>1
  <2>5. ASSUME NEW s \in Slots, InUse(s)
        PROVE  Turn(s) < Turn(tail)
    BY <2>5, RingAssumption DEF InUse, Turn, Slots
  <2>6. \A s : Turn(s)' = Turn(s)
    BY <2>1 DEF Turn
  <2>7. KeyTypes'
    BY <2>1, AfterIs
  <2>8. GoneOnce' /\ ReceiverNewer'
    BY <2>1 DEF GoneOnce, ReceiverNewer, Gone
  <2>9. RingNewer'
    BY <2>1, <2>2, <2>4 DEF RingNewer, GoneOnce, ReceiverNewer, Gone
  <2>10. RingSorted'
    <3> SUFFICES ASSUME NEW s \in Slots, NEW t \in Slots, InUse(s)', InUse(t)', Turn(s) < Turn(t)
                 PROVE  kbd'[s] < kbd'[t]
      BY <2>6 DEF RingSorted
    <3>1. CASE t = tail /\ s # tail
      BY <2>2, <2>4, <3>1 DEF RingNewer
    <3>2. CASE t # tail /\ s # tail
      BY <2>2, <2>4, <3>2 DEF RingSorted
    <3>3. CASE s = tail
      <4>1. Turn(t) \in Int /\ Turn(s) \in Int
        BY RingAssumption DEF Turn, Slots
      <4> QED BY <2>2, <2>5, <3>3, <4>1
    <3> QED BY <3>1, <3>2, <3>3
  <2>11. NoneMissing'
    <3> SUFFICES ASSUME NEW k \in 1 .. typed + 1, k \notin Gone, ~(rdone /\ k = rbuf)
                 PROVE  \E s \in Slots : InUse(s)' /\ kbd'[s] = k
      BY <2>1 DEF NoneMissing, Gone
    <3>1. CASE k = typed + 1
      BY <2>2, <2>4, <3>1
    <3>2. CASE k # typed + 1
      BY <2>2, <2>3, <2>4, <3>2 DEF NoneMissing
    <3> QED BY <3>1, <3>2
  <2> QED BY <2>7, <2>8, <2>9, <2>10, <2>11
<1> QED BY <1>1, <1>2

\* The oldest key of the ring moves to the receiver.
LEMMA FeedKeepsKeys == KeyInv /\ Feed => KeyInv'
<1> SUFFICES ASSUME KeyInv, Feed PROVE KeyInv'
  OBVIOUS
<1> USE DEF KeyInv, KeyTypes
<1>1. /\ head # tail /\ ~rdone
      /\ rbuf' = kbd[head] /\ rdone' = TRUE /\ head' = After(head)
      /\ UNCHANGED <<kbd, tail, typed, received, full, cleared>>
  BY DEF Feed, history
<1>2. InUse(head)
  BY <1>1 DEF InUse, Slots
<1>11. head' = IF head = RingSize - 1 THEN 0 ELSE head + 1
  BY <1>1, AfterIs
<1>3. ASSUME NEW s \in Slots
      PROVE  InUse(s)' <=> InUse(s) /\ s # head
  BY <1>1, <1>11, RingAssumption DEF InUse, Slots
<1>4. ASSUME NEW s \in Slots, NEW t \in Slots, s # head, t # head
      PROVE  (Turn(s) < Turn(t))' <=> Turn(s) < Turn(t)
  BY <1>1, <1>11, <1>4, RingAssumption DEF Turn, Slots
<1>5. ASSUME NEW s \in Slots, s # head
      PROVE  Turn(head) < Turn(s)
  BY <1>5, RingAssumption DEF Turn, Slots
<1>6. KeyTypes'
  BY <1>1, AfterIs
<1>7. GoneOnce' /\ ReceiverNewer'
  BY <1>1, <1>2 DEF GoneOnce, ReceiverNewer, RingNewer, Gone
<1>8. RingNewer'
  BY <1>1, <1>2, <1>3, <1>5 DEF RingNewer, RingSorted, Gone
<1>9. RingSorted'
  BY <1>1, <1>3, <1>4 DEF RingSorted
<1>10. NoneMissing'
  BY <1>1, <1>3 DEF NoneMissing, Gone
<1> QED BY <1>6, <1>7, <1>8, <1>9, <1>10

\* The program reads the key in the receiver, the oldest there is.
LEMMA ReadKeepsKeys == KeyInv /\ ReadRbuf => KeyInv'
<1> SUFFICES ASSUME KeyInv, ReadRbuf PROVE KeyInv'
  OBVIOUS
<1> USE DEF KeyInv, KeyTypes
<1>1. /\ received' = IF rdone THEN received \cup {rbuf} ELSE received
      /\ rdone' = FALSE
      /\ UNCHANGED <<kbd, head, tail, rbuf, typed, full, cleared>>
  BY DEF ReadRbuf, ring
<1>2. \A s : InUse(s)' = InUse(s) /\ Turn(s)' = Turn(s)
  BY <1>1 DEF InUse, Turn
<1>3. GoneOnce' /\ ReceiverNewer'
  BY <1>1 DEF GoneOnce, ReceiverNewer, Gone
<1>4. RingNewer' /\ RingSorted'
  BY <1>1, <1>2 DEF RingNewer, RingSorted, Gone
<1>5. NoneMissing'
  BY <1>1, <1>2 DEF NoneMissing, Gone
<1> QED BY <1>1, <1>3, <1>4, <1>5

\* RESET forgets the key in the receiver.
LEMMA ResetKeepsKeys == KeyInv /\ Reset => KeyInv'
<1> SUFFICES ASSUME KeyInv, Reset PROVE KeyInv'
  OBVIOUS
<1> USE DEF KeyInv, KeyTypes
<1>1. /\ cleared' = IF rdone THEN cleared \cup {rbuf} ELSE cleared
      /\ rdone' = FALSE
      /\ UNCHANGED <<kbd, head, tail, rbuf, typed, received, full>>
  BY DEF Reset, ring
<1>2. \A s : InUse(s)' = InUse(s) /\ Turn(s)' = Turn(s)
  BY <1>1 DEF InUse, Turn
<1>3. GoneOnce' /\ ReceiverNewer'
  BY <1>1 DEF GoneOnce, ReceiverNewer, Gone
<1>4. RingNewer' /\ RingSorted'
  BY <1>1, <1>2 DEF RingNewer, RingSorted, Gone
<1>5. NoneMissing'
  BY <1>1, <1>2 DEF NoneMissing, Gone
<1> QED BY <1>1, <1>3, <1>4, <1>5

\* The headless frontend hands the receiver a byte: no ring stands in between.
Delivered == Deliver /\ ~rdone /\ head = tail

\* Such a byte is newer than all that were read.
LEMMA DeliveredKeepsKeys == KeyInv /\ Delivered => KeyInv'
<1> SUFFICES ASSUME KeyInv, Delivered PROVE KeyInv'
  OBVIOUS
<1> USE DEF KeyInv, KeyTypes
<1>1. /\ typed' = typed + 1 /\ rbuf' = typed + 1 /\ rdone' = TRUE
      /\ UNCHANGED <<kbd, head, tail, received, full, cleared>>
  BY DEF Delivered, Deliver, ring
<1>2. \A s \in Slots : ~InUse(s) /\ ~InUse(s)'
  BY <1>1 DEF InUse, Delivered, Slots
<1>3. GoneOnce' /\ ReceiverNewer'
  BY <1>1 DEF GoneOnce, ReceiverNewer, Gone
<1>4. RingNewer' /\ RingSorted'
  BY <1>1, <1>2 DEF RingNewer, RingSorted
<1>5. NoneMissing'
  BY <1>1, <1>2 DEF NoneMissing, Gone, Delivered
<1> QED BY <1>1, <1>3, <1>4, <1>5

KeysUnchanged == UNCHANGED <<ring, rdone, rbuf, history>>

\* Nothing else moves a key.
LEMMA UnchangedKeepsKeys == KeyInv /\ KeysUnchanged => KeyInv'
<1> SUFFICES ASSUME KeyInv, KeysUnchanged PROVE KeyInv'
  OBVIOUS
<1>1. UNCHANGED <<kbd, head, tail, rdone, rbuf, typed, received, full, cleared>>
  BY DEF KeysUnchanged, ring, history
<1>2. \A s : InUse(s)' = InUse(s) /\ Turn(s)' = Turn(s)
  BY <1>1 DEF InUse, Turn
<1>3. RingNewer' /\ RingSorted' /\ NoneMissing'
  BY <1>1, <1>2 DEF KeyInv, RingNewer, RingSorted, NoneMissing, Gone
<1> QED BY <1>1, <1>3 DEF KeyInv, KeyTypes, GoneOnce, ReceiverNewer, Gone

\* What a step may do with the keys.
KeyStep == Type \/ Feed \/ ReadRbuf \/ Reset \/ Delivered \/ KeysUnchanged

\* Whichever it does, the invariant survives.
LEMMA KeyStepKeeps == KeyInv /\ KeyStep => KeyInv'
BY TypeKeepsKeys, FeedKeepsKeys, ReadKeepsKeys, ResetKeepsKeys, DeliveredKeepsKeys,
   UnchangedKeepsKeys DEF KeyStep

\* A key that is read is the one in the receiver, newer than all that were read.
LEMMA KeyStepOrdered ==
  KeyInv /\ KeyStep => \A k \in received' \ received : \A j \in received : j < k
<1> SUFFICES ASSUME KeyInv, KeyStep
             PROVE  received' = received \/ (rdone /\ received' = received \cup {rbuf})
  BY DEF KeyInv, ReceiverNewer
<1> QED BY DEF KeyStep, Type, Feed, ReadRbuf, Reset, Delivered, Deliver, KeysUnchanged, history

\* Under the graphical frontend.
LEMMA SdlSteps == [Next]_vars => KeyStep
<1> SUFFICES ASSUME [Next]_vars, ~Type, ~Feed, ~ReadRbuf, ~Reset PROVE KeysUnchanged
  BY DEF KeyStep
<1> USE DEF KeysUnchanged, receiver
<1>1. CASE WriteXbuf \/ TxPoll \/ GrantReceiver \/ GrantTransmitter
  BY <1>1 DEF WriteXbuf, TxPoll, GrantReceiver, GrantTransmitter
<1>2. CASE \E e \in BOOLEAN : WriteRcsr(e) \/ WriteXcsr(e)
  BY <1>2 DEF WriteRcsr, WriteXcsr
<1>3. CASE UNCHANGED vars
  BY <1>3 DEF vars
<1> QED BY <1>1, <1>2, <1>3 DEF Next

\* The headless frontend leaves the ring empty.
RingUnused == frontend # "sdl" => head = tail

\* Under either.
LEMMA DialogSteps == RingUnused /\ [DialogNext]_dvars => KeyStep /\ RingUnused'
<1> SUFFICES ASSUME RingUnused, [DialogNext]_dvars PROVE KeyStep /\ RingUnused'
  OBVIOUS
<1>1. CASE UNCHANGED dvars
  BY <1>1 DEF dvars, vars, headless, ring, receiver, history, KeyStep, KeysUnchanged, RingUnused
<1>2. CASE frontend = "sdl" /\ Next /\ UNCHANGED <<frontend, headless>>
  BY <1>2, SdlSteps DEF RingUnused
<1>3. CASE HeadlessNext
  <2>1. /\ frontend # "sdl" /\ UNCHANGED <<frontend, ring>>
        /\ ReadRbuf \/ Delivered \/ KeysUnchanged
    <3> USE <1>3 DEF RingUnused, Guest, Untouched, Input, vars, KeysUnchanged
    <3>1. CASE PrintNext
      BY <3>1 DEF PrintNext, WriteXbuf, receiver
    <3>2. CASE PollTransmitter
      BY <3>2 DEF PollTransmitter, TxPoll, receiver
    <3>3. CASE Arm
      BY <3>3 DEF Arm, ReadRbuf, receiver
    <3>4. CASE Read
      BY <3>4 DEF Read, ReadRbuf, receiver
    <3>5. CASE Proceed \/ Hold \/ MatchPrompt
      BY <3>5 DEF Proceed, Hold, MatchPrompt, receiver
    <3>6. CASE FeedScript
      BY <3>6 DEF FeedScript, Delivered, Deliver
    <3>7. CASE TypeReply
      BY <3>7 DEF TypeReply, Delivered, Deliver, receiver
    <3> QED BY <3>1, <3>2, <3>3, <3>4, <3>5, <3>6, <3>7 DEF HeadlessNext
  <2> QED BY <2>1 DEF KeyStep, RingUnused, ring
<1>4. CASE ReachLimit
  BY <1>4 DEF ReachLimit, vars, ring, receiver, history, KeyStep, KeysUnchanged, RingUnused
<1> QED BY <1>1, <1>2, <1>3, <1>4 DEF DialogNext

\* Every reachable state satisfies the invariant, behind either frontend.
LEMMA DialogKeys == DialogSpec => [](KeyInv /\ RingUnused)
<1>1. DialogInit => KeyInv /\ RingUnused
  BY KeyInit DEF DialogInit, Init, RingUnused
<1>2. (KeyInv /\ RingUnused) /\ [DialogNext]_dvars => (KeyInv /\ RingUnused)'
  BY DialogSteps, KeyStepKeeps
<1> QED BY <1>1, <1>2, PTL DEF DialogSpec

\* The same for the graphical frontend alone.
LEMMA SdlKeys == Spec => []KeyInv
<1>1. KeyInv /\ [Next]_vars => KeyInv'
  BY SdlSteps, KeyStepKeeps
<1> QED BY <1>1, KeyInit, PTL DEF Spec

\* Under either frontend, and for any number of keystrokes, each is in exactly one
\* place: the ring, the receiver, the program, or lost for one of the two reasons
\* (KBD_PUSH on a full ring, RESET with DONE set).
THEOREM KeystrokesAccounted ==
  (Spec => []EveryKeyAccounted) /\ (DialogSpec => []EveryKeyAccounted)
<1>1. Spec => []EveryKeyAccounted
  BY SdlKeys, KeysAccounted, PTL
<1>2. DialogSpec => []EveryKeyAccounted
  BY DialogKeys, KeysAccounted, PTL
<1> QED BY <1>1, <1>2

\* Under either frontend the program reads them in the order they were typed
\* (pdp11_console_input through RBUF).
THEOREM KeystrokesInOrder == (Spec => ReadInOrder) /\ (DialogSpec => ReadInOrder)
<1> DEFINE Ordered == \A k \in received' \ received : \A j \in received : j < k
<1>1. KeyInv /\ [Next]_vars => [Ordered]_vars
  BY SdlSteps, KeyStepOrdered
<1>2. KeyInv /\ RingUnused /\ [DialogNext]_dvars => [Ordered]_vars
  BY DialogSteps, KeyStepOrdered
<1>3. Spec => ReadInOrder
  BY <1>1, SdlKeys, PTL DEF Spec, ReadInOrder
<1>4. DialogSpec => ReadInOrder
  BY <1>2, DialogKeys, PTL DEF DialogSpec, ReadInOrder
<1> QED BY <1>3, <1>4

-----------------------------------------------------------------------------
(* The dialog.                                                              *)

\* The tail holds the last of the first p characters of text, as many as it can.
Shows(p, text) ==
  /\ p \in 0..Len(text)
  /\ Len(output) <= p /\ (Len(output) = p \/ Len(output) = TailSize)
  /\ \A i \in 1..Len(output) : output[i] = text[p - Len(output) + i]

DialogTypes ==
  /\ turn \in {"step", "input"} /\ rdone \in BOOLEAN
  /\ output \in Seq(Character) /\ Len(output) <= TailSize
  /\ cur \in 0..ExchangeCount /\ pend \in Nat /\ wait \in Nat /\ script = 0 /\ lost = {}
  /\ guest \in [at : 1..ExchangeCount, does : {"print", "arm", "read", "halt"},
                text : Seq(Character), left : Nat, next : {"arm", "read"}]

\* The conversation of exchange at, chatter c, of which text is still to be printed.
PrintingPrompt(c, text) ==
  LET whole == Conversation(guest.at, c)
      p == Len(whole) - Len(text)
  IN  /\ Shows(p, whole)
      /\ \A i \in 1..Len(text) : text[i] = whole[p + i]

\* Exchange at has not been recognised yet: its prompt is being printed.
Prompting ==
  /\ cur = guest.at - 1 /\ pend = 0 /\ ~rdone
  /\ guest.does = "print" /\ guest.next = "arm" /\ guest.text # <<>>
  /\ \E c \in Chatter : PrintingPrompt(c, guest.text)

\* The prompt is complete, and the loop is about to look at it.
Prompted ==
  /\ cur = guest.at - 1 /\ pend = 0 /\ ~rdone
  /\ guest.does = "arm" /\ guest.left = ReadLatency /\ turn = "input"
  /\ \E c \in Chatter : PrintingPrompt(c, <<>>)

\* It has been recognised, and the guest will be reading before the reply comes.
Arming ==
  /\ cur = guest.at /\ pend = Steps[cur].send /\ ~rdone
  /\ guest.does = "arm" /\ wait > guest.left /\ output = <<>>

\* The guest reads: what it lacks is queued or in the receiver, and the tail holds
\* the echo of what it has read.
Reading ==
  LET printing == IF guest.does = "print" THEN 1 ELSE 0
      shown == Steps[cur].send - guest.left - printing
  IN  /\ cur = guest.at /\ pend + (IF rdone THEN 1 ELSE 0) = guest.left
      /\ \/ guest.does = "read"
         \/ guest.does = "print" /\ guest.text = <<"e">> /\ guest.next = "read"
      /\ shown >= 0 /\ Shows(shown, Echoed(cur + 1))

Halted == cur = guest.at /\ cur = ExchangeCount /\ pend = 0 /\ ~rdone /\ guest.does = "halt"

DialogInv ==
  frontend = "dialog" =>
    DialogTypes /\ (Prompting \/ Prompted \/ Arming \/ Reading \/ Halted)

\* A function on an initial interval is a sequence of that length.
LEMMA FunctionIsSeq ==
  ASSUME NEW S, NEW n \in Nat, NEW f \in [1..n -> S]
  PROVE  f \in Seq(S) /\ Len(f) = n
<1>1. f \in Seq(S)
  <2>1. Seq(S) = UNION {[1..m -> S] : m \in Nat}
    BY SeqDef, Zenon
  <2>2. [1..n -> S] \in {[1..m -> S] : m \in Nat}
    BY Zenon
  <2> QED BY <2>1, <2>2, Zenon
<1>2. DOMAIN f = 1..n /\ DOMAIN f = 1..Len(f) /\ Len(f) \in Nat
  BY <1>1, LenProperties
<1>3. \A k \in Int : k \in 1..n <=> k \in 1..Len(f)
  BY <1>2
<1>4. (n \in 1..n <=> n \in 1..Len(f)) /\ (Len(f) \in 1..n <=> Len(f) \in 1..Len(f))
  BY <1>2, <1>3
<1> QED BY <1>1, <1>2, <1>4

\* What a suffix is, character by character.
LEMMA SuffixMeans ==
  ASSUME NEW s \in Seq(Character), NEW t \in Seq(Character)
  PROVE  IsSuffix(s, t) <=>
           Len(s) <= Len(t) /\ \A i \in 1..Len(s) : s[i] = t[Len(t) - Len(s) + i]
<1> DEFINE rs == [i \in 1..Len(s) |-> s[(Len(s) - i) + 1]]
           rt == [i \in 1..Len(t) |-> t[(Len(t) - i) + 1]]
<1>1. Len(s) \in Nat /\ Len(t) \in Nat
  OBVIOUS
<1>2. rs \in Seq(Character) /\ rt \in Seq(Character) /\ Len(rs) = Len(s) /\ Len(rt) = Len(t)
  <2>1. rs \in [1..Len(s) -> Character] /\ rt \in [1..Len(t) -> Character]
    OBVIOUS
  <2> HIDE DEF rs, rt
  <2> QED BY <2>1, <1>1, FunctionIsSeq
<1>3. IsSuffix(s, t) <=> Len(rs) <= Len(rt) /\ SubSeq(rs, 1, Len(rs)) = SubSeq(rt, 1, Len(rs))
  BY DEF IsSuffix, IsPrefix, Reverse
<1>4. \A i \in 1..Len(s) : rs[i] = s[(Len(s) - i) + 1]
  OBVIOUS
<1>5. \A i \in 1..Len(t) : rt[i] = t[(Len(t) - i) + 1]
  OBVIOUS
<1> HIDE DEF rs, rt
<1>6. ASSUME Len(s) <= Len(t)
      PROVE  SubSeq(rs, 1, Len(rs)) = SubSeq(rt, 1, Len(rs))
               <=> \A i \in 1..Len(s) : rs[i] = rt[i]
  BY <1>1, <1>2, <1>6
<1>7. ASSUME Len(s) <= Len(t)
      PROVE  (\A i \in 1..Len(s) : rs[i] = rt[i])
               <=> \A i \in 1..Len(s) : s[i] = t[Len(t) - Len(s) + i]
  <2>1. ASSUME \A i \in 1..Len(s) : rs[i] = rt[i], NEW i \in 1..Len(s)
        PROVE  s[i] = t[Len(t) - Len(s) + i]
    <3> DEFINE j == Len(s) - i + 1
    <3>1. j \in 1..Len(s) /\ j \in 1..Len(t)
      BY <1>1, <1>7
    <3>2. Len(s) - j + 1 = i /\ Len(t) - j + 1 = Len(t) - Len(s) + i
      BY <1>1
    <3> HIDE DEF j
    <3> QED BY <2>1, <3>1, <3>2, <1>4, <1>5
  <2>2. ASSUME \A i \in 1..Len(s) : s[i] = t[Len(t) - Len(s) + i], NEW i \in 1..Len(s)
        PROVE  rs[i] = rt[i]
    <3> DEFINE j == Len(s) - i + 1
    <3>1. j \in 1..Len(s) /\ i \in 1..Len(t) /\ Len(t) - Len(s) + j = Len(t) - i + 1
      BY <1>1, <1>7
    <3>2. rs[i] = s[j] /\ rt[i] = t[Len(t) - Len(s) + j]
      BY <1>4, <1>5, <3>1
    <3> HIDE DEF j
    <3> QED BY <2>2, <3>1, <3>2
  <2> QED BY <2>1, <2>2
<1> QED BY <1>2, <1>3, <1>6, <1>7

\* A conversation ends with its prompt, which is not empty.
LEMMA ConversationShape ==
  ASSUME NEW n \in 1..ExchangeCount, NEW c \in Chatter
  PROVE  LET text == Conversation(n, c)
             e == Steps[n].expect
         IN  /\ text \in Seq(Character) /\ e \in Seq(Character) /\ Len(e) \in 1..TailSize
             /\ Len(e) <= Len(text)
             /\ \A i \in 1..Len(e) : text[Len(text) - Len(e) + i] = e[i]
<1> DEFINE e == Steps[n].expect
           echo == Echoed(n)
<1>1. /\ Steps \in Seq([expect : Seq(Character), send : Nat]) /\ c \in Seq(Character)
      /\ Len(e) \in 1..TailSize
  BY DialogAssumption DEF ExchangeCount
<1>2. e \in Seq(Character)
  <2>1. Steps[n] \in [expect : Seq(Character), send : Nat]
    BY <1>1, ElementOfSeq DEF ExchangeCount
  <2> QED BY <2>1
<1>3. echo \in Seq(Character)
  <2>1. (IF n = 1 THEN 0 ELSE Steps[n - 1].send) \in Nat
    <3>1. CASE n = 1
      BY <3>1
    <3>2. CASE n # 1
      <4>1. n - 1 \in 1..Len(Steps)
        BY <3>2, <1>1 DEF ExchangeCount
      <4>2. Steps[n - 1] \in [expect : Seq(Character), send : Nat]
        BY <1>1, <4>1, ElementOfSeq
      <4> QED BY <4>2, <3>2
    <3> QED BY <3>1, <3>2
  <2>2. PICK k \in Nat : k = (IF n = 1 THEN 0 ELSE Steps[n - 1].send)
    BY <2>1
  <2>3. echo = [i \in 1..k |-> "e"]
    BY <2>2 DEF Echoed
  <2>4. "e" \in Character
    BY DEF Character
  <2>5. [i \in 1..k |-> "e"] \in [1..k -> Character]
    BY <2>4, Zenon
  <2> QED BY <2>2, <2>3, <2>5, FunctionIsSeq
<1>4. Conversation(n, c) = (echo \o c) \o e
  BY DEF Conversation
<1> HIDE DEF e, echo
<1>5. PICK pre \in Seq(Character) : pre = echo \o c
  BY <1>1, <1>3, ConcatProperties
<1>6. /\ pre \o e \in Seq(Character) /\ Len(pre \o e) = Len(pre) + Len(e)
      /\ \A i \in 1..Len(e) : (pre \o e)[Len(pre) + i] = e[i]
  BY <1>2
<1>7. Len(pre) \in Nat /\ Len(e) \in Nat
  BY <1>2
<1>8. /\ Conversation(n, c) \in Seq(Character) /\ Len(e) <= Len(Conversation(n, c))
      /\ Len(Conversation(n, c)) - Len(e) = Len(pre)
  BY <1>4, <1>5, <1>6, <1>7
<1>9. \A i \in 1..Len(e) : Conversation(n, c)[Len(Conversation(n, c)) - Len(e) + i] = e[i]
  BY <1>4, <1>5, <1>6, <1>8
<1> QED BY <1>1, <1>2, <1>8, <1>9 DEF e

\* A prompt is not recognised before it is complete.
LEMMA NotYet ==
  ASSUME NEW n \in 1..ExchangeCount, NEW c \in Chatter, NEW p \in Nat,
         p < Len(Conversation(n, c)), output \in Seq(Character),
         Shows(p, Conversation(n, c))
  PROVE  ~tail_ends_with(Steps[n].expect)
<1> DEFINE text == Conversation(n, c)
           e == Steps[n].expect
<1> SUFFICES ASSUME e # <<>>, IsSuffix(e, output) PROVE FALSE
  BY DEF tail_ends_with
<1>1. text \in Seq(Character) /\ e \in Seq(Character) /\ Len(e) \in 1..TailSize /\ TailSize \in Nat
  BY ConversationShape, DialogAssumption
<1>2. Len(text) \in Nat /\ Len(e) \in Nat /\ Len(output) \in Nat
  BY <1>1, LenProperties
<1>3. Len(output) <= p /\ \A i \in 1..Len(output) : output[i] = text[p - Len(output) + i]
  BY DEF Shows
<1> HIDE DEF text, e
<1>4. Len(e) <= Len(output) /\ \A i \in 1..Len(e) : e[i] = output[Len(output) - Len(e) + i]
  BY <1>1, SuffixMeans
<1>5. p \in 1..(Len(text) - 1)
  <2>1. p < Len(text)
    BY DEF text
  <2> QED BY <2>1, <1>1, <1>2, <1>3, <1>4
<1> DEFINE shown == SubSeq(text, 1, p)
<1>6. /\ shown \in Seq(Character) /\ Len(shown) = p
      /\ \A i \in 1..p : shown[i] = text[i]
  <2>1. \A i \in 1..p : text[i] \in Character
    BY <1>1, <1>2, <1>5, ElementOfSeq
  <2> QED BY <2>1, <1>5, SubSeqProperties
<1>7. ~IsSuffix(e, shown)
  <2>1. ~IsSuffix(Steps[n].expect, SubSeq(Conversation(n, c), 1, p))
    BY <1>5, DialogAssumption, Zenon DEF text
  <2> QED BY <2>1, Zenon DEF text, e
<1> HIDE DEF shown
<1>8. IsSuffix(e, shown)
  <2>1. ASSUME NEW i \in 1..Len(e) PROVE e[i] = shown[p - Len(e) + i]
    <3>1. p - Len(e) + i \in 1..p /\ Len(output) - Len(e) + i \in 1..Len(output)
      BY <1>2, <1>3, <1>4, <1>5
    <3>2. e[i] = output[Len(output) - Len(e) + i]
      BY <1>4
    <3>3. p - Len(output) + (Len(output) - Len(e) + i) = p - Len(e) + i
      BY <1>2
    <3> QED BY <1>3, <1>6, <3>1, <3>2, <3>3
  <2>2. Len(e) <= Len(shown)
    BY <1>2, <1>3, <1>4, <1>6
  <2>3. \A i \in 1..Len(e) : e[i] = shown[Len(shown) - Len(e) + i]
    BY <2>1, <1>6
  <2> QED BY <2>2, <2>3, <1>1, <1>6, SuffixMeans, Zenon
<1> QED BY <1>7, <1>8

\* A complete one is.
LEMMA Recognised ==
  ASSUME NEW n \in 1..ExchangeCount, NEW c \in Chatter, output \in Seq(Character),
         Shows(Len(Conversation(n, c)), Conversation(n, c))
  PROVE  tail_ends_with(Steps[n].expect)
<1> DEFINE text == Conversation(n, c)
           e == Steps[n].expect
           p == Len(text)
<1>1. /\ text \in Seq(Character) /\ e \in Seq(Character) /\ Len(e) \in 1..TailSize /\ TailSize \in Nat
      /\ Len(e) <= p /\ \A i \in 1..Len(e) : text[p - Len(e) + i] = e[i]
  BY ConversationShape, DialogAssumption
<1>2. p \in Nat /\ Len(e) \in Nat /\ Len(output) \in Nat
  BY <1>1, LenProperties
<1>3. /\ Len(output) <= p /\ (Len(output) = p \/ Len(output) = TailSize)
      /\ \A i \in 1..Len(output) : output[i] = text[p - Len(output) + i]
  BY DEF Shows
<1> HIDE DEF p, e
<1>4. Len(e) <= Len(output)
  BY <1>1, <1>2, <1>3
<1>5. ASSUME NEW i \in 1..Len(e) PROVE e[i] = output[Len(output) - Len(e) + i]
  <2>1. Len(output) - Len(e) + i \in 1..Len(output)
    BY <1>2, <1>4
  <2>2. p - Len(output) + (Len(output) - Len(e) + i) = p - Len(e) + i
    BY <1>2
  <2> QED BY <1>1, <1>3, <2>1, <2>2
<1>6. IsSuffix(e, output)
  BY <1>1, <1>4, <1>5, SuffixMeans
<1>7. e # <<>>
  BY <1>1, EmptySeq
<1> QED BY <1>6, <1>7 DEF tail_ends_with, e

\* One more character of a text: the tail follows.
LEMMA SinkShows ==
  ASSUME NEW text, NEW p \in Nat, Len(text) \in Nat, p < Len(text), Shows(p, text),
         output \in Seq(Character), Len(output) <= TailSize,
         NEW ch \in Character, ch = text[p + 1], console_sink(ch)
  PROVE  Shows(p + 1, text)' /\ output' \in Seq(Character) /\ Len(output') <= TailSize
<1>1. TailSize \in Nat /\ TailSize >= 1
  <2>1. 1 \in 1..Len(Steps)
    <3>1. Len(Steps) \in Nat \ {0}
      BY DialogAssumption, EmptySeq
    <3> QED BY <3>1
  <2>2. TailSize \in Nat /\ \A n \in 1..Len(Steps) : Len(Steps[n].expect) \in 1..TailSize
    BY DialogAssumption
  <2>3. Len(Steps[1].expect) \in 1..TailSize
    BY <2>1, <2>2
  <2> QED BY <2>2, <2>3
<1>2. Len(output) \in Nat
  BY LenProperties
<1>3. /\ Len(output) <= p /\ (Len(output) = p \/ Len(output) = TailSize)
      /\ \A i \in 1..Len(output) : output[i] = text[p - Len(output) + i]
  BY DEF Shows
<1>4. \A s \in Seq(Character) :
        /\ Append(s, ch) \in Seq(Character) /\ Len(Append(s, ch)) = Len(s) + 1
        /\ \A i \in 1..Len(s) : Append(s, ch)[i] = s[i]
        /\ Append(s, ch)[Len(s) + 1] = ch
  OBVIOUS
<1>5. CASE Len(output) < TailSize
  <2>1. output' = Append(output, ch)
    BY <1>5 DEF console_sink
  <2>2. /\ output' \in Seq(Character) /\ Len(output') = Len(output) + 1
        /\ \A i \in 1..Len(output) : output'[i] = output[i]
        /\ output'[Len(output) + 1] = ch
    BY <2>1, <1>4
  <2>3. ASSUME NEW i \in 1..Len(output') PROVE output'[i] = text[p + 1 - Len(output') + i]
    <3>1. CASE i = Len(output) + 1
      <4>1. p + 1 - Len(output') + i = p + 1
        BY <3>1, <2>2, <1>2
      <4> QED BY <3>1, <4>1, <2>2
    <3>2. CASE i # Len(output) + 1
      <4>1. i \in 1..Len(output) /\ p + 1 - Len(output') + i = p - Len(output) + i
        BY <3>2, <2>2, <1>2
      <4> QED BY <4>1, <2>2, <1>3
    <3> QED BY <3>1, <3>2
  <2>4. p + 1 \in 0..Len(text) /\ Len(output') <= p + 1 /\ (Len(output') = p + 1 \/ Len(output') = TailSize)
    BY <2>2, <1>2, <1>3, <1>5, <1>1
  <2>5. Len(output') <= TailSize
    BY <2>2, <1>2, <1>5, <1>1
  <2> QED BY <2>2, <2>3, <2>4, <2>5 DEF Shows
<1>6. CASE Len(output) = TailSize
  <2> DEFINE t == Tail(output)
  <2>1. output # <<>>
    BY <1>1, <1>6, EmptySeq
  <2>2. /\ t \in Seq(Character) /\ Len(t) = Len(output) - 1
        /\ \A i \in 1..Len(t) : t[i] = output[i + 1]
    BY <2>1, HeadTailProperties
  <2>3. output' = Append(t, ch)
    BY <1>6, <1>1 DEF console_sink
  <2> HIDE DEF t
  <2>4. /\ output' \in Seq(Character) /\ Len(output') = Len(output)
        /\ \A i \in 1..Len(t) : output'[i] = t[i]
        /\ output'[Len(output)] = ch
    BY <2>2, <2>3, <1>4, <1>2
  <2>5. ASSUME NEW i \in 1..Len(output') PROVE output'[i] = text[p + 1 - Len(output') + i]
    <3>1. CASE i = Len(output)
      <4>1. p + 1 - Len(output') + i = p + 1
        BY <3>1, <2>4, <1>2
      <4> QED BY <3>1, <4>1, <2>4
    <3>2. CASE i # Len(output)
      <4>1. i \in 1..Len(t) /\ i + 1 \in 1..Len(output)
            /\ p + 1 - Len(output') + i = p - Len(output) + (i + 1)
        BY <3>2, <2>2, <2>4, <1>2
      <4> QED BY <4>1, <2>2, <2>4, <1>3
    <3> QED BY <3>1, <3>2
  <2>6. p + 1 \in 0..Len(text) /\ Len(output') <= p + 1 /\ Len(output') = TailSize
    BY <2>4, <1>2, <1>3, <1>6
  <2>7. Len(output') <= TailSize
    BY <2>6, <1>1
  <2> QED BY <2>4, <2>5, <2>6, <2>7 DEF Shows
<1> QED BY <1>1, <1>2, <1>5, <1>6

\* What is echoed is all alike, and as long as the reply it echoes.
LEMMA EchoShape ==
  ASSUME NEW n \in 1..ExchangeCount
  PROVE  /\ Steps[n].send \in Nat
         /\ Echoed(n + 1) \in Seq(Character) /\ Len(Echoed(n + 1)) = Steps[n].send
         /\ \A i \in 1..Steps[n].send : Echoed(n + 1)[i] = "e"
         /\ Echoed(1) = <<>>
<1>1. Steps[n].send \in Nat
  <2>1. Steps[n] \in [expect : Seq(Character), send : Nat]
    BY DialogAssumption, ElementOfSeq DEF ExchangeCount
  <2> QED BY <2>1
<1>2. PICK k \in Nat : k = Steps[n].send
  BY <1>1
<1>3. Echoed(n + 1) = [i \in 1..k |-> "e"]
  <2>1. n + 1 # 1 /\ n + 1 - 1 = n
    OBVIOUS
  <2> QED BY <2>1, <1>2 DEF Echoed
<1>4. "e" \in Character
  BY DEF Character
<1>5. [i \in 1..k |-> "e"] \in [1..k -> Character]
  BY <1>4, Zenon
<1>6. Echoed(n + 1) \in Seq(Character) /\ Len(Echoed(n + 1)) = k
  BY <1>3, <1>5, FunctionIsSeq
<1>7. \A i \in 1..k : Echoed(n + 1)[i] = "e"
  BY <1>3
<1>8. Echoed(1) = <<>>
  <2>1. Echoed(1) = [i \in 1..0 |-> "e"]
    BY DEF Echoed
  <2>2. 0 \in Nat /\ [i \in 1..0 |-> "e"] \in [1..0 -> Character]
    BY <1>4
  <2>3. Echoed(1) \in Seq(Character) /\ Len(Echoed(1)) = 0
    BY <2>1, <2>2, FunctionIsSeq
  <2> QED BY <2>3, EmptySeq
<1> QED BY <1>1, <1>2, <1>6, <1>7, <1>8

\* A conversation is the echo and what the guest then prints, which is not empty.
LEMMA ConversationParts ==
  ASSUME NEW n \in 1..ExchangeCount, NEW c \in Chatter
  PROVE  LET text == c \o Steps[n].expect
             whole == Conversation(n, c)
             k == Len(Echoed(n))
         IN  /\ text \in Seq(Character) /\ text # <<>> /\ whole \in Seq(Character)
             /\ k \in Nat /\ Len(text) \in Nat \ {0} /\ Len(whole) = k + Len(text)
             /\ \A i \in 1..k : whole[i] = Echoed(n)[i]
             /\ \A i \in 1..Len(text) : text[i] = whole[k + i]
<1> DEFINE text == c \o Steps[n].expect
           k == Len(Echoed(n))
<1>1. /\ c \in Seq(Character) /\ Steps[n].expect \in Seq(Character)
      /\ Len(Steps[n].expect) \in 1..TailSize /\ TailSize \in Nat
  BY DialogAssumption, ConversationShape
<1>2. Echoed(n) \in Seq(Character)
  <2>1. CASE n = 1
    BY <2>1, EchoShape, EmptySeq
  <2>2. CASE n # 1
    <3>1. Len(Steps) \in Nat
      BY DialogAssumption, LenProperties
    <3>2. n - 1 \in 1..ExchangeCount /\ (n - 1) + 1 = n
      BY <2>2, <3>1 DEF ExchangeCount
    <3>3. Echoed((n - 1) + 1) \in Seq(Character)
      BY <3>2, EchoShape
    <3> QED BY <3>2, <3>3
  <2> QED BY <2>1, <2>2
<1>3. text \in Seq(Character) /\ Len(text) = Len(c) + Len(Steps[n].expect)
  BY <1>1, ConcatProperties
<1>4. Conversation(n, c) = Echoed(n) \o text
  <2>1. (Echoed(n) \o c) \o Steps[n].expect = Echoed(n) \o (c \o Steps[n].expect)
    <3>1. \A s, t, u \in Seq(Character) : (s \o t) \o u = s \o (t \o u)
      BY ConcatAssociative
    <3> QED BY <3>1, <1>1, <1>2, Zenon
  <2> QED BY <2>1, Zenon DEF Conversation
<1>5. Len(c) \in Nat /\ Len(Steps[n].expect) \in Nat \ {0} /\ k \in Nat
  BY <1>1, <1>2, LenProperties
<1> HIDE DEF text
<1>6. /\ Conversation(n, c) \in Seq(Character) /\ Len(Conversation(n, c)) = k + Len(text)
      /\ \A i \in 1..k + Len(text) : Conversation(n, c)[i] =
           IF i <= k THEN Echoed(n)[i] ELSE text[i - k]
  <2>1. /\ Echoed(n) \o text \in Seq(Character)
        /\ Len(Echoed(n) \o text) = Len(Echoed(n)) + Len(text)
        /\ \A i \in 1..Len(Echoed(n)) + Len(text) : (Echoed(n) \o text)[i] =
             IF i <= Len(Echoed(n)) THEN Echoed(n)[i] ELSE text[i - Len(Echoed(n))]
    BY <1>2, <1>3, ConcatProperties, Zenon
  <2> QED BY <2>1, <1>4, Zenon
<1>7. Len(text) \in Nat \ {0} /\ text # <<>>
  BY <1>3, <1>5, EmptySeq
<1> HIDE DEF k
<1>8. ASSUME NEW i \in 1..k PROVE Conversation(n, c)[i] = Echoed(n)[i]
  BY <1>5, <1>6, <1>7
<1>9. ASSUME NEW i \in 1..Len(text) PROVE text[i] = Conversation(n, c)[k + i]
  <2>1. k + i \in 1..k + Len(text) /\ ~(k + i <= k) /\ (k + i) - k = i
    BY <1>5, <1>7
  <2> QED BY <2>1, <1>6
<1> QED BY <1>3, <1>5, <1>6, <1>7, <1>8, <1>9 DEF text, k

\* A guest that begins exchange n after having echoed all of the one before.
LEMMA ConversationBegins ==
  ASSUME NEW n \in 1..ExchangeCount, NEW c \in Chatter,
         Shows(Len(Echoed(n)), Echoed(n)), output \in Seq(Character)
  PROVE  LET text == c \o Steps[n].expect
             whole == Conversation(n, c)
         IN  /\ Shows(Len(whole) - Len(text), whole) /\ text # <<>>
             /\ \A i \in 1..Len(text) : text[i] = whole[Len(whole) - Len(text) + i]
<1> DEFINE text == c \o Steps[n].expect
           whole == Conversation(n, c)
           k == Len(Echoed(n))
<1>1. /\ text # <<>>
      /\ k \in Nat /\ Len(text) \in Nat \ {0} /\ Len(whole) = k + Len(text)
      /\ \A i \in 1..k : whole[i] = Echoed(n)[i]
      /\ \A i \in 1..Len(text) : text[i] = whole[k + i]
  BY ConversationParts
<1>2. Len(output) \in Nat
  BY LenProperties
<1>3. /\ Len(output) <= k /\ (Len(output) = k \/ Len(output) = TailSize)
      /\ \A i \in 1..Len(output) : output[i] = Echoed(n)[k - Len(output) + i]
  BY DEF Shows
<1> HIDE DEF text, whole, k
<1>4. Shows(k, whole)
  <2>1. ASSUME NEW i \in 1..Len(output) PROVE output[i] = whole[k - Len(output) + i]
    <3>1. k - Len(output) + i \in 1..k
      BY <1>1, <1>2, <1>3
    <3> QED BY <3>1, <1>1, <1>3
  <2>2. k \in 0..Len(whole)
    BY <1>1
  <2> QED BY <2>1, <2>2, <1>3 DEF Shows
<1>5. Len(whole) - Len(text) = k
  BY <1>1
<1>6. Shows(Len(whole) - Len(text), whole)
  BY <1>4, <1>5, Zenon
<1>7. \A i \in 1..Len(text) : text[i] = whole[Len(whole) - Len(text) + i]
  BY <1>1, <1>5
<1> QED BY <1>1, <1>6, <1>7 DEF text, whole

\* Nothing has been printed or typed yet.
LEMMA DialogStarts == DialogInit => DialogInv
<1> SUFFICES ASSUME DialogInit, frontend = "dialog" PROVE DialogInv
  BY DEF DialogInv
<1>1. PICK c \in Chatter : guest = Printing(1, c \o Steps[1].expect)
  BY DEF DialogInit
<1>2. 1 \in 1..ExchangeCount /\ Len(Steps) \in Nat
  <2>1. Len(Steps) \in Nat \ {0}
    BY DialogAssumption, EmptySeq
  <2> QED BY <2>1 DEF ExchangeCount
<1>3. output = <<>> /\ cur = 0 /\ pend = 0 /\ wait = 0 /\ script = 0 /\ lost = {} /\ turn = "step"
      /\ ~rdone /\ rdone \in BOOLEAN
  BY DEF DialogInit, Init
<1>4. output \in Seq(Character) /\ Len(output) = 0
  BY <1>3, EmptySeq
<1>5. Shows(Len(Echoed(1)), Echoed(1))
  <2>1. Echoed(1) = <<>>
    BY <1>2, EchoShape
  <2>2. Len(Echoed(1)) = 0
    BY <2>1, EmptySeq
  <2> QED BY <2>2, <1>4 DEF Shows
<1>6. Prompting
  <2>1. /\ guest.at = 1 /\ guest.does = "print" /\ guest.next = "arm"
        /\ guest.text = c \o Steps[1].expect
    BY <1>1 DEF Printing
  <2>2. PICK text, whole : text = c \o Steps[1].expect /\ whole = Conversation(1, c)
    OBVIOUS
  <2>3. /\ Shows(Len(whole) - Len(text), whole) /\ text # <<>>
        /\ \A i \in 1..Len(text) : text[i] = whole[Len(whole) - Len(text) + i]
    BY <1>2, <1>4, <1>5, <2>2, ConversationBegins
  <2>4. guest.text # <<>> /\ PrintingPrompt(c, guest.text)
    BY <2>1, <2>2, <2>3 DEF PrintingPrompt
  <2> QED BY <1>3, <2>1, <2>4 DEF Prompting
<1>7. DialogTypes
  <2>1. c \o Steps[1].expect \in Seq(Character)
    BY <1>2, ConversationParts
  <2>2. guest \in [at : 1..ExchangeCount, does : {"print", "arm", "read", "halt"},
                   text : Seq(Character), left : Nat, next : {"arm", "read"}]
    BY <1>1, <1>2, <2>1 DEF Printing
  <2>3. Len(output) <= TailSize /\ cur \in 0..ExchangeCount
    BY <1>2, <1>3, <1>4, DialogAssumption DEF ExchangeCount
  <2> QED BY <1>3, <1>4, <2>2, <2>3 DEF DialogTypes
<1> QED BY <1>6, <1>7 DEF DialogInv

\* A step that leaves alone what the phases speak of.
DialogStill == UNCHANGED <<frontend, rdone, output, cur, pend, guest, script, lost>>

\* Only a complete prompt needs the loop to be about to look, and only a guest
\* on its way to read() the time that is left.
LEMMA StillKeeps ==
  ASSUME DialogInv, DialogStill, frontend = "dialog", turn' \in {"step", "input"}, wait' \in Nat,
         Prompted => turn' = "input", Arming => wait' = wait
  PROVE  DialogInv'
<1>1. DialogTypes'
  BY DEF DialogInv, DialogTypes, DialogStill
<1>2. CASE Prompting
  <2>1. \A c : PrintingPrompt(c, guest.text) => PrintingPrompt(c, guest.text)'
    BY DEF PrintingPrompt, Shows, DialogStill
  <2>2. Prompting'
    BY <1>2, <2>1 DEF Prompting, DialogStill
  <2> QED BY <1>1, <2>2 DEF DialogInv
<1>3. CASE Prompted
  <2>1. \A c : PrintingPrompt(c, <<>>) => PrintingPrompt(c, <<>>)'
    BY DEF PrintingPrompt, Shows, DialogStill
  <2>2. Prompted'
    BY <1>3, <2>1 DEF Prompted, DialogStill
  <2> QED BY <1>1, <2>2 DEF DialogInv
<1>4. CASE Arming
  <2>1. Arming'
    BY <1>4 DEF Arming, DialogStill
  <2> QED BY <1>1, <2>1 DEF DialogInv
<1>5. CASE Reading
  <2>1. Reading'
    BY <1>5 DEF Reading, Shows, DialogStill
  <2> QED BY <1>1, <2>1 DEF DialogInv
<1>6. CASE Halted
  <2>1. Halted'
    BY <1>6 DEF Halted, DialogStill
  <2> QED BY <1>1, <2>1 DEF DialogInv
<1> QED BY <1>2, <1>3, <1>4, <1>5, <1>6 DEF DialogInv

\* A character of a prompt or of an echo.
LEMMA PrintKeeps ==
  ASSUME DialogInv, frontend = "dialog", PrintNext PROVE DialogInv'
<1>1. /\ guest.does = "print" /\ turn = "step" /\ turn' = "input"
      /\ wait' = (IF wait > 0 THEN wait - 1 ELSE 0)
      /\ UNCHANGED <<frontend, cur, pend, script, lost, rdone>>
      /\ console_sink(Head(guest.text))
      /\ guest' = [guest EXCEPT !.text = Tail(@),
                            !.does = IF Len(guest.text) > 1 THEN @ ELSE guest.next,
                            !.left = IF guest.next = "arm" THEN ReadLatency ELSE @]
  BY DEF PrintNext, Guest, Passes, Untouched, WriteXbuf, receiver
<1>2. DialogTypes
  BY DEF DialogInv
<1>3. /\ output \in Seq(Character) /\ Len(output) <= TailSize /\ wait \in Nat
      /\ guest.text \in Seq(Character) /\ guest.next \in {"arm", "read"} /\ guest.left \in Nat
      /\ guest.at \in 1..ExchangeCount
  BY <1>2 DEF DialogTypes
<1>4. guest.text # <<>> => /\ Len(guest.text) \in Nat \ {0}
                           /\ Head(guest.text) = guest.text[1] /\ guest.text[1] \in Character
                           /\ Tail(guest.text) \in Seq(Character)
                           /\ Len(Tail(guest.text)) = Len(guest.text) - 1
                           /\ \A i \in 1..Len(Tail(guest.text)) : Tail(guest.text)[i] = guest.text[i + 1]
  <2>1. guest.text # <<>> => Len(guest.text) \in Nat \ {0}
    BY <1>3, EmptySeq
  <2>2. guest.text # <<>> => guest.text[1] \in Character
    BY <2>1, <1>3, ElementOfSeq
  <2> QED BY <2>1, <2>2, <1>3, HeadTailProperties
<1>5. /\ guest'.at = guest.at /\ guest'.next = guest.next /\ guest'.text = Tail(guest.text)
      /\ guest'.does = (IF Len(guest.text) > 1 THEN "print" ELSE guest.next)
      /\ guest'.left = (IF guest.next = "arm" THEN ReadLatency ELSE guest.left)
  BY <1>1, <1>2 DEF DialogTypes
<1>6. ReadLatency \in Nat
  BY DialogAssumption
<1>7. ASSUME guest.text # <<>>, output' \in Seq(Character), Len(output') <= TailSize
      PROVE  DialogTypes'
  <2>1. guest' \in [at : 1..ExchangeCount, does : {"print", "arm", "read", "halt"},
                    text : Seq(Character), left : Nat, next : {"arm", "read"}]
    <3>1. guest \in [at : 1..ExchangeCount, does : {"print", "arm", "read", "halt"},
                     text : Seq(Character), left : Nat, next : {"arm", "read"}]
      BY <1>2 DEF DialogTypes
    <3>2. Tail(guest.text) \in Seq(Character)
      BY <1>4, <1>7
    <3>3. /\ (IF Len(guest.text) > 1 THEN guest.does ELSE guest.next) \in {"print", "arm", "read", "halt"}
          /\ (IF guest.next = "arm" THEN ReadLatency ELSE guest.left) \in Nat
      BY <1>3, <1>6, <1>1
    <3> QED BY <1>1, <3>1, <3>2, <3>3
  <2>2. wait' \in Nat
    BY <1>1, <1>3
  <2> QED BY <1>1, <1>2, <1>7, <2>1, <2>2 DEF DialogTypes
<1>8. CASE Prompting
  <2>1. /\ cur = guest.at - 1 /\ pend = 0 /\ ~rdone /\ guest.next = "arm" /\ guest.text # <<>>
    BY <1>8 DEF Prompting
  <2>2. PICK c \in Chatter : PrintingPrompt(c, guest.text)
    BY <1>8 DEF Prompting
  <2>3. PICK n \in 1..ExchangeCount : n = guest.at
    BY <1>3
  <2>4. PICK whole : whole = Conversation(n, c)
    OBVIOUS
  <2>5. Len(whole) \in Nat
    <3>1. whole \in Seq(Character)
      BY <2>4, ConversationParts
    <3> QED BY <3>1, LenProperties
  <2>6. PICK text : text = guest.text
    OBVIOUS
  <2>7. /\ Shows(Len(whole) - Len(text), whole)
        /\ \A i \in 1..Len(text) : text[i] = whole[Len(whole) - Len(text) + i]
    BY <2>2, <2>3, <2>4, <2>6 DEF PrintingPrompt
  <2>8. Len(text) \in Nat \ {0}
    BY <2>1, <2>6, <1>4
  <2>9. PICK p \in Nat : p = Len(whole) - Len(text)
    <3>1. Len(whole) - Len(text) \in 0..Len(whole)
      BY <2>7 DEF Shows
    <3> QED BY <3>1, <2>5
  <2>10. PICK ch \in Character : ch = text[1]
    BY <2>1, <2>6, <1>4
  <2>11. ch = whole[p + 1] /\ p < Len(whole)
    <3>1. 1 \in 1..Len(text)
      BY <2>8
    <3> QED BY <3>1, <2>5, <2>7, <2>8, <2>9, <2>10
  <2>12. console_sink(ch)
    BY <1>1, <1>4, <2>1, <2>6, <2>10
  <2>13. Shows(p, whole)
    BY <2>7, <2>9
  <2>14. Shows(p + 1, whole)' /\ output' \in Seq(Character) /\ Len(output') <= TailSize
    BY <2>5, <2>11, <2>12, <2>13, <1>3, SinkShows
  <2>15. PICK rest : rest = Tail(text)
    OBVIOUS
  <2>16. /\ Len(rest) = Len(text) - 1 /\ rest \in Seq(Character)
         /\ \A i \in 1..Len(rest) : rest[i] = text[i + 1]
    BY <1>4, <2>1, <2>6, <2>15
  <2>17. \A i \in 1..Len(rest) : rest[i] = whole[p + 1 + i]
    <3>1. ASSUME NEW i \in 1..Len(rest) PROVE rest[i] = whole[p + 1 + i]
      <4>1. i + 1 \in 1..Len(text) /\ p + (i + 1) = p + 1 + i
        BY <2>16, <2>8
      <4>2. text[i + 1] = whole[p + (i + 1)]
        BY <2>7, <2>9, <4>1
      <4> QED BY <2>16, <4>1, <4>2
    <3> QED BY <3>1
  <2>18. Len(whole) - Len(rest) = p + 1 /\ guest'.text = rest
    BY <2>5, <2>8, <2>9, <2>16, <1>5, <2>6, <2>15
  <2>19. PrintingPrompt(c, rest)'
    <3>1. guest'.at = n
      BY <1>5, <2>3
    <3> QED BY <3>1, <2>4, <2>14, <2>17, <2>18 DEF PrintingPrompt
  <2>20. DialogTypes'
    BY <1>7, <2>1, <2>14
  <2>21. CASE Len(text) > 1
    <3>1. rest # <<>>
      BY <2>21, <2>16, <2>8, EmptySeq
    <3>2. Prompting'
      BY <3>1, <2>1, <2>6, <2>18, <2>19, <2>21, <1>1, <1>5 DEF Prompting
    <3> QED BY <3>2, <2>20 DEF DialogInv
  <2>22. CASE ~(Len(text) > 1)
    <3>1. rest = <<>>
      BY <2>22, <2>16, <2>8, EmptySeq
    <3>2. Prompted'
      BY <3>1, <2>1, <2>6, <2>19, <2>22, <1>1, <1>5 DEF Prompted
    <3> QED BY <3>2, <2>20 DEF DialogInv
  <2> QED BY <2>21, <2>22
<1>9. CASE Reading
  <2>1. PICK n \in 1..ExchangeCount : n = guest.at
    BY <1>3
  <2>2. PICK whole : whole = Echoed(n + 1)
    OBVIOUS
  <2>3. PICK send \in Nat : send = Steps[n].send
    BY EchoShape
  <2>4. Len(whole) = send /\ \A i \in 1..send : whole[i] = "e"
    BY <2>2, <2>3, EchoShape
  <2>5. PICK left \in Nat : left = guest.left
    BY <1>3
  <2>6. /\ cur = n /\ pend + (IF rdone THEN 1 ELSE 0) = left
        /\ guest.text = <<"e">> /\ guest.next = "read"
        /\ send - left - 1 >= 0 /\ Shows(send - left - 1, whole)
    BY <1>1, <1>9, <2>1, <2>2, <2>3, <2>5 DEF Reading
  <2>7. PICK p \in Nat : p = send - left - 1
    BY <2>6
  <2>8. p < send /\ whole[p + 1] = "e"
    <3>1. p < send /\ p + 1 \in 1..send
      BY <2>7
    <3> QED BY <3>1, <2>4
  <2>9. PICK ch \in Character : ch = "e"
    BY DEF Character
  <2>10. console_sink(ch)
    BY <1>1, <2>6, <2>9
  <2>11. Shows(p + 1, whole)' /\ output' \in Seq(Character) /\ Len(output') <= TailSize
    <3>1. Shows(p, whole)
      BY <2>6, <2>7
    <3> QED BY <3>1, <2>4, <2>8, <2>9, <2>10, <1>3, SinkShows
  <2>12. guest.text # <<>> /\ Len(guest.text) = 1
    BY <2>6
  <2>13. DialogTypes'
    BY <1>7, <2>11, <2>12
  <2>14. guest'.does = "read" /\ guest'.at = n /\ guest'.left = left
    BY <1>5, <2>1, <2>5, <2>6, <2>12
  <2>15. p + 1 = send - left - 0 /\ p + 1 >= 0
    BY <2>7
  <2>16. Reading'
    BY <1>1, <2>2, <2>3, <2>6, <2>11, <2>14, <2>15 DEF Reading
  <2> QED BY <2>13, <2>16 DEF DialogInv
<1> QED BY <1>1, <1>8, <1>9 DEF DialogInv, Prompted, Arming, Halted

\* The guest on its way to read(): nothing has been typed yet.
LEMMA ArmKeeps ==
  ASSUME DialogInv, frontend = "dialog", Arm PROVE DialogInv'
<1>1. DialogTypes /\ guest.does = "arm" /\ turn = "step"
  BY DEF DialogInv, Arm, Guest
<1>2. Arming
  BY <1>1 DEF DialogInv, Prompting, Prompted, Reading, Halted
<1>3. /\ cur = guest.at /\ pend = Steps[cur].send /\ ~rdone /\ wait > guest.left /\ output = <<>>
  BY <1>2 DEF Arming
<1>4. /\ UNCHANGED <<frontend, cur, pend, script, output, vars, lost>>
      /\ turn' = "input" /\ wait' = (IF wait > 0 THEN wait - 1 ELSE 0)
  BY <1>3 DEF Arm, Passes, Untouched
<1>5. rdone' = rdone
  BY <1>4 DEF vars, receiver
<1>6. /\ guest \in [at : 1..ExchangeCount, does : {"print", "arm", "read", "halt"},
                    text : Seq(Character), left : Nat, next : {"arm", "read"}]
      /\ wait \in Nat /\ cur \in 1..ExchangeCount
  BY <1>1, <1>3 DEF DialogTypes
<1>7. CASE guest.left > 0 /\ guest' = [guest EXCEPT !.left = @ - 1]
  <2>1. /\ guest'.left = guest.left - 1 /\ guest'.does = "arm" /\ guest'.at = guest.at
        /\ guest' \in [at : 1..ExchangeCount, does : {"print", "arm", "read", "halt"},
                       text : Seq(Character), left : Nat, next : {"arm", "read"}]
    BY <1>1, <1>6, <1>7
  <2>2. wait' \in Nat /\ wait' > guest'.left
    BY <2>1, <1>3, <1>4, <1>6, <1>7
  <2>3. Arming'
    BY <2>1, <2>2, <1>3, <1>4, <1>5 DEF Arming
  <2>4. DialogTypes'
    BY <2>1, <2>2, <1>1, <1>4, <1>5 DEF DialogTypes
  <2> QED BY <2>3, <2>4 DEF DialogInv
<1>8. CASE guest' = [guest EXCEPT !.does = "read", !.left = Steps[guest.at].send]
  <2>1. PICK n \in 1..ExchangeCount : n = cur
    BY <1>6
  <2>2. Steps[n].send \in Nat /\ Len(Echoed(n + 1)) = Steps[n].send
    BY EchoShape
  <2>3. /\ guest'.left = Steps[n].send /\ guest'.does = "read" /\ guest'.at = n
        /\ guest' \in [at : 1..ExchangeCount, does : {"print", "arm", "read", "halt"},
                       text : Seq(Character), left : Nat, next : {"arm", "read"}]
    BY <1>3, <1>6, <1>8, <2>1, <2>2
  <2>4. output' = <<>> /\ Len(output') = 0
    BY <1>3, <1>4, EmptySeq
  <2>5. Shows(0, Echoed(n + 1))'
    BY <2>2, <2>4 DEF Shows
  <2>6. Reading'
    <3>1. cur' = n /\ pend' = Steps[n].send /\ rdone' = FALSE
      BY <1>1, <1>3, <1>4, <1>5, <2>1 DEF DialogTypes
    <3>2. PICK send \in Nat : send = Steps[n].send
      BY <2>2
    <3>3. send - send - 0 = 0 /\ send + 0 = send
      OBVIOUS
    <3>4. Shows(send - send - 0, Echoed(n + 1))'
      BY <2>5, <3>3
    <3>5. pend' + (IF rdone' THEN 1 ELSE 0) = guest'.left /\ send - guest'.left - 0 = 0
      BY <3>1, <3>2, <3>3, <2>3
    <3> QED BY <3>1, <3>2, <3>4, <3>5, <2>3, <2>5 DEF Reading
  <2>7. wait' \in Nat
    BY <1>4, <1>6
  <2>8. DialogTypes'
    BY <2>3, <2>7, <1>1, <1>4, <1>5 DEF DialogTypes
  <2> QED BY <2>6, <2>8 DEF DialogInv
<1> QED BY <1>7, <1>8 DEF Arm

\* The guest reads a byte of the reply.
LEMMA ReadKeeps ==
  ASSUME DialogInv, frontend = "dialog", Read PROVE DialogInv'
<1>1. /\ DialogTypes /\ guest.does = "read" /\ turn = "step" /\ guest.left > 0
      /\ UNCHANGED <<frontend, cur, pend, script, output, lost>>
      /\ turn' = "input" /\ wait' = (IF wait > 0 THEN wait - 1 ELSE 0)
  BY DEF DialogInv, Read, Guest, Passes, Untouched
<1>2. Reading
  BY <1>1 DEF DialogInv, Prompting, Prompted, Arming, Halted
<1>3. wait' \in Nat
  BY <1>1 DEF DialogTypes
<1>4. CASE ~rdone
  <2>1. UNCHANGED <<vars, guest>>
    BY <1>4 DEF Read
  <2>2. DialogStill /\ turn' \in {"step", "input"}
    BY <1>1, <2>1 DEF DialogStill, vars, receiver
  <2>3. ~Prompted /\ ~Arming
    BY <1>1 DEF Prompted, Arming
  <2> QED BY <1>3, <2>2, <2>3, StillKeeps
<1>5. CASE rdone
  <2>1. /\ rdone' = FALSE
        /\ guest' = [guest EXCEPT !.does = "print", !.text = <<"e">>, !.next = "read", !.left = @ - 1]
    BY <1>5 DEF Read, ReadRbuf
  <2>2. <<"e">> \in Seq(Character) /\ guest.left \in Nat
    <3>1. PICK ch \in Character : ch = "e"
      BY DEF Character
    <3>2. <<ch>> \in Seq(Character)
      OBVIOUS
    <3> QED BY <3>1, <3>2, <1>1 DEF DialogTypes
  <2>3. guest \in [at : 1..ExchangeCount, does : {"print", "arm", "read", "halt"},
                   text : Seq(Character), left : Nat, next : {"arm", "read"}]
    BY <1>1 DEF DialogTypes
  <2>4. PICK left \in Nat : left = guest.left - 1
    BY <2>2, <1>1
  <2>5. /\ guest'.left = left /\ guest'.does = "print" /\ guest'.at = guest.at
        /\ guest'.text = <<"e">> /\ guest'.next = "read"
        /\ guest' \in [at : 1..ExchangeCount, does : {"print", "arm", "read", "halt"},
                       text : Seq(Character), left : Nat, next : {"arm", "read"}]
    BY <2>1, <2>2, <2>3, <2>4
  <2>6. PICK n \in 1..ExchangeCount : n = guest.at
    BY <2>3
  <2>7. PICK send \in Nat : send = Steps[n].send
    BY EchoShape
  <2>8. /\ cur = n /\ pend + 1 = left + 1 /\ pend \in Nat
        /\ send - (left + 1) - 0 >= 0 /\ Shows(send - (left + 1) - 0, Echoed(n + 1))
    <3>1. guest.left = left + 1
      BY <2>2, <2>4
    <3> QED BY <1>1, <1>2, <1>5, <2>6, <2>7, <3>1 DEF Reading, DialogTypes
  <2>9. PICK p \in Nat : p = send - left - 1
    BY <2>8
  <2>10. Shows(p, Echoed(n + 1))
    <3>1. send - (left + 1) - 0 = p
      BY <2>9
    <3> QED BY <3>1, <2>8
  <2>11. Shows(p, Echoed(n + 1))'
    BY <2>10, <1>1 DEF Shows
  <2>12. pend' + 0 = left /\ cur' = n /\ guest'.at = n
    BY <1>1, <2>5, <2>6, <2>8
  <2>13. Reading'
    BY <2>1, <2>5, <2>7, <2>9, <2>11, <2>12 DEF Reading
  <2>14. DialogTypes'
    BY <1>1, <1>3, <2>1, <2>5 DEF DialogTypes
  <2> QED BY <2>13, <2>14 DEF DialogInv
<1> QED BY <1>4, <1>5

\* The guest has read the whole reply: it halts, or begins the next exchange.
LEMMA ProceedKeeps ==
  ASSUME DialogInv, frontend = "dialog", Proceed PROVE DialogInv'
<1>1. /\ DialogTypes /\ guest.does = "read" /\ turn = "step" /\ guest.left = 0
      /\ UNCHANGED <<frontend, cur, pend, script, vars, output, lost>>
      /\ turn' = "input" /\ wait' = (IF wait > 0 THEN wait - 1 ELSE 0)
  BY DEF DialogInv, Proceed, Guest, Passes, Untouched
<1>2. Reading
  BY <1>1 DEF DialogInv, Prompting, Prompted, Arming, Halted
<1>3. wait' \in Nat /\ rdone' = rdone
  BY <1>1 DEF DialogTypes, vars, receiver
<1>4. guest \in [at : 1..ExchangeCount, does : {"print", "arm", "read", "halt"},
                 text : Seq(Character), left : Nat, next : {"arm", "read"}]
  BY <1>1 DEF DialogTypes
<1>5. PICK n \in 1..ExchangeCount : n = guest.at
  BY <1>4
<1>6. Steps[n].send \in Nat /\ Len(Echoed(n + 1)) = Steps[n].send
  BY EchoShape
<1>7. cur = n /\ pend = 0 /\ ~rdone /\ Shows(Len(Echoed(n + 1)), Echoed(n + 1))
  <2>1. cur = n /\ pend + (IF rdone THEN 1 ELSE 0) = 0 /\ Shows(Steps[n].send - 0 - 0, Echoed(n + 1))
    BY <1>1, <1>2, <1>5 DEF Reading
  <2>2. pend = 0 /\ ~rdone
    BY <1>1, <2>1 DEF DialogTypes
  <2>3. Steps[n].send - 0 - 0 = Len(Echoed(n + 1))
    BY <1>6
  <2> QED BY <2>1, <2>2, <2>3
<1>8. CASE guest.at = ExchangeCount
  <2>1. guest' = [guest EXCEPT !.does = "halt"]
    BY <1>8 DEF Proceed
  <2>2. Halted' /\ DialogTypes'
    BY <1>1, <1>3, <1>4, <1>5, <1>7, <1>8, <2>1 DEF Halted, DialogTypes
  <2> QED BY <2>2 DEF DialogInv
<1>9. CASE guest.at # ExchangeCount
  <2>1. PICK c \in Chatter : guest' = Printing(guest.at + 1, c \o Steps[guest.at + 1].expect)
    BY <1>9 DEF Proceed
  <2>2. n + 1 \in 1..ExchangeCount
    <3>1. Len(Steps) \in Nat
      BY DialogAssumption, LenProperties
    <3> QED BY <3>1, <1>5, <1>9 DEF ExchangeCount
  <2>3. PICK m \in 1..ExchangeCount : m = n + 1
    BY <2>2
  <2>4. guest' = Printing(m, c \o Steps[m].expect)
    BY <2>1, <2>3, <1>5
  <2>5. Shows(Len(Echoed(m)), Echoed(m)) /\ output \in Seq(Character)
    BY <1>1, <1>7, <2>3 DEF DialogTypes
  <2>6. PICK text, whole : text = c \o Steps[m].expect /\ whole = Conversation(m, c)
    OBVIOUS
  <2>7. Prompting'
    <3>1. /\ Shows(Len(whole) - Len(text), whole) /\ text # <<>>
          /\ \A i \in 1..Len(text) : text[i] = whole[Len(whole) - Len(text) + i]
      BY <2>5, <2>6, ConversationBegins
    <3>2. Shows(Len(whole) - Len(text), whole)'
      BY <3>1, <1>1 DEF Shows
    <3>3. /\ guest'.at = m /\ guest'.does = "print" /\ guest'.next = "arm" /\ guest'.text = text
      BY <2>4, <2>6 DEF Printing
    <3>4. PrintingPrompt(c, text)'
      BY <3>1, <3>2, <3>3, <2>6 DEF PrintingPrompt
    <3>5. cur' = m - 1 /\ pend' = 0 /\ ~rdone'
      BY <1>1, <1>3, <1>7, <2>3
    <3> QED BY <3>1, <3>3, <3>4, <3>5 DEF Prompting
  <2>8. c \o Steps[m].expect \in Seq(Character)
    BY ConversationParts
  <2>9. guest' \in [at : 1..ExchangeCount, does : {"print", "arm", "read", "halt"},
                    text : Seq(Character), left : Nat, next : {"arm", "read"}]
    BY <2>4, <2>8 DEF Printing
  <2>10. DialogTypes'
    BY <1>1, <1>3, <2>9 DEF DialogTypes
  <2> QED BY <2>7, <2>10 DEF DialogInv
<1> QED BY <1>8, <1>9

\* The next byte of a reply is due: its reader is there.
LEMMA TypeKeeps ==
  ASSUME DialogInv, frontend = "dialog", TypeReply PROVE DialogInv'
<1>1. /\ DialogTypes /\ turn = "input" /\ turn' = "step" /\ ~rdone /\ pend > 0
      /\ UNCHANGED <<frontend, output, cur, script, guest, lost>>
  BY DEF DialogInv, TypeReply, Input
<1>2. Arming \/ Reading
  BY <1>1 DEF DialogInv, Prompting, Prompted, Halted
<1>3. CASE wait = 0
  <2>1. Reading
    <3>1. ~Arming
      BY <1>1, <1>3 DEF Arming, DialogTypes
    <3> QED BY <3>1, <1>2
  <2>2. rdone' = TRUE /\ pend' = pend - 1 /\ wait' = KeyGap
    BY <1>1, <1>3 DEF TypeReply, Deliver
  <2>3. KeyGap \in Nat
    BY DialogAssumption
  <2>4. pend \in Nat /\ pend' \in Nat /\ pend' + 1 = pend + 0
    BY <1>1, <2>2 DEF DialogTypes
  <2>5. DialogTypes'
    BY <1>1, <2>2, <2>3, <2>4 DEF DialogTypes
  <2>6. Reading'
    BY <1>1, <2>1, <2>2, <2>4 DEF Reading, Shows
  <2> QED BY <2>5, <2>6 DEF DialogInv
<1>4. CASE wait # 0
  <2>1. UNCHANGED <<vars, pend, wait>>
    BY <1>4 DEF TypeReply
  <2>2. DialogStill /\ wait' \in Nat /\ wait' = wait
    BY <1>1, <2>1 DEF DialogStill, vars, receiver, DialogTypes
  <2>3. ~Prompted
    BY <1>1 DEF Prompted
  <2> QED BY <1>1, <2>2, <2>3, StillKeeps
<1> QED BY <1>3, <1>4

\* The loop looks for a prompt: it finds the one that has just been completed, and
\* no other.
LEMMA MatchKeeps ==
  ASSUME DialogInv, frontend = "dialog", MatchPrompt PROVE DialogInv'
<1>1. /\ DialogTypes /\ turn = "input" /\ turn' = "step" /\ ~rdone /\ pend = 0
      /\ UNCHANGED <<vars, frontend, script, guest, lost>>
  BY DEF DialogInv, MatchPrompt, Input
<1>2. /\ output \in Seq(Character) /\ cur \in 0..ExchangeCount /\ wait \in Nat
      /\ guest.at \in 1..ExchangeCount /\ guest.left \in Nat
  BY <1>1 DEF DialogTypes
<1>3. ASSUME ~(cur < ExchangeCount /\ tail_ends_with(Steps[cur + 1].expect)), ~Prompted
      PROVE  DialogInv'
  <2>1. UNCHANGED <<cur, pend, output, wait>>
    BY <1>3 DEF MatchPrompt
  <2>2. DialogStill /\ wait' = wait
    BY <1>1, <2>1 DEF DialogStill, vars, receiver
  <2> QED BY <1>1, <1>2, <1>3, <2>2, StillKeeps
<1>4. ExchangeCount \in Nat
  BY DialogAssumption, LenProperties DEF ExchangeCount
<1>5. CASE Prompting
  <2>1. PICK c \in Chatter : PrintingPrompt(c, guest.text)
    BY <1>5 DEF Prompting
  <2> DEFINE text == guest.text
  <2>2. PICK n \in 1..ExchangeCount : n = guest.at
    BY <1>2
  <2> DEFINE whole == Conversation(n, c)
  <2>3. cur = n - 1 /\ text # <<>> /\ text \in Seq(Character)
    BY <1>1, <1>5, <2>2 DEF Prompting, DialogTypes
  <2>4. Shows(Len(whole) - Len(text), whole) /\ Len(whole) \in Nat /\ Len(text) \in Nat \ {0}
    <3>1. whole \in Seq(Character)
      BY <2>2, ConversationParts
    <3> QED BY <3>1, <2>1, <2>2, <2>3, EmptySeq, LenProperties DEF PrintingPrompt
  <2>5. PICK p : p = Len(whole) - Len(text)
    OBVIOUS
  <2>6. p \in Nat /\ p < Len(whole) /\ Shows(p, whole)
    <3>1. p \in 0..Len(whole)
      BY <2>4, <2>5 DEF Shows
    <3> QED BY <3>1, <2>4, <2>5
  <2>7. ~tail_ends_with(Steps[n].expect)
    BY <2>2, <2>6, <1>2, NotYet
  <2>8. ~tail_ends_with(Steps[cur + 1].expect)
    <3>1. cur + 1 = n
      BY <2>3
    <3> QED BY <3>1, <2>7
  <2>9. ~Prompted
    BY <1>5 DEF Prompting, Prompted
  <2> QED BY <1>3, <2>8, <2>9
<1>6. CASE Prompted
  <2>1. PICK c \in Chatter : PrintingPrompt(c, <<>>)
    BY <1>6 DEF Prompted
  <2>2. PICK n \in 1..ExchangeCount : n = guest.at
    BY <1>2
  <2> DEFINE whole == Conversation(n, c)
  <2>3. /\ cur = n - 1 /\ guest.does = "arm" /\ guest.left = ReadLatency
    BY <1>6, <2>2 DEF Prompted
  <2>4. Shows(Len(whole), whole)
    <3>1. whole \in Seq(Character) /\ Len(whole) \in Nat
      BY <2>2, ConversationParts, LenProperties
    <3>2. Len(<<>>) = 0 /\ Len(whole) - 0 = Len(whole)
      BY <3>1, EmptySeq
    <3>3. Shows(Len(whole) - Len(<<>>), whole)
      BY <2>1, <2>2 DEF PrintingPrompt
    <3> QED BY <3>2, <3>3
  <2>5. tail_ends_with(Steps[n].expect)
    BY <2>2, <2>4, <1>2, Recognised
  <2>6. cur + 1 = n /\ cur < ExchangeCount
    BY <2>3, <1>4
  <2>7. /\ cur' = n /\ pend' = Steps[n].send /\ output' = <<>> /\ wait' = Settle
    BY <1>1, <2>5, <2>6 DEF MatchPrompt, Settles
  <2>8. Settle \in Nat /\ Settle > ReadLatency /\ TailSize \in Nat
    BY DialogAssumption
  <2>9. Steps[n].send \in Nat
    BY EchoShape
  <2>10. rdone' = rdone
    BY <1>1 DEF vars, receiver
  <2>11. <<>> \in Seq(Character) /\ Len(<<>>) = 0
    BY EmptySeq
  <2>12. Arming'
    BY <1>1, <2>2, <2>3, <2>7, <2>8, <2>10 DEF Arming
  <2>13. DialogTypes'
    BY <1>1, <2>7, <2>8, <2>9, <2>10, <2>11 DEF DialogTypes
  <2> QED BY <2>12, <2>13 DEF DialogInv
<1>7. CASE Arming
  <2>1. ~tail_ends_with(Steps[cur + 1].expect) \/ ~(cur < ExchangeCount)
    <3>1. SUFFICES ASSUME cur < ExchangeCount, tail_ends_with(Steps[cur + 1].expect)
                   PROVE  FALSE
      OBVIOUS
    <3>2. PICK n \in 1..ExchangeCount : n = cur + 1
      BY <3>1, <1>2, <1>4
    <3>3. PICK c \in Chatter : TRUE
      BY DialogAssumption
    <3>4. /\ Steps[n].expect \in Seq(Character) /\ Steps[n].expect # <<>>
          /\ Len(Steps[n].expect) \in Nat \ {0}
      <4>1. TailSize \in Nat
        BY DialogAssumption
      <4>2. Steps[n].expect \in Seq(Character) /\ Len(Steps[n].expect) \in 1..TailSize
        BY <3>3, ConversationShape
      <4> QED BY <4>1, <4>2, EmptySeq
    <3>5. output = <<>> /\ Len(output) = 0
      BY <1>7, EmptySeq DEF Arming
    <3>6. IsSuffix(Steps[n].expect, output)
      BY <3>1, <3>2 DEF tail_ends_with
    <3>7. Len(Steps[n].expect) <= Len(output)
      BY <3>4, <3>6, <1>2, SuffixMeans
    <3> QED BY <3>4, <3>5, <3>7
  <2>2. ~Prompted
    BY <1>2, <1>7 DEF Arming, Prompted
  <2> QED BY <1>3, <2>1, <2>2
<1>8. CASE Reading
  <2>1. ~(cur < ExchangeCount /\ tail_ends_with(Steps[cur + 1].expect))
    <3>1. SUFFICES ASSUME cur < ExchangeCount PROVE ~tail_ends_with(Steps[cur + 1].expect)
      OBVIOUS
    <3>2. PICK n \in 1..ExchangeCount : n = cur + 1
      BY <3>1, <1>2, <1>4
    <3>3. PICK c \in Chatter : TRUE
      BY DialogAssumption
    <3>4. PICK m \in 1..ExchangeCount : m = cur
      BY <1>8, <1>2 DEF Reading
    <3>5. /\ Steps[m].send \in Nat /\ Len(Echoed(m + 1)) = Steps[m].send /\ n = m + 1
      BY <3>2, <3>4, EchoShape
    <3>6. PICK p \in Nat : p <= Steps[m].send /\ Shows(p, Echoed(m + 1))
      <4>1. PICK d \in {0, 1} : d = (IF guest.does = "print" THEN 1 ELSE 0)
        OBVIOUS
      <4>2. /\ Steps[m].send - guest.left - d >= 0
            /\ Shows(Steps[m].send - guest.left - d, Echoed(m + 1))
        BY <1>8, <3>4, <4>1 DEF Reading
      <4>3. PICK p \in Nat : p = Steps[m].send - guest.left - d
        BY <4>2, <3>5, <1>2
      <4>4. p <= Steps[m].send
        BY <4>3, <3>5, <1>2
      <4>5. Shows(p, Echoed(m + 1))
        BY <4>2, <4>3
      <4> QED BY <4>4, <4>5
    <3>7. PICK whole : whole = Conversation(n, c)
      OBVIOUS
    <3>8. PICK text : text = c \o Steps[n].expect
      OBVIOUS
    <3>9. /\ Len(text) \in Nat \ {0} /\ Len(whole) = Steps[m].send + Len(text)
          /\ \A i \in 1..Steps[m].send : whole[i] = Echoed(n)[i]
      <4>1. PICK k : k = Len(Echoed(n))
        OBVIOUS
      <4>2. k = Steps[m].send
        BY <3>5, <4>1
      <4>3. /\ Len(text) \in Nat \ {0} /\ Len(whole) = k + Len(text)
            /\ \A i \in 1..k : whole[i] = Echoed(n)[i]
        BY <3>7, <3>8, <4>1, ConversationParts
      <4> QED BY <4>2, <4>3
    <3>10. Len(output) \in Nat
      BY <1>2, LenProperties
    <3>11. Shows(p, whole)
      <4>1. /\ Len(output) <= p /\ (Len(output) = p \/ Len(output) = TailSize)
            /\ \A i \in 1..Len(output) : output[i] = Echoed(n)[p - Len(output) + i]
        BY <3>5, <3>6 DEF Shows
      <4>2. ASSUME NEW i \in 1..Len(output) PROVE output[i] = whole[p - Len(output) + i]
        <5>1. p - Len(output) + i \in 1..Steps[m].send
          BY <4>1, <3>5, <3>6, <3>10
        <5> QED BY <5>1, <4>1, <3>9
      <4>3. p \in 0..Len(whole)
        BY <3>5, <3>6, <3>9
      <4> QED BY <4>1, <4>2, <4>3 DEF Shows
    <3>12. p < Len(whole)
      BY <3>5, <3>6, <3>9
    <3>13. ~tail_ends_with(Steps[n].expect)
      BY <3>7, <3>11, <3>12, <1>2, NotYet
    <3> QED BY <3>2, <3>13
  <2>2. ~Prompted
    BY <1>8 DEF Reading, Prompted
  <2> QED BY <1>3, <2>1, <2>2
<1>9. CASE Halted
  <2>1. ~(cur < ExchangeCount)
    BY <1>9, <1>4 DEF Halted
  <2>2. ~Prompted
    BY <1>9 DEF Halted, Prompted
  <2> QED BY <1>3, <2>1, <2>2
<1> QED BY <1>5, <1>6, <1>7, <1>8, <1>9 DEF DialogInv

\* Every step of the loop, and of the guest, keeps the invariant.
LEMMA DialogStepKeeps == DialogInv /\ [DialogNext]_dvars => DialogInv'
<1> SUFFICES ASSUME DialogInv, [DialogNext]_dvars PROVE DialogInv'
  OBVIOUS
<1>1. CASE UNCHANGED dvars \/ ReachLimit
  <2>1. DialogStill /\ turn' = turn /\ wait' = wait
    BY <1>1 DEF dvars, vars, headless, receiver, DialogStill, ReachLimit
  <2>2. CASE frontend = "dialog"
    <3>1. DialogTypes
      BY <2>2 DEF DialogInv
    <3>2. turn' \in {"step", "input"} /\ wait' \in Nat /\ (Prompted => turn' = "input")
      BY <2>1, <3>1 DEF DialogTypes, Prompted
    <3> QED BY <2>1, <2>2, <3>2, StillKeeps
  <2>3. CASE frontend # "dialog"
    BY <2>1, <2>3 DEF DialogInv, DialogStill
  <2> QED BY <2>2, <2>3
<1>2. CASE frontend = "sdl" /\ Next /\ UNCHANGED <<frontend, headless>>
  BY <1>2 DEF DialogInv
<1>3. CASE HeadlessNext
  <2>1. frontend' = frontend
    BY <1>3 DEF HeadlessNext, PrintNext, PollTransmitter, Arm, Read, Proceed, Hold, FeedScript,
                TypeReply, MatchPrompt, Untouched
  <2> SUFFICES ASSUME frontend = "dialog" PROVE DialogInv'
    BY <2>1 DEF DialogInv
  <2>2. DialogTypes
    BY DEF DialogInv
  <2>3. CASE PollTransmitter
    <3>1. /\ DialogStill /\ turn' = "input" /\ guest.does = "print"
          /\ wait' = (IF wait > 0 THEN wait - 1 ELSE 0)
      BY <2>3 DEF PollTransmitter, Guest, Passes, Untouched, TxPoll, receiver, DialogStill
    <3>2. wait' \in Nat
      BY <2>2, <3>1 DEF DialogTypes
    <3>3. ~Arming
      BY <3>1 DEF Arming
    <3> QED BY <3>1, <3>2, <3>3, StillKeeps
  <2>4. CASE Hold
    <3>1. DialogStill /\ turn' = "step" /\ wait' = wait /\ rdone
      BY <2>4 DEF Hold, Input, vars, receiver, DialogStill
    <3>2. wait' \in Nat /\ ~Prompted
      BY <2>2, <3>1 DEF DialogTypes, Prompted
    <3> QED BY <3>1, <3>2, StillKeeps
  <2>5. ~FeedScript
    BY <2>2 DEF FeedScript, DialogTypes
  <2> QED BY <1>3, <2>3, <2>4, <2>5, PrintKeeps, ArmKeeps, ReadKeeps, ProceedKeeps, TypeKeeps, MatchKeeps
      DEF HeadlessNext
<1> QED BY <1>1, <1>2, <1>3 DEF DialogNext

\* However the guest chats before its prompts and however long it takes to read, every
\* byte of a dialog is read by the exchange whose reply it belongs to: a reply is typed
\* after its own prompt and not before the reader is there (run_boot, tail_ends_with).
THEOREM RepliesMeetTheirPrompts == DialogSpec => []RepliesMeetPrompts
<1>1. DialogInv => RepliesMeetPrompts
  BY DEF DialogInv, DialogTypes, Prompting, Prompted, Arming, Reading, Halted, RepliesMeetPrompts
<1> QED BY <1>1, DialogStarts, DialogStepKeeps, PTL DEF DialogSpec
=============================================================================
