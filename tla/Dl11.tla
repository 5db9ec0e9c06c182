-------------------------------- MODULE Dl11 --------------------------------
(***************************************************************************)
(* The DL11 console (console/console.c) and the graphical frontend's        *)
(* keyboard ring that feeds it (frontend/sdl/main.c).  The two halves of    *)
(* the DL11 share nothing but the RESET instruction.                        *)
(*                                                                         *)
(* Keystrokes are numbered 1, 2, 3, ... in the order they are typed, so     *)
(* that a lost or reordered one can be seen.  What is transmitted goes      *)
(* straight to the sink and is left out; the character time is abstracted   *)
(* to a later TxPoll (Events.tla has the deadlines).                        *)
(***************************************************************************)
EXTENDS Integers

CONSTANTS
  RingSize,   \* sizeof kbd: 256
  MaxTyped    \* bound: keystrokes in the instance

ASSUME RingAssumption == RingSize \in Nat \ {0} /\ MaxTyped \in Nat

VARIABLES
  kbd, head, tail,         \* the ring: kbd[head] is the oldest keystroke
  rdone, rie, rbuf, rreq,  \* RCSR<7>, <6>, RBUF, the TTI bit of int_req
  xdone, xie, xbusy, xreq, \* XCSR<7>, <6>, tto_busy, the TTO bit of int_req
  typed,                   \* keystrokes so far
  received,                \* those a program read from RBUF while DONE was set
  full,                    \* those typed into a full ring
  cleared                  \* those in RBUF, unread, when a RESET was executed

ring == <<kbd, head, tail>>
receiver == <<rdone, rie, rbuf, rreq>>
transmitter == <<xdone, xie, xbusy, xreq>>
history == <<typed, received, full, cleared>>
vars == <<ring, receiver, transmitter, history>>

Slots == 0 .. RingSize - 1
Keys == 0 .. MaxTyped     \* 0 stands for no keystroke

\* Every variable has its type.
TypeOK ==
  /\ kbd \in [Slots -> Keys] /\ head \in Slots /\ tail \in Slots
  /\ rdone \in BOOLEAN /\ rie \in BOOLEAN /\ rbuf \in Keys /\ rreq \in BOOLEAN
  /\ xdone \in BOOLEAN /\ xie \in BOOLEAN /\ xbusy \in BOOLEAN /\ xreq \in BOOLEAN
  /\ typed \in Keys
  /\ received \subseteq Keys /\ full \subseteq Keys /\ cleared \subseteq Keys

\* pdp11_cpu_reset, and the frontend's empty ring.
Init ==
  /\ kbd = [i \in Slots |-> 0] /\ head = 0 /\ tail = 0
  /\ rdone = FALSE /\ rie = FALSE /\ rbuf = 0 /\ rreq = FALSE
  /\ xdone = TRUE /\ xie = FALSE /\ xbusy = FALSE /\ xreq = FALSE
  /\ typed = 0 /\ received = {} /\ full = {} /\ cleared = {}

-----------------------------------------------------------------------------
(* The frontend.                                                            *)

After(slot) == (slot + 1) % RingSize

\* KBD_PUSH: one slot always stays free, and a keystroke into a full ring is
\* dropped.
Type ==
  /\ typed < MaxTyped
  /\ typed' = typed + 1
  /\ IF After(tail) # head
     THEN /\ kbd' = [kbd EXCEPT ![tail] = typed']
          /\ tail' = After(tail)
          /\ UNCHANGED full
     ELSE /\ full' = full \cup {typed'}
          /\ UNCHANGED <<kbd, tail>>
  /\ UNCHANGED <<head, receiver, transmitter, received, cleared>>

\* Mutants of Feed: the receiver is not waited for; the newest keystroke is taken.
FeedAlways ==
  /\ head # tail
  /\ rbuf' = kbd[head] /\ rdone' = TRUE
  /\ rreq' = (rreq \/ rie)
  /\ head' = After(head)
  /\ UNCHANGED <<kbd, tail, rie, transmitter, history>>

FeedNewest ==
  /\ head # tail /\ ~rdone
  /\ tail' = (tail - 1) % RingSize
  /\ rbuf' = kbd[tail'] /\ rdone' = TRUE
  /\ rreq' = (rreq \/ rie)
  /\ UNCHANGED <<kbd, head, rie, transmitter, history>>

\* Before a step: the oldest keystroke goes to the receiver once it is ready
\* (pdp11_console_input).
Feed ==
  /\ head # tail /\ ~rdone
  /\ rbuf' = kbd[head] /\ rdone' = TRUE
  /\ rreq' = (rreq \/ rie)
  /\ head' = After(head)
  /\ UNCHANGED <<kbd, tail, rie, transmitter, history>>

-----------------------------------------------------------------------------
(* The registers.                                                           *)

ReadRbuf ==
  /\ received' = IF rdone THEN received \cup {rbuf} ELSE received
  /\ rdone' = FALSE /\ rreq' = FALSE
  /\ UNCHANGED <<ring, rie, rbuf, transmitter, typed, full, cleared>>

\* Mutant of Requested: every store with the enable bit requests, not the first.
RequestedEveryStore(e, done, ie, req) == e /\ (req \/ done)

\* A store of enable bit e to a CSR whose DONE and IE bits are done and ie: the
\* request it leaves.
Requested(e, done, ie, req) == e /\ (req \/ (done /\ ~ie))

WriteRcsr(e) ==
  /\ rie' = e
  /\ rreq' = Requested(e, rdone, rie, rreq)
  /\ UNCHANGED <<ring, rdone, rbuf, transmitter, history>>

WriteXcsr(e) ==
  /\ xie' = e
  /\ xreq' = Requested(e, xdone, xie, xreq)
  /\ UNCHANGED <<ring, receiver, xdone, xbusy, history>>

\* A store to XBUF starts a transmit, or starts it again.
WriteXbuf ==
  /\ xdone' = FALSE /\ xreq' = FALSE /\ xbusy' = TRUE
  /\ UNCHANGED <<ring, receiver, xie, history>>

\* pdp11_console_tx_poll, once the character time has passed.
TxPoll ==
  /\ xbusy
  /\ xbusy' = FALSE /\ xdone' = TRUE
  /\ xreq' = (xreq \/ xie)
  /\ UNCHANGED <<ring, receiver, xie, history>>

-----------------------------------------------------------------------------
(* The processor grants a request, or executes RESET, which leaves the ring *)
(* and RBUF alone but marks the receiver idle.                              *)

GrantReceiver ==
  /\ rreq /\ rreq' = FALSE
  /\ UNCHANGED <<ring, rdone, rie, rbuf, transmitter, history>>

GrantTransmitter ==
  /\ xreq /\ xreq' = FALSE
  /\ UNCHANGED <<ring, receiver, xdone, xie, xbusy, history>>

Reset ==
  /\ rdone' = FALSE /\ rie' = FALSE /\ rreq' = FALSE
  /\ xdone' = TRUE /\ xie' = FALSE /\ xbusy' = FALSE /\ xreq' = FALSE
  /\ cleared' = IF rdone THEN cleared \cup {rbuf} ELSE cleared
  /\ UNCHANGED <<ring, rbuf, typed, received, full>>

Next ==
  \/ Type \/ Feed
  \/ ReadRbuf \/ WriteXbuf \/ TxPoll
  \/ \E e \in BOOLEAN : WriteRcsr(e) \/ WriteXcsr(e)
  \/ GrantReceiver \/ GrantTransmitter \/ Reset

Spec == Init /\ [][Next]_vars

-----------------------------------------------------------------------------

\* The slots in use, oldest first, and the keystrokes in them.
Queued == {(head + i) % RingSize : i \in 0 .. ((tail - head) % RingSize) - 1}
Waiting == {kbd[s] : s \in Queued}

InReceiver == IF rdone THEN {rbuf} ELSE {}

\* Every keystroke is in exactly one place: in the ring, in the receiver, read
\* by the program, dropped because the ring was full, or forgotten by RESET.
\* None is overwritten in RBUF by the next one, and none is read twice.
EveryKeyAccounted ==
  LET place == <<Waiting, InReceiver, received, full, cleared>>
  IN /\ UNION {place[i] : i \in 1..5} = 1 .. typed
     /\ \A i, j \in 1..5 : i # j => place[i] \cap place[j] = {}

\* A program reads keystrokes in the order they were typed.
ReadInOrder ==
  [][\A k \in received' \ received : \A j \in received : j < k]_vars

\* The transmitter is either ready or has a completion scheduled: a program
\* that polls DONE before each character never finds it clear with none due.
ReadyXorBusy == xdone <=> ~xbusy

\* Each half requests an interrupt exactly on the edge of DONE and IE, however
\* stores, keystrokes, completions and RESET interleave: once for each edge.  A
\* character takes its time, so that none is sent within the step that stores it.
ReceiverLatch == INSTANCE InterruptSource
                   WITH enabled <- rie, ready <- rdone, given <- FALSE, request <- rreq
TransmitterLatch == INSTANCE InterruptSource
                      WITH enabled <- xie, ready <- xdone, given <- FALSE, request <- xreq
LatchesInterrupts == ReceiverLatch!Spec /\ TransmitterLatch!Spec
=============================================================================
