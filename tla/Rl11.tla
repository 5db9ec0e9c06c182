-------------------------------- MODULE Rl11 --------------------------------
(***************************************************************************)
(* The RL11 disk controller (devices/rl11.c).  A store to RLCS with the     *)
(* DONE bit clear is a command; with the bit set it is not, but the bit is  *)
(* among those the store writes, even while a command is in progress.       *)
(*                                                                         *)
(* As in Rk11.tla the data of a transfer is left out, what it does to the   *)
(* registers is kept, and the delay is abstracted to a later Poll.  DRDY    *)
(* and the error summary, recomputed by each read, are left out, as are     *)
(* RLBA and RLBAE.                                                          *)
(***************************************************************************)
EXTENDS Integers

CONSTANTS
  Sectors,      \* RL_NUMSC
  Cylinders,    \* of the attached drive, RL01 or RL02
  SectField,    \* values of the sector field of RLDA
  CylField,     \* values of the cylinder field of RLDA
  SectWords,    \* RL_NUMWD
  WordRange     \* 2^16: RLMP counts up to it

Surfaces == 2

PackWords == Cylinders * Surfaces * Sectors * SectWords

GeometryAssumption ==
  /\ Sectors \in Nat \ {0} /\ SectField \in Nat /\ Sectors < SectField
  /\ Cylinders \in Nat \ {0} /\ CylField \in Nat /\ Cylinders <= CylField
  /\ SectWords \in Nat \ {0}
  /\ WordRange \in Nat \ {0}

\* "transfer" is read, read without header and write, which differ in the data.
Functions == {"nop", "wchk", "gsta", "seek", "rhdr", "transfer"}
Transfers == {"wchk", "transfer"}
Errors == {"INCMP", "CRC", "DRE"}
Address == [cyl : 0 .. CylField - 1, surf : 0 .. Surfaces - 1,
            sect : 0 .. SectField - 1]

VARIABLES
  attached,         \* a frontend has attached a disk image, before the run
  done, ie, func,   \* RLCS<7>, <6>, <3:1>
  err,              \* the error bits of RLCS that a command can set
  rlmp,             \* RLMP: minus the word count, or a status word
  rlda,             \* RLDA in its read/write format
  trk,              \* where the heads are, in the same format
  busy,             \* a completion is scheduled
  request           \* the RL bit of int_req

csr == <<done, ie, func, err>>
vars == <<attached, csr, rlmp, rlda, trk, busy, request>>

\* Every register has its width.
TypeOK ==
  /\ attached \in BOOLEAN
  /\ done \in BOOLEAN /\ ie \in BOOLEAN /\ func \in Functions
  /\ err \subseteq Errors
  /\ rlmp \in 0 .. WordRange - 1
  /\ rlda \in Address /\ trk \in Address
  /\ busy \in BOOLEAN /\ request \in BOOLEAN

Home == [cyl |-> 0, surf |-> 0, sect |-> 0]

Init ==
  /\ attached \in BOOLEAN
  /\ done = TRUE /\ ie = FALSE /\ func = "nop" /\ err = {}
  /\ rlmp = 0 /\ rlda = Home /\ trk = Home
  /\ busy = FALSE /\ request = FALSE

-----------------------------------------------------------------------------
(* rl_transfer.                                                             *)

Track(a) == a.cyl * Surfaces + a.surf

Start(a) == (Track(a) * Sectors + a.sect) * SectWords

Wanted(mp) == WordRange - mp

\* What is left of the track.  The code computes it without a sign: beyond the
\* last sector it is larger than any word count, and nothing is trimmed.
LeftOnTrack(a) ==
  IF a.sect > Sectors THEN WordRange ELSE (Sectors - a.sect) * SectWords

Least(m, n) == IF m < n THEN m ELSE n

\* Mutant of Moved: trimmed to the track only.
MovedOnTrack(a, mp) == Least(Wanted(mp), LeftOnTrack(a))

\* The words moved: trimmed to the track, then to the drive.
Moved(a, mp) ==
  LET n == Least(Wanted(mp), LeftOnTrack(a))
  IN IF Start(a) + n <= PackWords THEN n
     ELSE IF PackWords > Start(a) THEN PackWords - Start(a) ELSE 0

OffTheEnd(a, mp) ==
  Start(a) + Least(Wanted(mp), LeftOnTrack(a)) > PackWords

\* RLDA is one number to the code: its sector field carries into the surface
\* and its surface into the cylinder.
Advanced(a, n) ==
  LET fields == (Track(a) * SectField + a.sect)
                + (n + SectWords - 1) \div SectWords
      track == fields \div SectField
  IN [cyl |-> (track \div Surfaces) % CylField, surf |-> track % Surfaces,
      sect |-> fields % SectField]

-----------------------------------------------------------------------------
(* rl_go, reached by a store of function f and enable e with DONE clear.    *)

\* rl_finish.
Finish(e, errors) ==
  /\ done' = TRUE /\ busy' = FALSE /\ request' = e
  /\ err' = errors

\* Commands that end at once.  A status request needs its marker in RLDA.
AtOnce(f, e) ==
  /\ \/ ~attached /\ Finish(e, {"INCMP", "DRE"}) /\ UNCHANGED rlmp
     \/ attached /\ f = "nop" /\ Finish(e, {}) /\ UNCHANGED rlmp
     \/ attached /\ f = "gsta" /\ Finish(e, {"INCMP"}) /\ UNCHANGED rlmp
     \/ attached /\ f = "gsta" /\ Finish(e, {}) /\ rlmp' \in 0 .. WordRange - 1
  /\ UNCHANGED <<rlda, trk>>

\* Mutant of Begin: an earlier request is left pending.
BeginKeepsRequest == done' = FALSE /\ busy' = TRUE /\ UNCHANGED request

Begin == done' = FALSE /\ busy' = TRUE /\ request' = FALSE

\* The heads move by the difference in RLDA, no further than the drive goes.
Clamped(c) == IF c >= Cylinders THEN Cylinders - 1 ELSE IF c < 0 THEN 0 ELSE c

Seek(f) ==
  /\ attached /\ f = "seek" /\ Begin
  /\ \E out \in BOOLEAN, head \in 0 .. Surfaces - 1 :
       LET new == IF out THEN trk.cyl + rlda.cyl ELSE trk.cyl - rlda.cyl
       IN trk' = [cyl |-> Clamped(new), surf |-> head, sect |-> 0]
  /\ err' = {}
  /\ UNCHANGED <<rlmp, rlda>>

\* Read header: RLMP is the head position, some bits of a word.
ReadHeader(f) ==
  /\ attached /\ f = "rhdr" /\ Begin
  /\ rlmp' \in 0 .. WordRange - 1
  /\ err' = {}
  /\ UNCHANGED <<rlda, trk>>

Transfer(f) ==
  LET n == Moved(rlda, rlmp)
      short == OffTheEnd(rlda, rlmp) \/ rlmp' # 0
  IN /\ attached /\ f \in Transfers /\ Begin
     /\ rlmp' = (rlmp + n) % WordRange
     /\ \E found \in SUBSET {"CRC"} :
          /\ found # {} => f = "wchk" /\ n > 0
          /\ err' = found \cup (IF short THEN {"INCMP"} ELSE {})
     /\ rlda' = Advanced(rlda, n)
     /\ trk' = rlda'

Go(f, e) == AtOnce(f, e) \/ Seek(f) \/ ReadHeader(f) \/ Transfer(f)

\* pdp11_rl_write to RLCS; d is the DONE bit of the word stored.  Without it
\* the prior errors and request are cleared and the command runs, busy or not.
WriteCsr(f, e, d) ==
  /\ UNCHANGED attached
  /\ ie' = e /\ func' = f
  /\ \/ ~d /\ Go(f, e)
     \/ /\ d
        /\ done' = TRUE
        /\ request' = e
        /\ UNCHANGED <<err, rlmp, rlda, trk, busy>>

WriteMp(v) ==
  /\ rlmp' = v
  /\ UNCHANGED <<attached, csr, rlda, trk, busy, request>>

WriteDa(a) ==
  /\ rlda' = a
  /\ UNCHANGED <<attached, csr, rlmp, trk, busy, request>>

\* pdp11_rl_poll, once the deadline has passed: errors already noted stay.
Poll ==
  /\ busy
  /\ Finish(ie, err)
  /\ UNCHANGED <<attached, ie, func, rlmp, rlda, trk>>

Grant ==
  /\ request
  /\ request' = FALSE
  /\ UNCHANGED <<attached, csr, rlmp, rlda, trk, busy>>

\* The RESET instruction drops every bus request and leaves this controller's
\* registers, and a command in progress, as they are.
Reset ==
  /\ request' = FALSE
  /\ UNCHANGED <<attached, csr, rlmp, rlda, trk, busy>>

Next ==
  \/ \E f \in Functions, e \in BOOLEAN, d \in BOOLEAN : WriteCsr(f, e, d)
  \/ \E v \in 0 .. WordRange - 1 : WriteMp(v)
  \/ \E a \in Address : WriteDa(a)
  \/ Poll \/ Grant \/ Reset

Spec == Init /\ [][Next]_vars

-----------------------------------------------------------------------------

\* The controller requests only while ready and enabled, although it has two
\* ways to become ready and RESET a third to drop the request.
RequestMeansReady == TypeOK /\ (request => done /\ ie)

\* A data command runs in this step, be it a restart of the one in progress.
TransferStarts == \E f \in Transfers : func' = f /\ Transfer(f)

\* Whatever RLDA holds, a transfer touches only the drive's own words, and a
\* seek leaves the heads on a cylinder the drive has, wherever an earlier
\* transfer to an address beyond it has put them.
StaysOnDrive ==
  [][/\ TransferStarts =>
          \/ Moved(rlda, rlmp) = 0
          \/ Start(rlda) + Moved(rlda, rlmp) <= PackWords
     /\ trk' # trk /\ func' = "seek" => trk'.cyl \in 0 .. Cylinders - 1]_vars

-----------------------------------------------------------------------------
(* What the comments of the source say, and the code does not do.          *)

\* rl11.c: "A transfer may not cross a track boundary".
StaysOnTrack ==
  [][TransferStarts =>
       \/ Moved(rlda, rlmp) = 0
       \/ Start(rlda) + Moved(rlda, rlmp)
            <= (Track(rlda) + 1) * Sectors * SectWords]_vars

\* cpu.c: "RESET: bus INIT clears device state".
ResetClears == [][Reset => ~busy' /\ ~ie']_vars
=============================================================================
