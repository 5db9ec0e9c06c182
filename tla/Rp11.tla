-------------------------------- MODULE Rp11 --------------------------------
(***************************************************************************)
(* The RH70 adapter and its RP04 disk (devices/rp11.c): the registers that  *)
(* hold control, status and disk address, the commands, the bus request.    *)
(*                                                                         *)
(* As in Rk11, the data of a transfer is moved when the command is given    *)
(* and is left out with the memory address (BA, BAE, the inhibit bit of     *)
(* CS2) and the delay.  RPER1, which no code sets, is left out too.         *)
(***************************************************************************)
EXTENDS Integers

CONSTANTS
  Sectors, Surfaces,      \* RP_SECT, RP_SURF
  SectField, SurfField,   \* values of the two fields of RPDA
  CylField,               \* values of RPDC that GET_CY can tell apart
  SectWords,              \* RP_NUMWD
  DiskWords,              \* the size of the attached image
  WordRange               \* 2^16: RPWC counts up to it

\* An image of any size is attached, if the registers can address all of it and
\* the sector after it.
GeometryAssumption ==
  /\ Sectors \in Nat \ {0} /\ SectField \in Nat /\ Sectors <= SectField
  /\ Surfaces \in Nat \ {0} /\ SurfField \in Nat /\ Surfaces <= SurfField
  /\ CylField \in Nat \ {0}
  /\ SectWords \in Nat \ {0}
  /\ WordRange \in Nat \ {0}
  /\ DiskWords \in Nat
  /\ DiskWords + SectWords <= CylField * Surfaces * Sectors * SectWords

\* "transfer" is read and write, which differ in the data; "volume" is preset
\* and pack acknowledge; "other" is every code without a case of its own.
Functions == {"dclr", "volume", "search", "transfer", "wchk", "other"}
Timed == {"search", "transfer", "wchk"}
Status == {"VV", "ATA"}

VARIABLES
  attached,         \* an image is attached, before the run
  done, ie, func,   \* RPCS1<7>, <6>, <5:1>
  ds,               \* the bits of RPDS the controller stores
  wc,               \* RPWC: minus the word count
  da,               \* RPDA, by field
  dc, cc,           \* RPDC and RPCC, desired and current cylinder
  busy,             \* a completion is scheduled
  request,          \* the RP bit of int_req
  given             \* history: changes with every command accepted

cs1 == <<done, ie, func>>
address == <<da, dc, cc>>
vars == <<attached, cs1, ds, wc, address, busy, request, given>>

TrackAddress == [surf : 0 .. SurfField - 1, sect : 0 .. SectField - 1]

\* Every register has its width; the cylinder may exceed its field after a
\* transfer whose surface number carried into it.
TypeOK ==
  /\ attached \in BOOLEAN
  /\ done \in BOOLEAN /\ ie \in BOOLEAN /\ func \in Functions
  /\ ds \subseteq Status
  /\ wc \in 0 .. WordRange - 1
  /\ da \in TrackAddress /\ dc \in Nat /\ cc \in Nat
  /\ busy \in BOOLEAN /\ request \in BOOLEAN /\ given \in BOOLEAN

Init ==
  /\ attached \in BOOLEAN
  /\ done = TRUE /\ ie = FALSE /\ func = "other" /\ ds = {}
  /\ wc = 0 /\ da = [surf |-> 0, sect |-> 0] /\ dc = 0 /\ cc = 0
  /\ busy = FALSE /\ request = FALSE /\ given = FALSE

-----------------------------------------------------------------------------
(* Where a transfer starts and ends on the disk, in words.                  *)

\* GET_CY looks at the low bits of RPDC only.
Start(cyl, a) ==
  (((cyl % CylField) * Surfaces + a.surf) * Sectors + a.sect) * SectWords

Size == IF attached THEN DiskWords ELSE 0
Wanted == WordRange - wc

\* What is moved: nothing beyond the image, and no more than is left of it.
Moved(start) ==
  IF start >= Size THEN 0
  ELSE IF start + Wanted > Size THEN Size - start ELSE Wanted

\* Mutant of NextBlock: a partly used sector is not counted.
NextBlockRoundedDown(start, n) == start \div SectWords + n \div SectWords

\* The first sector not touched.
NextBlock(start, n) ==
  start \div SectWords + (n + SectWords - 1) \div SectWords

Transfer ==
  LET start == Start(dc, da)
      n == Moved(start)
      block == NextBlock(start, n)
      track == block \div Sectors
  IN /\ wc' = (wc + n) % WordRange
     /\ da' = [surf |-> track % Surfaces, sect |-> block % Sectors]
     /\ dc' = track \div Surfaces
     /\ cc' = track \div Surfaces

-----------------------------------------------------------------------------
(* rp_go, reached by a store to RPCS1 of function f and enable bit e while   *)
(* DONE is set.                                                             *)

\* The control half of rp_finish, which also raises attention.
Finish(e) == done' = TRUE /\ busy' = FALSE /\ request' = e

\* Commands that complete at once.  A drive clear resets attention, and its
\* completion raises it again.
Immediate(f, e) ==
  /\ f \notin Timed
  /\ ds' = ds \cup {"ATA"} \cup (IF f = "volume" THEN {"VV"} ELSE {})
  /\ Finish(e)
  /\ UNCHANGED <<wc, address>>

\* Commands that take time.  A write check compares nothing and moves no
\* address.
Begin(f) ==
  /\ f \in Timed
  /\ CASE f = "transfer" -> Transfer
       [] f = "search"   -> cc' = dc /\ UNCHANGED <<wc, da, dc>>
       [] OTHER          -> UNCHANGED <<wc, address>>
  /\ done' = FALSE /\ busy' = TRUE /\ request' = FALSE
  /\ UNCHANGED ds

\* pdp11_rp_write to RPCS1.
WriteCs1(f, e, go) ==
  /\ ie' = e /\ func' = f
  /\ \/ done /\ go /\ (Immediate(f, e) \/ Begin(f)) /\ given' = ~given
     \/ /\ ~(done /\ go)
        /\ request' = (e /\ (request \/ (done /\ ~ie)))
        /\ UNCHANGED <<done, ds, wc, address, busy, given>>
  /\ UNCHANGED attached

WriteWc(v) ==
  /\ wc' = v
  /\ UNCHANGED <<attached, cs1, ds, address, busy, request, given>>

\* RPDA and RPDC may be stored while a command is in progress.
WriteDa(a) ==
  /\ da' = a
  /\ UNCHANGED <<attached, cs1, ds, wc, dc, cc, busy, request, given>>

WriteDc(c) ==
  /\ dc' = c
  /\ UNCHANGED <<attached, cs1, ds, wc, da, cc, busy, request, given>>

\* Mutant of ControllerClear: the completion stays scheduled.
ControllerClearKeepsBusy ==
  /\ done' = TRUE /\ ie' = FALSE /\ func' = "other" /\ request' = FALSE
  /\ UNCHANGED <<attached, ds, wc, address, busy, given>>

\* The CLR bit of RPCS2, and RESET: the drive's own registers stay.
ControllerClear ==
  /\ done' = TRUE /\ ie' = FALSE /\ func' = "other"
  /\ busy' = FALSE /\ request' = FALSE
  /\ UNCHANGED <<attached, ds, wc, address, given>>

\* pdp11_rp_poll, once the deadline has passed.
Poll ==
  /\ busy
  /\ ds' = ds \cup {"ATA"}
  /\ Finish(ie)
  /\ UNCHANGED <<attached, ie, func, wc, address, given>>

Grant ==
  /\ request
  /\ request' = FALSE
  /\ UNCHANGED <<attached, cs1, ds, wc, address, busy, given>>

Next ==
  \/ \E f \in Functions, e \in BOOLEAN, go \in BOOLEAN : WriteCs1(f, e, go)
  \/ \E v \in 0 .. WordRange - 1 : WriteWc(v)
  \/ \E a \in TrackAddress : WriteDa(a)
  \/ \E c \in 0 .. CylField - 1 : WriteDc(c)
  \/ ControllerClear \/ Poll \/ Grant

Spec == Init /\ [][Next]_vars

-----------------------------------------------------------------------------

\* The controller is either ready for a command or has one scheduled: a
\* completion left over from a cleared command cannot end a later one.
DoneXorBusy == done <=> ~busy

\* The bus request is an edge latch on DONE and IE, through stores to RPCS1
\* while busy, controller clear and completion: a completion left over from a
\* cleared command would request once more of a device that is ready.
Latch == INSTANCE InterruptSource
           WITH enabled <- ie, ready <- done, given <- given, request <- request
LatchesInterrupt == Latch!Spec

\* A read or write was accepted in this step.
TransferStarts == ~busy /\ busy' /\ func' = "transfer"

\* The surface and sector fields do not carry past the last cylinder that
\* RPDC can name.
Addressable(start) == start < CylField * Surfaces * Sectors * SectWords

\* A transfer stays in the image and leaves RPDC and RPDA at the first sector
\* it did not touch, however odd the surface and sector numbers it was given;
\* one that starts beyond the image leaves them there, so that repeating it
\* moves nothing either.
AddressAdvances ==
  [][TransferStarts /\ Addressable(Start(dc, da)) =>
       LET start == Start(dc, da)
           end == start + Moved(start)
       IN /\ start <= end /\ (Moved(start) > 0 => end <= Size)
          /\ Start(dc', da') \in end .. end + SectWords - 1
          /\ da'.sect < Sectors /\ da'.surf < Surfaces
          /\ cc' = dc']_vars

\* With no error register to look at, the word count is all that tells a
\* program of a short transfer; it does, except for one of the full 2^16
\* words that starts beyond the image.
ShortTransferShows ==
  [][TransferStarts =>
       LET start == Start(dc, da)
       IN wc' = 0 <=> \/ start + Wanted <= Size
                      \/ wc = 0 /\ start >= Size]_vars

\* Both: what a transfer leaves in the address and the word count is true of what
\* it moved.
TransfersAccounted == AddressAdvances /\ ShortTransferShows
=============================================================================
