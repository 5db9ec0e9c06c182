-------------------------------- MODULE Rk11 --------------------------------
(***************************************************************************)
(* The RK11 disk controller (devices/rk11.c): its registers as a program    *)
(* sees them, the commands it accepts, and its bus request.                 *)
(*                                                                         *)
(* The data of a transfer is moved when the command is given and does not   *)
(* appear here; what it does to the word count and the disk address does.   *)
(* The completion delay is abstracted to a later Poll (Events.tla has the   *)
(* deadlines).  RKBA, which nothing here reads back, is left out.           *)
(***************************************************************************)
EXTENDS Integers

CONSTANTS
  Drives,       \* values of the drive field of RKDA; only 0 can be attached
  Sectors,      \* RK_NUMSC
  Cylinders,    \* RK_NUMCY
  SectField,    \* values of the sector field of RKDA
  CylField,     \* values of the cylinder field of RKDA
  SectWords,    \* RK_NUMWD
  DiskWords,    \* the size of the attached image
  WordRange     \* 2^16: RKWC counts up to it

Surfaces == 2

\* The frontends allocate at least a whole disk for the image they attach.  The
\* cylinder field has room for a transfer of every word count that starts on
\* the last cylinder, so no image, however large, carries it over.
ASSUME GeometryAssumption ==
  /\ Drives \in Nat \ {0}
  /\ Sectors \in Nat \ {0} /\ SectField \in Nat /\ Sectors <= SectField
  /\ Cylinders \in Nat \ {0} /\ CylField \in Nat
  /\ SectWords \in Nat \ {0}
  /\ WordRange \in Nat \ {0}
  /\ DiskWords \in Nat
  /\ DiskWords >= Cylinders * Surfaces * Sectors * SectWords
  /\ Cylinders * Surfaces * Sectors * SectWords + WordRange
       <= CylField * Surfaces * Sectors * SectWords

\* "transfer" is read and write, which differ in the data.
Functions == {"creset", "transfer", "wchk", "seek", "rchk", "dreset", "wlk"}
Transfers == {"transfer", "wchk"}
Errors == {"NXS", "NXC", "NXD", "OVR", "WCE"}
Address == [drive : 0 .. Drives - 1, cyl : 0 .. CylField - 1,
            surf : 0 .. Surfaces - 1, sect : 0 .. SectField - 1]

VARIABLES
  attached,         \* a frontend has attached an image to drive 0, before the run
  done, ie, func,   \* RKCS<7>, <6>, <3:1>
  rker,             \* RKER, as a set of errors
  rkwc,             \* RKWC: minus the word count
  rkda,             \* RKDA, by field
  busy,             \* a completion is scheduled
  request,          \* the RK bit of int_req
  given             \* history: changes with every command accepted

csr == <<done, ie, func>>
vars == <<attached, csr, rker, rkwc, rkda, busy, request, given>>

\* Every register has its width; that a cylinder stays within its field is part
\* of AddressAdvances.
TypeOK ==
  /\ attached \in BOOLEAN
  /\ done \in BOOLEAN /\ ie \in BOOLEAN /\ func \in Functions
  /\ rker \subseteq Errors
  /\ rkwc \in 0 .. WordRange - 1
  /\ rkda \in [drive : 0 .. Drives - 1, cyl : Nat,
               surf : 0 .. Surfaces - 1, sect : 0 .. SectField - 1]
  /\ busy \in BOOLEAN /\ request \in BOOLEAN /\ given \in BOOLEAN

Home == [drive |-> 0, cyl |-> 0, surf |-> 0, sect |-> 0]

Init ==
  /\ attached \in BOOLEAN
  /\ done = TRUE /\ ie = FALSE /\ func = "creset"
  /\ rker = {} /\ rkwc = 0 /\ rkda = Home
  /\ busy = FALSE /\ request = FALSE /\ given = FALSE

-----------------------------------------------------------------------------
(* Where a transfer starts and ends on the disk, in words.                  *)

Start(a) == ((a.cyl * Surfaces + a.surf) * Sectors + a.sect) * SectWords

\* The words asked for, and those moved: trimmed at the end of the disk.
Wanted(wc) == WordRange - wc

Overruns(a, wc) == Start(a) + Wanted(wc) > DiskWords

Moved(a, wc) == IF Overruns(a, wc) THEN DiskWords - Start(a) ELSE Wanted(wc)

\* Mutant of Advanced: a partly used sector is not counted.
AdvancedRoundedDown(a, n) ==
  LET block == (Start(a) + n) \div SectWords
      track == block \div Sectors
  IN [a EXCEPT !.cyl = track \div Surfaces, !.surf = track % Surfaces,
               !.sect = block % Sectors]

\* RKDA after a transfer of n words: the first sector not touched.
Advanced(a, n) ==
  LET block == (Start(a) + n + SectWords - 1) \div SectWords
      track == block \div Sectors
  IN [a EXCEPT !.cyl = track \div Surfaces, !.surf = track % Surfaces,
               !.sect = block % Sectors]

-----------------------------------------------------------------------------
(* rk_go, reached by a store to RKCS of function f and interrupt enable e   *)
(* while DONE is set.                                                       *)

ControlReset(f) ==
  /\ f = "creset"
  /\ done' = TRUE /\ ie' = FALSE /\ func' = "creset"
  /\ rker' = {} /\ rkda' = Home
  /\ busy' = FALSE /\ request' = FALSE
  /\ UNCHANGED rkwc

\* rk_finish: DONE, and the request that goes with it.
Finish(e) ==
  /\ done' = TRUE /\ busy' = FALSE /\ request' = e

\* What makes a command fail at once, in the order the code looks.
Refusal(f) ==
  IF ~attached \/ rkda.drive # 0 THEN "NXD"
  ELSE IF f \in {"wlk", "dreset"} THEN "none"
  ELSE IF rkda.sect >= Sectors THEN "NXS"
  ELSE IF rkda.cyl >= Cylinders THEN "NXC"
  ELSE "none"

Refuse(f, e) ==
  /\ f # "creset" /\ Refusal(f) # "none"
  /\ rker' = rker \cup {Refusal(f)}
  /\ Finish(e)
  /\ UNCHANGED <<rkwc, rkda>>

WriteLock(f, e) ==
  /\ f = "wlk" /\ Refusal(f) = "none"
  /\ Finish(e)
  /\ UNCHANGED <<rker, rkwc, rkda>>

\* rk_transfer; a write check may find a difference in any word it compares.
Transfer(f) ==
  LET n == Moved(rkda, rkwc)
      overrun == IF Overruns(rkda, rkwc) THEN {"OVR"} ELSE {}
  IN /\ \E found \in SUBSET {"WCE"} :
          /\ found # {} => f = "wchk" /\ n > 0
          /\ rker' = rker \cup overrun \cup found
     /\ rkwc' = (rkwc + n) % WordRange
     /\ rkda' = Advanced(rkda, n)

\* A command that takes time: DONE is clear until the poll finds it due.
Begin(f) ==
  /\ f \notin {"creset", "wlk"} /\ Refusal(f) = "none"
  /\ IF f \in Transfers THEN Transfer(f) ELSE UNCHANGED <<rker, rkwc, rkda>>
  /\ done' = FALSE /\ busy' = TRUE /\ request' = FALSE

Go(f, e) ==
  \/ ControlReset(f)
  \/ /\ ie' = e /\ func' = f
     /\ Refuse(f, e) \/ WriteLock(f, e) \/ Begin(f)

\* Mutant of Requested: every store with the enable bit requests, not the first.
RequestedEveryStore(e) == e /\ (request \/ done)

\* The request after a store of enable bit e: raised if DONE is set and IE was not.
Requested(e) == e /\ (request \/ (done /\ ~ie))

\* pdp11_rk_write to RKCS.  Without GO, or while busy, only the writable bits
\* change, and the request follows the enable bit.
WriteCsr(f, e, go) ==
  /\ UNCHANGED attached
  /\ \/ done /\ go /\ Go(f, e) /\ given' = ~given
     \/ /\ ~(done /\ go)
        /\ ie' = e /\ func' = f
        /\ request' = Requested(e)
        /\ UNCHANGED <<done, rker, rkwc, rkda, busy, given>>

WriteWc(v) ==
  /\ rkwc' = v
  /\ UNCHANGED <<attached, csr, rker, rkda, busy, request, given>>

\* RKDA is writable only when idle.
WriteDa(a) ==
  /\ rkda' = IF done THEN a ELSE rkda
  /\ UNCHANGED <<attached, csr, rker, rkwc, busy, request, given>>

\* pdp11_rk_poll, once the deadline has passed.
Poll ==
  /\ busy
  /\ Finish(ie)
  /\ UNCHANGED <<attached, ie, func, rker, rkwc, rkda, given>>

\* The processor grants the request; RESET re-initialises the controller but
\* leaves the word count and the disk address alone.
Grant ==
  /\ request
  /\ request' = FALSE
  /\ UNCHANGED <<attached, csr, rker, rkwc, rkda, busy, given>>

Reset ==
  /\ done' = TRUE /\ ie' = FALSE /\ func' = "creset"
  /\ rker' = {} /\ busy' = FALSE /\ request' = FALSE
  /\ UNCHANGED <<attached, rkwc, rkda, given>>

Next ==
  \/ \E f \in Functions, e \in BOOLEAN, go \in BOOLEAN : WriteCsr(f, e, go)
  \/ \E v \in 0 .. WordRange - 1 : WriteWc(v)
  \/ \E a \in Address : WriteDa(a)
  \/ Poll \/ Grant \/ Reset

Spec == Init /\ [][Next]_vars

-----------------------------------------------------------------------------

\* The controller is either ready for a command or has one scheduled, never
\* both and never neither: a stale completion cannot end a later command.
DoneXorBusy == done <=> ~busy

\* The controller's bus request is an edge latch on DONE and IE: no completion
\* goes unannounced and none is announced twice, whatever is stored meanwhile.
Latch == INSTANCE InterruptSource
           WITH enabled <- ie, ready <- done, given <- given, request <- request
LatchesInterrupt == Latch!Spec

\* A data command was accepted in this step.
TransferStarts == ~busy /\ busy' /\ func' \in Transfers

\* A transfer never leaves the image, and leaves RKDA at the start of the
\* first sector it did not touch: a chain of transfers has no gap or overlap.
AddressAdvances ==
  [][TransferStarts =>
       LET end == Start(rkda) + Moved(rkda, rkwc)
       IN /\ Start(rkda) <= end /\ end <= DiskWords
          /\ Start(rkda') \in end .. end + SectWords - 1
          /\ rkda' \in Address /\ rkda'.sect < Sectors]_vars

\* A program can tell a short transfer by the word count alone, and OVR tells
\* it too; the address it leaves is then one the controller refuses, so a
\* careless retry cannot wrap round to the start of the disk.
ShortTransferShows ==
  [][TransferStarts =>
       /\ (rkwc' # 0) <=> Overruns(rkda, rkwc)
       /\ rkwc' # 0 => "OVR" \in rker' /\ rkda'.cyl >= Cylinders]_vars

\* Both: what a transfer leaves in the address and the word count is true of what
\* it moved.
TransfersAccounted == AddressAdvances /\ ShortTransferShows
=============================================================================
