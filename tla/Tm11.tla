-------------------------------- MODULE Tm11 --------------------------------
(***************************************************************************)
(* The TM11 tape controller and its drive (devices/tm11.c): registers,      *)
(* commands, the position on the tape and the framing of its records.       *)
(*                                                                         *)
(* The image is the .tap format seen two bytes at a time: a record is its   *)
(* length, its data padded to a whole cell, and its length again, where a   *)
(* length takes two cells; a tape mark is a length of zero.  A length is    *)
(* kept in the first of its two cells, all other cells hold Data.           *)
(*                                                                         *)
(* A command runs when its delay has passed, from the registers as they     *)
(* are then.  The data moved, MTCMA, MTD and MTRD are left out.             *)
(***************************************************************************)
EXTENDS Integers

CONSTANTS
  Cells,        \* the length of the image, in cells
  Images,       \* the images a tape may start with
  CountRange    \* 2^16: MTBRC counts up to it

Data == -1      \* a cell that is not the first of a length
NoRecord == -2  \* what tap_len_at says beyond the image
Cell == Data .. CountRange - 1

ASSUME ImageAssumption ==
  /\ Cells \in Nat /\ CountRange \in Nat \ {0}
  /\ Images \subseteq [0 .. Cells - 1 -> Cell]

Header == 2
Padded(n) == (n + 1) \div 2

\* Where a record of n bytes that starts at `at' ends.
After(at, n) == at + Header + Padded(n) + Header

\* Where the record or mark of an image that starts at `at' ends.
EndOf(image, at) == IF image[at] = 0 THEN at + Header ELSE After(at, image[at])

\* The tape is attached with an image that is whole records and marks, one behind
\* the other: each has its length at both ends, and the last ends with the image.
ASSUME RecordsAssumption ==
  \A image \in Images : \E starts \in SUBSET (0 .. Cells) :
    /\ 0 \in starts /\ Cells \in starts
    /\ \A at \in starts \ {Cells} :
         /\ at + Header <= Cells /\ image[at] >= 0 /\ EndOf(image, at) \in starts
         /\ image[EndOf(image, at) - Header] = image[at]
         /\ \A later \in starts : at < later => EndOf(image, at) <= later

\* "write" also stands for write with extended gap, "rewind" for unload.
Functions == {"read", "write", "mark", "spacef", "spacer", "rewind"}
Writes == {"write", "mark"}
Errors == {"ILL", "EOF", "RLE"}

VARIABLES
  attached, wrp,    \* an image is attached, and write-protected
  done, ie, func,   \* MTC<7>, <6>, <3:1>
  sta,              \* the error bits of MTS, as stored
  bc,               \* MTBRC: minus the byte count
  tape,             \* the image
  pos,              \* the position on it
  busy,             \* a command is scheduled
  request,          \* the TM bit of int_req
  given,            \* history: changes with every command accepted
  dataEnd           \* history: where the records written last, or attached, end

mtc == <<done, ie, func>>
medium == <<tape, pos, dataEnd>>
vars == <<attached, wrp, mtc, sta, bc, medium, busy, request, given>>

\* Every register has its width and the position is on the tape.
TypeOK ==
  /\ attached \in BOOLEAN /\ wrp \in BOOLEAN
  /\ done \in BOOLEAN /\ ie \in BOOLEAN /\ func \in Functions
  /\ sta \subseteq Errors
  /\ bc \in 0 .. CountRange - 1
  /\ tape \in [0 .. Cells - 1 -> Cell]
  /\ pos \in 0 .. Cells /\ dataEnd \in 0 .. Cells
  /\ busy \in BOOLEAN /\ request \in BOOLEAN /\ given \in BOOLEAN

Init ==
  /\ attached \in BOOLEAN /\ wrp \in BOOLEAN
  /\ done = TRUE /\ ie = FALSE /\ func = "rewind" /\ sta = {} /\ bc = 0
  /\ tape \in Images /\ pos = 0 /\ dataEnd = Cells
  /\ busy = FALSE /\ request = FALSE /\ given = FALSE

-----------------------------------------------------------------------------
(* Records on the tape.                                                     *)

\* Mutant of Before: the data is not padded.
BeforeUnpadded(at, n) ==
  IF n = 0 THEN at - Header ELSE at - (Header + n \div 2 + Header)

\* Where the record or mark that ends at `at' begins, given its length.
Before(at, n) ==
  IF n = 0 THEN at - Header ELSE at - (Header + Padded(n) + Header)

\* tap_len_at.
LengthAt(at) == IF at + Header > Cells THEN NoRecord ELSE tape[at]

\* The byte count a command is given.
Count == (CountRange - bc) % CountRange

\* Mutant of MayWrite: only tm_go looks at the write protection.
MayWriteProtected(end) == end <= Cells

\* A record or mark that would end here may be written.
MayWrite(end) == ~wrp /\ end <= Cells

\* The image with a record of n bytes written at the position; its two lengths
\* are two marks if n is zero.
Written(n) ==
  LET end == After(pos, n)
  IN [c \in 0 .. Cells - 1 |->
        CASE c = pos \/ c = end - Header -> n
          [] c \notin pos .. end - 1     -> tape[c]
          [] OTHER                       -> Data]

\* The image with a mark written at the position.
Marked == [tape EXCEPT ![pos] = 0, ![pos + 1] = Data]

-----------------------------------------------------------------------------
(* tm_execute, one operator for each function.                              *)

Fail(error) == sta' = sta \cup {error} /\ UNCHANGED <<bc, medium>>

\* A read moves past the whole record, however much of it was asked for.
Read ==
  LET n == LengthAt(pos)
      moved == IF n < Count THEN n ELSE Count
  IN \/ n = NoRecord /\ Fail("ILL")
     \/ /\ n = 0
        /\ sta' = sta \cup {"EOF"} /\ pos' = pos + Header
        /\ UNCHANGED <<bc, tape, dataEnd>>
     \/ /\ n > 0
        /\ sta' = IF n > Count THEN sta \cup {"RLE"} ELSE sta
        /\ bc' = (bc + moved) % CountRange
        /\ pos' = After(pos, n)
        /\ UNCHANGED <<tape, dataEnd>>

Write ==
  LET end == After(pos, Count)
  IN \/ ~MayWrite(end) /\ Fail("ILL")
     \/ /\ MayWrite(end)
        /\ tape' = Written(Count) /\ pos' = end /\ dataEnd' = end
        /\ bc' = 0
        /\ UNCHANGED sta

WriteMark ==
  LET end == pos + Header
  IN \/ ~MayWrite(end) /\ Fail("ILL")
     \/ /\ MayWrite(end)
        /\ tape' = Marked /\ pos' = end /\ dataEnd' = end
        /\ UNCHANGED <<sta, bc>>

\* One record, whatever the count, which is stepped by one.
SpaceForward ==
  LET n == LengthAt(pos)
  IN \/ n = NoRecord /\ Fail("ILL")
     \/ /\ n = 0
        /\ sta' = sta \cup {"EOF"} /\ pos' = pos + Header
        /\ UNCHANGED <<bc, tape, dataEnd>>
     \/ /\ n > 0
        /\ bc' = (bc + 1) % CountRange
        /\ pos' = After(pos, n)
        /\ UNCHANGED <<sta, tape, dataEnd>>

\* One record or mark; the count is not touched and a mark raises nothing.
SpaceReverse ==
  /\ pos' = IF pos = 0 THEN 0 ELSE Before(pos, LengthAt(pos - Header))
  /\ UNCHANGED <<sta, bc, tape, dataEnd>>

Rewind == pos' = 0 /\ UNCHANGED <<sta, bc, tape, dataEnd>>

Execute ==
  CASE func = "read"   -> Read
    [] func = "write"  -> Write
    [] func = "mark"   -> WriteMark
    [] func = "spacef" -> SpaceForward
    [] func = "spacer" -> SpaceReverse
    [] OTHER           -> Rewind

\* What lies beyond the end of what was written is the rest of an overwritten
\* record: the model stops where a program would read it.
Readable == pos # dataEnd \/ LengthAt(pos) = NoRecord

-----------------------------------------------------------------------------

\* tm_set_done.
Finish(e) == done' = TRUE /\ busy' = FALSE /\ request' = e

\* tm_go, reached by a store of function f and enable bit e while DONE is set.
Refuses(f) == ~attached \/ (f \in Writes /\ wrp)

Refuse(f, e) ==
  /\ Refuses(f)
  /\ sta' = sta \cup {"ILL"}
  /\ Finish(e)

Begin(f) ==
  /\ ~Refuses(f)
  /\ sta' = {}
  /\ done' = FALSE /\ busy' = TRUE /\ request' = FALSE

\* Mutant of Requested: every store with the enable bit requests, not the first.
RequestedEveryStore(e) == e /\ (request \/ done)

\* The request after a store of enable bit e: raised if DONE is set and IE was not.
Requested(e) == e /\ (request \/ (done /\ ~ie))

\* pdp11_tm_write to MTC, without INIT.  While a command is scheduled the
\* store still replaces the function it will run.
WriteMtc(f, e, go) ==
  /\ ie' = e /\ func' = f
  /\ \/ done /\ go /\ (Refuse(f, e) \/ Begin(f)) /\ given' = ~given
     \/ /\ ~(done /\ go)
        /\ request' = Requested(e)
        /\ UNCHANGED <<done, sta, busy, given>>
  /\ UNCHANGED <<attached, wrp, bc, medium>>

WriteCount(v) ==
  /\ bc' = v
  /\ UNCHANGED <<attached, wrp, mtc, sta, medium, busy, request, given>>

\* A store to MTC with INIT, and RESET, which leaves the count alone.
ControllerInit(count) ==
  /\ done' = TRUE /\ ie' = FALSE /\ func' = "rewind" /\ sta' = {}
  /\ busy' = FALSE /\ request' = FALSE
  /\ bc' = count
  /\ UNCHANGED <<attached, wrp, medium, given>>

\* pdp11_tm_poll, once the deadline has passed.
Poll ==
  /\ busy
  /\ func \in {"read", "spacef"} => Readable
  /\ Execute
  /\ Finish(ie)
  /\ UNCHANGED <<attached, wrp, ie, func, given>>

Grant ==
  /\ request
  /\ request' = FALSE
  /\ UNCHANGED <<attached, wrp, mtc, sta, bc, medium, busy, given>>

Next ==
  \/ \E f \in Functions, e \in BOOLEAN, go \in BOOLEAN : WriteMtc(f, e, go)
  \/ \E v \in 0 .. CountRange - 1 : WriteCount(v)
  \/ ControllerInit(0) \/ ControllerInit(bc) \/ Poll \/ Grant

Spec == Init /\ [][Next]_vars

-----------------------------------------------------------------------------

\* DONE is clear exactly while a command is scheduled.
DoneXorBusy == done <=> ~busy

\* The bus request is an edge latch on DONE and IE, whatever is stored into
\* MTC while a command is scheduled or after it is done: none is lost, and none
\* raised again.
Latch == INSTANCE InterruptSource
           WITH enabled <- ie, ready <- done, given <- given, request <- request
LatchesInterrupt == Latch!Spec

\* A record or mark stands whole at `at', its two lengths alike, and ends by
\* the end of the data.
Stands(at) ==
  LengthAt(at) >= 0 /\ EndOf(tape, at) <= dataEnd /\ tape[EndOf(tape, at) - Header] = tape[at]

FramedFrom[at \in 0 .. Cells] ==
  \/ at = dataEnd
  \/ at < dataEnd /\ Stands(at) /\ FramedFrom[EndOf(tape, at)]

PassesPos[at \in 0 .. Cells] ==
  \/ at = pos
  \/ at < pos /\ Stands(at) /\ PassesPos[EndOf(tape, at)]

\* Whatever commands are given, replaced in flight or cleared, the tape up to
\* the end of what was written is a sequence of whole records and marks, and
\* the drive stands between two of them, never inside one; every register keeps
\* its width.
Framed == TypeOK /\ FramedFrom[0] /\ PassesPos[0]

\* A write-protected tape never changes, although the function that runs need
\* not be the one that was checked when the command was given.
ProtectedKeeps == [][wrp => UNCHANGED tape]_vars

-----------------------------------------------------------------------------
(* What a program reads.                                                    *)

\* The error bits that tm_status lets through to MTS: EOF is among the bits it
\* clears before it adds those it computes.
ShownErrors == sta \ {"EOF"}

\* docs/COMPLETION_PLAN.md:233 promises "the file-mark->EOF status": a command
\* that runs over a tape mark shows EOF in MTS when it is done.
MarkShows ==
  [][Poll /\ func \in {"read", "spacef"} /\ LengthAt(pos) = 0 =>
       "EOF" \in ShownErrors']_vars
=============================================================================
