-------------------------------- MODULE Rx11 --------------------------------
(***************************************************************************)
(* The RX11 floppy controller and its drive (devices/rx11.c).  It has no     *)
(* delay: a command advances inside the program's own accesses, one byte     *)
(* of RXDB at a time under the transfer request (TR).                        *)
(*                                                                         *)
(* Left out: the drive select bit and the head position, which nothing       *)
(* looks at, and the value of RXDB when it shows a status (Shown).           *)
(***************************************************************************)
EXTENDS Integers, Sequences

CONSTANTS
  NumBytes,   \* RX_NUMBY
  Tracks,     \* RX_NUMTR
  Sectors,    \* RX_NUMSC
  Bytes       \* the bytes a program stores into RXDB, sector and track included

GeometryAssumption ==
  /\ NumBytes \in Nat \ {0} /\ Tracks \in Nat \ {0} /\ Sectors \in Nat \ {0}
  /\ Bytes \subseteq Nat /\ 0 \in Bytes

\* "write" is write and write deleted data; "status" is every other code but
\* read error code.
Functions == {"fill", "empty", "read", "write", "status", "ecode"}
States == {"idle", "fill", "empty", "sector", "track"}
Flags == {"ID", "DD", "DRDY"}
Codes == {"none", "NOTREADY", "TRACK", "SECTOR", "POWERUP"}
Shown == -1   \* RXDB holds RXES or the error code

VARIABLES
  attached,                  \* an image is attached, before the run
  done, ie, tr, err, func,   \* RXCS<5>, <6>, <7>, <15>, <3:1>
  rxdb,                      \* the data buffer register
  rxes,                      \* RXES
  ecode,                     \* the error code of the last command
  sector, track,             \* those of the command
  state,                     \* the command state machine
  buf, bptr,                 \* the sector buffer and the pointer into it
  disk,                      \* the image, by track and sector
  request,                   \* the RX bit of int_req
  passed,                    \* history: the bytes of this command through RXDB
  spoilt                     \* history: a byte was stored while emptying

rxcs == <<done, ie, tr, err, func>>
errors == <<rxes, ecode>>
command == <<sector, track, state, bptr>>
history == <<passed, spoilt>>
vars == <<attached, rxcs, rxdb, errors, command, buf, disk, request, history>>

Contents == [1 .. NumBytes -> Bytes]
Blank == [i \in 1 .. NumBytes |-> 0]

\* Every variable has its type.
TypeOK ==
  /\ attached \in BOOLEAN
  /\ done \in BOOLEAN /\ ie \in BOOLEAN /\ tr \in BOOLEAN /\ err \in BOOLEAN
  /\ func \in Functions
  /\ rxdb \in Bytes \cup {Shown}
  /\ rxes \subseteq Flags /\ ecode \in Codes
  /\ sector \in Bytes /\ track \in Bytes /\ state \in States
  /\ buf \in Contents /\ bptr \in 0 .. NumBytes
  /\ disk \in [(0 .. Tracks - 1) \X (1 .. Sectors) -> Contents]
  /\ request \in BOOLEAN
  /\ passed \in Seq(Bytes) /\ spoilt \in BOOLEAN

\* pdp11_cpu_reset, which runs before any image is attached.
Init ==
  /\ attached \in BOOLEAN
  /\ done = TRUE /\ ie = FALSE /\ tr = FALSE /\ err = TRUE /\ func = "fill"
  /\ rxdb = Shown /\ rxes = {} /\ ecode = "POWERUP"
  /\ sector = 0 /\ track = 0 /\ state = "idle"
  /\ buf = Blank /\ bptr = 0
  /\ disk = [a \in (0 .. Tracks - 1) \X (1 .. Sectors) |-> Blank]
  /\ request = FALSE
  /\ passed = <<>> /\ spoilt = FALSE

-----------------------------------------------------------------------------
(* rx_done: the command ends with an error code and RXES set to flags.      *)

\* Mutant of DoneControl: the transfer request stays.
DoneControlKeepsTr(code, e) ==
  /\ done' = TRUE /\ tr' = (state # "idle")
  /\ err' = (code # "none" \/ (err /\ state # "idle"))
  /\ request' = (request \/ e)

\* The request is set if enabled, and never cleared here.
DoneControl(code, e) ==
  /\ done' = TRUE /\ tr' = FALSE
  /\ err' = (code # "none" \/ (err /\ state # "idle"))
  /\ request' = (request \/ e)

Ready == IF attached THEN {"DRDY"} ELSE {}

Done(flags, code, e) ==
  /\ DoneControl(code, e)
  /\ state' = "idle"
  /\ rxes' = (flags \ {"DRDY"}) \cup Ready
  /\ ecode' = code
  /\ rxdb' = Shown

-----------------------------------------------------------------------------
(* A store to RXCS.                                                         *)

\* rx_reset_state.
Initialize ==
  /\ done' = TRUE /\ ie' = FALSE /\ tr' = FALSE /\ err' = FALSE
  /\ func' = "fill"
  /\ rxes' = {"ID"} \cup Ready /\ rxdb' = Shown /\ ecode' = "none"
  /\ state' = "idle" /\ bptr' = 0
  /\ request' = FALSE
  /\ UNCHANGED <<attached, sector, track, buf, disk, history>>

\* Functions that wait for the program: the controller asks for a byte.
Ask(next) == state' = next /\ tr' = TRUE

\* A command that waits leaves DONE and ERR clear, but not the request.
GoWaits(f) ==
  /\ \/ f = "fill" /\ Ask("fill") /\ bptr' = 0 /\ UNCHANGED <<rxdb, rxes>>
     \/ f = "empty" /\ Ask("empty") /\ bptr' = 1 /\ rxdb' = buf[1]
        /\ UNCHANGED rxes
     \/ f \in {"read", "write"} /\ Ask("sector") /\ bptr' = 0
        /\ rxes' = rxes \cap {"ID"} /\ UNCHANGED rxdb
  /\ done' = FALSE /\ err' = FALSE
  /\ UNCHANGED <<ecode, request>>

\* Read status and read error code end within the store; the latter keeps the
\* code that it shows.
GoEnds(f, e) ==
  /\ bptr' = 0
  /\ \/ f = "status" /\ Done(rxes, "none", e)
     \/ /\ f = "ecode"
        /\ DoneControl("none", e)
        /\ state' = "idle" /\ rxdb' = Shown
        /\ rxes' = (rxes \ {"DRDY"}) \cup Ready
        /\ UNCHANGED ecode

\* Mutant of MayGo: a function is launched whatever the state.
MayGoAlways == TRUE

MayGo == state = "idle"

Go(f, e) ==
  /\ MayGo
  /\ ie' = e /\ func' = f
  /\ GoWaits(f) \/ GoEnds(f, e)
  /\ passed' = <<>> /\ spoilt' = FALSE
  /\ UNCHANGED <<attached, sector, track, buf, disk>>

\* Without GO, or during a command, only the enable bit changes, and the
\* request with it.
WriteEnable(e) ==
  /\ ie' = e
  /\ request' = (e /\ (request \/ (done /\ ~ie)))
  /\ UNCHANGED <<attached, done, tr, err, func, rxdb, errors, command, buf,
                 disk, history>>

-----------------------------------------------------------------------------
(* Accesses to RXDB while the controller asks for a transfer.               *)

\* rx_step in state RWXFR, with the track just given: what is wrong with the
\* access, in the order the code looks.
Refusal(t) ==
  IF ~attached THEN "NOTREADY"
  ELSE IF t >= Tracks THEN "TRACK"
  ELSE IF sector = 0 \/ sector > Sectors THEN "SECTOR" ELSE "none"

\* A write of deleted data marks RXES.
Access(t) ==
  /\ track' = t
  /\ \/ /\ Refusal(t) # "none"
        /\ Done(rxes, Refusal(t), ie)
        /\ UNCHANGED <<buf, disk>>
     \/ /\ Refusal(t) = "none" /\ func = "read"
        /\ buf' = disk[<<t, sector>>]
        /\ Done(rxes, "none", ie)
        /\ UNCHANGED disk
     \/ /\ Refusal(t) = "none" /\ func = "write"
        /\ disk' = [disk EXCEPT ![<<t, sector>>] = buf]
        /\ \E deleted \in SUBSET {"DD"} : Done(rxes \cup deleted, "none", ie)
        /\ UNCHANGED buf
  /\ UNCHANGED <<sector, bptr>>

\* Mutant of FillNext: the last byte of the buffer is not asked for.
FillNextShort == bptr + 1 < NumBytes - 1

\* After this byte the buffer is not yet full.
FillNext == bptr + 1 < NumBytes

Fill(v) ==
  /\ buf' = [buf EXCEPT ![bptr + 1] = v]
  /\ bptr' = bptr + 1
  /\ \/ /\ FillNext
        /\ tr' = TRUE /\ rxdb' = v
        /\ UNCHANGED <<done, err, errors, state, request>>
     \/ ~FillNext /\ Done(rxes, "none", ie)
  /\ UNCHANGED <<sector, track, disk>>

TakeSector(v) ==
  /\ sector' = v /\ rxdb' = v
  /\ Ask("track")
  /\ UNCHANGED <<done, err, errors, track, bptr, buf, disk, request>>

\* A store to RXDB that the controller asked for.
Give(v) ==
  /\ tr /\ state \in {"fill", "sector", "track"}
  /\ \/ state = "fill" /\ Fill(v)
     \/ state = "sector" /\ TakeSector(v)
     \/ state = "track" /\ Access(v)
  /\ passed' = Append(passed, v)
  /\ UNCHANGED <<attached, ie, func, spoilt>>

\* A store to RXDB while the controller is handing out the buffer replaces the
\* byte on offer.
Spoil(v) ==
  /\ tr /\ state = "empty"
  /\ rxdb' = v /\ spoilt' = TRUE
  /\ UNCHANGED <<attached, rxcs, errors, command, buf, disk, request, passed>>

\* A read of RXDB that takes a byte of the buffer and has the next one loaded.
Take ==
  /\ tr /\ state = "empty"
  /\ passed' = Append(passed, rxdb)
  /\ \/ /\ bptr < NumBytes
        /\ rxdb' = buf[bptr + 1] /\ bptr' = bptr + 1
        /\ UNCHANGED <<done, tr, err, errors, state, request>>
     \/ /\ bptr >= NumBytes
        /\ Done(rxes, "none", ie)
        /\ UNCHANGED bptr
  /\ UNCHANGED <<attached, ie, func, sector, track, buf, disk, spoilt>>

\* The processor grants the request, or drops it in a RESET, which touches
\* nothing else of the RX11.
Grant ==
  /\ request
  /\ request' = FALSE
  /\ UNCHANGED <<attached, rxcs, rxdb, errors, command, buf, disk, history>>

Next ==
  \/ Initialize
  \/ \E f \in Functions, e \in BOOLEAN : Go(f, e)
  \/ \E e \in BOOLEAN : WriteEnable(e)
  \/ \E v \in Bytes : Give(v) \/ Spoil(v)
  \/ Take \/ Grant

Spec == Init /\ [][Next]_vars

-----------------------------------------------------------------------------

\* The handshake never comes to a stop: the controller is either idle and done,
\* or it asks for exactly the byte it needs next.  There is no state in which a
\* program that polls for DONE or TR would wait for ever.
Handshake ==
  /\ state = "idle" <=> done
  /\ state # "idle" <=> tr
  /\ state \in {"sector", "track"} => func \in {"read", "write"}
  /\ state = "fill" => bptr < NumBytes
  /\ state = "empty" => bptr \in 1 .. NumBytes

\* The bytes a program has still to move until the command ends.
Remaining ==
  CASE state = "fill"   -> NumBytes - bptr
    [] state = "empty"  -> NumBytes - bptr + 1
    [] state = "sector" -> 2
    [] state = "track"  -> 1
    [] OTHER            -> 0

\* Nothing a program stores during a command sends it back: each byte that is
\* asked for and moved brings its end nearer, nothing else delays it.
Progress ==
  [][state # "idle" =>
       IF passed' # passed THEN Remaining' < Remaining
                           ELSE Remaining' <= Remaining]_vars

\* A fill that ends has stored the bytes the program gave, all of them and in
\* order, and an empty that ends has handed out the buffer likewise, unless the
\* program stored into RXDB in between.
TransferEnds ==
  /\ state \in {"fill", "empty"} /\ state' = "idle"
  /\ passed' # passed

BufferWhole == [][TransferEnds /\ ~spoilt => passed' = buf']_vars
=============================================================================
