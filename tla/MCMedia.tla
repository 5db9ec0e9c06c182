------------------------------- MODULE MCMedia -------------------------------
(***************************************************************************)
(* The two removable media, of which each behaviour uses one: the TM11 tape  *)
(* and the RX11 floppy share nothing but the bus.                           *)
(*                                                                         *)
(* The tape has ten cells and starts with a record of three bytes and two    *)
(* marks, or with two records of one byte.  Records of none to three bytes   *)
(* and marks are written anywhere over them, so that odd and even lengths    *)
(* meet, old lengths are left in the middle of the tape, and a record does   *)
(* not fit at its end.  The floppy has one track of one sector of two bytes; *)
(* a program gives bytes 0 to 2, so that a track may be beyond the disk and  *)
(* a sector may be 0, right or too large.                                   *)
(***************************************************************************)
EXTENDS Tm11, Sequences

CONSTANTS NumBytes, Tracks, Sectors, Bytes

VARIABLES
  used,      \* which controller the program uses
  rxAttached, rxDone, rxIe, tr, err, rxFunc, rxdb, rxes, ecode, sector, track,
  state, buf, bptr, disk, rxRequest, passed, spoilt

RX == INSTANCE Rx11
        WITH attached <- rxAttached, done <- rxDone, ie <- rxIe, func <- rxFunc,
             request <- rxRequest

ASSUME RxGeometry == RX!GeometryAssumption

rxVars == <<rxAttached, rxDone, rxIe, tr, err, rxFunc, rxdb, rxes, ecode, sector, track,
            state, buf, bptr, disk, rxRequest, passed, spoilt>>
media == <<used, vars, rxVars>>

MediaInit ==
  /\ used \in {"tm", "rx"}
  /\ Init /\ (used = "rx" => ~attached /\ ~wrp /\ tape = CHOOSE image \in Images : TRUE)
  /\ RX!Init /\ (used = "tm" => ~rxAttached)

MediaNext ==
  \/ used = "tm" /\ Next /\ UNCHANGED <<used, rxVars>>
  \/ used = "rx" /\ RX!Next /\ UNCHANGED <<used, vars>>

MediaSpec == MediaInit /\ [][MediaNext]_media

\* The RX11's handshake never sticks (rx11.c, rx_step and the accesses to RXDB).
RxHandshake == RX!Handshake

\* Each byte of the RX11 brings the end of its command nearer (rx11.c, rx_step).
RxProgress == RX!Progress

\* The RX11 fills and empties its buffer whole and in order (rx11.c, rx_step).
RxBufferWhole == RX!BufferWhole

Record3 == <<3, Data, Data, Data, 3, Data>>
Record1 == <<1, Data, Data, 1, Data>>
Mark == <<0, Data>>
MCCells == 10

Image(cells) == [c \in 0 .. MCCells - 1 |-> cells[c + 1]]

MCImages == {Image(Record3 \o Mark \o Mark), Image(Record1 \o Record1)}
=============================================================================
