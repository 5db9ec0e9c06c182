------------------------------ MODULE MCDisks ------------------------------
(***************************************************************************)
(* The RK11, the RL11 and the RH70, of which each behaviour exercises one: *)
(* they share nothing but the bus.  Disks of two cylinders of two surfaces *)
(* of two sectors of two words.  An RK11 transfer, of at most four words,  *)
(* can end inside a sector, at a sector, cylinder or disk boundary, and    *)
(* beyond the disk; a program of the RL11 may address sector numbers 2 and *)
(* 3 and a cylinder that are not there, and ask for more words than the    *)
(* track has left.  The pack of the RH70 has sector, surface and cylinder  *)
(* fields that reach beyond it, and an image that ends inside its second   *)
(* cylinder and inside a sector.                                           *)
(***************************************************************************)
EXTENDS Rk11

CONSTANTS
  RlSectField, RlWordRange,
  RpSectors, RpSurfaces, RpSectField, RpSurfField, RpCylField, RpSectWords,
  RpDiskWords, RpWordRange

VARIABLES
  used,      \* which controller the program uses
  rlAttached, rlDone, rlIe, rlFunc, rlErr, rlmp, rlda, rlTrk, rlBusy, rlRequest,
  rpAttached, rpDone, rpIe, rpFunc, ds, wc, da, dc, cc, rpBusy, rpRequest, rpGiven

RL == INSTANCE Rl11
        WITH SectField <- RlSectField, WordRange <- RlWordRange,
             attached <- rlAttached, done <- rlDone, ie <- rlIe, func <- rlFunc,
             err <- rlErr, trk <- rlTrk, busy <- rlBusy, request <- rlRequest

RP == INSTANCE Rp11
        WITH Sectors <- RpSectors, Surfaces <- RpSurfaces, SectField <- RpSectField,
             SurfField <- RpSurfField, CylField <- RpCylField, SectWords <- RpSectWords,
             DiskWords <- RpDiskWords, WordRange <- RpWordRange,
             attached <- rpAttached, done <- rpDone, ie <- rpIe, func <- rpFunc,
             busy <- rpBusy, request <- rpRequest, given <- rpGiven

ASSUME RlGeometry == RL!GeometryAssumption
ASSUME RpGeometry == RP!GeometryAssumption

rlVars == <<rlAttached, rlDone, rlIe, rlFunc, rlErr, rlmp, rlda, rlTrk, rlBusy, rlRequest>>
rpVars == <<rpAttached, rpDone, rpIe, rpFunc, ds, wc, da, dc, cc, rpBusy, rpRequest,
            rpGiven>>
disks == <<used, vars, rlVars, rpVars>>

DisksInit ==
  /\ used \in {"rk", "rl", "rp"}
  /\ Init /\ (used # "rk" => ~attached)
  /\ RL!Init /\ (used # "rl" => ~rlAttached)
  /\ RP!Init /\ (used # "rp" => ~rpAttached)

DisksNext ==
  \/ used = "rk" /\ Next /\ UNCHANGED <<used, rlVars, rpVars>>
  \/ used = "rl" /\ RL!Next /\ UNCHANGED <<used, vars, rpVars>>
  \/ used = "rp" /\ RP!Next /\ UNCHANGED <<used, vars, rlVars>>

DisksSpec == DisksInit /\ [][DisksNext]_disks

\* The RL11 requests only while ready and enabled (rl11.c, rl_finish).
RlRequestMeansReady == RL!RequestMeansReady

\* The RL11's transfers and seeks stay on the drive (rl11.c, rl_transfer, rl_go).
RlStaysOnDrive == RL!StaysOnDrive

\* The bus request of the RH70 is an edge latch on DONE and IE (rp11.c, rp_finish).
RpLatchesInterrupt == RP!LatchesInterrupt

\* The registers of the RH70 tell what a transfer moved (rp11.c, rp_transfer).
RpTransfersAccounted == RP!TransfersAccounted
=============================================================================
