----------------------------- MODULE FloppyDisk -----------------------------
(***************************************************************************)
(* The floppy: fdd4.v, which imitates a turning disk out of sectors it     *)
(* fetches from the card, and the controller vp1-128fdd.v, between a       *)
(* driver on the PPU's bus and the SD path.                                *)
(*                                                                         *)
(* The disk turns by word cells of 64 us.  A sector is                     *)
(*    lead, sync, track, number, header CRC, gap, sync, data, data CRC     *)
(* and fdd4.v asks for it on its header CRC: the path has the gap's time   *)
(* to fill the buffer before the data field passes the head.               *)
(***************************************************************************)
EXTENDS Naturals, Sequences

CONSTANTS
  Sides,    \* drive and head
  Tracks,   \* the tracks of a side (80)
  Sectors,  \* the sectors of a track (10)
  Words,    \* the words of a sector (256)
  Lead,     \* the cells before the first sync (24)
  Gap,      \* the cells from the header's CRC to the second sync (19)
  Latency,  \* the cells a request waits, at most, when the path is free
  Written,  \* the places that the driver writes, too
  Others    \* the IDE's or the menu's transfers take the path too

ASSUME SizeAssumption ==
  /\ {Tracks, Sectors, Words, Lead, Gap, Latency} \subseteq Nat \ {0}
  /\ Latency <= Gap /\ Latency < Lead + 3
ASSUME ChoiceAssumption == Written \subseteq Sides \X Nat \X Nat /\ Others \in BOOLEAN

VARIABLES
  fd,   \* fdd4.v: motor, side, track, sector, cell, request; and, for the
        \* properties, whether another had the path at the last Req
  buf,  \* its sector buffer
  ctl,  \* vp1-128fdd.v: tr, find_sync
  sd,   \* the SD path as the drive sees it
  drv   \* the driver on the PPU

vars == <<fd, buf, ctl, sd, drv>>
-----------------------------------------------------------------------------
Idx == 0..(Words - 1)
Place == Sides \X (0..(Tracks - 1)) \X (0..(Sectors - 1))
\* A word knows its place, its index, and whether the image holds it (0) or
\* the driver wrote it (1).
Blank == [i \in Idx |-> <<>>]

Sync  == Lead
Trk   == Sync + 1
Sek   == Sync + 2
Req   == Sync + 3
DSync == Req + Gap
Crc   == DSync + Words + 1

\* rsector follows the disk: it is read live
Here == <<fd.side, fd.trk, fd.sec>>

\* data_out
DataOut ==
  CASE fd.pos = Trk -> <<"trk", fd.side, fd.trk>>
    [] fd.pos = Sek -> <<"sek", fd.sec>>
    [] fd.pos \in DSync + 1 .. DSync + Words -> <<"data", buf[fd.pos - DSync - 1]>>
    [] OTHER -> <<"raw", fd.pos>>

Init ==
  /\ \E p \in Place :
       fd = [motor |-> FALSE, side |-> p[1], trk |-> p[2], sec |-> p[3], pos |-> 0,
             rd |-> FALSE, taken |-> FALSE]
  /\ buf = Blank
  /\ ctl = [tr |-> FALSE, fs |-> FALSE]
  /\ sd = [st |-> "ready", sec |-> Here, i |-> 0, age |-> 0]
  /\ \E s \in Sides :
       drv = [pc |-> "idle", op |-> "READ", want |-> <<s, 0, 0>>, got |-> <<>>, wrote |-> {}]
-----------------------------------------------------------------------------
(* The disk turns *)
rbusy == sd.st \in {"busy", "other"}

\* is_clean: the request falls, and is not raised
\* Mutant: sd_taken is not looked at.
IsCleanAlone == ~fd.motor \/ sd.st = "busy"
IsClean == ~fd.motor \/ rbusy

\* read_sd, on the rising edge of sd_rd at cell p
\* Mutant: the request goes up at the second sync.
ReadSdLate(p) == ~IsClean /\ (fd.rd \/ p = DSync)
ReadSd(p) == ~IsClean /\ (fd.rd \/ p = Req)

\* Mutants: the count has no end; it stays at the first sector.
NextSecOn == fd.sec + 1
NextSecStays == fd.sec \div 2
NextSec == (fd.sec + 1) % Sectors

\* The driver looks for a sync at once and takes every word in its cell, and
\* the path is in time.
Reading == drv.pc \in {"hdr", "data"} /\ ctl.tr /\ ~ctl.fs
OnTime ==
  /\ ~Reading /\ drv.pc \notin {"mark", "accepted"}
  /\ ~(drv.pc = "seek" /\ fd.trk = drv.want[2])
  /\ sd.st = "named" \/ sd.st = "busy" \/ (fd.rd /\ sd.st = "ready") => sd.age < Latency

Turn ==
  /\ fd.motor /\ OnTime
  /\ LET p == IF fd.pos = Crc THEN 0 ELSE fd.pos + 1 IN
       /\ fd' = [fd EXCEPT !.pos = p, !.sec = IF p = 0 THEN NextSec ELSE @, !.rd = ReadSd(p),
                         !.taken = IF p = Req THEN sd.st = "other" ELSE @]
       /\ ctl' = [tr |-> TRUE, fs |-> ctl.fs /\ p \notin {Sync, DSync}]
       /\ sd' = [sd EXCEPT !.age = IF fd.rd \/ sd.st \in {"named", "busy"} THEN @ + 1 ELSE 0]
  /\ UNCHANGED <<buf, drv>>
-----------------------------------------------------------------------------
(* The SD path: the MCU reads which sector is wanted, then orders it *)
SdNamed ==
  /\ sd.st = "ready" /\ fd.rd
  /\ sd' = [sd EXCEPT !.st = "named", !.sec = Here, !.i = 0]
  /\ UNCHANGED <<fd, buf, ctl, drv>>

SdBusy ==
  /\ sd.st = "named"
  /\ sd' = [sd EXCEPT !.st = "busy"]
  /\ fd' = [fd EXCEPT !.rd = FALSE]
  /\ UNCHANGED <<buf, ctl, drv>>

SdWord ==
  /\ sd.st = "busy" /\ sd.i < Words
  /\ buf' = [buf EXCEPT ![sd.i] = <<sd.sec, sd.i, 0>>]
  /\ sd' = [sd EXCEPT !.i = @ + 1]
  /\ UNCHANGED <<fd, ctl, drv>>

SdDone ==
  /\ sd.st = "busy" /\ sd.i = Words
  /\ sd' = [sd EXCEPT !.st = "ready", !.age = 0]
  /\ UNCHANGED <<fd, buf, ctl, drv>>

\* Another requester takes the path: rbusy, or sd_taken.
OtherBegins ==
  /\ Others /\ sd.st = "ready" /\ ~fd.rd
  /\ sd' = [sd EXCEPT !.st = "other"]
  /\ UNCHANGED <<fd, buf, ctl, drv>>

OtherEnds ==
  /\ sd.st = "other"
  /\ sd' = [sd EXCEPT !.st = "ready"]
  /\ UNCHANGED <<fd, buf, ctl, drv>>
-----------------------------------------------------------------------------
(* The controller's registers, as the driver uses them *)
\* 177130 written: motor, side, step.  A change holds the disk at word 0.
Control(side, on, trk) ==
  fd' = [fd EXCEPT !.side = side, !.motor = on, !.trk = trk, !.rd = @ /\ on,
           !.pos = IF ~on \/ ~fd.motor \/ side # fd.side \/ trk # fd.trk THEN 0 ELSE @]

\* bit 8
FindSync == ctl' = [ctl EXCEPT !.fs = fd.pos \notin {Sync, DSync}]

\* the driver is given a sector to read or write
Choose ==
  /\ drv.pc = "idle"
  /\ \E p \in Place, o \in {"READ", "WRITE"} :
       /\ o = "WRITE" => p \in Written
       /\ drv' = [drv EXCEPT !.pc = "seek", !.op = o, !.want = p, !.got = <<>>]
       /\ Control(p[1], TRUE, fd.trk)
  /\ UNCHANGED <<buf, ctl, sd>>

Step ==
  /\ drv.pc = "seek" /\ fd.trk # drv.want[2]
  /\ Control(fd.side, TRUE, IF fd.trk < drv.want[2] THEN fd.trk + 1 ELSE fd.trk - 1)
  /\ UNCHANGED <<buf, ctl, sd, drv>>

\* on the track: look for a header
Find ==
  /\ drv.pc = "seek" /\ fd.trk = drv.want[2]
  /\ FindSync
  /\ drv' = [drv EXCEPT !.pc = "hdr"]
  /\ UNCHANGED <<fd, buf, sd>>

\* 177132 read, in the header
Header ==
  /\ drv.pc = "hdr" /\ Reading
  /\ ctl' = [ctl EXCEPT !.tr = FALSE]
  /\ drv' = [drv EXCEPT !.pc =
       CASE DataOut = <<"trk", drv.want[1], drv.want[2]>> -> "hdr"
         [] DataOut = <<"sek", drv.want[3]>> -> "mark"
         [] DataOut[1] = "raw" -> "hdr"
         [] OTHER -> "seek"]
  /\ UNCHANGED <<fd, buf, sd>>

\* the header is the one: look for the data field
Mark ==
  /\ drv.pc = "mark"
  /\ FindSync
  /\ drv' = [drv EXCEPT !.pc = "data"]
  /\ UNCHANGED <<fd, buf, sd>>

\* 177132 read, in the data field
Take ==
  /\ drv.pc = "data" /\ drv.op = "READ" /\ Reading /\ fd.pos # Crc
  /\ ctl' = [ctl EXCEPT !.tr = FALSE]
  /\ drv' = [drv EXCEPT !.got = IF DataOut[1] = "data" THEN Append(@, DataOut[2]) ELSE @]
  /\ UNCHANGED <<fd, buf, sd>>

\* 177132 written, in the data field
Put ==
  /\ drv.pc = "data" /\ drv.op = "WRITE" /\ Reading /\ fd.pos # Crc
  /\ ctl' = [ctl EXCEPT !.tr = FALSE]
  /\ buf' = IF DataOut[1] = "data"
              THEN [buf EXCEPT ![fd.pos - DSync - 1] = <<drv.want, fd.pos - DSync - 1, 1>>]
              ELSE buf
  /\ UNCHANGED <<fd, sd, drv>>

\* the data CRC: crc_ok
Accept ==
  /\ drv.pc = "data" /\ Reading /\ fd.pos = Crc
  /\ ctl' = [ctl EXCEPT !.tr = FALSE]
  /\ drv' = IF drv.op = "READ" THEN [drv EXCEPT !.pc = "accepted"]
            ELSE [drv EXCEPT !.pc = "idle", !.wrote = @ \cup {drv.want}]
  /\ UNCHANGED <<fd, buf, sd>>

\* the program has its sector; the next may come at once, or much later
Return ==
  /\ drv.pc = "accepted"
  /\ drv' = [drv EXCEPT !.pc = "idle", !.got = <<>>]
  /\ UNCHANGED <<fd, buf, ctl, sd>>

MotorOff ==
  /\ drv.pc = "idle" /\ fd.motor
  /\ Control(fd.side, FALSE, fd.trk)
  /\ UNCHANGED <<buf, ctl, sd, drv>>

Drive  == Turn
Path   == SdNamed \/ SdBusy \/ SdWord \/ SdDone \/ OtherEnds
Driver == Step \/ Find \/ Header \/ Mark \/ Take \/ Put \/ Accept \/ Return
Next   == Drive \/ Path \/ OtherBegins \/ Driver \/ Choose \/ MotorOff

Spec == Init /\ [][Next]_vars
\* The disk turns, the card answers, the driver goes on.
FairSpec == Spec /\ WF_vars(Drive) /\ WF_vars(Path) /\ WF_vars(Driver)
-----------------------------------------------------------------------------
(* Properties *)
TypeOK ==
  /\ Here \in Place /\ fd.pos \in 0..Crc /\ {fd.motor, fd.rd} \subseteq BOOLEAN
  /\ sd.st \in {"ready", "named", "busy", "other"} /\ sd.sec \in Place
  /\ sd.i \in 0..Words /\ sd.age \in 0..Latency
  /\ Len(drv.got) <= Words /\ drv.want \in Place

\* "The software sees a read error": a sector the driver accepts is the one
\* it asked for, word for word, and as it was last written.
RightSector ==
  drv.pc = "accepted" =>
    \A i \in Idx : drv.got[i + 1] = <<drv.want, i, IF drv.want \in drv.wrote THEN 1 ELSE 0>>

\* Unless another had the path when its header passed, a sector never
\* written is read as the image has it: its fetch is over when its data field
\* comes, however head, track and motor changed while an earlier one was on
\* its way, and whatever was written into the buffer before.
FreshSector == ~fd.taken /\ drv.want \notin drv.wrote => RightSector

\* What is accepted is one sector, whole, even when the path was taken: the
\* words of one place, from the image or from one write, or no fetch at all.
WholeSector ==
  drv.pc = "accepted" =>
    \/ \E p \in Place, v \in {0, 1} : drv.got = [k \in 1..Words |-> <<p, k - 1, v>>]
    \/ drv.got = [k \in 1..Words |-> <<>>]

\* What the driver looks for passes the head.
ReadEnds == drv.pc = "seek" ~> drv.pc \in {"accepted", "idle"}
=============================================================================
