-------------------------- MODULE FloppyDiskProofs --------------------------
(***************************************************************************)
(* Proofs about FloppyDisk, for every number of sides, tracks, sectors and *)
(* words, every lead and gap, every set of written sectors, and a path     *)
(* that answers within the gap.                                            *)
(*                                                                         *)
(* The argument is in time and in place.  A fetch under way is either one  *)
(* asked for before the disk last stood at a first cell, and is over by    *)
(* the next header; or that of the sector under the head, and is over by   *)
(* its data field (InTime).  So at a data field nobody else touches the    *)
(* buffer, and what a driver reads there is one sector, whole (Whole,      *)
(* Overwritten, Got), and its own when it was asked for (Fresh).           *)
(***************************************************************************)
EXTENDS FloppyDisk, TLAPS

\* What a cell of the buffer may hold; the types of the variables.
Word == {<<>>} \cup (Place \X Idx \X {0, 1})

FdType == [motor : BOOLEAN, side : Sides, trk : 0..(Tracks - 1), sec : 0..(Sectors - 1),
           pos : 0..Crc, rd : BOOLEAN, taken : BOOLEAN]
SdType == [st : {"ready", "named", "busy", "other"}, sec : Place, i : 0..Words, age : 0..Latency]
DrvType == [pc : {"idle", "seek", "hdr", "mark", "data", "accepted"}, op : {"READ", "WRITE"},
            want : Place, got : Seq(Word), wrote : SUBSET Place]
Types ==
  /\ fd \in FdType /\ buf \in [Idx -> Word] /\ ctl \in [tr : BOOLEAN, fs : BOOLEAN]
  /\ sd \in SdType /\ drv \in DrvType

\* The cells of a sector, in the order they pass the head.
LEMMA Sizes ==
  /\ Tracks \in Nat /\ Sectors \in Nat /\ Words \in Nat /\ Lead \in Nat /\ Gap \in Nat
  /\ Latency \in Nat /\ Sync \in Nat /\ Trk \in Nat /\ Sek \in Nat /\ Req \in Nat
  /\ DSync \in Nat /\ Crc \in Nat
  /\ Tracks > 0 /\ Sectors > 0 /\ Words > 0 /\ Lead > 0 /\ Latency > 0
  /\ Sync = Lead /\ Trk = Sync + 1 /\ Sek = Sync + 2 /\ Req = Sync + 3
  /\ DSync = Req + Gap /\ Crc = DSync + Words + 1
  /\ Latency < Req /\ Req + Latency <= DSync
  BY SizeAssumption DEF Sync, Trk, Sek, Req, DSync, Crc

\* The disk has no sector beyond its last.
LEMMA Remainder == \A n \in Nat : n % Sectors \in 0..(Sectors - 1)
  BY Sizes

LEMMA Places ==
  \A p \in Place : /\ p = <<p[1], p[2], p[3]>> /\ p[1] \in Sides
                   /\ p[2] \in 0..(Tracks - 1) /\ p[3] \in 0..(Sectors - 1)
  BY DEF Place

LEMMA PlaceHere == Types => Here \in Place
  BY DEF Types, FdType, Here, Place

\* What the head reads.
LEMMA DataWord ==
  ASSUME Types
  PROVE  /\ DataOut[1] = "data" <=> fd.pos > DSync /\ fd.pos # Crc
         /\ DataOut[1] = "data" => fd.pos - DSync - 1 \in Idx /\ DataOut[2] = buf[fd.pos - DSync - 1]
         /\ DataOut[1] = "data" => DataOut[2] \in Word
  <1>1. fd.pos \in 0..Crc
    BY DEF Types, FdType
  <1>2. fd.pos \in DSync + 1 .. DSync + Words <=> fd.pos > DSync /\ fd.pos # Crc
    BY <1>1, Sizes
  <1>3. CASE fd.pos \in DSync + 1 .. DSync + Words
    <2>1. fd.pos # Trk /\ fd.pos # Sek
      BY <1>3, Sizes
    <2>2. DataOut = <<"data", buf[fd.pos - DSync - 1]>>
      BY <1>3, <2>1 DEF DataOut
    <2>3. fd.pos - DSync - 1 \in Idx
      BY <1>3, Sizes DEF Idx
    <2> QED BY <1>2, <1>3, <2>2, <2>3 DEF Types
  <1>4. CASE fd.pos \notin DSync + 1 .. DSync + Words
    <2>1. DataOut[1] # "data"
      BY <1>4 DEF DataOut
    <2> QED BY <1>2, <1>4, <2>1
  <1> QED BY <1>3, <1>4

-----------------------------------------------------------------------------
(* Time *)
\* A fetch that the drive has asked for and the path has not finished.
Pending == sd.st \in {"named", "busy"} \/ (fd.rd /\ sd.st = "ready")
Request == /\ fd.rd => fd.motor /\ sd.st \in {"ready", "named"}
           /\ sd.st = "named" => sd.i = 0

\* The fetch is as old as the cells that have passed since this sector's
\* header; or it is an earlier one, and as old as this sector at least.
Own == fd.pos = Req + sd.age /\ (sd.st \in {"named", "busy"} => sd.sec = Here)
InTime == Pending => fd.pos <= sd.age \/ Own

TimeInv == Types /\ Request /\ InTime

\* What an action does to the fields of the disk, the path and the driver.
LEMMA TurnDoes ==
  ASSUME Types, Turn
  PROVE  /\ buf' = buf /\ drv' = drv /\ fd.motor /\ OnTime
         /\ fd'.motor = fd.motor /\ fd'.side = fd.side /\ fd'.trk = fd.trk
         /\ \/ fd.pos = Crc /\ fd'.pos = 0
            \/ fd.pos # Crc /\ fd'.pos = fd.pos + 1 /\ fd'.sec = fd.sec
         /\ fd'.rd = ReadSd(fd'.pos)
         /\ fd'.taken = (IF fd'.pos = Req THEN sd.st = "other" ELSE fd.taken)
         /\ ctl'.tr = TRUE /\ ctl'.fs = (ctl.fs /\ fd'.pos \notin {Sync, DSync})
         /\ sd'.st = sd.st /\ sd'.sec = sd.sec /\ sd'.i = sd.i
         /\ sd'.age = IF fd.rd \/ sd.st \in {"named", "busy"} THEN sd.age + 1 ELSE 0
  <1> DEFINE p == IF fd.pos = Crc THEN 0 ELSE fd.pos + 1
             q == IF p = 0 THEN NextSec ELSE fd.sec
             r == ReadSd(p)
             t == IF p = Req THEN sd.st = "other" ELSE fd.taken
             a == IF fd.rd \/ sd.st \in {"named", "busy"} THEN sd.age + 1 ELSE 0
  <1>1. /\ fd' = [fd EXCEPT !.pos = p, !.sec = q, !.rd = r, !.taken = t]
        /\ sd' = [sd EXCEPT !.age = a]
        /\ ctl' = [tr |-> TRUE, fs |-> ctl.fs /\ p \notin {Sync, DSync}]
    BY DEF Turn
  <1>2. fd'.pos = p /\ fd'.sec = q /\ fd'.rd = r /\ fd'.taken = t
    <2> HIDE DEF p, q, r, t
    <2> QED BY <1>1 DEF Types, FdType
  <1>3. fd'.motor = fd.motor /\ fd'.side = fd.side /\ fd'.trk = fd.trk
    <2> HIDE DEF p, q, r, t
    <2> QED BY <1>1 DEF Types, FdType
  <1>4. sd'.age = a /\ sd'.st = sd.st /\ sd'.sec = sd.sec /\ sd'.i = sd.i
    <2> HIDE DEF a
    <2> QED BY <1>1 DEF Types, SdType
  <1>5. ctl'.tr = TRUE /\ ctl'.fs = (ctl.fs /\ p \notin {Sync, DSync})
    BY <1>1
  <1>6. fd.pos # Crc => p # 0
    BY Sizes DEF Types, FdType
  <1> QED BY <1>2, <1>3, <1>4, <1>5, <1>6 DEF Turn

LEMMA ControlDoes ==
  ASSUME Types, NEW s, NEW o \in BOOLEAN, NEW k, Control(s, o, k)
  PROVE  /\ fd'.side = s /\ fd'.motor = o /\ fd'.trk = k /\ fd'.sec = fd.sec /\ fd'.rd = (fd.rd /\ o)
         /\ fd'.taken = fd.taken
         /\ \/ fd'.pos = 0
            \/ o /\ fd.motor /\ s = fd.side /\ k = fd.trk /\ fd'.pos = fd.pos
  <1> DEFINE p == IF ~o \/ ~fd.motor \/ s # fd.side \/ k # fd.trk THEN 0 ELSE fd.pos
             r == fd.rd /\ o
  <1>1. fd' = [fd EXCEPT !.side = s, !.motor = o, !.trk = k, !.rd = r, !.pos = p]
    BY DEF Control
  <1>2. fd'.side = s /\ fd'.motor = o /\ fd'.trk = k /\ fd'.rd = r /\ fd'.pos = p
    <2> HIDE DEF p, r
    <2> QED BY <1>1 DEF Types, FdType
  <1>3. fd'.sec = fd.sec /\ fd'.taken = fd.taken
    <2> HIDE DEF p, r
    <2> QED BY <1>1 DEF Types, FdType
  <1> QED BY <1>2, <1>3

LEMMA SdNamedDoes ==
  ASSUME Types, SdNamed
  PROVE  /\ sd.st = "ready" /\ fd.rd /\ sd'.st = "named" /\ sd'.sec = Here /\ sd'.i = 0 /\ sd'.age = sd.age
         /\ fd' = fd /\ buf' = buf /\ ctl' = ctl /\ drv' = drv
  BY DEF SdNamed, Types, SdType

LEMMA SdBusyDoes ==
  ASSUME Types, SdBusy
  PROVE  /\ sd.st = "named" /\ sd'.st = "busy" /\ sd'.sec = sd.sec /\ sd'.i = sd.i /\ sd'.age = sd.age
         /\ fd'.motor = fd.motor /\ fd'.side = fd.side /\ fd'.trk = fd.trk
         /\ fd'.sec = fd.sec /\ fd'.pos = fd.pos /\ fd'.taken = fd.taken /\ fd'.rd = FALSE
         /\ buf' = buf /\ ctl' = ctl /\ drv' = drv
  <1>1. sd.st = "named" /\ sd'.st = "busy" /\ sd'.sec = sd.sec /\ sd'.i = sd.i /\ sd'.age = sd.age
    BY DEF SdBusy, Types, SdType
  <1>2. /\ fd'.motor = fd.motor /\ fd'.side = fd.side /\ fd'.trk = fd.trk
        /\ fd'.sec = fd.sec /\ fd'.pos = fd.pos /\ fd'.taken = fd.taken /\ fd'.rd = FALSE
    BY DEF SdBusy, Types, FdType
  <1> QED BY <1>1, <1>2 DEF SdBusy

LEMMA SdWordDoes ==
  ASSUME Types, SdWord
  PROVE  /\ sd.st = "busy" /\ sd'.st = "busy" /\ sd'.sec = sd.sec /\ sd'.i = sd.i + 1 /\ sd'.age = sd.age
         /\ fd' = fd /\ ctl' = ctl /\ drv' = drv
  BY DEF SdWord, Types, SdType

LEMMA SdDoneDoes ==
  ASSUME Types, SdDone
  PROVE  /\ sd.st = "busy" /\ sd.i = Words /\ sd'.st = "ready"
         /\ fd' = fd /\ buf' = buf /\ ctl' = ctl /\ drv' = drv
  BY DEF SdDone, Types, SdType

LEMMA OtherBeginsDoes ==
  ASSUME Types, OtherBegins
  PROVE  /\ sd.st = "ready" /\ ~fd.rd /\ sd'.st = "other"
         /\ fd' = fd /\ buf' = buf /\ ctl' = ctl /\ drv' = drv
  BY DEF OtherBegins, Types, SdType

LEMMA OtherEndsDoes ==
  ASSUME Types, OtherEnds
  PROVE  /\ sd.st = "other" /\ sd'.st = "ready"
         /\ fd' = fd /\ buf' = buf /\ ctl' = ctl /\ drv' = drv
  BY DEF OtherEnds, Types, SdType

-----------------------------------------------------------------------------
LEMMA TypesStep == ASSUME Types, Request, [Next]_vars PROVE Types'
  <1>1. CASE Turn
    <2> DEFINE p == IF fd.pos = Crc THEN 0 ELSE fd.pos + 1
               q == IF p = 0 THEN NextSec ELSE fd.sec
               r == ReadSd(p)
               t == IF p = Req THEN sd.st = "other" ELSE fd.taken
               a == IF fd.rd \/ sd.st \in {"named", "busy"} THEN sd.age + 1 ELSE 0
    <2>1. p \in 0..Crc
      BY Sizes DEF Types, FdType
    <2>2. q \in 0..(Sectors - 1)
      BY Remainder DEF Types, FdType, NextSec
    <2>3. r \in BOOLEAN /\ t \in BOOLEAN
      BY DEF Types, FdType, ReadSd
    <2>4. a \in 0..Latency
      BY <1>1, Sizes DEF Turn, OnTime, Types, FdType, SdType, Request
    <2>5. /\ fd' = [fd EXCEPT !.pos = p, !.sec = q, !.rd = r, !.taken = t]
          /\ sd' = [sd EXCEPT !.age = a] /\ UNCHANGED <<buf, drv>>
      BY <1>1 DEF Turn
    <2> HIDE DEF p, q, r, t, a
    <2>6. fd' \in FdType /\ sd' \in SdType
      BY <2>1, <2>2, <2>3, <2>4, <2>5 DEF Types, FdType, SdType
    <2>7. ctl' \in [tr : BOOLEAN, fs : BOOLEAN]
      BY <1>1 DEF Turn, Types
    <2> QED BY <2>5, <2>6, <2>7 DEF Types
  <1>2. CASE SdNamed
    <2>1. sd' = [st |-> "named", sec |-> Here, i |-> 0, age |-> sd.age]
      BY <1>2 DEF SdNamed, Types, SdType
    <2>2. sd' \in SdType
      BY <2>1, Sizes, PlaceHere DEF Types, SdType
    <2> QED BY <1>2, <2>2 DEF SdNamed, Types
  <1>3. CASE SdBusy \/ SdDone \/ OtherEnds \/ OtherBegins
    <2>1. \/ sd' = [st |-> "busy", sec |-> sd.sec, i |-> sd.i, age |-> sd.age]
          \/ sd' = [st |-> "ready", sec |-> sd.sec, i |-> sd.i, age |-> 0]
          \/ sd' = [st |-> "ready", sec |-> sd.sec, i |-> sd.i, age |-> sd.age]
          \/ sd' = [st |-> "other", sec |-> sd.sec, i |-> sd.i, age |-> sd.age]
      BY <1>3 DEF SdBusy, SdDone, OtherEnds, OtherBegins, Types, SdType
    <2>2. sd' \in SdType
      BY <2>1, Sizes DEF Types, SdType
    <2>3. fd' \in FdType
      BY <1>3 DEF SdBusy, SdDone, OtherEnds, OtherBegins, Types, FdType
    <2> QED BY <1>3, <2>2, <2>3 DEF SdBusy, SdDone, OtherEnds, OtherBegins, Types
  <1>4. CASE SdWord
    <2>1. sd.i \in 0..Words /\ sd.i < Words /\ sd.sec \in Place
      BY <1>4 DEF SdWord, Types, SdType
    <2>2. sd.i \in Idx /\ sd.i + 1 \in 0..Words
      BY <2>1, Sizes DEF Idx
    <2>3. <<sd.sec, sd.i, 0>> \in Word
      BY <2>1, <2>2 DEF Word
    <2>4. buf' \in [Idx -> Word]
      BY <1>4, <2>2, <2>3 DEF SdWord, Types
    <2>5. sd' \in SdType
      BY <1>4, <2>2 DEF SdWord, Types, SdType
    <2> QED BY <1>4, <2>4, <2>5 DEF SdWord, Types
  <1>5. ASSUME NEW s \in Sides, NEW o \in BOOLEAN, NEW k \in 0..(Tracks - 1), Control(s, o, k)
        PROVE  fd' \in FdType
    <2> DEFINE p == IF ~o \/ ~fd.motor \/ s # fd.side \/ k # fd.trk THEN 0 ELSE fd.pos
               r == fd.rd /\ o
    <2>1. p \in 0..Crc /\ r \in BOOLEAN
      BY Sizes DEF Types, FdType
    <2>2. fd' = [fd EXCEPT !.side = s, !.motor = o, !.trk = k, !.rd = r, !.pos = p]
      BY <1>5 DEF Control
    <2> HIDE DEF p, r
    <2> QED BY <2>1, <2>2 DEF Types, FdType
  <1>6. CASE Choose
    <2> PICK p \in Place, o \in {"READ", "WRITE"} :
          /\ drv' = [drv EXCEPT !.pc = "seek", !.op = o, !.want = p, !.got = <<>>]
          /\ Control(p[1], TRUE, fd.trk)
      BY <1>6 DEF Choose
    <2>1. p[1] \in Sides /\ fd.trk \in 0..(Tracks - 1)
      BY Places DEF Types, FdType
    <2>2. fd' \in FdType
      BY <1>5, <2>1
    <2> DEFINE none == <<>>
               seek == "seek"
    <2>3. none \in Seq(Word) /\ drv' = [drv EXCEPT !.pc = seek, !.op = o, !.want = p, !.got = none]
      OBVIOUS
    <2>4. seek \in {"idle", "seek", "hdr", "mark", "data", "accepted"}
      OBVIOUS
    <2> HIDE DEF none, seek
    <2>5. drv' \in DrvType
      BY <2>3, <2>4 DEF Types, DrvType
    <2> QED BY <1>6, <2>2, <2>5 DEF Choose, Types
  <1>7. CASE Step
    <2> DEFINE k == IF fd.trk < drv.want[2] THEN fd.trk + 1 ELSE fd.trk - 1
    <2>1. drv.want \in Place
      BY DEF Types, DrvType
    <2>2. k \in 0..(Tracks - 1)
      BY <1>7, <2>1, Places, Sizes DEF Step, Types, FdType
    <2>3. fd.side \in Sides /\ Control(fd.side, TRUE, k)
      BY <1>7 DEF Step, Types, FdType
    <2> HIDE DEF k
    <2>4. fd' \in FdType
      BY <1>5, <2>2, <2>3
    <2> QED BY <1>7, <2>4 DEF Step, Types
  <1>8. CASE MotorOff
    <2>1. fd' \in FdType
      BY <1>5, <1>8 DEF MotorOff, Types, FdType
    <2> QED BY <1>8, <2>1 DEF MotorOff, Types
  <1>9. CASE Find \/ Mark \/ Accept \/ Return
    <2> DEFINE none == <<>>
    <2>1. none \in Seq(Word)
      OBVIOUS
    <2>2. \/ \E pc \in {"hdr", "data", "accepted"} : drv' = [drv EXCEPT !.pc = pc]
          \/ drv' = [drv EXCEPT !.pc = "idle", !.wrote = @ \cup {drv.want}]
          \/ drv' = [drv EXCEPT !.pc = "idle", !.got = none]
      BY <1>9 DEF Find, Mark, Accept, Return
    <2> HIDE DEF none
    <2>6. ctl' \in [tr : BOOLEAN, fs : BOOLEAN]
      BY <1>9 DEF Find, Mark, Accept, Return, FindSync, Types
    <2>3. CASE \E pc \in {"hdr", "data", "accepted"} : drv' = [drv EXCEPT !.pc = pc]
      <3>1. drv' \in DrvType
        BY <2>3 DEF Types, DrvType
      <3> QED BY <1>9, <2>6, <3>1 DEF Find, Mark, Accept, Return, Types
    <2>4. CASE drv' = [drv EXCEPT !.pc = "idle", !.wrote = @ \cup {drv.want}]
      <3>1. drv' = [pc |-> "idle", op |-> drv.op, want |-> drv.want, got |-> drv.got,
                    wrote |-> drv.wrote \cup {drv.want}]
        BY <2>4 DEF Types, DrvType
      <3>2. /\ drv.op \in {"READ", "WRITE"} /\ drv.want \in Place /\ drv.got \in Seq(Word)
            /\ drv.wrote \cup {drv.want} \in SUBSET Place
        BY DEF Types, DrvType
      <3>3. drv' \in DrvType
        BY <3>1, <3>2 DEF DrvType
      <3> QED BY <1>9, <2>6, <3>3 DEF Find, Mark, Accept, Return, Types
    <2>5. CASE drv' = [drv EXCEPT !.pc = "idle", !.got = none]
      <3>1. drv' = [pc |-> "idle", op |-> drv.op, want |-> drv.want, got |-> none, wrote |-> drv.wrote]
        BY <2>5 DEF Types, DrvType
      <3>2. drv.op \in {"READ", "WRITE"} /\ drv.want \in Place /\ drv.wrote \in SUBSET Place
        BY DEF Types, DrvType
      <3>3. drv' \in DrvType
        BY <2>1, <3>1, <3>2 DEF DrvType
      <3> QED BY <1>9, <2>6, <3>3 DEF Find, Mark, Accept, Return, Types
    <2> QED BY <2>2, <2>3, <2>4, <2>5
  <1>10. CASE Header
    BY <1>10 DEF Header, Types, DrvType
  <1>11. CASE Take
    <2>1. drv.got \in Seq(Word)
      BY DEF Types, DrvType
    <2>2. DataOut[1] = "data" => Append(drv.got, DataOut[2]) \in Seq(Word)
      BY <2>1, DataWord
    <2>3. drv' \in DrvType
      BY <1>11, <2>2 DEF Take, Types, DrvType
    <2> QED BY <1>11, <2>3 DEF Take, Types
  <1>12. CASE Put
    <2>1. DataOut[1] = "data" => <<drv.want, fd.pos - DSync - 1, 1>> \in Word
      BY DataWord DEF Types, DrvType, Word
    <2>2. buf' \in [Idx -> Word]
      BY <1>12, <2>1 DEF Put, Types
    <2> QED BY <1>12, <2>2 DEF Put, Types
  <1>13. CASE UNCHANGED vars
    BY <1>13 DEF vars, Types
  <1> QED BY <1>1, <1>2, <1>3, <1>4, <1>6, <1>7, <1>8, <1>9, <1>10, <1>11, <1>12, <1>13
          DEF Next, Drive, Path, Driver

LEMMA TimeStep == ASSUME TimeInv, [Next]_vars PROVE TimeInv'
  <1> USE DEF TimeInv
  <1>1. Types'
    BY TypesStep
  <1>2. fd.pos \in 0..Crc /\ sd.age \in 0..Latency /\ fd.rd \in BOOLEAN /\ fd.motor \in BOOLEAN
    BY DEF Types, FdType, SdType
  <1>3. CASE Turn
    <2>0. sd.st \in {"ready", "named", "busy", "other"}
      BY DEF Types, SdType
    <2>1. Request'
      BY <1>2, <1>3, <2>0, TurnDoes DEF Request, ReadSd, IsClean, rbusy
    <2>2. InTime'
      <3>1. Pending /\ Own => fd.pos # Crc
        BY <1>2, Sizes DEF Own
      <3>2. ASSUME Pending PROVE (fd.pos <= sd.age \/ Own)'
        <4>1. (sd'.age = sd.age + 1 /\ fd'.sec = fd.sec) \/ fd'.pos = 0
          BY <1>3, <3>2, TurnDoes DEF Pending
        <4>2. CASE fd'.pos = 0
          BY <1>1, <4>2 DEF Types, SdType
        <4>3. CASE fd'.pos = fd.pos + 1 /\ fd'.sec = fd.sec
          <5>1. /\ sd'.age = sd.age + 1 /\ Here' = Here
                /\ sd'.st = sd.st /\ sd'.sec = sd.sec
            BY <1>3, <3>2, <4>3, TurnDoes DEF Here, Pending
          <5>2. fd.pos <= sd.age \/ Own
            BY <3>2 DEF InTime
          <5> QED BY <1>2, <4>3, <5>1, <5>2, Sizes DEF Own
        <4> QED BY <1>3, <4>2, <4>3, TurnDoes
      <3>3. ASSUME ~Pending, Pending' PROVE Own'
        <4>1. fd'.pos = Req /\ sd'.st = "ready" /\ ~fd.rd
          BY <1>3, <3>3, TurnDoes DEF Pending, ReadSd, IsClean, rbusy, Request
        <4>2. sd'.age = 0
          BY <1>3, <3>3, <4>1, TurnDoes DEF Pending
        <4> QED BY <4>1, <4>2, Sizes DEF Own
      <3> QED BY <3>2, <3>3 DEF InTime
    <2> QED BY <1>1, <2>1, <2>2
  <1>4. CASE Path \/ OtherBegins
    <2> USE DEF Types, FdType, SdType, Request, InTime, Own, Pending, Here
    <2>1. CASE SdNamed
      BY <1>1, <1>2, <2>1, SdNamedDoes
    <2>2. CASE SdBusy
      <3>1. Here' = Here
        BY <2>2, SdBusyDoes
      <3>2. Request'
        BY <2>2, SdBusyDoes
      <3> HIDE DEF Here
      <3>3. InTime'
        BY <1>2, <2>2, <3>1, SdBusyDoes
      <3> QED BY <1>1, <3>2, <3>3
    <2>3. CASE SdWord \/ SdDone
      BY <1>1, <1>2, <2>3, SdWordDoes, SdDoneDoes
    <2>4. CASE OtherBegins \/ OtherEnds
      BY <1>1, <1>2, <2>4, OtherBeginsDoes, OtherEndsDoes
    <2> QED BY <1>4, <2>1, <2>2, <2>3, <2>4 DEF Path
  <1>5. ASSUME NEW s, NEW o \in BOOLEAN, NEW k, Control(s, o, k), sd' = sd
        PROVE  TimeInv'
    <2>1. Request'
      BY <1>5, ControlDoes DEF Request
    <2>2. InTime'
      BY <1>2, <1>5, ControlDoes DEF InTime, Own, Pending, Here
    <2> QED BY <1>1, <2>1, <2>2
  <1>6. CASE UNCHANGED <<fd, sd>>
    BY <1>1, <1>6 DEF Request, InTime, Own, Pending, Here
  <1>7. CASE Choose \/ Step \/ MotorOff
    BY <1>5, <1>7 DEF Choose, Step, MotorOff
  <1> QED BY <1>3, <1>4, <1>6, <1>7 DEF Next, Drive, Driver, Find, Header, Mark, Take, Put, Accept,
                Return, vars

\* The data field comes after the gap: nothing is being fetched there.
LEMMA OverInTime ==
  /\ TimeInv => (Pending => fd.pos <= DSync)
  /\ TimeInv => (Pending /\ fd.pos >= Req => Own)
  BY Sizes DEF TimeInv, Types, FdType, SdType, InTime, Own

-----------------------------------------------------------------------------
(* Place *)
\* The disk a driver looks at has the motor on, its side, its track, and from
\* the header it has read to the data field, its sector.
Seek ==
  /\ drv.pc \in {"seek", "hdr", "mark", "data"} => fd.motor /\ fd.side = drv.want[1]
  /\ drv.pc \in {"hdr", "mark", "data"} => fd.trk = drv.want[2]
  /\ drv.pc \in {"mark", "data"} => fd.sec = drv.want[3] /\ fd.pos >= Sek
  /\ drv.pc = "mark" => fd.pos = Sek
  /\ drv.pc = "data" => (fd.pos >= DSync => ~ctl.fs) /\ (fd.pos = Crc => ctl.tr)

LEMMA FindDoes ==
  ASSUME Types, Find
  PROVE  /\ drv.pc = "seek" /\ fd.trk = drv.want[2] /\ drv'.pc = "hdr"
         /\ fd' = fd /\ sd' = sd /\ buf' = buf
         /\ drv'.op = drv.op /\ drv'.want = drv.want /\ drv'.got = drv.got /\ drv'.wrote = drv.wrote
  BY DEF Find, FindSync, Types, DrvType

LEMMA MarkDoes ==
  ASSUME Types, Mark
  PROVE  /\ drv.pc = "mark" /\ drv'.pc = "data"
         /\ fd' = fd /\ sd' = sd /\ buf' = buf /\ ctl'.tr = ctl.tr /\ ctl'.fs = (fd.pos \notin {Sync, DSync})
         /\ drv'.op = drv.op /\ drv'.want = drv.want /\ drv'.got = drv.got /\ drv'.wrote = drv.wrote
  BY DEF Mark, FindSync, Types, DrvType

LEMMA HeaderDoes ==
  ASSUME Types, Header
  PROVE  /\ drv.pc = "hdr" /\ drv'.pc \in {"hdr", "mark", "seek"}
         /\ fd' = fd /\ sd' = sd /\ buf' = buf
         /\ drv'.pc = "mark" => fd.pos = Sek /\ fd.sec = drv.want[3]
         /\ drv'.op = drv.op /\ drv'.want = drv.want /\ drv'.got = drv.got /\ drv'.wrote = drv.wrote
  <1>1. DataOut = <<"sek", drv.want[3]>> => fd.pos = Sek /\ fd.sec = drv.want[3]
    <2>1. DataOut[1] = "sek" => fd.pos = Sek
      BY Sizes DEF DataOut
    <2>2. fd.pos = Sek => DataOut = <<"sek", fd.sec>>
      BY Sizes DEF DataOut
    <2> QED BY <2>1, <2>2
  <1> QED BY <1>1 DEF Header, Types, DrvType

LEMMA TakeDoes ==
  ASSUME Types, Take
  PROVE  /\ drv.pc = "data" /\ drv.op = "READ" /\ ctl.tr /\ ~ctl.fs /\ fd.pos # Crc
         /\ fd' = fd /\ sd' = sd /\ buf' = buf /\ ctl'.tr = FALSE /\ ctl'.fs = ctl.fs
         /\ drv'.pc = "data" /\ drv'.op = "READ" /\ drv'.want = drv.want /\ drv'.wrote = drv.wrote
         /\ drv'.got = IF DataOut[1] = "data" THEN Append(drv.got, DataOut[2]) ELSE drv.got
  BY DEF Take, Reading, Types, DrvType

LEMMA PutDoes ==
  ASSUME Types, Put
  PROVE  /\ drv.pc = "data" /\ drv.op = "WRITE" /\ ctl.tr /\ ~ctl.fs /\ fd.pos # Crc
         /\ fd' = fd /\ sd' = sd /\ drv' = drv /\ ctl'.tr = FALSE /\ ctl'.fs = ctl.fs
  BY DEF Put, Reading, Types

LEMMA AcceptDoes ==
  ASSUME Types, Accept
  PROVE  /\ drv.pc = "data" /\ ctl.tr /\ ~ctl.fs /\ fd.pos = Crc
         /\ fd' = fd /\ sd' = sd /\ buf' = buf /\ drv'.want = drv.want
         /\ drv'.op = drv.op /\ drv'.got = drv.got
         /\ drv.op = "READ" => drv'.pc = "accepted" /\ drv'.wrote = drv.wrote
         /\ drv.op = "WRITE" => drv'.pc = "idle"
  BY DEF Accept, Reading, Types, DrvType

LEMMA ReturnDoes ==
  ASSUME Types, Return
  PROVE  /\ drv.pc = "accepted" /\ fd' = fd /\ sd' = sd /\ buf' = buf /\ ctl' = ctl
         /\ drv'.pc = "idle" /\ drv'.got = <<>>
  BY DEF Return, Types, DrvType

SeekInv == TimeInv /\ Seek

LEMMA SeekStep == ASSUME SeekInv, [Next]_vars PROVE SeekInv'
  <1> USE DEF SeekInv
  <1>1. TimeInv' /\ Types
    BY TimeStep DEF TimeInv
  <1>2. /\ fd.pos \in 0..Crc /\ drv.pc \in {"idle", "seek", "hdr", "mark", "data", "accepted"}
        /\ drv.op \in {"READ", "WRITE"}
    BY <1>1 DEF Types, FdType, DrvType
  <1>3. CASE Turn
    <2>1. drv.pc # "mark" /\ (drv.pc = "data" => fd.pos # Crc)
      BY <1>1, <1>3, TurnDoes, Sizes DEF OnTime, Reading, Seek
    <2>2. drv.pc = "seek" => fd.trk # drv.want[2]
      BY <1>1, <1>3, TurnDoes DEF OnTime
    <2>3. (drv.pc = "data" => (fd.pos >= DSync => ~ctl.fs) /\ (fd.pos = Crc => ctl.tr))'
      <3>1. /\ drv' = drv /\ ctl'.tr = TRUE
            /\ fd'.pos = 0 \/ fd'.pos = fd.pos + 1
            /\ ctl'.fs => ctl.fs /\ fd'.pos # DSync
        BY <1>1, <1>3, TurnDoes
      <3>2. drv.pc = "data" /\ fd.pos >= DSync => ~ctl.fs
        BY DEF Seek
      <3> QED BY <1>2, <3>1, <3>2, Sizes
    <2> QED BY <1>1, <1>2, <1>3, <2>1, <2>3, TurnDoes, Sizes DEF Seek
  <1>4. CASE Path \/ OtherBegins
    <2>1. /\ fd'.motor = fd.motor /\ fd'.side = fd.side /\ fd'.trk = fd.trk /\ fd'.sec = fd.sec
          /\ fd'.pos = fd.pos /\ ctl' = ctl /\ drv' = drv
      BY <1>1, <1>4, SdNamedDoes, SdBusyDoes, SdWordDoes, SdDoneDoes, OtherBeginsDoes, OtherEndsDoes
         DEF Path
    <2> QED BY <1>1, <2>1 DEF Seek
  <1>5. CASE Choose
    <2> PICK p \in Place, o \in {"READ", "WRITE"} :
          /\ drv' = [drv EXCEPT !.pc = "seek", !.op = o, !.want = p, !.got = <<>>]
          /\ Control(p[1], TRUE, fd.trk)
      BY <1>5 DEF Choose
    <2>1. drv'.pc = "seek" /\ drv'.want = p
      BY <1>1 DEF Types, DrvType
    <2>2. fd'.motor = TRUE /\ fd'.side = p[1]
      BY <1>1, ControlDoes
    <2> QED BY <1>1, <2>1, <2>2 DEF Seek
  <1>6. CASE Step
    <2>1. fd'.motor = TRUE /\ fd'.side = fd.side /\ drv.pc = "seek" /\ drv' = drv
      BY <1>1, <1>6, ControlDoes DEF Step
    <2> QED BY <1>1, <2>1 DEF Seek
  <1>7. CASE MotorOff
    BY <1>1, <1>7 DEF MotorOff, Seek
  <1>8. CASE Find
    BY <1>1, <1>8, FindDoes DEF Seek
  <1>9. CASE Header
    BY <1>1, <1>2, <1>9, HeaderDoes, Sizes DEF Seek
  <1>10. CASE Mark
    BY <1>1, <1>10, MarkDoes, Sizes DEF Seek
  <1>11. CASE Take \/ Put
    <2>1. /\ drv.pc = "data" /\ drv'.pc = "data" /\ drv'.want = drv.want /\ fd' = fd
          /\ fd.pos # Crc /\ ~ctl'.fs
      BY <1>1, <1>11, TakeDoes, PutDoes
    <2> QED BY <1>1, <2>1 DEF Seek
  <1>12. CASE Accept \/ Return
    BY <1>1, <1>2, <1>12, AcceptDoes, ReturnDoes DEF Seek
  <1>13. CASE UNCHANGED vars
    BY <1>1, <1>13 DEF vars, Seek
  <1> QED BY <1>3, <1>4, <1>5, <1>6, <1>7, <1>8, <1>9, <1>10, <1>11, <1>12, <1>13 DEF Next, Drive, Driver

-----------------------------------------------------------------------------
(* The buffer *)
\* The part of a fetched sector that is in the buffer, while it is fetched.
Filling == sd.st = "busy" => \A i \in Idx : i < sd.i => buf[i] = <<sd.sec, i, 0>>

\* The data field is under the head, and nobody else at the buffer.
AtWork == drv.pc = "data" /\ fd.pos > DSync

LEMMA Alone == TimeInv /\ fd.pos > DSync => sd.st \notin {"named", "busy"}
  BY OverInTime, Sizes DEF TimeInv, Types, FdType, Pending

\* Only the path and a write change the buffer, and a write at the data field.
LEMMA WriteAtData ==
  ASSUME Types, Put
  PROVE  \/ fd.pos <= DSync /\ buf' = buf
         \/ /\ fd.pos > DSync /\ fd.pos - DSync - 1 \in Idx
            /\ buf' = [buf EXCEPT ![fd.pos - DSync - 1] = <<drv.want, fd.pos - DSync - 1, 1>>]
  <1>1. fd.pos \in 0..Crc
    BY DEF Types, FdType
  <1>2. fd.pos > DSync <=> DataOut[1] = "data"
    BY PutDoes, DataWord
  <1> QED BY <1>1, <1>2, DataWord, Sizes DEF Put

LEMMA BufferKept ==
  ASSUME TimeInv, [Next]_vars, ~SdWord, ~(Put /\ fd.pos > DSync)
  PROVE  buf' = buf
  <1>1. Types
    BY DEF TimeInv
  <1>2. CASE Put
    BY <1>1, <1>2, WriteAtData
  <1>3. CASE ~Put
    BY <1>3 DEF Next, Drive, Driver, Path, Turn, SdNamed, SdBusy, SdDone, OtherBegins, OtherEnds,
              Choose, Step, MotorOff, Find, Header, Mark, Take, Accept, Return, vars
  <1> QED BY <1>2, <1>3

LEMMA FillStep == ASSUME TimeInv, Filling, [Next]_vars PROVE Filling'
  <1>1. Types
    BY DEF TimeInv
  <1>3. CASE Path
    <2>1. CASE SdWord
      <3>1. buf' = [buf EXCEPT ![sd.i] = <<sd.sec, sd.i, 0>>] /\ sd.i \in Idx /\ sd.i \in Nat
        BY <1>1, <2>1, Sizes DEF SdWord, Types, SdType, Idx
      <3>2. ASSUME NEW i \in Idx, i < sd'.i PROVE buf'[i] = <<sd'.sec, i, 0>>
        <4>1. i < sd.i \/ i = sd.i
          BY <1>1, <2>1, <3>1, <3>2, SdWordDoes DEF Idx
        <4> QED BY <1>1, <2>1, <3>1, <3>2, <4>1, SdWordDoes DEF Filling, Types
      <3> QED BY <3>2 DEF Filling
    <2>2. CASE SdBusy
      <3>1. sd'.i = 0
        BY <1>1, <2>2, SdBusyDoes DEF TimeInv, Request
      <3> QED BY <3>1 DEF Filling, Idx
    <2>3. CASE SdNamed \/ SdDone \/ OtherEnds
      BY <1>1, <2>3, SdNamedDoes, SdDoneDoes, OtherEndsDoes DEF Filling
    <2> QED BY <1>3, <2>1, <2>2, <2>3 DEF Path
  <1>4. CASE OtherBegins
    BY <1>1, <1>4, OtherBeginsDoes DEF Filling
  <1>5. ASSUME sd'.st = sd.st, sd'.sec = sd.sec, sd'.i = sd.i, buf' = buf PROVE Filling'
    BY <1>5 DEF Filling
  <1>6. CASE Turn
    BY <1>1, <1>5, <1>6, TurnDoes
  <1>7. CASE Put
    <2>1. CASE sd.st = "busy"
      <3>1. fd.pos <= DSync
        BY <2>1, Alone, Sizes DEF TimeInv, Types, FdType
      <3>2. fd.pos \in Nat
        BY <1>1, Sizes DEF Types, FdType
      <3>3. buf' = buf
        BY <1>1, <1>7, <3>1, <3>2, WriteAtData, Sizes
      <3> QED BY <1>1, <1>5, <1>7, <3>3, PutDoes
    <2>2. CASE sd.st # "busy"
      BY <1>1, <1>7, <2>2, PutDoes DEF Filling
    <2> QED BY <2>1, <2>2
  <1>8. CASE \/ Choose \/ Step \/ MotorOff \/ Find \/ Header \/ Mark \/ Take \/ Accept \/ Return
             \/ UNCHANGED vars
    BY <1>5, <1>8 DEF Choose, Step, MotorOff, Find, Header, Mark, Take, Accept, Return, vars
  <1> QED BY <1>3, <1>4, <1>6, <1>7, <1>8 DEF Next, Drive, Driver

Fetched(p) == [i \in Idx |-> <<p, i, 0>>]
Stored(p) == [i \in Idx |-> <<p, i, 1>>]

\* The buffer holds one sector whole, but for a fetch or a write in progress;
\* the words that have passed under a write are that write's.
OneSector == \/ buf = Blank \/ \E p \in Place : buf = Fetched(p) \/ buf = Stored(p)
Writing == AtWork /\ drv.op = "WRITE"
Passed(i) == i < fd.pos - DSync - 1 \/ (i = fd.pos - DSync - 1 /\ ~ctl.tr)
Whole == sd.st # "busy" /\ ~Writing => OneSector
Overwritten == Writing => \A i \in Idx : Passed(i) => buf[i] = <<drv.want, i, 1>>

BufferInv == SeekInv /\ Filling /\ Whole /\ Overwritten

LEMMA BufferStep == ASSUME BufferInv, [Next]_vars PROVE BufferInv'
  <1> USE DEF BufferInv
  <1>1. SeekInv' /\ Filling' /\ TimeInv /\ Types /\ Seek
    BY SeekStep, FillStep DEF SeekInv, TimeInv
  <1>2. /\ fd.pos \in 0..Crc /\ drv.pc \in {"idle", "seek", "hdr", "mark", "data", "accepted"}
        /\ drv.op \in {"READ", "WRITE"}
    BY <1>1 DEF Types, FdType, DrvType
  <1>3. ASSUME buf' = buf, sd'.st # "busy" => sd.st # "busy", ~Writing, ~Writing'
        PROVE  (Whole /\ Overwritten)'
    BY <1>3 DEF Whole, Overwritten, OneSector
  <1>4. CASE Turn
    <2>1. /\ buf' = buf /\ drv' = drv /\ sd'.st = sd.st /\ ctl'.tr = TRUE
          /\ (fd'.pos = 0 /\ fd.pos = Crc) \/ fd'.pos = fd.pos + 1
          /\ OnTime
      BY <1>1, <1>4, TurnDoes
    <2>2. CASE Writing
      <3>1. ~ctl.tr /\ fd.pos # Crc
        BY <1>1, <1>2, <2>1, <2>2, Sizes DEF Writing, AtWork, Seek, OnTime, Reading
      <3>2. \A i \in Idx : Passed(i)' => Passed(i)
        BY <1>2, <2>1, <3>1, Sizes DEF Passed, Idx
      <3>3. Writing'
        BY <1>2, <2>1, <2>2, <3>1, Sizes DEF Writing, AtWork
      <3> QED BY <1>1, <2>1, <2>2, <3>2, <3>3 DEF Whole, Overwritten
    <2>3. CASE ~Writing /\ Writing'
      <3>1. fd.pos = DSync /\ fd'.pos = DSync + 1
        BY <1>2, <2>1, <2>3, Sizes DEF Writing, AtWork
      <3>2. \A i \in Idx : ~Passed(i)'
        BY <2>1, <3>1, Sizes DEF Passed, Idx
      <3> QED BY <1>1, <2>3, <3>2 DEF Whole, Overwritten
    <2>4. CASE ~Writing /\ ~Writing'
      BY <1>1, <1>3, <2>1, <2>4
    <2> QED BY <2>2, <2>3, <2>4
  <1>5. CASE Path \/ OtherBegins
    <2>1. fd'.pos = fd.pos /\ drv' = drv /\ ctl' = ctl /\ Writing' = Writing
      BY <1>1, <1>5, SdNamedDoes, SdBusyDoes, SdWordDoes, SdDoneDoes, OtherBeginsDoes, OtherEndsDoes
         DEF Path, Writing, AtWork
    <2>2. CASE Writing
      <3>1. sd.st \notin {"named", "busy"}
        BY <1>1, <2>2, Alone DEF Writing, AtWork
      <3>2. buf' = buf
        BY <1>1, <1>5, <3>1, SdNamedDoes, SdWordDoes, SdBusyDoes, SdDoneDoes,
           OtherBeginsDoes, OtherEndsDoes DEF Path
      <3> QED BY <1>1, <2>1, <2>2, <3>2 DEF Whole, Overwritten, Passed
    <2>3. CASE ~Writing /\ SdDone
      <3>1. sd.st = "busy" /\ sd.i = Words /\ buf' = buf /\ sd.sec \in Place
        BY <1>1, <2>3, SdDoneDoes DEF Types, SdType
      <3>2. \A i \in Idx : buf[i] = <<sd.sec, i, 0>>
        BY <3>1, Sizes DEF Filling, Idx
      <3>3. buf = Fetched(sd.sec)
        BY <1>1, <3>2 DEF Types, Fetched
      <3> QED BY <1>1, <2>1, <2>3, <3>1, <3>3 DEF Whole, Overwritten, OneSector
    <2>4. CASE ~Writing /\ ~SdDone
      BY <1>1, <1>3, <1>5, <2>1, <2>4, SdNamedDoes, SdBusyDoes, SdWordDoes, OtherBeginsDoes, OtherEndsDoes
         DEF Path, Whole, Overwritten
    <2> QED BY <2>2, <2>3, <2>4
  <1>6. CASE Put
    <2>1. /\ drv.pc = "data" /\ drv.op = "WRITE" /\ ctl.tr /\ fd.pos # Crc
          /\ fd' = fd /\ sd' = sd /\ drv' = drv /\ ctl'.tr = FALSE
      BY <1>1, <1>6, PutDoes
    <2>2. CASE fd.pos <= DSync
      <3>1. buf' = buf
        BY <1>1, <1>2, <1>6, <2>2, WriteAtData, Sizes
      <3> QED BY <1>1, <1>2, <1>3, <2>1, <2>2, <3>1, Sizes DEF Writing, AtWork
    <2>3. CASE fd.pos > DSync
      <3> DEFINE j == fd.pos - DSync - 1
      <3>1. j \in Idx /\ buf' = [buf EXCEPT ![j] = <<drv.want, j, 1>>]
        BY <1>1, <1>2, <1>6, <2>3, WriteAtData, Sizes
      <3>2. Writing /\ Writing'
        BY <2>1, <2>3 DEF Writing, AtWork
      <3>3. ASSUME NEW i \in Idx, Passed(i)' PROVE buf'[i] = <<drv.want, i, 1>>
        <4>1. i = j \/ (i # j /\ Passed(i))
          BY <1>2, <2>1, <3>3, Sizes DEF Passed, Idx
        <4> QED BY <1>1, <3>1, <3>2, <4>1 DEF Overwritten, Types
      <3> QED BY <1>1, <2>1, <3>2, <3>3 DEF Whole, Overwritten
    <2> QED BY <1>2, <2>2, <2>3, Sizes
  <1>7. CASE Accept
    <2>1. /\ drv.pc = "data" /\ fd.pos = Crc /\ fd' = fd /\ sd' = sd /\ buf' = buf
          /\ drv'.pc \in {"idle", "accepted"}
      BY <1>1, <1>2, <1>7, AcceptDoes
    <2>2. ~Writing'
      BY <2>1 DEF Writing, AtWork
    <2>3. CASE Writing
      <3>1. \A i \in Idx : Passed(i)
        BY <2>1, Sizes DEF Passed, Idx
      <3>2. buf = Stored(drv.want) /\ drv.want \in Place
        BY <1>1, <2>3, <3>1 DEF Overwritten, Stored, Types, DrvType
      <3> QED BY <1>1, <2>1, <2>2, <3>2 DEF Whole, Overwritten, OneSector
    <2> QED BY <1>1, <1>3, <2>1, <2>2, <2>3
  <1>8. CASE Choose \/ Step \/ MotorOff \/ Find \/ Header \/ Mark \/ Take \/ Return
    <2>1. buf' = buf /\ sd' = sd
      BY <1>8 DEF Choose, Step, MotorOff, Find, Header, Mark, Take, Return
    <2>2. ~Writing /\ ~Writing'
      <3>1. CASE Choose \/ Step \/ MotorOff \/ Return
        <4>1. drv.pc \in {"idle", "seek", "accepted"} /\ drv'.pc \in {"idle", "seek"}
          BY <1>1, <3>1, ReturnDoes DEF Choose, Step, MotorOff, Types, DrvType
        <4> QED BY <4>1 DEF Writing, AtWork
      <3>2. CASE Find \/ Header
        BY <1>1, <3>2, FindDoes, HeaderDoes DEF Writing, AtWork
      <3>3. CASE Mark
        BY <1>1, <3>3, MarkDoes, Sizes DEF Writing, AtWork, Seek
      <3>4. CASE Take
        BY <1>1, <3>4, TakeDoes DEF Writing, AtWork
      <3> QED BY <1>8, <3>1, <3>2, <3>3, <3>4
    <2> QED BY <1>1, <1>3, <2>1, <2>2
  <1>9. CASE UNCHANGED vars
    BY <1>1, <1>9 DEF vars, Whole, Overwritten, OneSector, Writing, AtWork, Passed
  <1> QED BY <1>4, <1>5, <1>6, <1>7, <1>8, <1>9 DEF Next, Drive, Driver

-----------------------------------------------------------------------------
(* What the driver reads *)
\* What has been read so far is the buffer up to the head.
Got ==
  /\ drv.pc # "accepted" /\ ~(AtWork /\ drv.op = "READ") => drv.got = <<>>
  /\ AtWork /\ drv.op = "READ" =>
       /\ Len(drv.got) = fd.pos - DSync - (IF ctl.tr THEN 1 ELSE 0)
       /\ \A k \in 1..Len(drv.got) : drv.got[k] = buf[k - 1]

LEMMA GotStep == ASSUME SeekInv, Got, [Next]_vars PROVE Got'
  <1> DEFINE R == AtWork /\ drv.op = "READ"
  <1>1. TimeInv /\ Types /\ Seek
    BY DEF SeekInv, TimeInv
  <1>2. /\ fd.pos \in 0..Crc /\ drv.pc \in {"idle", "seek", "hdr", "mark", "data", "accepted"}
        /\ drv.op \in {"READ", "WRITE"} /\ drv.got \in Seq(Word)
    BY <1>1 DEF Types, FdType, DrvType
  <1>3. ASSUME ~R', drv'.got = <<>> \/ drv'.pc = "accepted" PROVE Got'
    BY <1>3 DEF Got
  <1>4. CASE Turn
    <2>1. /\ buf' = buf /\ drv' = drv /\ ctl'.tr = TRUE /\ OnTime /\ drv.pc # "accepted"
          /\ (fd'.pos = 0 /\ fd.pos = Crc) \/ fd'.pos = fd.pos + 1
      BY <1>1, <1>4, TurnDoes DEF OnTime
    <2>2. CASE R
      <3>1. ~ctl.tr /\ fd.pos # Crc
        BY <1>1, <1>2, <2>1, <2>2, Sizes DEF AtWork, Seek, OnTime, Reading
      <3>2. Len(drv.got) = fd.pos - DSync /\ \A k \in 1..Len(drv.got) : drv.got[k] = buf[k - 1]
        <4>1. Len(drv.got) = fd.pos - DSync - 0 /\ \A k \in 1..Len(drv.got) : drv.got[k] = buf[k - 1]
          BY <2>2, <3>1 DEF Got
        <4> QED BY <1>2, <4>1, Sizes
      <3>3. fd'.pos = fd.pos + 1 /\ R'
        BY <1>2, <2>1, <2>2, <3>1, Sizes DEF AtWork
      <3>4. Len(drv.got) = fd'.pos - DSync - 1
        BY <1>2, <3>2, <3>3, Sizes
      <3> QED BY <2>1, <3>2, <3>3, <3>4 DEF Got
    <2>3. CASE ~R /\ R'
      <3>1. drv.got = <<>> /\ fd'.pos = DSync + 1
        BY <1>2, <2>1, <2>3, Sizes DEF AtWork, Got
      <3>2. Len(drv.got) = 0 /\ 0 = fd'.pos - DSync - 1
        BY <3>1, Sizes
      <3> QED BY <2>1, <2>3, <3>2 DEF Got
    <2>4. CASE ~R /\ ~R'
      BY <1>3, <2>1, <2>4 DEF Got
    <2> QED BY <2>2, <2>3, <2>4
  <1>5. CASE Path \/ OtherBegins
    <2>1. fd'.pos = fd.pos /\ drv' = drv /\ ctl' = ctl /\ AtWork' = AtWork
      BY <1>1, <1>5, SdNamedDoes, SdBusyDoes, SdWordDoes, SdDoneDoes, OtherBeginsDoes, OtherEndsDoes
         DEF Path, AtWork
    <2>2. R => buf' = buf
      BY <1>1, <1>5, Alone, SdNamedDoes, SdBusyDoes, SdWordDoes, SdDoneDoes, OtherBeginsDoes, OtherEndsDoes
         DEF Path, AtWork
    <2> QED BY <2>1, <2>2 DEF Got
  <1>6. CASE Take
    <2>1. /\ drv.pc = "data" /\ drv.op = "READ" /\ ctl.tr /\ fd.pos # Crc /\ fd' = fd /\ buf' = buf
          /\ ctl'.tr = FALSE /\ drv'.pc = "data" /\ drv'.op = "READ"
          /\ drv'.got = IF DataOut[1] = "data" THEN Append(drv.got, DataOut[2]) ELSE drv.got
      BY <1>1, <1>6, TakeDoes
    <2>2. CASE ~AtWork
      <3>1. DataOut[1] # "data"
        BY <1>1, <2>1, <2>2, DataWord DEF AtWork
      <3> QED BY <1>3, <2>1, <2>2, <3>1 DEF Got, AtWork
    <2>3. CASE AtWork
      <3> DEFINE n == Len(drv.got)
      <3>1. n = fd.pos - DSync - 1 /\ \A k \in 1..n : drv.got[k] = buf[k - 1]
        BY <2>1, <2>3 DEF Got
      <3>2. drv'.got = Append(drv.got, buf[n])
        BY <1>1, <2>1, <2>3, <3>1, DataWord DEF AtWork
      <3>3. n \in Nat /\ Len(drv'.got) = n + 1 /\ drv'.got[n + 1] = buf[n]
            /\ \A k \in 1..n : drv'.got[k] = drv.got[k]
        BY <1>2, <3>2
      <3>4. \A k \in 1..Len(drv'.got) : drv'.got[k] = buf[k - 1]
        <4> SUFFICES ASSUME NEW k \in 1..(n + 1) PROVE drv'.got[k] = buf[k - 1]
          BY <3>3
        <4>1. CASE k = n + 1
          <5>1. k - 1 = n
            BY <3>3, <4>1
          <5> QED BY <3>3, <4>1, <5>1
        <4>2. CASE k \in 1..n
          BY <3>1, <3>3, <4>2
        <4> QED BY <3>3, <4>1, <4>2
      <3>5. Len(drv'.got) = fd'.pos - DSync - 0
        BY <1>2, <2>1, <3>1, <3>3, Sizes
      <3>6. R'
        BY <2>1, <2>3 DEF AtWork
      <3> QED BY <2>1, <3>4, <3>5, <3>6 DEF Got
    <2> QED BY <2>2, <2>3
  <1>7. CASE Put
    BY <1>1, <1>3, <1>7, PutDoes DEF Got
  <1>8. CASE Accept
    <2>1. /\ drv'.pc \in {"idle", "accepted"} /\ drv'.got = drv.got
          /\ drv.op = "WRITE" => drv.got = <<>>
          /\ drv.op = "READ" => drv'.pc = "accepted"
      BY <1>1, <1>2, <1>8, AcceptDoes DEF Got
    <2> QED BY <1>2, <1>3, <2>1 DEF AtWork
  <1>9. CASE Return
    BY <1>1, <1>3, <1>9, ReturnDoes DEF AtWork
  <1>10. CASE Choose
    <2> DEFINE none == <<>>
    <2>1. PICK p \in Place, o \in {"READ", "WRITE"} :
            drv' = [drv EXCEPT !.pc = "seek", !.op = o, !.want = p, !.got = none]
      BY <1>10 DEF Choose
    <2> HIDE DEF none
    <2>2. drv'.pc = "seek" /\ drv'.got = none
      BY <1>1, <2>1 DEF Types, DrvType
    <2> QED BY <1>3, <2>2 DEF AtWork, none
  <1>11. CASE Step \/ MotorOff
    <2>1. drv' = drv /\ drv.pc \in {"idle", "seek"}
      BY <1>11 DEF Step, MotorOff
    <2> QED BY <1>3, <2>1 DEF AtWork, Got
  <1>12. CASE Find \/ Header
    BY <1>1, <1>3, <1>12, FindDoes, HeaderDoes DEF AtWork, Got
  <1>13. CASE Mark
    BY <1>1, <1>3, <1>13, MarkDoes, Sizes DEF AtWork, Got, Seek
  <1>14. CASE UNCHANGED vars
    BY <1>14 DEF vars, Got, AtWork
  <1> QED BY <1>4, <1>5, <1>6, <1>7, <1>8, <1>9, <1>10, <1>11, <1>12, <1>13, <1>14 DEF Next, Drive, Driver

\* A sector's fetch, asked for at its header, is on its way or in the buffer.
Fresh == drv.pc = "data" /\ drv.op = "READ" /\ fd.pos >= Req /\ ~fd.taken => Pending \/ buf = Fetched(Here)

LEMMA FreshStep == ASSUME SeekInv, Filling, Fresh, [Next]_vars PROVE Fresh'
  <1> DEFINE R == drv.pc = "data" /\ drv.op = "READ" /\ fd.pos >= Req /\ ~fd.taken
  <1>1. TimeInv /\ Types /\ Seek /\ Request
    BY DEF SeekInv, TimeInv
  <1>2. /\ fd.pos \in 0..Crc /\ drv.pc \in {"idle", "seek", "hdr", "mark", "data", "accepted"}
        /\ drv.op \in {"READ", "WRITE"} /\ sd.st \in {"ready", "named", "busy", "other"}
    BY <1>1 DEF Types, FdType, DrvType, SdType
  <1>3. CASE Turn
    <2>1. /\ buf' = buf /\ drv' = drv /\ sd'.st = sd.st /\ fd.motor
          /\ \/ fd'.pos = 0
             \/ fd'.pos = fd.pos + 1 /\ Here' = Here
          /\ fd'.rd = ReadSd(fd'.pos)
          /\ fd'.taken = (IF fd'.pos = Req THEN sd.st = "other" ELSE fd.taken)
      BY <1>1, <1>3, TurnDoes DEF Here
    <2> SUFFICES ASSUME R' PROVE Pending' \/ buf' = Fetched(Here)'
      BY DEF Fresh
    <2>2. fd'.pos = fd.pos + 1 /\ Here' = Here
      BY <2>1, Sizes
    <2>3. Pending => Pending'
      BY <1>1, <2>1 DEF Pending, ReadSd, IsClean, rbusy
    <2>4. CASE fd'.pos = Req
      <3>1. sd.st # "other"
        BY <2>1, <2>4
      <3> QED BY <1>2, <2>1, <2>4, <3>1 DEF Pending, ReadSd, IsClean, rbusy
    <2>5. CASE fd'.pos # Req
      <3>1. R
        BY <1>2, <2>1, <2>2, <2>5, Sizes
      <3> QED BY <2>1, <2>2, <2>3, <3>1 DEF Fresh, Fetched
    <2> QED BY <2>4, <2>5
  <1>4. CASE SdNamed \/ SdBusy
    BY <1>1, <1>4, SdNamedDoes, SdBusyDoes DEF Fresh, Pending
  <1>5. CASE SdWord
    BY <1>1, <1>5, SdWordDoes DEF Fresh, Pending
  <1>6. CASE SdDone
    <2>1. /\ sd.st = "busy" /\ sd.i = Words /\ fd' = fd /\ buf' = buf /\ drv' = drv
      BY <1>1, <1>6, SdDoneDoes
    <2>2. \A i \in Idx : buf[i] = <<sd.sec, i, 0>>
      BY <2>1, Sizes DEF Filling, Idx
    <2>3. R => buf = Fetched(Here)
      <3>1. R => sd.sec = Here
        BY <1>1, <2>1, OverInTime DEF Pending, Own
      <3> QED BY <1>1, <2>2, <3>1 DEF Types, Fetched
    <2> QED BY <2>1, <2>3 DEF Fresh, Here, Fetched
  <1>7. CASE OtherBegins \/ OtherEnds
    BY <1>1, <1>7, OtherBeginsDoes, OtherEndsDoes DEF Fresh, Pending, Here, Fetched
  <1>8. CASE Choose \/ Step \/ MotorOff \/ Find \/ Header \/ Accept \/ Return
    <2>1. drv'.pc # "data"
      <3>1. CASE Choose \/ Step \/ MotorOff
        BY <1>1, <3>1 DEF Choose, Step, MotorOff, Types, DrvType
      <3>2. CASE Find \/ Header \/ Return
        BY <1>1, <3>2, FindDoes, HeaderDoes, ReturnDoes
      <3>3. CASE Accept
        BY <1>1, <1>2, <3>3, AcceptDoes
      <3> QED BY <1>8, <3>1, <3>2, <3>3
    <2> QED BY <2>1 DEF Fresh
  <1>9. CASE Mark
    BY <1>1, <1>9, MarkDoes, Sizes DEF Fresh, Seek
  <1>10. CASE Take
    BY <1>1, <1>10, TakeDoes DEF Fresh, Pending, Here, Fetched
  <1>11. CASE Put
    BY <1>1, <1>11, PutDoes DEF Fresh
  <1>12. CASE UNCHANGED vars
    BY <1>12 DEF vars, Fresh, Pending, Here, Fetched
  <1> QED BY <1>3, <1>4, <1>5, <1>6, <1>7, <1>8, <1>9, <1>10, <1>11, <1>12 DEF Next, Drive, Driver, Path

-----------------------------------------------------------------------------
(* The results *)
Inv == BufferInv /\ Got /\ Fresh /\ WholeSector /\ FreshSector

\* At the end of the data field: the sector has been read, from a buffer that
\* nobody else was at.
LEMMA ReadWhole ==
  ASSUME BufferInv, Got, Accept, drv.op = "READ"
  PROVE  /\ drv.got \in Seq(Word) /\ Len(drv.got) = Words
         /\ \A k \in 1..Words : k - 1 \in Idx /\ drv.got[k] = buf[k - 1]
         /\ OneSector /\ ~Pending /\ Here = drv.want
  <1>1. Types /\ TimeInv /\ Seek
    BY DEF BufferInv, SeekInv, TimeInv
  <1>2. drv.pc = "data" /\ ctl.tr /\ fd.pos = Crc
    BY <1>1, AcceptDoes
  <1>3. fd.pos > DSync /\ AtWork
    BY <1>2, Sizes DEF AtWork
  <1>4. ~Pending
    BY <1>1, <1>2, OverInTime, Sizes
  <1>5. OneSector
    BY <1>4 DEF BufferInv, Whole, Writing, Pending
  <1>6. Len(drv.got) = Crc - DSync - 1 /\ \A k \in 1..Len(drv.got) : drv.got[k] = buf[k - 1]
    BY <1>2, <1>3 DEF Got
  <1>7. Len(drv.got) = Words
    BY <1>6, Sizes
  <1>8. \A k \in 1..Words : k - 1 \in Idx
    BY Sizes DEF Idx
  <1>9. drv.got \in Seq(Word) /\ drv.want \in Place
    BY <1>1 DEF Types, DrvType
  <1>10. Here = drv.want
    BY <1>1, <1>2, <1>9, Places DEF Seek, Here
  <1> QED BY <1>4, <1>5, <1>6, <1>7, <1>8, <1>9, <1>10

LEMMA ResultStep == ASSUME Inv, [Next]_vars PROVE (WholeSector /\ FreshSector)'
  <1>1. Types /\ BufferInv /\ Got /\ Fresh /\ WholeSector /\ FreshSector
    BY DEF Inv, BufferInv, SeekInv, TimeInv
  <1>2. CASE Accept /\ drv.op = "READ"
    <2>1. /\ fd' = fd /\ drv'.pc = "accepted" /\ drv'.want = drv.want /\ drv'.got = drv.got
          /\ drv'.wrote = drv.wrote /\ drv.pc = "data" /\ fd.pos = Crc
      BY <1>1, <1>2, AcceptDoes
    <2>2. /\ drv.got \in Seq(Word) /\ Len(drv.got) = Words
          /\ \A k \in 1..Words : k - 1 \in Idx /\ drv.got[k] = buf[k - 1]
          /\ OneSector /\ ~Pending /\ Here = drv.want
      BY <1>1, <1>2, ReadWhole
    <2>3. \A v : (\A k \in 1..Words : drv.got[k] = v[k]) => drv.got = [k \in 1..Words |-> v[k]]
      BY <2>2
    <2>4. WholeSector'
      <3>1. CASE buf = Blank
        <4>1. drv.got = [k \in 1..Words |-> <<>>]
          BY SMTT(30), <2>2, <3>1 DEF Blank
        <4> QED BY <2>1, <4>1 DEF WholeSector
      <3>2. ASSUME NEW p \in Place, buf = Fetched(p) \/ buf = Stored(p) PROVE WholeSector'
        <4>1. PICK v \in {0, 1} : buf = [i \in Idx |-> <<p, i, v>>]
          BY <3>2 DEF Fetched, Stored
        <4>2. drv.got = [k \in 1..Words |-> <<p, k - 1, v>>]
          BY SMTT(30), <2>2, <4>1
        <4> QED BY <2>1, <4>2 DEF WholeSector
      <3> QED BY <2>2, <3>1, <3>2 DEF OneSector
    <2>5. FreshSector'
      <3> SUFFICES ASSUME ~fd.taken, drv.want \notin drv.wrote, NEW i \in Idx
                   PROVE  drv.got[i + 1] = <<drv.want, i, 0>>
        BY <2>1 DEF FreshSector, RightSector
      <3>1. buf = Fetched(drv.want)
        BY <1>1, <1>2, <2>1, <2>2, Sizes DEF Fresh
      <3>2. i + 1 \in 1..Words /\ (i + 1) - 1 = i
        BY Sizes DEF Idx
      <3>3. drv.got[i + 1] = buf[i]
        BY <2>2, <3>2
      <3> QED BY <3>1, <3>3 DEF Fetched
    <2> QED BY <2>4, <2>5
  <1>3. CASE ~(Accept /\ drv.op = "READ")
    <2>1. CASE drv'.pc # "accepted"
      BY <2>1 DEF WholeSector, FreshSector, RightSector
    <2>2. CASE drv'.pc = "accepted"
      <3>1. drv' = drv /\ drv.pc = "accepted"
        <4>1. drv' = drv \/ drv'.pc \in {"idle", "hdr", "seek", "mark", "data"}
          <5>1. CASE Choose
            BY <1>1, <5>1 DEF Choose, Types, DrvType
          <5>2. CASE Find \/ Header \/ Mark \/ Take \/ Accept \/ Return
            BY <1>1, <1>3, <5>2, FindDoes, HeaderDoes, MarkDoes, TakeDoes, AcceptDoes, ReturnDoes
               DEF Types, DrvType
          <5>3. CASE Turn \/ Path \/ OtherBegins \/ Step \/ Put \/ MotorOff \/ UNCHANGED vars
            BY <5>3 DEF Turn, Path, SdNamed, SdBusy, SdWord, SdDone, OtherEnds, OtherBegins, Step, Put,
                        MotorOff, vars
          <5> QED BY <5>1, <5>2, <5>3 DEF Next, Drive, Driver
        <4> QED BY <2>2, <4>1
      <3>2. fd'.taken = fd.taken
        <4>1. CASE fd' = fd
          BY <4>1
        <4>2. CASE SdBusy
          BY <1>1, <4>2, SdBusyDoes
        <4>3. CASE ~SdBusy
          BY <1>1, <3>1, <4>1, <4>3 DEF Next, Drive, Driver, Path, Turn, OnTime, SdNamed, SdWord, SdDone,
               OtherEnds, OtherBegins, Step, Put, MotorOff, Find, Header, Mark, Take, Accept, Return, Choose, vars
        <4> QED BY <4>2, <4>3
      <3> QED BY <1>1, <3>1, <3>2 DEF WholeSector, FreshSector, RightSector
    <2> QED BY <2>1, <2>2
  <1> QED BY <1>2, <1>3

LEMMA InvInit == Init => Inv
  <1> SUFFICES ASSUME Init PROVE Inv
    OBVIOUS
  <1>1. PICK p \in Place :
          fd = [motor |-> FALSE, side |-> p[1], trk |-> p[2], sec |-> p[3], pos |-> 0,
                rd |-> FALSE, taken |-> FALSE]
    BY DEF Init
  <1> DEFINE none == <<>>
  <1>2. PICK s \in Sides :
          drv = [pc |-> "idle", op |-> "READ", want |-> <<s, 0, 0>>, got |-> none, wrote |-> {}]
    BY DEF Init
  <1>3. fd \in FdType
    BY <1>1, Places, Sizes DEF FdType
  <1>4. Here \in Place
    BY <1>3 DEF FdType, Here, Place
  <1>5. sd \in SdType
    BY <1>4, Sizes DEF Init, SdType
  <1>6. <<s, 0, 0>> \in Place /\ none \in Seq(Word)
    BY Sizes DEF Place
  <1>7. buf \in [Idx -> Word] /\ ctl \in [tr : BOOLEAN, fs : BOOLEAN]
    BY DEF Init, Blank, Word
  <1>8. drv.got = none /\ drv.pc = "idle"
    BY <1>2
  <1> HIDE DEF none
  <1>9. drv \in DrvType
    BY <1>2, <1>6 DEF DrvType
  <1>10. fd.rd = FALSE /\ sd.st = "ready"
    BY <1>1 DEF Init
  <1>11. Types
    BY <1>3, <1>5, <1>7, <1>9 DEF Types
  <1>12. BufferInv
    BY <1>8, <1>10, <1>11 DEF BufferInv, SeekInv, TimeInv, Request, InTime, Pending, Seek, Filling,
                 Whole, Overwritten, OneSector, Writing, AtWork, Init
  <1>13. Got
    BY <1>8 DEF Got, AtWork, none
  <1> QED BY <1>8, <1>12, <1>13 DEF Inv, Fresh, WholeSector, FreshSector, RightSector

LEMMA InvAlways == Spec => []Inv
  <1>1. Inv /\ [Next]_vars => Inv'
    <2> SUFFICES ASSUME Inv, [Next]_vars PROVE Inv'
      OBVIOUS
    <2> USE DEF Inv
    <2>1. SeekInv /\ Filling
      BY DEF BufferInv
    <2> QED BY <2>1, BufferStep, GotStep, FreshStep, ResultStep
  <1> QED BY InvInit, <1>1, PTL DEF Spec

\* Everything stays in its bounds: the disk ends a sector where the next
\* begins, a request is answered within the time the path has, a sector is
\* read to its end and no further.
THEOREM TypeCorrect == Spec => []TypeOK
  <1>1. Inv => TypeOK
    <2> SUFFICES ASSUME Inv PROVE TypeOK
      OBVIOUS
    <2>1. Types /\ Got /\ WholeSector
      BY DEF Inv, BufferInv, SeekInv, TimeInv
    <2>2. Here \in Place /\ fd.pos \in 0..Crc /\ {fd.motor, fd.rd} \subseteq BOOLEAN
      BY <2>1, PlaceHere DEF Types, FdType
    <2>3. /\ sd.st \in {"ready", "named", "busy", "other"} /\ sd.sec \in Place
          /\ sd.i \in 0..Words /\ sd.age \in 0..Latency
      BY <2>1 DEF Types, SdType
    <2>4. drv.want \in Place
      BY <2>1 DEF Types, DrvType
    <2>5. Len(drv.got) <= Words
      <3>1. CASE drv.pc = "accepted"
        <4>1. \E v : drv.got = [k \in 1..Words |-> v[k]]
          BY <2>1, <3>1 DEF WholeSector
        <4> QED BY <4>1, Sizes
      <3>2. CASE AtWork /\ drv.op = "READ" /\ drv.pc # "accepted"
        <4>1. fd.pos \in 0..Crc /\ (fd.pos = Crc => ctl.tr)
          BY <2>2, <3>2 DEF AtWork, Inv, BufferInv, SeekInv, Seek
        <4> QED BY <2>1, <3>2, <4>1, Sizes DEF Got
      <3>3. CASE ~(AtWork /\ drv.op = "READ") /\ drv.pc # "accepted"
        <4>1. Len(drv.got) = 0
          BY <2>1, <3>3 DEF Got
        <4> QED BY <4>1, Sizes
      <3> QED BY <3>1, <3>2, <3>3
    <2> QED BY <2>2, <2>3, <2>4, <2>5 DEF TypeOK
  <1> QED BY <1>1, InvAlways, PTL

\* WholeSector of the runs: what the driver accepts is the words of one place,
\* from the image or from one write, or no fetch at all, even when another
\* had the path at the sector's header (sd_taken).
THEOREM SectorIsWhole == Spec => []WholeSector
  BY InvAlways, PTL DEF Inv

\* FreshSector of the runs: unless another had the path at its header, a
\* sector that was never written is accepted as the image has it, whatever
\* head, track and motor did while an earlier fetch was on its way.
THEOREM SectorIsFresh == Spec => []FreshSector
  BY InvAlways, PTL DEF Inv
=============================================================================
