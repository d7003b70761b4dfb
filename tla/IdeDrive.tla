------------------------------ MODULE IdeDrive ------------------------------
(***************************************************************************)
(* The IDE cartridge, ide.v: task file, two-bank sector buffer with read   *)
(* ahead, and transfer engine, between a driver on the PPU's bus and the   *)
(* SD path.                                                                *)
(*                                                                         *)
(* Clk is one clock edge.  Every register keeps its value unless one of    *)
(* the three parts of the always block assigns it: the hand-over of a      *)
(* fetched sector, the bus, the transfer engine.  All read the old values  *)
(* and the later part wins.                                                *)
(* The driver and the SD path are external: the driver programs the task   *)
(* file and moves words as the WD driver does, the path answers a request  *)
(* after a while, word by word.                                            *)
(***************************************************************************)
EXTENDS Naturals

CONSTANTS
  Words,       \* words in a sector (256)
  MaxLba,      \* the image's last sector
  Geometries,  \* [spt, heads] a SET CONFIG may set
  Geometry,    \* the one the MCU found in the image
  Modes,       \* how the driver addresses: subset of {"chs", "lba"}
  MaxCount,    \* the most sectors it asks for in one command
  Ops,         \* the commands it gives
  WProt,       \* what the OSD's "HDD prot." may be
  Upsets       \* subset of {"drop", "race", "reset", "prot"}

\* "drop": the driver leaves a multi-sector read before its end and gives
\* another command.  "race": a command or the last word may meet the clock edge
\* on which a fetch ends.  "reset": the PPU's INIT, or the image is taken out.  "prot":
\* the protection changes while a write request is up.
\* sectorcount has nine bits and stands for 1..256; SET CONFIG takes a track
\* of eight bits from it and the heads from a register of four.
ASSUME SizeAssumption == Words \in Nat \ {0} /\ MaxLba \in Nat /\ MaxCount \in 1..256
ASSUME GeometryAssumption ==
  Geometry \in Geometries /\ Geometries \subseteq [spt : 1..255, heads : 1..16]
ASSUME ChoiceAssumption ==
  /\ Modes \subseteq {"chs", "lba"} /\ Ops \subseteq {"READ", "WRITE", "IDENT", "SETCFG"}
  /\ WProt \subseteq BOOLEAN /\ Upsets \subseteq {"drop", "race", "reset", "prot"}

VARIABLES
  hd,    \* the registers of ide.v
  bank,  \* the two banks of the sector buffer
  sd,    \* the SD path as the cartridge sees it
  disk,  \* the image on the card
  prot,  \* wprot, the OSD's "HDD prot."
  drv    \* the driver: what it wants, how far it is, what should be on disk

vars == <<hd, bank, sd, disk, prot, drv>>
-----------------------------------------------------------------------------
\* both assignments, the first where both are made
first ++ second ==
  [r \in DOMAIN first \cup DOMAIN second |-> IF r \in DOMAIN first THEN first[r] ELSE second[r]]

Lba == 0..MaxLba
Idx == 0..(Words - 1)
\* a word of the image knows its sector, its place and which of two writes
\* it comes from
NoWord == <<>>
IdentWord == <<0>>
Word == (Lba \X Idx \X {0, 1}) \cup {IdentWord, NoWord}
Sector(l, age) == [i \in Idx |-> <<l, i, age>>]

\* cursector, curhead, curcyl and bit 6 of the head register
Address(l, mode, g) ==
  IF mode = "lba" THEN [mode |-> "lba", cyl |-> 0, head |-> 0, sec |-> l]
  ELSE [mode |-> "chs", cyl |-> l \div (g.spt * g.heads),
        head |-> (l \div g.spt) % g.heads, sec |-> (l % g.spt) + 1]

\* next_sector
\* Mutant: the track ends one sector early.
NextSectorShort(a) ==
  IF a.mode = "lba" THEN [a EXCEPT !.sec = a.sec + 1]
  ELSE IF a.sec + 1 < hd.geo.spt THEN [a EXCEPT !.sec = a.sec + 1]
  ELSE IF a.head + 1 >= hd.geo.heads THEN [a EXCEPT !.sec = 1, !.head = 0, !.cyl = a.cyl + 1]
  ELSE [a EXCEPT !.sec = 1, !.head = a.head + 1]
NextSector(a) ==
  IF a.mode = "lba" THEN [a EXCEPT !.sec = a.sec + 1]
  ELSE IF a.sec + 1 <= hd.geo.spt THEN [a EXCEPT !.sec = a.sec + 1]
  ELSE IF a.head + 1 >= hd.geo.heads THEN [a EXCEPT !.sec = 1, !.head = 0, !.cyl = a.cyl + 1]
  ELSE [a EXCEPT !.sec = 1, !.head = a.head + 1]

St == {"IDLE", "RD_LBA1", "RD_LBA2", "RD_REQ", "RD_WAIT",
       "WR_LBA1", "WR_LBA2", "WR_REQ", "WR_WAIT", "ID_FILL"}
Flags == {"BUSY", "DRQ", "ERROR"}

\* rst, or no image
Reset == [status |-> {"BUSY"}, resetting |-> TRUE, st |-> "IDLE", rstart |-> FALSE,
          wstart |-> FALSE, off |-> 0, count |-> 0, cur |-> 0, fbank |-> 0,
          rdPending |-> FALSE, pfValid |-> FALSE, restart |-> FALSE,
          wrPending |-> FALSE, pfBank |-> 0, geo |-> Geometry]

DrvIdle == [pc |-> "idle", op |-> "SETCFG", mode |-> "lba", lba |-> 0, n |-> 1, k |-> 0,
            w |-> 0, geo |-> Geometry, ref |-> [l \in Lba |-> 0]]

Init ==
  /\ hd = Reset ++ [addr |-> Address(0, "lba", Geometry), sector |-> 0, lbaT |-> 0, fill |-> 0]
  /\ bank = [b \in {0, 1} |-> [i \in Idx |-> NoWord]]
  /\ sd = [st |-> "ready", wr |-> FALSE, lba |-> 0, i |-> 0]
  /\ disk = [l \in Lba |-> Sector(l, 0)]
  /\ prot \in WProt
  /\ drv = DrvIdle

Busy == "BUSY" \in hd.status
Drq  == "DRQ" \in hd.status
Nothing == <<>>                       \* no assignment

\* the registers after an edge on which the parts assign e, b, h and a
Edge(e, b, h, a) ==
  [r \in DOMAIN hd |-> IF r \in DOMAIN e THEN e[r] ELSE IF r \in DOMAIN b THEN b[r]
                       ELSE IF r \in DOMAIN h THEN h[r] ELSE IF r \in DOMAIN a THEN a[r]
                       ELSE hd[r]]
-----------------------------------------------------------------------------
(* The parts of the always block, as the assignments they make *)
AfterReset ==
  IF hd.resetting THEN [resetting |-> FALSE, status |-> hd.status \ {"BUSY"}] ELSE Nothing

\* a fetched sector goes to the bus, and the next one is read ahead
\* Mutant: one is read ahead after the last.
HandOverAlways ==
  IF hd.rdPending /\ hd.pfValid
    THEN [rdPending |-> FALSE, pfValid |-> FALSE, cur |-> hd.pfBank, off |-> 0,
          status |-> (hd.status \ {"BUSY", "ERROR"}) \cup {"DRQ"}]
         ++ IF hd.st = "IDLE" THEN [fbank |-> 1 - hd.pfBank, st |-> "RD_LBA1"] ELSE Nothing
    ELSE Nothing
HandOver ==
  IF hd.rdPending /\ hd.pfValid
    THEN [rdPending |-> FALSE, pfValid |-> FALSE, cur |-> hd.pfBank, off |-> 0,
          status |-> (hd.status \ {"BUSY", "ERROR"}) \cup {"DRQ"}]
         ++ IF hd.count # 0 /\ hd.st = "IDLE"
              THEN [fbank |-> 1 - hd.pfBank, st |-> "RD_LBA1"] ELSE Nothing
    ELSE Nothing

\* the last word of a sector has been read: ContinueRead
\* Mutants: the word counter stays at the end; the sector that is there
\* already is not asked for.
LastWordReadNoWrap ==
  [off |-> hd.off + 1, status |-> hd.status \ {"DRQ", "BUSY"}]
LastWordReadWaits ==
  [off |-> 0]
  ++ IF hd.pfValid \/ hd.count # 0 \/ hd.st # "IDLE"
       THEN [rdPending |-> ~hd.pfValid, status |-> (hd.status \ {"DRQ"}) \cup {"BUSY"}]
            ++ IF ~hd.pfValid /\ hd.st = "IDLE"
                 THEN [fbank |-> 1 - hd.cur, st |-> "RD_LBA1"] ELSE Nothing
       ELSE [status |-> hd.status \ {"DRQ", "BUSY"}]
LastWordRead ==
  [off |-> 0]
  ++ IF hd.pfValid \/ hd.count # 0 \/ hd.st # "IDLE"
       THEN [rdPending |-> TRUE, status |-> (hd.status \ {"DRQ"}) \cup {"BUSY"}]
            ++ IF ~hd.pfValid /\ hd.st = "IDLE"
                 THEN [fbank |-> 1 - hd.cur, st |-> "RD_LBA1"] ELSE Nothing
       ELSE [status |-> hd.status \ {"DRQ", "BUSY"}]

\* the last word of a sector has been written: ContinueWrite
LastWordWritten ==
  [off |-> 0, status |-> (hd.status \ {"DRQ"}) \cup {"BUSY"}]
  ++ IF hd.st = "IDLE" THEN [st |-> "WR_LBA1"] ELSE [wrPending |-> TRUE]

Command(c) ==
  CASE c = "READ" ->
         [status |-> (hd.status \cup {"BUSY"}) \ {"DRQ", "ERROR"}, rdPending |-> TRUE,
          pfValid |-> FALSE, fbank |-> hd.cur]
         ++ IF hd.st = "IDLE" THEN [st |-> "RD_LBA1"] ELSE [restart |-> TRUE]
    [] c = "SETCFG" -> [geo |-> [spt |-> hd.count, heads |-> hd.addr.head + 1]]
    [] c = "WRITE" -> [off |-> 0, pfValid |-> FALSE, status |-> (hd.status \cup {"DRQ"}) \ {"ERROR"}]
    [] c = "IDENT" -> [fill |-> 0, pfValid |-> FALSE, st |-> "ID_FILL",
                       status |-> (hd.status \cup {"BUSY"}) \ {"DRQ"}]

\* bus = <<what, value>>: one access by the driver, or none
Bus(bus) ==
  CASE bus[1] = "count" -> [count |-> bus[2]]
    [] bus[1] = "addr"  -> [addr |-> bus[2]]
    [] bus[1] = "cmd"   -> Command(bus[2])
    [] bus[1] = "rdata" /\ Drq -> IF hd.off = Words - 1 THEN LastWordRead ELSE [off |-> hd.off + 1]
    [] bus[1] = "wdata" /\ Drq -> IF hd.off = Words - 1 THEN LastWordWritten ELSE [off |-> hd.off + 1]
    [] OTHER -> Nothing

\* a sector of the command is over
\* Mutant: the last sector of a command is never stepped to.
CountedShort ==
  (IF hd.count # 0 THEN [count |-> hd.count - 1] ELSE Nothing)
  ++ IF hd.count > 2 THEN [addr |-> NextSector(hd.addr)] ELSE Nothing
Counted ==
  (IF hd.count # 0 THEN [count |-> hd.count - 1] ELSE Nothing)
  ++ IF hd.count > 1 THEN [addr |-> NextSector(hd.addr)] ELSE Nothing

\* Mutant: a READ does not throw away the fetch it finds on its way.
ReadDoneKeeps ==
  [pfValid |-> TRUE, pfBank |-> hd.fbank, restart |-> FALSE] ++ Counted
  ++ IF hd.wrPending THEN [wrPending |-> FALSE, st |-> "WR_LBA1"] ELSE [st |-> "IDLE"]
ReadDone ==
  IF hd.restart THEN [restart |-> FALSE, fbank |-> hd.cur, st |-> "RD_LBA1"]
  ELSE [pfValid |-> TRUE, pfBank |-> hd.fbank] ++ Counted
       ++ IF hd.wrPending THEN [wrPending |-> FALSE, st |-> "WR_LBA1"] ELSE [st |-> "IDLE"]

\* free: no other requester is up
\* Mutant: the request goes up while the card is busy.
RaiseAtOnce(line, free, wait) ==
  IF hd[line] /\ sd.st # "ready" THEN [x \in {line, "st"} |-> IF x = "st" THEN wait ELSE FALSE]
  ELSE IF free THEN [x \in {line} |-> TRUE] ELSE Nothing
Raise(line, free, wait) ==
  IF hd[line] /\ sd.st # "ready" THEN [x \in {line, "st"} |-> IF x = "st" THEN wait ELSE FALSE]
  ELSE IF free /\ sd.st = "ready" THEN [x \in {line} |-> TRUE] ELSE Nothing

Engine(free) ==
  LET rd == hd.st \in {"RD_LBA1", "RD_LBA2"} IN
  CASE hd.st \in {"RD_LBA1", "WR_LBA1"} ->
         IF hd.addr.mode = "lba"
           THEN [sector |-> hd.addr.sec, st |-> IF rd THEN "RD_REQ" ELSE "WR_REQ"]
           ELSE [lbaT |-> hd.addr.cyl * hd.geo.heads + hd.addr.head,
                 st |-> IF rd THEN "RD_LBA2" ELSE "WR_LBA2"]
    [] hd.st \in {"RD_LBA2", "WR_LBA2"} ->
         [sector |-> hd.lbaT * hd.geo.spt + hd.addr.sec - 1, st |-> IF rd THEN "RD_REQ" ELSE "WR_REQ"]
    [] hd.st = "RD_REQ" -> Raise("rstart", free, "RD_WAIT")
    [] hd.st = "RD_WAIT" /\ sd.st = "done" -> ReadDone
    [] hd.st = "WR_REQ" /\ prot ->
         [status |-> (hd.status \ {"BUSY"}) \cup {"ERROR", "DRQ"}, off |-> 0, st |-> "IDLE"]
    [] hd.st = "WR_REQ" /\ ~prot -> Raise("wstart", free, "WR_WAIT")
    [] hd.st = "WR_WAIT" /\ sd.st = "done" ->
         [status |-> (hd.status \ {"BUSY", "ERROR"}) \cup {"DRQ"}, off |-> 0, st |-> "IDLE"] ++ Counted
    [] hd.st = "ID_FILL" ->
         [fill |-> hd.fill + 1]
         ++ IF hd.fill = Words - 1
              THEN [off |-> 0, count |-> 1, st |-> "IDLE",
                    status |-> (hd.status \ {"BUSY", "ERROR"}) \cup {"DRQ"}]
              ELSE Nothing
    [] OTHER -> Nothing
-----------------------------------------------------------------------------
(* The SD path: it takes a raised request, streams the sector, reports done *)
SdClk ==
  \/ sd' = sd /\ sd.st # "done"
  \/ /\ sd.st = "ready" /\ (hd.rstart \/ hd.wstart)
     /\ sd' = [st |-> "busy", wr |-> hd.wstart, lba |-> hd.sector, i |-> 0]
  \/ /\ sd.st = "busy" /\ sd.i < Words
     /\ sd' = [sd EXCEPT !.i = @ + 1]
  \/ /\ sd.st = "busy" /\ sd.i = Words
     /\ sd' = [sd EXCEPT !.st = "done"]
  \/ sd.st = "done" /\ sd' = [sd EXCEPT !.st = "ready"]

\* a word passes between the card and the buffer on this edge
Passes == sd.st = "busy" /\ sd' # sd /\ sd.i < Words
\* outside the image there is no word
Filled ==
  IF Passes /\ ~sd.wr
    THEN [bank EXCEPT ![hd.fbank][sd.i] = IF sd.lba \in Lba THEN disk[sd.lba][sd.i] ELSE NoWord]
    ELSE bank
DiskClk ==
  disk' = IF Passes /\ sd.wr THEN [disk EXCEPT ![sd.lba][sd.i] = bank[hd.cur][sd.i]] ELSE disk

\* wreb: the driver's word, or one of IDENTIFY's, goes into bank cur
BankClk(bus) ==
  bank' = IF bus[1] = "wdata" /\ Drq THEN [Filled EXCEPT ![hd.cur][hd.off] = bus[2]]
          ELSE IF hd.st = "ID_FILL" THEN [Filled EXCEPT ![hd.cur][hd.fill] = IdentWord]
          ELSE Filled

Clk(bus) ==
  /\ \E engine \in {Engine(free) : free \in BOOLEAN} :
       hd' = Edge(engine, Bus(bus), HandOver, AfterReset)
  /\ SdClk /\ DiskClk /\ BankClk(bus)
  /\ prot' = prot
-----------------------------------------------------------------------------
(* The driver, one bus access at a time *)
DrvTo(pc) == drv' = [drv EXCEPT !.pc = pc]
Here == drv.lba + drv.k                        \* the sector it is at
Age  == 1 - drv.ref[Here]                      \* of the words it writes

Apart == "race" \in Upsets \/ ~(hd.st = "RD_WAIT" /\ sd.st = "done")

\* it polls BUSY, then programs the task file
Choose ==
  /\ drv.pc = "idle" /\ ~Busy
  /\ \E op \in Ops, mode \in Modes, l \in Lba, n \in 1..MaxCount, g \in Geometries :
       /\ l + n - 1 <= MaxLba
       /\ op \in {"IDENT", "SETCFG"} => l = 0 /\ n = 1 /\ mode = CHOOSE m \in Modes : TRUE
       /\ op # "SETCFG" => g = drv.geo
       /\ drv' = [drv EXCEPT !.pc = "count", !.op = op, !.mode = mode, !.lba = l, !.n = n,
                             !.k = 0, !.w = 0, !.geo = g]
  /\ Clk(<<"none">>)

Count ==
  /\ drv.pc = "count"
  /\ DrvTo("addr")
  /\ Clk(<<"count", IF drv.op = "SETCFG" THEN drv.geo.spt ELSE drv.n>>)

Addr ==
  /\ drv.pc = "addr"
  /\ DrvTo("cmd")
  /\ Clk(<<"addr", IF drv.op = "SETCFG"
                     THEN [hd.addr EXCEPT !.mode = "chs", !.head = drv.geo.heads - 1]
                     ELSE Address(drv.lba, drv.mode, drv.geo)>>)

Cmd ==
  /\ drv.pc = "cmd" /\ Apart
  /\ DrvTo(IF drv.op = "SETCFG" THEN "idle" ELSE "wait")
  /\ Clk(<<"cmd", drv.op>>)

\* status: not BUSY, and DRQ
Wait ==
  /\ drv.pc = "wait" /\ ~Busy /\ Drq
  /\ DrvTo("data")
  /\ Clk(<<"none">>)

ReadWord ==
  /\ drv.pc = "data" /\ drv.op # "WRITE"
  /\ drv' = IF drv.w < Words - 1 THEN [drv EXCEPT !.w = @ + 1]
            ELSE IF drv.k < drv.n - 1 THEN [drv EXCEPT !.w = 0, !.k = @ + 1, !.pc = "wait"]
            ELSE [drv EXCEPT !.pc = "idle"]
  /\ Clk(<<"rdata">>)

WriteWord ==
  /\ drv.pc = "data" /\ drv.op = "WRITE" /\ Apart
  /\ drv' = IF drv.w < Words - 1 THEN [drv EXCEPT !.w = @ + 1] ELSE [drv EXCEPT !.pc = "fin"]
  /\ Clk(<<"wdata", <<Here, drv.w, Age>> >>)

\* the sector has been written or refused
Written ==
  /\ drv.pc = "fin" /\ ~Busy
  /\ LET ref == IF "ERROR" \in hd.status THEN drv.ref ELSE [drv.ref EXCEPT ![Here] = Age] IN
       drv' = IF drv.k < drv.n - 1 /\ "ERROR" \notin hd.status
              THEN [drv EXCEPT !.ref = ref, !.k = @ + 1, !.w = 0, !.pc = "data"]
              ELSE [drv EXCEPT !.ref = ref, !.pc = "idle"]
  /\ Clk(<<"none">>)

Drop ==
  /\ "drop" \in Upsets /\ drv.pc \in {"data", "wait"} /\ drv.op = "READ" /\ drv.n > 1
  /\ DrvTo("idle")
  /\ Clk(<<"none">>)

\* the program is started afresh; the card goes on with what it is doing
Rst ==
  /\ "reset" \in Upsets
  /\ hd' = Reset ++ hd
  /\ drv' = [DrvIdle EXCEPT !.ref = drv.ref]
  /\ SdClk /\ DiskClk /\ bank' = Filled /\ prot' = prot

\* the OSD sets "HDD prot."
SetProt ==
  /\ ~hd.wstart \/ "prot" \in Upsets
  /\ prot' \in WProt
  /\ UNCHANGED <<hd, bank, sd, disk, drv>>

Tick == Clk(<<"none">>) /\ drv' = drv

Driver == \/ Choose \/ Count \/ Addr \/ Cmd \/ Wait \/ ReadWord \/ WriteWord
          \/ Written \/ Drop
Next == Driver \/ Tick \/ SetProt \/ Rst

Spec == Init /\ [][Next]_vars

\* The path answers, other requesters give way, the driver goes on with a
\* command it has begun.
PathMoves == Tick /\ sd' # sd
EngineMoves == Tick /\ hd' # hd
FairSpec == Spec /\ WF_sd(PathMoves) /\ WF_hd(EngineMoves)
                 /\ WF_drv(drv.pc # "idle" /\ Driver)
-----------------------------------------------------------------------------
(* Properties *)
TypeOK ==
  /\ hd.status \subseteq Flags /\ hd.st \in St
  /\ hd.count \in 0..256 /\ hd.off \in Idx /\ hd.fill \in 0..Words
  /\ hd.cur \in {0, 1} /\ hd.fbank \in {0, 1} /\ hd.pfBank \in {0, 1}
  /\ hd.geo \in Geometries
  /\ bank \in [{0, 1} -> [Idx -> Word]]
  /\ disk \in [Lba -> [Idx -> Word]]
  /\ sd \in [st : {"ready", "busy", "done"}, wr : BOOLEAN, lba : Lba, i : 0..Words]

\* Every word the driver reads is the right one: the sectors of a command
\* come in order, whole, across head and cylinder, whatever bank they were
\* fetched into and however far ahead.
Expected == IF drv.op = "IDENT" THEN IdentWord ELSE disk[Here][drv.w]
ReadDelivers ==
  drv.pc = "data" /\ drv.op # "WRITE" => Drq /\ ~Busy /\ bank[hd.cur][hd.off] = Expected

\* The image changes only where the driver has written, and there to what
\* it wrote; a refused write leaves it alone.
Writing == drv.pc \in {"wait", "data", "fin"} /\ drv.op = "WRITE"
DiskAsOrdered ==
  \A l \in Lba : ~(Writing /\ l = Here) => disk[l] = Sector(l, drv.ref[l])
WriteLands ==
  drv.pc = "fin" /\ ~Busy =>
    disk[Here] = Sector(Here, IF "ERROR" \in hd.status THEN drv.ref[Here] ELSE Age)

\* What is read and what is written is as the driver ordered.
TransfersAsOrdered == ReadDelivers /\ DiskAsOrdered /\ WriteLands

\* While the bus may read or write bank cur, the SD side fills the other.
FillsOther == Drq /\ sd.st = "busy" /\ ~sd.wr => hd.fbank # hd.cur

\* Between commands, once BUSY is clear, nothing is on its way: no fetch can
\* land in a bank or count down the task file under the next command.
QuietWhenReady ==
  drv.pc = "idle" /\ ~Busy =>
    hd.st = "IDLE" /\ ~hd.rstart /\ ~hd.wstart /\ ~hd.rdPending /\ sd.st = "ready"

\* A command for one sector gets or writes that sector, whatever read ahead
\* of an abandoned command, or of the time before a reset, it finds in flight.
OneSectorRead    == drv.n = 1 => ReadDelivers
OneSectorWritten == drv.n = 1 => WriteLands
OneSectorRight   == OneSectorRead /\ OneSectorWritten

\* Every command ends.
CommandEnds == drv.pc # "idle" ~> drv.pc = "idle"
=============================================================================
