---------------------------- MODULE IdeDriveProofs ---------------------------
(***************************************************************************)
(* Proofs about IdeDrive, for every size of sector and image, every        *)
(* geometry and count a SET CONFIG or a command may name, both ways to     *)
(* address, and a card that is slow at will.                               *)
(*                                                                         *)
(* The inductive invariant is Good.  It is about values, not variables, so *)
(* that an edge can be taken apart: the engine's move, a word or a step of *)
(* the path, and the driver's access to the bus are applied one after the  *)
(* other to the same registers, each with a lemma that Good is kept.       *)
(*                                                                         *)
(* A second part puts the edges together, in the order of precedence.      *)
(* Alone is what the registers would be if the bus were not used: the      *)
(* engine, the hand-over and the end of a reset.  MachineGood says that    *)
(* this keeps Good, EdgeGood adds the SD path's part of the same edge, and *)
(* the lemmas about actions put the bus's assignments on top.  They go     *)
(* together because the driver uses the bus only when the engine does not  *)
(* touch what it writes: between commands the cartridge is at rest         *)
(* (IdleIsQuiet), and a fetch that runs ahead while words are read leaves  *)
(* status and word counter alone (FetchKeeps).                             *)
(*                                                                         *)
(* The last part is about a driver that leaves reads before their end.     *)
(* Good is not true of it: the fetch of a READ that was left goes on under *)
(* the next command, and its end may count down and step on what that      *)
(* command has programmed.  The second invariant, One, has two halves.     *)
(* InStep says what the engine may be doing at each place of the driver    *)
(* (the bus is free, a sector is awaited, or one is stored), whatever the  *)
(* command.  OneTrue says, of commands for one sector alone, that the      *)
(* address is the driver's (Steady: a fetch that ends now does not step    *)
(* it) and that the bank has the sector's words.  Tidy is what the two     *)
(* invariants share and the taking apart of an edge needs.                 *)
(***************************************************************************)
EXTENDS IdeDrive, TLAPS

-----------------------------------------------------------------------------
(* Types *)

\* The states in which a sector is fetched, and stored.
Reads  == {"RD_LBA1", "RD_LBA2", "RD_REQ", "RD_WAIT"}

Writes == {"WR_LBA1", "WR_LBA2", "WR_REQ", "WR_WAIT"}

\* How the driver may address.
Addressing == {"chs", "lba"}

\* A sector as the task file names it.
Addresses == [mode : Addressing, cyl : Nat, head : Nat, sec : Nat]

\* The registers of ide.v that the model has, and their types.
Registers == {"status", "resetting", "st", "rstart", "wstart", "off", "count", "cur", "fbank",
              "rdPending", "pfValid", "restart", "wrPending", "pfBank", "geo", "addr", "sector",
              "lbaT", "fill"}

RegTypes(h) ==
  /\ DOMAIN h = Registers
  /\ h.status \subseteq Flags /\ h.st \in St /\ h.off \in Idx /\ h.count \in 0..256
  /\ h.cur \in {0, 1} /\ h.fbank \in {0, 1} /\ h.pfBank \in {0, 1} /\ h.fill \in 0..Words
  /\ h.geo \in Geometries /\ h.addr \in Addresses /\ h.sector \in Nat /\ h.lbaT \in Nat
  /\ h.resetting \in BOOLEAN /\ h.rstart \in BOOLEAN /\ h.wstart \in BOOLEAN
  /\ h.rdPending \in BOOLEAN /\ h.pfValid \in BOOLEAN
  /\ h.restart \in BOOLEAN /\ h.wrPending \in BOOLEAN

\* The driver that is outside.
Drivers ==
  [pc : {"idle", "count", "addr", "cmd", "wait", "data", "fin"},
   op : {"READ", "WRITE", "IDENT", "SETCFG"}, mode : Addressing, lba : Lba, n : 1..MaxCount,
   k : Nat, w : Idx, geo : Geometries, ref : [Lba -> {0, 1}]]

\* The types of all variables.
Types(h, bk, s, dk, p, d) ==
  /\ RegTypes(h)
  /\ bk \in [{0, 1} -> [Idx -> Word]]
  /\ s \in [st : {"ready", "busy", "done"}, wr : BOOLEAN, lba : Lba, i : 0..Words]
  /\ dk \in [Lba -> [Idx -> Word]]
  /\ p \in BOOLEAN
  /\ d \in Drivers

-----------------------------------------------------------------------------
(* The inductive invariant *)

\* The task file a, under geometry g, names sector l.
At(a, g, l) ==
  \/ (a.mode = "lba" /\ a.sec = l)
  \/ /\ a.mode = "chs" /\ a.sec \in 1..g.spt /\ a.head < g.heads
     /\ (a.cyl * g.heads + a.head) * g.spt + a.sec = l + 1

\* The driver stays inside the image and what it ordered, and the cartridge
\* has the geometry the driver has in mind, except while it is being set.
DrvTrue(h, d) ==
  /\ d.k < d.n /\ d.lba + d.n - 1 <= MaxLba
  /\ d.op \in Ops \/ d.op = "SETCFG"
  /\ d.pc \in {"wait", "data"} => d.op # "SETCFG"
  /\ d.pc = "fin" => d.op = "WRITE"
  /\ d.pc \in {"count", "addr", "cmd"} => d.k = 0
  /\ d.pc \in {"count", "addr", "cmd", "wait"} => d.w = 0
  /\ d.op = "IDENT" => d.lba = 0 /\ d.n = 1
  /\ ~(d.op = "SETCFG" /\ d.pc \in {"count", "addr", "cmd"}) => h.geo = d.geo

\* A request line is up; a transfer under way is the one the engine asked for.
Raised(h) == (h.st = "RD_REQ" /\ h.rstart) \/ (h.st = "WR_REQ" /\ h.wstart)

Ours(h, s) == s.st # "ready" /\ (Raised(h) \/ h.st \in {"RD_WAIT", "WR_WAIT"})

\* A read of the time before a reset still streams into bank fbank.  The first request
\* of the next READ waits for its end.
Stray(h, s, d) ==
  /\ "reset" \in Upsets /\ s.st # "ready" /\ ~s.wr
  /\ \/ d.pc \in {"idle", "count", "addr", "cmd"}
     \/ (d.pc = "wait" /\ d.op = "READ" /\ d.k = 0 /\ h.count = d.n /\ "BUSY" \in h.status)
  /\ h.st \in {"IDLE", "RD_LBA1", "RD_LBA2", "RD_REQ"} /\ ~h.rstart
  /\ ~h.pfValid

\* The requests and the path belong together: what is up or under way is for the
\* sector the engine names, in the direction it says; and the registers by which
\* a command waits for another one to end (restart, wrPending) are never needed.
PathTrue(h, s, p, d) ==
  /\ h.rstart => h.st = "RD_REQ"
  /\ h.wstart => h.st = "WR_REQ" /\ ~p
  /\ ~h.restart /\ ~h.wrPending
  /\ h.st \in {"RD_WAIT", "WR_WAIT"} => s.st # "ready"
  /\ s.st = "ready" \/ Ours(h, s) \/ Stray(h, s, d)
  /\ Ours(h, s) => s.lba = h.sector /\ (s.wr <=> h.st \in {"WR_REQ", "WR_WAIT"})
  /\ Ours(h, s) /\ Raised(h) => s.st = "busy" /\ s.i = 0
  /\ s.st = "done" => s.i = Words

\* Nothing goes on and BUSY is clear; nothing goes on and the reset ends.
Quiet(h) ==
  /\ h.st = "IDLE" /\ ~h.rdPending /\ ~h.pfValid /\ ~h.resetting /\ "BUSY" \notin h.status

Resets(h) ==
  /\ h.st = "IDLE" /\ ~h.rdPending /\ ~h.pfValid /\ h.resetting /\ "BUSY" \in h.status

\* The engine, wherever it is on its way, works on sector l.
Going(h, l) ==
  /\ At(h.addr, h.geo, l)
  /\ h.st \in {"RD_LBA2", "WR_LBA2"} =>
       h.addr.mode = "chs" /\ h.lbaT = h.addr.cyl * h.geo.heads + h.addr.head
  /\ h.st \in {"RD_REQ", "RD_WAIT", "WR_REQ", "WR_WAIT"} => h.sector = l

\* The sector the task file has come to in a READ.
UpNext(h, d) == d.lba + (d.n - h.count)

\* The read ahead: the sectors still to come are those not yet handed over, the
\* task file names the first that is not fetched, the words that have come are
\* its words, and a sector that is ready is the one before.
Ahead(h, bk, s, dk, d, left) ==
  /\ ~h.resetting
  /\ h.st \in Reads \cup {"IDLE"}
  /\ h.count + (IF h.pfValid THEN 1 ELSE 0) = left
  /\ h.count > 0 => At(h.addr, h.geo, UpNext(h, d))
  /\ h.st = "IDLE" => h.pfValid \/ left = 0
  /\ h.st \in Reads => ~h.pfValid /\ h.count > 0 /\ Going(h, UpNext(h, d))
  /\ Ours(h, s) => \A j \in Idx : j < s.i => bk[h.fbank][j] = dk[UpNext(h, d)][j]
  /\ h.pfValid => bk[h.pfBank] = dk[UpNext(h, d) - 1]

\* The bus waits for a fetched sector.  IDENTIFY ends in such a fetch, since the
\* cartridge takes its last word for that of a sector read, with one to follow.
Fetching(h, d) ==
  "BUSY" \in h.status /\ ~h.resetting
  /\ ((d.op = "READ" /\ d.pc = "wait") \/ (d.op = "IDENT" /\ d.pc = "idle"))

\* The driver reads a sector.
Draining(h, d) ==
  d.op = "READ" /\ (d.pc = "data" \/ (d.pc = "wait" /\ "BUSY" \notin h.status))

\* A sector is drained from one bank while the next one goes to the other.
ReadTrue(h, bk, s, dk, d) ==
  /\ Fetching(h, d) =>
       /\ h.rdPending /\ "DRQ" \notin h.status
       /\ Ahead(h, bk, s, dk, d, d.n - d.k)
  /\ Draining(h, d) =>
       /\ ~h.rdPending /\ "DRQ" \in h.status /\ "BUSY" \notin h.status
       /\ h.off = d.w /\ bk[h.cur] = dk[d.lba + d.k]
       /\ Ahead(h, bk, s, dk, d, d.n - d.k - 1)
       /\ h.st \in Reads => h.fbank = 1 - h.cur
       /\ h.pfValid => h.pfBank = 1 - h.cur

\* Between commands: at rest, ending a reset, or ending an IDENTIFY.  While the
\* task file is programmed, it holds what has been programmed.
IdleTrue(h, d) ==
  /\ d.pc = "idle" => Quiet(h) \/ Resets(h) \/ Fetching(h, d)
  /\ d.pc = "wait" => ~h.resetting
  /\ d.pc \in {"count", "addr", "cmd"} => Quiet(h)
  /\ d.pc \in {"addr", "cmd"} => h.count = IF d.op = "SETCFG" THEN d.geo.spt ELSE d.n
  /\ d.pc = "cmd" => IF d.op = "SETCFG" THEN h.addr.head + 1 = d.geo.heads
                     ELSE At(h.addr, d.geo, d.lba)

\* IDENTIFY fills the bank word by word, then offers it.
IdentTrue(h, bk, d) ==
  d.op = "IDENT" /\ d.pc \in {"wait", "data"} =>
    /\ ~h.rdPending /\ ~h.pfValid /\ ~h.resetting /\ At(h.addr, h.geo, 0)
    /\ \/ /\ h.st = "ID_FILL" /\ d.pc = "wait" /\ "BUSY" \in h.status /\ h.fill < Words
          /\ \A j \in Idx : j < h.fill => bk[h.cur][j] = IdentWord
       \/ /\ h.st = "IDLE" /\ "BUSY" \notin h.status /\ "DRQ" \in h.status /\ h.off = d.w /\ h.count = 1
          /\ \A j \in Idx : bk[h.cur][j] = IdentWord

\* A WRITE: the bank holds what the driver has written so far; then the image
\* holds as much of it as has been sent; then all of it, or, refused, nothing.
WriteTrue(h, bk, s, dk, d) ==
  LET l == d.lba + d.k  new == Sector(l, 1 - d.ref[l])  old == Sector(l, d.ref[l]) IN
  d.op = "WRITE" /\ d.pc \in {"wait", "data", "fin"} =>
    /\ ~h.rdPending /\ ~h.pfValid /\ ~h.resetting
    /\ d.pc # "fin" =>
         /\ h.st = "IDLE" /\ "BUSY" \notin h.status /\ "DRQ" \in h.status /\ "ERROR" \notin h.status
         /\ h.off = d.w /\ h.count = d.n - d.k /\ At(h.addr, h.geo, l)
         /\ \A j \in Idx : j < d.w => bk[h.cur][j] = new[j]
    /\ d.pc = "fin" /\ "BUSY" \in h.status =>
         /\ h.st \in Writes /\ "ERROR" \notin h.status /\ h.off = 0
         /\ h.count = d.n - d.k /\ Going(h, l) /\ bk[h.cur] = new
         /\ dk[l] = IF Ours(h, s) THEN [j \in Idx |-> IF j < s.i THEN new[j] ELSE old[j]] ELSE old
    /\ d.pc = "fin" /\ "BUSY" \notin h.status =>
         /\ h.st = "IDLE" /\ "DRQ" \in h.status /\ h.off = 0
         /\ "ERROR" \notin h.status => /\ h.count = d.n - d.k - 1
                                       /\ h.count > 0 => At(h.addr, h.geo, l + 1)
         /\ dk[l] = IF "ERROR" \in h.status THEN old ELSE new

\* Every other sector is as the driver last wrote it.
DiskTrue(dk, d) ==
  \A l \in Lba : ~(d.op = "WRITE" /\ d.pc = "fin" /\ l = d.lba + d.k) => dk[l] = Sector(l, d.ref[l])

\* All of it.
Good(h, bk, s, dk, p, d) ==
  /\ Types(h, bk, s, dk, p, d)
  /\ DrvTrue(h, d)
  /\ PathTrue(h, s, p, d)
  /\ IdleTrue(h, d)
  /\ ReadTrue(h, bk, s, dk, d)
  /\ IdentTrue(h, bk, d)
  /\ WriteTrue(h, bk, s, dk, d)
  /\ DiskTrue(dk, d)

\* The inductive invariant of IdeDrive, for as long as it is Calm.
IInv == Good(hd, bank, sd, disk, prot, drv) /\ hd = [r \in Registers |-> hd[r]]

-----------------------------------------------------------------------------
(* What the engine does on an edge, and how it leaves the registers *)

\* The next sector, as NextSector takes it from the registers.
After(a, g) ==
  IF a.mode = "lba" THEN [a EXCEPT !.sec = a.sec + 1]
  ELSE IF a.sec + 1 <= g.spt THEN [a EXCEPT !.sec = a.sec + 1]
  ELSE IF a.head + 1 >= g.heads THEN [a EXCEPT !.sec = 1, !.head = 0, !.cyl = a.cyl + 1]
  ELSE [a EXCEPT !.sec = 1, !.head = a.head + 1]

\* The status when a sector is ready for the bus.
Ready(status) == (status \ {"BUSY", "ERROR"}) \cup {"DRQ"}

\* The end of a reset.
Wakes(h, m) ==
  h.resetting /\ h.st = "IDLE" /\ ~h.pfValid
  /\ m = [h EXCEPT !.resetting = FALSE, !.status = h.status \ {"BUSY"}]

\* The hand-over of a fetched sector.
Hands(h, m) ==
  /\ ~h.resetting /\ h.st = "IDLE" /\ h.rdPending /\ h.pfValid
  /\ m = [h EXCEPT !.rdPending = FALSE, !.pfValid = FALSE, !.cur = h.pfBank, !.off = 0,
                   !.status = Ready(h.status),
                   !.fbank = IF h.count # 0 THEN 1 - h.pfBank ELSE h.fbank,
                   !.st = IF h.count # 0 THEN "RD_LBA1" ELSE "IDLE"]

\* The engine names the sector: at once, or in a product and a sum.
Looks(h, m) ==
  /\ h.st \in {"RD_LBA1", "WR_LBA1"} /\ h.addr.mode = "lba"
  /\ m = [h EXCEPT !.sector = h.addr.sec, !.st = IF h.st = "RD_LBA1" THEN "RD_REQ" ELSE "WR_REQ"]

Multiplies(h, m) ==
  /\ h.st \in {"RD_LBA1", "WR_LBA1"} /\ h.addr.mode # "lba"
  /\ m = [h EXCEPT !.lbaT = h.addr.cyl * h.geo.heads + h.addr.head,
                   !.st = IF h.st = "RD_LBA1" THEN "RD_LBA2" ELSE "WR_LBA2"]

Adds(h, m) ==
  /\ h.st \in {"RD_LBA2", "WR_LBA2"}
  /\ m = [h EXCEPT !.sector = h.lbaT * h.geo.spt + h.addr.sec - 1,
                   !.st = IF h.st = "RD_LBA2" THEN "RD_REQ" ELSE "WR_REQ"]

\* It raises a request; the path has accepted it.
Raises(h, s, p, m) ==
  /\ s.st = "ready"
  /\ \/ h.st = "RD_REQ" /\ m = [h EXCEPT !.rstart = TRUE]
     \/ h.st = "WR_REQ" /\ ~p /\ m = [h EXCEPT !.wstart = TRUE]

Accepted(h, s, p, m) ==
  /\ s.st # "ready"
  /\ \/ h.st = "RD_REQ" /\ h.rstart /\ m = [h EXCEPT !.rstart = FALSE, !.st = "RD_WAIT"]
     \/ h.st = "WR_REQ" /\ ~p /\ h.wstart /\ m = [h EXCEPT !.wstart = FALSE, !.st = "WR_WAIT"]

\* A transfer is done.
FetchEnds(h, s, m) ==
  /\ h.st = "RD_WAIT" /\ s.st = "done"
  /\ m = [h EXCEPT !.pfValid = TRUE, !.pfBank = h.fbank, !.st = "IDLE",
                   !.count = IF h.count # 0 THEN h.count - 1 ELSE h.count,
                   !.addr = IF h.count > 1 THEN After(h.addr, h.geo) ELSE h.addr]

StoreEnds(h, s, m) ==
  /\ h.st = "WR_WAIT" /\ s.st = "done"
  /\ m = [h EXCEPT !.status = Ready(h.status), !.off = 0, !.st = "IDLE",
                   !.count = IF h.count # 0 THEN h.count - 1 ELSE h.count,
                   !.addr = IF h.count > 1 THEN After(h.addr, h.geo) ELSE h.addr]

\* The end of a fetch that a last word waits for, and of one that a READ has made
\* void.
FetchYields(h, s, m) ==
  /\ h.st = "RD_WAIT" /\ s.st = "done"
  /\ m = [h EXCEPT !.pfValid = TRUE, !.pfBank = h.fbank, !.wrPending = FALSE, !.st = "WR_LBA1",
                   !.count = IF h.count # 0 THEN h.count - 1 ELSE h.count,
                   !.addr = IF h.count > 1 THEN After(h.addr, h.geo) ELSE h.addr]

Refetches(h, s, m) ==
  /\ h.st = "RD_WAIT" /\ s.st = "done"
  /\ m = [h EXCEPT !.restart = FALSE, !.fbank = h.cur, !.st = "RD_LBA1"]

\* A word of IDENTIFY.
Fills(h, bk, m, bk2) ==
  /\ h.st = "ID_FILL"
  /\ bk2 = [bk EXCEPT ![h.cur][h.fill] = IdentWord]
  /\ m = IF h.fill = Words - 1
           THEN [h EXCEPT !.fill = h.fill + 1, !.off = 0, !.count = 1, !.st = "IDLE",
                          !.status = Ready(h.status)]
           ELSE [h EXCEPT !.fill = h.fill + 1]

\* A write to a protected image.
Refused(h, p, m) ==
  /\ h.st = "WR_REQ" /\ p
  /\ m = [h EXCEPT !.status = (h.status \ {"BUSY"}) \cup {"ERROR", "DRQ"}, !.off = 0, !.st = "IDLE"]

AllGeometries == [spt : 1..255, heads : 1..16]

-----------------------------------------------------------------------------
(* Addresses *)

LEMMA Quotient == ASSUME NEW l \in Nat, NEW s \in Nat, s > 0
  PROVE l \div s \in Nat /\ l % s \in 0..(s - 1) /\ l = s * (l \div s) + (l % s)
  OBVIOUS

LEMMA NestedQuotient == ASSUME NEW l \in Nat, NEW s \in Nat, s > 0, NEW h \in Nat, h > 0
   PROVE (l \div s) \div h = l \div (s * h)
  BY SMTT(20)

\* The first sector of the next track follows the last of this one; that of the
\* next cylinder follows the last of its last track.
LEMMA NextTrack ==
  ASSUME NEW c \in Nat, NEW n \in Nat, NEW h \in Nat, NEW s \in Nat, NEW l \in Nat,
         (c * n + h) * s + s = l + 1
  PROVE (c * n + (h + 1)) * s + 1 = l + 2
  OBVIOUS

LEMMA NextCylinder ==
  ASSUME NEW c \in Nat, NEW n \in Nat, NEW h \in Nat, NEW s \in Nat, NEW l \in Nat,
         h + 1 = n, (c * n + h) * s + s = l + 1
  PROVE ((c + 1) * n + 0) * s + 1 = l + 2
  <1>1. (c + 1) * n = c * n + n OBVIOUS
  <1>2. (c + 1) * n + 0 = c * n + (h + 1) BY <1>1
  <1>. QED BY <1>2, NextTrack

LEMMA AfterTypes ==
  ASSUME NEW a \in Addresses, NEW g
  PROVE After(a, g) \in Addresses
  <1>. PICK c \in Nat, h \in Nat, e \in Nat : c = a.cyl + 1 /\ h = a.head + 1 /\ e = a.sec + 1
    BY DEF Addresses
  <1>1. [a EXCEPT !.sec = e] \in Addresses BY DEF Addresses
  <1>2. [a EXCEPT !.sec = 1, !.head = 0, !.cyl = c] \in Addresses BY DEF Addresses
  <1>3. [a EXCEPT !.sec = 1, !.head = h] \in Addresses BY DEF Addresses
  <1>. QED BY <1>1, <1>2, <1>3 DEF After

\* next_sector steps from the name of a sector to the name of the next.
LEMMA AfterRight ==
  ASSUME NEW a \in Addresses, NEW g \in AllGeometries, NEW l \in Nat, At(a, g, l)
  PROVE At(After(a, g), g, l + 1)
  <1>. DEFINE b == After(a, g)
  <1>a. /\ a.mode \in Addressing /\ a.cyl \in Nat /\ a.head \in Nat /\ a.sec \in Nat
        /\ g.heads \in Nat /\ g.spt \in Nat /\ g.heads > 0 /\ g.spt > 0
     BY DEF Addresses, AllGeometries
  <1>b. PICK c \in Nat, n \in Nat, h \in Nat, s \in Nat :
         c = a.cyl /\ n = g.heads /\ h = a.head /\ s = g.spt BY <1>a
  <1>1. CASE a.mode = "lba" BY <1>1 DEF After, At, Addresses, Addressing
  <1>2. CASE a.mode = "chs" /\ a.sec + 1 <= g.spt
    <2>1. b = [a EXCEPT !.sec = a.sec + 1] BY <1>2 DEF After
    <2>2. b.mode = "chs" /\ b.cyl = a.cyl /\ b.head = a.head /\ b.sec = a.sec + 1
      BY <1>2, <2>1 DEF Addresses
    <2>a. (a.cyl * g.heads + a.head) * g.spt + a.sec = l + 1 BY <1>2 DEF At
    <2>b. (a.cyl * g.heads + a.head) * g.spt \in Nat BY ONLY <1>a
    <2>3. (a.cyl * g.heads + a.head) * g.spt + (a.sec + 1) = l + 2
      BY ONLY <1>a, <2>a, <2>b, l \in Nat
    <2>. HIDE DEF b
    <2>4. (b.cyl * g.heads + b.head) * g.spt + b.sec = l + 2 BY ONLY <2>2, <2>3
    <2>5. b.sec \in 1..g.spt /\ b.head < g.heads BY <1>a, <1>2, <2>2 DEF At
    <2>6. At(b, g, l + 1) BY <2>2, <2>4, <2>5 DEF At
    <2>. QED BY <2>6 DEF b
  <1>3. CASE a.mode = "chs" /\ ~(a.sec + 1 <= g.spt) /\ a.head + 1 >= g.heads
    <2>1. b = [a EXCEPT !.sec = 1, !.head = 0, !.cyl = a.cyl + 1] BY <1>3 DEF After
    <2>2. b.mode = "chs" /\ b.cyl = a.cyl + 1 /\ b.head = 0 /\ b.sec = 1
      BY <1>3, <2>1 DEF Addresses
    <2>a. a.head < g.heads /\ a.sec <= g.spt BY <1>3 DEF At
    <2>3. a.head + 1 = g.heads /\ a.sec = g.spt BY ONLY <1>a, <1>3, <2>a
    <2>b. (a.cyl * g.heads + a.head) * g.spt + a.sec = l + 1 BY <1>3 DEF At
    <2>4. (a.cyl * g.heads + a.head) * g.spt + g.spt = l + 1 BY ONLY <1>a, <2>b, <2>3, l \in Nat
    <2>c. h + 1 = n /\ (c * n + h) * s + s = l + 1 BY ONLY <1>a, <1>b, <2>3, <2>4
    <2>d. ((c + 1) * n + 0) * s + 1 = l + 2 BY <2>c, NextCylinder
    <2>5. ((a.cyl + 1) * g.heads + 0) * g.spt + 1 = l + 2 BY ONLY <1>a, <1>b, <2>d
    <2>. HIDE DEF b
    <2>6. (b.cyl * g.heads + b.head) * g.spt + b.sec = l + 2 BY ONLY <2>2, <2>5
    <2>7. b.sec \in 1..g.spt /\ b.head < g.heads BY <1>a, <2>2
    <2>8. At(b, g, l + 1) BY <2>2, <2>6, <2>7 DEF At
    <2>. QED BY <2>8 DEF b
  <1>4. CASE a.mode = "chs" /\ ~(a.sec + 1 <= g.spt) /\ ~(a.head + 1 >= g.heads)
    <2>1. b = [a EXCEPT !.sec = 1, !.head = a.head + 1] BY <1>4 DEF After
    <2>2. b.mode = "chs" /\ b.cyl = a.cyl /\ b.head = a.head + 1 /\ b.sec = 1
      BY <1>4, <2>1 DEF Addresses
    <2>a. a.sec <= g.spt BY <1>4 DEF At
    <2>3. a.head + 1 < g.heads /\ a.sec = g.spt BY ONLY <1>a, <1>4, <2>a
    <2>b. (a.cyl * g.heads + a.head) * g.spt + a.sec = l + 1 BY <1>4 DEF At
    <2>4. (a.cyl * g.heads + a.head) * g.spt + g.spt = l + 1 BY ONLY <1>a, <2>b, <2>3, l \in Nat
    <2>c. (c * n + h) * s + s = l + 1 BY ONLY <1>a, <1>b, <2>4
    <2>d. (c * n + (h + 1)) * s + 1 = l + 2 BY <2>c, NextTrack
    <2>5. (a.cyl * g.heads + (a.head + 1)) * g.spt + 1 = l + 2 BY ONLY <1>a, <1>b, <2>d
    <2>. HIDE DEF b
    <2>6. (b.cyl * g.heads + b.head) * g.spt + b.sec = l + 2 BY ONLY <2>2, <2>5
    <2>7. b.sec \in 1..g.spt /\ b.head < g.heads BY <1>a, <2>2, <2>3
    <2>8. At(b, g, l + 1) BY <2>2, <2>6, <2>7 DEF At
    <2>. QED BY <2>8 DEF b
  <1>. QED BY <1>a, <1>1, <1>2, <1>3, <1>4 DEF Addressing

LEMMA AddressTypes ==
  ASSUME NEW l \in Nat, NEW g \in AllGeometries, NEW mode \in Addressing
  PROVE Address(l, mode, g) \in Addresses
  <1>. DEFINE s == g.spt  h == g.heads
  <1>1. s \in Nat /\ s > 0 /\ h \in Nat /\ h > 0 /\ s * h \in Nat /\ s * h > 0 BY DEF AllGeometries
  <1>. HIDE DEF s, h
  <1>2. l \div s \in Nat /\ l % s \in 0..(s - 1) /\ l \div (s * h) \in Nat BY <1>1, Quotient
  <1>3. (l \div s) % h \in 0..(h - 1) BY <1>1, <1>2, Quotient
  <1>. QED BY <1>1, <1>2, <1>3 DEF Address, Addresses, Addressing, s, h

\* The driver's cylinder, head and sector name the sector it means.
LEMMA AddressRight ==
  ASSUME NEW l \in Nat, NEW g \in AllGeometries, NEW mode \in Addressing
  PROVE At(Address(l, mode, g), g, l)
  <1>1. CASE mode = "lba" BY <1>1 DEF Address, At
  <1>2. CASE mode = "chs"
    <2>. DEFINE s == g.spt  h == g.heads  a == Address(l, mode, g)
    <2>. PICK t : t = l \div s OBVIOUS
    <2>1. s \in Nat /\ s > 0 /\ h \in Nat /\ h > 0 BY DEF AllGeometries
    <2>2. a.mode = "chs" /\ a.cyl = l \div (s * h) /\ a.head = (l \div s) % h /\ a.sec = (l % s) + 1
      BY <1>2 DEF Address
    <2>. HIDE DEF s, h, a
    <2>3. t \in Nat /\ l % s \in 0..(s - 1) /\ l = s * t + (l % s) BY <2>1, Quotient
    <2>4. t \div h = l \div (s * h) BY <2>1, NestedQuotient
    <2>5. t \div h \in Nat /\ t % h \in 0..(h - 1) /\ t = h * (t \div h) + (t % h)
      BY <2>1, <2>3, Quotient
    <2>6. a.cyl * h + a.head = t BY <2>1, <2>2, <2>4, <2>5
    <2>7. t * s = s * t BY <2>1, <2>3
    <2>8. (a.cyl * h + a.head) * s + a.sec = l + 1 BY <2>1, <2>2, <2>3, <2>6, <2>7
    <2>9. a.sec \in 1..s /\ a.head < h BY <2>1, <2>2, <2>3, <2>5
    <2>10. a.mode = "chs" /\ a.sec \in 1..g.spt /\ a.head < g.heads
           /\ (a.cyl * g.heads + a.head) * g.spt + a.sec = l + 1 BY <2>2, <2>8, <2>9 DEF s, h
    <2>11. At(a, g, l) BY <2>10 DEF At
    <2>. QED BY <2>11 DEF a
  <1>. QED BY <1>1, <1>2 DEF Addressing

-----------------------------------------------------------------------------
(* The engine's moves *)

\* The registers that a move on the way to a request leaves alone.
Keeps(h, m) ==
  /\ m.status = h.status /\ m.resetting = h.resetting /\ m.off = h.off /\ m.count = h.count
  /\ m.cur = h.cur /\ m.fbank = h.fbank /\ m.pfBank = h.pfBank /\ m.rdPending = h.rdPending
  /\ m.pfValid = h.pfValid /\ m.geo = h.geo /\ m.addr = h.addr /\ m.restart = h.restart
  /\ m.wrPending = h.wrPending

\* The engine goes on with the sector it works on.
LEMMA Advances ==
  ASSUME NEW h, NEW bk, NEW s, NEW dk, NEW p, NEW d, NEW m,
         Good(h, bk, s, dk, p, d), RegTypes(m), PathTrue(m, s, p, d),
         \/ h.st \in Reads /\ m.st \in Reads
         \/ h.st \in Writes /\ m.st \in Writes,
         Keeps(h, m),
         \A l \in Nat : Going(h, l) => Going(m, l), Ours(m, s) <=> Ours(h, s)
  PROVE Good(m, bk, s, dk, p, d)
  <1>1. Types(h, bk, s, dk, p, d) /\ DrvTrue(h, d) /\ PathTrue(h, s, p, d) /\ IdleTrue(h, d)
        /\ ReadTrue(h, bk, s, dk, d) /\ IdentTrue(h, bk, d) /\ WriteTrue(h, bk, s, dk, d)
        /\ DiskTrue(dk, d) BY DEF Good
  <1>. USE DEF Keeps
  <1>2. Types(m, bk, s, dk, p, d) BY <1>1 DEF Types
  <1>3. DrvTrue(m, d) BY <1>1 DEF DrvTrue
  <1>4. IdleTrue(m, d) BY <1>1 DEF IdleTrue, Quiet, Resets, Fetching, Reads, Writes
  <1>5. UpNext(m, d) = UpNext(h, d) BY DEF UpNext
  <1>a. d.lba \in Nat /\ d.n \in Nat /\ h.count \in 0..256 /\ d.k \in Nat
    BY <1>1 DEF Types, RegTypes, Drivers, Lba
  <1>b. \A left : Ahead(h, bk, s, dk, d, left) /\ left <= d.n => Ahead(m, bk, s, dk, d, left)
    <2>. SUFFICES ASSUME NEW left, Ahead(h, bk, s, dk, d, left), left <= d.n
                  PROVE Ahead(m, bk, s, dk, d, left) OBVIOUS
    <2>1. h.st \in Reads /\ m.st \in Reads /\ ~h.pfValid /\ h.count = left
      BY <1>a DEF Ahead, Reads, Writes
    <2>2. UpNext(h, d) \in Nat BY SMTT(30), <1>a, <2>1 DEF UpNext
    <2>. QED BY <1>5, <2>1, <2>2 DEF Ahead, Reads
  <1>c. d.n - d.k <= d.n /\ d.n - d.k - 1 <= d.n BY <1>a
  <1>6. /\ Ahead(h, bk, s, dk, d, d.n - d.k) => Ahead(m, bk, s, dk, d, d.n - d.k)
        /\ Ahead(h, bk, s, dk, d, d.n - d.k - 1) => Ahead(m, bk, s, dk, d, d.n - d.k - 1)
    BY <1>b, <1>c
  <1>d. d.lba + d.k \in Nat BY <1>a
  <1>7. (Fetching(m, d) <=> Fetching(h, d)) /\ (Draining(m, d) <=> Draining(h, d))
    BY DEF Fetching, Draining
  <1>8. ReadTrue(m, bk, s, dk, d) BY <1>1, <1>6, <1>7 DEF ReadTrue, Ahead, Reads, Writes
  <1>9. IdentTrue(m, bk, d) BY <1>1 DEF IdentTrue, Reads, Writes
  <1>10. WriteTrue(m, bk, s, dk, d) BY <1>1, <1>d DEF WriteTrue, Reads, Writes
  <1>. QED BY <1>1, <1>2, <1>3, <1>4, <1>8, <1>9, <1>10 DEF Good

\* The hand-over keeps Good: the sector handed over is the one the driver waits
\* for, and the read ahead goes to the bank it has left.
LEMMA HandsGood ==
  ASSUME NEW h, NEW bk, NEW s, NEW dk, NEW p, NEW d, NEW m,
         Good(h, bk, s, dk, p, d), Hands(h, m)
  PROVE Good(m, bk, s, dk, p, d)
  <1>. USE SizeAssumption, GeometryAssumption
  <1>1. Types(h, bk, s, dk, p, d) /\ DrvTrue(h, d) /\ PathTrue(h, s, p, d) /\ IdleTrue(h, d)
        /\ ReadTrue(h, bk, s, dk, d) /\ IdentTrue(h, bk, d) /\ WriteTrue(h, bk, s, dk, d)
        /\ DiskTrue(dk, d) BY DEF Good
  <1>h. RegTypes(h) /\ d \in Drivers BY <1>1 DEF Types
  <1>a. h.st = "IDLE" /\ h.rdPending /\ h.pfValid /\ ~h.resetting BY DEF Hands
  <1>2. PICK st, fb, bit : /\ st = (IF h.count # 0 THEN "RD_LBA1" ELSE "IDLE")
          /\ fb = (IF h.count # 0 THEN 1 - h.pfBank ELSE h.fbank) /\ bit = Ready(h.status) OBVIOUS
  <1>3. m = [h EXCEPT !.rdPending = FALSE, !.pfValid = FALSE, !.cur = h.pfBank, !.off = 0,
                   !.status = bit, !.fbank = fb, !.st = st] BY <1>2 DEF Hands
  <1>4. bit \in SUBSET Flags /\ fb \in {0, 1} /\ st \in St /\ h.pfBank \in {0, 1} /\ 0 \in Idx
    BY <1>h, <1>2 DEF RegTypes,  Ready, Flags, St, Idx
  <1>5. RegTypes(m) BY <1>h, <1>3, <1>4 DEF RegTypes, Registers
  <1>6. Types(m, bk, s, dk, p, d) BY <1>1, <1>5 DEF Types
  <1>7. /\ ~m.rdPending /\ ~m.pfValid /\ m.cur = h.pfBank /\ m.off = 0 /\ m.status = bit
        /\ m.fbank = fb /\ m.st = st /\ ~m.resetting /\ m.rstart = h.rstart /\ m.wstart = h.wstart
        /\ m.count = h.count /\ m.restart = h.restart /\ m.wrPending = h.wrPending
        /\ m.pfBank = h.pfBank /\ m.geo = h.geo /\ m.addr = h.addr
    BY <1>h, <1>3, <1>a DEF RegTypes, Registers
  <1>8. "BUSY" \notin bit /\ "DRQ" \in bit BY <1>2 DEF Ready
  <1>9. h.count \in 0..256 BY <1>h DEF RegTypes
  <1>10. d.pc \in {"idle", "count", "addr", "cmd", "wait", "data", "fin"}
         /\ d.op \in {"READ", "WRITE", "IDENT", "SETCFG"} /\ d.lba \in Nat /\ d.k \in Nat /\ d.n \in Nat
      BY <1>h DEF Drivers, Lba
  <1>11. Fetching(h, d)
    BY <1>1, <1>a, <1>10
        DEF IdleTrue, Quiet, ReadTrue, IdentTrue, WriteTrue, DrvTrue, Draining, Resets, Fetching
  <1>12a. Ahead(h, bk, s, dk, d, d.n - d.k) BY <1>1, <1>11 DEF ReadTrue
  <1>12b. h.count + 1 = d.n - d.k BY <1>a, <1>12a DEF Ahead
  <1>12c. h.count > 0 => At(h.addr, h.geo, UpNext(h, d)) BY <1>12a DEF Ahead
  <1>12d. bk[h.pfBank] = dk[UpNext(h, d) - 1] BY <1>a, <1>9, <1>10, <1>12a DEF Ahead
  <1>12f. d.op = "IDENT" => d.n = 1 /\ d.k < d.n BY <1>1 DEF DrvTrue
  <1>12e. d.op = "IDENT" => d.n = 1 /\ d.k = 0 /\ h.count = 0 BY ONLY <1>9, <1>10, <1>12b, <1>12f
  <1>13. s.st = "ready" BY <1>1, <1>a DEF PathTrue, Ours, Raised, Stray
  <1>. HIDE DEF Hands
  <1>12g. UpNext(m, d) = UpNext(h, d) BY <1>7 DEF UpNext
  <1>12h. UpNext(h, d) - 1 = d.lba + d.k BY SMTT(30), <1>9, <1>10, <1>12b DEF UpNext
  <1>. USE <1>12g, <1>12h, <1>7, <1>8, <1>9, <1>10, <1>11, <1>12b, <1>12c, <1>12d, <1>12e, <1>13
  <1>14. DrvTrue(m, d) BY <1>1 DEF DrvTrue
  <1>15. PathTrue(m, s, p, d) BY <1>1, <1>2, <1>a DEF PathTrue, Ours, Raised
  <1>16. IdleTrue(m, d) BY <1>1, <1>2, <1>a DEF IdleTrue, Quiet, Fetching
  <1>17. ReadTrue(m, bk, s, dk, d)
    BY <1>1, <1>2, <1>a DEF ReadTrue, Fetching, Draining, Ahead, Reads, Going, Ours, Raised, DrvTrue
  <1>18. IdentTrue(m, bk, d) BY <1>1, <1>a DEF IdentTrue, Fetching
  <1>19. WriteTrue(m, bk, s, dk, d) BY <1>1 DEF WriteTrue, Fetching
  <1>. QED BY <1>1, <1>6, <1>14, <1>15, <1>16, <1>17, <1>18, <1>19 DEF Good

LEMMA DriverTypes ==
  ASSUME NEW d \in Drivers
  PROVE /\ d.pc \in {"idle", "count", "addr", "cmd", "wait", "data", "fin"}
        /\ d.op \in {"READ", "WRITE", "IDENT", "SETCFG"} /\ d.mode \in Addressing
        /\ d.lba \in Nat /\ d.lba \in Lba /\ d.k \in Nat /\ d.n \in Nat /\ d.n \in 1..MaxCount
        /\ d.w \in Idx /\ d.geo \in Geometries /\ d.ref \in [Lba -> {0, 1}]
  BY DEF Drivers, Lba

\* What the invariant says while a sector is fetched, stored, or an IDENTIFY is
\* filled.
LEMMA WhenReading ==
  ASSUME NEW h, NEW bk, NEW s, NEW dk, NEW p, NEW d, Good(h, bk, s, dk, p, d), h.st \in Reads
  PROVE /\ Fetching(h, d) \/ Draining(h, d)
        /\ h.count > 0 /\ ~h.pfValid /\ ~h.resetting
        /\ Going(h, UpNext(h, d)) /\ UpNext(h, d) \in Lba
        /\ h.count = d.n - d.k - (IF Fetching(h, d) THEN 0 ELSE 1)
  <1>1. Types(h, bk, s, dk, p, d) /\ DrvTrue(h, d) /\ PathTrue(h, s, p, d) /\ IdleTrue(h, d)
        /\ ReadTrue(h, bk, s, dk, d) /\ IdentTrue(h, bk, d) /\ WriteTrue(h, bk, s, dk, d)
        BY DEF Good
  <1>2. d \in Drivers /\ h.count \in 0..256 BY <1>1 DEF Types, RegTypes
  <1>. USE <1>2, DriverTypes
  <1>3. Fetching(h, d) \/ Draining(h, d)
    BY <1>1
        DEF IdleTrue, Quiet, Resets, IdentTrue, WriteTrue, DrvTrue, Fetching, Draining, Reads,
          Writes
  <1>4. ~(Fetching(h, d) /\ Draining(h, d)) BY DEF Fetching, Draining
  <1>5. PICK left : Ahead(h, bk, s, dk, d, left)
        /\ left = d.n - d.k - (IF Fetching(h, d) THEN 0 ELSE 1)
    BY <1>1, <1>3, <1>4 DEF ReadTrue
  <1>6. h.count > 0 /\ ~h.pfValid /\ ~h.resetting /\ Going(h, UpNext(h, d)) BY <1>5 DEF Ahead, Reads
  <1>7. h.count = left BY <1>5, <1>6 DEF Ahead
  <1>8. d.lba + d.n - 1 <= MaxLba BY <1>1 DEF DrvTrue
  <1>9. UpNext(h, d) \in Lba BY SMTT(30), <1>5, <1>6, <1>7, <1>8, SizeAssumption DEF UpNext, Lba
  <1>. QED BY <1>3, <1>5, <1>6, <1>7, <1>9

LEMMA WhenWriting ==
  ASSUME NEW h, NEW bk, NEW s, NEW dk, NEW p, NEW d, Good(h, bk, s, dk, p, d), h.st \in Writes
  PROVE /\ d.op = "WRITE" /\ d.pc = "fin" /\ "BUSY" \in h.status /\ "ERROR" \notin h.status
        /\ ~h.rdPending /\ ~h.pfValid /\ ~h.resetting
        /\ Going(h, d.lba + d.k) /\ d.lba + d.k \in Lba
  <1>1. Types(h, bk, s, dk, p, d) /\ DrvTrue(h, d) /\ PathTrue(h, s, p, d) /\ IdleTrue(h, d)
        /\ ReadTrue(h, bk, s, dk, d) /\ IdentTrue(h, bk, d) /\ WriteTrue(h, bk, s, dk, d)
        BY DEF Good
  <1>2. d \in Drivers /\ h.count \in 0..256 BY <1>1 DEF Types, RegTypes
  <1>. USE <1>2, DriverTypes
  <1>3. ~Fetching(h, d) /\ ~Draining(h, d) BY <1>1 DEF ReadTrue, Ahead, Reads, Writes
  <1>4. d.op = "WRITE" /\ d.pc = "fin" /\ "BUSY" \in h.status
    BY <1>1, <1>3
        DEF IdleTrue, Quiet, Resets, IdentTrue, WriteTrue, DrvTrue, Fetching, Draining, Writes
  <1>5. d.lba + d.k \in Lba BY <1>1, SizeAssumption DEF DrvTrue, Lba
  <1>. QED BY <1>1, <1>4, <1>5 DEF WriteTrue

LEMMA WhenFilling ==
  ASSUME NEW h, NEW bk, NEW s, NEW dk, NEW p, NEW d, Good(h, bk, s, dk, p, d), h.st = "ID_FILL"
  PROVE d.op = "IDENT" /\ d.pc = "wait" /\ "BUSY" \in h.status
  <1>1. Types(h, bk, s, dk, p, d) /\ DrvTrue(h, d) /\ PathTrue(h, s, p, d) /\ IdleTrue(h, d)
        /\ ReadTrue(h, bk, s, dk, d) /\ IdentTrue(h, bk, d) /\ WriteTrue(h, bk, s, dk, d)
        BY DEF Good
  <1>2. d \in Drivers BY <1>1 DEF Types
  <1>. USE <1>2, DriverTypes
  <1>3. ~Fetching(h, d) /\ ~Draining(h, d) BY <1>1 DEF ReadTrue, Ahead, Reads
  <1>. QED
    BY <1>1, <1>3
        DEF IdleTrue, Quiet, Resets, IdentTrue, WriteTrue, DrvTrue, Fetching, Draining, Writes

\* Each move of the engine keeps Good.
LEMMA LooksGood ==
  ASSUME NEW h, NEW bk, NEW s, NEW dk, NEW p, NEW d, NEW m, Good(h, bk, s, dk, p, d), Looks(h, m)
  PROVE Good(m, bk, s, dk, p, d)
  <1>1. RegTypes(h) /\ PathTrue(h, s, p, d) BY DEF Good, Types
  <1>2. PICK st : st = (IF h.st = "RD_LBA1" THEN "RD_REQ" ELSE "WR_REQ") OBVIOUS
  <1>3. m = [h EXCEPT !.sector = h.addr.sec, !.st = st] /\ h.st \in {"RD_LBA1", "WR_LBA1"}
        /\ h.addr.mode = "lba"
    BY <1>2 DEF Looks
  <1>4. RegTypes(m) BY <1>1, <1>2, <1>3 DEF RegTypes, Registers, St, Addresses
  <1>5. /\ m.st = st /\ m.sector = h.addr.sec
        /\ Keeps(h, m) /\ m.rstart = h.rstart /\ m.wstart = h.wstart
    BY <1>1, <1>3 DEF RegTypes, Registers, Keeps
  <1>6. ~h.rstart /\ ~h.wstart BY <1>1, <1>3 DEF PathTrue
  <1>7. PathTrue(m, s, p, d)
    BY <1>1, <1>2, <1>3, <1>5, <1>6 DEF PathTrue, Ours, Raised, Stray, Keeps
  <1>8. Ours(m, s) <=> Ours(h, s) BY <1>2, <1>3, <1>5, <1>6 DEF Ours, Raised
  <1>9. \A l : Going(h, l) => Going(m, l) BY <1>2, <1>3, <1>5 DEF Going, At, Keeps
  <1>10. \/ h.st \in Reads /\ m.st \in Reads
         \/ h.st \in Writes /\ m.st \in Writes BY <1>2, <1>3, <1>5 DEF Reads, Writes
  <1>. HIDE DEF Looks
  <1>. QED BY <1>4, <1>5, <1>7, <1>8, <1>9, <1>10, Advances

LEMMA MultipliesGood ==
  ASSUME NEW h, NEW bk, NEW s, NEW dk, NEW p, NEW d, NEW m,
         Good(h, bk, s, dk, p, d), Multiplies(h, m)
  PROVE Good(m, bk, s, dk, p, d)
  <1>1. RegTypes(h) /\ PathTrue(h, s, p, d) BY DEF Good, Types
  <1>2. PICK st, t : st = (IF h.st = "RD_LBA1" THEN "RD_LBA2" ELSE "WR_LBA2")
                     /\ t = h.addr.cyl * h.geo.heads + h.addr.head OBVIOUS
  <1>3. m = [h EXCEPT !.lbaT = t, !.st = st] /\ h.st \in {"RD_LBA1", "WR_LBA1"}
        /\ h.addr.mode # "lba"
    BY <1>2 DEF Multiplies
  <1>t. t \in Nat /\ h.addr.mode = "chs"
    BY <1>1, <1>2, <1>3, GeometryAssumption DEF RegTypes, Addresses, Addressing
  <1>4. RegTypes(m) BY <1>1, <1>2, <1>3, <1>t DEF RegTypes, Registers, St
  <1>5. /\ m.st = st /\ m.lbaT = t
        /\ Keeps(h, m) /\ m.rstart = h.rstart /\ m.wstart = h.wstart
    BY <1>1, <1>3 DEF RegTypes, Registers, Keeps
  <1>6. ~h.rstart /\ ~h.wstart BY <1>1, <1>3 DEF PathTrue
  <1>7. PathTrue(m, s, p, d)
    BY <1>1, <1>2, <1>3, <1>5, <1>6 DEF PathTrue, Ours, Raised, Stray, Keeps
  <1>8. Ours(m, s) <=> Ours(h, s) BY <1>2, <1>3, <1>5, <1>6 DEF Ours, Raised
  <1>9. \A l : Going(h, l) => Going(m, l) BY <1>2, <1>3, <1>5, <1>t DEF Going, Keeps
  <1>10. \/ h.st \in Reads /\ m.st \in Reads
         \/ h.st \in Writes /\ m.st \in Writes BY <1>2, <1>3, <1>5 DEF Reads, Writes
  <1>. QED BY <1>4, <1>5, <1>7, <1>8, <1>9, <1>10, Advances

LEMMA AddsGood ==
  ASSUME NEW h, NEW bk, NEW s, NEW dk, NEW p, NEW d, NEW m, Good(h, bk, s, dk, p, d), Adds(h, m)
  PROVE Good(m, bk, s, dk, p, d)
  <1>1. RegTypes(h) /\ PathTrue(h, s, p, d) BY DEF Good, Types
  <1>2. PICK st, t : st = (IF h.st = "RD_LBA2" THEN "RD_REQ" ELSE "WR_REQ")
                     /\ t = h.lbaT * h.geo.spt + h.addr.sec - 1 OBVIOUS
  <1>3. m = [h EXCEPT !.sector = t, !.st = st] /\ h.st \in {"RD_LBA2", "WR_LBA2"}
    BY <1>2 DEF Adds
  <1>t. h.geo.spt \in Nat /\ h.lbaT \in Nat /\ h.addr.sec \in Nat /\ h.addr.cyl \in Nat
        /\ h.addr.head \in Nat /\ h.geo.heads \in Nat
    BY <1>1, GeometryAssumption DEF RegTypes, Addresses
  <1>u. \A l \in Nat : Going(h, l) => t = l
    <2>. SUFFICES ASSUME NEW l \in Nat, Going(h, l) PROVE t = l OBVIOUS
    <2>1. h.addr.mode = "chs" /\ h.lbaT = h.addr.cyl * h.geo.heads + h.addr.head BY <1>3 DEF Going
    <2>2. (h.addr.cyl * h.geo.heads + h.addr.head) * h.geo.spt + h.addr.sec = l + 1
      BY <2>1 DEF Going, At
    <2>3. h.lbaT * h.geo.spt + h.addr.sec = l + 1 BY ONLY <2>1, <2>2
    <2>4. PICK x \in Nat : x = h.lbaT * h.geo.spt BY <1>t
    <2>5. x + h.addr.sec = l + 1 /\ t = x + (h.addr.sec - 1) BY ONLY <1>2, <2>3, <2>4
    <2>. QED BY ONLY <1>t, <2>4, <2>5, l \in Nat
  <1>v. PICK z \in Nat : Going(h, z)
    BY <1>3, WhenReading, WhenWriting DEF Reads, Writes, Lba
  <1>w. t \in Nat BY <1>u, <1>v
  <1>4. RegTypes(m) BY <1>1, <1>2, <1>3, <1>w DEF RegTypes, Registers, St
  <1>5. /\ m.st = st /\ m.sector = t
        /\ Keeps(h, m) /\ m.rstart = h.rstart /\ m.wstart = h.wstart
    BY <1>1, <1>3 DEF RegTypes, Registers, Keeps
  <1>6. ~h.rstart /\ ~h.wstart BY <1>1, <1>3 DEF PathTrue
  <1>7. PathTrue(m, s, p, d)
    BY <1>1, <1>2, <1>3, <1>5, <1>6 DEF PathTrue, Ours, Raised, Stray, Keeps
  <1>8. Ours(m, s) <=> Ours(h, s) BY <1>2, <1>3, <1>5, <1>6 DEF Ours, Raised
  <1>9. \A l \in Nat : Going(h, l) => Going(m, l) BY <1>2, <1>3, <1>5, <1>u DEF Going, Keeps
  <1>10. \/ h.st \in Reads /\ m.st \in Reads
         \/ h.st \in Writes /\ m.st \in Writes BY <1>2, <1>3, <1>5 DEF Reads, Writes
  <1>. QED BY <1>4, <1>5, <1>7, <1>8, <1>9, <1>10, Advances

LEMMA RaisesGood ==
  ASSUME NEW h, NEW bk, NEW s, NEW dk, NEW p, NEW d, NEW m,
         Good(h, bk, s, dk, p, d), Raises(h, s, p, m)
  PROVE Good(m, bk, s, dk, p, d)
  <1>1. RegTypes(h) /\ PathTrue(h, s, p, d) BY DEF Good, Types
  <1>2. \/ h.st = "RD_REQ" /\ m = [h EXCEPT !.rstart = TRUE]
        \/ h.st = "WR_REQ" /\ ~p /\ m = [h EXCEPT !.wstart = TRUE]
    BY DEF Raises
  <1>3. s.st = "ready" BY DEF Raises
  <1>4. RegTypes(m) BY ZenonT(60), <1>1, <1>2 DEF RegTypes, Registers
  <1>5. /\ m.st = h.st /\ Keeps(h, m) /\ m.sector = h.sector /\ m.lbaT = h.lbaT
        /\ m.rstart => h.st = "RD_REQ"
        /\ m.wstart => h.st = "WR_REQ" /\ ~p
    BY <1>1, <1>2 DEF RegTypes, Registers, Keeps, PathTrue
  <1>7. PathTrue(m, s, p, d) BY <1>1, <1>3, <1>5 DEF PathTrue, Ours, Keeps
  <1>8. Ours(m, s) <=> Ours(h, s) BY <1>3 DEF Ours
  <1>9. \A l \in Nat : Going(h, l) => Going(m, l) BY <1>5 DEF Going, Keeps
  <1>10. \/ h.st \in Reads /\ m.st \in Reads
         \/ h.st \in Writes /\ m.st \in Writes BY <1>2, <1>5 DEF Reads, Writes
  <1>. QED BY <1>4, <1>5, <1>7, <1>8, <1>9, <1>10, Advances

LEMMA AcceptedGood ==
  ASSUME NEW h, NEW bk, NEW s, NEW dk, NEW p, NEW d, NEW m,
         Good(h, bk, s, dk, p, d), Accepted(h, s, p, m)
  PROVE Good(m, bk, s, dk, p, d)
  <1>1. RegTypes(h) /\ PathTrue(h, s, p, d) BY DEF Good, Types
  <1>2. \/ h.st = "RD_REQ" /\ h.rstart /\ m = [h EXCEPT !.rstart = FALSE, !.st = "RD_WAIT"]
        \/ h.st = "WR_REQ" /\ h.wstart /\ m = [h EXCEPT !.wstart = FALSE, !.st = "WR_WAIT"]
    BY DEF Accepted
  <1>3. s.st # "ready" BY DEF Accepted
  <1>r. ASSUME h.st = "RD_REQ" /\ h.rstart /\ m = [h EXCEPT !.rstart = FALSE, !.st = "RD_WAIT"]
        PROVE  /\ RegTypes(m)
               /\ Keeps(h, m) /\ m.sector = h.sector /\ m.lbaT = h.lbaT /\ ~m.rstart /\ ~m.wstart
               /\ m.st = "RD_WAIT"
    <2>1. RegTypes(m) BY <1>1, <1>r DEF RegTypes, Registers, St
    <2>2. ~h.wstart BY <1>1, <1>r DEF PathTrue
    <2>3. /\ Keeps(h, m) /\ m.sector = h.sector /\ m.lbaT = h.lbaT /\ ~m.rstart /\ ~m.wstart
          /\ m.st = "RD_WAIT"
      BY <1>1, <1>r, <2>2 DEF RegTypes, Registers, Keeps
    <2>. QED BY <1>r, <2>1, <2>3
  <1>w. ASSUME h.st = "WR_REQ" /\ h.wstart /\ m = [h EXCEPT !.wstart = FALSE, !.st = "WR_WAIT"]
        PROVE  /\ RegTypes(m)
               /\ Keeps(h, m) /\ m.sector = h.sector /\ m.lbaT = h.lbaT /\ ~m.rstart /\ ~m.wstart
               /\ m.st = "WR_WAIT"
    <2>1. RegTypes(m) BY <1>1, <1>w DEF RegTypes, Registers, St
    <2>2. ~h.rstart BY <1>1, <1>w DEF PathTrue
    <2>3. /\ Keeps(h, m) /\ m.sector = h.sector /\ m.lbaT = h.lbaT /\ ~m.rstart /\ ~m.wstart
          /\ m.st = "WR_WAIT"
      BY <1>1, <1>w, <2>2 DEF RegTypes, Registers, Keeps
    <2>. QED BY <1>w, <2>1, <2>3
  <1>5. /\ RegTypes(m)
        /\ Keeps(h, m) /\ m.sector = h.sector /\ m.lbaT = h.lbaT /\ ~m.rstart /\ ~m.wstart
        /\ \/ h.st = "RD_REQ" /\ h.rstart /\ m.st = "RD_WAIT"
           \/ h.st = "WR_REQ" /\ h.wstart /\ m.st = "WR_WAIT"
    BY <1>2, <1>r, <1>w
  <1>6. Ours(h, s) /\ Ours(m, s) /\ ~Raised(m) BY <1>3, <1>5 DEF Ours, Raised
  <1>7. PathTrue(m, s, p, d) BY <1>1, <1>3, <1>5, <1>6 DEF PathTrue, Keeps
  <1>9. \A l \in Nat : Going(h, l) => Going(m, l) BY <1>5 DEF Going, Keeps
  <1>10. \/ h.st \in Reads /\ m.st \in Reads
         \/ h.st \in Writes /\ m.st \in Writes BY <1>5 DEF Reads, Writes
  <1>. QED BY <1>5, <1>6, <1>7, <1>9, <1>10, Advances

LEMMA WakesGood ==
  ASSUME NEW h, NEW bk, NEW s, NEW dk, NEW p, NEW d, NEW m, Good(h, bk, s, dk, p, d), Wakes(h, m)
  PROVE Good(m, bk, s, dk, p, d)
  <1>1. Types(h, bk, s, dk, p, d) /\ DrvTrue(h, d) /\ PathTrue(h, s, p, d) /\ IdleTrue(h, d)
        /\ ReadTrue(h, bk, s, dk, d) /\ IdentTrue(h, bk, d) /\ WriteTrue(h, bk, s, dk, d)
        /\ DiskTrue(dk, d) BY DEF Good
  <1>2. RegTypes(h) /\ d \in Drivers BY <1>1 DEF Types
  <1>. USE <1>2, DriverTypes
  <1>3. h.st = "IDLE" /\ h.resetting BY DEF Wakes
  <1>4. PICK bits : bits = h.status \ {"BUSY"} OBVIOUS
  <1>5. m = [h EXCEPT !.resetting = FALSE, !.status = bits] BY <1>4 DEF Wakes
  <1>6. RegTypes(m) BY <1>4, <1>5 DEF RegTypes, Registers
  <1>7. /\ m.status = bits /\ ~m.resetting /\ m.st = "IDLE" /\ m.rdPending = h.rdPending
        /\ m.pfValid = h.pfValid /\ m.geo = h.geo /\ m.rstart = h.rstart /\ m.wstart = h.wstart
        /\ m.restart = h.restart /\ m.wrPending = h.wrPending
    BY <1>3, <1>5 DEF RegTypes, Registers
  <1>8. "BUSY" \notin bits BY <1>4
  <1>9. d.pc = "idle" /\ Resets(h)
    BY <1>1, <1>3
        DEF IdleTrue, Quiet, ReadTrue, Ahead, IdentTrue, WriteTrue, DrvTrue, Draining, Fetching
  <1>10. Quiet(m) BY <1>7, <1>8, <1>9 DEF Quiet, Resets
  <1>11. Types(m, bk, s, dk, p, d) BY <1>1, <1>6 DEF Types
  <1>12. DrvTrue(m, d) BY <1>1, <1>7 DEF DrvTrue
  <1>13. PathTrue(m, s, p, d) BY <1>1, <1>3, <1>7, <1>9 DEF PathTrue, Ours, Raised, Stray, Resets
  <1>14. IdleTrue(m, d) BY <1>9, <1>10 DEF IdleTrue
  <1>15. ReadTrue(m, bk, s, dk, d) BY <1>9, <1>10 DEF ReadTrue, Fetching, Draining, Quiet
  <1>16. IdentTrue(m, bk, d) /\ WriteTrue(m, bk, s, dk, d) BY <1>9 DEF IdentTrue, WriteTrue
  <1>. QED BY <1>1, <1>11, <1>12, <1>13, <1>14, <1>15, <1>16 DEF Good

\* A refused WRITE leaves the image as it was.
LEMMA RefusedGood ==
  ASSUME NEW h, NEW bk, NEW s, NEW dk, NEW p, NEW d, NEW m,
         Good(h, bk, s, dk, p, d), Refused(h, p, m)
  PROVE Good(m, bk, s, dk, p, d)
  <1>1. Types(h, bk, s, dk, p, d) /\ DrvTrue(h, d) /\ PathTrue(h, s, p, d) /\ IdleTrue(h, d)
        /\ ReadTrue(h, bk, s, dk, d) /\ IdentTrue(h, bk, d) /\ WriteTrue(h, bk, s, dk, d)
        /\ DiskTrue(dk, d) BY DEF Good
  <1>2. RegTypes(h) /\ d \in Drivers BY <1>1 DEF Types
  <1>. USE <1>2, DriverTypes
  <1>3. h.st = "WR_REQ" /\ p BY DEF Refused
  <1>4. PICK bits : bits = (h.status \ {"BUSY"}) \cup {"ERROR", "DRQ"} OBVIOUS
  <1>5. m = [h EXCEPT !.status = bits, !.off = 0, !.st = "IDLE"] BY <1>4 DEF Refused
  <1>6. RegTypes(m) BY <1>4, <1>5, SizeAssumption DEF RegTypes, Registers, St, Flags, Idx
  <1>7. /\ m.status = bits /\ m.off = 0 /\ m.st = "IDLE" /\ m.rdPending = h.rdPending
        /\ m.pfValid = h.pfValid /\ m.geo = h.geo /\ m.rstart = h.rstart /\ m.wstart = h.wstart
        /\ m.restart = h.restart /\ m.wrPending = h.wrPending /\ m.resetting = h.resetting
    BY <1>3, <1>5 DEF RegTypes, Registers
  <1>8. "BUSY" \notin bits /\ "ERROR" \in bits /\ "DRQ" \in bits BY <1>4
  <1>9. /\ d.op = "WRITE" /\ d.pc = "fin" /\ "BUSY" \in h.status
        /\ ~h.rdPending /\ ~h.pfValid /\ ~h.resetting
    BY <1>3, WhenWriting DEF Writes
  <1>10. s.st = "ready" /\ ~h.rstart /\ ~h.wstart
    BY <1>1, <1>3, <1>9 DEF PathTrue, Ours, Raised, Stray
  <1>11. Types(m, bk, s, dk, p, d) BY <1>1, <1>6 DEF Types
  <1>12. DrvTrue(m, d) BY <1>1, <1>7 DEF DrvTrue
  <1>13. PathTrue(m, s, p, d) BY <1>1, <1>7, <1>10 DEF PathTrue, Ours
  <1>14. IdleTrue(m, d) BY <1>9 DEF IdleTrue
  <1>15. ReadTrue(m, bk, s, dk, d) BY <1>9 DEF ReadTrue, Fetching, Draining
  <1>16. IdentTrue(m, bk, d) BY <1>9 DEF IdentTrue
  <1>17. dk[d.lba + d.k] = Sector(d.lba + d.k, d.ref[d.lba + d.k])
    BY <1>1, <1>9, <1>10 DEF WriteTrue, Ours
  <1>18. WriteTrue(m, bk, s, dk, d) BY <1>7, <1>8, <1>9, <1>17 DEF WriteTrue
  <1>. QED BY <1>1, <1>11, <1>12, <1>13, <1>14, <1>15, <1>16, <1>18 DEF Good

\* The end of a fetch, on the edge on which the path goes back to ready: the words
\* that have come are the whole sector, and the task file steps on to the next.
LEMMA FetchEndsGood ==
  ASSUME NEW h, NEW bk, NEW s, NEW dk, NEW p, NEW d, NEW m, NEW s2,
         Good(h, bk, s, dk, p, d), FetchEnds(h, s, m), s2 = [s EXCEPT !.st = "ready"]
  PROVE Good(m, bk, s2, dk, p, d)
  <1>1. Types(h, bk, s, dk, p, d) /\ DrvTrue(h, d) /\ PathTrue(h, s, p, d) /\ IdleTrue(h, d)
        /\ ReadTrue(h, bk, s, dk, d) /\ IdentTrue(h, bk, d) /\ WriteTrue(h, bk, s, dk, d)
        /\ DiskTrue(dk, d) BY DEF Good
  <1>2. RegTypes(h) /\ d \in Drivers BY <1>1 DEF Types
  <1>. USE <1>2, DriverTypes
  <1>3. h.st = "RD_WAIT" /\ s.st = "done" BY DEF FetchEnds
  <1>4. /\ Fetching(h, d) \/ Draining(h, d)
        /\ h.count > 0 /\ ~h.pfValid /\ ~h.resetting
        /\ Going(h, UpNext(h, d)) /\ UpNext(h, d) \in Lba
        /\ h.count = d.n - d.k - (IF Fetching(h, d) THEN 0 ELSE 1)
    BY <1>3, WhenReading DEF Reads
  <1>5. h.count \in 1..256 BY <1>4 DEF RegTypes
  <1>6. PICK c, a : c = h.count - 1
        /\ a = (IF h.count > 1 THEN After(h.addr, h.geo) ELSE h.addr) OBVIOUS
  <1>7. m = [h EXCEPT !.pfValid = TRUE, !.pfBank = h.fbank, !.st = "IDLE", !.count = c, !.addr = a]
    <2>1. (IF h.count # 0 THEN h.count - 1 ELSE h.count) = c BY <1>5, <1>6
    <2>. QED BY <1>6, <2>1 DEF FetchEnds
  <1>8. h.addr \in Addresses /\ h.geo \in AllGeometries
    BY GeometryAssumption DEF RegTypes, AllGeometries
  <1>9. a \in Addresses BY <1>6, <1>8, AfterTypes
  <1>10. c \in 0..256 BY <1>5, <1>6
  <1>11. RegTypes(m) BY <1>7, <1>9, <1>10 DEF RegTypes, Registers, St
  <1>12. /\ m.pfValid /\ m.pfBank = h.fbank /\ m.st = "IDLE" /\ m.count = c /\ m.addr = a
         /\ m.status = h.status /\ m.resetting = h.resetting /\ m.off = h.off /\ m.cur = h.cur
         /\ m.rdPending = h.rdPending /\ m.geo = h.geo /\ m.restart = h.restart
         /\ m.wrPending = h.wrPending /\ m.rstart = h.rstart /\ m.wstart = h.wstart
    BY <1>7 DEF RegTypes, Registers
  <1>13. Types(m, bk, s2, dk, p, d) BY <1>1, <1>3, <1>11 DEF Types
  <1>14. s2.st = "ready" BY <1>1 DEF Types
  <1>15. Ours(h, s) /\ s.i = Words /\ ~h.rstart /\ ~h.wstart
    BY <1>1, <1>3 DEF PathTrue, Ours
  <1>16. /\ c > 0 => At(a, h.geo, UpNext(h, d) + 1)
    <2>1. At(h.addr, h.geo, UpNext(h, d)) BY <1>4 DEF Going
    <2>2. UpNext(h, d) \in Nat BY <1>4 DEF Lba
    <2>. QED BY <1>5, <1>6, <1>8, <2>1, <2>2, AfterRight
  <1>17. UpNext(m, d) = UpNext(h, d) + 1 /\ UpNext(m, d) - 1 = UpNext(h, d)
    BY SMTT(30), <1>5, <1>6, <1>12 DEF UpNext
  <1>18. bk[h.fbank] = dk[UpNext(h, d)]
    <2>1. \A j \in Idx : bk[h.fbank][j] = dk[UpNext(h, d)][j]
      <3>1. PICK left : Ahead(h, bk, s, dk, d, left) BY <1>1, <1>4 DEF ReadTrue
      <3>2. \A j \in Idx : j < s.i BY <1>15, SizeAssumption DEF Idx
      <3>. QED BY <1>15, <3>1, <3>2 DEF Ahead
    <2>2. bk[h.fbank] \in [Idx -> Word] /\ dk[UpNext(h, d)] \in [Idx -> Word]
      BY <1>1, <1>4 DEF Types, RegTypes
    <2>. QED BY <2>1, <2>2
  <1>19. (Fetching(m, d) <=> Fetching(h, d)) /\ (Draining(m, d) <=> Draining(h, d))
    BY <1>12 DEF Fetching, Draining
  <1>20. \A left : h.count = left => Ahead(m, bk, s2, dk, d, left)
    BY <1>4, <1>5, <1>6, <1>12, <1>14, <1>16, <1>17, <1>18 DEF Ahead, Ours, Reads
  <1>. HIDE DEF FetchEnds
  <1>21. DrvTrue(m, d) BY <1>1, <1>12 DEF DrvTrue
  <1>22. PathTrue(m, s2, p, d) BY <1>1, <1>12, <1>14, <1>15 DEF PathTrue, Ours
  <1>23. IdleTrue(m, d)
    BY <1>1, <1>4, <1>12, <1>19 DEF IdleTrue, Quiet, Resets, Draining, Fetching
  <1>24. ~(Fetching(h, d) /\ Draining(h, d)) BY DEF Fetching, Draining
  <1>25. ReadTrue(m, bk, s2, dk, d)
    <2>1. ASSUME Fetching(h, d) PROVE Ahead(m, bk, s2, dk, d, d.n - d.k) BY <1>4, <1>20, <2>1
    <2>2. ASSUME Draining(h, d) PROVE Ahead(m, bk, s2, dk, d, d.n - d.k - 1)
      BY <1>4, <1>20, <1>24, <2>2
    <2>. QED BY <1>1, <1>3, <1>12, <1>19, <2>1, <2>2 DEF ReadTrue, Reads
  <1>26. IdentTrue(m, bk, d) /\ WriteTrue(m, bk, s2, dk, d)
    BY <1>4 DEF IdentTrue, WriteTrue, Fetching, Draining
  <1>. QED BY <1>1, <1>13, <1>21, <1>22, <1>23, <1>25, <1>26 DEF Good

\* The end of a store, on the edge on which the path goes back to ready: all words
\* are on the card.
LEMMA StoreEndsGood ==
  ASSUME NEW h, NEW bk, NEW s, NEW dk, NEW p, NEW d, NEW m, NEW s2,
         Good(h, bk, s, dk, p, d), StoreEnds(h, s, m), s2 = [s EXCEPT !.st = "ready"]
  PROVE Good(m, bk, s2, dk, p, d)
  <1>1. Types(h, bk, s, dk, p, d) /\ DrvTrue(h, d) /\ PathTrue(h, s, p, d) /\ IdleTrue(h, d)
        /\ ReadTrue(h, bk, s, dk, d) /\ IdentTrue(h, bk, d) /\ WriteTrue(h, bk, s, dk, d)
        /\ DiskTrue(dk, d) BY DEF Good
  <1>2. RegTypes(h) /\ d \in Drivers BY <1>1 DEF Types
  <1>. USE <1>2, DriverTypes
  <1>3. h.st = "WR_WAIT" /\ s.st = "done" BY DEF StoreEnds
  <1>4. /\ d.op = "WRITE" /\ d.pc = "fin" /\ "BUSY" \in h.status /\ "ERROR" \notin h.status
        /\ ~h.rdPending /\ ~h.pfValid /\ ~h.resetting
        /\ Going(h, d.lba + d.k) /\ d.lba + d.k \in Lba
    BY <1>3, WhenWriting DEF Writes
  <1>x. h.count = d.n - d.k /\ d.k < d.n BY <1>1, <1>4 DEF WriteTrue, DrvTrue
  <1>5. h.count \in 1..256 BY <1>x DEF RegTypes
  <1>6. PICK c, a, bits : c = h.count - 1
        /\ a = (IF h.count > 1 THEN After(h.addr, h.geo) ELSE h.addr)
                          /\ bits = Ready(h.status) OBVIOUS
  <1>7. m = [h EXCEPT !.status = bits, !.off = 0, !.st = "IDLE", !.count = c, !.addr = a]
    <2>1. (IF h.count # 0 THEN h.count - 1 ELSE h.count) = c BY <1>5, <1>6
    <2>. QED BY <1>6, <2>1 DEF StoreEnds
  <1>8. h.addr \in Addresses /\ h.geo \in AllGeometries
    BY GeometryAssumption DEF RegTypes, AllGeometries
  <1>9. a \in Addresses BY <1>6, <1>8, AfterTypes
  <1>10. c \in 0..256 /\ bits \subseteq Flags /\ 0 \in Idx
    BY <1>5, <1>6, SizeAssumption DEF Ready, Flags, RegTypes, Idx
  <1>11. RegTypes(m) BY <1>7, <1>9, <1>10 DEF RegTypes, Registers, St
  <1>12. /\ m.status = bits /\ m.off = 0 /\ m.st = "IDLE" /\ m.count = c /\ m.addr = a
         /\ m.resetting = h.resetting /\ m.cur = h.cur /\ m.pfValid = h.pfValid
         /\ m.rdPending = h.rdPending /\ m.geo = h.geo /\ m.restart = h.restart
         /\ m.wrPending = h.wrPending /\ m.rstart = h.rstart /\ m.wstart = h.wstart
    BY <1>7 DEF RegTypes, Registers
  <1>y. "BUSY" \notin bits /\ "DRQ" \in bits /\ "ERROR" \notin bits BY <1>6 DEF Ready
  <1>13. Types(m, bk, s2, dk, p, d) BY <1>1, <1>3, <1>11 DEF Types
  <1>14. s2.st = "ready" BY <1>1 DEF Types
  <1>15. Ours(h, s) /\ s.i = Words /\ ~h.rstart /\ ~h.wstart
    BY <1>1, <1>3 DEF PathTrue, Ours
  <1>16. c > 0 => At(a, h.geo, d.lba + d.k + 1)
    <2>1. At(h.addr, h.geo, d.lba + d.k) BY <1>4 DEF Going
    <2>2. d.lba + d.k \in Nat BY <1>4 DEF Lba
    <2>. QED BY <1>5, <1>6, <1>8, <2>1, <2>2, AfterRight
  <1>17. dk[d.lba + d.k] = Sector(d.lba + d.k, 1 - d.ref[d.lba + d.k])
    <2>1. dk[d.lba + d.k] = [j \in Idx |-> IF j < s.i THEN Sector(d.lba + d.k, 1 - d.ref[d.lba + d.k])[j]
                                           ELSE Sector(d.lba + d.k, d.ref[d.lba + d.k])[j]]
      BY <1>1, <1>4, <1>15 DEF WriteTrue
    <2>2. \A j \in Idx : j < s.i BY <1>15, SizeAssumption DEF Idx
    <2>. QED BY <2>1, <2>2 DEF Sector
  <1>. HIDE DEF StoreEnds
  <1>21. DrvTrue(m, d) BY <1>1, <1>12 DEF DrvTrue
  <1>22. PathTrue(m, s2, p, d) BY <1>1, <1>12, <1>14, <1>15 DEF PathTrue, Ours
  <1>23. IdleTrue(m, d) BY <1>4 DEF IdleTrue
  <1>25. ReadTrue(m, bk, s2, dk, d) BY <1>4 DEF ReadTrue, Fetching, Draining
  <1>26. IdentTrue(m, bk, d) BY <1>4 DEF IdentTrue
  <1>27. WriteTrue(m, bk, s2, dk, d)
    BY <1>4, <1>x, <1>6, <1>12, <1>y, <1>16, <1>17 DEF WriteTrue
  <1>. QED BY <1>1, <1>13, <1>21, <1>22, <1>23, <1>25, <1>26, <1>27 DEF Good

\* A word of IDENTIFY keeps Good, and no transfer is under way meanwhile.
LEMMA FillsGood ==
  ASSUME NEW h, NEW bk, NEW s, NEW dk, NEW p, NEW d, NEW m, NEW bk2,
         Good(h, bk, s, dk, p, d), Fills(h, bk, m, bk2)
  PROVE Good(m, bk2, s, dk, p, d) /\ s.st = "ready"
  <1>1. Types(h, bk, s, dk, p, d) /\ DrvTrue(h, d) /\ PathTrue(h, s, p, d) /\ IdleTrue(h, d)
        /\ ReadTrue(h, bk, s, dk, d) /\ IdentTrue(h, bk, d) /\ WriteTrue(h, bk, s, dk, d)
        /\ DiskTrue(dk, d) BY DEF Good
  <1>2. RegTypes(h) /\ d \in Drivers /\ bk \in [{0, 1} -> [Idx -> Word]] BY <1>1 DEF Types
  <1>. USE <1>2, DriverTypes
  <1>3. h.st = "ID_FILL" BY DEF Fills
  <1>4. d.op = "IDENT" /\ d.pc = "wait" /\ "BUSY" \in h.status BY <1>3, WhenFilling
  <1>5. /\ ~h.rdPending /\ ~h.pfValid /\ ~h.resetting /\ At(h.addr, h.geo, 0) /\ h.fill < Words
        /\ \A j \in Idx : j < h.fill => bk[h.cur][j] = IdentWord
    BY <1>1, <1>3, <1>4 DEF IdentTrue
  <1>6. s.st = "ready" /\ ~h.rstart /\ ~h.wstart
    BY <1>1, <1>3, <1>4 DEF PathTrue, Ours, Raised, Stray
  <1>7. h.fill \in Idx /\ h.fill \in Nat /\ h.cur \in {0, 1} /\ 0 \in Idx /\ IdentWord \in Word
    BY <1>5, SizeAssumption DEF RegTypes, Idx, Word
  <1>8. bk2 = [bk EXCEPT ![h.cur] = [bk[h.cur] EXCEPT ![h.fill] = IdentWord]] BY <1>7 DEF Fills
  <1>9. bk2 \in [{0, 1} -> [Idx -> Word]] /\ bk2[h.cur] = [bk[h.cur] EXCEPT ![h.fill] = IdentWord]
    BY <1>7, <1>8
  <1>10. \A j \in Idx : j < h.fill + 1 => bk2[h.cur][j] = IdentWord
    <2>. PICK word : word = bk[h.cur] OBVIOUS
    <2>1. word \in [Idx -> Word] /\ bk2[h.cur] = [word EXCEPT ![h.fill] = IdentWord] BY <1>7, <1>9
    <2>2. \A j \in Idx : j < h.fill => word[j] = IdentWord BY <1>5
    <2>3. \A j \in Idx : j < h.fill + 1 => j < h.fill \/ j = h.fill BY <1>7 DEF Idx
    <2>. QED BY <1>7, <2>1, <2>2, <2>3
  <1>11. PICK f, bits : f = h.fill + 1 /\ bits = Ready(h.status) OBVIOUS
  <1>12. f \in 0..Words /\ bits \subseteq Flags /\ "BUSY" \notin bits /\ "DRQ" \in bits
    BY <1>5, <1>7, <1>11, SizeAssumption DEF RegTypes, Ready, Flags
  <1>13. CASE h.fill = Words - 1
    <2>1. m = [h EXCEPT !.fill = f, !.off = 0, !.count = 1, !.st = "IDLE", !.status = bits]
      BY <1>11, <1>13 DEF Fills
    <2>2. RegTypes(m) BY <1>7, <1>12, <2>1 DEF RegTypes, Registers, St
    <2>3. /\ m.off = 0 /\ m.count = 1 /\ m.st = "IDLE" /\ m.status = bits /\ m.resetting = h.resetting
          /\ m.cur = h.cur /\ m.pfValid = h.pfValid /\ m.rdPending = h.rdPending /\ m.geo = h.geo
          /\ m.addr = h.addr /\ m.restart = h.restart /\ m.wrPending = h.wrPending
          /\ m.rstart = h.rstart /\ m.wstart = h.wstart
      BY <2>1 DEF RegTypes, Registers
    <2>4. Types(m, bk2, s, dk, p, d) BY <1>1, <1>9, <2>2 DEF Types
    <2>5. DrvTrue(m, d) BY <1>1, <2>3 DEF DrvTrue
    <2>6. PathTrue(m, s, p, d) BY <1>1, <1>6, <2>3 DEF PathTrue, Ours
    <2>7. IdleTrue(m, d) BY <1>4, <1>5, <2>3 DEF IdleTrue
    <2>8. ReadTrue(m, bk2, s, dk, d) BY <1>4 DEF ReadTrue, Fetching, Draining
    <2>9. \A j \in Idx : j < h.fill + 1 BY <1>7, <1>13, SizeAssumption DEF Idx
    <2>10. d.w = 0 BY <1>1, <1>4 DEF DrvTrue
    <2>11. IdentTrue(m, bk2, d) BY <1>5, <1>10, <1>12, <2>3, <2>9, <2>10 DEF IdentTrue
    <2>12. WriteTrue(m, bk2, s, dk, d) BY <1>4 DEF WriteTrue
    <2>. QED BY <1>1, <1>6, <2>4, <2>5, <2>6, <2>7, <2>8, <2>11, <2>12 DEF Good
  <1>14. CASE h.fill # Words - 1
    <2>1. m = [h EXCEPT !.fill = f] BY <1>11, <1>14 DEF Fills
    <2>2. RegTypes(m) BY <1>12, <2>1 DEF RegTypes, Registers
    <2>3. /\ m.off = h.off /\ m.count = h.count /\ m.st = h.st /\ m.status = h.status /\ m.resetting = h.resetting
          /\ m.cur = h.cur /\ m.pfValid = h.pfValid /\ m.rdPending = h.rdPending /\ m.geo = h.geo
          /\ m.addr = h.addr /\ m.restart = h.restart /\ m.wrPending = h.wrPending
          /\ m.rstart = h.rstart /\ m.wstart = h.wstart /\ m.fill = f
      BY <2>1 DEF RegTypes, Registers
    <2>4. Types(m, bk2, s, dk, p, d) BY <1>1, <1>9, <2>2 DEF Types
    <2>5. DrvTrue(m, d) BY <1>1, <2>3 DEF DrvTrue
    <2>6. PathTrue(m, s, p, d) BY <1>1, <1>6, <2>3 DEF PathTrue, Ours
    <2>7. IdleTrue(m, d) BY <1>4, <1>5, <2>3 DEF IdleTrue
    <2>8. ReadTrue(m, bk2, s, dk, d) BY <1>4 DEF ReadTrue, Fetching, Draining
    <2>9. f < Words BY <1>5, <1>7, <1>11, <1>14, SizeAssumption
    <2>11. IdentTrue(m, bk2, d) BY <1>3, <1>4, <1>5, <1>10, <1>11, <2>3, <2>9 DEF IdentTrue
    <2>12. WriteTrue(m, bk2, s, dk, d) BY <1>4 DEF WriteTrue
    <2>. QED BY <1>1, <1>6, <2>4, <2>5, <2>6, <2>7, <2>8, <2>11, <2>12 DEF Good
  <1>. QED BY <1>13, <1>14

-----------------------------------------------------------------------------
(* The path's moves *)

Paths == [st : {"ready", "busy", "done"}, wr : BOOLEAN, lba : Lba, i : 0..Words]

\* The path takes a request.
Takes(h, s, s2) ==
  /\ s.st = "ready" /\ (h.rstart \/ h.wstart)
  /\ s2 = [st |-> "busy", wr |-> h.wstart, lba |-> h.sector, i |-> 0]

LEMMA TakesGood ==
  ASSUME NEW h, NEW bk, NEW s, NEW dk, NEW p, NEW d, NEW s2,
         Good(h, bk, s, dk, p, d), Takes(h, s, s2)
  PROVE Good(h, bk, s2, dk, p, d)
  <1>1. Types(h, bk, s, dk, p, d) /\ DrvTrue(h, d) /\ PathTrue(h, s, p, d) /\ IdleTrue(h, d)
        /\ ReadTrue(h, bk, s, dk, d) /\ IdentTrue(h, bk, d) /\ WriteTrue(h, bk, s, dk, d)
        /\ DiskTrue(dk, d) BY DEF Good
  <1>2. RegTypes(h) /\ d \in Drivers BY <1>1 DEF Types
  <1>. USE <1>2, DriverTypes
  <1>3. s.st = "ready" /\ (h.rstart \/ h.wstart) BY DEF Takes
  <1>4. s2.st = "busy" /\ s2.wr = h.wstart /\ s2.lba = h.sector /\ s2.i = 0 BY DEF Takes
  <1>5. \/ h.st = "RD_REQ" /\ h.rstart /\ ~h.wstart
        \/ h.st = "WR_REQ" /\ h.wstart /\ ~h.rstart
    BY <1>1, <1>3 DEF PathTrue
  <1>6. h.sector \in Lba
    <2>1. PICK z \in Lba : Going(h, z) BY <1>5, WhenReading, WhenWriting DEF Reads, Writes
    <2>. QED BY <1>5, <2>1 DEF Going
  <1>7. s2 \in Paths BY <1>2, <1>6, SizeAssumption DEF Takes, RegTypes, Paths
  <1>8. Types(h, bk, s2, dk, p, d) BY <1>1, <1>7 DEF Types, Paths
  <1>9. ~Ours(h, s) /\ Ours(h, s2) /\ Raised(h) BY <1>3, <1>4, <1>5 DEF Ours, Raised
  <1>10. PathTrue(h, s2, p, d) BY <1>1, <1>4, <1>5, <1>9 DEF PathTrue
  <1>11. \A left : Ahead(h, bk, s, dk, d, left) => Ahead(h, bk, s2, dk, d, left)
    BY <1>4 DEF Ahead, Idx
  <1>12. ReadTrue(h, bk, s2, dk, d) BY <1>1, <1>11 DEF ReadTrue
  <1>13. WriteTrue(h, bk, s2, dk, d)
    <2>. DEFINE l == d.lba + d.k  new == Sector(l, 1 - d.ref[l])  old == Sector(l, d.ref[l])
    <2>1. [j \in Idx |-> IF j < s2.i THEN new[j] ELSE old[j]] = old
      <3>1. \A j \in Idx : ~(j < 0) BY DEF Idx
      <3>2. old = [j \in Idx |-> old[j]] BY DEF Sector
      <3>. QED BY <1>4, <3>1, <3>2
    <2>. HIDE DEF new, old
    <2>2. d.pc = "fin" /\ d.op = "WRITE" /\ "BUSY" \in h.status => dk[l] = old
      BY <1>1, <1>9 DEF WriteTrue, new, old
    <2>. QED BY <1>1, <1>9, <2>1, <2>2 DEF WriteTrue, new, old
  <1>. QED BY <1>1, <1>8, <1>10, <1>12, <1>13 DEF Good

\* It has passed the last word.
Finishes(s, s2) ==
  s.st = "busy" /\ s.i = Words /\ s2 = [s EXCEPT !.st = "done"]

LEMMA FinishesGood ==
  ASSUME NEW h, NEW bk, NEW s, NEW dk, NEW p, NEW d, NEW s2,
         Good(h, bk, s, dk, p, d), Finishes(s, s2)
  PROVE Good(h, bk, s2, dk, p, d)
  <1>1. Types(h, bk, s, dk, p, d) /\ DrvTrue(h, d) /\ PathTrue(h, s, p, d) /\ IdleTrue(h, d)
        /\ ReadTrue(h, bk, s, dk, d) /\ IdentTrue(h, bk, d) /\ WriteTrue(h, bk, s, dk, d)
        /\ DiskTrue(dk, d) BY DEF Good
  <1>2. s \in Paths BY <1>1 DEF Types, Paths
  <1>3. s.st = "busy" /\ s.i = Words BY DEF Finishes
  <1>4. s2 \in Paths /\ s2.st = "done" /\ s2.wr = s.wr /\ s2.lba = s.lba /\ s2.i = s.i
    BY <1>2 DEF Finishes, Paths
  <1>5. Ours(h, s2) <=> Ours(h, s) BY <1>3, <1>4 DEF Ours
  <1>6. Types(h, bk, s2, dk, p, d) BY <1>1, <1>4 DEF Types, Paths
  <1>7. Stray(h, s2, d) <=> Stray(h, s, d) BY <1>3, <1>4 DEF Stray
  <1>8. PathTrue(h, s2, p, d) BY <1>1, <1>3, <1>4, <1>5, <1>7, SizeAssumption DEF PathTrue
  <1>9. ReadTrue(h, bk, s2, dk, d) BY <1>1, <1>4, <1>5 DEF ReadTrue, Ahead
  <1>10. WriteTrue(h, bk, s2, dk, d) BY <1>1, <1>4, <1>5 DEF WriteTrue
  <1>. QED BY <1>1, <1>6, <1>8, <1>9, <1>10 DEF Good

\* A transfer nobody waits for is over.
Drifts(s, s2) == s.st = "done" /\ s2 = [s EXCEPT !.st = "ready"]

LEMMA DriftsGood ==
  ASSUME NEW h, NEW bk, NEW s, NEW dk, NEW p, NEW d, NEW s2,
         Good(h, bk, s, dk, p, d), Drifts(s, s2), ~Ours(h, s)
  PROVE Good(h, bk, s2, dk, p, d)
  <1>1. Types(h, bk, s, dk, p, d) /\ DrvTrue(h, d) /\ PathTrue(h, s, p, d) /\ IdleTrue(h, d)
        /\ ReadTrue(h, bk, s, dk, d) /\ IdentTrue(h, bk, d) /\ WriteTrue(h, bk, s, dk, d)
        /\ DiskTrue(dk, d) BY DEF Good
  <1>2. s \in Paths /\ s.st = "done" BY <1>1 DEF Types, Paths, Drifts
  <1>4. s2 \in Paths /\ s2.st = "ready" BY <1>2 DEF Drifts, Paths
  <1>5. ~Ours(h, s2) BY <1>4 DEF Ours
  <1>6. Types(h, bk, s2, dk, p, d) BY <1>1, <1>4 DEF Types, Paths
  <1>7. h.st \notin {"RD_WAIT", "WR_WAIT"} BY <1>2 DEF Ours
  <1>8. PathTrue(h, s2, p, d) BY <1>1, <1>4, <1>5, <1>7 DEF PathTrue
  <1>9. ReadTrue(h, bk, s2, dk, d) BY <1>1, <1>5 DEF ReadTrue, Ahead
  <1>10. WriteTrue(h, bk, s2, dk, d) BY <1>1, <1>5 DEF WriteTrue
  <1>. QED BY <1>1, <1>6, <1>8, <1>9, <1>10 DEF Good

\* A word of a fetched sector goes to the bank.
Feeds(h, bk, s, dk, s2, bk2) ==
  /\ s.st = "busy" /\ s.i < Words /\ ~s.wr
  /\ s2 = [s EXCEPT !.i = s.i + 1]
  /\ bk2 = [bk EXCEPT ![h.fbank][s.i] = IF s.lba \in Lba THEN dk[s.lba][s.i] ELSE NoWord]

\* It is the right word of the right sector, in a bank the bus does not read; or,
\* after a reset, in a bank nobody uses.
LEMMA FeedsGood ==
  ASSUME NEW h, NEW bk, NEW s, NEW dk, NEW p, NEW d, NEW s2, NEW bk2,
         Good(h, bk, s, dk, p, d), Feeds(h, bk, s, dk, s2, bk2), ~Raised(h)
  PROVE Good(h, bk2, s2, dk, p, d)
  <1>1. Types(h, bk, s, dk, p, d) /\ DrvTrue(h, d) /\ PathTrue(h, s, p, d) /\ IdleTrue(h, d)
        /\ ReadTrue(h, bk, s, dk, d) /\ IdentTrue(h, bk, d) /\ WriteTrue(h, bk, s, dk, d)
        /\ DiskTrue(dk, d) BY DEF Good
  <1>2. RegTypes(h) /\ d \in Drivers /\ s \in Paths BY <1>1 DEF Types, Paths
  <1>b. bk \in [{0, 1} -> [Idx -> Word]] /\ dk \in [Lba -> [Idx -> Word]] BY <1>1 DEF Types
  <1>. USE <1>2, DriverTypes
  <1>3. s.st = "busy" /\ s.i < Words /\ ~s.wr BY DEF Feeds
  <1>4. s.i \in Nat /\ s.i \in Idx /\ h.fbank \in {0, 1} /\ h.cur \in {0, 1} /\ s.lba \in Lba
    BY <1>3, SizeAssumption DEF RegTypes, Idx, Paths
  <1>5. s2 \in Paths /\ s2.st = "busy" /\ s2.wr = s.wr /\ s2.lba = s.lba /\ s2.i = s.i + 1
    <2>. PICK i : i = s.i + 1 OBVIOUS
    <2>1. i \in 0..Words /\ s2 = [s EXCEPT !.i = i] BY <1>3, <1>4, SizeAssumption DEF Feeds
    <2>. QED BY <1>3, <2>1 DEF Paths
  <1>6. PICK word \in Word : word = dk[s.lba][s.i] BY <1>b, <1>4
  <1>7. bk2 = [bk EXCEPT ![h.fbank] = [bk[h.fbank] EXCEPT ![s.i] = word]] BY <1>4, <1>6 DEF Feeds
  <1>8. /\ bk2 \in [{0, 1} -> [Idx -> Word]] /\ bk2[h.fbank] = [bk[h.fbank] EXCEPT ![s.i] = word]
        /\ h.cur # h.fbank => bk2[h.cur] = bk[h.cur]
    BY <1>b, <1>4, <1>7
  <1>9. Types(h, bk2, s2, dk, p, d) BY <1>1, <1>5, <1>8 DEF Types, Paths
  <1>10. (Ours(h, s2) <=> Ours(h, s)) /\ (Stray(h, s2, d) <=> Stray(h, s, d))
    BY <1>3, <1>5 DEF Ours, Stray
  <1>11. PathTrue(h, s2, p, d) BY <1>1, <1>3, <1>5, <1>10 DEF PathTrue
  <1>12. CASE Ours(h, s)
    <2>1. h.st = "RD_WAIT" BY <1>1, <1>3, <1>12 DEF PathTrue, Ours
    <2>2. /\ Fetching(h, d) \/ Draining(h, d)
          /\ ~h.pfValid /\ Going(h, UpNext(h, d)) /\ UpNext(h, d) \in Lba
      BY <2>1, WhenReading DEF Reads
    <2>3. s.lba = UpNext(h, d) BY <1>1, <1>12, <2>1, <2>2 DEF PathTrue, Going
    <2>4. \A left : Ahead(h, bk, s, dk, d, left) => Ahead(h, bk2, s2, dk, d, left)
      <3>. SUFFICES ASSUME NEW left, Ahead(h, bk, s, dk, d, left)
                    PROVE Ahead(h, bk2, s2, dk, d, left) OBVIOUS
      <3>1. \A j \in Idx : j < s2.i => bk2[h.fbank][j] = dk[UpNext(h, d)][j]
        <4>. PICK old : old = bk[h.fbank] OBVIOUS
        <4>1. old \in [Idx -> Word] /\ bk2[h.fbank] = [old EXCEPT ![s.i] = word] BY <1>b, <1>4, <1>8
        <4>2. \A j \in Idx : j < s.i => old[j] = dk[UpNext(h, d)][j] BY <1>12 DEF Ahead
        <4>3. \A j \in Idx : j < s.i + 1 => j < s.i \/ j = s.i BY <1>4 DEF Idx
        <4>4. word = dk[UpNext(h, d)][s.i] BY <1>6, <2>3
        <4>. QED BY <1>4, <1>5, <4>1, <4>2, <4>3, <4>4
      <3>. QED BY <2>2, <3>1 DEF Ahead
    <2>5. ReadTrue(h, bk2, s2, dk, d)
      <3>1. Draining(h, d) => h.cur # h.fbank BY <1>1, <1>4, <2>1 DEF ReadTrue, Reads
      <3>. QED BY <1>1, <1>8, <2>4, <3>1 DEF ReadTrue
    <2>6. IdentTrue(h, bk2, d) /\ WriteTrue(h, bk2, s2, dk, d)
      BY <2>2 DEF IdentTrue, WriteTrue, Fetching, Draining
    <2>. QED BY <1>1, <1>9, <1>11, <2>5, <2>6 DEF Good
  <1>13. CASE ~Ours(h, s)
    <2>1. Stray(h, s, d) BY <1>1, <1>3, <1>13 DEF PathTrue
    <2>2. ~h.pfValid /\ ~Draining(h, d) BY <2>1 DEF Stray, Draining
    <2>3. \A left : Ahead(h, bk, s, dk, d, left) => Ahead(h, bk2, s2, dk, d, left)
      BY <1>10, <1>13, <2>2 DEF Ahead
    <2>4. ReadTrue(h, bk2, s2, dk, d) BY <1>1, <2>2, <2>3 DEF ReadTrue
    <2>5. IdentTrue(h, bk2, d) /\ WriteTrue(h, bk2, s2, dk, d)
      BY <2>1 DEF IdentTrue, WriteTrue, Stray
    <2>. QED BY <1>1, <1>9, <1>11, <2>4, <2>5 DEF Good
  <1>. QED BY <1>12, <1>13

\* A word of a sector that is written goes to the card.
Stores(h, bk, s, dk, s2, dk2) ==
  /\ s.st = "busy" /\ s.i < Words /\ s.wr
  /\ s2 = [s EXCEPT !.i = s.i + 1]
  /\ dk2 = [dk EXCEPT ![s.lba][s.i] = bk[h.cur][s.i]]

\* It comes from the bank the driver has filled.
LEMMA StoresGood ==
  ASSUME NEW h, NEW bk, NEW s, NEW dk, NEW p, NEW d, NEW s2, NEW dk2,
         Good(h, bk, s, dk, p, d), Stores(h, bk, s, dk, s2, dk2), ~Raised(h)
  PROVE Good(h, bk, s2, dk2, p, d)
  <1>1. Types(h, bk, s, dk, p, d) /\ DrvTrue(h, d) /\ PathTrue(h, s, p, d) /\ IdleTrue(h, d)
        /\ ReadTrue(h, bk, s, dk, d) /\ IdentTrue(h, bk, d) /\ WriteTrue(h, bk, s, dk, d)
        /\ DiskTrue(dk, d) BY DEF Good
  <1>2. RegTypes(h) /\ d \in Drivers /\ s \in Paths BY <1>1 DEF Types, Paths
  <1>b. bk \in [{0, 1} -> [Idx -> Word]] /\ dk \in [Lba -> [Idx -> Word]] BY <1>1 DEF Types
  <1>. USE <1>2, DriverTypes
  <1>3. s.st = "busy" /\ s.i < Words /\ s.wr BY DEF Stores
  <1>4. s.i \in Nat /\ s.i \in Idx /\ h.cur \in {0, 1} /\ s.lba \in Lba
    BY <1>3, SizeAssumption DEF RegTypes, Idx, Paths
  <1>5. s2 \in Paths /\ s2.st = "busy" /\ s2.wr = s.wr /\ s2.lba = s.lba /\ s2.i = s.i + 1
    <2>. PICK i : i = s.i + 1 OBVIOUS
    <2>1. i \in 0..Words /\ s2 = [s EXCEPT !.i = i] BY <1>3, <1>4, SizeAssumption DEF Stores
    <2>. QED BY <1>3, <2>1 DEF Paths
  <1>6. PICK word \in Word : word = bk[h.cur][s.i] BY <1>b, <1>4
  <1>7. dk2 = [dk EXCEPT ![s.lba] = [dk[s.lba] EXCEPT ![s.i] = word]] BY <1>4, <1>6 DEF Stores
  <1>8. /\ dk2 \in [Lba -> [Idx -> Word]] /\ dk2[s.lba] = [dk[s.lba] EXCEPT ![s.i] = word]
        /\ \A l \in Lba : l # s.lba => dk2[l] = dk[l]
    BY <1>b, <1>4, <1>7
  <1>9. Types(h, bk, s2, dk2, p, d) BY <1>1, <1>5, <1>8 DEF Types, Paths
  <1>10. Ours(h, s) /\ Ours(h, s2) /\ h.st = "WR_WAIT"
    BY <1>1, <1>3, <1>5 DEF PathTrue, Ours, Stray
  <1>11. PathTrue(h, s2, p, d) BY <1>1, <1>3, <1>5, <1>10 DEF PathTrue
  <1>12. /\ d.op = "WRITE" /\ d.pc = "fin" /\ "BUSY" \in h.status
         /\ Going(h, d.lba + d.k) /\ d.lba + d.k \in Lba
    BY <1>10, WhenWriting DEF Writes
  <1>13. PICK l \in Lba : l = d.lba + d.k /\ s.lba = l
    BY <1>1, <1>10, <1>12 DEF PathTrue, Going
  <1>. DEFINE new == Sector(l, 1 - d.ref[l])  old == Sector(l, d.ref[l])
  <1>14. bk[h.cur] = new /\ dk[l] = [j \in Idx |-> IF j < s.i THEN new[j] ELSE old[j]]
    BY <1>1, <1>10, <1>12, <1>13 DEF WriteTrue
  <1>15. dk2[l] = [j \in Idx |-> IF j < s2.i THEN new[j] ELSE old[j]]
    <2>. HIDE DEF new, old
    <2>1. word = new[s.i] BY <1>6, <1>14
    <2>2. dk2[l] = [dk[l] EXCEPT ![s.i] = word] BY <1>8, <1>13
    <2>3. \A j \in Idx : j < s.i + 1 <=> (j < s.i \/ j = s.i) BY <1>4 DEF Idx
    <2>4. \A j \in Idx : dk2[l][j] = IF j < s.i + 1 THEN new[j] ELSE old[j]
      BY <1>14, <2>1, <2>2, <2>3
    <2>5. dk2[l] \in [Idx -> Word] BY <1>8
    <2>. QED BY <1>5, <2>4, <2>5
  <1>16. WriteTrue(h, bk, s2, dk2, d)
    BY <1>1, <1>10, <1>12, <1>13, <1>15 DEF WriteTrue
  <1>17. DiskTrue(dk2, d) BY <1>1, <1>8, <1>12, <1>13 DEF DiskTrue
  <1>18. ReadTrue(h, bk, s2, dk2, d) BY <1>12 DEF ReadTrue, Fetching, Draining
  <1>19. IdentTrue(h, bk, d) BY <1>12 DEF IdentTrue
  <1>. QED BY <1>1, <1>9, <1>11, <1>16, <1>17, <1>18, <1>19 DEF Good

-----------------------------------------------------------------------------
(* The driver's moves, with what its access to the bus assigns *)

\* Between commands nothing of the cartridge's own is under way.
LEMMA WhenQuiet ==
  ASSUME NEW h, NEW bk, NEW s, NEW dk, NEW p, NEW d, Good(h, bk, s, dk, p, d),
         d.pc \in {"count", "addr", "cmd"} \/ (d.pc = "idle" /\ "BUSY" \notin h.status)
  PROVE /\ Quiet(h) /\ ~h.rstart /\ ~h.wstart /\ ~h.restart /\ ~h.wrPending /\ ~Ours(h, s)
        /\ s.st = "ready" \/ Stray(h, s, d)
        /\ s.st = "done" => s.i = Words
  BY DEF Good, IdleTrue, PathTrue, Quiet, Resets, Fetching, Ours, Raised

\* The driver chooses a command, and programs the task file.
LEMMA ChooseGood ==
  ASSUME NEW h, NEW bk, NEW s, NEW dk, NEW p, NEW d, Good(h, bk, s, dk, p, d),
         d.pc = "idle", "BUSY" \notin h.status,
         NEW op \in Ops, NEW mode \in Modes, NEW l \in Lba, NEW n \in 1..MaxCount, NEW g \in Geometries,
         l + n - 1 <= MaxLba, op = "IDENT" => l = 0 /\ n = 1, op # "SETCFG" => g = d.geo,
         NEW d2, d2 = [d EXCEPT !.pc = "count", !.op = op, !.mode = mode, !.lba = l, !.n = n,
                                !.k = 0, !.w = 0, !.geo = g]
  PROVE Good(h, bk, s, dk, p, d2)
  <1>1. Types(h, bk, s, dk, p, d) /\ DrvTrue(h, d) /\ PathTrue(h, s, p, d) /\ IdleTrue(h, d)
        /\ DiskTrue(dk, d) BY DEF Good
  <1>2. d \in Drivers BY <1>1 DEF Types
  <1>3. 0 \in Idx /\ op \in {"READ", "WRITE", "IDENT", "SETCFG"} /\ mode \in Addressing
    BY SizeAssumption, ChoiceAssumption DEF Idx, Addressing
  <1>4. d2 \in Drivers BY <1>2, <1>3 DEF Drivers
  <1>5. d2.pc = "count" /\ d2.op = op /\ d2.mode = mode /\ d2.lba = l /\ d2.n = n /\ d2.k = 0
        /\ d2.w = 0 /\ d2.geo = g /\ d2.ref = d.ref BY <1>2 DEF Drivers
  <1>6. Types(h, bk, s, dk, p, d2) BY <1>1, <1>4 DEF Types
  <1>7. DrvTrue(h, d2) BY <1>1, <1>5 DEF DrvTrue
  <1>8. /\ Quiet(h) /\ ~h.rstart /\ ~h.wstart /\ ~h.restart /\ ~h.wrPending /\ ~Ours(h, s)
        /\ s.st = "ready" \/ Stray(h, s, d)
        /\ s.st = "done" => s.i = Words BY WhenQuiet
  <1>9. Stray(h, s, d) => Stray(h, s, d2) BY <1>5 DEF Stray
  <1>10. PathTrue(h, s, p, d2) BY <1>8, <1>9 DEF PathTrue, Quiet
  <1>11. IdleTrue(h, d2) BY <1>5, <1>8 DEF IdleTrue
  <1>12. ReadTrue(h, bk, s, dk, d2) /\ IdentTrue(h, bk, d2) /\ WriteTrue(h, bk, s, dk, d2)
    BY <1>5 DEF ReadTrue, Fetching, Draining, IdentTrue, WriteTrue
  <1>13. DiskTrue(dk, d2) BY <1>1, <1>5 DEF DiskTrue
  <1>. QED BY <1>6, <1>7, <1>10, <1>11, <1>12, <1>13 DEF Good

LEMMA CountGood ==
  ASSUME NEW h, NEW bk, NEW s, NEW dk, NEW p, NEW d, Good(h, bk, s, dk, p, d), d.pc = "count",
         NEW c, c = (IF d.op = "SETCFG" THEN d.geo.spt ELSE d.n),
         NEW h2, h2 = [h EXCEPT !.count = c], NEW d2, d2 = [d EXCEPT !.pc = "addr"]
  PROVE Good(h2, bk, s, dk, p, d2)
  <1>1. Types(h, bk, s, dk, p, d) /\ DrvTrue(h, d) /\ PathTrue(h, s, p, d) /\ IdleTrue(h, d)
        /\ DiskTrue(dk, d) BY DEF Good
  <1>2. d \in Drivers /\ RegTypes(h) BY <1>1 DEF Types
  <1>3. c \in 0..256 BY <1>2, SizeAssumption, GeometryAssumption DEF Drivers
  <1>4. d2 \in Drivers /\ RegTypes(h2) BY <1>2, <1>3 DEF Drivers, RegTypes, Registers
  <1>5. d2.pc = "addr" /\ d2.op = d.op /\ d2.lba = d.lba /\ d2.n = d.n /\ d2.k = d.k
        /\ d2.w = d.w /\ d2.geo = d.geo /\ d2.ref = d.ref BY <1>2 DEF Drivers
  <1>6. /\ h2.count = c /\ h2.status = h.status /\ h2.resetting = h.resetting /\ h2.st = h.st
        /\ h2.rstart = h.rstart /\ h2.wstart = h.wstart /\ h2.rdPending = h.rdPending
        /\ h2.pfValid = h.pfValid /\ h2.restart = h.restart /\ h2.wrPending = h.wrPending
        /\ h2.geo = h.geo
    BY <1>2 DEF RegTypes, Registers
  <1>7. Types(h2, bk, s, dk, p, d2) BY <1>1, <1>4 DEF Types
  <1>8. DrvTrue(h2, d2) BY <1>1, <1>5, <1>6 DEF DrvTrue
  <1>9. /\ Quiet(h) /\ ~h.rstart /\ ~h.wstart /\ ~h.restart /\ ~h.wrPending /\ ~Ours(h, s)
        /\ s.st = "ready" \/ Stray(h, s, d)
        /\ s.st = "done" => s.i = Words BY WhenQuiet
  <1>10. Quiet(h2) /\ ~Ours(h2, s) BY <1>6, <1>9 DEF Quiet, Ours, Raised
  <1>11. Stray(h, s, d) => Stray(h2, s, d2) BY <1>5, <1>6 DEF Stray
  <1>12. PathTrue(h2, s, p, d2) BY <1>6, <1>9, <1>10, <1>11 DEF PathTrue, Quiet
  <1>13. IdleTrue(h2, d2) BY <1>5, <1>6, <1>10 DEF IdleTrue
  <1>14. ReadTrue(h2, bk, s, dk, d2) /\ IdentTrue(h2, bk, d2) /\ WriteTrue(h2, bk, s, dk, d2)
    BY <1>5 DEF ReadTrue, Fetching, Draining, IdentTrue, WriteTrue
  <1>15. DiskTrue(dk, d2) BY <1>1, <1>5 DEF DiskTrue
  <1>. QED BY <1>7, <1>8, <1>12, <1>13, <1>14, <1>15 DEF Good

\* What it writes to the address registers.
Place(h, d) ==
  IF d.op = "SETCFG" THEN [h.addr EXCEPT !.mode = "chs", !.head = d.geo.heads - 1]
  ELSE Address(d.lba, d.mode, d.geo)

LEMMA AddrGood ==
  ASSUME NEW h, NEW bk, NEW s, NEW dk, NEW p, NEW d, Good(h, bk, s, dk, p, d), d.pc = "addr",
         NEW a, a = Place(h, d), NEW h2, h2 = [h EXCEPT !.addr = a], NEW d2, d2 = [d EXCEPT !.pc = "cmd"]
  PROVE Good(h2, bk, s, dk, p, d2)
  <1>. USE DEF Place
  <1>1. Types(h, bk, s, dk, p, d) /\ DrvTrue(h, d) /\ PathTrue(h, s, p, d) /\ IdleTrue(h, d)
        /\ DiskTrue(dk, d) BY DEF Good
  <1>2. d \in Drivers /\ RegTypes(h) BY <1>1 DEF Types
  <1>g. /\ d.geo \in AllGeometries /\ d.lba \in Nat /\ d.mode \in Addressing /\ h.addr \in Addresses
        /\ d.geo.heads \in Nat /\ d.geo.heads > 0
    BY SMTT(30), <1>2, GeometryAssumption DEF Drivers, Lba, AllGeometries, RegTypes
  <1>3. /\ a \in Addresses
        /\ IF d.op = "SETCFG" THEN a.head + 1 = d.geo.heads ELSE At(a, d.geo, d.lba)
    <2>1. CASE d.op = "SETCFG"
      <3>. PICK t \in Nat : t = d.geo.heads - 1 BY <1>g
      <3>1. a = [h.addr EXCEPT !.mode = "chs", !.head = t] BY <2>1
      <3>2. a \in Addresses /\ a.head = t BY <1>g, <3>1 DEF Addresses, Addressing
      <3>. QED BY <1>g, <2>1, <3>2
    <2>2. CASE d.op # "SETCFG" BY <1>g, <2>2, AddressTypes, AddressRight
    <2>. QED BY <2>1, <2>2
  <1>4. d2 \in Drivers /\ RegTypes(h2) BY <1>2, <1>3 DEF Drivers, RegTypes, Registers
  <1>5. d2.pc = "cmd" /\ d2.op = d.op /\ d2.lba = d.lba /\ d2.n = d.n /\ d2.k = d.k
        /\ d2.w = d.w /\ d2.geo = d.geo /\ d2.ref = d.ref BY <1>2 DEF Drivers
  <1>6. /\ h2.addr = a /\ h2.count = h.count /\ h2.status = h.status /\ h2.resetting = h.resetting
        /\ h2.st = h.st
        /\ h2.rstart = h.rstart /\ h2.wstart = h.wstart /\ h2.rdPending = h.rdPending
        /\ h2.pfValid = h.pfValid /\ h2.restart = h.restart /\ h2.wrPending = h.wrPending
        /\ h2.geo = h.geo
    BY <1>2 DEF RegTypes, Registers
  <1>7. Types(h2, bk, s, dk, p, d2) BY <1>1, <1>4 DEF Types
  <1>8. DrvTrue(h2, d2) BY <1>1, <1>5, <1>6 DEF DrvTrue
  <1>9. /\ Quiet(h) /\ ~h.rstart /\ ~h.wstart /\ ~h.restart /\ ~h.wrPending /\ ~Ours(h, s)
        /\ s.st = "ready" \/ Stray(h, s, d)
        /\ s.st = "done" => s.i = Words BY WhenQuiet
  <1>10. Quiet(h2) /\ ~Ours(h2, s) BY <1>6, <1>9 DEF Quiet, Ours, Raised
  <1>11. Stray(h, s, d) => Stray(h2, s, d2) BY <1>5, <1>6 DEF Stray
  <1>12. PathTrue(h2, s, p, d2) BY <1>6, <1>9, <1>10, <1>11 DEF PathTrue, Quiet
  <1>13. IdleTrue(h2, d2) BY <1>1, <1>3, <1>5, <1>6, <1>10 DEF IdleTrue
  <1>14. ReadTrue(h2, bk, s, dk, d2) /\ IdentTrue(h2, bk, d2) /\ WriteTrue(h2, bk, s, dk, d2)
    BY <1>5 DEF ReadTrue, Fetching, Draining, IdentTrue, WriteTrue
  <1>15. DiskTrue(dk, d2) BY <1>1, <1>5 DEF DiskTrue
  <1>. QED BY <1>7, <1>8, <1>12, <1>13, <1>14, <1>15 DEF Good

\* READ: the first fetch starts where the task file says.
LEMMA ReadGood ==
  ASSUME NEW h, NEW bk, NEW s, NEW dk, NEW p, NEW d, Good(h, bk, s, dk, p, d),
         d.pc = "cmd", d.op = "READ",
         NEW h2, h2 = [h EXCEPT !.status = (h.status \cup {"BUSY"}) \ {"DRQ", "ERROR"},
                                !.rdPending = TRUE, !.pfValid = FALSE, !.fbank = h.cur,
                                !.st = "RD_LBA1"],
         NEW d2, d2 = [d EXCEPT !.pc = "wait"]
  PROVE Good(h2, bk, s, dk, p, d2)
  <1>1. Types(h, bk, s, dk, p, d) /\ DrvTrue(h, d) /\ PathTrue(h, s, p, d) /\ IdleTrue(h, d)
        /\ DiskTrue(dk, d) BY DEF Good
  <1>2. d \in Drivers /\ RegTypes(h) BY <1>1 DEF Types
  <1>. USE <1>2, DriverTypes
  <1>3. PICK bits : bits = (h.status \cup {"BUSY"}) \ {"DRQ", "ERROR"} OBVIOUS
  <1>4. bits \subseteq Flags /\ "BUSY" \in bits /\ "DRQ" \notin bits BY <1>3 DEF RegTypes, Flags
  <1>5. RegTypes(h2) BY <1>3, <1>4 DEF RegTypes, Registers, St
  <1>6. /\ h2.status = bits /\ h2.rdPending /\ ~h2.pfValid /\ h2.fbank = h.cur /\ h2.st = "RD_LBA1"
        /\ h2.count = h.count /\ h2.addr = h.addr /\ h2.geo = h.geo /\ h2.resetting = h.resetting
        /\ h2.rstart = h.rstart /\ h2.wstart = h.wstart
        /\ h2.restart = h.restart /\ h2.wrPending = h.wrPending
    BY <1>3 DEF RegTypes, Registers
  <1>7. d2 \in Drivers BY DEF Drivers
  <1>8. d2.pc = "wait" /\ d2.op = d.op /\ d2.lba = d.lba /\ d2.n = d.n /\ d2.k = d.k
        /\ d2.w = d.w /\ d2.geo = d.geo /\ d2.ref = d.ref BY DEF Drivers
  <1>9. Types(h2, bk, s, dk, p, d2) BY <1>1, <1>5, <1>7 DEF Types
  <1>10. DrvTrue(h2, d2) BY <1>1, <1>6, <1>8 DEF DrvTrue
  <1>11. /\ Quiet(h) /\ ~h.rstart /\ ~h.wstart /\ ~h.restart /\ ~h.wrPending /\ ~Ours(h, s)
         /\ s.st = "ready" \/ Stray(h, s, d)
         /\ s.st = "done" => s.i = Words BY WhenQuiet
  <1>12. /\ d.k = 0 /\ d.n > 0 /\ h.count = d.n /\ ~h.resetting /\ h.geo = d.geo
         /\ At(h.addr, h.geo, d.lba) BY <1>1, <1>11 DEF DrvTrue, IdleTrue, Quiet
  <1>13. ~Ours(h2, s) BY <1>6, <1>11 DEF Ours, Raised
  <1>14. Stray(h, s, d) => Stray(h2, s, d2) BY <1>4, <1>6, <1>8, <1>11, <1>12 DEF Stray
  <1>15. PathTrue(h2, s, p, d2) BY <1>6, <1>11, <1>13, <1>14 DEF PathTrue
  <1>16. IdleTrue(h2, d2) BY <1>6, <1>8, <1>12 DEF IdleTrue
  <1>17. UpNext(h2, d2) = d.lba BY <1>6, <1>8, <1>12 DEF UpNext
  <1>18. Going(h2, d.lba) BY <1>6, <1>12 DEF Going
  <1>19. h2.count = d2.n - d2.k BY <1>6, <1>8, <1>12
  <1>20. Ahead(h2, bk, s, dk, d2, d2.n - d2.k)
    BY <1>6, <1>12, <1>13, <1>17, <1>18, <1>19 DEF Ahead, Reads
  <1>21. ReadTrue(h2, bk, s, dk, d2) BY <1>4, <1>6, <1>8, <1>20 DEF ReadTrue, Draining
  <1>22. IdentTrue(h2, bk, d2) /\ WriteTrue(h2, bk, s, dk, d2) BY <1>8 DEF IdentTrue, WriteTrue
  <1>23. DiskTrue(dk, d2) BY <1>1, <1>8 DEF DiskTrue
  <1>. QED BY <1>9, <1>10, <1>15, <1>16, <1>21, <1>22, <1>23 DEF Good

\* SET CONFIG: the cartridge has the geometry the driver set.
LEMMA SetConfigGood ==
  ASSUME NEW h, NEW bk, NEW s, NEW dk, NEW p, NEW d, Good(h, bk, s, dk, p, d),
         d.pc = "cmd", d.op = "SETCFG",
         NEW h2, h2 = [h EXCEPT !.geo = [spt |-> h.count, heads |-> h.addr.head + 1]],
         NEW d2, d2 = [d EXCEPT !.pc = "idle"]
  PROVE Good(h2, bk, s, dk, p, d2)
  <1>1. Types(h, bk, s, dk, p, d) /\ DrvTrue(h, d) /\ PathTrue(h, s, p, d) /\ IdleTrue(h, d)
        /\ DiskTrue(dk, d) BY DEF Good
  <1>2. d \in Drivers /\ RegTypes(h) BY <1>1 DEF Types
  <1>. USE <1>2, DriverTypes
  <1>3. [spt |-> h.count, heads |-> h.addr.head + 1] = d.geo
    <2>1. d.geo \in AllGeometries BY GeometryAssumption DEF AllGeometries
    <2>2. d.geo = [spt |-> d.geo.spt, heads |-> d.geo.heads] BY <2>1 DEF AllGeometries
    <2>3. h.count = d.geo.spt /\ h.addr.head + 1 = d.geo.heads BY <1>1 DEF IdleTrue
    <2>. QED BY <2>2, <2>3
  <1>4. h2 = [h EXCEPT !.geo = d.geo] BY <1>3
  <1>5. RegTypes(h2) BY <1>4 DEF RegTypes, Registers
  <1>6. /\ h2.status = h.status /\ h2.rdPending = h.rdPending /\ h2.pfValid = h.pfValid
        /\ h2.st = h.st /\ h2.geo = d.geo /\ h2.resetting = h.resetting
        /\ h2.rstart = h.rstart /\ h2.wstart = h.wstart
        /\ h2.restart = h.restart /\ h2.wrPending = h.wrPending
    BY <1>4 DEF RegTypes, Registers
  <1>7. d2 \in Drivers BY DEF Drivers
  <1>8. d2.pc = "idle" /\ d2.op = d.op /\ d2.lba = d.lba /\ d2.n = d.n /\ d2.k = d.k
        /\ d2.w = d.w /\ d2.geo = d.geo /\ d2.ref = d.ref BY DEF Drivers
  <1>9. Types(h2, bk, s, dk, p, d2) BY <1>1, <1>5, <1>7 DEF Types
  <1>10. DrvTrue(h2, d2) BY <1>1, <1>6, <1>8 DEF DrvTrue
  <1>11. /\ Quiet(h) /\ ~h.rstart /\ ~h.wstart /\ ~h.restart /\ ~h.wrPending /\ ~Ours(h, s)
         /\ s.st = "ready" \/ Stray(h, s, d)
         /\ s.st = "done" => s.i = Words BY WhenQuiet
  <1>13. Quiet(h2) /\ ~Ours(h2, s) BY <1>6, <1>11 DEF Ours, Raised, Quiet
  <1>14. Stray(h, s, d) => Stray(h2, s, d2) BY <1>6, <1>8 DEF Stray
  <1>15. PathTrue(h2, s, p, d2) BY <1>6, <1>11, <1>13, <1>14 DEF PathTrue, Quiet
  <1>16. IdleTrue(h2, d2) BY <1>8, <1>13 DEF IdleTrue
  <1>17. ReadTrue(h2, bk, s, dk, d2) BY <1>8 DEF ReadTrue, Draining, Fetching
  <1>18. IdentTrue(h2, bk, d2) /\ WriteTrue(h2, bk, s, dk, d2) BY <1>8 DEF IdentTrue, WriteTrue
  <1>19. DiskTrue(dk, d2) BY <1>1, <1>8 DEF DiskTrue
  <1>. QED BY <1>9, <1>10, <1>15, <1>16, <1>17, <1>18, <1>19 DEF Good

\* WRITE: the cartridge is ready for words.
Opens(h, h2) ==
  h2 = [h EXCEPT !.off = 0, !.pfValid = FALSE, !.status = (h.status \cup {"DRQ"}) \ {"ERROR"}]

\* After a reset a stray fetch may fill the bank: hence the hypothesis.
LEMMA WriteGood ==
  ASSUME NEW h, NEW bk, NEW s, NEW dk, NEW p, NEW d, Good(h, bk, s, dk, p, d),
         d.pc = "cmd", d.op = "WRITE", "reset" \notin Upsets,
         NEW h2, Opens(h, h2),
         NEW d2, d2 = [d EXCEPT !.pc = "wait"]
  PROVE Good(h2, bk, s, dk, p, d2)
  <1>. USE DEF Opens
  <1>1. Types(h, bk, s, dk, p, d) /\ DrvTrue(h, d) /\ PathTrue(h, s, p, d) /\ IdleTrue(h, d)
        /\ DiskTrue(dk, d) BY DEF Good
  <1>2. d \in Drivers /\ RegTypes(h) BY <1>1 DEF Types
  <1>. USE <1>2, DriverTypes
  <1>11. /\ Quiet(h) /\ ~h.rstart /\ ~h.wstart /\ ~h.restart /\ ~h.wrPending /\ ~Ours(h, s)
         /\ s.st = "ready" \/ Stray(h, s, d)
         /\ s.st = "done" => s.i = Words BY WhenQuiet
  <1>3. PICK bits : bits = (h.status \cup {"DRQ"}) \ {"ERROR"} OBVIOUS
  <1>4. bits \subseteq Flags /\ "BUSY" \notin bits /\ "DRQ" \in bits /\ "ERROR" \notin bits
    BY <1>3, <1>11 DEF RegTypes, Flags, Quiet
  <1>5. RegTypes(h2) BY <1>3, <1>4, SizeAssumption DEF RegTypes, Registers, St, Idx
  <1>6. /\ h2.status = bits /\ ~h2.pfValid /\ h2.off = 0 /\ h2.st = h.st /\ h2.rdPending = h.rdPending
        /\ h2.count = h.count /\ h2.addr = h.addr /\ h2.geo = h.geo /\ h2.resetting = h.resetting
        /\ h2.rstart = h.rstart /\ h2.wstart = h.wstart
        /\ h2.restart = h.restart /\ h2.wrPending = h.wrPending
    BY <1>3 DEF RegTypes, Registers
  <1>7. d2 \in Drivers BY DEF Drivers
  <1>8. d2.pc = "wait" /\ d2.op = d.op /\ d2.lba = d.lba /\ d2.n = d.n /\ d2.k = d.k
        /\ d2.w = d.w /\ d2.geo = d.geo /\ d2.ref = d.ref BY DEF Drivers
  <1>9. Types(h2, bk, s, dk, p, d2) BY <1>1, <1>5, <1>7 DEF Types
  <1>10. DrvTrue(h2, d2) BY <1>1, <1>6, <1>8 DEF DrvTrue
  <1>12. /\ d.k = 0 /\ d.n > 0 /\ h.count = d.n /\ ~h.resetting /\ h.geo = d.geo /\ d.w = 0
         /\ At(h.addr, h.geo, d.lba) BY <1>1, <1>11 DEF DrvTrue, IdleTrue, Quiet
  <1>13. s.st = "ready" BY <1>11 DEF Stray
  <1>15. PathTrue(h2, s, p, d2) BY <1>6, <1>11, <1>13 DEF PathTrue, Ours, Quiet
  <1>16. IdleTrue(h2, d2) BY <1>6, <1>8, <1>12 DEF IdleTrue
  <1>17. ReadTrue(h2, bk, s, dk, d2) BY <1>8 DEF ReadTrue, Draining, Fetching
  <1>18. IdentTrue(h2, bk, d2) BY <1>8 DEF IdentTrue
  <1>19. \A j \in Idx : ~(j < 0) BY DEF Idx
  <1>20. d.lba + d.k = d.lba /\ d.n - d.k = d.n BY <1>12
  <1>21. WriteTrue(h2, bk, s, dk, d2)
    BY <1>4, <1>6, <1>8, <1>11, <1>12, <1>19, <1>20 DEF WriteTrue, Quiet
  <1>23. DiskTrue(dk, d2) BY <1>1, <1>8 DEF DiskTrue
  <1>. QED BY <1>9, <1>10, <1>15, <1>16, <1>17, <1>18, <1>21, <1>23 DEF Good

\* IDENTIFY, with the same hypothesis.
Names(h, h2) ==
  h2 = [h EXCEPT !.fill = 0, !.pfValid = FALSE, !.st = "ID_FILL",
                 !.status = (h.status \cup {"BUSY"}) \ {"DRQ"}]

LEMMA IdentGood ==
  ASSUME NEW h, NEW bk, NEW s, NEW dk, NEW p, NEW d, Good(h, bk, s, dk, p, d),
         d.pc = "cmd", d.op = "IDENT", "reset" \notin Upsets,
         NEW h2, Names(h, h2),
         NEW d2, d2 = [d EXCEPT !.pc = "wait"]
  PROVE Good(h2, bk, s, dk, p, d2)
  <1>. USE DEF Names
  <1>1. Types(h, bk, s, dk, p, d) /\ DrvTrue(h, d) /\ PathTrue(h, s, p, d) /\ IdleTrue(h, d)
        /\ DiskTrue(dk, d) BY DEF Good
  <1>2. d \in Drivers /\ RegTypes(h) BY <1>1 DEF Types
  <1>. USE <1>2, DriverTypes
  <1>11. /\ Quiet(h) /\ ~h.rstart /\ ~h.wstart /\ ~h.restart /\ ~h.wrPending /\ ~Ours(h, s)
         /\ s.st = "ready" \/ Stray(h, s, d)
         /\ s.st = "done" => s.i = Words BY WhenQuiet
  <1>3. PICK bits : bits = (h.status \cup {"BUSY"}) \ {"DRQ"} OBVIOUS
  <1>4. bits \subseteq Flags /\ "BUSY" \in bits
    BY <1>3 DEF RegTypes, Flags
  <1>5. RegTypes(h2) BY <1>3, <1>4, SizeAssumption DEF RegTypes, Registers, St, Idx
  <1>6. /\ h2.status = bits /\ ~h2.pfValid /\ h2.fill = 0 /\ h2.st = "ID_FILL" /\ h2.rdPending = h.rdPending
        /\ h2.addr = h.addr /\ h2.geo = h.geo /\ h2.resetting = h.resetting
        /\ h2.rstart = h.rstart /\ h2.wstart = h.wstart
        /\ h2.restart = h.restart /\ h2.wrPending = h.wrPending
    BY <1>3 DEF RegTypes, Registers
  <1>7. d2 \in Drivers BY DEF Drivers
  <1>8. d2.pc = "wait" /\ d2.op = d.op /\ d2.lba = d.lba /\ d2.n = d.n /\ d2.k = d.k
        /\ d2.w = d.w /\ d2.geo = d.geo /\ d2.ref = d.ref BY DEF Drivers
  <1>9. Types(h2, bk, s, dk, p, d2) BY <1>1, <1>5, <1>7 DEF Types
  <1>10. DrvTrue(h2, d2) BY <1>1, <1>6, <1>8 DEF DrvTrue
  <1>12. ~h.resetting /\ h.geo = d.geo /\ d.lba = 0 /\ At(h.addr, h.geo, 0)
    BY <1>1, <1>11 DEF DrvTrue, IdleTrue, Quiet
  <1>13. s.st = "ready" BY <1>11 DEF Stray
  <1>15. PathTrue(h2, s, p, d2) BY <1>6, <1>11, <1>13 DEF PathTrue, Ours
  <1>16. IdleTrue(h2, d2) BY <1>6, <1>8, <1>12 DEF IdleTrue
  <1>17. ReadTrue(h2, bk, s, dk, d2) BY <1>8 DEF ReadTrue, Draining, Fetching
  <1>18. WriteTrue(h2, bk, s, dk, d2) BY <1>8 DEF WriteTrue
  <1>19. \A j \in Idx : ~(j < 0) BY DEF Idx
  <1>21. IdentTrue(h2, bk, d2)
    BY <1>4, <1>6, <1>8, <1>11, <1>12, <1>19, SizeAssumption DEF IdentTrue, Quiet
  <1>23. DiskTrue(dk, d2) BY <1>1, <1>8 DEF DiskTrue
  <1>. QED BY <1>9, <1>10, <1>15, <1>16, <1>17, <1>18, <1>21, <1>23 DEF Good

\* The driver has seen DRQ.
LEMMA WaitGood ==
  ASSUME NEW h, NEW bk, NEW s, NEW dk, NEW p, NEW d, Good(h, bk, s, dk, p, d),
         d.pc = "wait", "BUSY" \notin h.status,
         NEW d2, d2 = [d EXCEPT !.pc = "data"]
  PROVE Good(h, bk, s, dk, p, d2)
  <1>1. Types(h, bk, s, dk, p, d) /\ DrvTrue(h, d) /\ PathTrue(h, s, p, d) /\ IdleTrue(h, d)
        /\ ReadTrue(h, bk, s, dk, d) /\ IdentTrue(h, bk, d) /\ WriteTrue(h, bk, s, dk, d)
        /\ DiskTrue(dk, d) BY DEF Good
  <1>2. d \in Drivers /\ RegTypes(h) BY <1>1 DEF Types
  <1>. USE <1>2, DriverTypes
  <1>7. d2 \in Drivers BY DEF Drivers
  <1>8. d2.pc = "data" /\ d2.op = d.op /\ d2.lba = d.lba /\ d2.n = d.n /\ d2.k = d.k
        /\ d2.w = d.w /\ d2.geo = d.geo /\ d2.ref = d.ref BY DEF Drivers
  <1>9. Types(h, bk, s, dk, p, d2) BY <1>1, <1>7 DEF Types
  <1>10. DrvTrue(h, d2) BY <1>1, <1>8 DEF DrvTrue
  <1>11. ~Stray(h, s, d) BY DEF Stray
  <1>12. PathTrue(h, s, p, d2) BY <1>1, <1>11 DEF PathTrue
  <1>13. IdleTrue(h, d2) BY <1>8 DEF IdleTrue
  <1>14. (Draining(h, d2) <=> Draining(h, d)) /\ ~Fetching(h, d2) BY <1>8 DEF Draining, Fetching
  <1>15. UpNext(h, d2) = UpNext(h, d) BY <1>8 DEF UpNext
  <1>16. \A left : Ahead(h, bk, s, dk, d, left) => Ahead(h, bk, s, dk, d2, left)
    BY <1>15 DEF Ahead
  <1>17. ReadTrue(h, bk, s, dk, d2) BY <1>1, <1>8, <1>14, <1>16 DEF ReadTrue
  <1>18. IdentTrue(h, bk, d2) BY <1>1, <1>8 DEF IdentTrue
  <1>19. WriteTrue(h, bk, s, dk, d2) BY <1>1, <1>8 DEF WriteTrue
  <1>23. DiskTrue(dk, d2) BY <1>1, <1>8 DEF DiskTrue
  <1>. QED BY <1>9, <1>10, <1>12, <1>13, <1>17, <1>18, <1>19, <1>23 DEF Good

\* It reads a word that is not the last of its sector.
LEMMA ReadOnGood ==
  ASSUME NEW h, NEW bk, NEW s, NEW dk, NEW p, NEW d, Good(h, bk, s, dk, p, d),
         d.pc = "data", d.op # "WRITE", d.w < Words - 1,
         NEW h2, h2 = [h EXCEPT !.off = h.off + 1], NEW d2, d2 = [d EXCEPT !.w = d.w + 1]
  PROVE Good(h2, bk, s, dk, p, d2)
  <1>1. Types(h, bk, s, dk, p, d) /\ DrvTrue(h, d) /\ PathTrue(h, s, p, d) /\ IdleTrue(h, d)
        /\ ReadTrue(h, bk, s, dk, d) /\ IdentTrue(h, bk, d) /\ WriteTrue(h, bk, s, dk, d)
        /\ DiskTrue(dk, d) BY DEF Good
  <1>2. d \in Drivers /\ RegTypes(h) BY <1>1 DEF Types
  <1>. USE <1>2, DriverTypes
  <1>3. d.op = "READ" \/ d.op = "IDENT" BY <1>1 DEF DrvTrue
  <1>4. h.off = d.w BY <1>1, <1>3 DEF ReadTrue, Draining, IdentTrue
  <1>5. PICK w \in Idx : w = d.w + 1 BY SizeAssumption DEF Idx
  <1>6. h2 = [h EXCEPT !.off = w] /\ d2 = [d EXCEPT !.w = w] BY <1>4, <1>5
  <1>7. d2 \in Drivers BY <1>6 DEF Drivers
  <1>8. d2.pc = d.pc /\ d2.op = d.op /\ d2.lba = d.lba /\ d2.n = d.n /\ d2.k = d.k
        /\ d2.w = w /\ d2.geo = d.geo /\ d2.ref = d.ref BY <1>6 DEF Drivers
  <1>9. RegTypes(h2) BY <1>6 DEF RegTypes, Registers
  <1>10. /\ h2.off = w /\ h2.status = h.status /\ h2.resetting = h.resetting /\ h2.st = h.st
         /\ h2.rstart = h.rstart /\ h2.wstart = h.wstart /\ h2.count = h.count /\ h2.cur = h.cur
         /\ h2.fbank = h.fbank /\ h2.rdPending = h.rdPending /\ h2.pfValid = h.pfValid
         /\ h2.restart = h.restart /\ h2.wrPending = h.wrPending /\ h2.pfBank = h.pfBank
         /\ h2.geo = h.geo /\ h2.addr = h.addr /\ h2.sector = h.sector /\ h2.lbaT = h.lbaT
         /\ h2.fill = h.fill
    BY <1>6 DEF RegTypes, Registers
  <1>11. Types(h2, bk, s, dk, p, d2) BY <1>1, <1>7, <1>9 DEF Types
  <1>12. DrvTrue(h2, d2) BY <1>1, <1>8, <1>10 DEF DrvTrue
  <1>13. Ours(h2, s) <=> Ours(h, s) BY <1>10 DEF Ours, Raised
  <1>14. ~Stray(h, s, d) BY DEF Stray
  <1>15. PathTrue(h2, s, p, d2) BY <1>1, <1>10, <1>13, <1>14 DEF PathTrue, Raised
  <1>16. IdleTrue(h2, d2) BY <1>8 DEF IdleTrue
  <1>17. (Draining(h2, d2) <=> Draining(h, d)) /\ ~Fetching(h2, d2)
    BY <1>8, <1>10 DEF Draining, Fetching
  <1>18. UpNext(h2, d2) = UpNext(h, d) BY <1>8, <1>10 DEF UpNext
  <1>19. \A l : Going(h, l) => Going(h2, l) BY <1>10 DEF Going
  <1>20. \A left : Ahead(h, bk, s, dk, d, left) => Ahead(h2, bk, s, dk, d2, left)
    BY <1>10, <1>13, <1>18, <1>19 DEF Ahead
  <1>21. ReadTrue(h2, bk, s, dk, d2) BY <1>1, <1>8, <1>10, <1>17, <1>20 DEF ReadTrue
  <1>22. IdentTrue(h2, bk, d2) BY <1>1, <1>8, <1>10 DEF IdentTrue
  <1>23. WriteTrue(h2, bk, s, dk, d2) BY <1>8 DEF WriteTrue
  <1>24. DiskTrue(dk, d2) BY <1>1, <1>8 DEF DiskTrue
  <1>. QED BY <1>11, <1>12, <1>15, <1>16, <1>21, <1>22, <1>23, <1>24 DEF Good

\* It reads the last word of a sector, with another to come.
LEMMA ReadMoreGood ==
  ASSUME NEW h, NEW bk, NEW s, NEW dk, NEW p, NEW d, Good(h, bk, s, dk, p, d),
         d.pc = "data", d.op = "READ", d.k < d.n - 1,
         NEW h2, h2 = [h EXCEPT !.off = 0, !.rdPending = TRUE,
                                !.status = (h.status \ {"DRQ"}) \cup {"BUSY"}],
         NEW d2, d2 = [d EXCEPT !.w = 0, !.k = d.k + 1, !.pc = "wait"]
  PROVE Good(h2, bk, s, dk, p, d2)
  <1>1. Types(h, bk, s, dk, p, d) /\ DrvTrue(h, d) /\ PathTrue(h, s, p, d) /\ IdleTrue(h, d)
        /\ ReadTrue(h, bk, s, dk, d) /\ IdentTrue(h, bk, d) /\ WriteTrue(h, bk, s, dk, d)
        /\ DiskTrue(dk, d) BY DEF Good
  <1>2. d \in Drivers /\ RegTypes(h) BY <1>1 DEF Types
  <1>. USE <1>2, DriverTypes
  <1>3. Draining(h, d) BY DEF Draining
  <1>4. PICK k \in Nat : k = d.k + 1 OBVIOUS
  <1>5. PICK bits : bits = (h.status \ {"DRQ"}) \cup {"BUSY"} OBVIOUS
  <1>b. bits \subseteq Flags /\ "BUSY" \in bits /\ "DRQ" \notin bits /\ 0 \in Idx
    BY <1>5, SizeAssumption DEF RegTypes, Flags, Idx
  <1>6. h2 = [h EXCEPT !.off = 0, !.rdPending = TRUE, !.status = bits]
        /\ d2 = [d EXCEPT !.w = 0, !.k = k, !.pc = "wait"] BY <1>4, <1>5
  <1>7. d2 \in Drivers BY <1>b, <1>6 DEF Drivers
  <1>8. d2.pc = "wait" /\ d2.op = d.op /\ d2.lba = d.lba /\ d2.n = d.n /\ d2.k = k
        /\ d2.w = 0 /\ d2.geo = d.geo /\ d2.ref = d.ref BY <1>6 DEF Drivers
  <1>9. RegTypes(h2) BY <1>6, <1>b DEF RegTypes, Registers
  <1>10. /\ h2.off = 0 /\ h2.status = bits /\ h2.resetting = h.resetting /\ h2.st = h.st
         /\ h2.rstart = h.rstart /\ h2.wstart = h.wstart /\ h2.count = h.count /\ h2.cur = h.cur
         /\ h2.fbank = h.fbank /\ h2.rdPending /\ h2.pfValid = h.pfValid
         /\ h2.restart = h.restart /\ h2.wrPending = h.wrPending /\ h2.pfBank = h.pfBank
         /\ h2.geo = h.geo /\ h2.addr = h.addr /\ h2.sector = h.sector /\ h2.lbaT = h.lbaT
    BY <1>6 DEF RegTypes, Registers
  <1>11. Types(h2, bk, s, dk, p, d2) BY <1>1, <1>7, <1>9 DEF Types
  <1>12. DrvTrue(h2, d2) BY <1>1, <1>4, <1>8, <1>10 DEF DrvTrue
  <1>13. Ours(h2, s) <=> Ours(h, s) BY <1>10 DEF Ours, Raised
  <1>14. ~Stray(h, s, d) BY DEF Stray
  <1>15. PathTrue(h2, s, p, d2) BY <1>1, <1>10, <1>13, <1>14 DEF PathTrue, Raised
  <1>16. ~h.resetting BY <1>1, <1>3 DEF ReadTrue, Ahead
  <1>17. IdleTrue(h2, d2) BY <1>8, <1>10, <1>16 DEF IdleTrue
  <1>18. UpNext(h2, d2) = UpNext(h, d) BY <1>8, <1>10 DEF UpNext
  <1>19. \A l : Going(h, l) => Going(h2, l) BY <1>10 DEF Going
  <1>20. \A left : Ahead(h, bk, s, dk, d, left) => Ahead(h2, bk, s, dk, d2, left)
    BY <1>10, <1>13, <1>18, <1>19 DEF Ahead
  <1>21. d.n - d.k - 1 = d2.n - d2.k BY <1>4, <1>8
  <1>22. ReadTrue(h2, bk, s, dk, d2)
    BY <1>1, <1>3, <1>8, <1>b, <1>10, <1>20, <1>21 DEF ReadTrue, Draining
  <1>23. IdentTrue(h2, bk, d2) /\ WriteTrue(h2, bk, s, dk, d2) BY <1>8 DEF IdentTrue, WriteTrue
  <1>24. DiskTrue(dk, d2) BY <1>1, <1>8 DEF DiskTrue
  <1>. QED BY <1>11, <1>12, <1>15, <1>17, <1>22, <1>23, <1>24 DEF Good

\* It reads the last word of the last sector: nothing is left on its way.
LEMMA ReadEndGood ==
  ASSUME NEW h, NEW bk, NEW s, NEW dk, NEW p, NEW d, Good(h, bk, s, dk, p, d),
         d.pc = "data", d.op = "READ", ~(d.k < d.n - 1),
         NEW h2, h2 = [h EXCEPT !.off = 0, !.status = h.status \ {"DRQ", "BUSY"}],
         NEW d2, d2 = [d EXCEPT !.pc = "idle"]
  PROVE /\ Good(h2, bk, s, dk, p, d2)
        /\ h.st = "IDLE" /\ ~h.pfValid /\ h.count = 0
  <1>1. Types(h, bk, s, dk, p, d) /\ DrvTrue(h, d) /\ PathTrue(h, s, p, d) /\ IdleTrue(h, d)
        /\ ReadTrue(h, bk, s, dk, d) /\ IdentTrue(h, bk, d) /\ WriteTrue(h, bk, s, dk, d)
        /\ DiskTrue(dk, d) BY DEF Good
  <1>2. d \in Drivers /\ RegTypes(h) BY <1>1 DEF Types
  <1>. USE <1>2, DriverTypes
  <1>3. Draining(h, d) BY DEF Draining
  <1>4. d.n - d.k - 1 = 0 BY <1>1 DEF DrvTrue
  <1>5. Ahead(h, bk, s, dk, d, 0) BY <1>1, <1>3, <1>4 DEF ReadTrue
  <1>6. h.count \in Nat BY DEF RegTypes
  <1>7. h.st = "IDLE" /\ ~h.pfValid /\ h.count = 0 /\ ~h.resetting BY <1>5, <1>6 DEF Ahead
  <1>8. ~h.rdPending BY <1>1, <1>3 DEF ReadTrue
  <1>9. PICK bits : bits = h.status \ {"DRQ", "BUSY"} OBVIOUS
  <1>10. bits \subseteq Flags /\ "BUSY" \notin bits /\ 0 \in Idx
    BY <1>9, SizeAssumption DEF RegTypes, Flags, Idx
  <1>11. RegTypes(h2) BY <1>9, <1>10 DEF RegTypes, Registers
  <1>12. /\ h2.status = bits /\ h2.resetting = h.resetting /\ h2.st = h.st
         /\ h2.rstart = h.rstart /\ h2.wstart = h.wstart
         /\ h2.rdPending = h.rdPending /\ h2.pfValid = h.pfValid
         /\ h2.restart = h.restart /\ h2.wrPending = h.wrPending
         /\ h2.geo = h.geo
    BY <1>9 DEF RegTypes, Registers
  <1>13. d2 \in Drivers BY DEF Drivers
  <1>14. d2.pc = "idle" /\ d2.op = d.op /\ d2.lba = d.lba /\ d2.n = d.n /\ d2.k = d.k
        /\ d2.w = d.w /\ d2.geo = d.geo /\ d2.ref = d.ref BY DEF Drivers
  <1>15. Types(h2, bk, s, dk, p, d2) BY <1>1, <1>11, <1>13 DEF Types
  <1>16. DrvTrue(h2, d2) BY <1>1, <1>12, <1>14 DEF DrvTrue
  <1>17. s.st = "ready" /\ ~h.rstart /\ ~h.wstart BY <1>1, <1>7 DEF PathTrue, Ours, Raised, Stray
  <1>18. PathTrue(h2, s, p, d2) BY <1>1, <1>7, <1>12, <1>17 DEF PathTrue, Ours
  <1>19. Quiet(h2) BY <1>7, <1>8, <1>10, <1>12 DEF Quiet
  <1>20. IdleTrue(h2, d2) BY <1>14, <1>19 DEF IdleTrue
  <1>21. ReadTrue(h2, bk, s, dk, d2) BY <1>14, <1>19 DEF ReadTrue, Fetching, Draining, Quiet
  <1>22. IdentTrue(h2, bk, d2) /\ WriteTrue(h2, bk, s, dk, d2) BY <1>14 DEF IdentTrue, WriteTrue
  <1>23. DiskTrue(dk, d2) BY <1>1, <1>14 DEF DiskTrue
  <1>. QED BY <1>7, <1>15, <1>16, <1>18, <1>20, <1>21, <1>22, <1>23 DEF Good

\* It reads IDENTIFY's last word: the cartridge goes on as after a sector with
\* another to come, and fetches sector 0 that nobody has asked for.
LEMMA IdentEndGood ==
  ASSUME NEW h, NEW bk, NEW s, NEW dk, NEW p, NEW d, Good(h, bk, s, dk, p, d),
         d.pc = "data", d.op = "IDENT",
         NEW h2, h2 = [h EXCEPT !.off = 0, !.rdPending = TRUE,
                                !.status = (h.status \ {"DRQ"}) \cup {"BUSY"},
                                !.fbank = 1 - h.cur, !.st = "RD_LBA1"],
         NEW d2, d2 = [d EXCEPT !.pc = "idle"]
  PROVE /\ Good(h2, bk, s, dk, p, d2)
        /\ ~(d.k < d.n - 1) /\ h.st = "IDLE" /\ ~h.pfValid /\ h.count = 1
  <1>1. Types(h, bk, s, dk, p, d) /\ DrvTrue(h, d) /\ PathTrue(h, s, p, d) /\ IdleTrue(h, d)
        /\ ReadTrue(h, bk, s, dk, d) /\ IdentTrue(h, bk, d) /\ WriteTrue(h, bk, s, dk, d)
        /\ DiskTrue(dk, d) BY DEF Good
  <1>2. d \in Drivers /\ RegTypes(h) BY <1>1 DEF Types
  <1>. USE <1>2, DriverTypes
  <1>3. /\ h.st = "IDLE" /\ h.count = 1 /\ ~h.rdPending /\ ~h.pfValid /\ ~h.resetting
        /\ At(h.addr, h.geo, 0) BY <1>1 DEF IdentTrue
  <1>4. d.lba = 0 /\ d.n = 1 /\ d.k = 0 BY <1>1 DEF DrvTrue
  <1>5. PICK bits, b : bits = (h.status \ {"DRQ"}) \cup {"BUSY"} /\ b = 1 - h.cur OBVIOUS
  <1>6. bits \subseteq Flags /\ "BUSY" \in bits /\ "DRQ" \notin bits /\ 0 \in Idx /\ b \in {0, 1}
    BY <1>5, SizeAssumption DEF RegTypes, Flags, Idx
  <1>7. h2 = [h EXCEPT !.off = 0, !.rdPending = TRUE, !.status = bits, !.fbank = b, !.st = "RD_LBA1"]
    BY <1>5
  <1>8. RegTypes(h2) BY <1>6, <1>7 DEF RegTypes, Registers, St
  <1>9. /\ h2.status = bits /\ h2.resetting = h.resetting /\ h2.st = "RD_LBA1"
        /\ h2.rstart = h.rstart /\ h2.wstart = h.wstart /\ h2.count = h.count /\ h2.addr = h.addr
        /\ h2.rdPending /\ h2.pfValid = h.pfValid
        /\ h2.restart = h.restart /\ h2.wrPending = h.wrPending
        /\ h2.geo = h.geo
    BY <1>7 DEF RegTypes, Registers
  <1>13. d2 \in Drivers BY DEF Drivers
  <1>14. d2.pc = "idle" /\ d2.op = d.op /\ d2.lba = d.lba /\ d2.n = d.n /\ d2.k = d.k
        /\ d2.w = d.w /\ d2.geo = d.geo /\ d2.ref = d.ref BY DEF Drivers
  <1>15. Types(h2, bk, s, dk, p, d2) BY <1>1, <1>8, <1>13 DEF Types
  <1>16. DrvTrue(h2, d2) BY <1>1, <1>9, <1>14 DEF DrvTrue
  <1>17. s.st = "ready" /\ ~h.rstart /\ ~h.wstart BY <1>1, <1>3 DEF PathTrue, Ours, Raised, Stray
  <1>18. PathTrue(h2, s, p, d2) BY <1>1, <1>3, <1>9, <1>17 DEF PathTrue, Ours
  <1>19. Fetching(h2, d2) /\ ~Draining(h2, d2) BY <1>3, <1>6, <1>9, <1>14 DEF Fetching, Draining
  <1>20. IdleTrue(h2, d2) BY <1>14, <1>19 DEF IdleTrue
  <1>21. UpNext(h2, d2) = 0 /\ d2.n - d2.k = 1 BY <1>3, <1>4, <1>9, <1>14 DEF UpNext
  <1>22. Going(h2, 0) BY <1>3, <1>9 DEF Going
  <1>23. Ahead(h2, bk, s, dk, d2, 1)
    BY <1>3, <1>9, <1>17, <1>21, <1>22 DEF Ahead, Reads, Going, Ours
  <1>24. ReadTrue(h2, bk, s, dk, d2) BY <1>6, <1>9, <1>19, <1>21, <1>23 DEF ReadTrue
  <1>25. IdentTrue(h2, bk, d2) /\ WriteTrue(h2, bk, s, dk, d2) BY <1>14 DEF IdentTrue, WriteTrue
  <1>26. DiskTrue(dk, d2) BY <1>1, <1>14 DEF DiskTrue
  <1>. QED BY <1>3, <1>4, <1>15, <1>16, <1>18, <1>20, <1>24, <1>25, <1>26 DEF Good

\* While words are written, and when the sector is on the card, nothing goes on.
LEMMA WhenWritten ==
  ASSUME NEW h, NEW bk, NEW s, NEW dk, NEW p, NEW d, Good(h, bk, s, dk, p, d),
         d.op = "WRITE", d.pc = "data" \/ (d.pc = "fin" /\ "BUSY" \notin h.status)
  PROVE /\ h.st = "IDLE" /\ "BUSY" \notin h.status /\ "DRQ" \in h.status
        /\ ~h.rdPending /\ ~h.pfValid /\ ~h.resetting
        /\ s.st = "ready" /\ ~h.rstart /\ ~h.wstart
        /\ d.lba + d.k \in Lba
  <1>1. Types(h, bk, s, dk, p, d) /\ DrvTrue(h, d) /\ PathTrue(h, s, p, d)
        /\ WriteTrue(h, bk, s, dk, d) BY DEF Good
  <1>2. d \in Drivers BY <1>1 DEF Types
  <1>. USE <1>2, DriverTypes
  <1>3. /\ h.st = "IDLE" /\ "BUSY" \notin h.status /\ "DRQ" \in h.status
        /\ ~h.rdPending /\ ~h.pfValid /\ ~h.resetting BY <1>1 DEF WriteTrue
  <1>4. s.st = "ready" /\ ~h.rstart /\ ~h.wstart BY <1>1, <1>3 DEF PathTrue, Ours, Raised, Stray
  <1>5. d.lba + d.k \in Lba BY <1>1, SizeAssumption DEF DrvTrue, Lba
  <1>. QED BY <1>3, <1>4, <1>5

\* The word that is written.
Puts(h, bk, d, bk2) ==
  bk2 = [bk EXCEPT ![h.cur][h.off] = <<d.lba + d.k, d.w, 1 - d.ref[d.lba + d.k]>>]

LEMMA PutsRight ==
  ASSUME NEW h, NEW bk, NEW s, NEW dk, NEW p, NEW d, Good(h, bk, s, dk, p, d),
         d.pc = "data", d.op = "WRITE", NEW bk2, Puts(h, bk, d, bk2)
  PROVE /\ bk2 \in [{0, 1} -> [Idx -> Word]]
        /\ h.off = d.w
        /\ \A j \in Idx : j < d.w + 1 =>
             bk2[h.cur][j] = Sector(d.lba + d.k, 1 - d.ref[d.lba + d.k])[j]
  <1>1. Types(h, bk, s, dk, p, d) /\ WriteTrue(h, bk, s, dk, d) BY DEF Good
  <1>2. d \in Drivers /\ RegTypes(h) /\ bk \in [{0, 1} -> [Idx -> Word]] BY <1>1 DEF Types
  <1>3. h.cur \in {0, 1} BY <1>2 DEF RegTypes
  <1>4. d.lba + d.k \in Lba BY WhenWritten
  <1>l. PICK l \in Lba : l = d.lba + d.k BY <1>4
  <1>n. PICK new : new = Sector(l, 1 - d.ref[l]) OBVIOUS
  <1>5. l = d.lba + d.k /\ new = Sector(l, 1 - d.ref[l]) BY <1>l, <1>n
  <1>6. h.off = d.w /\ \A j \in Idx : j < d.w => bk[h.cur][j] = new[j]
    BY <1>1, <1>5 DEF WriteTrue
  <1>7. d.w \in Idx /\ d.w \in Nat BY <1>2, SizeAssumption DEF Drivers, Idx
  <1>8. d.ref[l] \in {0, 1} BY <1>2 DEF Drivers
  <1>9. PICK word \in Word : word = <<l, d.w, 1 - d.ref[l]>>
    <2>1. <<l, d.w, 1 - d.ref[l]>> \in Lba \X Idx \X {0, 1} BY <1>7, <1>8
    <2>. QED BY <2>1 DEF Word
  <1>10. word = new[d.w] BY <1>5, <1>7, <1>9 DEF Sector
  <1>11. PICK old \in [Idx -> Word] : old = bk[h.cur] BY <1>2, <1>3
  <1>12. bk2 = [bk EXCEPT ![h.cur] = [old EXCEPT ![d.w] = word]]
    BY <1>3, <1>5, <1>6, <1>9, <1>11 DEF Puts
  <1>13. bk2 \in [{0, 1} -> [Idx -> Word]] /\ bk2[h.cur] = [old EXCEPT ![d.w] = word]
    BY <1>2, <1>3, <1>7, <1>11, <1>12
  <1>14. \A j \in Idx : j < d.w + 1 => j < d.w \/ j = d.w BY <1>7 DEF Idx
  <1>15. \A j \in Idx : j < d.w + 1 => bk2[h.cur][j] = new[j]
    BY <1>6, <1>7, <1>10, <1>11, <1>13, <1>14
  <1>. QED BY <1>5, <1>6, <1>13, <1>15

\* It writes a word that is not the last; the last; and it sees that the sector
\* was refused or is on the card.
LEMMA WriteOnGood ==
  ASSUME NEW h, NEW bk, NEW s, NEW dk, NEW p, NEW d, Good(h, bk, s, dk, p, d),
         d.pc = "data", d.op = "WRITE", d.w < Words - 1, NEW bk2, Puts(h, bk, d, bk2),
         NEW h2, h2 = [h EXCEPT !.off = h.off + 1], NEW d2, d2 = [d EXCEPT !.w = d.w + 1]
  PROVE Good(h2, bk2, s, dk, p, d2)
  <1>1. Types(h, bk, s, dk, p, d) /\ DrvTrue(h, d) /\ PathTrue(h, s, p, d) /\ IdleTrue(h, d)
        /\ WriteTrue(h, bk, s, dk, d) /\ DiskTrue(dk, d) BY DEF Good
  <1>2. d \in Drivers /\ RegTypes(h) BY <1>1 DEF Types
  <1>. USE <1>2, DriverTypes
  <1>3. /\ bk2 \in [{0, 1} -> [Idx -> Word]] /\ h.off = d.w
        /\ \A j \in Idx : j < d.w + 1 =>
             bk2[h.cur][j] = Sector(d.lba + d.k, 1 - d.ref[d.lba + d.k])[j] BY PutsRight
  <1>4. /\ h.st = "IDLE" /\ s.st = "ready" /\ ~h.rstart /\ ~h.wstart BY WhenWritten
  <1>5. PICK w \in Idx : w = d.w + 1 BY SizeAssumption DEF Idx
  <1>6. h2 = [h EXCEPT !.off = w] /\ d2 = [d EXCEPT !.w = w] BY <1>3, <1>5
  <1>7. d2 \in Drivers BY <1>6 DEF Drivers
  <1>8. d2.pc = d.pc /\ d2.op = d.op /\ d2.lba = d.lba /\ d2.n = d.n /\ d2.k = d.k
        /\ d2.w = w /\ d2.geo = d.geo /\ d2.ref = d.ref BY <1>6 DEF Drivers
  <1>9. RegTypes(h2) BY <1>6 DEF RegTypes, Registers
  <1>10. /\ h2.off = w /\ h2.status = h.status /\ h2.resetting = h.resetting /\ h2.st = h.st
         /\ h2.rstart = h.rstart /\ h2.wstart = h.wstart /\ h2.count = h.count /\ h2.cur = h.cur
         /\ h2.rdPending = h.rdPending /\ h2.pfValid = h.pfValid
         /\ h2.restart = h.restart /\ h2.wrPending = h.wrPending
         /\ h2.geo = h.geo /\ h2.addr = h.addr
    BY <1>6 DEF RegTypes, Registers
  <1>11. Types(h2, bk2, s, dk, p, d2) BY <1>1, <1>3, <1>7, <1>9 DEF Types
  <1>12. DrvTrue(h2, d2) BY <1>1, <1>8, <1>10 DEF DrvTrue
  <1>13. PathTrue(h2, s, p, d2) BY <1>1, <1>4, <1>10 DEF PathTrue, Ours
  <1>14. IdleTrue(h2, d2) BY <1>8 DEF IdleTrue
  <1>15. ReadTrue(h2, bk2, s, dk, d2) /\ IdentTrue(h2, bk2, d2)
    BY <1>8 DEF ReadTrue, Draining, Fetching, IdentTrue
  <1>16. WriteTrue(h2, bk2, s, dk, d2) BY <1>1, <1>3, <1>5, <1>8, <1>10 DEF WriteTrue
  <1>17. DiskTrue(dk, d2) BY <1>1, <1>8 DEF DiskTrue
  <1>. QED BY <1>11, <1>12, <1>13, <1>14, <1>15, <1>16, <1>17 DEF Good

LEMMA WriteEndGood ==
  ASSUME NEW h, NEW bk, NEW s, NEW dk, NEW p, NEW d, Good(h, bk, s, dk, p, d),
         d.pc = "data", d.op = "WRITE", ~(d.w < Words - 1), NEW bk2, Puts(h, bk, d, bk2),
         NEW h2, h2 = [h EXCEPT !.off = 0, !.status = (h.status \ {"DRQ"}) \cup {"BUSY"},
                                !.st = "WR_LBA1"],
         NEW d2, d2 = [d EXCEPT !.pc = "fin"]
  PROVE Good(h2, bk2, s, dk, p, d2)
  <1>1. Types(h, bk, s, dk, p, d) /\ DrvTrue(h, d) /\ PathTrue(h, s, p, d) /\ IdleTrue(h, d)
        /\ WriteTrue(h, bk, s, dk, d) /\ DiskTrue(dk, d) BY DEF Good
  <1>2. d \in Drivers /\ RegTypes(h) BY <1>1 DEF Types
  <1>. USE <1>2, DriverTypes
  <1>3. /\ bk2 \in [{0, 1} -> [Idx -> Word]]
        /\ \A j \in Idx : j < d.w + 1 =>
             bk2[h.cur][j] = Sector(d.lba + d.k, 1 - d.ref[d.lba + d.k])[j] BY PutsRight
  <1>4. /\ h.st = "IDLE" /\ s.st = "ready" /\ ~h.rstart /\ ~h.wstart /\ d.lba + d.k \in Lba
    BY WhenWritten
  <1>5. PICK bits : bits = (h.status \ {"DRQ"}) \cup {"BUSY"} OBVIOUS
  <1>e. /\ "ERROR" \notin h.status /\ h.count = d.n - d.k /\ At(h.addr, h.geo, d.lba + d.k)
        /\ ~h.rdPending /\ ~h.pfValid /\ ~h.resetting BY <1>1 DEF WriteTrue
  <1>6. bits \subseteq Flags /\ "BUSY" \in bits /\ "ERROR" \notin bits /\ 0 \in Idx
    BY <1>5, <1>e, SizeAssumption DEF RegTypes, Flags, Idx
  <1>7. d2 \in Drivers BY DEF Drivers
  <1>8. d2.pc = "fin" /\ d2.op = d.op /\ d2.lba = d.lba /\ d2.n = d.n /\ d2.k = d.k
        /\ d2.w = d.w /\ d2.geo = d.geo /\ d2.ref = d.ref BY DEF Drivers
  <1>9. RegTypes(h2) BY <1>5, <1>6 DEF RegTypes, Registers, St
  <1>10. /\ h2.off = 0 /\ h2.status = bits /\ h2.resetting = h.resetting /\ h2.st = "WR_LBA1"
         /\ h2.rstart = h.rstart /\ h2.wstart = h.wstart /\ h2.count = h.count /\ h2.cur = h.cur
         /\ h2.rdPending = h.rdPending /\ h2.pfValid = h.pfValid
         /\ h2.restart = h.restart /\ h2.wrPending = h.wrPending
         /\ h2.geo = h.geo /\ h2.addr = h.addr
    BY <1>5 DEF RegTypes, Registers
  <1>11. Types(h2, bk2, s, dk, p, d2) BY <1>1, <1>3, <1>7, <1>9 DEF Types
  <1>12. DrvTrue(h2, d2) BY <1>1, <1>8, <1>10 DEF DrvTrue
  <1>13. PathTrue(h2, s, p, d2) BY <1>1, <1>4, <1>10 DEF PathTrue, Ours
  <1>14. IdleTrue(h2, d2) BY <1>8 DEF IdleTrue
  <1>15. ReadTrue(h2, bk2, s, dk, d2) /\ IdentTrue(h2, bk2, d2)
    BY <1>8 DEF ReadTrue, Draining, Fetching, IdentTrue
  <1>16. bk2[h.cur] = Sector(d.lba + d.k, 1 - d.ref[d.lba + d.k])
    <2>1. \A j \in Idx : j < d.w + 1 BY SizeAssumption DEF Idx
    <2>2. h.cur \in {0, 1} BY DEF RegTypes
    <2>3. bk2[h.cur] \in [Idx -> Word] BY <1>3, <2>2
    <2>. QED BY <1>3, <2>1, <2>3 DEF Sector
  <1>17. ~Ours(h2, s) BY <1>4 DEF Ours
  <1>18. dk[d.lba + d.k] = Sector(d.lba + d.k, d.ref[d.lba + d.k]) BY <1>1, <1>4 DEF DiskTrue
  <1>19. Going(h2, d.lba + d.k) BY <1>e, <1>10 DEF Going
  <1>20. WriteTrue(h2, bk2, s, dk, d2)
    BY <1>e, <1>6, <1>8, <1>10, <1>16, <1>17, <1>18, <1>19 DEF WriteTrue, Writes
  <1>21. DiskTrue(dk, d2) BY <1>1, <1>8 DEF DiskTrue
  <1>. QED BY <1>11, <1>12, <1>13, <1>14, <1>15, <1>20, <1>21 DEF Good

LEMMA RefusalGood ==
  ASSUME NEW h, NEW bk, NEW s, NEW dk, NEW p, NEW d, Good(h, bk, s, dk, p, d),
         d.pc = "fin", "BUSY" \notin h.status, "ERROR" \in h.status,
         NEW d2, d2 = [d EXCEPT !.pc = "idle"]
  PROVE Good(h, bk, s, dk, p, d2)
  <1>1. Types(h, bk, s, dk, p, d) /\ DrvTrue(h, d) /\ PathTrue(h, s, p, d) /\ IdleTrue(h, d)
        /\ WriteTrue(h, bk, s, dk, d) /\ DiskTrue(dk, d) BY DEF Good
  <1>2. d \in Drivers /\ RegTypes(h) BY <1>1 DEF Types
  <1>. USE <1>2, DriverTypes
  <1>3. d.op = "WRITE" BY <1>1 DEF DrvTrue
  <1>4. /\ h.st = "IDLE" /\ "BUSY" \notin h.status /\ "DRQ" \in h.status
        /\ ~h.rdPending /\ ~h.pfValid /\ ~h.resetting
        /\ s.st = "ready" /\ ~h.rstart /\ ~h.wstart BY <1>3, WhenWritten
  <1>7. d2 \in Drivers BY DEF Drivers
  <1>8. d2.pc = "idle" /\ d2.op = d.op /\ d2.lba = d.lba /\ d2.n = d.n /\ d2.k = d.k
        /\ d2.w = d.w /\ d2.geo = d.geo /\ d2.ref = d.ref BY DEF Drivers
  <1>11. Types(h, bk, s, dk, p, d2) BY <1>1, <1>7 DEF Types
  <1>12. DrvTrue(h, d2) BY <1>1, <1>3, <1>8 DEF DrvTrue
  <1>13. PathTrue(h, s, p, d2) BY <1>1, <1>4 DEF PathTrue, Ours
  <1>14. IdleTrue(h, d2) BY <1>4, <1>8 DEF IdleTrue, Quiet
  <1>15. ReadTrue(h, bk, s, dk, d2) /\ IdentTrue(h, bk, d2) /\ WriteTrue(h, bk, s, dk, d2)
    BY <1>3, <1>8 DEF ReadTrue, Draining, Fetching, IdentTrue, WriteTrue
  <1>16. dk[d.lba + d.k] = Sector(d.lba + d.k, d.ref[d.lba + d.k]) BY <1>1, <1>3 DEF WriteTrue
  <1>17. DiskTrue(dk, d2) BY <1>1, <1>8, <1>16 DEF DiskTrue
  <1>. QED BY <1>11, <1>12, <1>13, <1>14, <1>15, <1>17 DEF Good

LEMMA WrittenGood ==
  ASSUME NEW h, NEW bk, NEW s, NEW dk, NEW p, NEW d, Good(h, bk, s, dk, p, d),
         d.pc = "fin", "BUSY" \notin h.status, "ERROR" \notin h.status,
         NEW ref, ref = [d.ref EXCEPT ![d.lba + d.k] = 1 - d.ref[d.lba + d.k]],
         NEW d2, d2 = IF d.k < d.n - 1 THEN [d EXCEPT !.ref = ref, !.k = d.k + 1, !.w = 0, !.pc = "data"]
                      ELSE [d EXCEPT !.ref = ref, !.pc = "idle"]
  PROVE Good(h, bk, s, dk, p, d2)
  <1>1. Types(h, bk, s, dk, p, d) /\ DrvTrue(h, d) /\ PathTrue(h, s, p, d) /\ IdleTrue(h, d)
        /\ WriteTrue(h, bk, s, dk, d) /\ DiskTrue(dk, d) BY DEF Good
  <1>2. d \in Drivers /\ RegTypes(h) BY <1>1 DEF Types
  <1>. USE <1>2, DriverTypes
  <1>3. d.op = "WRITE" /\ d.k < d.n BY <1>1 DEF DrvTrue
  <1>4. /\ h.st = "IDLE" /\ "BUSY" \notin h.status /\ "DRQ" \in h.status
        /\ ~h.rdPending /\ ~h.pfValid /\ ~h.resetting
        /\ s.st = "ready" /\ ~h.rstart /\ ~h.wstart /\ d.lba + d.k \in Lba BY <1>3, WhenWritten
  <1>5. PICK l \in Lba : l = d.lba + d.k BY <1>4
  <1>6. ref \in [Lba -> {0, 1}] /\ ref[l] = 1 - d.ref[l]
        /\ \A x \in Lba : x # l => ref[x] = d.ref[x]
    BY <1>5
  <1>7. /\ h.off = 0 /\ h.count = d.n - d.k - 1
        /\ h.count > 0 => At(h.addr, h.geo, l + 1)
        /\ dk[l] = Sector(l, 1 - d.ref[l]) BY <1>1, <1>3, <1>5 DEF WriteTrue
  <1>8. \A x \in Lba : dk[x] = Sector(x, ref[x]) BY <1>1, <1>5, <1>6, <1>7 DEF DiskTrue
  <1>9. CASE d.k < d.n - 1
    <2>. PICK k \in Nat : k = d.k + 1 OBVIOUS
    <2>0. 0 \in Idx BY SizeAssumption DEF Idx
    <2>1. d2 = [d EXCEPT !.ref = ref, !.k = k, !.w = 0, !.pc = "data"] BY <1>9
    <2>2. d2 \in Drivers BY <1>6, <2>0, <2>1 DEF Drivers
    <2>3. d2.pc = "data" /\ d2.op = d.op /\ d2.lba = d.lba /\ d2.n = d.n /\ d2.k = k
          /\ d2.w = 0 /\ d2.geo = d.geo /\ d2.ref = ref BY <2>1 DEF Drivers
    <2>4. Types(h, bk, s, dk, p, d2) BY <1>1, <2>2 DEF Types
    <2>5. DrvTrue(h, d2) BY <1>1, <1>3, <1>9, <2>3 DEF DrvTrue
    <2>6. PathTrue(h, s, p, d2) BY <1>1, <1>4 DEF PathTrue, Ours
    <2>7. IdleTrue(h, d2) BY <2>3 DEF IdleTrue
    <2>8. ReadTrue(h, bk, s, dk, d2) /\ IdentTrue(h, bk, d2)
      BY <1>3, <2>3 DEF ReadTrue, Draining, Fetching, IdentTrue
    <2>9. d.lba + k = l + 1 /\ d.n - k = h.count /\ h.count > 0 BY <1>5, <1>7, <1>9
    <2>10. \A j \in Idx : ~(j < 0) BY DEF Idx
    <2>11. WriteTrue(h, bk, s, dk, d2) BY <1>4, <1>7, <2>3, <2>9, <2>10 DEF WriteTrue
    <2>12. DiskTrue(dk, d2) BY <1>8, <2>3 DEF DiskTrue
    <2>. QED BY <2>4, <2>5, <2>6, <2>7, <2>8, <2>11, <2>12 DEF Good
  <1>10. CASE ~(d.k < d.n - 1)
    <2>1. d2 = [d EXCEPT !.ref = ref, !.pc = "idle"] BY <1>10
    <2>2. d2 \in Drivers BY <1>6, <2>1 DEF Drivers
    <2>3. d2.pc = "idle" /\ d2.op = d.op /\ d2.lba = d.lba /\ d2.n = d.n /\ d2.k = d.k
          /\ d2.w = d.w /\ d2.geo = d.geo /\ d2.ref = ref BY <2>1 DEF Drivers
    <2>4. Types(h, bk, s, dk, p, d2) BY <1>1, <2>2 DEF Types
    <2>5. DrvTrue(h, d2) BY <1>1, <1>3, <2>3 DEF DrvTrue
    <2>6. PathTrue(h, s, p, d2) BY <1>1, <1>4 DEF PathTrue, Ours
    <2>7. IdleTrue(h, d2) BY <1>4, <2>3 DEF IdleTrue, Quiet
    <2>8. ReadTrue(h, bk, s, dk, d2) /\ IdentTrue(h, bk, d2) /\ WriteTrue(h, bk, s, dk, d2)
      BY <1>3, <2>3 DEF ReadTrue, Draining, Fetching, IdentTrue, WriteTrue
    <2>12. DiskTrue(dk, d2) BY <1>8, <2>3 DEF DiskTrue
    <2>. QED BY <2>4, <2>5, <2>6, <2>7, <2>8, <2>12 DEF Good
  <1>. QED BY <1>9, <1>10

-----------------------------------------------------------------------------
(* An edge is taken apart *)

\* One part of the always block on top of the registers.
Over(part, h) == [r \in DOMAIN h |-> IF r \in DOMAIN part THEN part[r] ELSE h[r]]

\* The registers after an edge on which the bus is not used.
Alone(free) == Edge(Engine(free), Nothing, HandOver, AfterReset)

LEMMA NoPart == DOMAIN Nothing = {}
  BY DEF Nothing

\* Where the engine and the bus assign different registers, the bus goes on top.
LEMMA EdgeSplits ==
  ASSUME NEW e, NEW b, NEW h, NEW a, DOMAIN e \cap DOMAIN b = {}
  PROVE Edge(e, b, h, a) = Over(b, Edge(e, Nothing, h, a))
  BY NoPart DEF Edge, Over

LEMMA EdgeOfEngine ==
  ASSUME NEW e, HandOver = Nothing, AfterReset = Nothing
  PROVE Edge(e, Nothing, HandOver, AfterReset) = Over(e, hd)
  BY NoPart DEF Edge, Over

\* While a reset ends, the cartridge is at rest.
LEMMA Starting ==
  ASSUME IInv, hd.resetting
  PROVE hd.st = "IDLE" /\ ~hd.pfValid /\ ~hd.rdPending
  <1>1. Types(hd, bank, sd, disk, prot, drv) /\ IdleTrue(hd, drv) /\ DrvTrue(hd, drv)
        /\ ReadTrue(hd, bank, sd, disk, drv) /\ IdentTrue(hd, bank, drv)
        /\ WriteTrue(hd, bank, sd, disk, drv) BY DEF IInv, Good
  <1>2. drv \in Drivers BY <1>1 DEF Types
  <1>3. drv.pc = "idle"
    BY <1>1, <1>2, DriverTypes
        DEF IdleTrue, Quiet, ReadTrue, Ahead, Draining, IdentTrue, WriteTrue, DrvTrue
  <1>. QED BY <1>1, <1>3 DEF IdleTrue, Quiet, Resets, Fetching

\* The parts of the always block do not meet: a reset ends, or a sector is handed
\* over, only while the engine rests.
Tidy ==
  /\ hd = [r \in Registers |-> hd[r]] /\ hd.count \in Nat
  /\ hd.resetting => hd.st = "IDLE" /\ ~hd.pfValid
  /\ hd.rdPending /\ hd.pfValid => hd.st = "IDLE"

LEMMA GoodIsTidy == ASSUME IInv PROVE Tidy
  <1>1. hd = [r \in Registers |-> hd[r]] /\ hd.count \in Nat BY DEF IInv, Good, Types, RegTypes
  <1>2. hd.resetting => hd.st = "IDLE" /\ ~hd.pfValid BY Starting
  <1>3. ASSUME hd.st # "IDLE" PROVE ~(hd.rdPending /\ hd.pfValid)
    <2>1. CASE hd.st \in Reads BY <2>1, WhenReading DEF IInv
    <2>2. CASE hd.st \in Writes BY <2>2, WhenWriting DEF IInv
    <2>3. CASE hd.st = "ID_FILL"
      <3>1. drv.op = "IDENT" /\ drv.pc = "wait" BY <2>3, WhenFilling DEF IInv
      <3>. QED BY <3>1 DEF IInv, Good, IdentTrue
    <2>4. hd.st \in St BY DEF IInv, Good, Types, RegTypes
    <2>. QED BY <1>3, <2>1, <2>2, <2>3, <2>4 DEF St, Reads, Writes
  <1>. QED BY <1>1, <1>2, <1>3 DEF Tidy

\* While the engine works, the other parts have nothing to assign.
LEMMA OnlyEngine ==
  ASSUME Tidy, hd.st # "IDLE"
  PROVE HandOver = Nothing /\ AfterReset = Nothing
  BY DEF Tidy, HandOver, AfterReset

\* Without the bus, an edge is one of the moves above.
LEMMA AloneIdle ==
  ASSUME Tidy, hd.st = "IDLE", NEW free \in BOOLEAN
  PROVE Alone(free) = hd \/ Wakes(hd, Alone(free)) \/ Hands(hd, Alone(free))
  <1>1. DOMAIN hd = Registers /\ hd = [r \in Registers |-> hd[r]] BY DEF Tidy
  <1>2. Engine(free) = Nothing BY DEF Engine
  <1>3. CASE hd.resetting
    <2>1. ~hd.pfValid BY <1>3 DEF Tidy
    <2>2. HandOver = Nothing BY <2>1 DEF HandOver
    <2>3. AfterReset = [resetting |-> FALSE, status |-> hd.status \ {"BUSY"}] BY <1>3 DEF AfterReset
    <2>. PICK bits : bits = hd.status \ {"BUSY"} OBVIOUS
    <2>5. DOMAIN AfterReset = {"resetting", "status"} /\ AfterReset.resetting = FALSE
          /\ AfterReset.status = bits BY <2>3
    <2>4. Alone(free) = [hd EXCEPT !.resetting = FALSE, !.status = bits]
      BY <1>1, <1>2, <2>2, <2>5, NoPart DEF Alone, Edge, Registers
    <2>. QED BY <1>3, <2>1, <2>4 DEF Wakes
  <1>4. CASE ~hd.resetting /\ hd.rdPending /\ hd.pfValid
    <2>1. AfterReset = Nothing BY <1>4 DEF AfterReset
    <2>2. DOMAIN HandOver = {"rdPending", "pfValid", "cur", "off", "status"}
                            \cup (IF hd.count # 0 THEN {"fbank", "st"} ELSE {})
      BY <1>4, NoPart DEF HandOver, ++
    <2>3. /\ HandOver.rdPending = FALSE /\ HandOver.pfValid = FALSE /\ HandOver.cur = hd.pfBank
          /\ HandOver.off = 0 /\ HandOver.status = Ready(hd.status)
          /\ hd.count # 0 => HandOver.fbank = 1 - hd.pfBank /\ HandOver.st = "RD_LBA1"
      BY <1>4, NoPart DEF HandOver, ++, Ready
    <2>. PICK bits, bk, st : /\ bits = Ready(hd.status)
                             /\ bk = (IF hd.count # 0 THEN 1 - hd.pfBank ELSE hd.fbank)
                             /\ st = (IF hd.count # 0 THEN "RD_LBA1" ELSE "IDLE") OBVIOUS
    <2>4. Alone(free) = [hd EXCEPT !.rdPending = FALSE, !.pfValid = FALSE, !.cur = hd.pfBank, !.off = 0,
                                   !.status = bits, !.fbank = bk, !.st = st]
      BY ZenonT(60), <1>1, <1>2, <2>1, <2>2, <2>3, NoPart DEF Alone, Edge, Registers
    <2>. QED BY <1>4, <2>4 DEF Hands
  <1>5. CASE ~hd.resetting /\ ~(hd.rdPending /\ hd.pfValid)
    <2>1. AfterReset = Nothing /\ HandOver = Nothing BY <1>5 DEF AfterReset, HandOver
    <2>2. Alone(free) = hd
      BY <1>1, <1>2, <2>1, NoPart DEF Alone, Edge, Registers
    <2>. QED BY <2>2
  <1>. QED BY <1>3, <1>4, <1>5

LEMMA AloneLooks ==
  ASSUME Tidy, hd.st \in {"RD_LBA1", "WR_LBA1"}, NEW free \in BOOLEAN
  PROVE Looks(hd, Alone(free)) \/ Multiplies(hd, Alone(free))
  <1>1. DOMAIN hd = Registers /\ hd = [r \in Registers |-> hd[r]] BY DEF Tidy
  <1>2. Alone(free) = Over(Engine(free), hd) BY OnlyEngine, EdgeOfEngine DEF Alone
  <1>3. CASE hd.addr.mode = "lba"
    <2>. PICK st : st = (IF hd.st = "RD_LBA1" THEN "RD_REQ" ELSE "WR_REQ") OBVIOUS
    <2>1. Engine(free) = [sector |-> hd.addr.sec, st |-> st] BY <1>3 DEF Engine
    <2>3. DOMAIN Engine(free) = {"sector", "st"} /\ Engine(free).sector = hd.addr.sec
          /\ Engine(free).st = st BY <2>1
    <2>2. Alone(free) = [hd EXCEPT !.sector = hd.addr.sec, !.st = st]
      BY <1>1, <1>2, <2>3 DEF Over, Registers
    <2>. QED BY <1>3, <2>2 DEF Looks
  <1>4. CASE hd.addr.mode # "lba"
    <2>. PICK st, t : st = (IF hd.st = "RD_LBA1" THEN "RD_LBA2" ELSE "WR_LBA2")
                      /\ t = hd.addr.cyl * hd.geo.heads + hd.addr.head OBVIOUS
    <2>1. Engine(free) = [lbaT |-> t, st |-> st] BY <1>4 DEF Engine
    <2>3. DOMAIN Engine(free) = {"lbaT", "st"} /\ Engine(free).lbaT = t /\ Engine(free).st = st
      BY <2>1
    <2>2. Alone(free) = [hd EXCEPT !.lbaT = t, !.st = st]
      BY <1>1, <1>2, <2>3 DEF Over, Registers
    <2>. QED BY <1>4, <2>2 DEF Multiplies
  <1>. QED BY <1>3, <1>4

LEMMA AloneAdds ==
  ASSUME Tidy, hd.st \in {"RD_LBA2", "WR_LBA2"}, NEW free \in BOOLEAN
  PROVE Adds(hd, Alone(free))
  <1>1. DOMAIN hd = Registers /\ hd = [r \in Registers |-> hd[r]] BY DEF Tidy
  <1>2. Alone(free) = Over(Engine(free), hd) BY OnlyEngine, EdgeOfEngine DEF Alone
  <1>. PICK st, t : st = (IF hd.st = "RD_LBA2" THEN "RD_REQ" ELSE "WR_REQ")
                    /\ t = hd.lbaT * hd.geo.spt + hd.addr.sec - 1 OBVIOUS
  <1>3. Engine(free) = [sector |-> t, st |-> st] BY DEF Engine
  <1>5. DOMAIN Engine(free) = {"sector", "st"} /\ Engine(free).sector = t /\ Engine(free).st = st
    BY <1>3
  <1>4. Alone(free) = [hd EXCEPT !.sector = t, !.st = st]
    BY <1>1, <1>2, <1>5 DEF Over, Registers
  <1>. QED BY <1>4 DEF Adds

LEMMA AloneRaises ==
  ASSUME Tidy, hd.st \in {"RD_REQ", "WR_REQ"}, NEW free \in BOOLEAN
  PROVE \/ Raises(hd, sd, prot, Alone(free)) \/ Accepted(hd, sd, prot, Alone(free))
        \/ Refused(hd, prot, Alone(free))
        \/ Alone(free) = hd /\ ~(Raised(hd) /\ sd.st # "ready")
  <1>1. DOMAIN hd = Registers /\ hd = [r \in Registers |-> hd[r]] BY DEF Tidy
  <1>2. Alone(free) = Over(Engine(free), hd) BY OnlyEngine, EdgeOfEngine DEF Alone
  <1>3. CASE hd.st = "RD_REQ" /\ hd.rstart /\ sd.st # "ready"
    <2>1. Engine(free) = [x \in {"rstart", "st"} |-> IF x = "st" THEN "RD_WAIT" ELSE FALSE]
      BY <1>3 DEF Engine, Raise
    <2>2. Alone(free) = [hd EXCEPT !.rstart = FALSE, !.st = "RD_WAIT"]
      BY <1>1, <1>2, <2>1 DEF Over, Registers
    <2>. QED BY <1>3, <2>2 DEF Accepted
  <1>4. CASE hd.st = "RD_REQ" /\ ~(hd.rstart /\ sd.st # "ready") /\ free /\ sd.st = "ready"
    <2>1. Engine(free) = [x \in {"rstart"} |-> TRUE] BY <1>4 DEF Engine, Raise
    <2>2. Alone(free) = [hd EXCEPT !.rstart = TRUE]
      BY <1>1, <1>2, <2>1 DEF Over, Registers
    <2>. QED BY <1>4, <2>2 DEF Raises
  <1>5. CASE hd.st = "RD_REQ" /\ ~(hd.rstart /\ sd.st # "ready") /\ ~(free /\ sd.st = "ready")
    <2>1. Engine(free) = Nothing BY <1>5 DEF Engine, Raise
    <2>2. Alone(free) = hd BY <1>1, <1>2, <2>1, NoPart DEF Over
    <2>. QED BY <1>5, <2>2 DEF Raised
  <1>6. CASE hd.st = "WR_REQ" /\ prot
    <2>. PICK bits : bits = (hd.status \ {"BUSY"}) \cup {"ERROR", "DRQ"} OBVIOUS
    <2>1. Engine(free) = [status |-> bits, off |-> 0, st |-> "IDLE"] BY <1>6 DEF Engine
    <2>3. DOMAIN Engine(free) = {"status", "off", "st"} /\ Engine(free).status = bits
          /\ Engine(free).off = 0 /\ Engine(free).st = "IDLE" BY <2>1
    <2>2. Alone(free) = [hd EXCEPT !.status = bits, !.off = 0, !.st = "IDLE"]
      BY ZenonT(60), <1>1, <1>2, <2>3 DEF Over, Registers
    <2>. QED BY <1>6, <2>2 DEF Refused
  <1>7. CASE hd.st = "WR_REQ" /\ ~prot /\ hd.wstart /\ sd.st # "ready"
    <2>1. Engine(free) = [x \in {"wstart", "st"} |-> IF x = "st" THEN "WR_WAIT" ELSE FALSE]
      BY <1>7 DEF Engine, Raise
    <2>2. Alone(free) = [hd EXCEPT !.wstart = FALSE, !.st = "WR_WAIT"]
      BY <1>1, <1>2, <2>1 DEF Over, Registers
    <2>. QED BY <1>7, <2>2 DEF Accepted
  <1>8. CASE hd.st = "WR_REQ" /\ ~prot /\ ~(hd.wstart /\ sd.st # "ready") /\ free /\ sd.st = "ready"
    <2>1. Engine(free) = [x \in {"wstart"} |-> TRUE] BY <1>8 DEF Engine, Raise
    <2>2. Alone(free) = [hd EXCEPT !.wstart = TRUE]
      BY <1>1, <1>2, <2>1 DEF Over, Registers
    <2>. QED BY <1>8, <2>2 DEF Raises
  <1>9. CASE hd.st = "WR_REQ" /\ ~prot /\ ~(hd.wstart /\ sd.st # "ready")
        /\ ~(free /\ sd.st = "ready")
    <2>1. Engine(free) = Nothing BY <1>9 DEF Engine, Raise
    <2>2. Alone(free) = hd BY <1>1, <1>2, <2>1, NoPart DEF Over
    <2>. QED BY <1>9, <2>2 DEF Raised
  <1>. QED BY <1>3, <1>4, <1>5, <1>6, <1>7, <1>8, <1>9

LEMMA Settled ==
  ASSUME IInv
  PROVE ~hd.restart /\ ~hd.wrPending
  BY DEF IInv, Good, PathTrue

\* What is left of the count, and the sector after.
Fewer == IF hd.count # 0 THEN hd.count - 1 ELSE hd.count

Further == IF hd.count > 1 THEN After(hd.addr, hd.geo) ELSE hd.addr

\* One sector less to go, on top of what else a part assigns.
LEMMA CountedOver ==
  ASSUME Tidy, NEW e, "count" \notin DOMAIN e, "addr" \notin DOMAIN e
  PROVE Over(e ++ Counted, hd) = [Over(e, hd) EXCEPT !.count = Fewer, !.addr = Further]
  <1>1. hd.count \in Nat /\ DOMAIN hd = Registers BY DEF Tidy
  <1>2. NextSector(hd.addr) = After(hd.addr, hd.geo) BY DEF NextSector, After
  <1>. PICK a, c : a = After(hd.addr, hd.geo) /\ c = hd.count - 1 OBVIOUS
  <1>3. CASE hd.count > 1
    <2>1. Counted = [count |-> c] ++ [addr |-> a] BY <1>1, <1>2, <1>3 DEF Counted
    <2>2. DOMAIN Counted = {"count", "addr"} /\ Counted.count = c /\ Counted.addr = a
      BY <2>1 DEF ++
    <2>3. Fewer = c /\ Further = a BY <1>1, <1>3 DEF Fewer, Further
    <2>. QED BY <1>1, <2>2, <2>3 DEF Over, ++
  <1>4. CASE hd.count = 1
    <2>1. Counted = [count |-> c] ++ Nothing BY <1>1, <1>4 DEF Counted
    <2>2. DOMAIN Counted = {"count"} /\ Counted.count = c
      BY <2>1, NoPart DEF ++
    <2>3. Fewer = c /\ Further = hd.addr BY <1>1, <1>4 DEF Fewer, Further
    <2>. QED BY <1>1, <2>2, <2>3 DEF Over, ++
  <1>5. CASE hd.count = 0
    <2>1. Counted = Nothing ++ Nothing BY <1>1, <1>5 DEF Counted
    <2>2. DOMAIN Counted = {} BY <2>1, NoPart DEF ++
    <2>3. Fewer = hd.count /\ Further = hd.addr BY <1>1, <1>5 DEF Fewer, Further
    <2>. QED BY <1>1, <2>2, <2>3 DEF Over, ++
  <1>. QED BY <1>1, <1>3, <1>4, <1>5

LEMMA AloneReads ==
  ASSUME Tidy, hd.st = "RD_WAIT", NEW free \in BOOLEAN
  PROVE \/ sd.st # "done" /\ Alone(free) = hd
        \/ sd.st = "done" /\ ~hd.restart /\ ~hd.wrPending /\ FetchEnds(hd, sd, Alone(free))
        \/ sd.st = "done" /\ ~hd.restart /\ hd.wrPending /\ FetchYields(hd, sd, Alone(free))
        \/ sd.st = "done" /\ hd.restart /\ Refetches(hd, sd, Alone(free))
  <1>d. DOMAIN hd = Registers /\ hd = [r \in Registers |-> hd[r]] BY DEF Tidy
  <1>2. Alone(free) = Over(Engine(free), hd) BY OnlyEngine, EdgeOfEngine DEF Alone
  <1>3. CASE sd.st # "done"
    <2>1. Engine(free) = Nothing BY <1>3 DEF Engine
    <2>2. Alone(free) = hd BY <1>d, <1>2, <2>1, NoPart DEF Over
    <2>. QED BY <1>3, <2>2
  <1>4. CASE sd.st = "done" /\ hd.restart
    <2>. PICK b : b = hd.cur OBVIOUS
    <2>1. Engine(free) = [restart |-> FALSE, fbank |-> b, st |-> "RD_LBA1"]
      BY <1>4 DEF Engine, ReadDone
    <2>2. DOMAIN Engine(free) = {"restart", "fbank", "st"} /\ Engine(free).restart = FALSE
          /\ Engine(free).fbank = b /\ Engine(free).st = "RD_LBA1" BY <2>1
    <2>3. Alone(free) = [hd EXCEPT !.restart = FALSE, !.fbank = b, !.st = "RD_LBA1"]
      BY ZenonT(60), <1>d, <1>2, <2>2 DEF Over, Registers
    <2>. QED BY <1>4, <2>3 DEF Refetches
  <1>5. CASE sd.st = "done" /\ ~hd.restart
    <2>. PICK b : b = hd.fbank OBVIOUS
    <2>. DEFINE then == IF hd.wrPending THEN [wrPending |-> FALSE, st |-> "WR_LBA1"] ELSE [st |-> "IDLE"]
                e == [pfValid |-> TRUE, pfBank |-> b] ++ then
    <2>1. Engine(free) = [pfValid |-> TRUE, pfBank |-> b] ++ (Counted ++ then)
      <3>1. Engine(free) = ReadDone BY <1>5 DEF Engine
      <3>. QED BY <1>5, <3>1 DEF ReadDone, ++
    <2>2. DOMAIN Counted \subseteq {"count", "addr"} BY NoPart DEF Counted, ++
    <2>3. DOMAIN then \subseteq {"wrPending", "st"} OBVIOUS
    <2>4. Engine(free) = e ++ Counted
      <3>. HIDE DEF then
      <3>. QED BY <2>1, <2>2, <2>3 DEF ++
    <2>5. "count" \notin DOMAIN e /\ "addr" \notin DOMAIN e
      <3>. HIDE DEF then
      <3>. QED BY <2>3 DEF ++
    <2>6. Alone(free) = [Over(e, hd) EXCEPT !.count = Fewer, !.addr = Further]
      <3>. HIDE DEF e
      <3>. QED BY <1>2, <2>4, <2>5, CountedOver
    <2>7. CASE ~hd.wrPending
      <3>1. DOMAIN e = {"pfValid", "pfBank", "st"} /\ e.pfValid = TRUE /\ e.pfBank = b
            /\ e.st = "IDLE" BY <2>7 DEF ++
      <3>. HIDE DEF e
      <3>2. Over(e, hd) = [hd EXCEPT !.pfValid = TRUE, !.pfBank = b, !.st = "IDLE"]
        BY ZenonT(60), <1>d, <3>1 DEF Over, Registers
      <3>3. Alone(free) = [hd EXCEPT !.pfValid = TRUE, !.pfBank = b, !.st = "IDLE",
                                     !.count = Fewer, !.addr = Further] BY <2>6, <3>2
      <3>. QED BY <1>5, <2>7, <3>3 DEF FetchEnds, Fewer, Further
    <2>8. CASE hd.wrPending
      <3>1. DOMAIN e = {"pfValid", "pfBank"} \cup {"wrPending", "st"} /\ e.pfValid = TRUE /\ e.pfBank = b
            /\ e.wrPending = FALSE /\ e.st = "WR_LBA1" BY <2>8 DEF ++
      <3>. HIDE DEF e
      <3>2. Over(e, hd) = [hd EXCEPT !.pfValid = TRUE, !.pfBank = b, !.wrPending = FALSE,
                                     !.st = "WR_LBA1"]
        BY ZenonT(60), <1>d, <3>1 DEF Over, Registers
      <3>3. Alone(free) = [hd EXCEPT !.pfValid = TRUE, !.pfBank = b, !.wrPending = FALSE,
                                     !.st = "WR_LBA1", !.count = Fewer, !.addr = Further]
        BY <2>6, <3>2
      <3>. QED BY <1>5, <2>8, <3>3 DEF FetchYields, Fewer, Further
    <2>. QED BY <2>7, <2>8
  <1>. QED BY <1>3, <1>4, <1>5

LEMMA AloneWrites ==
  ASSUME Tidy, hd.st = "WR_WAIT", NEW free \in BOOLEAN
  PROVE IF sd.st = "done" THEN StoreEnds(hd, sd, Alone(free)) ELSE Alone(free) = hd
  <1>d. DOMAIN hd = Registers /\ hd = [r \in Registers |-> hd[r]] BY DEF Tidy
  <1>2. Alone(free) = Over(Engine(free), hd) BY OnlyEngine, EdgeOfEngine DEF Alone
  <1>3. CASE sd.st # "done"
    <2>1. Engine(free) = Nothing BY <1>3 DEF Engine
    <2>2. Alone(free) = hd BY <1>d, <1>2, <2>1, NoPart DEF Over
    <2>. QED BY <1>3, <2>2
  <1>4. CASE sd.st = "done"
    <2>. PICK bits : bits = Ready(hd.status) OBVIOUS
    <2>. DEFINE e == [status |-> bits, off |-> 0, st |-> "IDLE"]
    <2>1. Engine(free) = e ++ Counted BY <1>4 DEF Engine, Ready
    <2>2. Alone(free) = [Over(e, hd) EXCEPT !.count = Fewer, !.addr = Further]
      BY <1>2, <2>1, CountedOver
    <2>3. DOMAIN e = {"status", "off", "st"} /\ e.status = bits /\ e.off = 0 /\ e.st = "IDLE"
      OBVIOUS
    <2>. HIDE DEF e
    <2>4. Over(e, hd) = [hd EXCEPT !.status = bits, !.off = 0, !.st = "IDLE"]
      BY ZenonT(60), <1>d, <2>3 DEF Over, Registers
    <2>5. Alone(free) = [hd EXCEPT !.status = bits, !.off = 0, !.st = "IDLE",
                                   !.count = Fewer, !.addr = Further] BY <2>2, <2>4
    <2>. QED BY <1>4, <2>5 DEF StoreEnds, Fewer, Further
  <1>. QED BY <1>3, <1>4

LEMMA AloneFills ==
  ASSUME IInv, hd.st = "ID_FILL", NEW free \in BOOLEAN
  PROVE Fills(hd, bank, Alone(free), [bank EXCEPT ![hd.cur][hd.fill] = IdentWord])
  <1>1. RegTypes(hd) /\ hd = [r \in Registers |-> hd[r]] BY DEF IInv, Good, Types
  <1>d. DOMAIN hd = Registers BY <1>1 DEF RegTypes
  <1>2. Alone(free) = Over(Engine(free), hd) BY GoodIsTidy, OnlyEngine, EdgeOfEngine DEF Alone
  <1>. PICK f, bits : f = hd.fill + 1 /\ bits = Ready(hd.status) OBVIOUS
  <1>3. CASE hd.fill = Words - 1
    <2>1. Engine(free) = [fill |-> f] ++ [off |-> 0, count |-> 1, st |-> "IDLE", status |-> bits]
      BY <1>3 DEF Engine, Ready
    <2>2. /\ DOMAIN Engine(free) = {"fill", "off", "count", "st", "status"}
          /\ Engine(free).fill = f /\ Engine(free).off = 0 /\ Engine(free).count = 1
          /\ Engine(free).st = "IDLE" /\ Engine(free).status = bits BY <2>1 DEF ++
    <2>3. Alone(free) = [hd EXCEPT !.fill = f, !.off = 0, !.count = 1, !.st = "IDLE", !.status = bits]
      BY ZenonT(60), <1>d, <1>2, <2>2 DEF Over, Registers
    <2>. QED BY <1>3, <2>3 DEF Fills
  <1>4. CASE hd.fill # Words - 1
    <2>1. Engine(free) = [fill |-> f] ++ Nothing BY <1>4 DEF Engine
    <2>2. DOMAIN Engine(free) = {"fill"} /\ Engine(free).fill = f BY <2>1, NoPart DEF ++
    <2>3. Alone(free) = [hd EXCEPT !.fill = f]
      BY <1>d, <1>2, <2>2 DEF Over, Registers
    <2>. QED BY <1>4, <2>3 DEF Fills
  <1>. QED BY <1>3, <1>4

-----------------------------------------------------------------------------
(* The machine's half of an edge *)

\* What the bank holds after the engine's part of the edge.
Filling == IF hd.st = "ID_FILL" THEN [bank EXCEPT ![hd.cur][hd.fill] = IdentWord] ELSE bank

\* What cannot be while a transfer is under way.
LEMMA WhenTaken ==
  ASSUME IInv, sd.st # "ready"
  PROVE /\ Raised(hd) => sd.st = "busy" /\ sd.i = 0 /\ ~(hd.st = "WR_REQ" /\ prot)
        /\ hd.st # "ID_FILL" /\ ~(hd.st = "WR_REQ" /\ prot)
        /\ hd.st = "IDLE" => ~hd.pfValid
  <1>1. PathTrue(hd, sd, prot, drv) BY DEF IInv, Good
  <1>2. Ours(hd, sd) \/ Stray(hd, sd, drv) BY <1>1 DEF PathTrue
  <1>3. hd.st = "IDLE" => ~hd.pfValid BY <1>2 DEF Ours, Raised, Stray
  <1>. QED BY <1>1, <1>2, <1>3 DEF PathTrue, Ours, Raised, Stray

\* The engine's part of an edge keeps Good, and leaves alone what the path looks
\* at on the same edge: so the two may be taken one after the other.
LEMMA MachineGood ==
  ASSUME IInv, NEW free \in BOOLEAN, NEW m, m = Alone(free),
         ~(sd.st = "done" /\ hd.st \in {"RD_WAIT", "WR_WAIT"})
  PROVE /\ Good(m, Filling, sd, disk, prot, drv)
        /\ sd.st # "ready" => /\ m.cur = hd.cur /\ m.fbank = hd.fbank /\ ~Raised(m)
                              /\ Ours(m, sd) <=> Ours(hd, sd)
        /\ sd.st = "ready" /\ (hd.rstart \/ hd.wstart) =>
             m.rstart = hd.rstart /\ m.wstart = hd.wstart /\ m.sector = hd.sector
  <1>1. Good(hd, bank, sd, disk, prot, drv) /\ RegTypes(hd) /\ hd.st \in St
    BY DEF IInv, Good, Types, RegTypes
  <1>p. (hd.rstart => hd.st = "RD_REQ") /\ (hd.wstart => hd.st = "WR_REQ" /\ ~prot)
    BY <1>1 DEF Good, PathTrue
  <1>2. CASE hd.st = "IDLE"
    <2>0. Filling = bank BY <1>2 DEF Filling
    <2>1. Good(m, Filling, sd, disk, prot, drv)
      BY <1>1, <1>2, <2>0, GoodIsTidy, AloneIdle, WakesGood, HandsGood
    <2>2. ASSUME sd.st # "ready"
          PROVE m.cur = hd.cur /\ m.fbank = hd.fbank /\ ~Raised(m) /\ (Ours(m, sd) <=> Ours(hd, sd))
      <3>1. ~Hands(hd, m) BY <1>2, <2>2, WhenTaken DEF Hands
      <3>2. m = hd \/ Wakes(hd, m) BY <1>2, <3>1, GoodIsTidy, AloneIdle
      <3>3. m.cur = hd.cur /\ m.fbank = hd.fbank /\ m.st = "IDLE"
        BY <1>1, <1>2, <3>2 DEF Wakes, RegTypes, Registers
      <3>. QED BY <1>2, <3>3 DEF Ours, Raised
    <2>. QED BY <1>2, <1>p, <2>1, <2>2
  <1>3. CASE hd.st \in {"RD_LBA1", "WR_LBA1", "RD_LBA2", "WR_LBA2"}
    <2>0. Filling = bank BY <1>3 DEF Filling
    <2>1. Looks(hd, m) \/ Multiplies(hd, m) \/ Adds(hd, m) BY <1>3, GoodIsTidy, AloneLooks, AloneAdds
    <2>2. Good(m, Filling, sd, disk, prot, drv)
      BY <1>1, <2>0, <2>1, LooksGood, MultipliesGood, AddsGood
    <2>3. CASE Looks(hd, m)
      <3>. PICK st : st = (IF hd.st = "RD_LBA1" THEN "RD_REQ" ELSE "WR_REQ") OBVIOUS
      <3>1. m = [hd EXCEPT !.sector = hd.addr.sec, !.st = st] BY <2>3 DEF Looks
      <3>2. m.cur = hd.cur /\ m.fbank = hd.fbank /\ m.rstart = hd.rstart /\ m.wstart = hd.wstart
            /\ m.st = st BY <1>1, <3>1 DEF RegTypes, Registers
      <3>. QED BY <1>3, <1>p, <2>2, <3>2 DEF Ours, Raised
    <2>4. CASE Multiplies(hd, m)
      <3>. PICK st, t : st = (IF hd.st = "RD_LBA1" THEN "RD_LBA2" ELSE "WR_LBA2")
                        /\ t = hd.addr.cyl * hd.geo.heads + hd.addr.head OBVIOUS
      <3>1. m = [hd EXCEPT !.lbaT = t, !.st = st] BY <2>4 DEF Multiplies
      <3>2. m.cur = hd.cur /\ m.fbank = hd.fbank /\ m.rstart = hd.rstart /\ m.wstart = hd.wstart
            /\ m.st = st BY <1>1, <3>1 DEF RegTypes, Registers
      <3>. QED BY <1>3, <1>p, <2>2, <3>2 DEF Ours, Raised
    <2>5. CASE Adds(hd, m)
      <3>. PICK st, t : st = (IF hd.st = "RD_LBA2" THEN "RD_REQ" ELSE "WR_REQ")
                        /\ t = hd.lbaT * hd.geo.spt + hd.addr.sec - 1 OBVIOUS
      <3>1. m = [hd EXCEPT !.sector = t, !.st = st] BY <2>5 DEF Adds
      <3>2. m.cur = hd.cur /\ m.fbank = hd.fbank /\ m.rstart = hd.rstart /\ m.wstart = hd.wstart
            /\ m.st = st BY <1>1, <3>1 DEF RegTypes, Registers
      <3>. QED BY <1>3, <1>p, <2>2, <3>2 DEF Ours, Raised
    <2>. QED BY <2>1, <2>3, <2>4, <2>5
  <1>4. CASE hd.st \in {"RD_REQ", "WR_REQ"}
    <2>0. Filling = bank BY <1>4 DEF Filling
    <2>1. \/ Raises(hd, sd, prot, m) \/ Accepted(hd, sd, prot, m) \/ Refused(hd, prot, m)
          \/ m = hd /\ ~(Raised(hd) /\ sd.st # "ready") BY <1>4, GoodIsTidy, AloneRaises
    <2>2. Good(m, Filling, sd, disk, prot, drv)
      BY <1>1, <2>0, <2>1, RaisesGood, AcceptedGood, RefusedGood
    <2>3. CASE Raises(hd, sd, prot, m)
      <3>1. sd.st = "ready" BY <2>3 DEF Raises
      <3>2. \/ hd.st = "RD_REQ" /\ m = [hd EXCEPT !.rstart = TRUE]
            \/ hd.st = "WR_REQ" /\ m = [hd EXCEPT !.wstart = TRUE] BY <2>3 DEF Raises
      <3>3. (hd.rstart \/ hd.wstart) =>
              m.rstart = hd.rstart /\ m.wstart = hd.wstart /\ m.sector = hd.sector
        BY <1>1, <1>p, <3>2 DEF RegTypes, Registers
      <3>. QED BY <2>2, <3>1, <3>3
    <2>4. CASE Accepted(hd, sd, prot, m)
      <3>1. sd.st # "ready" /\ Raised(hd) BY <2>4 DEF Accepted, Raised
      <3>2. \/ m = [hd EXCEPT !.rstart = FALSE, !.st = "RD_WAIT"]
            \/ m = [hd EXCEPT !.wstart = FALSE, !.st = "WR_WAIT"] BY <2>4 DEF Accepted
      <3>3. m.cur = hd.cur /\ m.fbank = hd.fbank /\ m.st \in {"RD_WAIT", "WR_WAIT"}
        BY <1>1, <3>2 DEF RegTypes, Registers
      <3>. QED BY <2>2, <3>1, <3>3 DEF Ours, Raised
    <2>5. CASE Refused(hd, prot, m)
      <3>1. hd.st = "WR_REQ" /\ prot BY <2>5 DEF Refused
      <3>. QED BY <1>p, <2>2, <3>1, WhenTaken
    <2>6. CASE m = hd /\ ~(Raised(hd) /\ sd.st # "ready") BY <2>2, <2>6
    <2>. QED BY <2>1, <2>3, <2>4, <2>5, <2>6
  <1>5. CASE hd.st \in {"RD_WAIT", "WR_WAIT"}
    <2>0. Filling = bank BY <1>5 DEF Filling
    <2>1. m = hd BY <1>5, GoodIsTidy, AloneReads, AloneWrites
    <2>. QED BY <1>1, <1>5, <2>0, <2>1 DEF Raised
  <1>6. CASE hd.st = "ID_FILL"
    <2>0. Filling = [bank EXCEPT ![hd.cur][hd.fill] = IdentWord] BY <1>6 DEF Filling
    <2>. PICK bk : bk = [bank EXCEPT ![hd.cur][hd.fill] = IdentWord] OBVIOUS
    <2>2. Fills(hd, bank, m, bk) BY <1>6, AloneFills
    <2>3. Good(m, bk, sd, disk, prot, drv) /\ sd.st = "ready" BY <1>1, <2>2, FillsGood
    <2>1. Good(m, Filling, sd, disk, prot, drv) /\ sd.st = "ready" BY <2>0, <2>3
    <2>. QED BY <1>6, <1>p, <2>1
  <1>. QED BY <1>1, <1>2, <1>3, <1>4, <1>5, <1>6 DEF St

\* The bank after an edge on which the bus writes no word.
Fed == IF hd.st = "ID_FILL" THEN [Filled EXCEPT ![hd.cur][hd.fill] = IdentWord] ELSE Filled

\* An edge keeps Good as far as the engine and the path go.
LEMMA EdgeGood ==
  ASSUME IInv, NEW free \in BOOLEAN, NEW m, m = Alone(free), SdClk, DiskClk
  PROVE Good(m, Fed, sd', disk', prot, drv)
  <1>0. Good(hd, bank, sd, disk, prot, drv) BY DEF IInv
  <1>s. sd \in Paths BY <1>0 DEF Good, Types, Paths
  <1>1. CASE sd' = sd /\ sd.st # "done"
    <2>1. ~Passes BY <1>1 DEF Passes
    <2>2. Fed = Filling /\ disk' = disk BY <2>1 DEF Fed, Filling, Filled, DiskClk
    <2>. QED BY <1>1, <2>2, MachineGood
  <1>2. CASE sd.st = "ready" /\ (hd.rstart \/ hd.wstart)
             /\ sd' = [st |-> "busy", wr |-> hd.wstart, lba |-> hd.sector, i |-> 0]
    <2>1. ~Passes BY <1>2 DEF Passes
    <2>2. Fed = Filling /\ disk' = disk BY <2>1 DEF Fed, Filling, Filled, DiskClk
    <2>3. Good(m, Filling, sd, disk, prot, drv)
          /\ m.rstart = hd.rstart /\ m.wstart = hd.wstart /\ m.sector = hd.sector
      BY <1>2, MachineGood
    <2>4. Takes(m, sd, sd') BY <1>2, <2>3 DEF Takes
    <2>. QED BY <2>2, <2>3, <2>4, TakesGood
  <1>3. CASE sd.st = "busy" /\ sd.i < Words /\ sd' = [sd EXCEPT !.i = @ + 1]
    <2>1. Passes
      <3>1. sd'.i = sd.i + 1 BY <1>s, <1>3 DEF Paths
      <3>2. sd.i \in Nat BY <1>s, SizeAssumption DEF Paths
      <3>3. sd' # sd BY <3>1, <3>2
      <3>. QED BY <1>3, <3>3 DEF Passes
    <2>2. /\ Good(m, Filling, sd, disk, prot, drv) /\ m.cur = hd.cur /\ m.fbank = hd.fbank
          /\ ~Raised(m) BY <1>3, MachineGood
    <2>3. hd.st # "ID_FILL" BY <1>3, WhenTaken
    <2>4. Filling = bank /\ Fed = Filled BY <2>3 DEF Filling, Fed
    <2>5. CASE sd.wr
      <3>1. Fed = bank BY <2>4, <2>5 DEF Filled
      <3>2. disk' = [disk EXCEPT ![sd.lba][sd.i] = bank[hd.cur][sd.i]] BY <2>1, <2>5 DEF DiskClk
      <3>3. Stores(m, bank, sd, disk, sd', disk') BY <1>3, <2>2, <2>5, <3>2 DEF Stores
      <3>. QED BY <2>2, <2>4, <3>1, <3>3, StoresGood
    <2>6. CASE ~sd.wr
      <3>1. disk' = disk BY <2>6 DEF DiskClk
      <3>2. Fed = [bank EXCEPT ![hd.fbank][sd.i] = IF sd.lba \in Lba THEN disk[sd.lba][sd.i] ELSE NoWord]
        BY <2>1, <2>4, <2>6 DEF Filled
      <3>3. Feeds(m, bank, sd, disk, sd', Fed) BY <1>3, <2>2, <2>6, <3>2 DEF Feeds
      <3>. QED BY <2>2, <2>4, <3>1, <3>3, FeedsGood
    <2>. QED BY <2>5, <2>6
  <1>4. CASE sd.st = "busy" /\ sd.i = Words /\ sd' = [sd EXCEPT !.st = "done"]
    <2>1. ~Passes BY <1>4, SizeAssumption DEF Passes
    <2>2. Fed = Filling /\ disk' = disk BY <2>1 DEF Fed, Filling, Filled, DiskClk
    <2>3. Good(m, Filling, sd, disk, prot, drv) BY <1>4, MachineGood
    <2>4. Finishes(sd, sd') BY <1>4 DEF Finishes
    <2>. QED BY <2>2, <2>3, <2>4, FinishesGood
  <1>5. CASE sd.st = "done" /\ sd' = [sd EXCEPT !.st = "ready"]
    <2>1. ~Passes BY <1>5 DEF Passes
    <2>2. Fed = Filling /\ disk' = disk BY <2>1 DEF Fed, Filling, Filled, DiskClk
    <2>3. CASE hd.st = "RD_WAIT"
      <3>1. FetchEnds(hd, sd, m) BY <1>5, <2>3, GoodIsTidy, Settled, AloneReads
      <3>2. Filling = bank BY <2>3 DEF Filling
      <3>. QED BY <1>0, <1>5, <2>2, <3>1, <3>2, FetchEndsGood
    <2>4. CASE hd.st = "WR_WAIT"
      <3>1. StoreEnds(hd, sd, m) BY <1>5, <2>4, GoodIsTidy, AloneWrites
      <3>2. Filling = bank BY <2>4 DEF Filling
      <3>. QED BY <1>0, <1>5, <2>2, <3>1, <3>2, StoreEndsGood
    <2>5. CASE hd.st \notin {"RD_WAIT", "WR_WAIT"}
      <3>1. Good(m, Filling, sd, disk, prot, drv) /\ (Ours(m, sd) <=> Ours(hd, sd))
        BY <1>5, <2>5, MachineGood
      <3>2. ~Ours(hd, sd) BY <1>5, <2>5, WhenTaken DEF Ours
      <3>3. Drifts(sd, sd') BY <1>5 DEF Drifts
      <3>. QED BY <2>2, <3>1, <3>2, <3>3, DriftsGood
    <2>. QED BY <2>3, <2>4, <2>5
  <1>. QED BY <1>1, <1>2, <1>3, <1>4, <1>5 DEF SdClk

-----------------------------------------------------------------------------
(* The actions *)

LEMMA EdgeIsRegisters ==
  ASSUME RegTypes(hd), NEW e, NEW b, NEW h, NEW a, NEW r, r = Edge(e, b, h, a)
  PROVE r = [x \in Registers |-> r[x]]
  BY DEF Edge, RegTypes

\* At rest, the engine, the hand-over and the end of a reset have nothing to do.
LEMMA StillAlone ==
  ASSUME IInv, NEW free \in BOOLEAN, hd.st = "IDLE", ~hd.rdPending, ~hd.resetting
  PROVE Alone(free) = hd /\ DOMAIN Engine(free) = {}
  <1>1. Engine(free) = Nothing BY DEF Engine
  <1>2. Alone(free) = hd BY GoodIsTidy, AloneIdle DEF Wakes, Hands
  <1>. QED BY <1>1, <1>2, NoPart

\* A clock edge with an access that writes no word.
LEMMA ClkParts ==
  ASSUME IInv, NEW bus, Clk(bus), bus[1] # "wdata"
  PROVE \E free \in BOOLEAN :
          /\ hd' = Edge(Engine(free), Bus(bus), HandOver, AfterReset)
          /\ Good(Alone(free), bank', sd', disk', prot', drv)
          /\ hd' = [r \in Registers |-> hd'[r]]
          /\ DOMAIN Engine(free) \cap DOMAIN Bus(bus) = {} => hd' = Over(Bus(bus), Alone(free))
  <1>1. PICK free \in BOOLEAN : hd' = Edge(Engine(free), Bus(bus), HandOver, AfterReset)
    BY DEF Clk
  <1>2. bank' = Fed BY DEF Clk, BankClk, Fed
  <1>3. Good(Alone(free), bank', sd', disk', prot', drv) BY <1>2, EdgeGood DEF Clk
  <1>4. RegTypes(hd) BY DEF IInv, Good, Types
  <1>5. hd' = [r \in Registers |-> hd'[r]] BY <1>1, <1>4, EdgeIsRegisters
  <1>6. DOMAIN Engine(free) \cap DOMAIN Bus(bus) = {} => hd' = Over(Bus(bus), Alone(free))
    BY <1>1, EdgeSplits DEF Alone
  <1>. QED BY <1>1, <1>3, <1>5, <1>6

\* A clock edge with no access.
LEMMA NoAccess ==
  ASSUME IInv, Clk(<<"none">>)
  PROVE /\ Good(hd', bank', sd', disk', prot', drv)
        /\ hd' = [r \in Registers |-> hd'[r]]
        /\ hd.st = "IDLE" /\ ~hd.rdPending /\ ~hd.resetting => hd' = hd
  <1>1. PICK bus : bus = <<"none">> OBVIOUS
  <1>2. bus[1] = "none" /\ Clk(bus) BY <1>1
  <1>3. Bus(bus) = Nothing BY <1>2 DEF Bus
  <1>4. PICK free \in BOOLEAN :
          /\ hd' = Edge(Engine(free), Bus(bus), HandOver, AfterReset)
          /\ Good(Alone(free), bank', sd', disk', prot', drv)
          /\ hd' = [r \in Registers |-> hd'[r]]
    BY <1>2, ClkParts
  <1>5. hd' = Alone(free) BY <1>3, <1>4 DEF Alone
  <1>. QED BY <1>4, <1>5, StillAlone

LEMMA TickKeeps == ASSUME IInv, Tick PROVE IInv'
  <1>1. Clk(<<"none">>) /\ drv' = drv BY DEF Tick
  <1>2. Good(hd', bank', sd', disk', prot', drv') /\ hd' = [r \in Registers |-> hd'[r]]
    BY <1>1, NoAccess
  <1>. QED BY <1>2 DEF IInv

\* The driver programs the task file only while the cartridge is at rest.
LEMMA IdleIsQuiet ==
  ASSUME IInv, drv.pc \in {"count", "addr", "cmd"} \/ (drv.pc = "idle" /\ ~Busy)
  PROVE Quiet(hd) /\ hd.st = "IDLE" /\ ~hd.rdPending /\ ~hd.resetting
  BY WhenQuiet DEF IInv, Busy, Quiet

LEMMA ChooseKeeps == ASSUME IInv, Choose PROVE IInv'
  <1>1. Clk(<<"none">>) /\ drv.pc = "idle" /\ ~Busy BY DEF Choose
  <1>2. Good(hd', bank', sd', disk', prot', drv) /\ hd' = [r \in Registers |-> hd'[r]] /\ hd' = hd
    BY <1>1, IdleIsQuiet, NoAccess
  <1>3. PICK op \in Ops, mode \in Modes, l \in Lba, n \in 1..MaxCount, g \in Geometries :
       /\ l + n - 1 <= MaxLba
       /\ op \in {"IDENT", "SETCFG"} => l = 0 /\ n = 1 /\ mode = CHOOSE m \in Modes : TRUE
       /\ op # "SETCFG" => g = drv.geo
       /\ drv' = [drv EXCEPT !.pc = "count", !.op = op, !.mode = mode, !.lba = l, !.n = n,
                             !.k = 0, !.w = 0, !.geo = g]
    BY DEF Choose
  <1>4. "BUSY" \notin hd'.status BY <1>1, <1>2 DEF Busy
  <1>5. Good(hd', bank', sd', disk', prot', drv') BY <1>1, <1>2, <1>3, <1>4, ChooseGood
  <1>. QED BY <1>2, <1>5 DEF IInv

\* An access while nothing else goes on.
LEMMA QuietAccess ==
  ASSUME IInv, NEW bus, Clk(bus), bus[1] # "wdata", Quiet(hd)
  PROVE /\ hd' = Over(Bus(bus), hd) /\ Good(hd, bank', sd', disk', prot', drv)
        /\ hd' = [r \in Registers |-> hd'[r]]
  <1>1. PICK free \in BOOLEAN :
          /\ Good(Alone(free), bank', sd', disk', prot', drv)
          /\ hd' = [r \in Registers |-> hd'[r]]
          /\ DOMAIN Engine(free) \cap DOMAIN Bus(bus) = {} => hd' = Over(Bus(bus), Alone(free))
    BY ClkParts
  <1>2. Alone(free) = hd /\ DOMAIN Engine(free) = {} BY StillAlone DEF Quiet
  <1>. QED BY <1>1, <1>2

LEMMA CountKeeps == ASSUME IInv, Count PROVE IInv'
  <1>1. drv.pc = "count" /\ drv' = [drv EXCEPT !.pc = "addr"] BY DEF Count, DrvTo
  <1>2. PICK c : c = (IF drv.op = "SETCFG" THEN drv.geo.spt ELSE drv.n) OBVIOUS
  <1>3. PICK bus : bus = <<"count", c>> OBVIOUS
  <1>4. Clk(bus) /\ bus[1] = "count" /\ bus[2] = c BY <1>2, <1>3 DEF Count
  <1>5. DOMAIN Bus(bus) = {"count"} /\ Bus(bus).count = c BY <1>4 DEF Bus
  <1>6. hd' = Over(Bus(bus), hd) /\ Good(hd, bank', sd', disk', prot', drv)
        /\ hd' = [r \in Registers |-> hd'[r]] BY <1>1, <1>4, IdleIsQuiet, QuietAccess
  <1>7. DOMAIN hd = Registers BY DEF IInv, Good, Types, RegTypes
  <1>8. hd' = [hd EXCEPT !.count = c] BY <1>5, <1>6, <1>7 DEF Over, Registers
  <1>9. Good(hd', bank', sd', disk', prot', drv') BY <1>1, <1>2, <1>6, <1>8, CountGood
  <1>. QED BY <1>6, <1>9 DEF IInv

LEMMA AddrKeeps == ASSUME IInv, Addr PROVE IInv'
  <1>1. drv.pc = "addr" /\ drv' = [drv EXCEPT !.pc = "cmd"] BY DEF Addr, DrvTo
  <1>2. PICK a : a = Place(hd, drv) OBVIOUS
  <1>3. PICK bus : bus = <<"addr", a>> OBVIOUS
  <1>4. Clk(bus) /\ bus[1] = "addr" /\ bus[2] = a BY <1>2, <1>3 DEF Addr, Place
  <1>5. DOMAIN Bus(bus) = {"addr"} /\ Bus(bus).addr = a BY <1>4 DEF Bus
  <1>6. hd' = Over(Bus(bus), hd) /\ Good(hd, bank', sd', disk', prot', drv)
        /\ hd' = [r \in Registers |-> hd'[r]] BY <1>1, <1>4, IdleIsQuiet, QuietAccess
  <1>7. DOMAIN hd = Registers BY DEF IInv, Good, Types, RegTypes
  <1>8. hd' = [hd EXCEPT !.addr = a] BY <1>5, <1>6, <1>7 DEF Over, Registers
  <1>9. Good(hd', bank', sd', disk', prot', drv') BY ONLY <1>1, <1>2, <1>6, <1>8, AddrGood
  <1>. QED BY <1>6, <1>9 DEF IInv

\* What the theorems assume of the driver and its surroundings.  It reads and
\* writes to the end: a READ that is left leaves a fetch behind.  The protection
\* does not change while a write request is up: ide.v looks at it too late for
\* that.  Where INIT may come at any time, it reads only: a sector half sent is
\* half written, and a stray fetch fills bank 0, which WRITE and IDENTIFY use.
Calm == Upsets \subseteq {"race", "reset"} /\ ("reset" \in Upsets => Ops \subseteq {"READ", "SETCFG"})

LEMMA CmdKeeps == ASSUME IInv, Calm, Cmd PROVE IInv'
  <1>1. drv.pc = "cmd" /\ drv' = [drv EXCEPT !.pc = IF drv.op = "SETCFG" THEN "idle" ELSE "wait"]
    BY DEF Cmd, DrvTo
  <1>3. PICK bus : bus = <<"cmd", drv.op>> OBVIOUS
  <1>4. Clk(bus) /\ bus[1] = "cmd" /\ bus[2] = drv.op BY <1>3 DEF Cmd
  <1>5. Bus(bus) = Command(drv.op) BY <1>4 DEF Bus
  <1>6. hd' = Over(Command(drv.op), hd) /\ Good(hd, bank', sd', disk', prot', drv)
        /\ hd' = [r \in Registers |-> hd'[r]] BY <1>1, <1>4, <1>5, IdleIsQuiet, QuietAccess
  <1>7. DOMAIN hd = Registers /\ drv \in Drivers /\ DrvTrue(hd, drv)
    BY DEF IInv, Good, Types, RegTypes
  <1>8. hd.st = "IDLE" BY <1>1, IdleIsQuiet
  <1>9. Good(hd', bank', sd', disk', prot', drv')
    <2>1. CASE drv.op = "READ"
      <3>. PICK bits : bits = (hd.status \cup {"BUSY"}) \ {"DRQ", "ERROR"} OBVIOUS
      <3>1. Command("READ") = [status |-> bits, rdPending |-> TRUE, pfValid |-> FALSE, fbank |-> hd.cur]
                              ++ [st |-> "RD_LBA1"] BY <1>8 DEF Command
      <3>2. /\ DOMAIN Command("READ") = {"status", "rdPending", "pfValid", "fbank", "st"}
            /\ Command("READ").status = bits /\ Command("READ").rdPending = TRUE
            /\ Command("READ").pfValid = FALSE /\ Command("READ").fbank = hd.cur
            /\ Command("READ").st = "RD_LBA1" BY <3>1 DEF ++
      <3>3. hd' = [hd EXCEPT !.status = bits, !.rdPending = TRUE, !.pfValid = FALSE, !.fbank = hd.cur,
                             !.st = "RD_LBA1"]
        BY <1>6, <1>7, <2>1, <3>2 DEF Over, Registers
      <3>4. drv' = [drv EXCEPT !.pc = "wait"] BY <1>1, <2>1
      <3>. QED BY ZenonT(60), <1>1, <1>6, <2>1, <3>3, <3>4, ReadGood
    <2>2. CASE drv.op = "SETCFG"
      <3>. PICK g : g = [spt |-> hd.count, heads |-> hd.addr.head + 1] OBVIOUS
      <3>1. Command("SETCFG") = [geo |-> g] BY DEF Command
      <3>2. DOMAIN Command("SETCFG") = {"geo"} /\ Command("SETCFG").geo = g BY <3>1
      <3>3. hd' = [hd EXCEPT !.geo = g] BY <1>6, <1>7, <2>2, <3>2 DEF Over, Registers
      <3>4. drv' = [drv EXCEPT !.pc = "idle"] BY <1>1, <2>2
      <3>. QED BY <1>1, <1>6, <2>2, <3>3, <3>4, SetConfigGood
    <2>3. CASE drv.op = "WRITE"
      <3>0. "reset" \notin Upsets BY <1>7, <2>3 DEF DrvTrue, Calm
      <3>. PICK bits : bits = (hd.status \cup {"DRQ"}) \ {"ERROR"} OBVIOUS
      <3>1. Command("WRITE") = [off |-> 0, pfValid |-> FALSE, status |-> bits] BY DEF Command
      <3>2. /\ DOMAIN Command("WRITE") = {"off", "pfValid", "status"} /\ Command("WRITE").off = 0
            /\ Command("WRITE").pfValid = FALSE /\ Command("WRITE").status = bits BY <3>1
      <3>3. hd' = [hd EXCEPT !.off = 0, !.pfValid = FALSE, !.status = bits]
        BY <1>6, <1>7, <2>3, <3>2 DEF Over, Registers
      <3>4. drv' = [drv EXCEPT !.pc = "wait"] BY <1>1, <2>3
      <3>5. Opens(hd, hd') BY <3>3 DEF Opens
      <3>. QED BY ONLY <1>1, <1>6, <2>3, <3>0, <3>4, <3>5, WriteGood
    <2>4. CASE drv.op = "IDENT"
      <3>0. "reset" \notin Upsets BY <1>7, <2>4 DEF DrvTrue, Calm
      <3>. PICK bits : bits = (hd.status \cup {"BUSY"}) \ {"DRQ"} OBVIOUS
      <3>1. Command("IDENT") = [fill |-> 0, pfValid |-> FALSE, st |-> "ID_FILL", status |-> bits]
        BY DEF Command
      <3>2. /\ DOMAIN Command("IDENT") = {"fill", "pfValid", "st", "status"} /\ Command("IDENT").fill = 0
            /\ Command("IDENT").pfValid = FALSE /\ Command("IDENT").st = "ID_FILL"
            /\ Command("IDENT").status = bits BY <3>1
      <3>3. hd' = [hd EXCEPT !.fill = 0, !.pfValid = FALSE, !.st = "ID_FILL", !.status = bits]
        BY <1>6, <1>7, <2>4, <3>2 DEF Over, Registers
      <3>4. drv' = [drv EXCEPT !.pc = "wait"] BY <1>1, <2>4
      <3>5. Names(hd, hd') BY <3>3 DEF Names
      <3>. QED BY ONLY <1>1, <1>6, <2>4, <3>0, <3>4, <3>5, IdentGood
    <2>. QED BY <1>7, <2>1, <2>2, <2>3, <2>4, DriverTypes
  <1>. QED BY <1>6, <1>9 DEF IInv

\* While a fetch runs ahead, status and word counter are the bus's.
LEMMA FetchKeeps ==
  ASSUME IInv, hd.st \in Reads, NEW free \in BOOLEAN
  PROVE /\ DOMAIN Engine(free) \cap {"status", "off", "rdPending"} = {}
        /\ Alone(free).status = hd.status /\ Alone(free).off = hd.off
  <1>1. RegTypes(hd) BY DEF IInv, Good, Types
  <1>2. Alone(free) = Over(Engine(free), hd) BY GoodIsTidy, OnlyEngine, EdgeOfEngine DEF Alone, Reads
  <1>3. DOMAIN Engine(free) \cap {"status", "off", "rdPending"} = {}
    <2>1. CASE hd.st = "RD_LBA1"
      <3>1. CASE hd.addr.mode = "lba"
        <4>1. Engine(free) = [sector |-> hd.addr.sec, st |-> "RD_REQ"] BY <2>1, <3>1 DEF Engine
        <4>. QED BY <4>1
      <3>2. CASE hd.addr.mode # "lba"
        <4>1. Engine(free) = [lbaT |-> hd.addr.cyl * hd.geo.heads + hd.addr.head, st |-> "RD_LBA2"]
          BY <2>1, <3>2 DEF Engine
        <4>. QED BY <4>1
      <3>. QED BY <3>1, <3>2
    <2>2. CASE hd.st = "RD_LBA2"
      <3>1. Engine(free) = [sector |-> hd.lbaT * hd.geo.spt + hd.addr.sec - 1, st |-> "RD_REQ"]
        BY <2>2 DEF Engine
      <3>. QED BY <3>1
    <2>3. CASE hd.st = "RD_REQ" BY <2>3, NoPart DEF Engine, Raise
    <2>4. CASE hd.st = "RD_WAIT" /\ sd.st # "done" BY <2>4, NoPart DEF Engine
    <2>5. CASE hd.st = "RD_WAIT" /\ sd.st = "done"
      <3>1. DOMAIN Counted \subseteq {"count", "addr"} BY NoPart DEF Counted, ++
      <3>2. Engine(free) = [pfValid |-> TRUE, pfBank |-> hd.fbank] ++ (Counted ++ [st |-> "IDLE"])
        <4>1. Engine(free) = ReadDone BY <2>5 DEF Engine
        <4>. QED BY <4>1, Settled DEF ReadDone, ++
      <3>. QED BY <3>1, <3>2 DEF ++
    <2>. QED BY <2>1, <2>2, <2>3, <2>4, <2>5 DEF Reads
  <1>. QED BY <1>1, <1>2, <1>3 DEF Over, RegTypes, Registers

\* BUSY is clear: a fetch runs ahead, or nothing goes on.
LEMMA WhenWaiting ==
  ASSUME IInv, drv.pc \in {"wait", "data"}, "BUSY" \notin hd.status
  PROVE \/ Draining(hd, drv) /\ hd.st \in Reads
        \/ hd.st = "IDLE" /\ ~hd.rdPending /\ ~hd.resetting
  <1>1. DrvTrue(hd, drv) /\ ReadTrue(hd, bank, sd, disk, drv) /\ IdentTrue(hd, bank, drv)
        /\ WriteTrue(hd, bank, sd, disk, drv) /\ drv \in Drivers BY DEF IInv, Good, Types
  <1>2. CASE drv.op = "READ"
    <2>1. Draining(hd, drv) BY <1>2 DEF Draining
    <2>. QED BY <1>1, <2>1 DEF ReadTrue, Ahead
  <1>3. CASE drv.op = "IDENT" BY <1>1, <1>3 DEF IdentTrue
  <1>4. CASE drv.op = "WRITE" BY <1>1, <1>4 DEF WriteTrue
  <1>. QED BY <1>1, <1>2, <1>3, <1>4, DriverTypes DEF DrvTrue

LEMMA StatusStays ==
  ASSUME IInv, NEW free \in BOOLEAN, drv.pc \in {"wait", "data"}, "BUSY" \notin hd.status
  PROVE /\ DOMAIN Engine(free) \cap {"status", "off", "rdPending"} = {}
        /\ Alone(free).status = hd.status /\ Alone(free).off = hd.off
  BY WhenWaiting, FetchKeeps, StillAlone

LEMMA WaitKeeps == ASSUME IInv, Wait PROVE IInv'
  <1>1. drv.pc = "wait" /\ "BUSY" \notin hd.status /\ drv' = [drv EXCEPT !.pc = "data"]
    BY DEF Wait, Busy, DrvTo
  <1>2. PICK bus : bus = <<"none">> OBVIOUS
  <1>3. bus[1] = "none" /\ Clk(bus) BY <1>2 DEF Wait
  <1>4. Bus(bus) = Nothing BY <1>3 DEF Bus
  <1>5. PICK free \in BOOLEAN :
          /\ hd' = Edge(Engine(free), Bus(bus), HandOver, AfterReset)
          /\ Good(Alone(free), bank', sd', disk', prot', drv)
          /\ hd' = [r \in Registers |-> hd'[r]]
    BY <1>3, ClkParts
  <1>6. hd' = Alone(free) BY <1>4, <1>5 DEF Alone
  <1>7. "BUSY" \notin hd'.status BY <1>1, <1>6, StatusStays
  <1>8. Good(hd', bank', sd', disk', prot', drv') BY <1>1, <1>5, <1>6, <1>7, WaitGood
  <1>. QED BY <1>5, <1>8 DEF IInv

\* What the bus finds at a word of a sector, and of IDENTIFY.
LEMMA WhenDrained ==
  ASSUME IInv, drv.pc = "data", drv.op = "READ"
  PROVE /\ Draining(hd, drv) /\ "DRQ" \in hd.status /\ "BUSY" \notin hd.status /\ hd.off = drv.w
        /\ drv.k < drv.n - 1 =>
             (hd.pfValid \/ hd.count # 0 \/ hd.st # "IDLE") /\ ~(~hd.pfValid /\ hd.st = "IDLE")
        /\ ~(drv.k < drv.n - 1) =>
             hd.st = "IDLE" /\ ~hd.pfValid /\ hd.count = 0 /\ ~hd.rdPending /\ ~hd.resetting
  <1>1. ReadTrue(hd, bank, sd, disk, drv) /\ drv \in Drivers /\ RegTypes(hd) /\ DrvTrue(hd, drv)
    BY DEF IInv, Good, Types
  <1>2. Draining(hd, drv) BY DEF Draining
  <1>3. /\ "DRQ" \in hd.status /\ "BUSY" \notin hd.status /\ hd.off = drv.w /\ ~hd.rdPending
        /\ Ahead(hd, bank, sd, disk, drv, drv.n - drv.k - 1) BY <1>1, <1>2 DEF ReadTrue
  <1>4. drv.n \in Nat /\ drv.k \in Nat /\ hd.count \in Nat /\ drv.k < drv.n
    BY <1>1, DriverTypes DEF RegTypes, DrvTrue
  <1>5. ASSUME drv.k < drv.n - 1 PROVE hd.pfValid \/ hd.st # "IDLE" BY <1>3, <1>4, <1>5 DEF Ahead
  <1>6. ASSUME ~(drv.k < drv.n - 1)
        PROVE hd.st = "IDLE" /\ ~hd.pfValid /\ hd.count = 0 /\ ~hd.rdPending /\ ~hd.resetting
    <2>1. drv.n - drv.k - 1 = 0 BY <1>4, <1>6
    <2>2. Ahead(hd, bank, sd, disk, drv, 0) BY <1>3, <2>1
    <2>3. hd.count + (IF hd.pfValid THEN 1 ELSE 0) = 0 BY <2>2 DEF Ahead
    <2>4. ~hd.pfValid /\ hd.count = 0 BY <1>4, <2>3
    <2>. QED BY <1>3, <2>2, <2>4 DEF Ahead
  <1>. QED BY <1>2, <1>3, <1>5, <1>6

LEMMA WhenNamed ==
  ASSUME IInv, drv.pc = "data", drv.op = "IDENT"
  PROVE /\ "DRQ" \in hd.status /\ "BUSY" \notin hd.status /\ hd.off = drv.w
        /\ hd.st = "IDLE" /\ ~hd.pfValid /\ hd.count = 1 /\ ~hd.rdPending /\ ~hd.resetting
        /\ ~(drv.k < drv.n - 1)
  <1>1. IdentTrue(hd, bank, drv) /\ drv \in Drivers /\ DrvTrue(hd, drv) BY DEF IInv, Good, Types
  <1>2. drv.n = 1 /\ drv.k = 0 BY <1>1, DriverTypes DEF DrvTrue
  <1>. QED BY <1>1, <1>2 DEF IdentTrue

LEMMA ReadWordKeeps == ASSUME IInv, ReadWord PROVE IInv'
  <1>0. drv \in Drivers /\ DOMAIN hd = Registers /\ DrvTrue(hd, drv)
    BY DEF IInv, Good, Types, RegTypes
  <1>1. drv.pc = "data" /\ (drv.op = "READ" \/ drv.op = "IDENT")
    BY <1>0, DriverTypes DEF ReadWord, DrvTrue
  <1>2. PICK bus : bus = <<"rdata">> OBVIOUS
  <1>3. bus[1] = "rdata" /\ Clk(bus) BY <1>2 DEF ReadWord
  <1>4. "DRQ" \in hd.status /\ "BUSY" \notin hd.status /\ hd.off = drv.w
    BY <1>1, WhenDrained, WhenNamed
  <1>5. Bus(bus) = IF drv.w = Words - 1 THEN LastWordRead ELSE [off |-> hd.off + 1]
    BY <1>3, <1>4 DEF Bus, Drq
  <1>6. PICK free \in BOOLEAN :
          /\ Good(Alone(free), bank', sd', disk', prot', drv)
          /\ hd' = [r \in Registers |-> hd'[r]]
          /\ DOMAIN Engine(free) \cap DOMAIN Bus(bus) = {} => hd' = Over(Bus(bus), Alone(free))
    BY <1>3, ClkParts
  <1>7. /\ DOMAIN Engine(free) \cap {"status", "off", "rdPending"} = {}
        /\ Alone(free).status = hd.status /\ Alone(free).off = hd.off BY <1>1, <1>4, StatusStays
  <1>8. DOMAIN Alone(free) = Registers BY <1>0 DEF Alone, Edge
  <1>w. drv.w \in Nat /\ drv.w \in Idx /\ Words \in Nat
    BY <1>0, SizeAssumption DEF Drivers, Idx
  <1>9. CASE drv.w < Words - 1
    <2>1. Bus(bus) = [off |-> hd.off + 1] BY <1>5, <1>9, <1>w
    <2>. PICK o : o = Alone(free).off + 1 OBVIOUS
    <2>2. DOMAIN Bus(bus) = {"off"} /\ Bus(bus).off = o BY <1>7, <2>1
    <2>3. hd' = Over(Bus(bus), Alone(free)) BY <1>6, <1>7, <2>2
    <2>4. hd' = [Alone(free) EXCEPT !.off = o] BY <1>8, <2>2, <2>3 DEF Over, Registers
    <2>5. drv' = [drv EXCEPT !.w = drv.w + 1] BY <1>9 DEF ReadWord
    <2>6. Good(hd', bank', sd', disk', prot', drv')
      BY <1>1, <1>6, <1>9, <2>4, <2>5, ReadOnGood
    <2>. QED BY <1>6, <2>6 DEF IInv
  <1>10. CASE ~(drv.w < Words - 1)
    <2>0. Bus(bus) = LastWordRead BY <1>5, <1>10, <1>w DEF Idx
    <2>1. CASE drv.op = "READ" /\ drv.k < drv.n - 1
      <3>. PICK bits : bits = (Alone(free).status \ {"DRQ"}) \cup {"BUSY"} OBVIOUS
      <3>1. LastWordRead = [off |-> 0] ++ ([rdPending |-> TRUE, status |-> bits] ++ Nothing)
        BY <1>1, <1>7, <2>1, WhenDrained DEF LastWordRead
      <3>2. /\ DOMAIN Bus(bus) = {"off", "rdPending", "status"} /\ Bus(bus).off = 0
            /\ Bus(bus).rdPending = TRUE /\ Bus(bus).status = bits BY <2>0, <3>1, NoPart DEF ++
      <3>3. hd' = Over(Bus(bus), Alone(free)) BY <1>6, <1>7, <3>2
      <3>4. hd' = [Alone(free) EXCEPT !.off = 0, !.rdPending = TRUE, !.status = bits]
        BY <1>8, <3>2, <3>3 DEF Over, Registers
      <3>5. drv' = [drv EXCEPT !.w = 0, !.k = drv.k + 1, !.pc = "wait"]
        BY <1>10, <2>1 DEF ReadWord
      <3>6. Good(hd', bank', sd', disk', prot', drv')
        BY <1>1, <1>6, <2>1, <3>4, <3>5, ReadMoreGood
      <3>. QED BY <1>6, <3>6 DEF IInv
    <2>2. CASE drv.op = "READ" /\ ~(drv.k < drv.n - 1)
      <3>0. Alone(free) = hd /\ DOMAIN Engine(free) = {} BY <1>1, <2>2, WhenDrained, StillAlone
      <3>. PICK bits : bits = hd.status \ {"DRQ", "BUSY"} OBVIOUS
      <3>1. LastWordRead = [off |-> 0] ++ [status |-> bits]
        BY <1>1, <2>2, WhenDrained DEF LastWordRead
      <3>2. DOMAIN Bus(bus) = {"off", "status"} /\ Bus(bus).off = 0 /\ Bus(bus).status = bits
        BY <2>0, <3>1 DEF ++
      <3>3. hd' = Over(Bus(bus), hd) BY <1>6, <3>0
      <3>4. hd' = [hd EXCEPT !.off = 0, !.status = bits] BY <1>0, <3>2, <3>3 DEF Over, Registers
      <3>5. drv' = [drv EXCEPT !.pc = "idle"] BY <1>10, <2>2 DEF ReadWord
      <3>6. Good(hd', bank', sd', disk', prot', drv')
        BY <1>1, <1>6, <2>2, <3>0, <3>4, <3>5, ReadEndGood
      <3>. QED BY <1>6, <3>6 DEF IInv
    <2>3. CASE drv.op = "IDENT"
      <3>0. Alone(free) = hd /\ DOMAIN Engine(free) = {} BY <1>1, <2>3, WhenNamed, StillAlone
      <3>. PICK bits, b : bits = (hd.status \ {"DRQ"}) \cup {"BUSY"} /\ b = 1 - hd.cur OBVIOUS
      <3>1. LastWordRead = [off |-> 0] ++ ([rdPending |-> TRUE, status |-> bits]
                                           ++ [fbank |-> b, st |-> "RD_LBA1"])
        BY <1>1, <2>3, WhenNamed DEF LastWordRead
      <3>2. /\ DOMAIN Bus(bus) = {"off", "rdPending", "status", "fbank", "st"} /\ Bus(bus).off = 0
            /\ Bus(bus).rdPending = TRUE /\ Bus(bus).status = bits
            /\ Bus(bus).fbank = b /\ Bus(bus).st = "RD_LBA1" BY <2>0, <3>1 DEF ++
      <3>3. hd' = Over(Bus(bus), hd) BY <1>6, <3>0
      <3>4. hd' = [hd EXCEPT !.off = 0, !.rdPending = TRUE, !.status = bits, !.fbank = b, !.st = "RD_LBA1"]
        BY <1>0, <3>2, <3>3 DEF Over, Registers
      <3>5. drv' = [drv EXCEPT !.pc = "idle"] BY <1>1, <1>10, <2>3, WhenNamed DEF ReadWord
      <3>6. Good(hd', bank', sd', disk', prot', drv')
        BY <1>1, <1>6, <2>3, <3>0, <3>4, <3>5, IdentEndGood
      <3>. QED BY <1>6, <3>6 DEF IInv
    <2>. QED BY <1>1, <2>1, <2>2, <2>3
  <1>. QED BY <1>9, <1>10

LEMMA WriteWordKeeps == ASSUME IInv, WriteWord PROVE IInv'
  <1>0. Good(hd, bank, sd, disk, prot, drv) /\ RegTypes(hd) /\ DOMAIN hd = Registers
        /\ drv \in Drivers
    BY DEF IInv, Good, Types, RegTypes
  <1>1. drv.pc = "data" /\ drv.op = "WRITE" BY DEF WriteWord
  <1>2. /\ hd.st = "IDLE" /\ "BUSY" \notin hd.status /\ "DRQ" \in hd.status
        /\ ~hd.rdPending /\ ~hd.pfValid /\ ~hd.resetting
        /\ sd.st = "ready" /\ ~hd.rstart /\ ~hd.wstart
    BY <1>0, <1>1, WhenWritten
  <1>3. PICK word : word = <<drv.lba + drv.k, drv.w, 1 - drv.ref[drv.lba + drv.k]>> OBVIOUS
  <1>4. PICK bus : bus = <<"wdata", word>> OBVIOUS
  <1>5. Clk(bus) /\ bus[1] = "wdata" /\ bus[2] = word BY <1>3, <1>4 DEF WriteWord, Here, Age
  <1>6. PICK free \in BOOLEAN : hd' = Edge(Engine(free), Bus(bus), HandOver, AfterReset)
    BY <1>5 DEF Clk
  <1>7. Alone(free) = hd /\ DOMAIN Engine(free) = {} BY <1>2, StillAlone
  <1>8. hd' = Over(Bus(bus), hd) BY <1>6, <1>7, EdgeSplits DEF Alone
  <1>9. hd' = [r \in Registers |-> hd'[r]] BY <1>0, <1>6, EdgeIsRegisters
  <1>10. sd' = sd BY <1>2, <1>5 DEF Clk, SdClk
  <1>11. ~Passes BY <1>2 DEF Passes
  <1>12. disk' = disk /\ Filled = bank /\ prot' = prot BY <1>5, <1>11 DEF Clk, DiskClk, Filled
  <1>13. hd.off = drv.w BY <1>0, <1>1 DEF Good, WriteTrue
  <1>14. bank' = [bank EXCEPT ![hd.cur][hd.off] = word] BY <1>2, <1>5, <1>12 DEF Clk, BankClk, Drq
  <1>15. Puts(hd, bank, drv, bank') BY <1>3, <1>14 DEF Puts
  <1>16. Bus(bus) = IF drv.w = Words - 1 THEN LastWordWritten ELSE [off |-> hd.off + 1]
    BY <1>2, <1>5, <1>13 DEF Bus, Drq
  <1>w. drv.w \in Nat /\ drv.w \in Idx /\ Words \in Nat BY <1>0, SizeAssumption DEF Drivers, Idx
  <1>17. CASE drv.w < Words - 1
    <2>. PICK o : o = hd.off + 1 OBVIOUS
    <2>1. DOMAIN Bus(bus) = {"off"} /\ Bus(bus).off = o BY <1>16, <1>17, <1>w
    <2>2. hd' = [hd EXCEPT !.off = o] BY <1>0, <1>8, <2>1 DEF Over, Registers
    <2>3. drv' = [drv EXCEPT !.w = drv.w + 1] BY <1>17 DEF WriteWord
    <2>4. Good(hd', bank', sd, disk, prot, drv')
      BY <1>0, <1>1, <1>15, <1>17, <2>2, <2>3, WriteOnGood
    <2>. QED BY <1>9, <1>10, <1>12, <2>4 DEF IInv
  <1>18. CASE ~(drv.w < Words - 1)
    <2>. PICK bits : bits = (hd.status \ {"DRQ"}) \cup {"BUSY"} OBVIOUS
    <2>1. Bus(bus) = [off |-> 0, status |-> bits] ++ [st |-> "WR_LBA1"]
      BY <1>2, <1>16, <1>18, <1>w DEF LastWordWritten, Idx
    <2>2. /\ DOMAIN Bus(bus) = {"off", "status", "st"} /\ Bus(bus).off = 0
          /\ Bus(bus).status = bits /\ Bus(bus).st = "WR_LBA1" BY <2>1 DEF ++
    <2>3. hd' = [hd EXCEPT !.off = 0, !.status = bits, !.st = "WR_LBA1"]
      BY <1>0, <1>8, <2>2 DEF Over, Registers
    <2>4. drv' = [drv EXCEPT !.pc = "fin"] BY <1>18 DEF WriteWord
    <2>5. Good(hd', bank', sd, disk, prot, drv')
      BY <1>0, <1>1, <1>15, <1>18, <2>3, <2>4, WriteEndGood
    <2>. QED BY <1>9, <1>10, <1>12, <2>5 DEF IInv
  <1>. QED BY <1>17, <1>18

LEMMA WrittenKeeps == ASSUME IInv, Written PROVE IInv'
  <1>0. Good(hd, bank, sd, disk, prot, drv) /\ DrvTrue(hd, drv) /\ drv \in Drivers
    BY DEF IInv, Good, Types
  <1>1. drv.pc = "fin" /\ "BUSY" \notin hd.status /\ Clk(<<"none">>) BY DEF Written, Busy
  <1>2. drv.op = "WRITE" BY <1>0, <1>1 DEF DrvTrue
  <1>3. hd.st = "IDLE" /\ ~hd.rdPending /\ ~hd.resetting BY <1>0, <1>1, <1>2, WhenWritten
  <1>4. Good(hd', bank', sd', disk', prot', drv) /\ hd' = [r \in Registers |-> hd'[r]] /\ hd' = hd
    BY <1>1, <1>3, NoAccess
  <1>5. CASE "ERROR" \in hd.status
    <2>1. drv' = [drv EXCEPT !.ref = drv.ref, !.pc = "idle"] BY <1>5 DEF Written
    <2>2. drv' = [drv EXCEPT !.pc = "idle"] BY <1>0, <2>1 DEF Drivers
    <2>3. Good(hd', bank', sd', disk', prot', drv') BY <1>1, <1>4, <1>5, <2>2, RefusalGood
    <2>. QED BY <1>4, <2>3 DEF IInv
  <1>6. CASE "ERROR" \notin hd.status
    <2>. PICK ref : ref = [drv.ref EXCEPT ![drv.lba + drv.k] = 1 - drv.ref[drv.lba + drv.k]] OBVIOUS
    <2>1. drv' = IF drv.k < drv.n - 1
                 THEN [drv EXCEPT !.ref = ref, !.k = drv.k + 1, !.w = 0, !.pc = "data"]
                 ELSE [drv EXCEPT !.ref = ref, !.pc = "idle"]
      BY <1>6 DEF Written, Here, Age
    <2>2. Good(hd', bank', sd', disk', prot', drv') BY <1>1, <1>4, <1>6, <2>1, WrittenGood
    <2>. QED BY <1>4, <2>2 DEF IInv
  <1>. QED BY <1>5, <1>6

LEMMA ResetTypes ==
  ASSUME NEW h, DOMAIN h = Registers,
         h.status = {"BUSY"} /\ h.resetting = TRUE /\ h.st = "IDLE" /\ h.rstart = FALSE,
         h.wstart = FALSE /\ h.off = 0 /\ h.count = 0 /\ h.cur = 0 /\ h.fbank = 0,
         h.rdPending = FALSE /\ h.pfValid = FALSE /\ h.restart = FALSE,
         h.wrPending = FALSE /\ h.pfBank = 0 /\ h.geo = Geometry,
         h.addr \in Addresses /\ h.sector \in Nat /\ h.lbaT \in Nat /\ h.fill \in 0..Words
  PROVE  RegTypes(h)
  <1>1. h.status \subseteq Flags /\ h.st \in St BY DEF Flags, St
  <1>2. h.off \in Idx /\ h.count \in 0..256 BY SizeAssumption DEF Idx
  <1>3. h.cur \in {0, 1} /\ h.fbank \in {0, 1} /\ h.pfBank \in {0, 1} OBVIOUS
  <1>4. h.geo \in Geometries BY GeometryAssumption
  <1>5. /\ h.resetting \in BOOLEAN /\ h.rstart \in BOOLEAN /\ h.wstart \in BOOLEAN
        /\ h.rdPending \in BOOLEAN /\ h.pfValid \in BOOLEAN
        /\ h.restart \in BOOLEAN /\ h.wrPending \in BOOLEAN
    BY Zenon
  <1>. QED
    BY ONLY <1>1, <1>2, <1>3, <1>4, <1>5, DOMAIN h = Registers,
         h.addr \in Addresses /\ h.sector \in Nat /\ h.lbaT \in Nat /\ h.fill \in 0..Words,
         Zenon DEF RegTypes

\* A reset: the card goes on with what it is doing, and nobody waits for it.
LEMMA RstKeeps == ASSUME IInv, Calm, Rst PROVE IInv'
  <1>0. Good(hd, bank, sd, disk, prot, drv) /\ RegTypes(hd) /\ DrvTrue(hd, drv) /\ drv \in Drivers
        /\ prot \in BOOLEAN
    BY DEF IInv, Good, Types
  <1>1. /\ "reset" \in Upsets /\ Ops \subseteq {"READ", "SETCFG"} /\ SdClk /\ DiskClk
        /\ bank' = Filled /\ prot' = prot /\ hd' = Reset ++ hd
        /\ drv' = [DrvIdle EXCEPT !.ref = drv.ref]
    BY DEF Rst, Calm
  <1>2. drv.op # "WRITE" /\ drv.op # "IDENT" BY <1>0, <1>1 DEF DrvTrue
  <1>3. hd.st # "ID_FILL" BY <1>0, <1>2, WhenFilling
  <1>4. PICK m : m = Alone(TRUE) OBVIOUS
  <1>5. Good(m, bank', sd', disk', prot, drv)
    <2>1. Good(m, Fed, sd', disk', prot, drv) BY <1>1, <1>4, EdgeGood
    <2>. QED BY <1>1, <1>3, <2>1 DEF Fed
  <1>6. /\ bank' \in [{0, 1} -> [Idx -> Word]] /\ sd' \in Paths /\ disk' \in [Lba -> [Idx -> Word]]
        /\ DiskTrue(disk', drv) BY <1>5 DEF Good, Types, Paths
  <1>7. sd'.st = "ready" \/ ~sd'.wr
    <2>1. m.st \notin Writes BY <1>2, <1>5, WhenWriting
    <2>2. PathTrue(m, sd', prot, drv) BY <1>5 DEF Good
    <2>. QED BY <2>1, <2>2 DEF PathTrue, Stray, Writes
  <1>8. sd'.st = "done" => sd'.i = Words BY <1>5 DEF Good, PathTrue
  <1>9. \A l \in Lba : disk'[l] = Sector(l, drv.ref[l]) BY <1>2, <1>6 DEF DiskTrue
  <1>10. DOMAIN Reset = Registers \ {"addr", "sector", "lbaT", "fill"}
    BY DEF Reset, Registers
  <1>11. DOMAIN hd' = Registers /\ hd' = [r \in Registers |-> hd'[r]]
    BY <1>0, <1>1, <1>10 DEF ++, RegTypes, Registers
  <1>12. /\ hd'.status = {"BUSY"} /\ hd'.resetting = TRUE /\ hd'.st = "IDLE" /\ hd'.rstart = FALSE
         /\ hd'.wstart = FALSE /\ hd'.off = 0 /\ hd'.count = 0 /\ hd'.cur = 0 /\ hd'.fbank = 0
         /\ hd'.rdPending = FALSE /\ hd'.pfValid = FALSE /\ hd'.restart = FALSE
         /\ hd'.wrPending = FALSE /\ hd'.pfBank = 0 /\ hd'.geo = Geometry
    BY <1>0, <1>1, <1>10 DEF ++, Reset, RegTypes, Registers
  <1>13. hd'.addr = hd.addr /\ hd'.sector = hd.sector /\ hd'.lbaT = hd.lbaT /\ hd'.fill = hd.fill
    BY <1>0, <1>1, <1>10 DEF ++, RegTypes, Registers
  <1>14. RegTypes(hd')
    <2>1. hd'.addr \in Addresses /\ hd'.sector \in Nat /\ hd'.lbaT \in Nat /\ hd'.fill \in 0..Words
      BY <1>0, <1>13 DEF RegTypes
    <2>. QED BY ONLY <1>11, <1>12, <2>1, ResetTypes
  <1>15. /\ drv'.pc = "idle" /\ drv'.op = "SETCFG" /\ drv'.lba = 0 /\ drv'.n = 1 /\ drv'.k = 0
         /\ drv'.w = 0 /\ drv'.geo = Geometry /\ drv'.ref = drv.ref
    BY <1>1 DEF DrvIdle
  <1>16. drv' \in Drivers
    <2>1. 0 \in Idx /\ 0 \in Lba /\ 1 \in 1..MaxCount /\ Geometry \in Geometries
      BY SizeAssumption, GeometryAssumption DEF Idx, Lba
    <2>2. drv.ref \in [Lba -> {0, 1}] BY <1>0 DEF Drivers
    <2>3. drv' = [pc |-> "idle", op |-> "SETCFG", mode |-> "lba", lba |-> 0, n |-> 1, k |-> 0,
                  w |-> 0, geo |-> Geometry, ref |-> drv.ref] BY <1>1 DEF DrvIdle
    <2>. QED BY <2>1, <2>2, <2>3 DEF Drivers, Addressing
  <1>17. Types(hd', bank', sd', disk', prot', drv')
    BY <1>0, <1>1, <1>6, <1>14, <1>16 DEF Types, Paths
  <1>18. DrvTrue(hd', drv') BY <1>12, <1>15, SizeAssumption DEF DrvTrue
  <1>19. ~Ours(hd', sd') BY <1>12 DEF Ours, Raised
  <1>20. PathTrue(hd', sd', prot', drv')
    BY <1>1, <1>7, <1>8, <1>12, <1>15, <1>19 DEF PathTrue, Stray
  <1>21. Resets(hd') BY <1>12 DEF Resets
  <1>22. IdleTrue(hd', drv') BY <1>15, <1>21 DEF IdleTrue
  <1>23. ReadTrue(hd', bank', sd', disk', drv') /\ IdentTrue(hd', bank', drv')
         /\ WriteTrue(hd', bank', sd', disk', drv')
    BY <1>15 DEF ReadTrue, Fetching, Draining, IdentTrue, WriteTrue
  <1>24. DiskTrue(disk', drv') BY <1>9, <1>15 DEF DiskTrue
  <1>. QED BY <1>11, <1>17, <1>18, <1>20, <1>22, <1>23, <1>24 DEF IInv, Good

LEMMA SetProtKeeps == ASSUME IInv, Calm, SetProt PROVE IInv'
  <1>1. Types(hd, bank, sd, disk, prot, drv) /\ DrvTrue(hd, drv) /\ PathTrue(hd, sd, prot, drv)
        /\ IdleTrue(hd, drv) /\ ReadTrue(hd, bank, sd, disk, drv) /\ IdentTrue(hd, bank, drv)
        /\ WriteTrue(hd, bank, sd, disk, drv) /\ DiskTrue(disk, drv)
        /\ hd = [r \in Registers |-> hd[r]] BY DEF IInv, Good
  <1>2. ~hd.wstart /\ prot' \in BOOLEAN BY ChoiceAssumption DEF SetProt, Calm
  <1>3. UNCHANGED <<hd, bank, sd, disk, drv>> BY DEF SetProt
  <1>4. Types(hd, bank, sd, disk, prot', drv) BY <1>1, <1>2 DEF Types
  <1>5. PathTrue(hd, sd, prot', drv) BY <1>1, <1>2 DEF PathTrue
  <1>6. Good(hd, bank, sd, disk, prot', drv) BY <1>1, <1>4, <1>5 DEF Good
  <1>. QED BY <1>1, <1>3, <1>6 DEF IInv

LEMMA InitGood == ASSUME Init PROVE IInv
  <1>1. PICK a : a = Address(0, "lba", Geometry) OBVIOUS
  <1>2. PICK rest : rest = [addr |-> a, sector |-> 0, lbaT |-> 0, fill |-> 0] OBVIOUS
  <1>3. hd = Reset ++ rest BY <1>1, <1>2 DEF Init
  <1>4. DOMAIN Reset = Registers \ {"addr", "sector", "lbaT", "fill"}
        /\ DOMAIN rest = {"addr", "sector", "lbaT", "fill"}
    BY <1>2 DEF Reset, Registers
  <1>5. DOMAIN hd = Registers /\ hd = [r \in Registers |-> hd[r]]
    BY <1>3, <1>4 DEF ++, Registers
  <1>6. /\ hd.status = {"BUSY"} /\ hd.resetting = TRUE /\ hd.st = "IDLE" /\ hd.rstart = FALSE
        /\ hd.wstart = FALSE /\ hd.off = 0 /\ hd.count = 0 /\ hd.cur = 0 /\ hd.fbank = 0
        /\ hd.rdPending = FALSE /\ hd.pfValid = FALSE /\ hd.restart = FALSE
        /\ hd.wrPending = FALSE /\ hd.pfBank = 0 /\ hd.geo = Geometry
    BY <1>3, <1>4 DEF ++, Reset, Registers
  <1>7. hd.addr = a /\ hd.sector = 0 /\ hd.lbaT = 0 /\ hd.fill = 0
    BY <1>2, <1>3, <1>4 DEF ++, Registers
  <1>8. a \in Addresses BY <1>1 DEF Address, Addresses, Addressing
  <1>9. 0 \in Idx /\ {"BUSY"} \subseteq Flags /\ "IDLE" \in St /\ 0 \in Lba /\ 1 \in 1..MaxCount
        /\ 0 \in 0..Words
    BY SizeAssumption DEF Idx, Flags, St, Lba
  <1>10. RegTypes(hd)
    <2>1. hd.addr \in Addresses /\ hd.sector \in Nat /\ hd.lbaT \in Nat /\ hd.fill \in 0..Words
      BY <1>7, <1>8, <1>9
    <2>. QED BY ONLY <1>5, <1>6, <2>1, ResetTypes
  <1>11. drv = [pc |-> "idle", op |-> "SETCFG", mode |-> "lba", lba |-> 0, n |-> 1, k |-> 0,
                w |-> 0, geo |-> Geometry, ref |-> [l \in Lba |-> 0]] BY DEF Init, DrvIdle
  <1>12. drv \in Drivers BY <1>9, <1>11, GeometryAssumption DEF Drivers, Addressing
  <1>13. sd = [st |-> "ready", wr |-> FALSE, lba |-> 0, i |-> 0] /\ prot \in BOOLEAN
    BY ChoiceAssumption DEF Init
  <1>14. sd \in Paths BY <1>9, <1>13 DEF Paths
  <1>15. bank \in [{0, 1} -> [Idx -> Word]] BY DEF Init, Word
  <1>16. disk = [l \in Lba |-> Sector(l, 0)] /\ disk \in [Lba -> [Idx -> Word]]
    <2>1. \A l \in Lba : Sector(l, 0) \in [Idx -> Word]
      <3>1. \A l \in Lba, i \in Idx : <<l, i, 0>> \in Lba \X Idx \X {0, 1} OBVIOUS
      <3>. QED BY <3>1 DEF Sector, Word
    <2>. QED BY <2>1 DEF Init
  <1>17. Types(hd, bank, sd, disk, prot, drv)
    BY <1>10, <1>12, <1>13, <1>14, <1>15, <1>16 DEF Types, Paths
  <1>18. DrvTrue(hd, drv) BY <1>6, <1>11, SizeAssumption DEF DrvTrue
  <1>19. PathTrue(hd, sd, prot, drv) BY <1>6, <1>13 DEF PathTrue, Ours
  <1>20. IdleTrue(hd, drv) BY <1>6, <1>11 DEF IdleTrue, Resets
  <1>21. ReadTrue(hd, bank, sd, disk, drv) /\ IdentTrue(hd, bank, drv)
        /\ WriteTrue(hd, bank, sd, disk, drv)
    BY <1>11 DEF ReadTrue, Fetching, Draining, IdentTrue, WriteTrue
  <1>22. DiskTrue(disk, drv) BY <1>11, <1>16 DEF DiskTrue
  <1>. QED BY <1>5, <1>17, <1>18, <1>19, <1>20, <1>21, <1>22 DEF IInv, Good

\* Every step keeps the invariant.
LEMMA NextKeeps == ASSUME IInv, Calm, [Next]_vars PROVE IInv'
  <1>1. CASE Driver
    <2>1. ~Drop BY DEF Drop, Calm
    <2>. QED BY <1>1, <2>1, ChooseKeeps, CountKeeps, AddrKeeps, CmdKeeps, WaitKeeps, ReadWordKeeps,
             WriteWordKeeps, WrittenKeeps DEF Driver
  <1>2. CASE Tick BY <1>2, TickKeeps
  <1>3. CASE SetProt BY <1>3, SetProtKeeps
  <1>4. CASE Rst BY <1>4, RstKeeps
  <1>5. CASE UNCHANGED vars
    <2>. USE <1>5 DEF vars
    <2>1. UNCHANGED <<hd, bank, sd, disk, prot, drv>> OBVIOUS
    <2>2. hd' = [r \in Registers |-> hd'[r]] BY <2>1 DEF IInv
    <2>. QED BY <2>1, <2>2 DEF IInv
  <1>. QED BY <1>1, <1>2, <1>3, <1>4, <1>5 DEF Next

-----------------------------------------------------------------------------
(* The theorems *)

\* IInv always holds.
THEOREM Invariance == ASSUME Calm PROVE Spec => []IInv
  <1>1. Init => IInv BY InitGood
  <1>2. IInv /\ [Next]_vars => IInv' BY NextKeeps
  <1>. QED BY <1>1, <1>2, PTL DEF Spec

\* What it says of the variables, of words that are read, of the image, and of
\* the time between commands.
LEMMA GoodIsTyped == ASSUME IInv PROVE TypeOK
  BY DEF IInv, Good, Types, RegTypes, TypeOK

LEMMA GoodDelivers == ASSUME IInv PROVE ReadDelivers
  <1>. SUFFICES ASSUME drv.pc = "data", drv.op # "WRITE"
                PROVE  Drq /\ ~Busy /\ bank[hd.cur][hd.off] = Expected
    BY DEF ReadDelivers
  <1>1. drv \in Drivers /\ DrvTrue(hd, drv) /\ ReadTrue(hd, bank, sd, disk, drv)
        /\ IdentTrue(hd, bank, drv) BY DEF IInv, Good, Types
  <1>2. drv.op = "READ" \/ drv.op = "IDENT" BY <1>1, DriverTypes DEF DrvTrue
  <1>3. CASE drv.op = "READ"
    <2>1. Draining(hd, drv) BY <1>3 DEF Draining
    <2>2. /\ "DRQ" \in hd.status /\ "BUSY" \notin hd.status
          /\ hd.off = drv.w /\ bank[hd.cur] = disk[drv.lba + drv.k] BY <1>1, <2>1 DEF ReadTrue
    <2>. QED BY <1>3, <2>2 DEF Drq, Busy, Expected, Here
  <1>4. CASE drv.op = "IDENT"
    <2>1. drv.w \in Idx BY <1>1 DEF Drivers
    <2>2. /\ "DRQ" \in hd.status /\ "BUSY" \notin hd.status
          /\ hd.off = drv.w /\ bank[hd.cur][drv.w] = IdentWord BY <1>1, <1>4, <2>1 DEF IdentTrue
    <2>. QED BY <1>4, <2>2 DEF Drq, Busy, Expected
  <1>. QED BY <1>2, <1>3, <1>4

LEMMA GoodTransfers == ASSUME IInv PROVE TransfersAsOrdered
  <1>1. WriteTrue(hd, bank, sd, disk, drv) /\ DiskTrue(disk, drv) /\ DrvTrue(hd, drv)
        /\ drv \in Drivers BY DEF IInv, Good, Types
  <1>2. ReadDelivers BY GoodDelivers
  <1>3. DiskAsOrdered
    <2>. SUFFICES ASSUME NEW l \in Lba, ~(Writing /\ l = Here)
                  PROVE  disk[l] = Sector(l, drv.ref[l])
      BY DEF DiskAsOrdered
    <2>1. ~(drv.op = "WRITE" /\ drv.pc = "fin" /\ l = drv.lba + drv.k) BY DEF Writing, Here
    <2>. QED BY <1>1, <2>1 DEF DiskTrue
  <1>4. WriteLands
    <2>. SUFFICES ASSUME drv.pc = "fin", "BUSY" \notin hd.status
                  PROVE  disk[Here] = Sector(Here, IF "ERROR" \in hd.status THEN drv.ref[Here] ELSE Age)
      BY DEF WriteLands, Busy
    <2>1. drv.op = "WRITE" BY <1>1 DEF DrvTrue
    <2>. QED BY <1>1, <2>1 DEF WriteTrue, Here, Age
  <1>. QED BY <1>2, <1>3, <1>4 DEF TransfersAsOrdered

LEMMA GoodIsQuiet == ASSUME IInv, "reset" \notin Upsets PROVE QuietWhenReady
  <1>. SUFFICES ASSUME drv.pc = "idle", "BUSY" \notin hd.status
                PROVE  hd.st = "IDLE" /\ ~hd.rstart /\ ~hd.wstart /\ ~hd.rdPending /\ sd.st = "ready"
    BY DEF QuietWhenReady, Busy
  <1>1. IdleTrue(hd, drv) /\ PathTrue(hd, sd, prot, drv) BY DEF IInv, Good
  <1>2. Quiet(hd) BY <1>1 DEF IdleTrue, Resets, Fetching
  <1>. QED BY <1>1, <1>2 DEF Quiet, PathTrue, Ours, Raised, Stray

\* Every register keeps its range: the word counter and the bank numbers never
\* leave the buffer, the sector number of a transfer never leaves the image.
THEOREM TypeCorrect == ASSUME Calm PROVE Spec => []TypeOK
  <1>1. IInv => TypeOK BY GoodIsTyped
  <1>. QED BY <1>1, Invariance, PTL

\* Every word the driver reads is the right one: ide.v keeps two banks, a read
\* ahead and the task file in step for commands of any length, across tracks and
\* cylinders of any geometry, and where INIT interrupts reads at any edge.
THEOREM ReadsRight == ASSUME Calm PROVE Spec => []ReadDelivers
  <1>1. IInv => ReadDelivers BY GoodDelivers
  <1>. QED BY <1>1, Invariance, PTL

\* What is read and what is on the card is as the driver ordered, and a refused
\* WRITE leaves the card alone.
THEOREM TransfersRight == ASSUME Calm PROVE Spec => []TransfersAsOrdered
  <1>1. IInv => TransfersAsOrdered BY GoodTransfers
  <1>. QED BY <1>1, Invariance, PTL

\* Once BUSY is clear between commands, nothing is on its way.  INIT is left out:
\* the transfer it interrupts is still under way when BUSY clears.
THEOREM QuietBetweenCommands == ASSUME Upsets \subseteq {"race"} PROVE Spec => []QuietWhenReady
  <1>1. Calm /\ "reset" \notin Upsets BY DEF Calm
  <1>2. IInv => QuietWhenReady BY <1>1, GoodIsQuiet
  <1>. QED BY <1>1, <1>2, Invariance, PTL

-----------------------------------------------------------------------------
(* Reads that are left before their end *)

\* A driver that leaves reads may find one still on its way when it gives its
\* next command.
Leaves == Upsets \subseteq {"drop"} /\ Ops \subseteq {"READ", "WRITE"} /\ WProt \subseteq {FALSE}

\* The types that are left.  Count and address may be anything: the end of a fetch
\* that was left may count down and step on what the driver has programmed.
OneTypes(h, bk, s, dk, d) ==
  /\ h = [r \in Registers |-> h[r]]
  /\ h.status \subseteq {"BUSY", "DRQ"} /\ h.st \in {"IDLE"} \cup Reads \cup Writes
  /\ h.off \in Idx /\ h.count \in Nat /\ h.addr \in Addresses /\ h.geo = Geometry
  /\ h.cur \in {0, 1} /\ h.fbank \in {0, 1} /\ h.pfBank \in {0, 1}
  /\ h.resetting \in BOOLEAN /\ h.rstart \in BOOLEAN /\ h.wstart \in BOOLEAN
  /\ h.rdPending \in BOOLEAN /\ h.pfValid \in BOOLEAN
  /\ h.restart \in BOOLEAN /\ h.wrPending \in BOOLEAN
  /\ bk \in [{0, 1} -> [Idx -> Word]] /\ dk \in [Lba -> [Idx -> Word]]
  /\ s = [st |-> s.st, wr |-> s.wr, lba |-> s.lba, i |-> s.i]
  /\ s.st \in {"ready", "busy", "done"} /\ s.wr \in BOOLEAN /\ s.i \in 0..Words
  /\ d \in Drivers /\ d.geo = Geometry /\ d.k < d.n /\ d.lba + d.n - 1 <= MaxLba

\* Every transfer is the one the engine waits for, also when nobody else does.
Linked(h, s) ==
  /\ h.rstart => h.st = "RD_REQ"
  /\ h.wstart => h.st = "WR_REQ"
  /\ h.st \in {"RD_WAIT", "WR_WAIT"} => s.st # "ready"
  /\ s.st # "ready" => Ours(h, s) /\ s.lba = h.sector /\ (s.wr <=> h.st \in Writes)
  /\ s.st # "ready" /\ Raised(h) => s.st = "busy" /\ s.i = 0
  /\ s.st = "done" => s.i = Words
  /\ h.st \in Reads => ~h.pfValid

\* The bus is the driver's.  A fetch may be on its way, into the bank that the bus
\* does not use.
Free(h) ==
  /\ "BUSY" \notin h.status /\ ~h.resetting /\ ~h.rdPending /\ ~h.restart /\ ~h.wrPending
  /\ h.st \in Reads \cup {"IDLE"} /\ (h.st \in Reads => h.fbank = 1 - h.cur)

\* A word is there to be moved.
Offers(h, w) == Free(h) /\ "DRQ" \in h.status /\ h.off = w

\* A READ waits for its sector; first for the end of a fetch that it has made void.
Awaits(h) ==
  /\ "BUSY" \in h.status /\ "DRQ" \notin h.status /\ ~h.resetting /\ h.rdPending /\ ~h.wrPending
  /\ h.st \in Reads \cup {"IDLE"} /\ (h.restart => h.st \in Reads)

\* A sector is stored; first a fetch on its way ends.
Storing(h) ==
  /\ "BUSY" \in h.status /\ "DRQ" \notin h.status /\ ~h.resetting /\ ~h.rdPending /\ ~h.restart
  /\ h.off = 0
  /\ IF h.wrPending THEN h.st \in Reads /\ h.fbank = 1 - h.cur ELSE h.st \in Writes

Starts(h) == Resets(h) /\ ~h.restart /\ ~h.wrPending

\* What the cartridge does, seen from where the driver is.
InStep(h, d) ==
  /\ d.pc = "idle" => Free(h) \/ Awaits(h) \/ Starts(h)
  /\ d.pc \in {"count", "addr", "cmd"} => Free(h)
  /\ d.pc = "wait" /\ d.op = "READ" => Awaits(h) \/ (Free(h) /\ ("DRQ" \in h.status => h.off = 0))
  /\ d.pc = "data" \/ (d.pc = "wait" /\ d.op = "WRITE") => Offers(h, d.w)
  /\ d.pc = "fin" => Storing(h) \/ Offers(h, 0)
  /\ d.pc \in {"count", "addr", "cmd", "wait"} => d.w = 0
  /\ d.pc # "idle" => d.op \in {"READ", "WRITE"}
  /\ d.pc = "fin" => d.op = "WRITE"

\* The end of a fetch that was left will not step the address.
Steady(h) == h.count <= 1 \/ h.st = "IDLE"

\* The words of sector l that have passed are in bank b, or on the card.
Come(h, bk, s, dk, l) ==
  s.st # "ready" => \A j \in Idx : j < s.i => bk[h.fbank][j] = dk[l][j]
Gone(s, dk, l, new) ==
  s.st # "ready" => \A j \in Idx : j < s.i => dk[l][j] = new[j]

\* A command for one sector: a READ.
OneRead(h, bk, s, dk, d) ==
  /\ d.pc = "wait" /\ h.rdPending =>
       /\ h.restart => At(h.addr, h.geo, d.lba)
       /\ h.st \in Reads /\ ~h.restart => Going(h, d.lba) /\ Come(h, bk, s, dk, d.lba)
       /\ h.pfValid => bk[h.pfBank] = dk[d.lba]
  /\ d.pc = "data" \/ (d.pc = "wait" /\ ~h.rdPending) => bk[h.cur] = dk[d.lba]

\* A WRITE.
OneWrite(h, bk, s, dk, d) ==
  LET new == Sector(d.lba, 1 - d.ref[d.lba]) IN
  /\ d.pc \in {"wait", "data"} =>
       /\ At(h.addr, h.geo, d.lba) /\ Steady(h)
       /\ \A j \in Idx : j < d.w => bk[h.cur][j] = new[j]
  /\ d.pc = "fin" /\ "BUSY" \in h.status =>
       /\ At(h.addr, h.geo, d.lba) /\ bk[h.cur] = new
       /\ IF h.wrPending THEN h.count <= 1 ELSE Going(h, d.lba) /\ Gone(s, dk, d.lba, new)
  /\ d.pc = "fin" /\ "BUSY" \notin h.status => dk[d.lba] = new

OneTrue(h, bk, s, dk, d) ==
  d.n = 1 =>
    /\ d.pc \in {"addr", "cmd"} => Steady(h)
    /\ d.pc = "cmd" => At(h.addr, h.geo, d.lba)
    /\ d.op = "READ" => OneRead(h, bk, s, dk, d)
    /\ d.op = "WRITE" => OneWrite(h, bk, s, dk, d)

\* All of it.
One(h, bk, s, dk, d) ==
  OneTypes(h, bk, s, dk, d) /\ Linked(h, s) /\ InStep(h, d) /\ OneTrue(h, bk, s, dk, d)

\* The inductive invariant for a driver that leaves reads.
IOne == One(hd, bank, sd, disk, drv) /\ prot = FALSE

\* Where the engine is tells what the driver waits for.
LEMMA WhereInStep ==
  ASSUME NEW h, NEW bk, NEW s, NEW dk, NEW d, One(h, bk, s, dk, d)
  PROVE /\ Free(h) \/ Awaits(h) \/ Starts(h) \/ Storing(h)
        /\ Starts(h) => d.pc = "idle"
        /\ Storing(h) => d.pc = "fin" /\ d.op = "WRITE"
        /\ Awaits(h) => d.pc = "idle" \/ (d.pc = "wait" /\ d.op = "READ")
        /\ h.st \in Writes => Storing(h) /\ ~h.wrPending
        /\ h.st \in Reads => ~Starts(h) /\ (Storing(h) => h.wrPending)
  <1>1. InStep(h, d) /\ d \in Drivers BY DEF One, OneTypes
  <1>2. /\ d.pc \in {"idle", "count", "addr", "cmd", "wait", "data", "fin"}
        /\ d.op \in {"READ", "WRITE", "IDENT", "SETCFG"} BY <1>1, DriverTypes
  <1>3. /\ Free(h) => "BUSY" \notin h.status /\ h.st \notin Writes /\ ~h.resetting
        /\ Awaits(h) => "BUSY" \in h.status /\ h.rdPending /\ h.st \notin Writes /\ ~h.resetting
        /\ Storing(h) => "BUSY" \in h.status /\ ~h.rdPending /\ ~h.resetting
        /\ Starts(h) => "BUSY" \in h.status /\ ~h.rdPending /\ h.st = "IDLE" /\ h.resetting
    BY DEF Free, Awaits, Storing, Starts, Resets, Reads, Writes
  <1>4. Free(h) \/ Awaits(h) \/ Starts(h) \/ Storing(h)
    BY <1>1, <1>2 DEF InStep, Offers
  <1>5. Starts(h) => d.pc = "idle" BY <1>1, <1>2, <1>3 DEF InStep, Offers
  <1>6. Storing(h) => d.pc = "fin" BY <1>1, <1>2, <1>3 DEF InStep, Offers
  <1>7. Awaits(h) => d.pc = "idle" \/ (d.pc = "wait" /\ d.op = "READ")
    BY <1>1, <1>2, <1>3 DEF InStep, Offers
  <1>8. h.st \in Writes => Storing(h) /\ ~h.wrPending
    BY <1>3, <1>4 DEF Storing, Reads, Writes
  <1>9. h.st \in Reads => ~Starts(h) /\ (Storing(h) => h.wrPending)
    BY <1>3 DEF Storing, Reads, Writes
  <1>. QED BY <1>1, <1>4, <1>5, <1>6, <1>7, <1>8, <1>9 DEF InStep

-----------------------------------------------------------------------------
(* The engine goes on, and a fetch ends *)

\* The engine goes on with the sector it works on.
LEMMA OneAdvances ==
  ASSUME NEW h, NEW bk, NEW s, NEW dk, NEW d, NEW m, One(h, bk, s, dk, d),
         OneTypes(m, bk, s, dk, d), Linked(m, s),
         \/ h.st \in Reads /\ m.st \in Reads
         \/ h.st \in Writes /\ m.st \in Writes,
         Keeps(h, m), \A l \in Nat : Going(h, l) => Going(m, l)
  PROVE One(m, bk, s, dk, d)
  <1>1. InStep(h, d) /\ OneTrue(h, bk, s, dk, d) /\ d.lba \in Nat
    BY DriverTypes DEF One, OneTypes
  <1>2. h.st # "IDLE" /\ m.st # "IDLE" BY DEF Reads, Writes
  <1>3. /\ (Free(m) <=> Free(h)) /\ (Awaits(m) <=> Awaits(h)) /\ (Storing(m) <=> Storing(h))
        /\ \A w : Offers(m, w) <=> Offers(h, w)
    <2>1. Free(m) <=> Free(h) BY <1>2 DEF Keeps, Free, Reads, Writes
    <2>2. Awaits(m) <=> Awaits(h) BY <1>2 DEF Keeps, Awaits, Reads, Writes
    <2>3. Storing(m) <=> Storing(h) BY <1>2 DEF Keeps, Storing, Reads, Writes
    <2>. QED BY <2>1, <2>2, <2>3 DEF Keeps, Offers
  <1>4. ~Starts(h) /\ ~Starts(m) BY <1>2 DEF Starts, Resets
  <1>5. InStep(m, d) BY <1>1, <1>3, <1>4 DEF InStep, Keeps
  <1>6. Steady(m) <=> Steady(h) BY <1>2 DEF Steady, Keeps
  <1>7. OneRead(h, bk, s, dk, d) => OneRead(m, bk, s, dk, d)
    BY <1>1 DEF OneRead, Come, Keeps, Reads, Writes
  <1>8. OneWrite(h, bk, s, dk, d) => OneWrite(m, bk, s, dk, d)
    BY <1>1, <1>6 DEF OneWrite, Keeps
  <1>9. OneTrue(m, bk, s, dk, d) BY <1>1, <1>6, <1>7, <1>8 DEF OneTrue, Keeps
  <1>. QED BY <1>5, <1>9 DEF One

LEMMA LooksOne ==
  ASSUME NEW h, NEW bk, NEW s, NEW dk, NEW d, NEW m, One(h, bk, s, dk, d), Looks(h, m)
  PROVE One(m, bk, s, dk, d)
  <1>1. OneTypes(h, bk, s, dk, d) /\ Linked(h, s) /\ DOMAIN h = Registers BY DEF One, OneTypes
  <1>2. PICK st : st = (IF h.st = "RD_LBA1" THEN "RD_REQ" ELSE "WR_REQ") OBVIOUS
  <1>3. m = [h EXCEPT !.sector = h.addr.sec, !.st = st] /\ h.st \in {"RD_LBA1", "WR_LBA1"}
        /\ h.addr.mode = "lba"
    BY <1>2 DEF Looks
  <1>4. /\ m.st = st /\ m.sector = h.addr.sec /\ m = [r \in Registers |-> m[r]]
        /\ Keeps(h, m) /\ m.rstart = h.rstart /\ m.wstart = h.wstart
    BY <1>1, <1>3 DEF Registers, Keeps
  <1>5. \/ h.st \in Reads /\ m.st \in Reads
        \/ h.st \in Writes /\ m.st \in Writes BY <1>2, <1>3, <1>4 DEF Reads, Writes
  <1>6. OneTypes(m, bk, s, dk, d) BY <1>1, <1>4, <1>5 DEF OneTypes, Keeps
  <1>7. ~h.rstart /\ ~h.wstart /\ s.st = "ready" BY <1>1, <1>3 DEF Linked, Ours, Raised
  <1>8. Linked(m, s) BY <1>1, <1>2, <1>3, <1>4, <1>5, <1>7 DEF Linked, Keeps, Reads, Writes
  <1>9. \A l \in Nat : Going(h, l) => Going(m, l) BY <1>2, <1>3, <1>4 DEF Going, At, Keeps
  <1>. HIDE DEF Looks
  <1>. QED BY <1>4, <1>5, <1>6, <1>8, <1>9, OneAdvances

LEMMA MultipliesOne ==
  ASSUME NEW h, NEW bk, NEW s, NEW dk, NEW d, NEW m, One(h, bk, s, dk, d), Multiplies(h, m)
  PROVE One(m, bk, s, dk, d)
  <1>1. OneTypes(h, bk, s, dk, d) /\ Linked(h, s) /\ DOMAIN h = Registers BY DEF One, OneTypes
  <1>2. PICK st, t : st = (IF h.st = "RD_LBA1" THEN "RD_LBA2" ELSE "WR_LBA2")
                     /\ t = h.addr.cyl * h.geo.heads + h.addr.head OBVIOUS
  <1>3. m = [h EXCEPT !.lbaT = t, !.st = st] /\ h.st \in {"RD_LBA1", "WR_LBA1"}
        /\ h.addr.mode # "lba"
    BY <1>2 DEF Multiplies
  <1>t. h.addr.mode = "chs" BY <1>1, <1>3 DEF OneTypes, Addresses, Addressing
  <1>4. /\ m.st = st /\ m.lbaT = t /\ m = [r \in Registers |-> m[r]]
        /\ Keeps(h, m) /\ m.rstart = h.rstart /\ m.wstart = h.wstart
    BY <1>1, <1>3 DEF Registers, Keeps
  <1>5. \/ h.st \in Reads /\ m.st \in Reads
        \/ h.st \in Writes /\ m.st \in Writes BY <1>2, <1>3, <1>4 DEF Reads, Writes
  <1>6. OneTypes(m, bk, s, dk, d) BY <1>1, <1>4, <1>5 DEF OneTypes, Keeps
  <1>7. ~h.rstart /\ ~h.wstart /\ s.st = "ready" BY <1>1, <1>3 DEF Linked, Ours, Raised
  <1>8. Linked(m, s) BY <1>1, <1>2, <1>3, <1>4, <1>5, <1>7 DEF Linked, Keeps, Reads, Writes
  <1>9. \A l \in Nat : Going(h, l) => Going(m, l) BY <1>2, <1>3, <1>4, <1>t DEF Going, Keeps
  <1>. QED BY <1>4, <1>5, <1>6, <1>8, <1>9, OneAdvances

LEMMA AddsOne ==
  ASSUME NEW h, NEW bk, NEW s, NEW dk, NEW d, NEW m, One(h, bk, s, dk, d), Adds(h, m)
  PROVE One(m, bk, s, dk, d)
  <1>1. OneTypes(h, bk, s, dk, d) /\ Linked(h, s) /\ DOMAIN h = Registers BY DEF One, OneTypes
  <1>2. PICK st, t : st = (IF h.st = "RD_LBA2" THEN "RD_REQ" ELSE "WR_REQ")
                     /\ t = h.lbaT * h.geo.spt + h.addr.sec - 1 OBVIOUS
  <1>3. m = [h EXCEPT !.sector = t, !.st = st] /\ h.st \in {"RD_LBA2", "WR_LBA2"}
    BY <1>2 DEF Adds
  <1>4. /\ m.st = st /\ m.sector = t /\ m = [r \in Registers |-> m[r]]
        /\ Keeps(h, m) /\ m.rstart = h.rstart /\ m.wstart = h.wstart
    BY <1>1, <1>3 DEF Registers, Keeps
  <1>5. \/ h.st \in Reads /\ m.st \in Reads
        \/ h.st \in Writes /\ m.st \in Writes BY <1>2, <1>3, <1>4 DEF Reads, Writes
  <1>6. OneTypes(m, bk, s, dk, d) BY <1>1, <1>4, <1>5 DEF OneTypes, Keeps
  <1>7. ~h.rstart /\ ~h.wstart /\ s.st = "ready" BY <1>1, <1>3 DEF Linked, Ours, Raised
  <1>8. Linked(m, s) BY <1>1, <1>2, <1>3, <1>4, <1>5, <1>7 DEF Linked, Keeps, Reads, Writes
  <1>t. h.geo.spt \in Nat /\ h.addr.sec \in Nat /\ h.addr.cyl \in Nat /\ h.addr.head \in Nat
        /\ h.geo.heads \in Nat
    BY <1>1, GeometryAssumption DEF OneTypes, Addresses
  <1>u. \A l \in Nat : Going(h, l) => t = l
    <2>. SUFFICES ASSUME NEW l \in Nat, Going(h, l) PROVE t = l OBVIOUS
    <2>1. h.addr.mode = "chs" /\ h.lbaT = h.addr.cyl * h.geo.heads + h.addr.head BY <1>3 DEF Going
    <2>2. (h.addr.cyl * h.geo.heads + h.addr.head) * h.geo.spt + h.addr.sec = l + 1
      BY <2>1 DEF Going, At
    <2>3. h.lbaT * h.geo.spt + h.addr.sec = l + 1 BY ONLY <2>1, <2>2
    <2>4. h.lbaT \in Nat BY ONLY <1>t, <2>1
    <2>5. PICK x \in Nat : x = h.lbaT * h.geo.spt BY <1>t, <2>4
    <2>6. x + h.addr.sec = l + 1 /\ t = x + (h.addr.sec - 1) BY ONLY <1>2, <1>t, <2>3, <2>5
    <2>. QED BY ONLY <1>t, <2>5, <2>6, l \in Nat
  <1>9. \A l \in Nat : Going(h, l) => Going(m, l) BY <1>2, <1>3, <1>4, <1>u DEF Going, Keeps
  <1>. QED BY <1>4, <1>5, <1>6, <1>8, <1>9, OneAdvances

LEMMA RaisesOne ==
  ASSUME NEW h, NEW bk, NEW s, NEW dk, NEW d, NEW m, One(h, bk, s, dk, d), Raises(h, s, FALSE, m)
  PROVE One(m, bk, s, dk, d)
  <1>1. OneTypes(h, bk, s, dk, d) /\ Linked(h, s) /\ DOMAIN h = Registers BY DEF One, OneTypes
  <1>2. \/ h.st = "RD_REQ" /\ m = [h EXCEPT !.rstart = TRUE]
        \/ h.st = "WR_REQ" /\ m = [h EXCEPT !.wstart = TRUE]
    BY DEF Raises
  <1>3. s.st = "ready" BY DEF Raises
  <1>4. /\ m.st = h.st /\ Keeps(h, m) /\ m.sector = h.sector /\ m.lbaT = h.lbaT
        /\ m = [r \in Registers |-> m[r]] /\ m.rstart \in BOOLEAN /\ m.wstart \in BOOLEAN
        /\ m.rstart => h.st = "RD_REQ"
        /\ m.wstart => h.st = "WR_REQ"
    <2>0. h.rstart \in BOOLEAN /\ h.wstart \in BOOLEAN BY <1>1 DEF OneTypes
    <2>1. CASE h.st = "RD_REQ" /\ m = [h EXCEPT !.rstart = TRUE]
      <3>1. ~h.wstart BY <1>1, <2>1 DEF Linked
      <3>2. /\ m.st = h.st /\ Keeps(h, m) /\ m.sector = h.sector /\ m.lbaT = h.lbaT
            /\ m = [r \in Registers |-> m[r]] /\ m.rstart = TRUE /\ m.wstart = h.wstart
        BY <1>1, <2>1 DEF Registers, Keeps
      <3>. QED BY <2>0, <2>1, <3>1, <3>2
    <2>2. CASE h.st = "WR_REQ" /\ m = [h EXCEPT !.wstart = TRUE]
      <3>1. ~h.rstart BY <1>1, <2>2 DEF Linked
      <3>2. /\ m.st = h.st /\ Keeps(h, m) /\ m.sector = h.sector /\ m.lbaT = h.lbaT
            /\ m = [r \in Registers |-> m[r]] /\ m.wstart = TRUE /\ m.rstart = h.rstart
        BY <1>1, <2>2 DEF Registers, Keeps
      <3>. QED BY <2>0, <2>2, <3>1, <3>2
    <2>. QED BY <1>2, <2>1, <2>2
  <1>5. \/ h.st \in Reads /\ m.st \in Reads
        \/ h.st \in Writes /\ m.st \in Writes BY <1>2, <1>4 DEF Reads, Writes
  <1>6. OneTypes(m, bk, s, dk, d) BY <1>1, <1>4, <1>5 DEF OneTypes, Keeps
  <1>8. Linked(m, s) BY <1>1, <1>3, <1>4 DEF Linked, Keeps
  <1>9. \A l \in Nat : Going(h, l) => Going(m, l) BY <1>4 DEF Going, Keeps
  <1>. QED BY <1>4, <1>5, <1>6, <1>8, <1>9, OneAdvances

LEMMA AcceptedOne ==
  ASSUME NEW h, NEW bk, NEW s, NEW dk, NEW d, NEW m, One(h, bk, s, dk, d), Accepted(h, s, FALSE, m)
  PROVE One(m, bk, s, dk, d)
  <1>1. OneTypes(h, bk, s, dk, d) /\ Linked(h, s) /\ DOMAIN h = Registers BY DEF One, OneTypes
  <1>2. \/ h.st = "RD_REQ" /\ h.rstart /\ m = [h EXCEPT !.rstart = FALSE, !.st = "RD_WAIT"]
        \/ h.st = "WR_REQ" /\ h.wstart /\ m = [h EXCEPT !.wstart = FALSE, !.st = "WR_WAIT"]
    BY DEF Accepted
  <1>3. s.st # "ready" BY DEF Accepted
  <1>4. /\ Keeps(h, m) /\ m.sector = h.sector /\ m.lbaT = h.lbaT
        /\ m = [r \in Registers |-> m[r]] /\ m.rstart = FALSE /\ m.wstart = FALSE
        /\ \/ h.st = "RD_REQ" /\ m.st = "RD_WAIT"
           \/ h.st = "WR_REQ" /\ m.st = "WR_WAIT"
    <2>0. h.rstart \in BOOLEAN /\ h.wstart \in BOOLEAN BY <1>1 DEF OneTypes
    <2>1. CASE h.st = "RD_REQ" /\ m = [h EXCEPT !.rstart = FALSE, !.st = "RD_WAIT"]
      <3>1. h.wstart = FALSE BY <1>1, <2>0, <2>1 DEF Linked
      <3>2. /\ Keeps(h, m) /\ m.sector = h.sector /\ m.lbaT = h.lbaT /\ m.st = "RD_WAIT"
            /\ m = [r \in Registers |-> m[r]] /\ m.rstart = FALSE /\ m.wstart = h.wstart
        BY <1>1, <2>1 DEF Registers, Keeps
      <3>. QED BY <2>1, <3>1, <3>2
    <2>2. CASE h.st = "WR_REQ" /\ m = [h EXCEPT !.wstart = FALSE, !.st = "WR_WAIT"]
      <3>1. h.rstart = FALSE BY <1>1, <2>0, <2>2 DEF Linked
      <3>2. /\ Keeps(h, m) /\ m.sector = h.sector /\ m.lbaT = h.lbaT /\ m.st = "WR_WAIT"
            /\ m = [r \in Registers |-> m[r]] /\ m.wstart = FALSE /\ m.rstart = h.rstart
        BY <1>1, <2>2 DEF Registers, Keeps
      <3>. QED BY <2>2, <3>1, <3>2
    <2>. QED BY <1>2, <2>1, <2>2
  <1>5. \/ h.st \in Reads /\ m.st \in Reads
        \/ h.st \in Writes /\ m.st \in Writes BY <1>4 DEF Reads, Writes
  <1>6. OneTypes(m, bk, s, dk, d) BY <1>1, <1>4, <1>5 DEF OneTypes, Keeps
  <1>7. Ours(m, s) /\ ~Raised(m) BY <1>3, <1>4 DEF Ours, Raised
  <1>8. Linked(m, s) BY <1>1, <1>3, <1>4, <1>7 DEF Linked, Keeps, Reads, Writes
  <1>9. \A l \in Nat : Going(h, l) => Going(m, l) BY <1>4 DEF Going, Keeps
  <1>. QED BY <1>4, <1>5, <1>6, <1>8, <1>9, OneAdvances

-----------------------------------------------------------------------------
(* A sector is handed over, and a reset ends *)

\* A fetched sector is handed over to a driver that waits for it, or that has left.
LEMMA HandsOne ==
  ASSUME NEW h, NEW bk, NEW s, NEW dk, NEW d, NEW m, One(h, bk, s, dk, d), Hands(h, m)
  PROVE One(m, bk, s, dk, d)
  <1>1. OneTypes(h, bk, s, dk, d) /\ Linked(h, s) /\ InStep(h, d) /\ OneTrue(h, bk, s, dk, d)
        /\ DOMAIN h = Registers BY DEF One, OneTypes
  <1>2. PICK bits, b, st : /\ bits = Ready(h.status)
                           /\ b = (IF h.count # 0 THEN 1 - h.pfBank ELSE h.fbank)
                           /\ st = (IF h.count # 0 THEN "RD_LBA1" ELSE "IDLE") OBVIOUS
  <1>3. /\ ~h.resetting /\ h.st = "IDLE" /\ h.rdPending /\ h.pfValid
        /\ m = [h EXCEPT !.rdPending = FALSE, !.pfValid = FALSE, !.cur = h.pfBank, !.off = 0,
                         !.status = bits, !.fbank = b, !.st = st]
    BY <1>2 DEF Hands
  <1>4. /\ m = [r \in Registers |-> m[r]]
        /\ m.rdPending = FALSE /\ m.pfValid = FALSE /\ m.cur = h.pfBank /\ m.off = 0
        /\ m.status = bits /\ m.fbank = b /\ m.st = st
        /\ m.resetting = h.resetting /\ m.rstart = h.rstart /\ m.wstart = h.wstart
        /\ m.count = h.count /\ m.restart = h.restart /\ m.wrPending = h.wrPending
        /\ m.pfBank = h.pfBank /\ m.geo = h.geo /\ m.addr = h.addr
    BY <1>1, <1>3 DEF Registers
  <1>5. Awaits(h) /\ (d.pc = "idle" \/ (d.pc = "wait" /\ d.op = "READ"))
    <2>1. ~Free(h) /\ ~Starts(h) /\ ~Storing(h) BY <1>3 DEF Free, Starts, Storing, Resets
    <2>. QED BY <2>1, WhereInStep
  <1>6. ~h.restart /\ ~h.wrPending BY <1>3, <1>5 DEF Awaits, Reads
  <1>7. b = 1 - m.cur \/ st = "IDLE" BY <1>1, <1>2, <1>4 DEF OneTypes
  <1>b. b \in {0, 1} BY <1>1, <1>2 DEF OneTypes
  <1>8. bits \subseteq {"BUSY", "DRQ"} /\ "DRQ" \in bits /\ "BUSY" \notin bits
    BY <1>1, <1>2 DEF OneTypes, Ready
  <1>9. s.st = "ready" /\ ~h.rstart /\ ~h.wstart BY <1>1, <1>3 DEF Linked, Ours, Raised
  <1>10. 0 \in Idx BY SizeAssumption DEF Idx
  <1>11. OneTypes(m, bk, s, dk, d) BY <1>1, <1>2, <1>4, <1>b, <1>8, <1>10 DEF OneTypes, Reads
  <1>12. Linked(m, s) BY <1>1, <1>2, <1>4, <1>9 DEF Linked
  <1>13. Offers(m, 0)
    BY <1>2, <1>3, <1>4, <1>6, <1>7, <1>8 DEF Offers, Free, Reads
  <1>14. InStep(m, d) BY <1>1, <1>5, <1>13 DEF InStep, Offers
  <1>15. OneTrue(m, bk, s, dk, d)
    <2>1. d.pc = "wait" /\ d.op = "READ" /\ d.n = 1 => bk[m.cur] = dk[d.lba]
      BY <1>1, <1>3, <1>4 DEF OneTrue, OneRead
    <2>. QED BY <1>4, <1>5, <2>1 DEF OneTrue, OneRead, OneWrite
  <1>. QED BY <1>11, <1>12, <1>14, <1>15 DEF One

LEMMA WakesOne ==
  ASSUME NEW h, NEW bk, NEW s, NEW dk, NEW d, NEW m, One(h, bk, s, dk, d), Wakes(h, m)
  PROVE One(m, bk, s, dk, d)
  <1>1. OneTypes(h, bk, s, dk, d) /\ Linked(h, s) /\ InStep(h, d) /\ DOMAIN h = Registers
    BY DEF One, OneTypes
  <1>2. PICK bits : bits = h.status \ {"BUSY"} OBVIOUS
  <1>3. h.resetting /\ h.st = "IDLE" /\ ~h.pfValid
        /\ m = [h EXCEPT !.resetting = FALSE, !.status = bits] BY <1>2 DEF Wakes
  <1>4. /\ m = [r \in Registers |-> m[r]]
        /\ m.resetting = FALSE /\ m.status = bits /\ m.st = h.st
        /\ m.rdPending = h.rdPending /\ m.pfValid = h.pfValid /\ m.cur = h.cur /\ m.off = h.off
        /\ m.fbank = h.fbank /\ m.rstart = h.rstart /\ m.wstart = h.wstart
        /\ m.count = h.count /\ m.restart = h.restart /\ m.wrPending = h.wrPending
        /\ m.pfBank = h.pfBank /\ m.geo = h.geo /\ m.addr = h.addr
    BY <1>1, <1>3 DEF Registers
  <1>5. Starts(h) /\ d.pc = "idle"
    <2>1. ~Free(h) /\ ~Awaits(h) /\ ~Storing(h) BY <1>3 DEF Free, Awaits, Storing
    <2>. QED BY <2>1, WhereInStep
  <1>6. OneTypes(m, bk, s, dk, d) BY <1>1, <1>2, <1>4 DEF OneTypes
  <1>7. ~h.rstart /\ ~h.wstart /\ s.st = "ready" BY <1>1, <1>3 DEF Linked, Ours, Raised
  <1>8. Linked(m, s) BY <1>3, <1>4, <1>7 DEF Linked, Reads
  <1>9. Free(m) BY <1>2, <1>3, <1>4, <1>5 DEF Free, Starts, Resets, Reads
  <1>10. InStep(m, d) BY <1>1, <1>5, <1>9 DEF InStep
  <1>11. OneTrue(m, bk, s, dk, d) BY <1>5 DEF OneTrue, OneRead, OneWrite
  <1>. QED BY <1>6, <1>8, <1>10, <1>11 DEF One

\* All words have passed.
LEMMA AllCome ==
  ASSUME NEW a, NEW b, a \in [Idx -> Word], b = [i \in Idx |-> b[i]], NEW n, n = Words,
         \A j \in Idx : j < n => a[j] = b[j]
  PROVE a = b
  <1>1. \A j \in Idx : a[j] = b[j] BY SizeAssumption DEF Idx
  <1>. QED BY <1>1

\* A fetch ends: it is what a READ waits for, or leaves the commands that follow alone.
LEMMA FetchEndsOne ==
  ASSUME NEW h, NEW bk, NEW s, NEW dk, NEW d, NEW m, NEW s2, One(h, bk, s, dk, d),
         FetchEnds(h, s, m), ~h.restart, ~h.wrPending, s2 = [s EXCEPT !.st = "ready"]
  PROVE One(m, bk, s2, dk, d)
  <1>1. OneTypes(h, bk, s, dk, d) /\ Linked(h, s) /\ InStep(h, d) /\ OneTrue(h, bk, s, dk, d)
        /\ DOMAIN h = Registers BY DEF One, OneTypes
  <1>2. PICK c, a, b : c = (IF h.count # 0 THEN h.count - 1 ELSE h.count) /\ b = h.fbank
                    /\ a = (IF h.count > 1 THEN After(h.addr, h.geo) ELSE h.addr) OBVIOUS
  <1>3. h.st = "RD_WAIT" /\ s.st = "done"
        /\ m = [h EXCEPT !.pfValid = TRUE, !.pfBank = b, !.st = "IDLE", !.count = c, !.addr = a]
    BY <1>2 DEF FetchEnds
  <1>4. /\ m = [r \in Registers |-> m[r]]
        /\ m.pfValid = TRUE /\ m.pfBank = b /\ m.st = "IDLE" /\ m.count = c /\ m.addr = a
        /\ m.status = h.status /\ m.resetting = h.resetting /\ m.rdPending = h.rdPending
        /\ m.cur = h.cur /\ m.off = h.off /\ m.fbank = h.fbank
        /\ m.rstart = h.rstart /\ m.wstart = h.wstart /\ m.restart = h.restart
        /\ m.wrPending = h.wrPending /\ m.geo = h.geo
    BY <1>1, <1>3 DEF Registers
  <1>5. s2.st = "ready" /\ s2.wr = s.wr /\ s2.lba = s.lba /\ s2.i = s.i
        /\ s2 = [st |-> s2.st, wr |-> s2.wr, lba |-> s2.lba, i |-> s2.i]
    BY <1>1 DEF OneTypes
  <1>6. c \in Nat /\ a \in Addresses
    <2>1. h.addr \in Addresses /\ h.count \in Nat BY <1>1 DEF OneTypes
    <2>. QED BY <1>2, <2>1, AfterTypes
  <1>7. OneTypes(m, bk, s2, dk, d) BY ZenonT(60), <1>1, <1>2, <1>4, <1>5, <1>6 DEF OneTypes
  <1>8. ~h.rstart /\ ~h.wstart /\ s.i = Words BY <1>1, <1>3 DEF Linked
  <1>9. Linked(m, s2) BY <1>4, <1>5, <1>8 DEF Linked, Reads
  <1>10. ~Starts(h) /\ ~Storing(h)
    BY <1>3 DEF Starts, Resets, Storing, Reads, Writes
  <1>11. /\ Free(h) => Free(m)
         /\ Awaits(h) => Awaits(m)
         /\ \A w : Offers(h, w) => Offers(m, w)
    <2>1. Free(h) => Free(m) BY <1>4 DEF Free, Reads
    <2>2. Awaits(h) => Awaits(m) BY <1>4 DEF Awaits, Reads
    <2>. QED BY <1>4, <2>1, <2>2 DEF Offers
  <1>12. InStep(m, d) BY <1>1, <1>4, <1>10, <1>11 DEF InStep
  <1>13. Steady(h) => a = h.addr
    <2>1. h.count \in Nat BY <1>1 DEF OneTypes
    <2>. QED BY <1>2, <1>3, <2>1 DEF Steady
  <1>14. OneRead(h, bk, s, dk, d) => OneRead(m, bk, s2, dk, d)
    <2>. SUFFICES ASSUME OneRead(h, bk, s, dk, d) PROVE OneRead(m, bk, s2, dk, d) OBVIOUS
    <2>1. d.pc = "wait" /\ h.rdPending => bk[h.fbank] = dk[d.lba]
      <3>. SUFFICES ASSUME d.pc = "wait", h.rdPending PROVE bk[h.fbank] = dk[d.lba] OBVIOUS
      <3>1. \A j \in Idx : j < s.i => bk[h.fbank][j] = dk[d.lba][j]
        BY <1>3 DEF OneRead, Come, Reads
      <3>2. d.lba \in Lba /\ h.fbank \in {0, 1} BY <1>1, DriverTypes DEF OneTypes
      <3>3. bk[h.fbank] \in [Idx -> Word] /\ dk[d.lba] \in [Idx -> Word] BY <1>1, <3>2 DEF OneTypes
      <3>4. dk[d.lba] = [i \in Idx |-> dk[d.lba][i]] BY <3>3
      <3>. QED BY <1>8, <3>1, <3>3, <3>4, AllCome
    <2>. QED BY <1>2, <1>4, <2>1 DEF OneRead, Reads
  <1>15. OneWrite(h, bk, s, dk, d) => OneWrite(m, bk, s2, dk, d)
    <2>1. d.pc = "fin" => "BUSY" \notin h.status
      BY <1>1, <1>10 DEF InStep, Offers, Free
    <2>2. Steady(m) BY <1>4 DEF Steady
    <2>. QED BY <1>4, <1>13, <2>1, <2>2 DEF OneWrite, At
  <1>16. OneTrue(m, bk, s2, dk, d)
    <2>2. Steady(m) BY <1>4 DEF Steady
    <2>. QED BY <1>1, <1>4, <1>13, <1>14, <1>15, <2>2 DEF OneTrue
  <1>. QED BY <1>7, <1>9, <1>12, <1>16 DEF One

\* The write that waited for it begins, with the address the driver has programmed.
LEMMA FetchYieldsOne ==
  ASSUME NEW h, NEW bk, NEW s, NEW dk, NEW d, NEW m, NEW s2, One(h, bk, s, dk, d),
         FetchYields(h, s, m), h.wrPending, s2 = [s EXCEPT !.st = "ready"]
  PROVE One(m, bk, s2, dk, d)
  <1>1. OneTypes(h, bk, s, dk, d) /\ Linked(h, s) /\ InStep(h, d) /\ OneTrue(h, bk, s, dk, d)
        /\ DOMAIN h = Registers BY DEF One, OneTypes
  <1>2. PICK c, a, b : c = (IF h.count # 0 THEN h.count - 1 ELSE h.count) /\ b = h.fbank
                    /\ a = (IF h.count > 1 THEN After(h.addr, h.geo) ELSE h.addr) OBVIOUS
  <1>3. h.st = "RD_WAIT" /\ s.st = "done"
        /\ m = [h EXCEPT !.pfValid = TRUE, !.pfBank = b, !.wrPending = FALSE, !.st = "WR_LBA1",
                         !.count = c, !.addr = a]
    BY <1>2 DEF FetchYields
  <1>4. /\ m = [r \in Registers |-> m[r]]
        /\ m.pfValid = TRUE /\ m.pfBank = b /\ m.st = "WR_LBA1" /\ m.count = c /\ m.addr = a
        /\ m.status = h.status /\ m.resetting = h.resetting /\ m.rdPending = h.rdPending
        /\ m.cur = h.cur /\ m.off = h.off /\ m.fbank = h.fbank
        /\ m.rstart = h.rstart /\ m.wstart = h.wstart /\ m.restart = h.restart
        /\ m.wrPending = FALSE /\ m.geo = h.geo
    BY <1>1, <1>3 DEF Registers
  <1>5. s2.st = "ready" /\ s2.wr = s.wr /\ s2.lba = s.lba /\ s2.i = s.i
        /\ s2 = [st |-> s2.st, wr |-> s2.wr, lba |-> s2.lba, i |-> s2.i]
    BY <1>1 DEF OneTypes
  <1>6. c \in Nat /\ a \in Addresses
    <2>1. h.addr \in Addresses /\ h.count \in Nat BY <1>1 DEF OneTypes
    <2>. QED BY <1>2, <2>1, AfterTypes
  <1>w. m.st \in Writes /\ b \in {0, 1} BY <1>1, <1>2, <1>4 DEF OneTypes, Writes
  <1>7. OneTypes(m, bk, s2, dk, d) BY <1>1, <1>4, <1>5, <1>6, <1>w DEF OneTypes
  <1>8. ~h.rstart /\ ~h.wstart BY <1>1, <1>3 DEF Linked
  <1>9. Linked(m, s2) BY <1>4, <1>5, <1>8 DEF Linked, Reads
  <1>10. Storing(h) /\ d.pc = "fin" /\ d.op = "WRITE"
    <2>1. ~Starts(h) /\ ~Free(h) /\ ~Awaits(h) BY DEF Starts, Free, Awaits
    <2>. QED BY <2>1, WhereInStep
  <1>11. Storing(m) /\ "BUSY" \in m.status BY <1>4, <1>10 DEF Storing, Writes
  <1>12. InStep(m, d) BY <1>1, <1>10, <1>11 DEF InStep
  <1>13. OneWrite(h, bk, s, dk, d) => OneWrite(m, bk, s2, dk, d)
    <2>. SUFFICES ASSUME OneWrite(h, bk, s, dk, d) PROVE OneWrite(m, bk, s2, dk, d) OBVIOUS
    <2>1. h.count <= 1 /\ At(h.addr, h.geo, d.lba) /\ h.count \in Nat
          /\ bk[h.cur] = Sector(d.lba, 1 - d.ref[d.lba])
      BY <1>1, <1>4, <1>10, <1>11 DEF OneWrite, OneTypes
    <2>2. a = h.addr BY <1>2, <2>1
    <2>3. Going(m, d.lba) BY <1>4, <2>1, <2>2 DEF Going
    <2>4. Gone(s2, dk, d.lba, Sector(d.lba, 1 - d.ref[d.lba])) BY <1>5 DEF Gone
    <2>. QED BY <1>4, <1>10, <1>11, <2>1, <2>2, <2>3, <2>4 DEF OneWrite
  <1>14. OneTrue(m, bk, s2, dk, d) BY <1>1, <1>10, <1>13 DEF OneTrue
  <1>. QED BY <1>7, <1>9, <1>12, <1>14 DEF One

\* A fetch that a READ has made void is made again, for the READ.
LEMMA RefetchesOne ==
  ASSUME NEW h, NEW bk, NEW s, NEW dk, NEW d, NEW m, NEW s2, One(h, bk, s, dk, d),
         Refetches(h, s, m), h.restart, s2 = [s EXCEPT !.st = "ready"]
  PROVE One(m, bk, s2, dk, d)
  <1>1. OneTypes(h, bk, s, dk, d) /\ Linked(h, s) /\ InStep(h, d) /\ OneTrue(h, bk, s, dk, d)
        /\ DOMAIN h = Registers BY DEF One, OneTypes
  <1>2. PICK b : b = h.cur OBVIOUS
  <1>3. h.st = "RD_WAIT" /\ s.st = "done"
        /\ m = [h EXCEPT !.restart = FALSE, !.fbank = b, !.st = "RD_LBA1"]
    BY <1>2 DEF Refetches
  <1>4. /\ m = [r \in Registers |-> m[r]]
        /\ m.restart = FALSE /\ m.fbank = b /\ m.st = "RD_LBA1"
        /\ m.status = h.status /\ m.resetting = h.resetting /\ m.rdPending = h.rdPending
        /\ m.cur = h.cur /\ m.off = h.off /\ m.pfValid = h.pfValid /\ m.pfBank = h.pfBank
        /\ m.rstart = h.rstart /\ m.wstart = h.wstart /\ m.count = h.count /\ m.addr = h.addr
        /\ m.wrPending = h.wrPending /\ m.geo = h.geo
    BY <1>1, <1>3 DEF Registers
  <1>5. s2.st = "ready" /\ s2.wr = s.wr /\ s2.lba = s.lba /\ s2.i = s.i
        /\ s2 = [st |-> s2.st, wr |-> s2.wr, lba |-> s2.lba, i |-> s2.i]
    BY <1>1 DEF OneTypes
  <1>w. m.st \in Reads /\ b \in {0, 1} BY <1>1, <1>2, <1>4 DEF OneTypes, Reads
  <1>7. OneTypes(m, bk, s2, dk, d) BY <1>1, <1>4, <1>5, <1>w DEF OneTypes
  <1>8. ~h.rstart /\ ~h.wstart /\ ~h.pfValid BY <1>1, <1>3 DEF Linked, Reads
  <1>9. Linked(m, s2) BY <1>4, <1>5, <1>8 DEF Linked, Reads
  <1>10. Awaits(h) /\ (d.pc = "idle" \/ (d.pc = "wait" /\ d.op = "READ"))
    <2>1. ~Starts(h) /\ ~Free(h) /\ ~Storing(h) BY DEF Starts, Free, Storing
    <2>. QED BY <2>1, WhereInStep
  <1>11. Awaits(m) BY <1>4, <1>10 DEF Awaits, Reads
  <1>12. InStep(m, d) BY <1>1, <1>10, <1>11 DEF InStep
  <1>13. OneTrue(m, bk, s2, dk, d)
    <2>1. d.n = 1 /\ d.pc = "wait" => Going(m, d.lba) /\ Come(m, bk, s2, dk, d.lba)
      <3>1. d.n = 1 /\ d.pc = "wait" => At(h.addr, h.geo, d.lba)
        BY <1>1, <1>10 DEF OneTrue, OneRead, Awaits
      <3>. QED BY <1>4, <1>5, <3>1 DEF Going, Come
    <2>2. m.rdPending /\ ~m.pfValid BY <1>4, <1>8, <1>10 DEF Awaits
    <2>. QED BY <1>4, <1>10, <2>1, <2>2 DEF OneTrue, OneRead, OneWrite
  <1>. QED BY <1>7, <1>9, <1>12, <1>13 DEF One

\* A sector is on the card.
LEMMA StoreEndsOne ==
  ASSUME NEW h, NEW bk, NEW s, NEW dk, NEW d, NEW m, NEW s2, One(h, bk, s, dk, d),
         StoreEnds(h, s, m), s2 = [s EXCEPT !.st = "ready"]
  PROVE One(m, bk, s2, dk, d)
  <1>1. OneTypes(h, bk, s, dk, d) /\ Linked(h, s) /\ InStep(h, d) /\ OneTrue(h, bk, s, dk, d)
        /\ DOMAIN h = Registers BY DEF One, OneTypes
  <1>2. PICK c, a, bits : c = (IF h.count # 0 THEN h.count - 1 ELSE h.count) /\ bits = Ready(h.status)
                    /\ a = (IF h.count > 1 THEN After(h.addr, h.geo) ELSE h.addr) OBVIOUS
  <1>3. h.st = "WR_WAIT" /\ s.st = "done"
        /\ m = [h EXCEPT !.status = bits, !.off = 0, !.st = "IDLE", !.count = c, !.addr = a]
    BY <1>2 DEF StoreEnds
  <1>4. /\ m = [r \in Registers |-> m[r]]
        /\ m.status = bits /\ m.off = 0 /\ m.st = "IDLE" /\ m.count = c /\ m.addr = a
        /\ m.resetting = h.resetting /\ m.rdPending = h.rdPending
        /\ m.pfValid = h.pfValid /\ m.pfBank = h.pfBank
        /\ m.cur = h.cur /\ m.fbank = h.fbank
        /\ m.rstart = h.rstart /\ m.wstart = h.wstart /\ m.restart = h.restart
        /\ m.wrPending = h.wrPending /\ m.geo = h.geo
    BY <1>1, <1>3 DEF Registers
  <1>5. s2.st = "ready" /\ s2.wr = s.wr /\ s2.lba = s.lba /\ s2.i = s.i
        /\ s2 = [st |-> s2.st, wr |-> s2.wr, lba |-> s2.lba, i |-> s2.i]
    BY <1>1 DEF OneTypes
  <1>6. c \in Nat /\ a \in Addresses
    <2>1. h.addr \in Addresses /\ h.count \in Nat BY <1>1 DEF OneTypes
    <2>. QED BY <1>2, <2>1, AfterTypes
  <1>7. bits \subseteq {"BUSY", "DRQ"} /\ "DRQ" \in bits /\ "BUSY" \notin bits /\ 0 \in Idx
    <2>1. bits \subseteq {"BUSY", "DRQ"} /\ "DRQ" \in bits /\ "BUSY" \notin bits
      BY <1>1, <1>2 DEF OneTypes, Ready
    <2>2. 0 \in Idx BY SizeAssumption DEF Idx
    <2>. QED BY <2>1, <2>2
  <1>8. OneTypes(m, bk, s2, dk, d) BY <1>1, <1>2, <1>4, <1>5, <1>6, <1>7 DEF OneTypes
  <1>9. ~h.rstart /\ ~h.wstart /\ s.i = Words BY <1>1, <1>3 DEF Linked
  <1>10. Linked(m, s2) BY <1>4, <1>5, <1>9 DEF Linked, Reads
  <1>11. Storing(h) /\ ~h.wrPending /\ d.pc = "fin" /\ d.op = "WRITE" /\ "BUSY" \in h.status
    <2>1. h.st \in Writes BY <1>3 DEF Writes
    <2>2. Storing(h) BY <2>1, WhereInStep
    <2>. QED BY <2>1, <2>2, WhereInStep DEF Storing
  <1>12. Offers(m, 0) BY <1>4, <1>7, <1>11 DEF Offers, Free, Storing, Reads
  <1>13. InStep(m, d) BY <1>1, <1>11, <1>12 DEF InStep
  <1>14. d.n = 1 => dk[d.lba] = Sector(d.lba, 1 - d.ref[d.lba])
    <2>. SUFFICES ASSUME d.n = 1 PROVE dk[d.lba] = Sector(d.lba, 1 - d.ref[d.lba]) OBVIOUS
    <2>. DEFINE new == Sector(d.lba, 1 - d.ref[d.lba])
    <2>1. \A j \in Idx : j < s.i => dk[d.lba][j] = new[j]
      BY <1>1, <1>3, <1>11 DEF OneTrue, OneWrite, Gone
    <2>2. dk[d.lba] \in [Idx -> Word] BY <1>1, DriverTypes DEF OneTypes
    <2>3. new = [i \in Idx |-> new[i]] BY DEF Sector
    <2>. HIDE DEF new
    <2>4. dk[d.lba] = new BY <1>9, <2>1, <2>2, <2>3, AllCome
    <2>. QED BY <2>4 DEF new
  <1>15. OneTrue(m, bk, s2, dk, d) BY <1>4, <1>7, <1>11, <1>14 DEF OneTrue, OneRead, OneWrite
  <1>. QED BY <1>8, <1>10, <1>13, <1>15 DEF One

-----------------------------------------------------------------------------
(* The path's moves, once more *)

\* The path takes a request.
LEMMA TakesOne ==
  ASSUME NEW h, NEW bk, NEW s, NEW dk, NEW d, NEW s2, One(h, bk, s, dk, d), Takes(h, s, s2)
  PROVE One(h, bk, s2, dk, d)
  <1>1. OneTypes(h, bk, s, dk, d) /\ Linked(h, s) /\ InStep(h, d) /\ OneTrue(h, bk, s, dk, d)
    BY DEF One
  <1>2. s.st = "ready" /\ (h.rstart \/ h.wstart) BY DEF Takes
  <1>3. s2.st = "busy" /\ s2.wr = h.wstart /\ s2.lba = h.sector /\ s2.i = 0
        /\ s2 = [st |-> s2.st, wr |-> s2.wr, lba |-> s2.lba, i |-> s2.i] BY DEF Takes
  <1>4. \/ h.st = "RD_REQ" /\ h.rstart /\ ~h.wstart
        \/ h.st = "WR_REQ" /\ h.wstart /\ ~h.rstart
    BY <1>1, <1>2 DEF Linked
  <1>5. 0 \in 0..Words /\ h.wstart \in BOOLEAN BY <1>1, SizeAssumption DEF OneTypes
  <1>6. OneTypes(h, bk, s2, dk, d) BY <1>1, <1>3, <1>5 DEF OneTypes
  <1>7. Raised(h) /\ Ours(h, s2) BY <1>3, <1>4 DEF Raised, Ours
  <1>8. Linked(h, s2) BY <1>1, <1>3, <1>4, <1>7 DEF Linked, Writes
  <1>9. \A j \in Idx : ~(j < s2.i) BY <1>3 DEF Idx
  <1>10. OneTrue(h, bk, s2, dk, d)
    <2>1. \A l, new : Come(h, bk, s2, dk, l) /\ Gone(s2, dk, l, new) BY <1>9 DEF Come, Gone
    <2>. QED BY <1>1, <2>1 DEF OneTrue, OneRead, OneWrite
  <1>. QED BY <1>1, <1>6, <1>8, <1>10 DEF One

\* It has passed the last word.
LEMMA FinishesOne ==
  ASSUME NEW h, NEW bk, NEW s, NEW dk, NEW d, NEW s2, One(h, bk, s, dk, d), Finishes(s, s2),
         ~Raised(h)
  PROVE One(h, bk, s2, dk, d)
  <1>1. OneTypes(h, bk, s, dk, d) /\ Linked(h, s) /\ InStep(h, d) /\ OneTrue(h, bk, s, dk, d)
    BY DEF One
  <1>2. s.st = "busy" /\ s.i = Words /\ s2 = [s EXCEPT !.st = "done"] BY DEF Finishes
  <1>3. s2.st = "done" /\ s2.wr = s.wr /\ s2.lba = s.lba /\ s2.i = s.i
        /\ s2 = [st |-> s2.st, wr |-> s2.wr, lba |-> s2.lba, i |-> s2.i]
    BY <1>1, <1>2 DEF OneTypes
  <1>4. OneTypes(h, bk, s2, dk, d) BY <1>1, <1>3 DEF OneTypes
  <1>5. Linked(h, s2) BY <1>1, <1>2, <1>3 DEF Linked, Ours
  <1>6. OneTrue(h, bk, s2, dk, d)
    <2>1. \A l, new : /\ Come(h, bk, s, dk, l) => Come(h, bk, s2, dk, l)
                      /\ Gone(s, dk, l, new) => Gone(s2, dk, l, new)
      BY <1>2, <1>3 DEF Come, Gone
    <2>. QED BY <1>1, <2>1 DEF OneTrue, OneRead, OneWrite
  <1>. QED BY <1>1, <1>4, <1>5, <1>6 DEF One

\* A word goes to the bank: one of the sector that is waited for, or one that goes
\* to the bank the bus does not use.
LEMMA FeedsOne ==
  ASSUME NEW h, NEW bk, NEW s, NEW dk, NEW d, NEW s2, NEW bk2,
         One(h, bk, s, dk, d), Feeds(h, bk, s, dk, s2, bk2), ~Raised(h)
  PROVE One(h, bk2, s2, dk, d)
  <1>1. OneTypes(h, bk, s, dk, d) /\ Linked(h, s) /\ InStep(h, d) /\ OneTrue(h, bk, s, dk, d)
    BY DEF One
  <1>b. bk \in [{0, 1} -> [Idx -> Word]] /\ dk \in [Lba -> [Idx -> Word]]
        /\ h.fbank \in {0, 1} /\ h.cur \in {0, 1} /\ s.i \in 0..Words /\ d \in Drivers
    BY <1>1 DEF OneTypes
  <1>2. s.st = "busy" /\ s.i < Words /\ ~s.wr BY DEF Feeds
  <1>3. h.st = "RD_WAIT" /\ ~h.pfValid /\ s.lba = h.sector
    BY <1>1, <1>2 DEF Linked, Ours, Reads, Writes
  <1>4. s.i \in Idx /\ s.i \in Nat BY <1>b, <1>2, SizeAssumption DEF Idx
  <1>5. PICK word : word = (IF s.lba \in Lba THEN dk[s.lba][s.i] ELSE NoWord) OBVIOUS
  <1>6. word \in Word
    <2>1. CASE s.lba \in Lba BY <1>b, <1>4, <1>5, <2>1
    <2>2. CASE s.lba \notin Lba BY <1>5, <2>2 DEF Word
    <2>. QED BY <2>1, <2>2
  <1>7. PICK old : old = bk[h.fbank] OBVIOUS
  <1>8. old \in [Idx -> Word] BY <1>b, <1>7
  <1>9. bk2 = [bk EXCEPT ![h.fbank] = [old EXCEPT ![s.i] = word]] BY <1>5, <1>7 DEF Feeds
  <1>10. /\ bk2 \in [{0, 1} -> [Idx -> Word]] /\ bk2[h.fbank] = [old EXCEPT ![s.i] = word]
         /\ h.cur # h.fbank => bk2[h.cur] = bk[h.cur]
    BY <1>b, <1>4, <1>6, <1>8, <1>9
  <1>11. s2.st = s.st /\ s2.wr = s.wr /\ s2.lba = s.lba /\ s2.i = s.i + 1
         /\ s2 = [st |-> s2.st, wr |-> s2.wr, lba |-> s2.lba, i |-> s2.i]
    <2>1. s2 = [s EXCEPT !.i = s.i + 1] BY DEF Feeds
    <2>. QED BY <1>1, <2>1 DEF OneTypes
  <1>12. s2.i \in 0..Words BY <1>b, <1>2, <1>11, SizeAssumption
  <1>13. OneTypes(h, bk2, s2, dk, d) BY <1>1, <1>10, <1>11, <1>12 DEF OneTypes
  <1>14. Linked(h, s2) BY <1>1, <1>2, <1>3, <1>11 DEF Linked, Ours
  <1>15. h.st \in Reads /\ ~(h.st \in Writes) BY <1>3 DEF Reads, Writes
  <1>16. Free(h) \/ Storing(h) => bk2[h.cur] = bk[h.cur]
    <2>1. Free(h) \/ Storing(h) => h.fbank = 1 - h.cur BY <1>15 DEF Free, Storing
    <2>. QED BY <1>b, <1>10, <2>1
  <1>17. \A l \in Lba : h.sector = l /\ Come(h, bk, s, dk, l) => Come(h, bk2, s2, dk, l)
    <2>. SUFFICES ASSUME NEW l \in Lba, h.sector = l, Come(h, bk, s, dk, l), NEW j \in Idx, j < s2.i
                  PROVE bk2[h.fbank][j] = dk[l][j]
      BY DEF Come
    <2>1. j < s.i => old[j] = dk[l][j] BY <1>2, <1>7 DEF Come
    <2>2. word = dk[l][s.i] BY <1>3, <1>5
    <2>3. j < s.i \/ j = s.i BY <1>4, <1>11 DEF Idx
    <2>4. j = s.i => ~(j < s.i) BY <1>4
    <2>. QED BY <1>4, <1>8, <1>10, <2>1, <2>2, <2>3, <2>4
  <1>18. OneRead(h, bk, s, dk, d) => OneRead(h, bk2, s2, dk, d)
    <2>. SUFFICES ASSUME OneRead(h, bk, s, dk, d), d.pc # "fin" PROVE OneRead(h, bk2, s2, dk, d)
      BY DEF OneRead
    <2>1. d.pc = "data" \/ (d.pc = "wait" /\ ~h.rdPending) => bk2[h.cur] = bk[h.cur]
      <3>1. d.pc = "data" => Free(h) BY <1>1 DEF InStep, Offers
      <3>2. d.pc = "wait" /\ ~h.rdPending => Free(h)
        BY WhereInStep DEF Awaits
      <3>. QED BY <1>16, <3>1, <3>2
    <2>2. Going(h, d.lba) /\ Come(h, bk, s, dk, d.lba) => Come(h, bk2, s2, dk, d.lba)
      BY <1>b, <1>3, <1>17, DriverTypes DEF Going
    <2>. QED BY <1>3, <2>1, <2>2 DEF OneRead
  <1>19. d.op = "WRITE" /\ OneWrite(h, bk, s, dk, d) => OneWrite(h, bk2, s2, dk, d)
    <2>. SUFFICES ASSUME d.op = "WRITE", OneWrite(h, bk, s, dk, d) PROVE OneWrite(h, bk2, s2, dk, d)
      OBVIOUS
    <2>1. d.pc \in {"wait", "data", "fin"} => bk2[h.cur] = bk[h.cur]
      BY <1>1, <1>16 DEF InStep, Offers
    <2>2. d.pc = "fin" /\ "BUSY" \in h.status => h.wrPending
      BY <1>15, WhereInStep DEF Free, Awaits
    <2>. QED BY <2>1, <2>2 DEF OneWrite
  <1>20. OneTrue(h, bk2, s2, dk, d) BY <1>1, <1>18, <1>19 DEF OneTrue
  <1>. QED BY <1>1, <1>13, <1>14, <1>20 DEF One

\* A word goes to the card, from the bank the driver has filled.
LEMMA StoresOne ==
  ASSUME NEW h, NEW bk, NEW s, NEW dk, NEW d, NEW s2, NEW dk2,
         One(h, bk, s, dk, d), Stores(h, bk, s, dk, s2, dk2), ~Raised(h)
  PROVE One(h, bk, s2, dk2, d)
  <1>1. OneTypes(h, bk, s, dk, d) /\ Linked(h, s) /\ InStep(h, d) /\ OneTrue(h, bk, s, dk, d)
    BY DEF One
  <1>b. bk \in [{0, 1} -> [Idx -> Word]] /\ dk \in [Lba -> [Idx -> Word]]
        /\ h.cur \in {0, 1} /\ s.i \in 0..Words /\ d \in Drivers
    BY <1>1 DEF OneTypes
  <1>2. s.st = "busy" /\ s.i < Words /\ s.wr BY DEF Stores
  <1>3. h.st = "WR_WAIT" /\ s.lba = h.sector
    BY <1>1, <1>2 DEF Linked, Ours, Raised, Writes
  <1>4. s.i \in Idx /\ s.i \in Nat BY <1>b, <1>2, SizeAssumption DEF Idx
  <1>5. PICK word \in Word : word = bk[h.cur][s.i] BY <1>b, <1>4
  <1>9. dk2 = [dk EXCEPT ![s.lba][s.i] = word] BY <1>5 DEF Stores
  <1>10. dk2 \in [Lba -> [Idx -> Word]]
    <2>1. CASE s.lba \in Lba
      <3>1. [dk[s.lba] EXCEPT ![s.i] = word] \in [Idx -> Word] BY <1>b, <2>1
      <3>. QED BY <1>b, <1>9, <2>1, <3>1
    <2>2. CASE s.lba \notin Lba
      <3>1. dk2 = [l \in Lba |-> dk[l]] BY <1>b, <1>9, <2>2
      <3>. QED BY <1>b, <3>1
    <2>. QED BY <2>1, <2>2
  <1>11. s2.st = s.st /\ s2.wr = s.wr /\ s2.lba = s.lba /\ s2.i = s.i + 1
         /\ s2 = [st |-> s2.st, wr |-> s2.wr, lba |-> s2.lba, i |-> s2.i]
    <2>1. s2 = [s EXCEPT !.i = s.i + 1] BY DEF Stores
    <2>. QED BY <1>1, <2>1 DEF OneTypes
  <1>12. s2.i \in 0..Words BY <1>b, <1>2, <1>11, SizeAssumption
  <1>13. OneTypes(h, bk, s2, dk2, d) BY <1>1, <1>10, <1>11, <1>12 DEF OneTypes
  <1>14. Linked(h, s2) BY <1>1, <1>2, <1>3, <1>11 DEF Linked, Ours
  <1>15. Storing(h) /\ ~h.wrPending /\ d.pc = "fin" /\ d.op = "WRITE" /\ "BUSY" \in h.status
    <2>1. h.st \in Writes BY <1>3 DEF Writes
    <2>2. Storing(h) BY <2>1, WhereInStep
    <2>. QED BY <2>1, <2>2, WhereInStep DEF Storing
  <1>16. ASSUME d.n = 1 PROVE OneWrite(h, bk, s2, dk2, d)
    <2>. DEFINE new == Sector(d.lba, 1 - d.ref[d.lba])
    <2>1. /\ At(h.addr, h.geo, d.lba) /\ bk[h.cur] = new
          /\ Going(h, d.lba) /\ Gone(s, dk, d.lba, new)
      BY <1>1, <1>15, <1>16 DEF OneTrue, OneWrite
    <2>. HIDE DEF new
    <2>2. s.lba = d.lba /\ d.lba \in Lba BY <1>b, <1>3, <2>1, DriverTypes DEF Going
    <2>3. word = new[s.i] BY <1>5, <2>1
    <2>. PICK old : old = dk[d.lba] OBVIOUS
    <2>4. old \in [Idx -> Word] BY <1>b, <2>2
    <2>5. dk2[d.lba] = [old EXCEPT ![s.i] = word] BY <1>b, <1>9, <2>2
    <2>6. \A j \in Idx : j < s2.i => dk2[d.lba][j] = new[j]
      <3>. SUFFICES ASSUME NEW j \in Idx, j < s2.i PROVE dk2[d.lba][j] = new[j] OBVIOUS
      <3>1. j < s.i => old[j] = new[j] BY <1>2, <2>1 DEF Gone
      <3>2. j < s.i \/ j = s.i BY <1>4, <1>11 DEF Idx
      <3>3. j = s.i => ~(j < s.i) BY <1>4
      <3>. QED BY <1>4, <2>3, <2>4, <2>5, <3>1, <3>2, <3>3
    <2>7. Gone(s2, dk2, d.lba, new) BY <2>6 DEF Gone
    <2>. QED BY <1>15, <2>1, <2>7 DEF OneWrite, new
  <1>17. OneTrue(h, bk, s2, dk2, d) BY <1>15, <1>16 DEF OneTrue
  <1>. QED BY <1>1, <1>13, <1>14, <1>17 DEF One

-----------------------------------------------------------------------------
(* The machine's half of an edge, once more *)

LEMMA OneIsTidy == ASSUME IOne PROVE Tidy
  <1>1. OneTypes(hd, bank, sd, disk, drv) /\ Linked(hd, sd) BY DEF IOne, One
  <1>2. hd.resetting => hd.st = "IDLE" /\ ~hd.pfValid
    BY WhereInStep DEF IOne, Free, Awaits, Storing, Starts, Resets
  <1>3. hd.rdPending /\ hd.pfValid => hd.st = "IDLE"
    BY <1>1, WhereInStep DEF IOne, Linked, Free, Awaits, Storing, Starts, Resets
  <1>. QED BY <1>1, <1>2, <1>3 DEF Tidy, OneTypes

\* The engine's part of an edge, as MachineGood has it.
LEMMA MachineOne ==
  ASSUME IOne, NEW free \in BOOLEAN, NEW m, m = Alone(free),
         ~(sd.st = "done" /\ hd.st \in {"RD_WAIT", "WR_WAIT"})
  PROVE /\ One(m, bank, sd, disk, drv)
        /\ sd.st # "ready" => m.cur = hd.cur /\ m.fbank = hd.fbank /\ ~Raised(m)
        /\ sd.st = "ready" /\ (hd.rstart \/ hd.wstart) =>
             m.rstart = hd.rstart /\ m.wstart = hd.wstart /\ m.sector = hd.sector
  <1>1. One(hd, bank, sd, disk, drv) /\ OneTypes(hd, bank, sd, disk, drv) /\ Linked(hd, sd)
        /\ DOMAIN hd = Registers /\ prot = FALSE /\ Tidy
    BY OneIsTidy DEF IOne, One, OneTypes
  <1>2. CASE hd.st = "IDLE"
    <2>1. One(m, bank, sd, disk, drv) BY <1>1, <1>2, AloneIdle, WakesOne, HandsOne
    <2>2. sd.st = "ready" /\ ~hd.rstart /\ ~hd.wstart BY <1>1, <1>2 DEF Linked, Ours, Raised
    <2>. QED BY <2>1, <2>2
  <1>3. CASE hd.st \in {"RD_LBA1", "WR_LBA1", "RD_LBA2", "WR_LBA2"}
    <2>1. Looks(hd, m) \/ Multiplies(hd, m) \/ Adds(hd, m) BY <1>1, <1>3, AloneLooks, AloneAdds
    <2>2. One(m, bank, sd, disk, drv) BY <1>1, <2>1, LooksOne, MultipliesOne, AddsOne
    <2>3. sd.st = "ready" /\ ~hd.rstart /\ ~hd.wstart BY <1>1, <1>3 DEF Linked, Ours, Raised
    <2>. QED BY <2>2, <2>3
  <1>4. CASE hd.st \in {"RD_REQ", "WR_REQ"}
    <2>1. \/ Raises(hd, sd, FALSE, m) \/ Accepted(hd, sd, FALSE, m)
          \/ m = hd /\ ~(Raised(hd) /\ sd.st # "ready")
      BY <1>1, <1>4, AloneRaises DEF Refused
    <2>2. One(m, bank, sd, disk, drv) BY <1>1, <2>1, RaisesOne, AcceptedOne
    <2>3. CASE Raises(hd, sd, FALSE, m)
      <3>1. sd.st = "ready" BY <2>3 DEF Raises
      <3>2. \/ hd.st = "RD_REQ" /\ m = [hd EXCEPT !.rstart = TRUE]
            \/ hd.st = "WR_REQ" /\ m = [hd EXCEPT !.wstart = TRUE] BY <2>3 DEF Raises
      <3>3. hd.rstart \in BOOLEAN /\ hd.wstart \in BOOLEAN BY <1>1 DEF OneTypes
      <3>4. (hd.rstart => hd.st = "RD_REQ") /\ (hd.wstart => hd.st = "WR_REQ") BY <1>1 DEF Linked
      <3>5. ASSUME hd.rstart \/ hd.wstart
            PROVE m.rstart = hd.rstart /\ m.wstart = hd.wstart /\ m.sector = hd.sector
        <4>1. CASE hd.st = "RD_REQ" /\ m = [hd EXCEPT !.rstart = TRUE]
          <5>1. m.rstart = TRUE /\ m.wstart = hd.wstart /\ m.sector = hd.sector
            BY <1>1, <4>1 DEF Registers
          <5>2. hd.rstart = TRUE BY <3>3, <3>4, <3>5, <4>1
          <5>. QED BY <5>1, <5>2
        <4>2. CASE hd.st = "WR_REQ" /\ m = [hd EXCEPT !.wstart = TRUE]
          <5>1. m.wstart = TRUE /\ m.rstart = hd.rstart /\ m.sector = hd.sector
            BY <1>1, <4>2 DEF Registers
          <5>2. hd.wstart = TRUE BY <3>3, <3>4, <3>5, <4>2
          <5>. QED BY <5>1, <5>2
        <4>. QED BY <3>2, <4>1, <4>2
      <3>. QED BY <2>2, <3>1, <3>5
    <2>4. CASE Accepted(hd, sd, FALSE, m)
      <3>1. sd.st # "ready" BY <2>4 DEF Accepted
      <3>2. \/ m = [hd EXCEPT !.rstart = FALSE, !.st = "RD_WAIT"]
            \/ m = [hd EXCEPT !.wstart = FALSE, !.st = "WR_WAIT"] BY <2>4 DEF Accepted
      <3>3. m.cur = hd.cur /\ m.fbank = hd.fbank /\ m.st \in {"RD_WAIT", "WR_WAIT"}
        BY <1>1, <3>2 DEF Registers
      <3>. QED BY <2>2, <3>1, <3>3 DEF Raised
    <2>5. CASE m = hd /\ ~(Raised(hd) /\ sd.st # "ready") BY <2>2, <2>5
    <2>. QED BY <2>1, <2>3, <2>4, <2>5
  <1>5. CASE hd.st \in {"RD_WAIT", "WR_WAIT"}
    <2>1. m = hd BY <1>1, <1>5, AloneReads, AloneWrites
    <2>. QED BY <1>1, <1>5, <2>1 DEF Raised
  <1>. QED BY <1>1, <1>2, <1>3, <1>4, <1>5 DEF OneTypes, Reads, Writes

\* An edge keeps the invariant as far as the engine and the path go.
LEMMA EdgeOne ==
  ASSUME IOne, NEW free \in BOOLEAN, NEW m, m = Alone(free), SdClk, DiskClk
  PROVE One(m, Filled, sd', disk', drv)
  <1>0. One(hd, bank, sd, disk, drv) /\ OneTypes(hd, bank, sd, disk, drv) /\ Linked(hd, sd) /\ Tidy
    BY OneIsTidy DEF IOne, One
  <1>s. sd.i \in Nat /\ sd = [st |-> sd.st, wr |-> sd.wr, lba |-> sd.lba, i |-> sd.i]
    BY <1>0, SizeAssumption DEF OneTypes
  <1>1. CASE sd' = sd /\ sd.st # "done"
    <2>1. ~Passes BY <1>1 DEF Passes
    <2>2. Filled = bank /\ disk' = disk BY <2>1 DEF Filled, DiskClk
    <2>. QED BY <1>1, <2>2, MachineOne
  <1>2. CASE sd.st = "ready" /\ (hd.rstart \/ hd.wstart)
             /\ sd' = [st |-> "busy", wr |-> hd.wstart, lba |-> hd.sector, i |-> 0]
    <2>1. ~Passes BY <1>2 DEF Passes
    <2>2. Filled = bank /\ disk' = disk BY <2>1 DEF Filled, DiskClk
    <2>3. One(m, bank, sd, disk, drv)
          /\ m.rstart = hd.rstart /\ m.wstart = hd.wstart /\ m.sector = hd.sector
      BY <1>2, MachineOne
    <2>4. Takes(m, sd, sd') BY <1>2, <2>3 DEF Takes
    <2>. QED BY <2>2, <2>3, <2>4, TakesOne
  <1>3. CASE sd.st = "busy" /\ sd.i < Words /\ sd' = [sd EXCEPT !.i = @ + 1]
    <2>1. Passes
      <3>1. sd'.i = sd.i + 1 BY <1>s, <1>3
      <3>2. sd' # sd BY <1>s, <3>1
      <3>. QED BY <1>3, <3>2 DEF Passes
    <2>2. /\ One(m, bank, sd, disk, drv) /\ m.cur = hd.cur /\ m.fbank = hd.fbank
          /\ ~Raised(m) BY <1>3, MachineOne
    <2>3. CASE sd.wr
      <3>1. Filled = bank BY <2>3 DEF Filled
      <3>2. disk' = [disk EXCEPT ![sd.lba][sd.i] = bank[hd.cur][sd.i]] BY <2>1, <2>3 DEF DiskClk
      <3>3. Stores(m, bank, sd, disk, sd', disk') BY <1>3, <2>2, <2>3, <3>2 DEF Stores
      <3>. QED BY <2>2, <3>1, <3>3, StoresOne
    <2>4. CASE ~sd.wr
      <3>1. disk' = disk BY <2>4 DEF DiskClk
      <3>2. Filled = [bank EXCEPT ![hd.fbank][sd.i] = IF sd.lba \in Lba THEN disk[sd.lba][sd.i] ELSE NoWord]
        BY <2>1, <2>4 DEF Filled
      <3>3. Feeds(m, bank, sd, disk, sd', Filled) BY <1>3, <2>2, <2>4, <3>2 DEF Feeds
      <3>. QED BY <2>2, <3>1, <3>3, FeedsOne
    <2>. QED BY <2>3, <2>4
  <1>4. CASE sd.st = "busy" /\ sd.i = Words /\ sd' = [sd EXCEPT !.st = "done"]
    <2>1. ~Passes BY <1>4, SizeAssumption DEF Passes
    <2>2. Filled = bank /\ disk' = disk BY <2>1 DEF Filled, DiskClk
    <2>3. One(m, bank, sd, disk, drv) /\ ~Raised(m) BY <1>4, MachineOne
    <2>4. Finishes(sd, sd') BY <1>4 DEF Finishes
    <2>. QED BY <2>2, <2>3, <2>4, FinishesOne
  <1>5. CASE sd.st = "done" /\ sd' = [sd EXCEPT !.st = "ready"]
    <2>1. ~Passes BY <1>5 DEF Passes
    <2>2. Filled = bank /\ disk' = disk BY <2>1 DEF Filled, DiskClk
    <2>3. hd.st \in {"RD_WAIT", "WR_WAIT"} BY <1>0, <1>5 DEF Linked, Ours
    <2>4. CASE hd.st = "RD_WAIT"
      <3>1. \/ ~hd.restart /\ ~hd.wrPending /\ FetchEnds(hd, sd, m)
            \/ ~hd.restart /\ hd.wrPending /\ FetchYields(hd, sd, m)
            \/ hd.restart /\ Refetches(hd, sd, m) BY <1>0, <1>5, <2>4, AloneReads
      <3>. QED BY <1>0, <1>5, <2>2, <3>1, FetchEndsOne, FetchYieldsOne, RefetchesOne
    <2>5. CASE hd.st = "WR_WAIT"
      <3>1. StoreEnds(hd, sd, m) BY <1>0, <1>5, <2>5, AloneWrites
      <3>. QED BY <1>0, <1>5, <2>2, <3>1, StoreEndsOne
    <2>. QED BY <2>3, <2>4, <2>5
  <1>. QED BY <1>1, <1>2, <1>3, <1>4, <1>5 DEF SdClk

-----------------------------------------------------------------------------
(* The driver's moves when reads are left *)

\* The driver alone goes on, while the bus is its.
LEMMA DriverOne ==
  ASSUME NEW h, NEW bk, NEW s, NEW dk, NEW d, NEW d2, One(h, bk, s, dk, d),
         d2 \in Drivers, d2.geo = Geometry, d2.k < d2.n, d2.lba + d2.n - 1 <= MaxLba,
         InStep(h, d2), OneTrue(h, bk, s, dk, d2)
  PROVE One(h, bk, s, dk, d2)
  BY DEF One, OneTypes

LEMMA ChooseOne ==
  ASSUME NEW h, NEW bk, NEW s, NEW dk, NEW d, NEW d2, One(h, bk, s, dk, d),
         d.pc = "idle", "BUSY" \notin h.status,
         NEW op \in {"READ", "WRITE"}, NEW mode \in Addressing, NEW l \in Lba, NEW n \in 1..MaxCount,
         l + n - 1 <= MaxLba,
         d2 = [d EXCEPT !.pc = "count", !.op = op, !.mode = mode, !.lba = l, !.n = n,
                        !.k = 0, !.w = 0, !.geo = d.geo]
  PROVE One(h, bk, s, dk, d2)
  <1>1. d \in Drivers /\ d.geo = Geometry BY DEF One, OneTypes
  <1>2. 0 \in Idx BY SizeAssumption DEF Idx
  <1>3. d2 \in Drivers /\ d2.geo = Geometry /\ d2.lba = l /\ d2.n = n /\ d2.k = 0 /\ d2.w = 0
        /\ d2.pc = "count" /\ d2.op = op BY <1>1, <1>2 DEF Drivers
  <1>4. d2.k < d2.n /\ d2.lba + d2.n - 1 <= MaxLba BY <1>3
  <1>5. Free(h)
    <2>1. ~Awaits(h) /\ ~Starts(h) BY DEF Awaits, Starts, Resets
    <2>. QED BY <2>1 DEF One, InStep
  <1>6. InStep(h, d2) BY <1>3, <1>5 DEF InStep
  <1>7. OneTrue(h, bk, s, dk, d2) BY <1>3 DEF OneTrue, OneRead, OneWrite
  <1>. QED BY <1>3, <1>4, <1>6, <1>7, DriverOne

\* The count is programmed; the end of a fetch on the same edge wins.
LEMMA CountOne ==
  ASSUME NEW h, NEW bk, NEW s, NEW dk, NEW d, NEW m, NEW d2, One(h, bk, s, dk, d), d.pc = "count",
         m = [h EXCEPT !.count = d.n] \/ (m = h /\ h.st = "IDLE"),
         d2 = [d EXCEPT !.pc = "addr"]
  PROVE One(m, bk, s, dk, d2)
  <1>1. OneTypes(h, bk, s, dk, d) /\ Linked(h, s) /\ InStep(h, d) /\ DOMAIN h = Registers
        /\ d \in Drivers /\ d.n \in Nat /\ h.count \in Nat
    BY DriverTypes DEF One, OneTypes
  <1>2. d2 \in Drivers /\ d2.geo = d.geo /\ d2.k = d.k /\ d2.n = d.n /\ d2.lba = d.lba
        /\ d2.w = d.w /\ d2.pc = "addr" /\ d2.op = d.op BY <1>1 DEF Drivers
  <1>3. Free(h) /\ d.w = 0 /\ d.op \in {"READ", "WRITE"} BY <1>1 DEF InStep
  <1>4. CASE m = [h EXCEPT !.count = d.n]
    <2>1. /\ m = [r \in Registers |-> m[r]]
          /\ m.status = h.status /\ m.resetting = h.resetting /\ m.st = h.st
          /\ m.rstart = h.rstart /\ m.wstart = h.wstart /\ m.off = h.off /\ m.count = d.n
          /\ m.cur = h.cur /\ m.fbank = h.fbank /\ m.rdPending = h.rdPending
          /\ m.pfValid = h.pfValid /\ m.restart = h.restart /\ m.wrPending = h.wrPending
          /\ m.pfBank = h.pfBank /\ m.geo = h.geo /\ m.addr = h.addr /\ m.sector = h.sector
      BY <1>1, <1>4 DEF Registers
    <2>2. OneTypes(m, bk, s, dk, d2) BY <1>1, <1>2, <2>1 DEF OneTypes
    <2>3. Linked(m, s) BY <1>1, <2>1 DEF Linked, Ours, Raised
    <2>4. Free(m) BY <1>3, <2>1 DEF Free
    <2>5. InStep(m, d2) BY <1>2, <1>3, <2>4 DEF InStep
    <2>6. d.n = 1 => Steady(m) BY <2>1 DEF Steady
    <2>7. OneTrue(m, bk, s, dk, d2) BY <1>2, <2>6 DEF OneTrue, OneRead, OneWrite
    <2>. QED BY <2>2, <2>3, <2>5, <2>7 DEF One
  <1>5. CASE m = h /\ h.st = "IDLE"
    <2>1. InStep(h, d2) BY <1>2, <1>3 DEF InStep
    <2>2. OneTrue(h, bk, s, dk, d2) BY <1>2, <1>5 DEF OneTrue, OneRead, OneWrite, Steady
    <2>3. d2.geo = Geometry /\ d2.k < d2.n /\ d2.lba + d2.n - 1 <= MaxLba
      BY <1>1, <1>2 DEF OneTypes
    <2>. QED BY <1>2, <1>5, <2>1, <2>2, <2>3, DriverOne
  <1>. QED BY <1>4, <1>5

\* The sector is programmed; the end of a fetch wins only over a command for more
\* sectors than one.
LEMMA AddrOne ==
  ASSUME NEW h, NEW bk, NEW s, NEW dk, NEW d, NEW m, NEW d2, One(h, bk, s, dk, d), d.pc = "addr",
         m = [h EXCEPT !.addr = Address(d.lba, d.mode, d.geo)] \/ (m = h /\ d.n # 1),
         d2 = [d EXCEPT !.pc = "cmd"]
  PROVE One(m, bk, s, dk, d2)
  <1>1. OneTypes(h, bk, s, dk, d) /\ Linked(h, s) /\ InStep(h, d) /\ DOMAIN h = Registers
        /\ d \in Drivers /\ OneTrue(h, bk, s, dk, d)
    BY DEF One, OneTypes
  <1>2. d2 \in Drivers /\ d2.geo = d.geo /\ d2.k = d.k /\ d2.n = d.n /\ d2.lba = d.lba
        /\ d2.w = d.w /\ d2.pc = "cmd" /\ d2.op = d.op BY <1>1 DEF Drivers
  <1>3. Free(h) /\ d.w = 0 /\ d.op \in {"READ", "WRITE"} BY <1>1 DEF InStep
  <1>4. CASE m = [h EXCEPT !.addr = Address(d.lba, d.mode, d.geo)]
    <2>. PICK a : a = Address(d.lba, d.mode, d.geo) OBVIOUS
    <2>0. a \in Addresses /\ At(a, d.geo, d.lba) /\ d.geo = h.geo
      <3>1. d.geo \in AllGeometries /\ d.lba \in Nat /\ d.mode \in Addressing /\ d.geo = h.geo
        BY <1>1, DriverTypes, GeometryAssumption DEF OneTypes, AllGeometries
      <3>. QED BY <3>1, AddressTypes, AddressRight
    <2>1. /\ m = [r \in Registers |-> m[r]]
          /\ m.status = h.status /\ m.resetting = h.resetting /\ m.st = h.st
          /\ m.rstart = h.rstart /\ m.wstart = h.wstart /\ m.off = h.off /\ m.count = h.count
          /\ m.cur = h.cur /\ m.fbank = h.fbank /\ m.rdPending = h.rdPending
          /\ m.pfValid = h.pfValid /\ m.restart = h.restart /\ m.wrPending = h.wrPending
          /\ m.pfBank = h.pfBank /\ m.geo = h.geo /\ m.addr = a /\ m.sector = h.sector
      BY <1>1, <1>4 DEF Registers
    <2>2. OneTypes(m, bk, s, dk, d2) BY <1>1, <1>2, <2>0, <2>1 DEF OneTypes
    <2>3. Linked(m, s) BY <1>1, <2>1 DEF Linked, Ours, Raised
    <2>4. Free(m) BY <1>3, <2>1 DEF Free
    <2>5. InStep(m, d2) BY <1>2, <1>3, <2>4 DEF InStep
    <2>6. d.n = 1 => Steady(m) /\ At(m.addr, m.geo, d.lba) BY <1>1, <2>0, <2>1 DEF OneTrue, Steady
    <2>7. OneTrue(m, bk, s, dk, d2) BY <1>2, <2>6 DEF OneTrue, OneRead, OneWrite
    <2>. QED BY <2>2, <2>3, <2>5, <2>7 DEF One
  <1>5. CASE m = h /\ d.n # 1
    <2>1. InStep(h, d2) BY <1>2, <1>3 DEF InStep
    <2>2. OneTrue(h, bk, s, dk, d2) BY <1>2, <1>5 DEF OneTrue
    <2>3. d2.geo = Geometry /\ d2.k < d2.n /\ d2.lba + d2.n - 1 <= MaxLba
      BY <1>1, <1>2 DEF OneTypes
    <2>. QED BY <1>2, <1>5, <2>1, <2>2, <2>3, DriverOne
  <1>. QED BY <1>4, <1>5

\* A READ: the fetch begins, or the one on its way is made void.
Calls(h, m) ==
  LET bits == (h.status \cup {"BUSY"}) \ {"DRQ", "ERROR"} IN
  \/ /\ h.st = "IDLE"
     /\ m = [h EXCEPT !.status = bits, !.rdPending = TRUE, !.pfValid = FALSE, !.fbank = h.cur,
                      !.st = "RD_LBA1"]
  \/ /\ h.st # "IDLE"
     /\ m = [h EXCEPT !.status = bits, !.rdPending = TRUE, !.pfValid = FALSE, !.fbank = h.cur,
                      !.restart = TRUE]

LEMMA ReadOne ==
  ASSUME NEW h, NEW bk, NEW s, NEW dk, NEW d, NEW m, NEW d2, One(h, bk, s, dk, d), d.pc = "cmd",
         d.op = "READ", Calls(h, m), d2 = [d EXCEPT !.pc = "wait"]
  PROVE One(m, bk, s, dk, d2)
  <1>0. PICK bits, b : bits = (h.status \cup {"BUSY"}) \ {"DRQ", "ERROR"} /\ b = h.cur OBVIOUS
  <1>c. \/ /\ h.st = "IDLE"
           /\ m = [h EXCEPT !.status = bits, !.rdPending = TRUE, !.pfValid = FALSE, !.fbank = b,
                            !.st = "RD_LBA1"]
        \/ /\ h.st # "IDLE"
           /\ m = [h EXCEPT !.status = bits, !.rdPending = TRUE, !.pfValid = FALSE, !.fbank = b,
                            !.restart = TRUE]
    BY <1>0 DEF Calls
  <1>1. OneTypes(h, bk, s, dk, d) /\ Linked(h, s) /\ InStep(h, d) /\ DOMAIN h = Registers
        /\ d \in Drivers /\ OneTrue(h, bk, s, dk, d)
    BY DEF One, OneTypes
  <1>2. d2 \in Drivers /\ d2.geo = d.geo /\ d2.k = d.k /\ d2.n = d.n /\ d2.lba = d.lba
        /\ d2.w = d.w /\ d2.pc = "wait" /\ d2.op = "READ" BY <1>1 DEF Drivers
  <1>3. Free(h) /\ d.w = 0 BY <1>1 DEF InStep
  <1>4. bits \subseteq {"BUSY", "DRQ"} /\ "DRQ" \notin bits /\ "BUSY" \in bits
    BY <1>0, <1>1 DEF OneTypes
  <1>5. /\ m = [r \in Registers |-> m[r]]
        /\ m.status = bits /\ m.resetting = h.resetting
        /\ m.rstart = h.rstart /\ m.wstart = h.wstart /\ m.off = h.off /\ m.count = h.count
        /\ m.cur = h.cur /\ m.fbank = b /\ m.rdPending = TRUE
        /\ m.pfValid = FALSE /\ m.wrPending = h.wrPending
        /\ m.pfBank = h.pfBank /\ m.geo = h.geo /\ m.addr = h.addr /\ m.sector = h.sector
        /\ \/ h.st = "IDLE" /\ m.st = "RD_LBA1" /\ m.restart = h.restart
           \/ h.st # "IDLE" /\ m.st = h.st /\ m.restart = TRUE
    <2>1. CASE h.st = "IDLE" BY ONLY ZenonT(60), <1>1, <1>c, <2>1 DEF Registers
    <2>2. CASE h.st # "IDLE" BY ONLY ZenonT(60), <1>1, <1>c, <2>2 DEF Registers
    <2>. QED BY <2>1, <2>2
  <1>6. m.st \in Reads /\ b \in {0, 1} BY <1>0, <1>1, <1>3, <1>5 DEF Free, Reads, OneTypes
  <1>7. OneTypes(m, bk, s, dk, d2) BY <1>1, <1>2, <1>4, <1>5, <1>6 DEF OneTypes
  <1>8. Linked(m, s)
    <2>1. CASE h.st = "IDLE"
      <3>1. s.st = "ready" /\ ~h.rstart /\ ~h.wstart BY <1>1, <2>1 DEF Linked, Ours, Raised
      <3>. QED BY <1>5, <2>1, <3>1 DEF Linked
    <2>2. CASE h.st # "IDLE" BY <1>1, <1>5, <2>2 DEF Linked, Ours, Raised
    <2>. QED BY <2>1, <2>2
  <1>9. Awaits(m) BY <1>3, <1>4, <1>5, <1>6 DEF Free, Awaits
  <1>10. InStep(m, d2) BY <1>2, <1>3, <1>9 DEF InStep
  <1>11. OneTrue(m, bk, s, dk, d2)
    <2>1. ASSUME d.n = 1 PROVE OneRead(m, bk, s, dk, d2)
      <3>1. At(m.addr, m.geo, d.lba) BY <1>1, <1>5, <2>1 DEF OneTrue
      <3>2. CASE h.st = "IDLE"
        <4>1. s.st = "ready" BY <1>1, <3>2 DEF Linked, Ours, Raised
        <4>2. Going(m, d.lba) /\ Come(m, bk, s, dk, d.lba)
          BY <1>5, <3>1, <3>2, <4>1 DEF Going, Come
        <4>. QED BY <1>2, <1>5, <3>1, <4>2 DEF OneRead
      <3>3. CASE h.st # "IDLE" BY <1>2, <1>5, <3>1, <3>3 DEF OneRead
      <3>. QED BY <3>2, <3>3
    <2>. QED BY <1>2, <2>1 DEF OneTrue
  <1>. QED BY <1>7, <1>8, <1>10, <1>11 DEF One

\* A WRITE: words may come at once; a fetch on its way goes on beside them.
LEMMA WriteOne ==
  ASSUME NEW h, NEW bk, NEW s, NEW dk, NEW d, NEW m, NEW d2, One(h, bk, s, dk, d), d.pc = "cmd",
         d.op = "WRITE", Opens(h, m), d2 = [d EXCEPT !.pc = "wait"]
  PROVE One(m, bk, s, dk, d2)
  <1>0. PICK bits : bits = (h.status \cup {"DRQ"}) \ {"ERROR"} OBVIOUS
  <1>c. m = [h EXCEPT !.off = 0, !.pfValid = FALSE, !.status = bits] BY <1>0 DEF Opens
  <1>1. OneTypes(h, bk, s, dk, d) /\ Linked(h, s) /\ InStep(h, d) /\ DOMAIN h = Registers
        /\ d \in Drivers /\ OneTrue(h, bk, s, dk, d)
    BY DEF One, OneTypes
  <1>2. d2 \in Drivers /\ d2.geo = d.geo /\ d2.k = d.k /\ d2.n = d.n /\ d2.lba = d.lba
        /\ d2.w = d.w /\ d2.pc = "wait" /\ d2.op = "WRITE" BY <1>1 DEF Drivers
  <1>3. Free(h) /\ d.w = 0 BY <1>1 DEF InStep
  <1>4. bits \subseteq {"BUSY", "DRQ"} /\ "DRQ" \in bits /\ "BUSY" \notin bits
    BY <1>0, <1>1, <1>3 DEF OneTypes, Free
  <1>z. 0 \in Idx BY SizeAssumption DEF Idx
  <1>5. /\ m = [r \in Registers |-> m[r]]
        /\ m.status = bits /\ m.resetting = h.resetting /\ m.st = h.st
        /\ m.rstart = h.rstart /\ m.wstart = h.wstart /\ m.off = 0 /\ m.count = h.count
        /\ m.cur = h.cur /\ m.fbank = h.fbank /\ m.rdPending = h.rdPending
        /\ m.pfValid = FALSE /\ m.restart = h.restart /\ m.wrPending = h.wrPending
        /\ m.pfBank = h.pfBank /\ m.geo = h.geo /\ m.addr = h.addr /\ m.sector = h.sector
    BY ONLY <1>1, <1>c DEF Registers
  <1>6. OneTypes(m, bk, s, dk, d2) BY <1>1, <1>2, <1>4, <1>5, <1>z DEF OneTypes
  <1>7. Linked(m, s) BY <1>1, <1>5 DEF Linked, Ours, Raised
  <1>8. Offers(m, 0) BY <1>3, <1>4, <1>5 DEF Offers, Free
  <1>9. InStep(m, d2) BY <1>2, <1>3, <1>8 DEF InStep
  <1>10. d.n = 1 => OneWrite(m, bk, s, dk, d2)
    <2>1. \A j \in Idx : ~(j < d2.w) BY <1>2, <1>3 DEF Idx
    <2>. QED BY <1>1, <1>2, <1>5, <2>1 DEF OneTrue, OneWrite, Steady
  <1>11. OneTrue(m, bk, s, dk, d2) BY <1>2, <1>10 DEF OneTrue
  <1>. QED BY <1>6, <1>7, <1>9, <1>11 DEF One

\* BUSY is clear and DRQ is up: words may be moved.
LEMMA WaitOne ==
  ASSUME NEW h, NEW bk, NEW s, NEW dk, NEW d, NEW d2, One(h, bk, s, dk, d), d.pc = "wait",
         "BUSY" \notin h.status, "DRQ" \in h.status, d2 = [d EXCEPT !.pc = "data"]
  PROVE One(h, bk, s, dk, d2)
  <1>1. OneTypes(h, bk, s, dk, d) /\ InStep(h, d) /\ OneTrue(h, bk, s, dk, d) /\ d \in Drivers
    BY DEF One, OneTypes
  <1>2. d2 \in Drivers /\ d2.geo = d.geo /\ d2.k = d.k /\ d2.n = d.n /\ d2.lba = d.lba
        /\ d2.w = d.w /\ d2.pc = "data" /\ d2.op = d.op /\ d2.ref = d.ref BY <1>1 DEF Drivers
  <1>3. d2.geo = Geometry /\ d2.k < d2.n /\ d2.lba + d2.n - 1 <= MaxLba BY <1>1, <1>2 DEF OneTypes
  <1>4. d.op \in {"READ", "WRITE"} /\ d.w = 0 /\ Offers(h, 0) BY <1>1 DEF InStep, Awaits, Offers
  <1>5. InStep(h, d2) BY <1>2, <1>4 DEF InStep
  <1>6. ~h.rdPending BY <1>4 DEF Offers, Free
  <1>7. OneTrue(h, bk, s, dk, d2) BY <1>1, <1>2, <1>6 DEF OneTrue, OneRead, OneWrite
  <1>. QED BY <1>2, <1>3, <1>5, <1>7, DriverOne

\* The driver leaves a READ of more sectors than one.
LEMMA DropOne ==
  ASSUME NEW h, NEW bk, NEW s, NEW dk, NEW d, NEW d2, One(h, bk, s, dk, d),
         d.pc \in {"data", "wait"}, d.op = "READ", d2 = [d EXCEPT !.pc = "idle"]
  PROVE One(h, bk, s, dk, d2)
  <1>1. OneTypes(h, bk, s, dk, d) /\ InStep(h, d) /\ d \in Drivers BY DEF One, OneTypes
  <1>2. d2 \in Drivers /\ d2.geo = d.geo /\ d2.k = d.k /\ d2.n = d.n /\ d2.lba = d.lba
        /\ d2.pc = "idle" BY <1>1 DEF Drivers
  <1>3. d2.geo = Geometry /\ d2.k < d2.n /\ d2.lba + d2.n - 1 <= MaxLba BY <1>1, <1>2 DEF OneTypes
  <1>4. InStep(h, d2) BY <1>1, <1>2 DEF InStep, Offers
  <1>5. OneTrue(h, bk, s, dk, d2) BY <1>2 DEF OneTrue, OneRead, OneWrite
  <1>. QED BY <1>2, <1>3, <1>4, <1>5, DriverOne

\* A sector is on the card: the driver is through, or offers the next one.
LEMMA WrittenOne ==
  ASSUME NEW h, NEW bk, NEW s, NEW dk, NEW d, NEW d2, NEW ref \in [Lba -> {0, 1}],
         One(h, bk, s, dk, d), d.pc = "fin", "BUSY" \notin h.status,
         d2 = IF d.k < d.n - 1 THEN [d EXCEPT !.ref = ref, !.k = d.k + 1, !.w = 0, !.pc = "data"]
              ELSE [d EXCEPT !.ref = ref, !.pc = "idle"]
  PROVE One(h, bk, s, dk, d2)
  <1>1. OneTypes(h, bk, s, dk, d) /\ InStep(h, d) /\ d \in Drivers BY DEF One, OneTypes
  <1>2. Offers(h, 0) /\ d.op = "WRITE" BY <1>1 DEF InStep, Storing
  <1>3. d.k \in Nat /\ d.n \in Nat /\ d.lba \in Nat /\ d.k < d.n /\ d.geo = Geometry
        /\ d.lba + d.n - 1 <= MaxLba
    BY <1>1, DriverTypes DEF OneTypes
  <1>z. 0 \in Idx BY SizeAssumption DEF Idx
  <1>4. CASE d.k < d.n - 1
    <2>1. PICK k \in Nat : k = d.k + 1 BY <1>3
    <2>2. d2 = [d EXCEPT !.ref = ref, !.k = k, !.w = 0, !.pc = "data"] BY <1>4, <2>1
    <2>3. d2 \in Drivers /\ d2.geo = d.geo /\ d2.k = k /\ d2.n = d.n /\ d2.lba = d.lba
          /\ d2.w = 0 /\ d2.pc = "data" /\ d2.op = d.op BY <1>1, <1>z, <2>2 DEF Drivers
    <2>4. d2.k < d2.n /\ d2.n # 1 BY <1>3, <1>4, <2>1, <2>3
    <2>5. InStep(h, d2) BY <1>2, <2>3 DEF InStep
    <2>6. OneTrue(h, bk, s, dk, d2) BY <2>4 DEF OneTrue
    <2>. QED BY <1>3, <2>3, <2>4, <2>5, <2>6, DriverOne
  <1>5. CASE ~(d.k < d.n - 1)
    <2>1. d2 = [d EXCEPT !.ref = ref, !.pc = "idle"] BY <1>5
    <2>2. d2 \in Drivers /\ d2.geo = d.geo /\ d2.k = d.k /\ d2.n = d.n /\ d2.lba = d.lba
          /\ d2.pc = "idle" BY <1>1, <2>1 DEF Drivers
    <2>3. InStep(h, d2) BY <1>2, <2>2 DEF InStep, Offers
    <2>4. OneTrue(h, bk, s, dk, d2) BY <2>2 DEF OneTrue, OneRead, OneWrite
    <2>. QED BY <1>3, <2>2, <2>3, <2>4, DriverOne
  <1>. QED BY <1>4, <1>5

\* A word is read that is not the last of its sector.
LEMMA ReadOnOne ==
  ASSUME NEW h, NEW bk, NEW s, NEW dk, NEW d, NEW m, NEW d2, NEW w \in Idx,
         One(h, bk, s, dk, d), d.pc = "data", d.op = "READ",
         m = [h EXCEPT !.off = w], d2 = [d EXCEPT !.w = w]
  PROVE One(m, bk, s, dk, d2)
  <1>1. OneTypes(h, bk, s, dk, d) /\ Linked(h, s) /\ InStep(h, d) /\ DOMAIN h = Registers
        /\ d \in Drivers /\ OneTrue(h, bk, s, dk, d)
    BY DEF One, OneTypes
  <1>2. d2 \in Drivers /\ d2.geo = d.geo /\ d2.k = d.k /\ d2.n = d.n /\ d2.lba = d.lba
        /\ d2.w = w /\ d2.pc = "data" /\ d2.op = "READ" BY <1>1 DEF Drivers
  <1>3. /\ m = [r \in Registers |-> m[r]]
        /\ m.status = h.status /\ m.resetting = h.resetting /\ m.st = h.st
        /\ m.rstart = h.rstart /\ m.wstart = h.wstart /\ m.off = w /\ m.count = h.count
        /\ m.cur = h.cur /\ m.fbank = h.fbank /\ m.rdPending = h.rdPending
        /\ m.pfValid = h.pfValid /\ m.restart = h.restart /\ m.wrPending = h.wrPending
        /\ m.pfBank = h.pfBank /\ m.geo = h.geo /\ m.addr = h.addr /\ m.sector = h.sector
    BY <1>1 DEF Registers
  <1>4. OneTypes(m, bk, s, dk, d2) BY <1>1, <1>2, <1>3 DEF OneTypes
  <1>5. Linked(m, s) BY <1>1, <1>3 DEF Linked, Ours, Raised
  <1>6. Offers(m, w) BY <1>1, <1>3 DEF InStep, Offers, Free
  <1>7. InStep(m, d2) BY <1>2, <1>6 DEF InStep
  <1>8. OneTrue(m, bk, s, dk, d2) BY <1>1, <1>2, <1>3 DEF OneTrue, OneRead
  <1>. QED BY <1>4, <1>5, <1>7, <1>8 DEF One

\* The last word of a sector is read: the bus waits for the next one, on its way
\* or asked for now, or there is none.
ReadsOut(h, m) ==
  LET waits == (h.status \ {"DRQ"}) \cup {"BUSY"} IN
  \/ m = [h EXCEPT !.off = 0, !.rdPending = TRUE, !.status = waits]
  \/ /\ h.st = "IDLE" /\ ~h.pfValid
     /\ m = [h EXCEPT !.off = 0, !.rdPending = TRUE, !.status = waits, !.fbank = 1 - h.cur,
                      !.st = "RD_LBA1"]
  \/ m = [h EXCEPT !.off = 0, !.status = h.status \ {"DRQ", "BUSY"}]

LEMMA ReadLastOne ==
  ASSUME NEW h, NEW bk, NEW s, NEW dk, NEW d, NEW m, NEW d2, One(h, bk, s, dk, d), d.pc = "data",
         d.op = "READ", ReadsOut(h, m),
         d2 = IF d.k < d.n - 1 THEN [d EXCEPT !.w = 0, !.k = d.k + 1, !.pc = "wait"]
              ELSE [d EXCEPT !.pc = "idle"]
  PROVE One(m, bk, s, dk, d2)
  <1>0. PICK bits, b :
          /\ b = 1 - h.cur
          /\ \/ /\ bits = (h.status \ {"DRQ"}) \cup {"BUSY"}
                /\ m = [h EXCEPT !.off = 0, !.rdPending = TRUE, !.status = bits]
             \/ /\ bits = (h.status \ {"DRQ"}) \cup {"BUSY"} /\ h.st = "IDLE" /\ ~h.pfValid
                /\ m = [h EXCEPT !.off = 0, !.rdPending = TRUE, !.status = bits, !.fbank = b,
                                 !.st = "RD_LBA1"]
             \/ /\ bits = h.status \ {"DRQ", "BUSY"}
                /\ m = [h EXCEPT !.off = 0, !.status = bits]
    <2>p. PICK waits, quiet, b :
            /\ waits = (h.status \ {"DRQ"}) \cup {"BUSY"} /\ quiet = h.status \ {"DRQ", "BUSY"}
            /\ b = 1 - h.cur OBVIOUS
    <2>q. \/ m = [h EXCEPT !.off = 0, !.rdPending = TRUE, !.status = waits]
          \/ /\ h.st = "IDLE" /\ ~h.pfValid
             /\ m = [h EXCEPT !.off = 0, !.rdPending = TRUE, !.status = waits, !.fbank = b,
                              !.st = "RD_LBA1"]
          \/ m = [h EXCEPT !.off = 0, !.status = quiet]
      BY <2>p DEF ReadsOut
    <2>1. CASE m = [h EXCEPT !.off = 0, !.rdPending = TRUE, !.status = waits]
      BY ONLY <2>p, <2>1
    <2>2. CASE /\ h.st = "IDLE" /\ ~h.pfValid
               /\ m = [h EXCEPT !.off = 0, !.rdPending = TRUE, !.status = waits, !.fbank = b,
                                !.st = "RD_LBA1"]
      BY ONLY <2>p, <2>2
    <2>3. CASE m = [h EXCEPT !.off = 0, !.status = quiet]
      BY ONLY <2>p, <2>3
    <2>. QED BY <2>q, <2>1, <2>2, <2>3
  <1>1. OneTypes(h, bk, s, dk, d) /\ Linked(h, s) /\ InStep(h, d) /\ DOMAIN h = Registers
        /\ d \in Drivers
    BY DEF One, OneTypes
  <1>z. 0 \in Idx BY SizeAssumption DEF Idx
  <1>2. d.k \in Nat /\ d.n \in Nat /\ d.k < d.n /\ d.geo = Geometry /\ d.lba + d.n - 1 <= MaxLba
    BY <1>1, DriverTypes DEF OneTypes
  <1>3. /\ d2 \in Drivers /\ d2.geo = Geometry /\ d2.k < d2.n /\ d2.lba + d2.n - 1 <= MaxLba
        /\ \/ d2.pc = "idle"
           \/ d2.pc = "wait" /\ d2.op = "READ" /\ d2.w = 0 /\ d2.n # 1
    <2>1. CASE d.k < d.n - 1
      <3>1. PICK k \in Nat : k = d.k + 1 BY <1>2
      <3>2. d2 = [d EXCEPT !.w = 0, !.k = k, !.pc = "wait"] BY <2>1, <3>1
      <3>3. d2 \in Drivers /\ d2.geo = d.geo /\ d2.k = k /\ d2.n = d.n /\ d2.lba = d.lba
            /\ d2.w = 0 /\ d2.pc = "wait" /\ d2.op = "READ" BY <1>1, <1>z, <3>2 DEF Drivers
      <3>4. d2.k < d2.n /\ d2.n # 1 BY <1>2, <2>1, <3>1, <3>3
      <3>. QED BY <1>2, <3>3, <3>4
    <2>2. CASE ~(d.k < d.n - 1)
      <3>1. d2 = [d EXCEPT !.pc = "idle"] BY <2>2
      <3>2. d2 \in Drivers /\ d2.geo = d.geo /\ d2.k = d.k /\ d2.n = d.n /\ d2.lba = d.lba
            /\ d2.pc = "idle" BY <1>1, <3>1 DEF Drivers
      <3>. QED BY <1>2, <3>2
    <2>. QED BY <2>1, <2>2
  <1>4. Free(h) BY <1>1 DEF InStep, Offers
  <1>5. /\ m = [r \in Registers |-> m[r]]
        /\ m.status = bits /\ m.off = 0
        /\ m.resetting = h.resetting /\ m.rstart = h.rstart /\ m.wstart = h.wstart
        /\ m.count = h.count /\ m.cur = h.cur /\ m.pfValid = h.pfValid /\ m.restart = h.restart
        /\ m.wrPending = h.wrPending /\ m.pfBank = h.pfBank /\ m.geo = h.geo
        /\ m.addr = h.addr /\ m.sector = h.sector
        /\ \/ m.st = h.st /\ m.fbank = h.fbank
           \/ h.st = "IDLE" /\ ~h.pfValid /\ m.st = "RD_LBA1" /\ m.fbank = b
        /\ \/ m.rdPending = TRUE /\ bits = (h.status \ {"DRQ"}) \cup {"BUSY"}
           \/ /\ m.rdPending = h.rdPending /\ bits = h.status \ {"DRQ", "BUSY"}
              /\ m.st = h.st /\ m.fbank = h.fbank
    <2>1. CASE m = [h EXCEPT !.off = 0, !.rdPending = TRUE, !.status = bits]
               /\ bits = (h.status \ {"DRQ"}) \cup {"BUSY"}
      BY ONLY <1>1, <2>1 DEF Registers
    <2>2. CASE m = [h EXCEPT !.off = 0, !.rdPending = TRUE, !.status = bits, !.fbank = b,
                             !.st = "RD_LBA1"]
               /\ h.st = "IDLE" /\ ~h.pfValid /\ bits = (h.status \ {"DRQ"}) \cup {"BUSY"}
      <3>1. m = [h EXCEPT !.off = 0, !.rdPending = TRUE, !.status = bits, !.fbank = b,
                          !.st = "RD_LBA1"] BY <2>2
      <3>2. /\ m = [r \in Registers |-> m[r]]
            /\ m.status = bits /\ m.off = 0 /\ m.rdPending = TRUE /\ m.fbank = b /\ m.st = "RD_LBA1"
            /\ m.resetting = h.resetting /\ m.rstart = h.rstart /\ m.wstart = h.wstart
            /\ m.count = h.count /\ m.cur = h.cur /\ m.pfValid = h.pfValid /\ m.restart = h.restart
            /\ m.wrPending = h.wrPending /\ m.pfBank = h.pfBank /\ m.geo = h.geo
            /\ m.addr = h.addr /\ m.sector = h.sector
        BY ONLY <1>1, <3>1 DEF Registers
      <3>. QED BY <2>2, <3>2
    <2>3. CASE m = [h EXCEPT !.off = 0, !.status = bits] /\ bits = h.status \ {"DRQ", "BUSY"}
      BY ONLY <1>1, <2>3 DEF Registers
    <2>. QED BY <1>0, <2>1, <2>2, <2>3
  <1>6. bits \subseteq {"BUSY", "DRQ"} /\ b \in {0, 1}
    <2>1. h.status \subseteq {"BUSY", "DRQ"} /\ h.cur \in {0, 1} BY <1>1 DEF OneTypes
    <2>2. bits \subseteq h.status \cup {"BUSY"} BY <1>5
    <2>. QED BY <1>0, <2>1, <2>2
  <1>7. m.st \in Reads \cup {"IDLE"} BY <1>4, <1>5 DEF Free, Reads
  <1>8. OneTypes(m, bk, s, dk, d2)
    <2>1. m.rdPending \in BOOLEAN BY <1>1, <1>5 DEF OneTypes
    <2>. QED BY <1>1, <1>3, <1>5, <1>6, <1>7, <1>z, <2>1 DEF OneTypes
  <1>9. Linked(m, s)
    <2>1. CASE h.st = "IDLE"
      <3>1. s.st = "ready" /\ ~h.rstart /\ ~h.wstart BY <1>1, <2>1 DEF Linked, Ours, Raised
      <3>. QED BY <1>5, <2>1, <3>1 DEF Linked, Reads
    <2>2. CASE h.st # "IDLE" BY <1>1, <1>5, <2>2 DEF Linked, Ours, Raised
    <2>. QED BY <2>1, <2>2
  <1>10. Awaits(m) \/ (Free(m) /\ "DRQ" \notin m.status)
    <2>1. CASE m.rdPending = TRUE /\ bits = (h.status \ {"DRQ"}) \cup {"BUSY"}
      BY <1>4, <1>5, <1>7, <2>1 DEF Awaits, Free
    <2>2. CASE m.rdPending = h.rdPending /\ bits = h.status \ {"DRQ", "BUSY"}
               /\ m.st = h.st /\ m.fbank = h.fbank
      BY <1>4, <1>5, <2>2 DEF Free
    <2>. QED BY <1>5, <2>1, <2>2
  <1>11. InStep(m, d2) BY <1>3, <1>10 DEF InStep
  <1>12. OneTrue(m, bk, s, dk, d2) BY <1>3 DEF OneTrue, OneRead, OneWrite
  <1>. QED BY <1>8, <1>9, <1>11, <1>12 DEF One

\* A word is written into the bank that the bus uses.
LEMMA PutsOne ==
  ASSUME NEW h, NEW bk, NEW s, NEW dk, NEW d, NEW bk2, One(h, bk, s, dk, d),
         d.pc = "data", d.op = "WRITE", Puts(h, bk, d, bk2)
  PROVE /\ bk2 \in [{0, 1} -> [Idx -> Word]] /\ h.off = d.w
        /\ d.n = 1 => \A j \in Idx : j < d.w + 1 =>
             bk2[h.cur][j] = Sector(d.lba, 1 - d.ref[d.lba])[j]
  <1>1. OneTypes(h, bk, s, dk, d) /\ InStep(h, d) /\ OneTrue(h, bk, s, dk, d) /\ d \in Drivers
        /\ h.cur \in {0, 1} /\ bk \in [{0, 1} -> [Idx -> Word]]
    BY DEF One, OneTypes
  <1>2. h.off = d.w BY <1>1 DEF InStep, Offers
  <1>3. d.k \in Nat /\ d.n \in Nat /\ d.k < d.n /\ d.lba \in Nat /\ d.lba + d.n - 1 <= MaxLba
    BY <1>1, DriverTypes DEF OneTypes
  <1>l. PICK l \in Lba : l = d.lba + d.k BY <1>3, SizeAssumption DEF Lba
  <1>4. d.ref[l] \in {0, 1} BY <1>1 DEF Drivers
  <1>5. d.w \in Idx /\ d.w \in Nat BY <1>1, SizeAssumption DEF Drivers, Idx
  <1>6. PICK word \in Word : word = <<l, d.w, 1 - d.ref[l]>>
    <2>1. <<l, d.w, 1 - d.ref[l]>> \in Lba \X Idx \X {0, 1} BY <1>4, <1>5
    <2>. QED BY <2>1 DEF Word
  <1>7. PICK old \in [Idx -> Word] : old = bk[h.cur] BY <1>1
  <1>8. bk2 = [bk EXCEPT ![h.cur] = [old EXCEPT ![d.w] = word]]
    BY <1>1, <1>2, <1>l, <1>6, <1>7 DEF Puts
  <1>9. bk2 \in [{0, 1} -> [Idx -> Word]] /\ bk2[h.cur] = [old EXCEPT ![d.w] = word]
    BY <1>1, <1>5, <1>7, <1>8
  <1>10. ASSUME d.n = 1, NEW j \in Idx, j < d.w + 1
         PROVE bk2[h.cur][j] = Sector(d.lba, 1 - d.ref[d.lba])[j]
    <2>1. l = d.lba BY <1>3, <1>l, <1>10
    <2>2. PICK new : new = Sector(l, 1 - d.ref[l]) OBVIOUS
    <2>3. \A i \in Idx : i < d.w => old[i] = new[i]
      BY <1>1, <1>7, <1>10, <2>1, <2>2 DEF OneTrue, OneWrite
    <2>4. word = new[d.w] BY <1>5, <1>6, <2>2 DEF Sector
    <2>5. j < d.w \/ j = d.w BY <1>5, <1>10 DEF Idx
    <2>6. bk2[h.cur][j] = new[j] BY <1>5, <1>7, <1>9, <2>3, <2>4, <2>5
    <2>. QED BY <2>1, <2>2, <2>6
  <1>. QED BY <1>2, <1>9, <1>10

LEMMA WriteOnOne ==
  ASSUME NEW h, NEW bk, NEW s, NEW dk, NEW d, NEW bk2, NEW m, NEW d2, NEW w \in Idx,
         One(h, bk, s, dk, d), d.pc = "data", d.op = "WRITE", Puts(h, bk, d, bk2), w = d.w + 1,
         m = [h EXCEPT !.off = w], d2 = [d EXCEPT !.w = w]
  PROVE One(m, bk2, s, dk, d2)
  <1>1. OneTypes(h, bk, s, dk, d) /\ Linked(h, s) /\ InStep(h, d) /\ DOMAIN h = Registers
        /\ d \in Drivers /\ OneTrue(h, bk, s, dk, d)
    BY DEF One, OneTypes
  <1>2. d2 \in Drivers /\ d2.geo = d.geo /\ d2.k = d.k /\ d2.n = d.n /\ d2.lba = d.lba
        /\ d2.w = w /\ d2.pc = "data" /\ d2.op = "WRITE" /\ d2.ref = d.ref BY <1>1 DEF Drivers
  <1>3. /\ m = [r \in Registers |-> m[r]]
        /\ m.status = h.status /\ m.resetting = h.resetting /\ m.st = h.st
        /\ m.rstart = h.rstart /\ m.wstart = h.wstart /\ m.off = w /\ m.count = h.count
        /\ m.cur = h.cur /\ m.fbank = h.fbank /\ m.rdPending = h.rdPending
        /\ m.pfValid = h.pfValid /\ m.restart = h.restart /\ m.wrPending = h.wrPending
        /\ m.pfBank = h.pfBank /\ m.geo = h.geo /\ m.addr = h.addr /\ m.sector = h.sector
    BY <1>1 DEF Registers
  <1>4. /\ bk2 \in [{0, 1} -> [Idx -> Word]]
        /\ d.n = 1 => \A j \in Idx : j < w =>
             bk2[h.cur][j] = Sector(d.lba, 1 - d.ref[d.lba])[j] BY PutsOne
  <1>5. OneTypes(m, bk2, s, dk, d2) BY <1>1, <1>2, <1>3, <1>4 DEF OneTypes
  <1>6. Linked(m, s) BY <1>1, <1>3 DEF Linked, Ours, Raised
  <1>7. Offers(m, w) BY <1>1, <1>3 DEF InStep, Offers, Free
  <1>8. InStep(m, d2) BY <1>2, <1>7 DEF InStep
  <1>9. d.n = 1 => OneWrite(m, bk2, s, dk, d2)
    BY <1>1, <1>2, <1>3, <1>4 DEF OneTrue, OneWrite, Steady
  <1>10. OneTrue(m, bk2, s, dk, d2) BY <1>2, <1>9 DEF OneTrue
  <1>. QED BY <1>5, <1>6, <1>8, <1>10 DEF One

\* The last word: the sector is stored at once, or after the fetch that is on its way.
Sends(h, m) ==
  LET bits == (h.status \ {"DRQ"}) \cup {"BUSY"} IN
  \/ h.st = "IDLE" /\ m = [h EXCEPT !.off = 0, !.status = bits, !.st = "WR_LBA1"]
  \/ h.st # "IDLE" /\ m = [h EXCEPT !.off = 0, !.status = bits, !.wrPending = TRUE]

LEMMA WriteLastOne ==
  ASSUME NEW h, NEW bk, NEW s, NEW dk, NEW d, NEW bk2, NEW m, NEW d2, One(h, bk, s, dk, d),
         d.pc = "data", d.op = "WRITE", Puts(h, bk, d, bk2), ~(d.w < Words - 1), Sends(h, m),
         d2 = [d EXCEPT !.pc = "fin"]
  PROVE One(m, bk2, s, dk, d2)
  <1>0. PICK bits : bits = (h.status \ {"DRQ"}) \cup {"BUSY"} OBVIOUS
  <1>c. \/ h.st = "IDLE" /\ m = [h EXCEPT !.off = 0, !.status = bits, !.st = "WR_LBA1"]
        \/ h.st # "IDLE" /\ m = [h EXCEPT !.off = 0, !.status = bits, !.wrPending = TRUE]
    BY <1>0 DEF Sends
  <1>1. OneTypes(h, bk, s, dk, d) /\ Linked(h, s) /\ InStep(h, d) /\ DOMAIN h = Registers
        /\ d \in Drivers /\ OneTrue(h, bk, s, dk, d)
    BY DEF One, OneTypes
  <1>2. d2 \in Drivers /\ d2.geo = d.geo /\ d2.k = d.k /\ d2.n = d.n /\ d2.lba = d.lba
        /\ d2.w = d.w /\ d2.pc = "fin" /\ d2.op = "WRITE" /\ d2.ref = d.ref BY <1>1 DEF Drivers
  <1>z. 0 \in Idx BY SizeAssumption DEF Idx
  <1>3. bits \subseteq {"BUSY", "DRQ"} /\ "BUSY" \in bits /\ "DRQ" \notin bits
    BY <1>0, <1>1 DEF OneTypes
  <1>4. Free(h) BY <1>1 DEF InStep, Offers
  <1>5. /\ m = [r \in Registers |-> m[r]]
        /\ m.status = bits /\ m.resetting = h.resetting /\ m.off = 0
        /\ m.rstart = h.rstart /\ m.wstart = h.wstart /\ m.count = h.count
        /\ m.cur = h.cur /\ m.fbank = h.fbank /\ m.rdPending = h.rdPending
        /\ m.pfValid = h.pfValid /\ m.restart = h.restart
        /\ m.pfBank = h.pfBank /\ m.geo = h.geo /\ m.addr = h.addr /\ m.sector = h.sector
        /\ \/ h.st = "IDLE" /\ m.st = "WR_LBA1" /\ m.wrPending = h.wrPending
           \/ h.st # "IDLE" /\ m.st = h.st /\ m.wrPending = TRUE
    <2>1. CASE h.st = "IDLE" BY ONLY ZenonT(60), <1>1, <1>c, <2>1 DEF Registers
    <2>2. CASE h.st # "IDLE" BY ONLY ZenonT(60), <1>1, <1>c, <2>2 DEF Registers
    <2>. QED BY <2>1, <2>2
  <1>6. m.st \in Reads \cup Writes BY <1>4, <1>5 DEF Free, Writes
  <1>7. /\ bk2 \in [{0, 1} -> [Idx -> Word]]
        /\ d.n = 1 => \A j \in Idx : j < d.w + 1 =>
             bk2[h.cur][j] = Sector(d.lba, 1 - d.ref[d.lba])[j] BY PutsOne
  <1>8. OneTypes(m, bk2, s, dk, d2) BY <1>1, <1>2, <1>3, <1>5, <1>6, <1>7, <1>z DEF OneTypes
  <1>9. h.st = "IDLE" => s.st = "ready" /\ ~h.rstart /\ ~h.wstart
    BY <1>1 DEF Linked, Ours, Raised
  <1>10. Linked(m, s)
    <2>1. CASE h.st = "IDLE" BY <1>5, <1>9, <2>1 DEF Linked, Reads
    <2>2. CASE h.st # "IDLE" BY <1>1, <1>5, <2>2 DEF Linked, Ours, Raised
    <2>. QED BY <2>1, <2>2
  <1>11. Storing(m)
    <2>1. CASE h.st = "IDLE" BY <1>3, <1>4, <1>5, <2>1 DEF Storing, Free, Writes
    <2>2. CASE h.st # "IDLE" BY <1>3, <1>4, <1>5, <2>2 DEF Storing, Free
    <2>. QED BY <2>1, <2>2
  <1>12. InStep(m, d2) BY <1>2, <1>11 DEF InStep
  <1>13. ASSUME d.n = 1 PROVE OneWrite(m, bk2, s, dk, d2)
    <2>. PICK new : new = Sector(d.lba, 1 - d.ref[d.lba]) OBVIOUS
    <2>1. At(m.addr, m.geo, d.lba) /\ Steady(h) BY <1>1, <1>5, <1>13 DEF OneTrue, OneWrite
    <2>2. d.w \in Idx BY <1>1 DEF Drivers
    <2>3. \A j \in Idx : j < d.w + 1 BY <2>2, SizeAssumption DEF Idx
    <2>4. bk2[m.cur] = new
      <3>1. bk2[h.cur] \in [Idx -> Word] BY <1>1, <1>7 DEF OneTypes
      <3>2. \A j \in Idx : bk2[h.cur][j] = new[j] BY <1>7, <1>13, <2>3
      <3>3. new = [j \in Idx |-> new[j]] BY DEF Sector
      <3>. QED BY <1>5, <3>1, <3>2, <3>3
    <2>5. CASE h.st = "IDLE"
      <3>1. Going(m, d.lba) /\ Gone(s, dk, d.lba, new) /\ ~m.wrPending
        BY <1>4, <1>5, <1>9, <2>1, <2>5 DEF Going, Gone, Free
      <3>. QED BY <1>2, <1>3, <1>5, <2>1, <2>4, <3>1 DEF OneWrite
    <2>6. CASE h.st # "IDLE"
      <3>1. m.count <= 1 /\ m.wrPending BY <1>5, <2>1, <2>6 DEF Steady
      <3>. QED BY <1>2, <1>3, <1>5, <2>1, <2>4, <3>1 DEF OneWrite
    <2>. QED BY <2>5, <2>6
  <1>14. OneTrue(m, bk2, s, dk, d2) BY <1>2, <1>13 DEF OneTrue
  <1>. QED BY <1>8, <1>10, <1>12, <1>14 DEF One

-----------------------------------------------------------------------------
(* Edges with an access to the bus *)

\* What the bus writes and the engine writes too is the engine's.
LEMMA EdgeCovers ==
  ASSUME NEW e, NEW b, NEW h, NEW a, DOMAIN b \subseteq DOMAIN e
  PROVE Edge(e, b, h, a) = Edge(e, Nothing, h, a)
  BY NoPart DEF Edge

\* While the bus is the driver's, only a fetch may be on its way, and until it ends
\* it assigns nothing that an access assigns.
LEMMA EngineAssigns ==
  ASSUME IOne, Free(hd), NEW free \in BOOLEAN
  PROVE /\ hd.st = "IDLE" => DOMAIN Engine(free) = {}
        /\ ~(hd.st = "RD_WAIT" /\ sd.st = "done") =>
             DOMAIN Engine(free) \subseteq {"sector", "lbaT", "st", "rstart"}
        /\ DOMAIN Engine(free) \subseteq {"sector", "lbaT", "st", "rstart", "pfValid", "pfBank", "count", "addr"}
        /\ "addr" \in DOMAIN Engine(free) => hd.count > 1
  <1>1. hd.st \in Reads \cup {"IDLE"} /\ ~hd.restart /\ ~hd.wrPending BY DEF Free
  <1>2. CASE hd.st = "IDLE"
    <2>1. Engine(free) = Nothing BY <1>2 DEF Engine
    <2>. QED BY <1>2, <2>1, NoPart
  <1>3. CASE hd.st = "RD_LBA1"
    <2>1. CASE hd.addr.mode = "lba"
      <3>1. Engine(free) = [sector |-> hd.addr.sec, st |-> "RD_REQ"] BY <1>3, <2>1 DEF Engine
      <3>. QED BY <1>3, <3>1
    <2>2. CASE hd.addr.mode # "lba"
      <3>1. Engine(free) = [lbaT |-> hd.addr.cyl * hd.geo.heads + hd.addr.head, st |-> "RD_LBA2"]
        BY <1>3, <2>2 DEF Engine
      <3>. QED BY <1>3, <3>1
    <2>. QED BY <2>1, <2>2
  <1>4. CASE hd.st = "RD_LBA2"
    <2>1. Engine(free) = [sector |-> hd.lbaT * hd.geo.spt + hd.addr.sec - 1, st |-> "RD_REQ"]
      BY <1>4 DEF Engine
    <2>. QED BY <1>4, <2>1
  <1>5. CASE hd.st = "RD_REQ" BY <1>5, NoPart DEF Engine, Raise
  <1>6. CASE hd.st = "RD_WAIT" /\ sd.st # "done"
    <2>1. Engine(free) = Nothing BY <1>6 DEF Engine
    <2>. QED BY <1>6, <2>1, NoPart
  <1>7. CASE hd.st = "RD_WAIT" /\ sd.st = "done"
    <2>1. Engine(free) = [pfValid |-> TRUE, pfBank |-> hd.fbank] ++ (Counted ++ [st |-> "IDLE"])
      <3>1. Engine(free) = ReadDone BY <1>7 DEF Engine
      <3>. QED BY <1>1, <3>1 DEF ReadDone, ++
    <2>2. DOMAIN Engine(free) = {"pfValid", "pfBank", "st"} \cup DOMAIN Counted BY <2>1 DEF ++
    <2>3. DOMAIN Counted \subseteq {"count", "addr"} BY NoPart DEF Counted, ++
    <2>4. "addr" \in DOMAIN Counted => hd.count > 1 BY NoPart DEF Counted, ++
    <2>. QED BY <1>7, <2>2, <2>3, <2>4
  <1>. QED BY <1>1, <1>2, <1>3, <1>4, <1>5, <1>6, <1>7 DEF Reads

\* On such an edge the engine leaves the bus its registers.
LEMMA FreeAlone ==
  ASSUME IOne, Free(hd), NEW free \in BOOLEAN, NEW m, m = Alone(free)
  PROVE /\ DOMAIN m = Registers
        /\ hd.st = "IDLE" => m = hd
        /\ hd.st # "IDLE" /\ ~(hd.st = "RD_WAIT" /\ sd.st = "done") => m.st # "IDLE"
        /\ hd.st = "RD_WAIT" /\ sd.st = "done" => m.st = "IDLE"
        /\ m.status = hd.status /\ m.off = hd.off /\ m.cur = hd.cur
  <1>1. OneTypes(hd, bank, sd, disk, drv) /\ Linked(hd, sd) /\ Tidy BY OneIsTidy DEF IOne, One
  <1>2. DOMAIN hd = Registers BY <1>1 DEF OneTypes
  <1>3. DOMAIN m = Registers BY <1>2 DEF Alone, Edge
  <1>4. hd.st \in Reads \cup {"IDLE"} /\ ~hd.resetting /\ ~hd.rdPending /\ ~hd.restart /\ ~hd.wrPending
    BY DEF Free
  <1>5. CASE hd.st = "IDLE"
    <2>1. m = hd BY <1>1, <1>4, <1>5, AloneIdle DEF Wakes, Hands
    <2>. QED BY <1>3, <1>5, <2>1
  <1>6. CASE hd.st # "IDLE"
    <2>1. m = Over(Engine(free), hd) BY <1>1, <1>6, OnlyEngine, EdgeOfEngine DEF Alone
    <2>2. m.status = hd.status /\ m.off = hd.off /\ m.cur = hd.cur
      BY <1>2, <2>1, EngineAssigns DEF Over, Registers
    <2>3. CASE hd.st = "RD_WAIT" /\ sd.st = "done"
      <3>1. FetchEnds(hd, sd, m) BY <1>1, <1>4, <2>3, AloneReads
      <3>2. m.st = "IDLE" BY <1>2, <3>1 DEF FetchEnds, Registers
      <3>. QED BY <1>3, <1>6, <2>2, <2>3, <3>2
    <2>4. CASE ~(hd.st = "RD_WAIT" /\ sd.st = "done")
      <3>1. m.st # "IDLE"
        <4>1. CASE hd.st = "RD_LBA1"
          <5>1. Looks(hd, m) \/ Multiplies(hd, m) BY <1>1, <4>1, AloneLooks
          <5>2. m.st \in {"RD_REQ", "RD_LBA2"} BY <1>2, <4>1, <5>1 DEF Looks, Multiplies, Registers
          <5>. QED BY <5>2
        <4>2. CASE hd.st = "RD_LBA2"
          <5>1. Adds(hd, m) BY <1>1, <4>2, AloneAdds
          <5>. QED BY <1>2, <4>2, <5>1 DEF Adds, Registers
        <4>3. CASE hd.st = "RD_REQ"
          <5>1. \/ Raises(hd, sd, prot, m) \/ Accepted(hd, sd, prot, m) \/ m = hd
            BY <1>1, <4>3, AloneRaises DEF Refused
          <5>2. \/ m = [hd EXCEPT !.rstart = TRUE] \/ m = hd
                \/ m = [hd EXCEPT !.rstart = FALSE, !.st = "RD_WAIT"]
            BY <4>3, <5>1 DEF Raises, Accepted
          <5>. QED BY <1>2, <4>3, <5>2 DEF Registers
        <4>4. CASE hd.st = "RD_WAIT"
          <5>1. m = hd BY <1>1, <2>4, <4>4, AloneReads
          <5>. QED BY <4>4, <5>1
        <4>. QED BY <1>4, <1>6, <4>1, <4>2, <4>3, <4>4 DEF Reads
      <3>. QED BY <1>3, <1>6, <2>2, <2>4, <3>1
    <2>. QED BY <2>3, <2>4
  <1>. QED BY <1>5, <1>6

\* A clock edge with an access.
LEMMA ClkOne ==
  ASSUME IOne, NEW bus, Clk(bus)
  PROVE \E free \in BOOLEAN :
          /\ hd' = Edge(Engine(free), Bus(bus), HandOver, AfterReset)
          /\ One(Alone(free), Filled, sd', disk', drv) /\ prot' = FALSE
          /\ DOMAIN Engine(free) \cap DOMAIN Bus(bus) = {} => hd' = Over(Bus(bus), Alone(free))
          /\ DOMAIN Bus(bus) \subseteq DOMAIN Engine(free) => hd' = Alone(free)
          /\ bus[1] # "wdata" => bank' = Filled
  <1>1. PICK free \in BOOLEAN : hd' = Edge(Engine(free), Bus(bus), HandOver, AfterReset)
    BY DEF Clk
  <1>2. SdClk /\ DiskClk /\ prot' = prot /\ BankClk(bus) BY DEF Clk
  <1>3. One(Alone(free), Filled, sd', disk', drv) BY <1>2, EdgeOne
  <1>4. prot' = FALSE BY <1>2 DEF IOne
  <1>5. DOMAIN Engine(free) \cap DOMAIN Bus(bus) = {} => hd' = Over(Bus(bus), Alone(free))
    BY <1>1, EdgeSplits DEF Alone
  <1>6. DOMAIN Bus(bus) \subseteq DOMAIN Engine(free) => hd' = Alone(free)
    BY <1>1, EdgeCovers DEF Alone
  <1>7. hd.st # "ID_FILL" BY DEF IOne, One, OneTypes, Reads, Writes
  <1>8. bus[1] # "wdata" => bank' = Filled BY <1>2, <1>7 DEF BankClk
  <1>. QED BY <1>1, <1>3, <1>4, <1>5, <1>6, <1>8

\* A clock edge without one.
LEMMA RestOne ==
  ASSUME IOne, Clk(<<"none">>)
  PROVE \E free \in BOOLEAN : hd' = Alone(free) /\ One(hd', bank', sd', disk', drv) /\ prot' = FALSE
  <1>1. PICK bus : bus = <<"none">> OBVIOUS
  <1>2. bus[1] = "none" /\ Clk(bus) BY <1>1
  <1>3. Bus(bus) = Nothing BY <1>2 DEF Bus
  <1>4. PICK free \in BOOLEAN :
          /\ One(Alone(free), Filled, sd', disk', drv) /\ prot' = FALSE
          /\ DOMAIN Bus(bus) \subseteq DOMAIN Engine(free) => hd' = Alone(free)
          /\ bus[1] # "wdata" => bank' = Filled BY <1>2, ClkOne
  <1>5. hd' = Alone(free) /\ bank' = Filled BY <1>2, <1>3, <1>4, NoPart
  <1>. QED BY <1>4, <1>5

LEMMA OneTick == ASSUME IOne, Tick PROVE IOne'
  <1>1. Clk(<<"none">>) /\ drv' = drv BY DEF Tick
  <1>2. One(hd', bank', sd', disk', drv) /\ prot' = FALSE BY <1>1, RestOne
  <1>. QED BY <1>1, <1>2 DEF IOne

LEMMA OneChoose == ASSUME IOne, Leaves, Choose PROVE IOne'
  <1>1. Clk(<<"none">>) /\ drv.pc = "idle" /\ "BUSY" \notin hd.status BY DEF Choose, Busy
  <1>2. PICK op \in Ops, mode \in Modes, l \in Lba, n \in 1..MaxCount, g \in Geometries :
       /\ l + n - 1 <= MaxLba
       /\ op \in {"IDENT", "SETCFG"} => l = 0 /\ n = 1 /\ mode = CHOOSE c \in Modes : TRUE
       /\ op # "SETCFG" => g = drv.geo
       /\ drv' = [drv EXCEPT !.pc = "count", !.op = op, !.mode = mode, !.lba = l, !.n = n,
                             !.k = 0, !.w = 0, !.geo = g]
    BY DEF Choose
  <1>3. op \in {"READ", "WRITE"} /\ mode \in Addressing /\ g = drv.geo
    BY <1>2, ChoiceAssumption DEF Leaves, Addressing
  <1>4. Free(hd)
    <2>1. ~Awaits(hd) /\ ~Starts(hd) BY <1>1 DEF Awaits, Starts, Resets
    <2>. QED BY <1>1, <2>1 DEF IOne, One, InStep
  <1>5. PICK free \in BOOLEAN : hd' = Alone(free) /\ One(hd', bank', sd', disk', drv) /\ prot' = FALSE
    BY <1>1, RestOne
  <1>6. "BUSY" \notin hd'.status BY <1>1, <1>4, <1>5, FreeAlone
  <1>7. One(hd', bank', sd', disk', drv') BY <1>1, <1>2, <1>3, <1>5, <1>6, ChooseOne
  <1>. QED BY <1>5, <1>7 DEF IOne

LEMMA OneCount == ASSUME IOne, Leaves, Count PROVE IOne'
  <1>0. One(hd, bank, sd, disk, drv) /\ drv \in Drivers BY DEF IOne, One, OneTypes
  <1>1. drv.pc = "count" /\ drv' = [drv EXCEPT !.pc = "addr"] BY DEF Count, DrvTo
  <1>2. Free(hd) /\ drv.op # "SETCFG" BY <1>0, <1>1 DEF One, InStep
  <1>3. PICK bus : bus = <<"count", drv.n>> OBVIOUS
  <1>4. Clk(bus) /\ bus[1] = "count" /\ bus[2] = drv.n BY <1>2, <1>3 DEF Count
  <1>5. DOMAIN Bus(bus) = {"count"} /\ Bus(bus).count = drv.n BY <1>4 DEF Bus
  <1>6. PICK free \in BOOLEAN :
          /\ One(Alone(free), Filled, sd', disk', drv) /\ prot' = FALSE
          /\ DOMAIN Engine(free) \cap DOMAIN Bus(bus) = {} => hd' = Over(Bus(bus), Alone(free))
          /\ DOMAIN Bus(bus) \subseteq DOMAIN Engine(free) => hd' = Alone(free)
          /\ bus[1] # "wdata" => bank' = Filled BY <1>4, ClkOne
  <1>7. PICK m : m = Alone(free) OBVIOUS
  <1>8. DOMAIN m = Registers BY <1>2, <1>7, FreeAlone
  <1>9. bank' = Filled BY <1>4, <1>6
  <1>10. hd' = [m EXCEPT !.count = drv.n] \/ (hd' = m /\ m.st = "IDLE")
    <2>1. CASE "count" \in DOMAIN Engine(free)
      <3>1. hd.st = "RD_WAIT" /\ sd.st = "done" BY <1>2, <2>1, EngineAssigns
      <3>2. m.st = "IDLE" BY <1>2, <1>7, <3>1, FreeAlone
      <3>3. hd' = m BY <1>5, <1>6, <1>7, <2>1
      <3>. QED BY <3>2, <3>3
    <2>2. CASE "count" \notin DOMAIN Engine(free)
      <3>1. hd' = Over(Bus(bus), m) BY <1>5, <1>6, <1>7, <2>2
      <3>. QED BY <1>5, <1>8, <3>1 DEF Over, Registers
    <2>. QED BY <2>1, <2>2
  <1>11. One(hd', bank', sd', disk', drv') BY <1>1, <1>6, <1>7, <1>9, <1>10, CountOne
  <1>. QED BY <1>6, <1>11 DEF IOne

LEMMA OneAddr == ASSUME IOne, Leaves, Addr PROVE IOne'
  <1>0. One(hd, bank, sd, disk, drv) /\ drv \in Drivers BY DEF IOne, One, OneTypes
  <1>1. drv.pc = "addr" /\ drv' = [drv EXCEPT !.pc = "cmd"] BY DEF Addr, DrvTo
  <1>2. Free(hd) /\ drv.op # "SETCFG" BY <1>0, <1>1 DEF One, InStep
  <1>a. PICK a : a = Address(drv.lba, drv.mode, drv.geo) OBVIOUS
  <1>3. PICK bus : bus = <<"addr", a>> OBVIOUS
  <1>4. Clk(bus) /\ bus[1] = "addr" /\ bus[2] = a BY <1>2, <1>3, <1>a DEF Addr
  <1>5. DOMAIN Bus(bus) = {"addr"} /\ Bus(bus).addr = a BY <1>4 DEF Bus
  <1>6. PICK free \in BOOLEAN :
          /\ One(Alone(free), Filled, sd', disk', drv) /\ prot' = FALSE
          /\ DOMAIN Engine(free) \cap DOMAIN Bus(bus) = {} => hd' = Over(Bus(bus), Alone(free))
          /\ DOMAIN Bus(bus) \subseteq DOMAIN Engine(free) => hd' = Alone(free)
          /\ bus[1] # "wdata" => bank' = Filled BY <1>4, ClkOne
  <1>7. PICK m : m = Alone(free) OBVIOUS
  <1>8. DOMAIN m = Registers BY <1>2, <1>7, FreeAlone
  <1>9. bank' = Filled BY <1>4, <1>6
  <1>10. hd' = [m EXCEPT !.addr = a] \/ (hd' = m /\ drv.n # 1)
    <2>1. CASE "addr" \in DOMAIN Engine(free)
      <3>1. hd.count > 1 /\ hd.st # "IDLE" BY <1>2, <2>1, EngineAssigns
      <3>2. hd.count \in Nat BY <1>0 DEF One, OneTypes
      <3>3. ~Steady(hd) BY <3>1, <3>2 DEF Steady
      <3>4. drv.n # 1 BY <1>0, <1>1, <3>3 DEF One, OneTrue
      <3>5. hd' = m BY <1>5, <1>6, <1>7, <2>1
      <3>. QED BY <3>4, <3>5
    <2>2. CASE "addr" \notin DOMAIN Engine(free)
      <3>1. hd' = Over(Bus(bus), m) BY <1>5, <1>6, <1>7, <2>2
      <3>. QED BY <1>5, <1>8, <3>1 DEF Over, Registers
    <2>. QED BY <2>1, <2>2
  <1>11. One(hd', bank', sd', disk', drv') BY <1>1, <1>6, <1>7, <1>9, <1>10, <1>a, AddrOne
  <1>. QED BY <1>6, <1>11 DEF IOne

LEMMA OneCmd == ASSUME IOne, Leaves, Cmd PROVE IOne'
  <1>0. One(hd, bank, sd, disk, drv) /\ drv \in Drivers BY DEF IOne, One, OneTypes
  <1>1. drv.pc = "cmd" /\ drv' = [drv EXCEPT !.pc = IF drv.op = "SETCFG" THEN "idle" ELSE "wait"]
    BY DEF Cmd, DrvTo
  <1>2. Free(hd) /\ drv.op \in {"READ", "WRITE"} BY <1>0, <1>1 DEF One, InStep
  <1>d. drv' = [drv EXCEPT !.pc = "wait"] BY <1>1, <1>2
  <1>n. ~(hd.st = "RD_WAIT" /\ sd.st = "done") BY DEF Cmd, Apart, Leaves
  <1>3. PICK bus : bus = <<"cmd", drv.op>> OBVIOUS
  <1>4. Clk(bus) /\ bus[1] = "cmd" /\ bus[2] = drv.op BY <1>3 DEF Cmd
  <1>5. Bus(bus) = Command(drv.op) BY <1>4 DEF Bus
  <1>6. PICK free \in BOOLEAN :
          /\ One(Alone(free), Filled, sd', disk', drv) /\ prot' = FALSE
          /\ DOMAIN Engine(free) \cap DOMAIN Bus(bus) = {} => hd' = Over(Bus(bus), Alone(free))
          /\ bus[1] # "wdata" => bank' = Filled BY <1>4, ClkOne
  <1>7. PICK m : m = Alone(free) OBVIOUS
  <1>8. /\ DOMAIN m = Registers /\ m.status = hd.status /\ m.cur = hd.cur
        /\ hd.st = "IDLE" <=> m.st = "IDLE" BY <1>2, <1>7, <1>n, FreeAlone
  <1>9. bank' = Filled BY <1>4, <1>6
  <1>10. DOMAIN Engine(free) \subseteq {"sector", "lbaT", "st", "rstart"}
         /\ (hd.st = "IDLE" => DOMAIN Engine(free) = {}) BY <1>2, <1>n, EngineAssigns
  <1>11. One(hd', bank', sd', disk', drv')
    <2>1. CASE drv.op = "READ"
      <3>0. PICK bits, b : bits = (m.status \cup {"BUSY"}) \ {"DRQ", "ERROR"} /\ b = m.cur OBVIOUS
      <3>1. CASE hd.st = "IDLE"
        <4>1. Command("READ") = [status |-> bits, rdPending |-> TRUE, pfValid |-> FALSE, fbank |-> b]
                                ++ [st |-> "RD_LBA1"] BY <1>8, <3>0, <3>1 DEF Command
        <4>2. /\ DOMAIN Bus(bus) = {"status", "rdPending", "pfValid", "fbank", "st"}
              /\ Bus(bus).status = bits /\ Bus(bus).rdPending = TRUE
              /\ Bus(bus).pfValid = FALSE /\ Bus(bus).fbank = b
              /\ Bus(bus).st = "RD_LBA1" BY <1>5, <2>1, <4>1 DEF ++
        <4>3. hd' = Over(Bus(bus), m) BY <1>6, <1>7, <1>10, <3>1
        <4>4. hd' = [m EXCEPT !.status = bits, !.rdPending = TRUE, !.pfValid = FALSE, !.fbank = b,
                              !.st = "RD_LBA1"]
          BY ZenonT(60), <1>8, <4>2, <4>3 DEF Over, Registers
        <4>5. Calls(m, hd') BY <1>8, <3>0, <3>1, <4>4 DEF Calls
        <4>. QED BY <1>1, <1>6, <1>7, <1>9, <1>d, <2>1, <4>5, ReadOne
      <3>2. CASE hd.st # "IDLE"
        <4>1. Command("READ") = [status |-> bits, rdPending |-> TRUE, pfValid |-> FALSE, fbank |-> b]
                                ++ [restart |-> TRUE] BY <1>8, <3>0, <3>2 DEF Command
        <4>2. /\ DOMAIN Bus(bus) = {"status", "rdPending", "pfValid", "fbank", "restart"}
              /\ Bus(bus).status = bits /\ Bus(bus).rdPending = TRUE
              /\ Bus(bus).pfValid = FALSE /\ Bus(bus).fbank = b
              /\ Bus(bus).restart = TRUE BY <1>5, <2>1, <4>1 DEF ++
        <4>3. hd' = Over(Bus(bus), m) BY <1>6, <1>7, <1>10, <4>2
        <4>4. hd' = [m EXCEPT !.status = bits, !.rdPending = TRUE, !.pfValid = FALSE, !.fbank = b,
                              !.restart = TRUE]
          BY ZenonT(60), <1>8, <4>2, <4>3 DEF Over, Registers
        <4>5. Calls(m, hd') BY <1>8, <3>0, <3>2, <4>4 DEF Calls
        <4>. QED BY <1>1, <1>6, <1>7, <1>9, <1>d, <2>1, <4>5, ReadOne
      <3>. QED BY <3>1, <3>2
    <2>2. CASE drv.op = "WRITE"
      <3>0. PICK bits : bits = (m.status \cup {"DRQ"}) \ {"ERROR"} OBVIOUS
      <3>1. Command("WRITE") = [off |-> 0, pfValid |-> FALSE, status |-> bits]
        BY <1>8, <3>0 DEF Command
      <3>2. /\ DOMAIN Bus(bus) = {"off", "pfValid", "status"} /\ Bus(bus).off = 0
            /\ Bus(bus).pfValid = FALSE /\ Bus(bus).status = bits BY <1>5, <2>2, <3>1
      <3>3. hd' = Over(Bus(bus), m) BY <1>6, <1>7, <1>10, <3>2
      <3>4. hd' = [m EXCEPT !.off = 0, !.pfValid = FALSE, !.status = bits]
        BY <1>8, <3>2, <3>3 DEF Over, Registers
      <3>5. Opens(m, hd') BY <3>0, <3>4 DEF Opens
      <3>. QED BY <1>1, <1>6, <1>7, <1>9, <1>d, <2>2, <3>5, WriteOne
    <2>. QED BY <1>2, <2>1, <2>2
  <1>. QED BY <1>6, <1>11 DEF IOne

LEMMA OneWait == ASSUME IOne, Leaves, Wait PROVE IOne'
  <1>0. One(hd, bank, sd, disk, drv) BY DEF IOne
  <1>1. drv.pc = "wait" /\ "BUSY" \notin hd.status /\ "DRQ" \in hd.status
        /\ drv' = [drv EXCEPT !.pc = "data"] /\ Clk(<<"none">>)
    BY DEF Wait, Busy, Drq, DrvTo
  <1>2. Free(hd) BY <1>0, <1>1 DEF One, InStep, Awaits, Offers
  <1>3. PICK free \in BOOLEAN : hd' = Alone(free) /\ One(hd', bank', sd', disk', drv) /\ prot' = FALSE
    BY <1>1, RestOne
  <1>4. hd'.status = hd.status BY <1>2, <1>3, FreeAlone
  <1>5. One(hd', bank', sd', disk', drv') BY <1>1, <1>3, <1>4, WaitOne
  <1>. QED BY <1>3, <1>5 DEF IOne

LEMMA OneDrop == ASSUME IOne, Drop PROVE IOne'
  <1>1. drv.pc \in {"data", "wait"} /\ drv.op = "READ" /\ drv' = [drv EXCEPT !.pc = "idle"]
        /\ Clk(<<"none">>) BY DEF Drop, DrvTo
  <1>2. One(hd', bank', sd', disk', drv) /\ prot' = FALSE BY <1>1, RestOne
  <1>3. One(hd', bank', sd', disk', drv') BY <1>1, <1>2, DropOne
  <1>. QED BY <1>2, <1>3 DEF IOne

LEMMA OneWritten == ASSUME IOne, Written PROVE IOne'
  <1>0. One(hd, bank, sd, disk, drv) /\ drv \in Drivers
        /\ "ERROR" \notin hd.status /\ drv.k < drv.n /\ drv.lba + drv.n - 1 <= MaxLba
    BY DEF IOne, One, OneTypes
  <1>1. drv.pc = "fin" /\ "BUSY" \notin hd.status /\ Clk(<<"none">>) BY DEF Written, Busy
  <1>2. Free(hd) BY <1>0, <1>1 DEF One, InStep, Storing, Offers
  <1>3. PICK ref : ref = [drv.ref EXCEPT ![drv.lba + drv.k] = 1 - drv.ref[drv.lba + drv.k]] OBVIOUS
  <1>4. ref \in [Lba -> {0, 1}]
    <2>1. drv.ref \in [Lba -> {0, 1}] BY <1>0, DriverTypes
    <2>2. PICK l \in Lba : l = drv.lba + drv.k BY <1>0, DriverTypes, SizeAssumption DEF Lba
    <2>3. ref = [drv.ref EXCEPT ![l] = 1 - drv.ref[l]] BY <1>3, <2>2
    <2>4. 1 - drv.ref[l] \in {0, 1} BY <2>1
    <2>. QED BY <2>1, <2>3, <2>4
  <1>5. drv' = IF drv.k < drv.n - 1
               THEN [drv EXCEPT !.ref = ref, !.k = drv.k + 1, !.w = 0, !.pc = "data"]
               ELSE [drv EXCEPT !.ref = ref, !.pc = "idle"]
    BY <1>0, <1>3 DEF Written, Here, Age
  <1>6. PICK free \in BOOLEAN : hd' = Alone(free) /\ One(hd', bank', sd', disk', drv) /\ prot' = FALSE
    BY <1>1, RestOne
  <1>7. "BUSY" \notin hd'.status BY <1>1, <1>2, <1>6, FreeAlone
  <1>8. One(hd', bank', sd', disk', drv') BY <1>1, <1>4, <1>5, <1>6, <1>7, WrittenOne
  <1>. QED BY <1>6, <1>8 DEF IOne

LEMMA OneReadWord == ASSUME IOne, ReadWord PROVE IOne'
  <1>0. One(hd, bank, sd, disk, drv) /\ drv \in Drivers BY DEF IOne, One, OneTypes
  <1>1. drv.pc = "data" /\ drv.op = "READ"
    BY <1>0, DriverTypes DEF ReadWord, One, InStep
  <1>2. Free(hd) /\ "DRQ" \in hd.status /\ hd.off = drv.w BY <1>0, <1>1 DEF One, InStep, Offers
  <1>3. PICK bus : bus = <<"rdata">> OBVIOUS
  <1>4. bus[1] = "rdata" /\ Clk(bus) BY <1>3 DEF ReadWord
  <1>5. Bus(bus) = IF drv.w = Words - 1 THEN LastWordRead ELSE [off |-> hd.off + 1]
    BY <1>2, <1>4 DEF Bus, Drq
  <1>6. PICK free \in BOOLEAN :
          /\ One(Alone(free), Filled, sd', disk', drv) /\ prot' = FALSE
          /\ DOMAIN Engine(free) \cap DOMAIN Bus(bus) = {} => hd' = Over(Bus(bus), Alone(free))
          /\ bus[1] # "wdata" => bank' = Filled BY <1>4, ClkOne
  <1>7. PICK m : m = Alone(free) OBVIOUS
  <1>8. /\ DOMAIN m = Registers /\ m.status = hd.status /\ m.cur = hd.cur /\ m.off = hd.off
        /\ hd.st = "IDLE" => m = hd BY <1>2, <1>7, FreeAlone
  <1>9. bank' = Filled BY <1>4, <1>6
  <1>10. /\ DOMAIN Engine(free) \cap {"status", "off", "rdPending"} = {}
         /\ hd.st = "IDLE" => DOMAIN Engine(free) = {} BY <1>2, EngineAssigns
  <1>w. drv.w \in Nat /\ drv.w \in Idx /\ Words \in Nat
    BY <1>0, SizeAssumption DEF Drivers, Idx
  <1>11. CASE drv.w < Words - 1
    <2>1. PICK w \in Idx : w = drv.w + 1 BY <1>11, <1>w DEF Idx
    <2>2. DOMAIN Bus(bus) = {"off"} /\ Bus(bus).off = w BY <1>2, <1>5, <1>11, <1>w, <2>1
    <2>3. hd' = Over(Bus(bus), m) BY <1>6, <1>7, <1>10, <2>2
    <2>4. hd' = [m EXCEPT !.off = w] BY <1>8, <2>2, <2>3 DEF Over, Registers
    <2>5. drv' = [drv EXCEPT !.w = w] BY <1>11, <2>1 DEF ReadWord
    <2>6. One(hd', bank', sd', disk', drv') BY <1>1, <1>6, <1>7, <1>9, <2>4, <2>5, ReadOnOne
    <2>. QED BY <1>6, <2>6 DEF IOne
  <1>12. CASE ~(drv.w < Words - 1)
    <2>1. Bus(bus) = LastWordRead BY <1>5, <1>12, <1>w DEF Idx
    <2>2. drv' = IF drv.k < drv.n - 1 THEN [drv EXCEPT !.w = 0, !.k = drv.k + 1, !.pc = "wait"]
                 ELSE [drv EXCEPT !.pc = "idle"]
      BY <1>12 DEF ReadWord
    <2>3. ReadsOut(m, hd')
      <3>b. PICK b : b = 1 - m.cur OBVIOUS
      <3>1. CASE hd.pfValid \/ hd.count # 0 \/ hd.st # "IDLE"
        <4>0. PICK bits : bits = (m.status \ {"DRQ"}) \cup {"BUSY"} OBVIOUS
        <4>1. CASE ~hd.pfValid /\ hd.st = "IDLE"
          <5>1. LastWordRead = [off |-> 0] ++ ([rdPending |-> TRUE, status |-> bits]
                                               ++ [fbank |-> b, st |-> "RD_LBA1"])
            BY <1>8, <3>1, <3>b, <4>0, <4>1 DEF LastWordRead
          <5>2. /\ DOMAIN Bus(bus) = {"off", "rdPending", "status", "fbank", "st"} /\ Bus(bus).off = 0
                /\ Bus(bus).rdPending = TRUE /\ Bus(bus).status = bits
                /\ Bus(bus).fbank = b /\ Bus(bus).st = "RD_LBA1" BY <2>1, <5>1 DEF ++
          <5>3. hd' = Over(Bus(bus), m) BY <1>6, <1>7, <1>10, <4>1
          <5>4. hd' = [m EXCEPT !.off = 0, !.rdPending = TRUE, !.status = bits, !.fbank = b,
                                !.st = "RD_LBA1"]
            BY ZenonT(60), <1>8, <5>2, <5>3 DEF Over, Registers
          <5>5. m.st = "IDLE" /\ ~m.pfValid BY <1>8, <4>1
          <5>. QED BY <3>b, <4>0, <5>4, <5>5 DEF ReadsOut
        <4>2. CASE ~(~hd.pfValid /\ hd.st = "IDLE")
          <5>1. LastWordRead = [off |-> 0] ++ ([rdPending |-> TRUE, status |-> bits] ++ Nothing)
            BY <1>8, <3>1, <4>0, <4>2 DEF LastWordRead
          <5>2. /\ DOMAIN Bus(bus) = {"off", "rdPending", "status"} /\ Bus(bus).off = 0
                /\ Bus(bus).rdPending = TRUE /\ Bus(bus).status = bits BY <2>1, <5>1, NoPart DEF ++
          <5>3. hd' = Over(Bus(bus), m) BY <1>6, <1>7, <1>10, <5>2
          <5>4. hd' = [m EXCEPT !.off = 0, !.rdPending = TRUE, !.status = bits]
            BY ZenonT(60), <1>8, <5>2, <5>3 DEF Over, Registers
          <5>. QED BY <4>0, <5>4 DEF ReadsOut
        <4>. QED BY <4>1, <4>2
      <3>2. CASE ~(hd.pfValid \/ hd.count # 0 \/ hd.st # "IDLE")
        <4>0. PICK bits : bits = m.status \ {"DRQ", "BUSY"} OBVIOUS
        <4>1. LastWordRead = [off |-> 0] ++ [status |-> bits] BY <1>8, <3>2, <4>0 DEF LastWordRead
        <4>2. DOMAIN Bus(bus) = {"off", "status"} /\ Bus(bus).off = 0 /\ Bus(bus).status = bits
          BY <2>1, <4>1 DEF ++
        <4>3. hd' = Over(Bus(bus), m) BY <1>6, <1>7, <1>10, <4>2
        <4>4. hd' = [m EXCEPT !.off = 0, !.status = bits] BY <1>8, <4>2, <4>3 DEF Over, Registers
        <4>. QED BY <4>0, <4>4 DEF ReadsOut
      <3>. QED BY <3>1, <3>2
    <2>4. One(hd', bank', sd', disk', drv')
      BY <1>1, <1>6, <1>7, <1>9, <2>2, <2>3, ReadLastOne
    <2>. QED BY <1>6, <2>4 DEF IOne
  <1>. QED BY <1>11, <1>12

LEMMA OneWriteWord == ASSUME IOne, Leaves, WriteWord PROVE IOne'
  <1>0. One(hd, bank, sd, disk, drv) /\ drv \in Drivers BY DEF IOne, One, OneTypes
  <1>1. drv.pc = "data" /\ drv.op = "WRITE" BY DEF WriteWord
  <1>2. Free(hd) /\ "DRQ" \in hd.status /\ hd.off = drv.w BY <1>0, <1>1 DEF One, InStep, Offers
  <1>n. ~(hd.st = "RD_WAIT" /\ sd.st = "done") BY DEF WriteWord, Apart, Leaves
  <1>3. PICK word : word = <<drv.lba + drv.k, drv.w, 1 - drv.ref[drv.lba + drv.k]>> OBVIOUS
  <1>4. PICK bus : bus = <<"wdata", word>> OBVIOUS
  <1>5. Clk(bus) /\ bus[1] = "wdata" /\ bus[2] = word BY <1>3, <1>4 DEF WriteWord, Here, Age
  <1>6. PICK free \in BOOLEAN :
          /\ One(Alone(free), Filled, sd', disk', drv) /\ prot' = FALSE
          /\ DOMAIN Engine(free) \cap DOMAIN Bus(bus) = {} => hd' = Over(Bus(bus), Alone(free))
    BY <1>5, ClkOne
  <1>7. PICK m : m = Alone(free) OBVIOUS
  <1>8. /\ DOMAIN m = Registers /\ m.status = hd.status /\ m.cur = hd.cur /\ m.off = hd.off
        /\ hd.st = "IDLE" <=> m.st = "IDLE" BY <1>2, <1>7, <1>n, FreeAlone
  <1>9. Puts(m, Filled, drv, bank')
    <2>1. bank' = [Filled EXCEPT ![hd.cur][hd.off] = word] BY <1>2, <1>5 DEF Clk, BankClk, Drq
    <2>. QED BY <1>3, <1>8, <2>1 DEF Puts
  <1>10. DOMAIN Engine(free) \subseteq {"sector", "lbaT", "st", "rstart"}
         /\ (hd.st = "IDLE" => DOMAIN Engine(free) = {}) BY <1>2, <1>n, EngineAssigns
  <1>11. Bus(bus) = IF drv.w = Words - 1 THEN LastWordWritten ELSE [off |-> hd.off + 1]
    BY <1>2, <1>5 DEF Bus, Drq
  <1>w. drv.w \in Nat /\ drv.w \in Idx /\ Words \in Nat
    BY <1>0, SizeAssumption DEF Drivers, Idx
  <1>12. CASE drv.w < Words - 1
    <2>1. PICK w \in Idx : w = drv.w + 1 BY <1>12, <1>w DEF Idx
    <2>2. DOMAIN Bus(bus) = {"off"} /\ Bus(bus).off = w BY <1>2, <1>11, <1>12, <1>w, <2>1
    <2>3. hd' = Over(Bus(bus), m) BY <1>6, <1>7, <1>10, <2>2
    <2>4. hd' = [m EXCEPT !.off = w] BY <1>8, <2>2, <2>3 DEF Over, Registers
    <2>5. drv' = [drv EXCEPT !.w = w] BY <1>12, <2>1 DEF WriteWord
    <2>6. One(hd', bank', sd', disk', drv')
      BY <1>1, <1>6, <1>7, <1>9, <2>1, <2>4, <2>5, WriteOnOne
    <2>. QED BY <1>6, <2>6 DEF IOne
  <1>13. CASE ~(drv.w < Words - 1)
    <2>1. Bus(bus) = LastWordWritten BY <1>11, <1>13, <1>w DEF Idx
    <2>2. PICK bits : bits = (m.status \ {"DRQ"}) \cup {"BUSY"} OBVIOUS
    <2>3. Sends(m, hd')
      <3>1. CASE hd.st = "IDLE"
        <4>1. LastWordWritten = [off |-> 0, status |-> bits] ++ [st |-> "WR_LBA1"]
          BY <1>8, <2>2, <3>1 DEF LastWordWritten
        <4>2. /\ DOMAIN Bus(bus) = {"off", "status", "st"} /\ Bus(bus).off = 0
              /\ Bus(bus).status = bits /\ Bus(bus).st = "WR_LBA1" BY <2>1, <4>1 DEF ++
        <4>3. hd' = Over(Bus(bus), m) BY <1>6, <1>7, <1>10, <3>1
        <4>4. hd' = [m EXCEPT !.off = 0, !.status = bits, !.st = "WR_LBA1"]
          BY ZenonT(60), <1>8, <4>2, <4>3 DEF Over, Registers
        <4>. QED BY <1>8, <2>2, <3>1, <4>4 DEF Sends
      <3>2. CASE hd.st # "IDLE"
        <4>1. LastWordWritten = [off |-> 0, status |-> bits] ++ [wrPending |-> TRUE]
          BY <1>8, <2>2, <3>2 DEF LastWordWritten
        <4>2. /\ DOMAIN Bus(bus) = {"off", "status", "wrPending"} /\ Bus(bus).off = 0
              /\ Bus(bus).status = bits /\ Bus(bus).wrPending = TRUE BY <2>1, <4>1 DEF ++
        <4>3. hd' = Over(Bus(bus), m) BY <1>6, <1>7, <1>10, <4>2
        <4>4. hd' = [m EXCEPT !.off = 0, !.status = bits, !.wrPending = TRUE]
          BY ZenonT(60), <1>8, <4>2, <4>3 DEF Over, Registers
        <4>. QED BY <1>8, <2>2, <3>2, <4>4 DEF Sends
      <3>. QED BY <3>1, <3>2
    <2>4. drv' = [drv EXCEPT !.pc = "fin"] BY <1>13 DEF WriteWord
    <2>5. One(hd', bank', sd', disk', drv')
      BY <1>1, <1>6, <1>7, <1>9, <1>13, <2>3, <2>4, WriteLastOne
    <2>. QED BY <1>6, <2>5 DEF IOne
  <1>. QED BY <1>12, <1>13

LEMMA InitOne == ASSUME Init, Leaves PROVE IOne
  <1>1. IInv BY InitGood
  <1>2. PICK a : a = Address(0, "lba", Geometry) OBVIOUS
  <1>3. PICK rest : rest = [addr |-> a, sector |-> 0, lbaT |-> 0, fill |-> 0] OBVIOUS
  <1>4. hd = Reset ++ rest BY <1>2, <1>3 DEF Init
  <1>5. /\ hd.status = {"BUSY"} /\ hd.resetting = TRUE /\ hd.st = "IDLE" /\ hd.rstart = FALSE
        /\ hd.wstart = FALSE /\ hd.off = 0 /\ hd.rdPending = FALSE /\ hd.pfValid = FALSE
        /\ hd.restart = FALSE /\ hd.wrPending = FALSE /\ hd.geo = Geometry
    BY <1>4 DEF ++, Reset
  <1>6. Types(hd, bank, sd, disk, prot, drv) /\ RegTypes(hd) /\ hd = [r \in Registers |-> hd[r]]
    BY <1>1 DEF IInv, Good, Types
  <1>7. sd = [st |-> "ready", wr |-> FALSE, lba |-> 0, i |-> 0] /\ prot \in WProt BY DEF Init
  <1>8. prot = FALSE BY <1>7 DEF Leaves
  <1>9. /\ drv.pc = "idle" /\ drv.k = 0 /\ drv.n = 1 /\ drv.lba = 0 /\ drv.geo = Geometry
    BY DEF Init, DrvIdle
  <1>10. OneTypes(hd, bank, sd, disk, drv)
    <2>1. hd.status \subseteq {"BUSY", "DRQ"} /\ hd.st \in {"IDLE"} \cup Reads \cup Writes BY <1>5
    <2>2. /\ hd.off \in Idx /\ hd.count \in Nat /\ hd.addr \in Addresses
          /\ hd.cur \in {0, 1} /\ hd.fbank \in {0, 1} /\ hd.pfBank \in {0, 1}
          /\ hd.resetting \in BOOLEAN /\ hd.rstart \in BOOLEAN /\ hd.wstart \in BOOLEAN
          /\ hd.rdPending \in BOOLEAN /\ hd.pfValid \in BOOLEAN
          /\ hd.restart \in BOOLEAN /\ hd.wrPending \in BOOLEAN BY <1>6 DEF RegTypes
    <2>3. /\ bank \in [{0, 1} -> [Idx -> Word]] /\ disk \in [Lba -> [Idx -> Word]]
          /\ drv \in Drivers BY <1>6 DEF Types
    <2>4. sd = [st |-> sd.st, wr |-> sd.wr, lba |-> sd.lba, i |-> sd.i] BY <1>7
    <2>5. sd.st \in {"ready", "busy", "done"} /\ sd.wr \in BOOLEAN /\ sd.i \in 0..Words
      BY <1>7, SizeAssumption
    <2>6. drv.k < drv.n /\ drv.lba + drv.n - 1 <= MaxLba BY <1>9, SizeAssumption
    <2>. QED BY <1>5, <1>6, <1>9, <2>1, <2>2, <2>3, <2>4, <2>5, <2>6 DEF OneTypes
  <1>11. Linked(hd, sd) BY <1>5, <1>7 DEF Linked, Reads
  <1>12. InStep(hd, drv) BY <1>5, <1>9 DEF InStep, Starts, Resets
  <1>13. OneTrue(hd, bank, sd, disk, drv) BY <1>9 DEF OneTrue, OneRead, OneWrite
  <1>. QED BY <1>8, <1>10, <1>11, <1>12, <1>13 DEF IOne, One

\* Every step keeps it.
LEMMA NextOne == ASSUME IOne, Leaves, [Next]_vars PROVE IOne'
  <1>1. CASE Driver
    BY <1>1, OneChoose, OneCount, OneAddr, OneCmd, OneWait, OneReadWord, OneWriteWord, OneWritten,
       OneDrop DEF Driver
  <1>2. CASE Tick BY <1>2, OneTick
  <1>3. CASE SetProt
    <2>1. UNCHANGED <<hd, bank, sd, disk, drv>> /\ prot' \in WProt BY <1>3 DEF SetProt
    <2>2. prot' = FALSE BY <2>1 DEF Leaves
    <2>. QED BY <2>1, <2>2 DEF IOne
  <1>4. ~Rst BY DEF Rst, Leaves
  <1>5. CASE UNCHANGED vars BY <1>5 DEF vars, IOne
  <1>. QED BY <1>1, <1>2, <1>3, <1>4, <1>5 DEF Next

LEMMA OneIsRight == ASSUME IOne PROVE OneSectorRight
  <1>1. One(hd, bank, sd, disk, drv) /\ drv \in Drivers /\ drv.k < drv.n
        /\ "ERROR" \notin hd.status BY DEF IOne, One, OneTypes
  <1>2. ASSUME drv.n = 1 PROVE drv.lba + drv.k = drv.lba BY <1>1, <1>2, DriverTypes
  <1>3. OneSectorRead
    <2>. SUFFICES ASSUME drv.n = 1, drv.pc = "data", drv.op # "WRITE"
                  PROVE  Drq /\ ~Busy /\ bank[hd.cur][hd.off] = Expected
      BY DEF OneSectorRead, ReadDelivers
    <2>1. drv.op = "READ" /\ Offers(hd, drv.w) BY <1>1 DEF One, InStep
    <2>2. bank[hd.cur] = disk[drv.lba] BY <1>1, <2>1 DEF One, OneTrue, OneRead
    <2>. QED BY <1>2, <2>1, <2>2 DEF Offers, Free, Drq, Busy, Expected, Here
  <1>4. OneSectorWritten
    <2>. SUFFICES ASSUME drv.n = 1, drv.pc = "fin", "BUSY" \notin hd.status
                  PROVE  disk[Here] = Sector(Here, IF "ERROR" \in hd.status THEN drv.ref[Here] ELSE Age)
      BY DEF OneSectorWritten, WriteLands, Busy
    <2>1. drv.op = "WRITE" BY <1>1 DEF One, InStep
    <2>2. disk[drv.lba] = Sector(drv.lba, 1 - drv.ref[drv.lba])
      BY <1>1, <2>1 DEF One, OneTrue, OneWrite
    <2>. QED BY <1>1, <1>2, <2>2 DEF Here, Age
  <1>. QED BY <1>3, <1>4 DEF OneSectorRight

-----------------------------------------------------------------------------
(* The theorem about them *)

\* A command for one sector gets or writes that sector, whatever fetch of a READ that
\* was left it finds on its way: for every size of sector and image and every
\* geometry, for READ and WRITE, and as long as no command or last word meets the
\* edge on which that fetch ends.
THEOREM OneSectorCommands == ASSUME Leaves PROVE Spec => []OneSectorRight
  <1>1. Init => IOne BY InitOne
  <1>2. IOne /\ [Next]_vars => IOne' BY NextOne
  <1>3. IOne => OneSectorRight BY OneIsRight
  <1>. QED BY <1>1, <1>2, <1>3, PTL DEF Spec

=============================================================================
