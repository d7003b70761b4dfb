------------------------------- MODULE SdPath -------------------------------
(***************************************************************************)
(* The shared path to the SD card.  The floppies (fdd4.v) and the IDE      *)
(* cartridge (ide.v) raise requests; sd_arbiter.v lets one of them be seen *)
(* by sd_card.v; sd_card.v interrupts the MCU, whose spi_task translates   *)
(* the image sector into a card sector and orders the transfer, while the  *)
(* menu thread moves sectors of its own for the file system.               *)
(*                                                                         *)
(* The FPGA side is synchronous: FpgaClk(b) is one clock edge of every     *)
(* register, with b the byte that the SPI link strobes in on that edge.    *)
(* An MCU step that sends a byte is FpgaClk of that byte together with the *)
(* thread's move to its next byte; the other MCU steps leave the FPGA      *)
(* alone.  A byte takes at least ten clocks, so what a byte sets going     *)
(* inside sd_card.v has settled when the next one comes (Settled); what    *)
(* the requesters and the card do meanwhile is not bounded.                *)
(***************************************************************************)
EXTENDS Naturals, FiniteSets

CONSTANTS
  Drives,    \* the floppy drives, slots 0-3 of the request mask
  Sectors,   \* sector numbers inside an image
  AppOps,    \* what the menu thread does with the card: subset of AppOpNames
  Upsets     \* what may disturb a pending request: subset of UpsetNames

Hdd == "hdd"                    \* slot 4 of the request mask
Nobody == "none"                \* an empty request mask
Fs == <<"fs", 0>>               \* any card sector of the MCU's file system

\* "read" and "write" hold sdc_lock; "geometry" is the read of an image's
\* first sector in sdc_image_open, after the lock has been given back.
AppOpNames == {"read", "write", "geometry"}
\* "motor": the floppy's motor stops.  "seek": drive, head, track or the
\* sector under the head changes.  "reset": the PPU's INIT resets ide.v.
\* "hid": another source interrupts the MCU.
UpsetNames == {"motor", "seek", "reset", "hid"}

ASSUME DrivesAssumption == Hdd \notin Drives /\ Nobody \notin Drives /\ "fs" \notin Drives
ASSUME AppOpsAssumption == AppOps \subseteq AppOpNames
ASSUME UpsetsAssumption == Upsets \subseteq UpsetNames

VARIABLES
  fdd,    \* fdd4.v: request up, selected drive, sector under the head
  ide,    \* ide.v: engine state, request lines, sector
  owner,  \* sd_arbiter.v: the cartridge owns the path
  card,   \* sd_card.v: interrupt logic, transfer latches, direction
  host,   \* sd_rw.v: the transfer, its sector, who was at its other end
  dout,   \* sd_card.v data_out, as the one bit the MCU loops on
  spi,    \* who holds the SPI mutex
  sdc,    \* who holds sdc_sem
  task,   \* spi_task: program counter and what it has read
  app     \* the menu thread

vars == <<fdd, ide, owner, card, host, dout, spi, sdc, task, app>>
-----------------------------------------------------------------------------
Fdd  == [rd : BOOLEAN, drv : Drives, sec : Sectors]
Ide  == [st : {"idle", "rdReq", "rdWait", "wrReq", "wrWait"},
         rd : BOOLEAN, wr : BOOLEAN, sec : Sectors]
Slot == Drives \cup {Hdd}
CardSector == (Slot \X Sectors) \cup {Fs}
Ends == {"fdd", "hdd", "mcu", "nobody"}
Dest == {"IDLE", "MCU_READ_SD", "MCU_READ_TX", "MCU_WRITE_SD", "MCU_WRITE_RX", "CORE_IO"}
Card == [irq : BOOLEAN, startD : BOOLEAN, iack : BOOLEAN, rint : BOOLEAN,
         wint : BOOLEAN, dinb : BOOLEAN, state : Dest, sec : CardSector]
Host == [st : {"ready", "busy", "done"}, wr : BOOLEAN, sec : CardSector,
         ends : SUBSET Ends]
TaskPc == {"sleep", "pend", "stat", "mask", "sector", "got", "lock", "core",
           "addr", "poll", "unlock"}
Task == [pc : TaskPc, pend : BOOLEAN, drv : Slot \cup {Nobody}, sec : Sectors]
AppPc == {"idle", "chk", "busy", "cmd", "raddr", "rpoll", "rdata", "waddr",
          "wdata", "wpoll", "more"}
App == [pc : AppPc, op : AppOpNames]

TypeOK ==
  /\ fdd \in Fdd
  /\ ide \in Ide
  /\ owner \in BOOLEAN
  /\ card \in Card
  /\ host \in Host
  /\ dout \in BOOLEAN
  /\ spi \in {"free", "task", "app"}
  /\ sdc \in {"free", "task", "app"}
  /\ task \in Task
  /\ app \in App

Init ==
  /\ fdd \in [rd : {FALSE}, drv : Drives, sec : Sectors]
  /\ ide \in [st : {"idle"}, rd : {FALSE}, wr : {FALSE}, sec : Sectors]
  /\ owner = FALSE
  /\ card = [irq |-> FALSE, startD |-> FALSE, iack |-> FALSE, rint |-> FALSE,
             wint |-> FALSE, dinb |-> FALSE, state |-> "IDLE", sec |-> Fs]
  /\ host = [st |-> "ready", wr |-> FALSE, sec |-> Fs, ends |-> {}]
  /\ dout = FALSE
  /\ spi = "free" /\ sdc = "free"
  /\ task \in [pc : {"sleep"}, pend : {FALSE}, drv : {Nobody}, sec : Sectors]
  /\ app \in [pc : {"idle"}, op : AppOpNames]
-----------------------------------------------------------------------------
(* The wires between the FPGA's modules *)
Busy   == host.st # "ready"                      \* rbusy
Done   == host.st = "done"                       \* rdone
HddReq == ide.rd \/ ide.wr
Taken  == owner \/ HddReq                        \* fdd_taken
Other  == fdd.rd \/ (Busy /\ ~owner)             \* hdd_other
\* sd_arbiter.v shows sd_card.v the owner's request lines and sector only
RAny == IF owner THEN ide.rd ELSE fdd.rd
WAny == owner /\ ide.wr
Mask == IF RAny \/ WAny THEN (IF owner THEN Hdd ELSE fdd.drv) ELSE Nobody
ArbSector == IF owner THEN ide.sec ELSE fdd.sec

(* Where the bytes of the running transfer go to or come from right now *)
Core == IF owner THEN "hdd" ELSE "fdd"
OtherEnd ==
  IF host.wr
    THEN IF card.state = "CORE_IO" THEN Core ELSE "mcu"
    ELSE CASE card.state = "MCU_READ_SD"            -> "mcu"
           [] card.state = "CORE_IO" /\ card.rint   -> Core
           [] OTHER                                 -> "nobody"
-----------------------------------------------------------------------------
(* One clock edge, module by module *)
\* Mutant: the grant outlives the transfer.
ArbClkKeeps == owner' = (owner \/ (HddReq /\ ~fdd.rd /\ ~Busy))
\* Mutant: the grant ends with the request, not with the transfer.
ArbClkShort == owner' = IF owner THEN HddReq ELSE HddReq /\ ~fdd.rd /\ ~Busy
ArbClk == owner' = IF owner THEN ~Done ELSE HddReq /\ ~fdd.rd /\ ~Busy

\* read_sd falls when the card is busy, the path is taken or the motor
\* stops, and rises, when it may, with the sector header passing by.
FddClk ==
  \/ fdd' = [fdd EXCEPT !.rd = IF Busy \/ Taken THEN FALSE ELSE @]
  \/ /\ ~Busy /\ ~Taken /\ ~fdd.rd
     /\ \E d \in Drives, s \in Sectors : fdd' = [rd |-> TRUE, drv |-> d, sec |-> s]
  \/ /\ "motor" \in Upsets /\ fdd.rd
     /\ fdd' = [fdd EXCEPT !.rd = FALSE]
  \/ /\ "seek" \in Upsets /\ fdd.rd /\ ~Busy /\ ~Taken
     /\ \E d \in Drives, s \in Sectors : fdd' = [rd |-> TRUE, drv |-> d, sec |-> s]

\* the S_RD_REQ / S_WR_REQ handshake: raise when nobody else is up, drop
\* when the card has gone busy
\* Mutant: the request goes up without a look at the others.
IdeReqEager(line, wait) ==
  ide' = IF ide[line] /\ Busy THEN [ide EXCEPT ![line] = FALSE, !.st = wait]
         ELSE [ide EXCEPT ![line] = TRUE]
IdeReq(line, wait) ==
  ide' = IF ide[line] /\ Busy THEN [ide EXCEPT ![line] = FALSE, !.st = wait]
         ELSE IF ~Other /\ ~Busy THEN [ide EXCEPT ![line] = TRUE]
         ELSE ide

IdeClk ==
  \/ /\ ide.st = "idle"
     /\ \/ ide' = ide
        \/ \E s \in Sectors, r \in {"rdReq", "wrReq"} : ide' = [ide EXCEPT !.st = r, !.sec = s]
  \/ ide.st = "rdReq" /\ IdeReq("rd", "rdWait")
  \/ ide.st = "wrReq" /\ IdeReq("wr", "wrWait")
  \/ /\ ide.st \in {"rdWait", "wrWait"}
     /\ ide' = IF Done THEN [ide EXCEPT !.st = "idle"] ELSE ide
  \/ /\ "reset" \in Upsets /\ ide.st # "idle"
     /\ ide' = [ide EXCEPT !.st = "idle", !.rd = FALSE, !.wr = FALSE]

\* sd_rw.v seen from sd_card.v, when the card answers: SdHost has the rest.
HostClk ==
  \/ /\ host.st = "ready"
     /\ host' = IF card.rint \/ card.wint
                THEN [st |-> "busy", wr |-> ~card.rint, sec |-> card.sec, ends |-> {}]
                ELSE host
  \/ /\ host.st = "busy"
     /\ \E st \in {"busy", "done"} :
          host' = [host EXCEPT !.st = st, !.ends = @ \cup {OtherEnd}]
  \/ /\ host.st = "done"
     /\ host' = [host EXCEPT !.st = "ready"]

\* sd_card.v, with b the byte strobed in on this edge
CardClk(b) ==
  LET start == RAny \/ WAny IN
  card' = [irq    |-> IF card.iack THEN FALSE ELSE card.irq \/ (start /\ ~card.startD),
           startD |-> start,
           iack   |-> b = "ack",
           rint   |-> (card.rint /\ ~Done) \/ b = "mcuaddr" \/ (b = "coreaddr" /\ RAny),
           wint   |-> (card.wint /\ ~Done) \/ card.dinb
                         \/ (b \in {"coreaddr", "mcuaddr"} /\ WAny),
           dinb   |-> b = "wrdata" /\ ~card.wint /\ card.state = "MCU_WRITE_RX",
           state  |-> CASE b = "core"   -> "CORE_IO"
                        [] b = "mcu"    -> "MCU_READ_SD"
                        [] b = "wraddr" -> "MCU_WRITE_RX"
                        [] b = "mcupoll" /\ ~card.rint -> "MCU_READ_TX"
                        [] OTHER -> IF card.dinb THEN "MCU_WRITE_SD" ELSE card.state,
           sec    |-> CASE b = "coreaddr" -> <<task.drv, task.sec>>
                        [] b \in {"mcuaddr", "wraddr"} -> Fs
                        [] OTHER -> card.sec]

\* Mutant: no 0xff while the sector number is coming in, so that the first
\* poll returns the byte left over from before.
DoutClkNoFf(b) ==
  dout' = CASE b \in {"stat", "core", "mcu", "wr", "wraddr", "wrdata", "wrpoll"} -> Busy
            [] b \in {"coreaddr", "mcuaddr", "corepoll", "mcupoll"} -> card.rint \/ card.wint
            [] OTHER -> dout
DoutClk(b) ==
  dout' = CASE b \in {"stat", "core", "mcu", "wr"}     -> Busy
            [] b \in {"coreaddr", "mcuaddr"}           -> TRUE
            [] b \in {"corepoll", "mcupoll"}           -> card.rint \/ card.wint
            [] b \in {"wraddr", "wrdata", "wrpoll"}    -> Busy
            [] OTHER                                   -> dout

FpgaClk(b) == ArbClk /\ FddClk /\ IdeClk /\ HostClk /\ CardClk(b) /\ DoutClk(b)

\* the registers a byte loads have passed on what they hold
Settled == ~card.iack /\ ~card.dinb /\ ~(host.st = "ready" /\ (card.rint \/ card.wint))
Byte(b) == Settled /\ FpgaClk(b)

\* a clock with no byte on the link
Tick == FpgaClk("none") /\ UNCHANGED <<spi, sdc, task, app>>
-----------------------------------------------------------------------------
(* spi_task: one action per byte, or per step between bytes *)
TaskTo(pc) == task' = [task EXCEPT !.pc = pc]
Fpga == <<fdd, ide, owner, card, host, dout>>

\* the interrupt has woken the task; sys_irq_ctrl(0xff) acknowledges and
\* latches the pending bits on the same edge
TaskAck ==
  /\ task.pc = "sleep" /\ spi = "free"
  /\ card.irq \/ "hid" \in Upsets
  /\ spi' = "task"
  /\ task' = [task EXCEPT !.pc = "pend", !.pend = card.irq]
  /\ Byte("ack") /\ UNCHANGED <<sdc, app>>

TaskPend ==
  /\ task.pc = "pend"
  /\ spi' = "free"
  /\ TaskTo(IF task.pend THEN "stat" ELSE "sleep")
  /\ UNCHANGED <<Fpga, sdc, app>>

\* sdc_handle_event: the status command, the request mask, the sector
TaskStat ==
  /\ task.pc = "stat" /\ spi = "free"
  /\ spi' = "task" /\ TaskTo("mask")
  /\ Byte("stat") /\ UNCHANGED <<sdc, app>>

TaskMask ==
  /\ task.pc = "mask"
  /\ task' = [task EXCEPT !.pc = "sector", !.drv = Mask]
  /\ Byte("mask") /\ UNCHANGED <<spi, sdc, app>>

TaskSector ==
  /\ task.pc = "sector"
  /\ task' = [task EXCEPT !.pc = "got", !.sec = ArbSector]
  /\ Byte("sector") /\ UNCHANGED <<spi, sdc, app>>

\* Mutant: an empty mask is served like drive A's.
TaskGotAny ==
  /\ task.pc = "got" /\ spi' = "free" /\ TaskTo("lock") /\ UNCHANGED <<Fpga, sdc, app>>
TaskGot ==
  /\ task.pc = "got"
  /\ spi' = "free"
  /\ TaskTo(IF task.drv = Nobody THEN "sleep" ELSE "lock")
  /\ UNCHANGED <<Fpga, sdc, app>>

TaskLock ==
  /\ task.pc = "lock" /\ sdc = "free"
  /\ sdc' = "task" /\ TaskTo("core")
  /\ UNCHANGED <<Fpga, spi, app>>

\* SPI_SDC_CORE_RW, its sector, and the loop until the core's own transfer
\* is over
TaskCore ==
  /\ task.pc = "core" /\ spi = "free"
  /\ spi' = "task" /\ TaskTo("addr")
  /\ Byte("core") /\ UNCHANGED <<sdc, app>>

TaskAddr ==
  /\ task.pc = "addr"
  /\ TaskTo("poll")
  /\ Byte("coreaddr") /\ UNCHANGED <<spi, sdc, app>>

TaskPoll ==
  /\ task.pc = "poll"
  /\ IF dout THEN UNCHANGED <<spi, task>> ELSE spi' = "free" /\ TaskTo("unlock")
  /\ Byte("corepoll") /\ UNCHANGED <<sdc, app>>

\* Mutant: sdc_lock is not given back.
TaskUnlockForgets ==
  /\ task.pc = "unlock" /\ TaskTo("sleep") /\ UNCHANGED <<Fpga, spi, sdc, app>>
TaskUnlock ==
  /\ task.pc = "unlock"
  /\ sdc' = "free" /\ TaskTo("sleep")
  /\ UNCHANGED <<Fpga, spi, app>>

TaskNext ==
  \/ TaskAck \/ TaskPend \/ TaskStat \/ TaskMask \/ TaskSector \/ TaskGot
  \/ TaskLock \/ TaskCore \/ TaskAddr \/ TaskPoll \/ TaskUnlock
-----------------------------------------------------------------------------
(* The menu thread: FatFs moves one sector after another under sdc_lock *)
AppTo(pc) == app' = [app EXCEPT !.pc = pc]

AppBegin ==
  /\ app.pc = "idle"
  /\ \E op \in AppOps :
       /\ app' = [pc |-> "chk", op |-> op]
       /\ IF op = "geometry" THEN sdc' = sdc ELSE sdc = "free" /\ sdc' = "app"
  /\ UNCHANGED <<Fpga, spi, task>>

\* poll the status until the card is not busy
AppChk ==
  /\ app.pc = "chk" /\ spi = "free"
  /\ spi' = "app" /\ AppTo("busy")
  /\ Byte("stat") /\ UNCHANGED <<sdc, task>>

AppBusy ==
  /\ app.pc = "busy"
  /\ spi' = "free" /\ AppTo(IF dout THEN "chk" ELSE "cmd")
  /\ UNCHANGED <<Fpga, sdc, task>>

\* sdc_read_sector
AppRead ==
  /\ app.pc = "cmd" /\ spi = "free" /\ app.op # "write"
  /\ spi' = "app" /\ AppTo("raddr")
  /\ Byte("mcu") /\ UNCHANGED <<sdc, task>>

AppReadAddr ==
  /\ app.pc = "raddr"
  /\ AppTo("rpoll")
  /\ Byte("mcuaddr") /\ UNCHANGED <<spi, sdc, task>>

AppReadPoll ==
  /\ app.pc = "rpoll"
  /\ IF dout THEN UNCHANGED app ELSE AppTo("rdata")
  /\ Byte("mcupoll") /\ UNCHANGED <<spi, sdc, task>>

AppReadData ==
  /\ app.pc = "rdata"
  /\ spi' = "free" /\ AppTo("more")
  /\ UNCHANGED <<Fpga, sdc, task>>

\* sdc_write_sector
AppWrite ==
  /\ app.pc = "cmd" /\ spi = "free" /\ app.op = "write"
  /\ spi' = "app" /\ AppTo("waddr")
  /\ Byte("wr") /\ UNCHANGED <<sdc, task>>

AppWriteAddr ==
  /\ app.pc = "waddr"
  /\ AppTo("wdata")
  /\ Byte("wraddr") /\ UNCHANGED <<spi, sdc, task>>

\* the last of the 512 data bytes; the others only take time
AppWriteData ==
  /\ app.pc = "wdata"
  /\ AppTo("wpoll")
  /\ Byte("wrdata") /\ UNCHANGED <<spi, sdc, task>>

AppWritePoll ==
  /\ app.pc = "wpoll"
  /\ IF dout THEN UNCHANGED <<spi, app>> ELSE spi' = "free" /\ AppTo("more")
  /\ Byte("wrpoll") /\ UNCHANGED <<sdc, task>>

\* the next sector of the same file system call, or the end of it
AppMore ==
  /\ app.pc = "more"
  /\ \/ AppTo("chk") /\ UNCHANGED sdc
     \/ AppTo("idle") /\ sdc' = IF app.op = "geometry" THEN sdc ELSE "free"
  /\ UNCHANGED <<Fpga, spi, task>>

AppNext ==
  \/ AppBegin \/ AppChk \/ AppBusy \/ AppRead \/ AppReadAddr \/ AppReadPoll
  \/ AppReadData \/ AppWrite \/ AppWriteAddr \/ AppWriteData \/ AppWritePoll
  \/ AppMore
-----------------------------------------------------------------------------
Next == Tick \/ TaskNext \/ AppNext

Spec == Init /\ [][Next]_vars

\* The clock runs, both threads are scheduled, and the card, once it has
\* begun a transfer, ends it.
CardAnswers == Tick /\ host.st = "busy" /\ host'.st = "done"
FairSpec == Spec /\ WF_vars(Tick) /\ WF_vars(CardAnswers)
                 /\ WF_vars(TaskNext) /\ WF_vars(AppNext)
-----------------------------------------------------------------------------
(* Properties *)

\* From its first byte to its last a transfer has one other end: nothing
\* the MCU sends and no change of owner redirects sd_card.v's data path
\* (the outen gate, the inbyte mux, sd_arbiter's muxes) in the middle.
OneEnd == Done => \E e \in Ends : host.ends = {e}

\* sdc_read_sector hands FatFs the sector it asked for: when the data
\* phase begins, the last transfer was a read of it into the MCU's buffer
\* and nothing else is using the card.
MenuReadsItsSector ==
  app.pc = "rdata" => host = [st |-> "ready", wr |-> FALSE, sec |-> Fs, ends |-> {"mcu"}]

\* When ide.v takes a done for its own (S_RD_WAIT, S_WR_WAIT), the transfer
\* moved the cartridge's sector, in the right direction, between the card
\* and the cartridge's buffer.
IdeMovesItsSector ==
  Done /\ ide.st \in {"rdWait", "wrWait"} =>
    host.wr = (ide.st = "wrWait") /\ host.sec = <<Hdd, ide.sec>> /\ host.ends = {"hdd"}

\* A transfer into the floppy's sector buffer brings the sector that the
\* floppy asked for, from the drive it asked for, and never writes the card.
FloppyGetsItsSector ==
  Done /\ "fdd" \in host.ends => ~host.wr /\ host.sec = <<fdd.drv, fdd.sec>>

\* What the cartridge writes lands in the cartridge's image.
WritesStayInTheirImage ==
  Done /\ host.wr /\ "hdd" \in host.ends => host.sec[1] = Hdd

\* A sector request of ide.v is answered.
IdeServed == ide.st \in {"rdReq", "wrReq"} ~> ide.st = "idle"

\* A floppy's request is answered, or gives way to the cartridge's.
FloppyServed == fdd.rd ~> (Done /\ host.ends = {"fdd"}) \/ HddReq

\* Whoever asks for a sector is answered.
RequestsServed == IdeServed /\ FloppyServed

\* The cartridge gives the path back, so that the floppies get a turn.
OwnerReturns == owner ~> ~owner
=============================================================================
