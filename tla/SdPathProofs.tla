---------------------------- MODULE SdPathProofs ----------------------------
(***************************************************************************)
(* Proofs about SdPath, for every set of drives, every set of sectors,     *)
(* every disturbance of a request and, where a theorem does not say        *)
(* otherwise, everything the menu thread does with the card.               *)
(***************************************************************************)
EXTENDS SdPath, TLAPS

\* spi_task orders a transfer only for a drive the request mask named.
DrvNamed == task.pc \in {"lock", "core", "addr", "poll", "unlock"} => task.drv \in Slot

\* The typing invariant that is inductive.
TypeInv == TypeOK /\ DrvNamed

\* One clock edge keeps every FPGA register in its type.
LEMMA FpgaTypes ==
  ASSUME TypeOK, NEW b, FpgaClk(b), b = "coreaddr" => task.drv \in Slot
  PROVE  /\ fdd' \in Fdd /\ ide' \in Ide /\ owner' \in BOOLEAN
         /\ card' \in Card /\ host' \in Host /\ dout' \in BOOLEAN
<1> USE DEF TypeOK, FpgaClk
<1>1. fdd' \in Fdd
  <2>1. ASSUME fdd' = [fdd EXCEPT !.rd = IF Busy \/ Taken THEN FALSE ELSE @] PROVE fdd' \in Fdd
    BY <2>1 DEF Fdd
  <2>2. ASSUME fdd' = [fdd EXCEPT !.rd = FALSE] PROVE fdd' \in Fdd
    BY <2>2 DEF Fdd
  <2>3. ASSUME NEW d \in Drives, NEW s \in Sectors, fdd' = [rd |-> TRUE, drv |-> d, sec |-> s]
        PROVE  fdd' \in Fdd
    BY <2>3 DEF Fdd
  <2> QED BY <2>1, <2>2, <2>3 DEF FddClk
<1>2. ide' \in Ide
  <2>1. ASSUME IdeReq("rd", "rdWait") PROVE ide' \in Ide
    BY <2>1 DEF IdeReq, Ide
  <2>2. ASSUME IdeReq("wr", "wrWait") PROVE ide' \in Ide
    BY <2>2 DEF IdeReq, Ide
  <2> QED BY <2>1, <2>2 DEF IdeClk, Ide
<1>3. owner' \in BOOLEAN
  BY DEF ArbClk, HddReq, Done, Busy, Fdd, Ide
<1>4. card' \in Card
  <2>1. RAny \in BOOLEAN /\ WAny \in BOOLEAN
    BY DEF RAny, WAny, Fdd, Ide
  <2>2. card'.sec \in CardSector
    BY DEF CardClk, CardSector, Card, Slot, Task
  <2>3. card'.state \in Dest
    BY DEF CardClk, Card, Dest
  <2> QED BY <2>1, <2>2, <2>3 DEF CardClk, Card, Done
<1>5. host' \in Host
  <2>1. OtherEnd \in Ends
    BY DEF OtherEnd, Core, Ends
  <2>2. CASE host.st = "ready"
    <3>1. (~card.rint) \in BOOLEAN /\ card.sec \in CardSector
      BY DEF Card
    <3>2. [st |-> "busy", wr |-> ~card.rint, sec |-> card.sec, ends |-> {}] \in Host
      BY <3>1 DEF Host
    <3>3. host' = host \/ host' = [st |-> "busy", wr |-> ~card.rint, sec |-> card.sec, ends |-> {}]
      BY <2>2 DEF HostClk
    <3> QED BY <3>2, <3>3
  <2>3. ASSUME NEW st \in {"busy", "done"},
               host' = [host EXCEPT !.st = st, !.ends = @ \cup {OtherEnd}]
        PROVE  host' \in Host
    BY <2>1, <2>3 DEF Host
  <2>4. CASE host' = [host EXCEPT !.st = "ready"]
    BY <2>4 DEF Host
  <2> QED BY <2>2, <2>3, <2>4 DEF HostClk
<1>6. dout' \in BOOLEAN
  BY DEF DoutClk, Busy, Card
<1> QED BY <1>1, <1>2, <1>3, <1>4, <1>5, <1>6

\* What the arbiter shows the MCU is well typed.
LEMMA MaskTypes == TypeOK => Mask \in Slot \cup {Nobody} /\ ArbSector \in Sectors
BY DEF TypeOK, Mask, ArbSector, Slot, Fdd, Ide, RAny, WAny

\* Every variable of the SD path keeps its type: in particular sd_card.v
\* is never ordered to move a sector of no drive.
THEOREM TypeCorrect == Spec => []TypeOK
<1>1. Init => TypeInv
  <2> SUFFICES ASSUME Init PROVE TypeInv
    OBVIOUS
  <2>1. fdd \in Fdd /\ ide \in Ide
    BY DEF Init, Fdd, Ide
  <2>2. card \in Card /\ host \in Host
    BY DEF Init, Card, Host, Dest, CardSector
  <2>3. task \in Task /\ task.pc = "sleep" /\ app \in App
    BY DEF Init, Task, TaskPc, Slot, App, AppPc
  <2> QED BY <2>1, <2>2, <2>3 DEF Init, TypeInv, TypeOK, DrvNamed
<1>2. TypeInv /\ [Next]_vars => TypeInv'
  <2> SUFFICES ASSUME TypeInv, [Next]_vars PROVE TypeInv'
    OBVIOUS
  <2> USE DEF TypeInv
  <2>1. CASE UNCHANGED vars
    BY <2>1 DEF TypeOK, DrvNamed, vars
  <2>2. CASE Tick
    BY <2>2, FpgaTypes DEF Tick, TypeOK, DrvNamed
  <2>3. CASE TaskNext
    <3> USE DEF TypeOK, DrvNamed, TaskTo, Task, TaskPc
    <3>1. CASE TaskAck
      BY <3>1, FpgaTypes DEF TaskAck, Byte, Card
    <3>2. CASE TaskPend
      BY <3>2 DEF TaskPend, Fpga
    <3>3. CASE TaskStat
      BY <3>3, FpgaTypes DEF TaskStat, Byte
    <3>4. CASE TaskMask
      BY <3>4, FpgaTypes, MaskTypes DEF TaskMask, Byte
    <3>5. CASE TaskSector
      BY <3>5, FpgaTypes, MaskTypes DEF TaskSector, Byte
    <3>6. CASE TaskGot
      BY <3>6 DEF TaskGot, Fpga
    <3>7. CASE TaskLock
      BY <3>7 DEF TaskLock, Fpga
    <3>8. CASE TaskCore
      BY <3>8, FpgaTypes DEF TaskCore, Byte
    <3>9. CASE TaskAddr
      BY <3>9, FpgaTypes DEF TaskAddr, Byte
    <3>10. CASE TaskPoll
      BY <3>10, FpgaTypes DEF TaskPoll, Byte
    <3>11. CASE TaskUnlock
      BY <3>11 DEF TaskUnlock, Fpga
    <3> QED BY <2>3, <3>1, <3>2, <3>3, <3>4, <3>5, <3>6, <3>7, <3>8, <3>9, <3>10, <3>11 DEF TaskNext
  <2>4. CASE AppNext
    <3> USE DEF TypeOK, DrvNamed, AppTo, App, AppPc
    <3>1. CASE AppBegin
      BY <3>1, AppOpsAssumption DEF AppBegin, Fpga
    <3>2. CASE AppChk
      BY <3>2, FpgaTypes DEF AppChk, Byte
    <3>3. CASE AppBusy
      BY <3>3 DEF AppBusy, Fpga
    <3>4. CASE AppRead
      BY <3>4, FpgaTypes DEF AppRead, Byte
    <3>5. CASE AppReadAddr
      BY <3>5, FpgaTypes DEF AppReadAddr, Byte
    <3>6. CASE AppReadPoll
      BY <3>6, FpgaTypes DEF AppReadPoll, Byte
    <3>7. CASE AppReadData
      BY <3>7 DEF AppReadData, Fpga
    <3>8. CASE AppWrite
      BY <3>8, FpgaTypes DEF AppWrite, Byte
    <3>9. CASE AppWriteAddr
      BY <3>9, FpgaTypes DEF AppWriteAddr, Byte
    <3>10. CASE AppWriteData
      BY <3>10, FpgaTypes DEF AppWriteData, Byte
    <3>11. CASE AppWritePoll
      BY <3>11, FpgaTypes DEF AppWritePoll, Byte
    <3>12. CASE AppMore
      BY <3>12 DEF AppMore, Fpga
    <3> QED BY <2>4, <3>1, <3>2, <3>3, <3>4, <3>5, <3>6, <3>7, <3>8, <3>9, <3>10, <3>11, <3>12 DEF AppNext
  <2> QED BY <2>1, <2>2, <2>3, <2>4 DEF Next
<1>3. TypeInv => TypeOK
  BY DEF TypeInv
<1> QED BY <1>1, <1>2, <1>3, PTL DEF Spec
-----------------------------------------------------------------------------
(***************************************************************************)
(* OneEnd, when the MCU's file system does not write.  The argument: a     *)
(* transfer runs only while the thread that ordered it sits in its polling *)
(* loop, and that loop holds the SPI mutex; so nobody can send the byte    *)
(* that would turn sd_card.v's data path round, and the loop is left only  *)
(* on a byte that says that the transfer is over.                          *)
(***************************************************************************)
Idle == ~card.rint /\ ~card.wint /\ host.st = "ready"
TaskTalks == {"pend", "mask", "sector", "got", "addr", "poll"}
AppTalks == {"busy", "raddr", "rpoll", "rdata"}

\* the menu thread never enters sdc_write_sector
NoWrite ==
  /\ app.pc \notin {"waddr", "wdata", "wpoll"}
  /\ app.pc # "idle" => app.op # "write"
  /\ ~card.dinb
\* the SPI mutex is held exactly inside a transaction
SpiHeld == (task.pc \in TaskTalks <=> spi = "task") /\ (app.pc \in AppTalks <=> spi = "app")
\* a transfer that has been ordered and is not over is being polled for
Polled == Idle \/ task.pc = "poll" \/ app.pc = "rpoll"
\* the loop ends only when it is over
LoopEnds == (task.pc = "poll" \/ app.pc = "rpoll") /\ ~dout => Idle
\* sd_rw runs only what sd_card has latched, a read if rstart_int is up
Latched == host.st # "ready" => IF host.wr THEN card.wint /\ ~card.rint ELSE card.rint
\* the direction fits the transaction
Direction ==
  /\ task.pc \in {"addr", "poll"} => card.state = "CORE_IO"
  /\ app.pc = "raddr" => card.state = "MCU_READ_SD"
  /\ app.pc = "rpoll" => (card.wint => card.rint) /\ (card.rint => card.state = "MCU_READ_SD")
\* so far the running transfer has had the other end it has now
SameEnd == (host.st = "busy" => host.ends \subseteq {OtherEnd}) /\ OneEnd

HeldInv == /\ NoWrite /\ SpiHeld /\ Polled /\ LoopEnds
           /\ Latched /\ Direction /\ SameEnd

\* A clock edge with nothing ordered orders nothing, unless the byte is the
\* last one of a sector number.
LEMMA IdleClk ==
  ASSUME TypeOK, Idle, ~card.dinb, NEW b, FpgaClk(b), b # "wrdata",
         b \notin {"coreaddr", "mcuaddr"}
  PROVE  Idle' /\ ~card.dinb'
BY DEF Idle, FpgaClk, CardClk, HostClk

\* The last byte of a sector number: the transfer is latched, sd_rw has not
\* seen it yet, and the MCU's next byte back is the 0xff.
LEMMA AddrClk ==
  ASSUME TypeOK, Idle, ~card.dinb, NEW b, FpgaClk(b), b \in {"coreaddr", "mcuaddr"}
  PROVE  /\ host'.st = "ready" /\ dout' /\ ~card.dinb'
         /\ card'.state = card.state /\ (b = "mcuaddr" => card'.rint)
BY DEF Idle, FpgaClk, CardClk, HostClk, DoutClk

\* While a transfer runs, a clock without a byte or with a polling byte
\* keeps the latches, the owner and the direction until the card is done.
LEMMA RunClk ==
  ASSUME TypeOK, ~card.dinb, Latched, SameEnd, host.st # "ready",
         card.rint => card.state \in {"CORE_IO", "MCU_READ_SD"},
         card.wint /\ ~card.rint => card.state = "CORE_IO",
         NEW b, FpgaClk(b), b \in {"none", "corepoll", "mcupoll"},
         b = "mcupoll" => card.rint
  PROVE  /\ ~card.dinb' /\ Latched' /\ SameEnd'
         /\ card'.state = card.state
         /\ IF host.st = "done" THEN Idle' ELSE card'.rint = card.rint /\ card'.wint = card.wint
<1> USE DEF FpgaClk, CardClk, TypeOK, Done, Busy
<1>1. ~card.dinb' /\ card'.state = card.state
  OBVIOUS
<1>2. CASE host.st = "done"
  <2>1. host'.st = "ready" /\ ~card'.rint /\ ~card'.wint
    BY <1>2 DEF HostClk, Host
  <2> QED BY <1>1, <1>2, <2>1 DEF Idle, Latched, SameEnd, OneEnd
<1>3. CASE host.st = "busy"
  <2>1. card'.rint = card.rint /\ card'.wint = card.wint
    BY <1>3 DEF Card
  <2>2. owner' = owner
    BY <1>3 DEF ArbClk
  <2>3. host'.wr = host.wr /\ host'.ends = host.ends \cup {OtherEnd}
        /\ host'.st \in {"busy", "done"}
    BY <1>3 DEF HostClk, Host
  <2>4. OtherEnd' = OtherEnd /\ OtherEnd \in Ends
    BY <1>1, <2>1, <2>2, <2>3 DEF OtherEnd, Core, Ends
  <2>5. host'.ends = {OtherEnd}
    BY <1>3, <2>3 DEF SameEnd
  <2>6. Latched'
    BY <1>3, <2>1, <2>3 DEF Latched
  <2>7. SameEnd'
    BY <2>4, <2>5 DEF SameEnd, OneEnd
  <2> QED BY <1>1, <1>3, <2>1, <2>6, <2>7
<1> QED BY <1>2, <1>3 DEF Host

\* The cycle in which sd_rw sees what has just been latched.
LEMMA StartClk ==
  ASSUME TypeOK, ~card.dinb, host.st = "ready", card.rint \/ card.wint,
         NEW b, FpgaClk(b), b = "none"
  PROVE  /\ ~card.dinb' /\ Latched' /\ SameEnd' /\ card'.state = card.state
         /\ card'.rint = card.rint /\ card'.wint = card.wint
<1> USE DEF FpgaClk, CardClk, TypeOK, Done, Busy
<1>1. card'.rint = card.rint /\ card'.wint = card.wint /\ ~card.dinb' /\ card'.state = card.state
  BY DEF Card
<1>2. host' = [st |-> "busy", wr |-> ~card.rint, sec |-> card.sec, ends |-> {}]
  BY DEF HostClk
<1> QED BY <1>1, <1>2 DEF Latched, SameEnd, OneEnd, Card

\* A byte sent while the SPI link is free, or by the thread that holds it
\* outside its polling loop, finds the card idle and leaves it idle.
LEMMA IdleByte ==
  ASSUME TypeOK, HeldInv, NEW b, Byte(b), b \notin {"wrdata", "coreaddr", "mcuaddr"},
         task.pc # "poll", app.pc # "rpoll"
  PROVE  Idle' /\ ~card'.dinb /\ Latched' /\ SameEnd'
<1>1. Idle /\ ~card.dinb /\ FpgaClk(b)
  BY DEF HeldInv, Polled, NoWrite, Byte
<1>2. Idle' /\ ~card'.dinb
  BY <1>1, IdleClk
<1> QED BY <1>2 DEF Idle, Latched, SameEnd, OneEnd, Done

\* One clock of a polling loop, or one without a byte.
LEMMA PollClk ==
  ASSUME TypeOK, HeldInv, NEW b, FpgaClk(b), b \in {"none", "corepoll", "mcupoll"},
         b # "none" => Settled,
         b = "corepoll" => task.pc = "poll", b = "mcupoll" => app.pc = "rpoll"
  PROVE  /\ ~card'.dinb /\ Latched' /\ SameEnd'
         /\ Idle \/ host.st = "done" => Idle'
         /\ ~Idle => dout /\ card'.state = card.state
         /\ ~Idle /\ ~Idle' => dout' /\ card'.rint = card.rint /\ card'.wint = card.wint
<1> USE DEF HeldInv
<1>1. ~card.dinb
  BY DEF NoWrite
<1>2. CASE Idle
  <2>1. Idle' /\ ~card'.dinb
    BY <1>1, <1>2, IdleClk
  <2> QED BY <1>2, <2>1 DEF Idle, Latched, SameEnd, OneEnd, Done
<1>3. CASE host.st = "ready" /\ ~Idle
  <2>1. b = "none" /\ (card.rint \/ card.wint)
    BY <1>3 DEF Idle, Settled
  <2>2. /\ ~card'.dinb /\ Latched' /\ SameEnd' /\ card'.state = card.state
        /\ card'.rint = card.rint /\ card'.wint = card.wint
    BY <1>1, <1>3, <2>1, StartClk
  <2>3. dout /\ dout' = dout
    BY <1>3, <2>1 DEF Polled, LoopEnds, FpgaClk, DoutClk
  <2> QED BY <1>3, <2>2, <2>3
<1>4. CASE host.st # "ready"
  <2>1. ~Idle /\ dout /\ (task.pc = "poll" \/ app.pc = "rpoll")
    BY <1>4 DEF Idle, Polled, LoopEnds
  <2>2. card.rint \/ card.wint
    BY <1>4 DEF Latched
  <2>3. /\ card.rint => card.state \in {"CORE_IO", "MCU_READ_SD"}
        /\ card.wint /\ ~card.rint => card.state = "CORE_IO"
    BY <2>1 DEF Direction
  <2>4. b = "mcupoll" => card.rint
    BY <2>2 DEF Direction
  <2>5. /\ ~card'.dinb /\ Latched' /\ SameEnd' /\ card'.state = card.state
        /\ IF host.st = "done" THEN Idle' ELSE card'.rint = card.rint /\ card'.wint = card.wint
    BY <1>1, <1>4, <2>3, <2>4, RunClk
  <2>6. dout'
    BY <2>1, <2>2 DEF FpgaClk, DoutClk
  <2> QED BY <1>4, <2>1, <2>5, <2>6
<1> QED BY <1>2, <1>3, <1>4

\* Every step keeps HeldInv, as long as the file system does not write.
LEMMA HeldStep ==
  ASSUME "write" \notin AppOps, TypeOK, HeldInv, [Next]_vars
  PROVE  HeldInv'
<1> USE DEF HeldInv
<1>1. CASE UNCHANGED vars
  BY <1>1 DEF vars, NoWrite, SpiHeld, Polled, LoopEnds, Latched, Direction,
       SameEnd, OneEnd, OtherEnd, Core, Done, Idle
<1>2. CASE Tick
  <2>1. FpgaClk("none") /\ UNCHANGED <<spi, sdc, task, app>>
    BY <1>2 DEF Tick
  <2>2. /\ ~card'.dinb /\ Latched' /\ SameEnd'
        /\ Idle \/ host.st = "done" => Idle'
        /\ ~Idle => dout /\ card'.state = card.state
        /\ ~Idle /\ ~Idle' => dout' /\ card'.rint = card.rint /\ card'.wint = card.wint
    BY <2>1, PollClk
  <2>3. card'.state = card.state
    BY <2>1 DEF FpgaClk, CardClk, NoWrite
  <2>4. Direction'
    BY <2>1, <2>2, <2>3 DEF Direction, Idle
  <2> QED BY <2>1, <2>2, <2>4 DEF NoWrite, SpiHeld, Polled, LoopEnds
<1>3. CASE TaskNext
  <2> USE DEF TaskTo, Task, TypeOK, NoWrite, SpiHeld, TaskTalks, AppTalks
  <2>1. ASSUME UNCHANGED <<Fpga, app>>, task.pc \notin {"addr", "poll"},
               task'.pc \notin {"addr", "poll"}, SpiHeld'
        PROVE  HeldInv'
    BY <2>1 DEF Fpga, Polled, LoopEnds, Latched, Direction, SameEnd, OneEnd,
         OtherEnd, Core, Done, Idle
  <2>2. ASSUME NEW b, Byte(b), b \notin {"wrdata", "coreaddr", "mcuaddr"},
               task.pc # "poll", app.pc \notin {"raddr", "rpoll"}, SpiHeld',
               task'.pc = "addr" => b = "core", task'.pc # "poll", UNCHANGED app
        PROVE  HeldInv'
    <3>1. Idle' /\ ~card'.dinb /\ Latched' /\ SameEnd'
      BY <2>2, IdleByte
    <3>2. Direction'
      BY <2>2 DEF Direction, Byte, FpgaClk, CardClk
    <3> QED BY <2>2, <3>1, <3>2 DEF Polled, LoopEnds
  <2>3. CASE TaskAck
    BY <2>2, <2>3 DEF TaskAck
  <2>4. CASE TaskPend
    BY <2>1, <2>4 DEF TaskPend
  <2>5. CASE TaskStat
    BY <2>2, <2>5 DEF TaskStat
  <2>6. CASE TaskMask
    BY <2>2, <2>6 DEF TaskMask
  <2>7. CASE TaskSector
    BY <2>2, <2>7 DEF TaskSector
  <2>8. CASE TaskGot
    BY <2>1, <2>8 DEF TaskGot
  <2>9. CASE TaskLock
    BY <2>1, <2>9 DEF TaskLock
  <2>10. CASE TaskCore
    BY <2>2, <2>10 DEF TaskCore
  <2>11. CASE TaskAddr
    <3>1. Idle /\ FpgaClk("coreaddr") /\ app.pc # "rpoll" /\ task'.pc = "poll"
          /\ UNCHANGED <<spi, app>>
      BY <2>11 DEF TaskAddr, Byte, Polled
    <3>2. host'.st = "ready" /\ dout' /\ ~card'.dinb /\ card'.state = card.state
      BY <3>1, AddrClk
    <3>3. Latched' /\ SameEnd'
      BY <3>2 DEF Latched, SameEnd, OneEnd, Done
    <3>4. Direction'
      BY <2>11, <3>1, <3>2 DEF Direction, TaskAddr
    <3> QED BY <2>11, <3>1, <3>2, <3>3, <3>4 DEF Polled, LoopEnds, TaskAddr
  <2>12. CASE TaskPoll
    <3>1. FpgaClk("corepoll") /\ Settled /\ task.pc = "poll" /\ UNCHANGED app
          /\ IF dout THEN UNCHANGED <<spi, task>>
                     ELSE spi' = "free" /\ task' = [task EXCEPT !.pc = "unlock"]
      BY <2>12 DEF TaskPoll, Byte
    <3>2. /\ ~card'.dinb /\ Latched' /\ SameEnd'
          /\ Idle => Idle'
          /\ ~Idle => dout /\ card'.state = card.state
          /\ ~Idle /\ ~Idle' => dout'
      BY <3>1, PollClk
    <3>3. card'.state = card.state
      BY <3>1 DEF FpgaClk, CardClk
    <3>4. SpiHeld' /\ app.pc \notin {"raddr", "rpoll"}
      BY <3>1
    <3>5. Direction'
      BY <3>1, <3>3, <3>4 DEF Direction
    <3> QED BY <3>1, <3>2, <3>4, <3>5 DEF Polled, LoopEnds
  <2>13. CASE TaskUnlock
    BY <2>1, <2>13 DEF TaskUnlock
  <2> QED BY <1>3, <2>3, <2>4, <2>5, <2>6, <2>7, <2>8, <2>9, <2>10, <2>11,
             <2>12, <2>13 DEF TaskNext
<1>4. CASE AppNext
  <2> USE DEF AppTo, App, TypeOK, NoWrite, SpiHeld, TaskTalks, AppTalks
  <2>1. ASSUME UNCHANGED <<Fpga, task>>, app.pc \notin {"raddr", "rpoll"},
               app'.pc \notin {"raddr", "rpoll"}, SpiHeld', NoWrite'
        PROVE  HeldInv'
    BY <2>1 DEF Fpga, Polled, LoopEnds, Latched, Direction, SameEnd, OneEnd,
         OtherEnd, Core, Done, Idle
  <2>2. ASSUME NEW b, Byte(b), b \notin {"wrdata", "coreaddr", "mcuaddr"},
               task.pc \notin {"addr", "poll"}, app.pc # "rpoll", SpiHeld',
               app'.pc = "raddr" => b = "mcu", app'.pc \notin {"rpoll", "waddr", "wdata", "wpoll"},
               app'.op = app.op, app.pc # "idle", UNCHANGED task
        PROVE  HeldInv'
    <3>1. Idle' /\ ~card'.dinb /\ Latched' /\ SameEnd'
      BY <2>2, IdleByte
    <3>2. Direction'
      BY <2>2 DEF Direction, Byte, FpgaClk, CardClk
    <3>3. NoWrite'
      BY <2>2, <3>1
    <3> QED BY <2>2, <3>1, <3>2, <3>3 DEF Polled, LoopEnds
  <2>3. CASE AppBegin
    BY <2>1, <2>3 DEF AppBegin, Fpga
  <2>4. CASE AppChk
    BY <2>2, <2>4 DEF AppChk
  <2>5. CASE AppBusy
    BY <2>1, <2>5 DEF AppBusy, Fpga
  <2>6. CASE AppRead
    BY <2>2, <2>6 DEF AppRead
  <2>7. CASE AppReadAddr
    <3>1. Idle /\ FpgaClk("mcuaddr") /\ task.pc \notin {"addr", "poll"} /\ app.pc = "raddr"
          /\ app' = [app EXCEPT !.pc = "rpoll"] /\ UNCHANGED <<spi, task>>
      BY <2>7 DEF AppReadAddr, Byte, Polled
    <3>2. host'.st = "ready" /\ dout' /\ ~card'.dinb /\ card'.state = card.state /\ card'.rint
      BY <3>1, AddrClk
    <3>3. Latched' /\ SameEnd'
      BY <3>2 DEF Latched, SameEnd, OneEnd, Done
    <3>4. Direction'
      BY <3>1, <3>2 DEF Direction
    <3> QED BY <3>1, <3>2, <3>3, <3>4 DEF Polled, LoopEnds
  <2>8. CASE AppReadPoll
    <3>1. FpgaClk("mcupoll") /\ Settled /\ app.pc = "rpoll" /\ UNCHANGED <<spi, task>>
          /\ IF dout THEN UNCHANGED app ELSE app' = [app EXCEPT !.pc = "rdata"]
      BY <2>8 DEF AppReadPoll, Byte
    <3>2. /\ ~card'.dinb /\ Latched' /\ SameEnd'
          /\ Idle \/ host.st = "done" => Idle'
          /\ ~Idle => dout /\ card'.state = card.state
          /\ ~Idle /\ ~Idle' => dout' /\ card'.rint = card.rint /\ card'.wint = card.wint
      BY <3>1, PollClk
    <3>3. SpiHeld' /\ task.pc \notin {"addr", "poll"} /\ NoWrite'
      BY <3>1, <3>2
    <3>4. Direction'
      BY <3>1, <3>2, <3>3 DEF Direction, Idle
    <3> QED BY <3>1, <3>2, <3>3, <3>4 DEF Polled, LoopEnds
  <2>9. CASE AppReadData
    BY <2>1, <2>9 DEF AppReadData, Fpga
  <2>10. CASE AppWrite \/ AppWriteAddr \/ AppWriteData \/ AppWritePoll
    BY <2>10 DEF AppWrite, AppWriteAddr, AppWriteData, AppWritePoll
  <2>11. CASE AppMore
    BY <2>1, <2>11 DEF AppMore, Fpga
  <2> QED BY <1>4, <2>3, <2>4, <2>5, <2>6, <2>7, <2>8, <2>9, <2>10, <2>11 DEF AppNext
<1> QED BY <1>1, <1>2, <1>3, <1>4 DEF Next

LEMMA HeldAlways ==
  ASSUME "write" \notin AppOps
  PROVE  Spec => [](TypeOK /\ HeldInv)
<1>1. Init => HeldInv
  BY DEF Init, HeldInv, NoWrite, SpiHeld, Polled, LoopEnds, Latched, Direction,
         SameEnd, OneEnd, Done, Idle, TaskTalks, AppTalks
<1>2. TypeOK /\ HeldInv /\ [Next]_vars => HeldInv'
  BY HeldStep
<1> QED BY <1>1, <1>2, TypeCorrect, PTL DEF Spec

\* Whatever holds a request back or disturbs it, and whatever the file
\* system reads meanwhile, every transfer keeps its other end.
THEOREM TransfersHeld ==
  ASSUME "write" \notin AppOps
  PROVE  Spec => []OneEnd
<1>1. HeldInv => OneEnd
  BY DEF HeldInv, SameEnd
<1> QED BY <1>1, HeldAlways, PTL
-----------------------------------------------------------------------------
(***************************************************************************)
(* What the file system reads.  While sdc_read_sector polls, the transfer  *)
(* latched is the one it named, and it is still latched or it is over.     *)
(***************************************************************************)
MenuRead == [st |-> "ready", wr |-> FALSE, sec |-> Fs, ends |-> {"mcu"}]

\* the transfer of a polling sdc_read_sector: latched, running, done, over
Named ==
  /\ card.sec = Fs
  /\ host.st # "ready" => ~host.wr /\ host.sec = Fs
  /\ Done => host.ends = {"mcu"}
  /\ ~card.rint => host = MenuRead
ReadInv ==
  /\ app.pc = "rpoll" => Named
  /\ app.pc = "rdata" => host = MenuRead

\* A clock edge of the polling loop: the card starts what is latched, runs it
\* into the MCU's buffer, ends it, or there is nothing left to do.
LEMMA NamedClk ==
  ASSUME TypeOK, HeldInv, app.pc = "rpoll", Named,
         NEW b, FpgaClk(b), b \in {"none", "mcupoll"}
  PROVE  Named'
<1> USE DEF TypeOK, FpgaClk, CardClk, HostClk, Done
<1>1. card'.sec = Fs
  BY DEF Named
<1>2. card.wint => card.rint
  BY DEF HeldInv, Direction
<1>3. CASE host.st = "ready" /\ card.rint
  <2>1. host' = [st |-> "busy", wr |-> FALSE, sec |-> Fs, ends |-> {}] /\ card'.rint
    BY <1>3 DEF Named
  <2> QED BY <1>1, <2>1 DEF Named
<1>4. CASE host.st = "ready" /\ ~card.rint
  <2>1. host' = host
    BY <1>2, <1>4
  <2> QED BY <1>1, <1>4, <2>1 DEF Named
<1>5. CASE host.st = "busy"
  <2>1. card.rint /\ ~host.wr /\ host.sec = Fs
    BY <1>5 DEF Named, MenuRead
  <2>2. OtherEnd = "mcu"
    BY <2>1 DEF HeldInv, Direction, OtherEnd
  <2>3. host.ends \subseteq {"mcu"}
    BY <1>5, <2>2 DEF HeldInv, SameEnd
  <2>4. /\ host'.wr = host.wr /\ host'.sec = host.sec
        /\ host'.ends = host.ends \cup {"mcu"}
    BY <1>5, <2>2 DEF Host
  <2>5. card'.rint
    BY <1>5, <2>1
  <2> QED BY <1>1, <2>1, <2>3, <2>4, <2>5 DEF Named
<1>6. CASE host.st = "done"
  <2>1. ~host.wr /\ host.sec = Fs /\ host.ends = {"mcu"}
    BY <1>6 DEF Named
  <2>2. host' = [host EXCEPT !.st = "ready"]
    BY <1>6
  <2>3. host' = MenuRead
    BY <2>1, <2>2 DEF Host, MenuRead
  <2> QED BY <1>1, <2>3 DEF Named, MenuRead
<1> QED BY <1>3, <1>4, <1>5, <1>6 DEF Host

\* Whatever the cores ask for meanwhile, the file system gets the sector it
\* named, whole, and by then the card is idle.
THEOREM MenuReads ==
  ASSUME "write" \notin AppOps
  PROVE  Spec => []MenuReadsItsSector
<1>1. Init => ReadInv
  BY DEF Init, ReadInv
<1>2. TypeOK /\ HeldInv /\ ReadInv /\ [Next]_vars => ReadInv'
  <2> SUFFICES ASSUME TypeOK, HeldInv, ReadInv, [Next]_vars PROVE ReadInv'
    OBVIOUS
  <2> USE DEF ReadInv
  <2>1. CASE UNCHANGED vars
    BY <2>1 DEF vars, Named, Done
  <2>2. CASE Tick
    <3>1. FpgaClk("none") /\ UNCHANGED app
      BY <2>2 DEF Tick
    <3>2. app.pc = "rpoll" => Named'
      BY <3>1, NamedClk
    <3>3. app.pc = "rdata" => Idle
      BY DEF HeldInv, Polled, SpiHeld, AppTalks, TaskTalks
    <3>4. app.pc = "rdata" => host' = host
      BY <3>1, <3>3 DEF Idle, FpgaClk, HostClk
    <3> QED BY <3>1, <3>2, <3>4
  <2>3. CASE TaskNext
    <3>1. ASSUME UNCHANGED <<Fpga, app>> PROVE ReadInv'
      BY <3>1 DEF Fpga, Named, Done
    <3>2. ASSUME spi = "free" \/ task.pc \in TaskTalks, UNCHANGED app PROVE ReadInv'
      BY <3>2 DEF HeldInv, SpiHeld, AppTalks
    <3> QED BY <2>3, <3>1, <3>2 DEF TaskNext, TaskAck, TaskPend, TaskStat, TaskMask, TaskSector,
              TaskGot, TaskLock, TaskCore, TaskAddr, TaskPoll, TaskUnlock, Fpga, TaskTalks
  <2>4. CASE AppNext
    <3> USE DEF AppTo, App, TypeOK
    <3>1. ASSUME app'.pc \notin {"rpoll", "rdata"} PROVE ReadInv'
      BY <3>1
    <3>2. CASE AppReadAddr
      <4>1. Idle /\ FpgaClk("mcuaddr") /\ app'.pc = "rpoll"
        BY <3>2 DEF AppReadAddr, Byte, HeldInv, Polled, SpiHeld, AppTalks, TaskTalks
      <4>2. card'.sec = Fs /\ card'.rint /\ host' = host /\ host.st = "ready"
        BY <4>1 DEF Idle, FpgaClk, CardClk, HostClk
      <4> QED BY <4>1, <4>2 DEF Named, Done
    <3>3. CASE AppReadPoll
      <4>1. FpgaClk("mcupoll") /\ app.pc = "rpoll"
            /\ app'.pc = IF dout THEN "rpoll" ELSE "rdata"
        BY <3>3 DEF AppReadPoll, Byte
      <4>2. Named'
        BY <4>1, NamedClk
      <4>3. ~dout => Idle
        BY <4>1 DEF HeldInv, LoopEnds
      <4>4. ~dout => host' = host /\ host = MenuRead
        BY <4>1, <4>3 DEF Idle, FpgaClk, HostClk, Named
      <4> QED BY <4>1, <4>2, <4>4
    <3> QED BY <2>4, <3>1, <3>2, <3>3 DEF AppNext, AppBegin, AppChk, AppBusy, AppRead,
              AppReadData, AppWrite, AppWriteAddr, AppWriteData, AppWritePoll, AppMore
  <2> QED BY <2>1, <2>2, <2>3, <2>4 DEF Next
<1>3. ReadInv => MenuReadsItsSector
  BY DEF ReadInv, MenuReadsItsSector, MenuRead
<1> QED BY <1>1, <1>2, <1>3, HeldAlways, PTL DEF Spec
-----------------------------------------------------------------------------
(***************************************************************************)
(* Whose sector, when the menu is closed and no request is taken back.     *)
(* Between the MCU reading a request and its order to transfer it nothing  *)
(* may change the request: the requester must hold it, the other one must  *)
(* stay away, and the interrupt must not come again for what has been      *)
(* served.  The last needs care, for the two requesters may go up on one   *)
(* edge: the floppy then yields, and sd_card.v sees a request that lasts   *)
(* one clock, none for one clock, and the cartridge's.                     *)
(***************************************************************************)
Quiet == AppOps = {} /\ Upsets \subseteq {"hid"}

Start == RAny \/ WAny
\* the request that sd_arbiter.v shows is the only one
Presented == IF owner THEN HddReq ELSE fdd.rd /\ ~HddReq
\* the floppy has given way and the cartridge is not yet the owner
Yielding == HddReq /\ ~owner /\ ~fdd.rd
\* the image and the sector that sd_arbiter.v shows
Asked == IF owner THEN <<Hdd, ide.sec>> ELSE <<fdd.drv, fdd.sec>>
\* spi_task has been woken by a request and has not ordered its transfer
Awake == \/ task.pc \in {"stat", "mask", "sector", "got", "lock", "core", "addr"}
         \/ task.pc = "pend" /\ task.pend

IdeLines == (ide.rd => ide.st = "rdReq") /\ (ide.wr => ide.st = "wrReq")
Granted == owner => ~fdd.rd /\ ide.st # "idle" /\ (Busy \/ HddReq)
Waits == ide.st \in {"rdWait", "wrWait"} => Busy /\ owner
\* an interrupt is pending for a request that is there to be read
Woken == card.irq /\ ~card.iack => Idle /\ (Presented \/ Yielding)
\* a request being served stands, and does not interrupt again
Serving == Awake => Presented /\ (card.iack \/ (~card.irq /\ card.startD))
\* what spi_task has read of it so far is still true
HasRead ==
  /\ task.pc \in {"sector", "got", "lock", "core", "addr"} => task.drv = Asked[1]
  /\ task.pc \in {"got", "lock", "core", "addr"} => task.sec = Asked[2]
\* what is latched in sd_card.v, and what sd_rw runs, is what was asked for
Ordered == ~Idle /\ host.st = "ready" =>
  Presented /\ card.rint = RAny /\ card.wint = WAny /\ card.sec = Asked
Running == Busy => /\ ~owner => ~HddReq
                   /\ host.sec = Asked
                   /\ host.wr = (owner /\ ide.st \in {"wrReq", "wrWait"})
                   /\ Done => ~fdd.rd /\ ~HddReq /\ host.ends = {Core}
NoIrq == ~Idle => ~card.irq /\ ~card.iack /\ (Start => card.startD)

SectorInv ==
  /\ app.pc = "idle"
  /\ IdeLines /\ Granted /\ Waits /\ Woken /\ Serving /\ HasRead
  /\ Ordered /\ Running /\ NoIrq

\* A clock edge with no transfer running keeps a request that is up, and whose
\* it is; the request lines fit the engine of ide.v.
LEMMA AskClk ==
  ASSUME Quiet, TypeOK, host.st = "ready", IdeLines, Granted, Waits, NEW b, FpgaClk(b)
  PROVE  /\ IdeLines' /\ (owner' => ~fdd'.rd /\ ide'.st # "idle" /\ HddReq')
         /\ ide'.st \notin {"rdWait", "wrWait"}
         /\ Presented => Presented' /\ Asked' = Asked /\ RAny' = RAny /\ WAny' = WAny
         /\ Yielding => Presented'
         /\ Start => Presented' \/ Yielding'
<1> USE DEF FpgaClk, TypeOK
<1>1. ~Busy /\ ~Done
  BY DEF Busy, Done
<1>2. owner' = (HddReq /\ (owner \/ ~fdd.rd))
  BY <1>1 DEF ArbClk, Granted, Ide, Fdd, HddReq
<1>3. /\ fdd.rd /\ ~Taken => fdd' = fdd
      /\ Taken => ~fdd'.rd
  BY <1>1 DEF FddClk, Quiet, Fdd
<1>4. \/ ide.st \in {"rdReq", "wrReq"} /\ ide'.st = ide.st /\ ide'.sec = ide.sec
         /\ (Other \/ HddReq => ide'.rd = ide.rd /\ ide'.wr = ide.wr)
         /\ (ide'.rd => ide.st = "rdReq") /\ (ide'.wr => ide.st = "wrReq")
      \/ ide.st = "idle" /\ ide'.rd = ide.rd /\ ide'.wr = ide.wr
         /\ ide'.st \in {"idle", "rdReq", "wrReq"}
  BY <1>1 DEF IdeClk, IdeReq, Quiet, Ide, IdeLines, Waits, HddReq
<1>5. HddReq => ide.st \in {"rdReq", "wrReq"} /\ HddReq' /\ ide'.rd = ide.rd /\ ide'.wr = ide.wr
                /\ ide'.sec = ide.sec
  BY <1>4 DEF HddReq, IdeLines, Ide
<1>6. IdeLines' /\ ide'.st \notin {"rdWait", "wrWait"}
  BY <1>4 DEF IdeLines
<1>7. owner' => ~fdd'.rd /\ ide'.st # "idle" /\ HddReq'
  BY <1>2, <1>3, <1>4, <1>5 DEF Taken
<1>8. Presented => Presented' /\ Asked' = Asked /\ RAny' = RAny /\ WAny' = WAny
  <2>1. CASE owner /\ HddReq
    <3>1. owner' /\ HddReq'
      BY <1>2, <1>5, <2>1
    <3> QED BY <1>5, <2>1, <3>1 DEF Presented, Asked, RAny, WAny
  <2>2. CASE ~owner /\ fdd.rd /\ ~HddReq
    <3>1. ~owner' /\ fdd' = fdd
      BY <1>2, <1>3, <2>2 DEF Taken
    <3>2. ~HddReq'
      BY <1>4, <2>2 DEF HddReq, Other
    <3> QED BY <2>2, <3>1, <3>2 DEF Presented, Asked, RAny, WAny
  <2> QED BY <2>1, <2>2 DEF Presented
<1>9. Yielding => Presented'
  BY <1>2, <1>5 DEF Yielding, Presented
<1>10. Start => Presented' \/ Yielding'
  <2>1. CASE Presented
    BY <1>8, <2>1
  <2>2. CASE ~Presented /\ Start
    <3>1. ~owner /\ fdd.rd /\ HddReq
      BY <2>2 DEF Presented, Start, RAny, WAny, HddReq
    <3> QED BY <1>2, <1>3, <1>5, <3>1 DEF Yielding, Taken
  <2> QED BY <2>1, <2>2
<1> QED BY <1>6, <1>7, <1>8, <1>9, <1>10

\* A request that is up is seen by sd_card.v.
LEMMA PresentedShows == TypeOK /\ Presented => Start
BY DEF TypeOK, Presented, Start, RAny, WAny, HddReq

\* A clock edge with nothing ordered, unless it ends a sector number.
LEMMA IdleAsks ==
  ASSUME Quiet, TypeOK, HeldInv, SectorInv, Idle, NEW b, FpgaClk(b),
         b \notin {"wrdata", "coreaddr", "mcuaddr"}
  PROVE  /\ IdeLines' /\ Granted' /\ Waits' /\ Woken' /\ Ordered' /\ Running' /\ NoIrq'
         /\ Presented => Presented' /\ Asked' = Asked
         /\ Yielding => Presented'
         /\ Presented /\ (card.iack \/ (~card.irq /\ card.startD)) => ~card'.irq /\ card'.startD
         /\ Presented => card'.startD
<1> USE DEF SectorInv
<1>1. host.st = "ready" /\ ~card.dinb
  BY DEF Idle, HeldInv, NoWrite
<1>2. Idle'
  BY <1>1, IdleClk
<1>3. /\ IdeLines' /\ (owner' => ~fdd'.rd /\ ide'.st # "idle" /\ HddReq')
      /\ ide'.st \notin {"rdWait", "wrWait"}
      /\ Presented => Presented' /\ Asked' = Asked
      /\ Yielding => Presented'
      /\ Start => Presented' \/ Yielding'
  BY <1>1, AskClk
<1>4. /\ card'.irq = IF card.iack THEN FALSE ELSE card.irq \/ (Start /\ ~card.startD)
      /\ card'.startD = Start
  BY DEF FpgaClk, CardClk, Start
<1>5. Woken'
  BY <1>2, <1>3, <1>4 DEF Woken
<1>6. Ordered' /\ Running' /\ NoIrq'
  BY <1>2 DEF Ordered, Running, NoIrq, Idle, Busy
<1>7. Presented => Start
  BY PresentedShows
<1> QED BY <1>3, <1>4, <1>5, <1>6, <1>7 DEF Granted, Waits

\* A clock edge of the polling loop, from the order to the end of the
\* transfer.
LEMMA RunAsks ==
  ASSUME Quiet, TypeOK, HeldInv, SectorInv, ~Idle, NEW b, FpgaClk(b),
         b \in {"none", "corepoll"}, b # "none" => Settled, b = "corepoll" => task.pc = "poll"
  PROVE  IdeLines' /\ Granted' /\ Waits' /\ Woken' /\ Ordered' /\ Running' /\ NoIrq'
<1> USE DEF SectorInv
<1>1. /\ card'.irq = IF card.iack THEN FALSE ELSE card.irq \/ (Start /\ ~card.startD)
      /\ card'.startD = Start /\ ~card'.iack
  BY DEF FpgaClk, CardClk, Start
<1>2. ~card'.irq
  BY <1>1 DEF NoIrq
<1>3. Woken'
  BY <1>2 DEF Woken
<1>4. CASE host.st = "ready"
  <2>1. b = "none" /\ ~card.dinb /\ (card.rint \/ card.wint)
    BY <1>4 DEF Idle, Settled, HeldInv, NoWrite
  <2>2. host' = [st |-> "busy", wr |-> ~card.rint, sec |-> card.sec, ends |-> {}]
    BY <1>4, <2>1 DEF FpgaClk, HostClk
  <2>3. Presented /\ card.rint = RAny /\ card.sec = Asked
    BY <1>4 DEF Ordered
  <2>4. /\ IdeLines' /\ (owner' => ~fdd'.rd /\ ide'.st # "idle" /\ HddReq')
        /\ ide'.st \notin {"rdWait", "wrWait"}
        /\ Presented' /\ Asked' = Asked /\ RAny' = RAny
    BY <1>4, <2>3, AskClk
  <2>5. host'.wr = (owner /\ ide.st \in {"wrReq", "wrWait"})'
    BY <2>2, <2>3, <2>4 DEF Presented, RAny, IdeLines, HddReq
  <2>6. Running'
    BY <2>2, <2>3, <2>4, <2>5 DEF Running, Presented, Done
  <2>7. NoIrq'
    BY <1>1, <1>2, <2>3, PresentedShows DEF NoIrq
  <2> QED BY <1>3, <2>2, <2>4, <2>6, <2>7 DEF Granted, Waits, Ordered, Busy
<1>5. CASE host.st # "ready"
  <2> USE DEF FpgaClk, TypeOK
  <2>1. Busy
    BY <1>5 DEF Busy
  <2>2. ~fdd'.rd /\ fdd'.drv = fdd.drv /\ fdd'.sec = fdd.sec
    BY <2>1 DEF FddClk, Fdd, Quiet
  <2>3. CASE host.st = "busy"
    <3>1. ~Done
      BY <2>3 DEF Done
    <3>2. owner' = owner
      BY <3>1, <2>1 DEF ArbClk, Running
    <3>3. host'.st # "ready" /\ host'.wr = host.wr /\ host'.sec = host.sec
      BY <2>3 DEF HostClk, Host
    <3>4. /\ ~ide'.rd /\ ~ide'.wr
          /\ owner => /\ ide'.sec = ide.sec /\ ide'.st # "idle"
                      /\ ide'.st \in {"wrReq", "wrWait"} <=> ide.st \in {"wrReq", "wrWait"}
          /\ ~owner => ide'.st \notin {"rdWait", "wrWait"}
      BY <3>1, <2>1 DEF IdeClk, IdeReq, Ide, IdeLines, Granted, Waits, Running, HddReq, Quiet
    <3>5. host'.ends = {Core'}
      <4>1. card.state = "CORE_IO" /\ (card.rint \/ host.wr)
        BY <2>1, <2>3 DEF HeldInv, Polled, Latched, Direction, Idle, SectorInv, SpiHeld, AppTalks
      <4>2. OtherEnd = Core
        BY <4>1 DEF OtherEnd
      <4>3. host'.ends = host.ends \cup {Core} /\ host.ends \subseteq {Core}
        BY <2>3, <4>2 DEF HostClk, Host, HeldInv, SameEnd
      <4> QED BY <3>2, <4>3 DEF Core
    <3>6. Running'
      BY <2>1, <2>2, <3>2, <3>3, <3>4, <3>5 DEF Running, HddReq, Asked
    <3>7. NoIrq'
      BY <1>1, <1>2, <2>2, <3>4 DEF NoIrq, Start, RAny, WAny
    <3> QED BY <1>3, <2>2, <3>2, <3>3, <3>4, <3>6, <3>7
            DEF IdeLines, Granted, Waits, Ordered, Busy
  <2>4. CASE host.st = "done"
    <3>1. Done /\ ~HddReq
      BY <2>1, <2>4 DEF Done, Running
    <3>2. Idle'
      BY <2>4, PollClk
    <3>3. ~owner'
      BY <3>1 DEF ArbClk
    <3>4. ~ide'.rd /\ ~ide'.wr /\ ide'.st \notin {"rdWait", "wrWait"}
      BY <2>1, <3>1 DEF IdeClk, IdeReq, Ide, Waits, Running, HddReq, Other, Quiet
    <3> QED BY <1>3, <3>2, <3>3, <3>4
            DEF IdeLines, Granted, Waits, Ordered, Running, NoIrq, Idle, Busy
  <2> QED BY <1>5, <2>3, <2>4 DEF Host
<1> QED BY <1>4, <1>5

\* The last byte of the core's sector number orders what was asked for.
LEMMA AddrAsks ==
  ASSUME Quiet, TypeOK, HeldInv, SectorInv, Idle, task.pc = "addr", Byte("coreaddr")
  PROVE  IdeLines' /\ Granted' /\ Waits' /\ Woken' /\ Ordered' /\ Running' /\ NoIrq'
<1> USE DEF SectorInv
<1>1. FpgaClk("coreaddr") /\ ~card.iack /\ ~card.dinb /\ host.st = "ready"
      /\ ~card.rint /\ ~card.wint
  BY DEF Byte, Settled, Idle
<1>2. Presented /\ ~card.irq /\ card.startD /\ task.drv = Asked[1] /\ task.sec = Asked[2]
  BY <1>1 DEF Serving, Awake, HasRead
<1>3. Start
  BY <1>2, PresentedShows
<1>4. /\ IdeLines' /\ (owner' => ~fdd'.rd /\ ide'.st # "idle" /\ HddReq')
      /\ ide'.st \notin {"rdWait", "wrWait"}
      /\ Presented' /\ Asked' = Asked /\ RAny' = RAny /\ WAny' = WAny
  BY <1>1, <1>2, AskClk
<1>5. host'.st = "ready"
  BY <1>1, AddrClk DEF Idle
<1>6. /\ ~card'.irq /\ card'.startD /\ ~card'.iack
      /\ card'.rint = RAny /\ card'.wint = WAny /\ card'.sec = <<task.drv, task.sec>>
  BY <1>1, <1>2, <1>3 DEF FpgaClk, CardClk, Start, TypeOK, RAny, WAny, Ide, Fdd
<1>7. <<task.drv, task.sec>> = Asked
  BY <1>2 DEF Asked
<1> QED BY <1>4, <1>5, <1>6, <1>7 DEF Granted, Waits, Woken, Ordered, Running, NoIrq, Busy

\* Every step keeps SectorInv, while the menu is closed and no request is
\* taken back.
LEMMA SectorStep ==
  ASSUME Quiet, TypeOK, HeldInv, SectorInv, [Next]_vars
  PROVE  SectorInv'
<1> USE DEF SectorInv
<1>1. ASSUME UNCHANGED <<Fpga, app>>, Serving', HasRead'
      PROVE  SectorInv'
  BY <1>1 DEF Fpga, IdeLines, Granted, Waits, Woken, Ordered, Running, NoIrq,
       Presented, Yielding, Asked, Start, RAny, WAny, HddReq, Busy, Done, Idle, Core
<1>2. ASSUME NEW b, Byte(b), b \notin {"wrdata", "coreaddr", "mcuaddr"}, UNCHANGED app,
             task.pc # "poll"
      PROVE  /\ IdeLines' /\ Granted' /\ Waits' /\ Woken' /\ Ordered' /\ Running' /\ NoIrq'
             /\ Presented => Presented' /\ Asked' = Asked
             /\ Yielding => Presented'
             /\ Presented /\ ~card.irq /\ card.startD => ~card'.irq /\ card'.startD
  <2>1. Idle /\ FpgaClk(b)
    BY <1>2 DEF HeldInv, Polled, Byte
  <2> QED BY <1>2, <2>1, IdleAsks
<1>3. CASE UNCHANGED vars
  BY <1>1, <1>3 DEF vars, Fpga, Serving, HasRead, Awake, Presented, Asked, HddReq
<1>4. CASE Tick
  <2>1. FpgaClk("none") /\ UNCHANGED <<task, app>>
    BY <1>4 DEF Tick
  <2>2. CASE Idle
    BY <2>1, <2>2, IdleAsks DEF Serving, HasRead, Awake
  <2>3. CASE ~Idle
    <3>1. task.pc = "poll"
      BY <2>3 DEF HeldInv, Polled
    <3> QED BY <2>1, <2>3, <3>1, RunAsks DEF Serving, HasRead, Awake
  <2> QED BY <2>2, <2>3
<1>5. CASE TaskNext
  <2> USE DEF TypeOK, Task, TaskTo, Serving, HasRead, Awake
  <2>1. CASE TaskAck
    <3>1. Byte("ack") /\ UNCHANGED app /\ task.pc = "sleep" /\ ~card.iack
          /\ task'.pc = "pend" /\ task'.pend = card.irq
      BY <2>1 DEF TaskAck, Byte, Settled
    <3>2. task'.pend => Presented'
      BY <1>2, <3>1 DEF Woken
    <3>3. card'.iack
      BY <3>1 DEF Byte, FpgaClk, CardClk
    <3> QED BY <1>2, <3>1, <3>2, <3>3
  <2>2. CASE TaskPend
    BY <1>1, <2>2 DEF TaskPend, Fpga, Presented, HddReq, Asked
  <2>3. CASE TaskStat
    <3>1. Byte("stat") /\ UNCHANGED app /\ task.pc = "stat" /\ task'.pc = "mask" /\ ~card.iack
      BY <2>3 DEF TaskStat, Byte, Settled
    <3> QED BY <1>2, <3>1
  <2>4. CASE TaskMask
    <3>1. Byte("mask") /\ UNCHANGED app /\ task.pc = "mask" /\ task'.pc = "sector"
          /\ task'.drv = Mask /\ ~card.iack
      BY <2>4 DEF TaskMask, Byte, Settled
    <3>2. Mask = Asked[1]
      BY <3>1, PresentedShows DEF Mask, Asked, Start
    <3> QED BY <1>2, <3>1, <3>2
  <2>5. CASE TaskSector
    <3>1. Byte("sector") /\ UNCHANGED app /\ task.pc = "sector" /\ task'.pc = "got"
          /\ task'.drv = task.drv /\ task'.sec = ArbSector /\ ~card.iack
      BY <2>5 DEF TaskSector, Byte, Settled
    <3>2. ArbSector = Asked[2]
      BY DEF ArbSector, Asked
    <3> QED BY <1>2, <3>1, <3>2
  <2>6. CASE TaskGot
    BY <1>1, <2>6 DEF TaskGot, Fpga, Presented, HddReq, Asked
  <2>7. CASE TaskLock
    BY <1>1, <2>7 DEF TaskLock, Fpga, Presented, HddReq, Asked
  <2>8. CASE TaskCore
    <3>1. Byte("core") /\ UNCHANGED app /\ task.pc = "core" /\ task'.pc = "addr"
          /\ task'.drv = task.drv /\ task'.sec = task.sec /\ ~card.iack
      BY <2>8 DEF TaskCore, Byte, Settled
    <3> QED BY <1>2, <3>1
  <2>9. CASE TaskAddr
    <3>1. Byte("coreaddr") /\ UNCHANGED app /\ task.pc = "addr" /\ task'.pc = "poll"
      BY <2>9 DEF TaskAddr
    <3>2. Idle
      BY <3>1 DEF HeldInv, Polled
    <3> QED BY <3>1, <3>2, AddrAsks
  <2>10. CASE TaskPoll
    <3>1. FpgaClk("corepoll") /\ Settled /\ UNCHANGED app /\ task.pc = "poll"
          /\ task'.pc \in {"poll", "unlock"}
      BY <2>10 DEF TaskPoll, Byte
    <3>2. IdeLines' /\ Granted' /\ Waits' /\ Woken' /\ Ordered' /\ Running' /\ NoIrq'
      BY <3>1, IdleAsks, RunAsks
    <3> QED BY <3>1, <3>2
  <2>11. CASE TaskUnlock
    BY <1>1, <2>11 DEF TaskUnlock, Fpga, Presented, HddReq, Asked
  <2> QED BY <1>5, <2>1, <2>2, <2>3, <2>4, <2>5, <2>6, <2>7, <2>8, <2>9, <2>10, <2>11
          DEF TaskNext
<1>6. ~AppNext
  BY DEF AppNext, AppBegin, AppChk, AppBusy, AppRead, AppReadAddr, AppReadPoll, AppReadData,
       AppWrite, AppWriteAddr, AppWriteData, AppWritePoll, AppMore, Quiet
<1> QED BY <1>3, <1>4, <1>5, <1>6 DEF Next

LEMMA SectorAlways ==
  ASSUME Quiet
  PROVE  Spec => []SectorInv
<1>1. Init => SectorInv
  <2> SUFFICES ASSUME Init PROVE SectorInv
    OBVIOUS
  <2>1. /\ ide.st = "idle" /\ ~ide.rd /\ ~ide.wr /\ ~owner /\ ~card.irq /\ Idle /\ ~Busy
        /\ task.pc = "sleep" /\ app.pc = "idle"
    BY DEF Init, Idle, Busy
  <2> QED BY <2>1 DEF SectorInv, IdeLines, Granted, Waits, Woken, Serving, HasRead, Ordered,
                      Running, NoIrq, Awake
<1>2. TypeOK /\ HeldInv /\ SectorInv /\ [Next]_vars => SectorInv'
  BY SectorStep
<1>3. "write" \notin AppOps
  BY DEF Quiet
<1> QED BY <1>1, <1>2, <1>3, HeldAlways, PTL DEF Spec

\* What a transfer that is over has moved, and to whom.
LEMMA WhatIsDone ==
  ASSUME SectorInv, Done
  PROVE  /\ host.wr = (owner /\ ide.st \in {"wrReq", "wrWait"})
         /\ owner => host.sec = <<Hdd, ide.sec>> /\ host.ends = {"hdd"}
         /\ ~owner => host.sec = <<fdd.drv, fdd.sec>> /\ host.ends = {"fdd"}
         /\ ide.st \in {"rdWait", "wrWait"} => owner
BY DEF SectorInv, Running, Waits, Done, Busy, Asked, Core

\* While the menu is closed and a request stands until it is answered,
\* what ide.v takes for its own is the cartridge's sector, moved the way it
\* asked, whatever the floppies ask for meanwhile.
THEOREM IdeGetsItsOwn ==
  ASSUME AppOps = {}, Upsets \subseteq {"hid"}
  PROVE  Spec => []IdeMovesItsSector
<1>1. SectorInv => IdeMovesItsSector
  BY WhatIsDone DEF IdeMovesItsSector
<1>2. Quiet
  BY DEF Quiet
<1> QED BY <1>1, <1>2, SectorAlways, PTL

\* And what comes into the floppy's buffer is the floppy's sector.
THEOREM FloppyGetsItsOwn ==
  ASSUME AppOps = {}, Upsets \subseteq {"hid"}
  PROVE  Spec => []FloppyGetsItsSector
<1>1. SectorInv => FloppyGetsItsSector
  <2> SUFFICES ASSUME SectorInv, Done, "fdd" \in host.ends
               PROVE  ~host.wr /\ host.sec = <<fdd.drv, fdd.sec>>
    BY DEF FloppyGetsItsSector
  <2>1. ~owner
    BY WhatIsDone
  <2> QED BY <2>1, WhatIsDone
<1>2. Quiet
  BY DEF Quiet
<1> QED BY <1>1, <1>2, SectorAlways, PTL

\* What the cartridge writes lands in its own image, as long as no floppy
\* takes a request back: the run sdpath_motor shows what a motor that stops
\* does to it.
THEOREM CartridgeWritesItsOwn ==
  ASSUME AppOps = {}, Upsets \subseteq {"hid"}
  PROVE  Spec => []WritesStayInTheirImage
<1>1. SectorInv => WritesStayInTheirImage
  BY WhatIsDone DEF WritesStayInTheirImage
<1>2. Quiet
  BY DEF Quiet
<1> QED BY <1>1, <1>2, SectorAlways, PTL
=============================================================================
