# UKNC Nano in TLA+

UKNC Nano puts a two-processor PDP-11-compatible machine of 1987, the MS0511
(UKNC), on a Tang Nano 20K FPGA, with a BL616 microcontroller (the MCU) beside
it for USB, the SD card's file system and the menu.  These modules model the
part of it where most concurrency meets.  Most are about the one SD card that
two emulated disk controllers, the MCU's event task and the MCU's menu all
move sectors over: from the disk images that the menu mounts and makes, by the
registers a program on the PPU reads, down to the command and data lines of
the card.  The others follow a USB device from its attachment, and a key from
its report, to the register where the program finds it.

The repository's README says that a shared firmware in another repository is
built by `make fw` today and that the C files under `mnano/` are kept as
historical references.  They are the ones modelled here, since they are the
ones at hand, together with the Verilog under `tang/src`, which is current.

Contents: [inventory](#the-system) - [modules](#the-modules) -
[runs](#the-runs) - [divergences](#where-code-and-words-differ) -
[fairness](#fairness) - [proofs](#the-proofs) - [limits](#what-is-not-shown) -
[plan](#plan).

## The system

### Components

| Component | Source | State it keeps | Operations | Correct when |
|---|---|---|---|---|
| SD arbiter | `tang/src/ide/sd_arbiter.v` | `owner`, the grant | grant to the IDE when nobody is up, take back on done | one requester is visible at a time; the grant comes back |
| SD card interface | `tang/src/mister/sd_card.v` | interrupt and acknowledge, `rstart_int`, `wstart_int`, the state that steers the buffers, the card sector, the byte returned | one per command byte of the MCU; start, done | a transfer keeps its other end; a request is told to the MCU |
| MCU event task | `mnano/spi.c`, `mnano/sysctrl.c`, `mnano/sdc.c` `sdc_handle_event` | where it is, the mask and sector it read | acknowledge, read mask and sector, take the lock, order, poll | what is ordered is what was asked for |
| MCU file system | `mnano/sdc.c` `sdc_read_sector`, `sdc_write_sector` | where it is | status poll, read, write | it gets the sector it named |
| SD host | `tang/src/mister/sd_rw.v`, `sdcmd_ctrl.v` | command FSM, data FSM, card type and CMD8 tries, the command engine | identification, CMD17, CMD24, retries, give up | every order ends in one done that means what it says |
| IDE cartridge | `tang/src/ide/ide.v` | task file, two banks, transfer engine, read ahead | READ, WRITE, IDENTIFY, SET CONFIG, data register, reset | the driver's words are the image's |
| Floppy | `tang/src/fdd/fdd4.v`, `vp1-128fdd.v` | motor, side, track, sector, word under the head, request, buffer; ready flag, sync search | turn, fetch, step, find sync, read and write a word | a sector accepted is the sector asked for |
| Keyboard path | `mnano/usb_host.c` `kbd_parse`, `kbd_tx_uknc`, `hid.v`, `xm2-01.v` | last report, rollover tables, byte, queue of eight, register | report, press, release, OSD, byte, read, INIT | no key stays down, every press is heard |
| Disk images | `mnano/sdc.c` `sdc_image_open`, `menu.c`, `sdc_handle_event` | open files and their link tables, what the core is told | mount, eject, make, order | a drive has the table of the image it shows |
| RT-11 volume builder | `mnano/rt11sav.c` | directory segments, blocks | pick a name, put a file, rewrite `STARTS.COM` | a volume that boots the program and has lost nothing |
| HID lifecycle | `mnano/usb_host.c` | device table, thread handles, stop flags, joystick slots | attach, detach, client thread | no thread on a freed object, no device without one |
| Interrupt chain, timer, channels | `xm2-01.v`, `vp1_120.v`, `vp65.v` | requests, enables, who answers the fetch | request, fetch, pass on, acknowledge | one vector per fetch, none lost |
| HID report parser | `mnano/hidparser.c` | the report's description | parse | fields where the descriptor puts them |
| Bluetooth keyboard | `mnano/bt_ble.c` | connection, discovery | GATT callbacks | reports reach the same path |
| MCU link | `mcu_spi.v`, `sysctrl.v` | byte strobes, interrupt sources, settings | one per byte | no source is lost |
| Core loader | `coreload.v` | transmit FIFO of 2 KB | push, flush, send | bytes in order, none lost |
| Flash writer | `flashwr.v` | page buffer, engine | fill, go, poll | a page is what was filled |
| Mouse and clock | `kakave.v` | calendar, deltas | tick, load, set | dates in range, sets not lost |
| Menu, OSD | `menu.c`, `osd_u8g2.c`, `osd_u8g2.v`, `main.c` | pages, settings | keys | - |
| Sound | `aberrant.v`, `ay/ym2149.sv`, `covox.v`, `mixer.v`, `audio.v` | sample registers | - | - |
| Processors and bus | `wm2wb/*`, `cpu.v`, `wmrst.v` | the 1801VM2 | - | - |
| Video, memory, HDMI, serial port | `ppu.v`, `sdram2.v`, `hdmi/*`, `uart/*` | - | - | - |
| Host tools, test programs, `mnano/u8g2` | `tools/*`, `soft/*` | - | - | - |

The first eleven rows are modelled, some in part; `PROJECT.json` has the
status and the reason of every row.

### How they interact

```
  program on the PPU
    |  registers 177130/177132        |  task file, data register
  vp1-128fdd.v + fdd4.v             ide.v
    |  read_sd, drive, sector         |  sd_rstart / sd_wstart, sector
    +------------ sd_arbiter.v -------+
                       |  one request, one sector, the buffers' bytes
                  sd_card.v  <--- SPI bytes ---  spi_task   (sdc_handle_event)
                       |  rstart, sector         menu thread (FatFs, sdc_*_sector)
                    sd_rw.v + sdcmd_ctrl.v
                       |  CMD and DAT lines
                     SD card
```

* A request line goes up, the arbiter shows it to `sd_card.v`, whose rising
  edge interrupts the MCU.  `spi_task` acknowledges, reads the request mask
  and the sector inside the image over SPI, drops the SPI mutex, takes
  `sdc_sem`, translates the sector through the image's cluster table, and
  orders the transfer.  The order does not say which request it is for: the
  hardware pairs it with whatever request is up when the last byte of the
  sector number arrives.
* While the transfer runs, the order's thread polls on the SPI link.
  `sd_card.v` steers the bytes by a state that any later SPI command changes.
* One busy and one done line serve all requesters.
* The floppy does not wait: its disk turns, and a request not served in the
  time of a gap is late.
* The menu thread opens, closes and makes the files that the event task walks.
  `sdc_lock` is between them, but what the core is told of an image is not
  under it, nor is the drive that the task has read.

```
  USB stack's hub thread            program on the PPU
    |  usbh_hid_run / _stop           |  R177702
  client threads  -- kbd_parse, -->  hid.v -- byte --> xm2-01.v
    one per device   kbd_tx_uknc       (one register)     (queue of 8)
```

* The hub thread gives a device's class object to a client thread and frees
  it as soon as `usbh_hid_stop` returns, which waits for the thread 1.2 s and
  no longer.
* The client threads share the rollover tables without a lock.  The byte in
  `hid.v` has no strobe: the machine takes a change of it.

### What is hard

Everything synchronous on the FPGA happens at once, everything on the MCU
between any two clocks, in two threads with two locks (`sdc_sem` around a
file system call, the SPI mutex around one SPI transaction), and requests may
be taken back: a motor stops, a head moves, INIT comes.  In the SD host, two
state machines and the card share two lines that lose and spoil things.  In
`ide.v`, three parts of one `always` block assign the same registers.  In the
floppy, the sector number of a pending request follows the turning disk.  A
link table outlives the file it was made of.  A USB device goes while its
thread waits.  A key goes up while the menu hides the machine, or its byte
finds the queue full.  The list, line by line, is under `hazards` in
`PROJECT.json`, each with the properties that watch it or the reason that none
does yet.

## The modules

| Module | Models | Composition |
|---|---|---|
| `SdPath` | arbiter, `sd_card.v`, both MCU threads, the request handshakes of `fdd4.v` and `ide.v` | abstracts the SD host to ready / busy / done |
| `SdHostContract` | what `sd_rw.v` promises `sd_card.v` | the abstract specification |
| `SdHost` | both FSMs of `sd_rw.v`, `sdcmd_ctrl.v`, an external card | implements `SdHostContract` |
| `IdeDrive` | `ide.v` between a driver and the SD path | abstracts the path to ready / busy / done, word by word |
| `FloppyDisk` | `fdd4.v` and `vp1-128fdd.v` between a driver and the path | abstracts the path to named / busy / other |
| `Keyboard` | `kbd_parse`, `kbd_tx_uknc`, the byte of `hid.v`, the queue of `xm2-01.v` | from the report to the program |
| `HidLifecycle` | `usbh_hid_run`, `usbh_hid_stop`, the client thread, `usbh_update` | over an external USB stack |
| `Rt11Format` | a volume: areas, names, blocks | operators, for the next two |
| `Rt11Volume` | `rt11_build` | one volume being made |
| `RunSav` | mounting, ejecting and `menu_run_sav` against `sdc_handle_event` | composes `Rt11Volume` (`V == INSTANCE Rt11Volume`); abstracts the path to asked / ordered / served |
| `SdPathProofs`, `SdHostProofs`, `IdeDriveProofs`, `FloppyDiskProofs`, `KeyboardProofs`, `HidLifecycleProofs`, `Rt11VolumeProofs` | theorems | extend the module they are about |
| `RunSavProofs` | theorems | extends `RunSav`; takes what holds of a build from `VP == INSTANCE Rt11VolumeProofs` |
| `MCSdPath`, `MCSdHost`, `MCIdeDrive`, `MCFloppyDisk`, `MCKeyboard`, `MCHidLifecycle`, `MCRt11Volume`, `MCRunSav` | values for TLC | extend the module they instantiate |

The disk modules are layers over one interface, the request / busy / done
handshake.  `SdHost` is shown to implement the contract; the ready / busy /
done cycle of `HostClk` in `SdPath` is the same promise seen from above, as
long as the conditions of `sdhost_contract` hold.

### SdPath

`FpgaClk(b)` is one clock edge of every FPGA register, `b` the byte that the
SPI link strobes in on that edge (`"none"` for most).  `ArbClk`, `FddClk`,
`IdeClk`, `HostClk`, `CardClk(b)` and `DoutClk(b)` are its conjuncts, one per
module of the source, each reading the old values.  A byte is named for its
command and place: `"core"` is the command byte of `SPI_SDC_CORE_RW`,
`"coreaddr"` the last byte of its sector number, `"corepoll"` a byte of the
polling loop; the three other bytes of a sector number change nothing that a
property could tell.  The polled byte is one bit, `dout`, since the MCU looks
for zero only.  An MCU action that sends a byte is `FpgaClk` of it together
with the thread's move; one that does not leaves the FPGA alone.

A byte takes at least ten clocks on the link, so what one byte latches in
`sd_card.v` has settled when the next comes: `Settled` is a guard on `Byte`.
Nothing else is assumed about speed.

`host.ends` collects, over a transfer, who was at its other end on each clock.
It is the history that `OneEnd` needs and is not a register of the code.

### SdHost

`stat` and `dat` are `sdcmd_stat` and `sddat_stat`.  `After` and `Instead`
are the transition table of the command FSM: where a good response leads and
where a bad one does.  `ctrl` is the command engine, with a flag that says
whether the card has dealt with the command.  `SdClk` is a rising edge of
sdclk, on which the data FSM and the card move together; the command FSM
answers what the data FSM has reached before the next (`Answered`: the
divider makes the edges at least two clocks apart).  A block is two halves,
enough to tell a whole block from one joined in the middle.  Bit values that
look like a start bit are chosen freely.  The card is external: it numbers its
sectors (SDHC), obeys a command that its state allows and ignores any other.

`sdcmd_ctrl.v` has no CRC for responses: it compares the start bits and the
command's number, and passes the argument on.  So `ctrl` keeps both, the
verdict (`ans`) and what the argument says where `sd_rw.v` looks at it
(`arg`): the echo of CMD8, power-up and CCS in the OCR of ACMD41, the address
in CMD3's response.  A fault may spoil the first (`"bent"`) or, unseen, the
second (`"echo"`, `"ocr"`, `"rca"`).  `Kind` believes the OCR, as `card_type`
does; a card it takes for a byte-addressed one gets `sector << 9`, which is
`Elsewhere`.

### IdeDrive

Every register keeps its value unless one of three parts of the `always`
block assigns it, and a later part wins.  So each part is an operator that
returns the assignments it makes, as a record with only those fields, and the
edge is

    hd' = Edge(Engine(free), Bus(bus), HandOver, AfterReset)

where each register takes its value from the first of these that assigns it,
else keeps it: the arguments stand in the reverse order of the source, since
there the last assignment wins.

`free` says whether another requester is up.  The driver is external and
works as the WD driver does: poll BUSY, program the task file, poll, move a
sector of words, poll.  A word of the image knows its sector, its place and
which of two writes it comes from, so that a wrong, stale or torn word is
seen.

### FloppyDisk

The disk turns by word cells; a sector is lead, sync, track, number, header
CRC, gap, sync, data, CRC.  `Turn` is one cell, `Req` the cell where `fdd4.v`
raises its request.  `drv` is a driver that seeks, looks for the header,
looks for the data field and takes its words.  `fd.taken` is a history flag:
whether another had the path when the last header passed.

The driver takes every word in its cell and the path serves a request within
`Latency` cells: that is what `OnTime` says and what the gap is for.

### Keyboard

A key is its scan code, `{column, row}`; what is sent is the code for a press
and 128 + row when a row is up.  `Report` is `kbd_parse`: it turns a report
into changes, slot by slot, so a key that moves to another slot goes up and
comes down.  The changes still to be handled are a set, each with the place
where `kbd_parse` comes to it, and the one with the least place is next.  Each
change is handled by the thread in the steps between which it sends a byte (and
may sleep on the SPI mutex): `Press`, `SendRoll`, `Count`, `SendPress`,
`Release`, `SendUp`.  `Latched` is what `hid.v` keeps of a byte, and `Arrives`
what that does in the core, change detection and full queue included.

`mach` is what the firmware has understood, row by row.  `lost`, `off`,
`eaten` and `moved` are history: what was dropped, the rows of dropped bytes
until their next release, keys whose press the OSD took, keys that changed
their slot.  They say which of the differences between the hand and the
machine are the code's own choices.

### HidLifecycle

Each thread step is a piece of `usbh_hid_client_thread` between two waits;
`Attach` and `Detach` are the stack's calls, `Run` and `Stopped` what follows
their own waits.  Time is counted: a wait has units `left`, `Tick` passes one
for everybody and is enabled only when nobody could go on without it: steps
that do not wait take no time.  The URB's completion, its timeout and its
error may come at any moment of the wait.  What a report says is left out, and
with it the buffer and the semaphore: the thread asks for them only after a
URB that has brought a report, and each report takes the place of the last.
`Update` is the mouse flag's part of `usbh_update`: `mice_last` is the MCU's
count, -1 until it has told the core once, and `system_mouse` the core's flag,
which may be either when the MCU starts.

### Rt11Format, Rt11Volume, RunSav

A volume is a sequence of segments, each a sequence of entries whose places
are the sums of the lengths before them.  A step of `Rt11Volume` is one
segment of a directory walk, one block moved or one entry written; before
each, an access may fail and the build gives up.  A block's contents say
which file and which part of it they are, so a lost or torn file is seen.

In `RunSav` the menu thread and the event task meet.  A link table is known
by the file it was made of and its state: `live`, `old` (the file has been
made anew since), `moved` (it was made larger and the open file still points
to where it was), or null.  Mounting is two actions, `Mount`, which takes the
lock and frees the old table, and `Link`, which makes the new one and gives
the lock back; telling the core is a third, `Tell`, without the lock.  Making
`RT11SAV.DSK` is `Create`, the copy, `Build` (the steps of `Rt11Volume`) and
`Built`, all under the lock.  `MakeRefused` is every way out before the copy;
a `FA_CREATE_ALWAYS` that fails may have truncated the file already, so it may
leave old tables behind (`Outdated`).  `NoMemory` comes back before the lock
is taken.

`menu_run_sav` mounts a disk that was made and then resets the core.  The
volume is kept until then (`ForRunSav` tells such a mount from one that the
user asked for, and `Returns` goes on with it), so that `Boot` is the reset
with the disk in the drive and `BootsMade` is about what the machine then
finds.  The reset comes whether or not the mount worked, as in the code.
After a build that gave up there is no mount and no reset, but its file stays
on the card: the user may pick it (`Open`), and no property says what is on it.

## The runs

| Run | States | What it shows |
|---|---|---|
| `sdpath_quiet` | 11 thousand | IDE and floppy, served by `spi_task`, menu idle, no request taken back: each transfer moves the requester's own sector in its own image between card and own buffer (`OneEnd`, `IdeMovesItsSector`, `FloppyGetsItsSector`); every request is served and the grant comes back (`RequestsServed`, `OwnerReturns`) |
| `sdpath_all` | 356 thousand | everything the menu and the cores do, with every upset: types, and what the file system reads is the sector it named (`MenuReadsItsSector`) |
| `sdhost_contract` | 7 thousand | `sd_rw.v` implements `SdHostContract`, safety and liveness, with a card slow to power up, commands lost and echoes of CMD8 changed (`KeepsContract`) |
| `sdhost_faults` | 180 thousand | every fault but an unseen change of the OCR, up to seven times: types, no contention (`NoContention`), the right kind of card (`AddressingRight`) |
| `idedrive_reads` | 909 thousand | reads across heads and cylinders under two geometries, resets at any edge (`ReadDelivers`) |
| `idedrive_writes` | 257 thousand | READ, WRITE, IDENTIFY, both address modes, protection changing between requests: what is read and what is on the card is as ordered, and a protected write is refused or lands whole (`TransfersAsOrdered`), nothing is left on its way (`QuietWhenReady`), commands end (`CommandEnds`) |
| `idedrive_upset` | 106 thousand | a read is abandoned: the next one-sector command is right all the same (`OneSectorRight`) |
| `floppy_all` | 247 thousand | every sector of two sides and tracks, writes to one, the path taken by others: `FreshSector`, `WholeSector`, `ReadEnds` |
| `keyboard_one` | 963 thousand | every sequence of reports of one keyboard, the OSD coming and going, INIT, a full queue: the stream is legal until a byte is dropped (`LegalStream`), no row stays down without a key (`NothingStuck`), a held key holds its row (`HeldRowIsDown`), and when all keys are up the firmware hears of every row (`AllUpHeard`), a dropped byte harming its own row only |
| `hid_life` | 159 thousand | devices come and go at any moment of their threads' waits: no thread on a freed object (`NoUseAfterFree`), an attached device finds its minor at rest (`FindsNone`), joystick slots are distinct and given back (`SlotsHeld`), it is listened to again (`Served`), and the core comes to know of the mouse, whatever it believed at the start (`MouseTold`) |
| `runsav_all` | 282 thousand | images mounted, ejected and made, every access of the making failing at will (an image that is picked can be opened), the task serving requests: `TableTrue`, `WalksTable`; the files of the base volume are kept (`OthersKept`, `AreasFill`), and what Run SAV boots is mounted in drive 0 and boots the program (`BootsMade`); requests are answered and the menu gives the card back (`AskedServed`, `RunSavEnds`) |
| `sdpath_motor` | - | a [divergence](#where-code-and-words-differ) |

### Bounds

* `SdPath`: one floppy drive.  Drives differ only in the mask bit, which the
  mask's value is; the motor, seek and other requesters give the
  interleavings.  Two sectors where a wrong one must be told, one where
  addresses do not matter (`sdpath_all`).
* `SdHost`: two sectors.  `MaxFaults` is 7 in `sdhost_faults`, the most for
  which `AddressingRight` can hold (the eighth lost CMD8 is the code's own
  limit; an OCR changed unseen breaks it at once, `SdHost_ocr.cfg`), and 3 in `sdhost_contract`: a command lost, its retry lost, and
  another lost elsewhere.
* `IdeDrive`: two words in a sector (first, last), three sectors, counts up
  to 3 and geometries of 2 x 1 and 1 x 2: a command of three sectors crosses
  a head and a cylinder, and the read ahead is two sectors from the one being
  drained.  `idedrive_upset` makes do with one word and two sectors.
* `FloppyDisk`: two words, two sectors on each of two tracks of two sides,
  the lead shortened to 1 and the gap to 2 cells, with a latency as long as
  the gap, the worst that is in time.
* `Keyboard`: one keyboard, two modifiers (the Shifts, with one code) and a
  key of their matrix row that may be in either of two slots, a queue with room for one byte, and 2
  generations of a row.  Rollover, sharing and moving need two keys of a row;
  rows do not touch each other but through the byte and the queue.  A report
  that could bring the row's generation round is not taken (`Rollovers` is
  "few"), so a run has one rollover of the row.  The theorems also cover
  rollovers without end, as long as no key that is still down has the
  generation that comes next: in the code such a key is one held through 256
  rollovers of its row.
* `HidLifecycle`: two minors, objects and threads.  `Urb`, `Ctl` and `Parse`
  are one unit and `StopWait` two: what matters is that each wait is shorter
  than the stop's, as 1000 and 500 ms are shorter than 1200.
* `RunSav`: two drives, two images and one that is not there, two names for
  the program, one of 1 or 2 blocks, two lines in a block, segments with room
  for four entries, and base volumes of two segments: the first filled in
  every way with areas of `Parts` (three blocks, or one, two and none), the
  second one of three, the name that is tried second only where the first
  is taken.  `Rt11_volume.cfg`
  takes the builder alone over every filling of both (143 thousand states,
  it passes).  `Fragmented` and `Unreadable` are empty and `Sharing` is FALSE:
  the cases where the code does not keep `TableTrue` and `WalksTable`, each
  with a configuration below.
* Deadlock is checked in every run: nothing in these systems may stop.
  `Rt11_volume.cfg` alone ends, when the volume is made.

## Where code and words differ

One run is a counterexample to something a comment says:

* **`sdpath_motor`** - `sdc.c:292` reads mask and sector, waits for the lock
  and orders.  If the floppy's motor stops meanwhile, the request is gone, the
  arbiter has given the path to the IDE, and the order, with the floppy's
  sector, executes the IDE's *write*.  `sd_arbiter.v:4-14` tells of the block
  that once landed in the wrong image and says that the arbiter prevents it.

More counterexamples, met while modelling, have their configurations here but
are not among the listed runs (`tlc -config X.cfg M`):

| Configuration | Module | What happens |
|---|---|---|
| `SdPath_menu_read.cfg` | `MCSdPath` | the IDE raises its request as the menu's read goes busy and takes the menu's busy and done for its own (`IdeMovesItsSector`) |
| `SdPath_menu_write.cfg` | `MCSdPath` | the first byte polled after a write's data was prepared before the card went busy, so the loop ends at once, the lock is given back, and the next order of the event task turns the running write's data path round (`OneEnd`) |
| `SdPath_lost_irq.cfg` | `MCSdPath` | the request's edge meets the acknowledgement of another source; its interrupt is lost, and nobody polls (`IdeServed`) |
| `SdHost_endless.cfg` | `MCSdHost` | an order never ends (`OrderEnds`), after any one of three faults: a block comes late, and the CMD17 that `ReadAgain` sends finds the data FSM, which is not reset, still timed out; CMD24 is lost, is not sent again, and its state has no other exit; the address in CMD3's response is changed unseen, and CMD7 is sent to nobody for ever |
| `SdHost_ocr.cfg` | `MCSdHost` | one bit of the OCR changes unseen: a card that numbers its sectors is taken for one that numbers its bytes (`AddressingRight`) |
| `SdHost_bent.cfg` | `MCSdHost` | a spoilt response to an obeyed CMD17: the retry joins the block in the middle (`ReadGetsItsSector`) |
| `SdHost_retry.cfg` | `MCSdHost` | `sd_rw.v:190` says "No retry on write!"; after `WERR` the FSM returns to READY without done, the order is still up, and CMD24 is sent again (`NoWriteRetry`) |
| `IdeDrive_wprot.cfg` | `MCIdeDrive` | `ide.v:75` says that with the protection on the card is untouched; protection set while a write request is up ends the command with ERROR, but the sector is written (`WriteLands`) |
| `IdeDrive_drop.cfg` | `MCIdeDrive` | a READ given on the very clock that ends an abandoned fetch (`OneSectorRead`) |
| `IdeDrive_reset.cfg` | `MCIdeDrive` | a fetch under way at a reset goes on filling the bank that the program's next WRITE fills (`FillsOther`) |
| `FloppyDisk_skipped.cfg` | `MCFloppyDisk` | `fdd4.v:218` says that after a skipped request "the software sees a read error"; it sees the previous sector's words with a good CRC (`RightSector`) |
| `Keyboard_moved.cfg` | `MCKeyboard` | a key moves to an earlier slot: its press is ignored, since it is held already, then its release is sent, and its row goes up under the finger (`MovedRowIsDown`) |
| `Keyboard_two.cfg` | `MCKeyboard` | two keyboards' threads in the shared tables: both find the row up and both press it, with no release between (`LegalStream`) |
| `Keyboard_wrap.cfg` | `MCKeyboard` | a row's generation comes round (256 rollovers): a key that was forgotten, and is still down, counts as the row's key again, though another code holds it (`HeldRowIsDown`) |
| `Hid_slow.cfg` | `MCHidLifecycle` | a report is handled longer than `usbh_hid_stop` waits: the thread goes on with a freed object (`NoUseAfterFree`) |
| `RunSav_shared.cfg` | `MCRunSav` | `RT11SAV.DSK` is in two drives and made anew: the other drive keeps the old file's table (`TableTrue`) |
| `RunSav_moved.cfg` | `MCRunSav` | a table of more than 16 entries is reallocated and the open file keeps the old pointer (`TableTrue`) |
| `RunSav_unread.cfg` | `MCRunSav` | an image cannot be opened; the drive has no table when the task orders a sector of the image that was there before (`WalksTable`) |
| `RunSav_old.cfg` | `MCRunSav` | a request read before the eject is served after `RT11SAV.DSK` has been made anew, from the old table (`WalksLive`) |

Two more need a value changed in one of these:

* `SdPath_quiet.cfg` with `Upsets = {"reset"}`: INIT takes the IDE's request
  back after the grant.  No done comes, and the grant is kept until one does,
  which a program that is reset over and over never gets to (`OwnerReturns`).
* `FloppyDisk_skipped.cfg` with `Written <- First` and `Others = FALSE`: a
  written sector is read back from the image, since writes go to the buffer
  only (`RightSector`).

## Fairness

`FairSpec` of each module assumes no more than this:

* `SdPath`: weak fairness of `Tick` (the clock runs), of `CardAnswers` (the
  card ends a transfer it has begun; `SdHost` is about when it does), and of
  `TaskNext` and `AppNext` (FreeRTOS runs a thread that can run).  Not of the
  requesters: a program may never ask, and a disk may turn without asking.
* `SdHost`: the FSM answers (`HostNext`), the card hears a command or fails
  to (`CardHears`), sdclk runs (`SdClk`), and the card gets on with a block or
  with programming (`CardMoves`).  Faults are bounded by `MaxFaults`, so none
  lasts for ever.
* `IdeDrive`: the path answers (`PathMoves`), the engine's registers move and
  the other requesters give way now and then (`EngineMoves`), and the driver
  goes on with a command it has begun.
* `FloppyDisk`: the disk turns, the path answers, the driver goes on with its
  search.
* `Keyboard`: weak fairness of each client thread (FreeRTOS) and of the end
  of INIT; strong fairness of `Read`, since the program comes back to its
  keyboard however often it gives INIT.  Not of reports, the OSD or INIT.
* `HidLifecycle`: weak fairness of the threads, the hub thread, the main loop's
  `usbh_update` and time.  Not of the devices.
* `RunSav`: weak fairness of the task's and the menu's steps (both threads are
  scheduled, a copy ends), strong fairness of those that take `sdc_lock`: a
  FreeRTOS mutex wakes its waiters in turn.  Not of the program's requests nor
  of the user.

The subscripts of `WF_` and `SF_` name only what each of these steps changes;
with `vars` they would say the same and take TLC longer.

Runs without liveness use `Spec`.

## The proofs

`tlapm` checks every theorem of the eight proof modules.  Those about the card
hold for any number of drives and sectors, any set of upsets and any set and,
where nothing else is said, number of faults.  A condition on a theorem is
there because the code does not keep the property without it, and names the
configuration that shows so.

| Property | Theorem | Condition |
|---|---|---|
| `SdPath!TypeOK` | `SdPathProofs!TypeCorrect` | - |
| `OneEnd`, `MenuReadsItsSector` | `TransfersHeld`, `MenuReads` | the file system writes nothing |
| `IdeMovesItsSector`, `FloppyGetsItsSector`, `WritesStayInTheirImage` | `IdeGetsItsOwn`, `FloppyGetsItsOwn`, `CartridgeWritesItsOwn` | menu idle, no request taken back |
| `SdHost!TypeOK`, `NoContention` | `SdHostProofs!TypeCorrect`, `DataLinesOwned` | - |
| `AddressingRight` | `AddressedAsMade` | at most 7 faults, none an unseen change of the OCR |
| `SdHostContract!Spec` | `KeepsItsPromise` | at most 7 faults: commands lost, power up slow, blocks late, echo or address misread |
| `IdeDrive!TypeOK`, `ReadDelivers`, `TransfersAsOrdered` | `IdeDriveProofs!TypeCorrect`, `ReadsRight`, `TransfersRight` | `Calm` |
| `QuietWhenReady` | `QuietBetweenCommands` | no INIT either |
| `OneSectorRight` | `OneSectorCommands` | `Leaves` |
| `FloppyDisk!TypeOK`, `WholeSector`, `FreshSector` | `FloppyDiskProofs!TypeCorrect`, `SectorIsWhole`, `SectorIsFresh` | - |
| `Keyboard!TypeOK` | `KeyboardProofs!TypeCorrect` | - |
| `NothingStuck`, `HeldRowIsDown`, `LegalStream` | `NoRowSticks`, `HeldKeysHold`, `OnlyLegalBytes` | one keyboard, no key held through 256 rollovers |
| `HidLifecycle!TypeOK`, `NoUseAfterFree`, `OneThread`, `FindsNone`, `SlotsHeld` | `HidLifecycleProofs!TypeCorrect`, `ObjectsOutliveThreads`, `OneThreadPerMinor`, `AttachFindsRest`, `JoysticksHaveSlots` | `Timely` |
| `TableTrue`, `WalksTable`, `BootsMade` | `RunSavProofs!ImagesTrue`, `TablesWalked`, `BootsProgram` | `Granted` |
| `RunSav!TypeOK`, `OthersKept`, `AreasFill` | `RunSavProofs!TypeCorrect`, `FilesKept`, `SegmentsFilled` | - |
| `TypeOK`, `OthersKept`, `BuiltRight`, `AreasFill` of `Rt11Volume` | `Rt11VolumeProofs!VolumeSafe` | `Given`, which `RunSavAssumption` gives |

### SdPathProofs

* **`TypeCorrect`**: `Spec => []TypeOK`.  `TypeOK` is not inductive alone:
  the slot that `spi_task` puts into an order must be that of a drive, and the
  mask it read may be empty.  `DrvNamed` says that past the empty-mask test
  (`sdc.c`, the scan of the mask) a drive has been named.
* **`TransfersHeld`**: `[]OneEnd`, if `"write"` is not among what the file
  system does.  `OneEnd` speaks only of the clock of done.  `HeldInv` tells
  why: the SPI mutex is held exactly inside a transaction (`SpiHeld`), a
  transfer that is not over is being polled for inside one (`Polled`), the
  loop ends only when it is over (`LoopEnds`), so nobody can send the byte that
  would turn the data path (`Direction`), the latches are those of the
  transfer (`Latched`), and its ends so far are the one it has now
  (`SameEnd`).  The condition is needed: `SdPath_menu_write.cfg` is a
  counterexample without it.
* **`MenuReads`**: `[]MenuReadsItsSector`, under the same condition.  `Named`
  follows a read through its polling loop: latched with the file system's
  sector, running into the MCU's buffer, over.
* **`IdeGetsItsOwn`, `FloppyGetsItsOwn`, `CartridgeWritesItsOwn`**: what a
  requester is told is done is its own sector of its own image, moved between
  the card and its own buffer, and no write lands in another image.
  `SectorInv` follows one request through everybody: the grant stands for a
  request or its transfer (`Granted`); an interrupt is pending only for a
  request that is there to be read (`Woken`); while `spi_task` serves it, it
  stands and interrupts no more (`Serving`), and what the task has read of it
  is still true (`HasRead`), so what `sd_card.v` latches (`Ordered`) and
  `sd_rw.v` runs (`Running`) is what was asked for.  The order names no
  requester, so each link of this chain needs the request to last and the
  path to have one user: the theorems ask for an idle menu and for no upset
  but the interrupts of other sources.  `SdPath_motor.cfg` and
  `SdPath_menu_read.cfg` show that either condition is needed.

### SdHostProofs

* **`TypeCorrect`**: needs that a command is on its way only in a state that
  has an entry in the transition table (`Sending`).
* **`DataLinesOwned`**: `[]NoContention`, with any faults in any number.
  That the card waits for a block when the host sends one goes back to the
  response to CMD24: `WriteHeard` (a good response means that the card
  waits), `CardWaits` (it goes on waiting until the block has been sent), and
  `WritesInWriting` (the data FSM is in a writing state only when the command
  FSM is).
* **`AddressedAsMade`**: `[]AddressingRight` if `MaxFaults <= 7` and no OCR is
  changed unseen.  `OcrTrue` says that a response to ACMD41 which says "ready"
  says "ccs", too.
  `TriesPaid` counts the tries of CMD8 against the faults that spent them,
  the one on its way included, so the counter never reaches its last value;
  `CardIdle` makes sure that only a fault leaves a command unanswered.
* **`KeepsItsPromise`**: `Spec => Contract!Spec`, the refinement, when commands
  are lost, the card is slow to power up, blocks come late, an echo or an
  address is misread, at most seven times together, but no response is seen to
  be spoilt and a block that is written is answered in time (any `Faults` among
  "lost", "lostwr", "echo", "rca", "slow" and "late").  The kind of the card
  must be right, or sectors would be moved from elsewhere.
  `MovesInv` says where host and card
  are in a block: the lines are idle between orders (`LineIdle`, `AtRest`), in
  a read the two halves that have come are the addressed sector's, in order
  (`Reads`), in a write the card stores the addressed sector (`Writes`), and
  the command FSM works on the order it accepted (`Ordered`); so when done
  comes, what was moved is what was ordered (`SpeaksTrue`).  Each step of the
  host or the card is then an accepting, a finishing or no step of the
  contract.  `SdHost_bent.cfg` shows why responses must not be spoilt.

### IdeDriveProofs

The first four need `Calm`: no read is abandoned (`IdeDrive_drop.cfg`), the
protection does not change under a request (`IdeDrive_wprot.cfg`), and where
INIT may come, only READ and SET CONFIG are given (`IdeDrive_reset.cfg`).
They hold for any geometries, either way to address, any number of words in
a sector and sectors in a command.

* **`TypeCorrect`**, **`ReadsRight`** (`ReadDelivers`: every word read is the
  word of the sector the command has come to) and **`TransfersRight`**
  (`TransfersAsOrdered`).
* **`QuietBetweenCommands`** (`QuietWhenReady`) excludes INIT, too: the fetch
  that an INIT leaves is still on its way when BUSY is clear.

`Good`, the inductive invariant, relates the engine to the path (`PathTrue`:
a line that is up or a transfer that is under way is for the sector the
engine names) and both to the driver (`DrvTrue`, `IdleTrue`).  Its heart is
`ReadTrue`: while a sector is drained from one bank, the read ahead is for the
sector after it and goes to the other; `Ahead` counts what is still to be
handed over and says that the task file names what is to be fetched next.
`WriteTrue` says how much of a sector is the driver's, bank by bank and on the
card; `IdentTrue` follows IDENTIFY, which ends as if it were a read;
`DiskTrue` keeps all other sectors; `Stray` is the transfer that an INIT
leaves, which the first request of the next READ waits for.

The parts of the `always` block read the same old values, so one edge may
be an engine step, a word of the path and a bus access at once.  The proof
takes it apart: `Good` is about values, each move has a lemma that keeps it,
and the moves are composed in the order of precedence, since the bus is used
only while the engine assigns none of the registers that the bus does.

* **`OneSectorCommands`** (`OneSectorRight`): a command for one sector is
  right though reads of any length were abandoned before it.  It needs
  `Leaves`: the driver only reads and writes, there is no INIT and no
  protection, and no access that starts something falls on the edge on which
  a fetch ends (`IdeDrive_drop.cfg` shows the command that does).

`Good` is not true then: the fetch that was left goes on under the next
command.  When it ends, it counts down and steps the count and the address
that the driver has just programmed, so a longer read may get the wrong sectors
(TLC finds one); one sector is read and written right.  The second invariant,
`One`, is in two layers.  `InStep` says for all commands what the engine may be doing at each place of the driver: the
bus is the driver's, and a fetch, if any, fills the other bank (`Free`); a
READ waits, at first perhaps for the end of a fetch it has made void
(`Awaits`, `restart`); a sector is stored, at first perhaps waiting for such
an end (`Storing`, `wrPending`).  `OneTrue` adds, for a count of one, that the
address is still the driver's when it is used: with a count of one or none
left the end of a fetch takes no step (`Steady`).  `Linked` ties the path's
transfer to the engine's request, whoever waits for it.  The lemmas that take
an edge apart ask only for `Tidy`, which both invariants give.

### FloppyDiskProofs

No condition but the named assumption on the sizes: the gap is as long as the
path's latency at least, and the cells before the request's are more.

* **`TypeCorrect`**, **`SectorIsWhole`** (`WholeSector`: what a driver
  accepts is one sector's words, in order, not a torn one) and
  **`SectorIsFresh`** (`FreshSector`: unless another had the path at its
  header, or the driver has written it, it is the sector asked for).

The argument is one of time and place.  A fetch is either as old as the cells
passed since this sector's header, or older than this sector (`InTime`), so it
is over before the data field begins; there nobody else touches the buffer,
which holds one sector whole (`Whole`, `Filling`) unless the driver itself
writes it (`Overwritten`), and the driver has taken as many words as the disk
has turned (`Got`).  `Fresh` adds which sector it is.

### KeyboardProofs

* **`TypeCorrect`**: for any keyboards and rollovers.
* **`NoRowSticks`** (`NothingStuck`), **`HeldKeysHold`** (`HeldRowIsDown`)
  and **`OnlyLegalBytes`** (`LegalStream`): for one keyboard, any keys, scan
  codes, slots, generations and depth of the queue, unless a key that is down
  has the generation that its row comes to (`Rollovers # "any"`).
  `Keyboard_two.cfg` and `Keyboard_wrap.cfg` are the counterexamples
  otherwise.

`IInv` (theorem `Agreement`) ties the thread's place to its tables (`rows`
counts the keys of the row that bear its generation), the keys held and the
changes still to come to the keys that are down, and the tables to the
machine: what the program has understood of a row, after the bytes that are
still in `hid.v`, in the register and in the queue, is what the MCU believes of
it, unless one of its bytes was dropped; a byte that repeats the one before is
no change to the core, and counts as dropped.

### HidLifecycleProofs

All five need `Timely`: the URB timeout, the control transfer and the
handling of a report are each shorter than the wait of `usbh_hid_stop`.  The
first two are numbers of the code; the third is what the code hopes for, and
`Hid_slow.cfg` shows what happens else.

* **`ObjectsOutliveThreads`**: `[]NoUseAfterFree`.
* **`OneThreadPerMinor`**: `[]OneThread`.
* **`AttachFindsRest`**: `[]FindsNone`; the wait for an old thread in
  `usbh_hid_run` is dead code.
* **`JoysticksHaveSlots`**: `[]SlotsHeld`; a slot belongs to one thread that
  has not gone, and is given back with it.
* **`TypeCorrect`**: `[]TypeOK`.

The argument of `IInv`: a thread that has not gone is the one its minor
names (`Named`) and works on its minor's object (`InUse`); that object is
alive while the minor has it (`Objects`); and once the stop flag is up, the
time a thread may still take is shorter than what the stop will still wait
(`InTime`), so the wait ends because the thread has gone and never because
time is over.  Every step of a thread is one of a few kinds of leaving
(`ThreadLeaves`), which keeps the proof from going through each of them.

### Rt11VolumeProofs

* **`VolumeSafe`**: `rt11_build` on its own keeps `TypeOK`, `OthersKept`,
  `BuiltRight` and `AreasFill`, for any base volumes that are volumes
  (`Proper`), any list of names without `STARTS.COM`, programs of any length,
  and any access that fails.

None of the four is inductive: they speak of the blocks of files, and where a
file begins is the sum of the lengths before it, which every split and every
new entry changes the terms of.  So the module starts with that sum.
`Length` is a fold, which TLA+ defines by a choice of a function on sets of
indices; `LengthStep` is what it does with one entry more, for any number of
them, by the least number for which it would not (`LeastOf`, from the
library's `WFMin`).  With it, `RemovedEnds` and `PutInEnds` say what `rm_cb`
and `alloc_cb` do to where areas end, and `RemoveFiles` and `PutFiles` what
they do to the files: one goes or comes, and every other one stays in its
place.  `Files`, a set of triples of name, first block and length, is what
the invariant is about; files lie apart (`FilesLieApart`) and each name is
there once (`FileAlone`), so a block that is written for one is no other's.

`VolumeInv` says, where a build has come to, that the segments lie as those
of the base volume do (`Shape`), what the walk so far has not found
(`Sought`), for whom space is sought (`Naming`), which files of the base are
whole, `STARTS.COM` only until it is removed (`OldKept`, `OldStarts`), which
blocks of the file that is put are there (`Filling`, `Program`), that what
has been read of `STARTS.COM` is what it said (`Reading`), and that the new
one is whole (`Finished`).

### RunSavProofs

The first three need `Granted`: every image fits a table of 16 entries, can be
opened, and `RT11SAV.DSK` stays in drive 0.  The others need nothing.

* **`ImagesTrue`**: `[]TableTrue`: a drive that holds an image for the core
  has that image's table, of the file as it is now.
* **`TablesWalked`**: `[]WalksTable`: the task never walks a freed table.
* **`BootsProgram`** (`BootsMade`): what Run SAV resets the core for is in
  drive 0, with the table of the file as it is now, and boots the program.
* **`FilesKept`** (`OthersKept`) and **`SegmentsFilled`** (`AreasFill`): the
  volume's promises, while the task, the floppies and the menu's other
  business go on.
* **`TypeCorrect`**: `[]TypeOK`.

`IInv` follows the lock and the menu: who holds the lock is where the lock is
held (`Locked`); a drive with a request or on the task's way was told of an
image (`Asked`); a drive without a table is the one being mounted, under the
lock (`Mounting`, `Tabled`); `RT11SAV.DSK` is made while drive 0 is ejected
(`Making`), and is in no other drive (`Placed`).  The volume's own steps
touch none of this.

From the end of a good build to the reset the menu mounts the disk that was
made, and nothing else (`Booting`): it is in drive 0 when the core is told,
and the user cannot open another before the reset.

In the other direction, only `Copied`, `Build`, `Built` and `Boot` touch the
volume: they begin a build, go on with it and put it aside, so `VolumeInv` holds in
every state (`VolumeHolds`).  `V`, which `RunSav` instantiates, and `VP`, which
has the lemmas, are two instances of one module; a lemma each (`SameLength` to
`AreasFillIs`) says that they mean the same.  `TypeOK` needs besides that the
menu's drive and file are a drive and a file where it mounts (`Mounted`).

The assumptions on the constants are the named `ASSUME`s of the modules, and
TLC evaluates them in every run.

## What is not shown

Only model-checked:

* all liveness: the prover does no fairness.  Of `KeepsContract` that is the
  liveness part; its safety part is `KeepsItsPromise`.

`IdeMovesItsSector` and `FloppyGetsItsSector` are checked, and proved, for an
idle menu and lasting requests only, because the code does not keep them
otherwise.  That every request is served (`RequestsServed`) is checked where no
other interrupt source meets it (`SdPath_lost_irq.cfg`), and that the grant
comes back (`OwnerReturns`) where no granted request goes away: such a request
keeps the grant until a done comes (`SdPath_quiet.cfg` with `"reset"`, above).

Nothing is claimed of a half-made `RT11SAV.DSK`: Run SAV goes no further with
it, but it stays in the directory, where the user may pick it.

Abstracted, on purpose:

* CRC, clock dividers, the timers' lengths.  A timeout is either a fault that
  may strike or, in the floppy, a number of cells.  Of a response's bits only
  those count that `sd_rw.v` looks at.  Noise that is taken for a response to a
  command that was lost is not among the faults, nor are cards that number
  their bytes.
* In `SdPath` a cluster table is the pair of image and sector; in `RunSav` it
  is the file it was made of.  That FatFs makes right tables is its business.
* RADIX-50, dates and bytes of text in `rt11sav.c`.  A chain of directory
  segments that comes back to itself, and a segment torn by a failed write,
  which is never read again, are left out.
* The order of two client threads' SPI transactions with other users of the
  link: a keyboard byte arrives whole.
* The clock domains: the SPI strobes and the PPU's bus are taken as
  synchronised, as `mcu_spi.v` and the strobe detectors do.
* Two clock edges of the command FSM between two edges of sdclk.

Not modelled: the hard disk's geometry (`sdc_image_inserted`); IDE commands
that move no data, the delay option and the ROM window; removal of a floppy
image in `FloppyDisk`; the events that a key makes for the menu, the keypad
joystick and the keyboards of other cores; the Xbox class, the report rate
check and the start of the USB stack; everything in the rows of the inventory
from the interrupt chain on, but for the MCU link's SD interrupt.  The
processors, video, HDMI and sound are out of reach: their correctness is that
of bits and clock counts.  Nearly all lines of the repository are in `mnano/u8g2`, a graphics
library of a third party with its fonts and ports: it is no part of this
system's logic.

## Plan

Done so far: `SdPath`, `SdHostContract`, `SdHost`, `IdeDrive`, `FloppyDisk`,
`Keyboard`, `HidLifecycle`, `Rt11Volume` and `RunSav`, and proofs about all of
them.

To model next:

1. `VirqChain`: the vector fetch through `xm2-01.v`, `vp1_120.v`, `vp65.v`;
   one answer per fetch, none lost, with enables changing.
2. `CoreLoader`, `FlashWriter`: FIFO and page buffer against the MCU's
   polling.
3. `Calendar` (`kakave.v`) as a function checked against a reference
   definition, with set, load and tick on one clock.
4. The HID report parser, over short descriptors.

To prove next:

1. `IdeDrive`: `OneSectorRight` with IDENTIFY and SET CONFIG among the
   commands, and with INIT.
2. `Keyboard`: what holds for two keyboards whose rows are apart.
3. Conditions that could be weaker: `TransfersHeld` for a file system that
   writes, if the first polled byte is not the old one.
