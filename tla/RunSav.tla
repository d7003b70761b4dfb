------------------------------- MODULE RunSav -------------------------------
(***************************************************************************)
(* Disk images: the menu thread mounts and ejects them (sdc_image_open)    *)
(* and makes RT11SAV.DSK around a program (menu_run_sav), while spi_task   *)
(* serves the floppies' requests from them (sdc_handle_event).             *)
(*                                                                         *)
(* sdc_lock guards the open files.  The task reads which drive asks, and   *)
(* looks whether it has an open file, before it takes the lock; the menu   *)
(* tells the core of an image, and takes it back, without the lock.        *)
(* The volume in RT11SAV.DSK is made by Rt11Volume, under the lock; the    *)
(* bytes on the link to the core are SdPath's matter.                      *)
(***************************************************************************)
EXTENDS Rt11Format, FiniteSets

CONSTANTS
  Drives,     \* the floppy drives; RT11SAV.DSK is put in drive Fdd0
  Fdd0,
  Files,      \* image files on the card, Sav among them
  Sav,        \* RT11SAV.DSK
  Missing,    \* images named in the settings that are not on the card
  Unreadable, \* files that are listed, but whose directory entry may fail to be read
  Fragmented, \* files of too many pieces for a link table of 16 entries
  Sharing,    \* RT11SAV.DSK may be put in any drive
  Bases, Candidates, Sizes, Room   \* of Rt11Volume

None == "none"

ASSUME RunSavAssumption ==
  /\ Fdd0 \in Drives /\ Sav \in Files /\ Fragmented \cup Unreadable \subseteq Files
  /\ Missing \cap Files = {} /\ None \notin Drives \cup Files \cup Missing
  /\ Candidates \in Seq(FileNames) \ {<<>>} /\ Starts \notin ToSet(Candidates)
  /\ Sizes \subseteq Nat \ {0} /\ Room \in Nat
  /\ \A b \in Bases : Proper(b) /\ \A g \in ToSet(b.segs) : Len(g.ents) < Room

VARIABLES
  told,       \* drives that hold an image, as the core has been told
  req, irq,   \* the drive whose request is up, and its interrupt
  image_name, flag,
  cltbl,      \* of each drive's open file: None, or whose link table it is
  task,       \* [pc, drv]
  sdc,        \* who holds sdc_lock
  menu,       \* [pc, drv, file]
  segs, data, base, size, pc, s, k, name, need, blk, i, text, ret   \* Rt11Volume

V == INSTANCE Rt11Volume

core == <<told, req, irq>>
images == <<image_name, flag, cltbl>>
volume == <<segs, data, base, size, pc, s, k, name, need, blk, i, text, ret>>
vars == <<core, images, task, sdc, menu, volume>>

\* A link table lists the clusters of a file as it was when the table was made.
Table(f) == [of |-> f, state |-> "live"]
NoTable == [of |-> None, state |-> "null"]
Tables == {NoTable} \cup [of : Files, state : {"live", "moved", "old"}]

\* The volume of a build that is over is kept until Run SAV has booted it; so it
\* is sdc_image_open for menu_run_sav that goes on then.
ForRunSav == pc = "done"
Menu(where, d, f) == menu' = [pc |-> where, drv |-> d, file |-> f]
Idle == Menu("idle", None, None)
\* sdc_image_open returns, whatever came of it: menu_run_sav boots the disk now.
Returns == IF ForRunSav THEN Menu("boot", Fdd0, Sav) ELSE Idle
Task(where, d) == task' = [pc |-> where, drv |-> d]

\* What CREATE_LINKMAP leaves for a file.  A table too small is made larger,
\* which may move it, but the open file still points to where it was; or it fails
\* for good.  A file that cannot be opened has none.
Links(f) ==
  (IF f \in Fragmented THEN {Table(f), [of |-> f, state |-> "moved"], NoTable} ELSE {Table(f)})
    \cup (IF f \in Unreadable THEN {NoTable} ELSE {})

\* The firmware mounts what the settings name, with the core held in reset.
Init ==
  \E first \in [Drives -> {None} \cup Files \cup Missing] :
    /\ \A d \in Drives : first[d] = Sav => d = Fdd0 \/ Sharing
    /\ cltbl \in [Drives -> Tables]
    /\ \A d \in Drives : cltbl[d] \in IF first[d] \in Files THEN Links(first[d]) ELSE {NoTable}
    /\ told = {d \in Drives : cltbl[d] # NoTable}
    /\ flag = told \cup {d \in Drives : first[d] \in Fragmented}
    /\ image_name = [d \in Drives |-> IF d \in told THEN first[d] ELSE None]
    /\ req = None /\ irq = FALSE
    /\ task = [pc |-> "sleep", drv |-> None]
    /\ sdc = "free"
    /\ menu = [pc |-> "idle", drv |-> None, file |-> None]
    /\ V!Init

-----------------------------------------------------------------------------
(* The core, and spi_task *)

Ask(d) ==
  /\ req = None /\ d \in told
  /\ req' = d /\ irq' = TRUE
  /\ UNCHANGED <<told, images, task, sdc, menu, volume>>

\* The motor stops.
Withdraw ==
  /\ req # None
  /\ req' = None
  /\ UNCHANGED <<told, irq, images, task, sdc, menu, volume>>

\* Mutant: the task looks at what the menu shows, not at the file.
EventShown ==
  /\ task.pc = "sleep" /\ irq
  /\ irq' = FALSE
  /\ IF req # None /\ image_name[req] # None THEN Task("lock", req) ELSE UNCHANGED task
  /\ UNCHANGED <<told, req, images, sdc, menu, volume>>

\* sdc_handle_event reads the status; a drive that never had a file is left.
Event ==
  /\ task.pc = "sleep" /\ irq
  /\ irq' = FALSE
  /\ IF req \in flag THEN Task("lock", req) ELSE UNCHANGED task
  /\ UNCHANGED <<told, req, images, sdc, menu, volume>>

\* Mutant: the sector is looked up without the lock.
OrderUnlocked ==
  /\ task.pc = "lock"
  /\ sdc' = "task" /\ Task("order", task.drv)
  /\ UNCHANGED <<core, images, menu, volume>>

\* It waits for the lock, looks the sector up and orders it.
Order ==
  /\ task.pc = "lock" /\ sdc = "free"
  /\ sdc' = "task" /\ Task("order", task.drv)
  /\ UNCHANGED <<core, images, menu, volume>>

\* The order is carried out for whichever request is up.
Served ==
  /\ task.pc = "order"
  /\ req' = None /\ sdc' = "free" /\ Task("sleep", None)
  /\ UNCHANGED <<told, irq, images, menu, volume>>

-----------------------------------------------------------------------------
(* The menu thread *)

\* Mutant: the core is not told that the disk goes.
EjectUntold(d) == UNCHANGED told /\ image_name' = [image_name EXCEPT ![d] = None]

\* sdc_image_open begins: the core is told that there is no disk.
Eject(d) == told' = told \ {d} /\ image_name' = [image_name EXCEPT ![d] = None]

\* A file of the listing is picked, or "No Disk".
Open(d, f) ==
  /\ menu.pc = "idle" /\ (f = Sav => d = Fdd0 \/ Sharing)
  /\ Eject(d)
  /\ IF f = None THEN UNCHANGED menu ELSE Menu("mount", d, f)
  /\ UNCHANGED <<req, irq, flag, cltbl, task, sdc, volume>>

\* The lock is taken, and the link table of the image before is freed.
Mount ==
  /\ menu.pc = "mount" /\ sdc = "free"
  /\ sdc' = "menu" /\ cltbl' = [cltbl EXCEPT ![menu.drv] = NoTable]
  /\ Menu("link", menu.drv, menu.file)
  /\ UNCHANGED <<core, image_name, flag, task, volume>>

\* The file is opened and its link table is made; a file that cannot be opened
\* leaves fil[d].flag as it was.
Link ==
  LET d == menu.drv  f == menu.file IN
  /\ menu.pc = "link"
  /\ sdc' = "free"
  /\ \E t \in Links(f) :
       /\ cltbl' = [cltbl EXCEPT ![d] = t]
       /\ flag' \in {flag \cup {d}} \cup (IF t = NoTable /\ f \in Unreadable THEN {flag} ELSE {})
       /\ IF t = NoTable THEN Returns ELSE Menu("tell", d, f)
  /\ UNCHANGED <<core, image_name, task, volume>>

Tell ==
  LET d == menu.drv IN
  /\ menu.pc = "tell"
  /\ told' = told \cup {d} /\ image_name' = [image_name EXCEPT ![d] = menu.file]
  /\ Returns
  /\ UNCHANGED <<req, irq, flag, cltbl, task, sdc, volume>>

\* menu_run_sav: the disk leaves drive 0 first.
RunSav ==
  /\ menu.pc = "idle"
  /\ Eject(Fdd0) /\ Menu("make", Fdd0, Sav)
  /\ UNCHANGED <<req, irq, flag, cltbl, task, sdc, volume>>

\* rt11sav_make gets no buffer, and returns before it locks.
NoMemory ==
  /\ menu.pc = "make"
  /\ Idle
  /\ UNCHANGED <<core, images, task, sdc, volume>>

\* A table of RT11SAV.DSK as it was is of no use once the file is made anew.
Outdated == [d \in Drives |-> IF cltbl[d].of = Sav THEN [cltbl[d] EXCEPT !.state = "old"] ELSE cltbl[d]]

\* It finds no base, or no program; or the file cannot be made anew, and may have
\* been truncated when that is found.
MakeRefused ==
  /\ menu.pc = "make" /\ sdc = "free"
  /\ cltbl' \in {cltbl, Outdated} /\ Idle
  /\ UNCHANGED <<core, image_name, flag, task, sdc, volume>>

\* The lock is taken, and the file is made anew (FA_CREATE_ALWAYS).
Create ==
  /\ menu.pc = "make" /\ sdc = "free"
  /\ sdc' = "menu" /\ cltbl' = Outdated /\ Menu("copy", Fdd0, Sav)
  /\ UNCHANGED <<core, image_name, flag, task, volume>>

CopyFailed ==
  /\ menu.pc = "copy"
  /\ sdc' = "free" /\ Idle
  /\ UNCHANGED <<core, images, task, volume>>

Copied ==
  /\ menu.pc = "copy"
  /\ \E b \in Bases, n \in Sizes : V!Begin(b, n)
  /\ Menu("build", Fdd0, Sav)
  /\ UNCHANGED <<core, images, task, sdc>>

Build ==
  /\ menu.pc = "build" /\ V!Step
  /\ UNCHANGED <<core, images, task, sdc, menu>>

\* The volume is put aside: what becomes of it is not followed any further.
VolumeOver ==
  /\ segs' = <<>> /\ data' = <<>> /\ base' = V!NoBase /\ size' = 0
  /\ pc' = "off" /\ s' = 1 /\ k' = 1
  /\ name' = Nobody /\ need' = 0 /\ blk' = 0 /\ i' = 0 /\ text' = <<>>
  /\ ret' = "none"
Disk(good) == IF good THEN Menu("mount", Fdd0, Sav) /\ UNCHANGED volume ELSE Idle /\ VolumeOver

\* Mutant: a build that gave up keeps the lock.
BuiltKeeps ==
  /\ menu.pc = "build" /\ pc = "done"
  /\ sdc' = (IF ret = "ok" THEN "free" ELSE sdc)
  /\ Disk(ret = "ok")
  /\ UNCHANGED <<core, images, task>>

\* Mutant: only "no room" counts as a failure.
BuiltAnyway ==
  /\ menu.pc = "build" /\ pc = "done"
  /\ sdc' = "free"
  /\ Disk(ret \notin {"disk full", "dir full"})
  /\ UNCHANGED <<core, images, task>>

\* rt11sav_make returns, and a disk that is made is mounted.
Built ==
  /\ menu.pc = "build" /\ pc = "done"
  /\ sdc' = "free"
  /\ Disk(ret = "ok")
  /\ UNCHANGED <<core, images, task>>

\* The core is reset, which stops the drives.
Boot ==
  /\ menu.pc = "boot"
  /\ req' = None /\ Idle /\ VolumeOver
  /\ UNCHANGED <<told, irq, images, task, sdc>>

-----------------------------------------------------------------------------
TaskStep == Event \/ Order \/ Served
MenuLocks == Mount \/ MakeRefused \/ Create
MenuStep == MenuLocks \/ NoMemory \/ Link \/ Tell \/ CopyFailed \/ Copied \/ Build \/ Built \/ Boot
Next ==
  \/ \E d \in Drives : Ask(d)
  \/ Withdraw \/ TaskStep \/ MenuStep \/ RunSav
  \/ \E d \in Drives, f \in Files \cup {None} : Open(d, f)

Spec == Init /\ [][Next]_vars

\* Both threads are scheduled, and a mutex is given to who waits for it.  The
\* copy ends with whatever base volume it was of.
CopyOver == CopyFailed \/ (menu.pc = "copy" /\ menu'.pc = "build")
FairSpec ==
  /\ Spec
  /\ WF_vars(Event) /\ SF_vars(Order) /\ WF_vars(Served)
  /\ SF_vars(MenuLocks) /\ WF_vars(Link \/ Tell \/ CopyOver \/ Build \/ Built \/ Boot)

-----------------------------------------------------------------------------
TypeOK ==
  /\ told \subseteq Drives /\ flag \subseteq Drives /\ req \in Drives \cup {None} /\ irq \in BOOLEAN
  /\ image_name \in [Drives -> Files \cup {None}] /\ cltbl \in [Drives -> Tables]
  /\ task \in [pc : {"sleep", "lock", "order"}, drv : Drives \cup {None}]
  /\ sdc \in {"free", "task", "menu"}
  /\ menu \in [pc : {"idle", "mount", "link", "tell", "make", "copy", "build", "boot"},
               drv : Drives \cup {None}, file : Files \cup {None}]
  /\ V!TypeOK

(* A drive that holds an image for the core has a link table, and it is    *)
(* that of the image the menu shows, as the file is now.                   *)
TableTrue == \A d \in told : image_name[d] # None /\ cltbl[d] = Table(image_name[d])

(* The task never looks a sector up without a link table, also when the    *)
(* disk was changed while it waited for the lock.                          *)
WalksTable == task.pc = "order" => cltbl[task.drv].state \in {"live", "old"}

(* A request that is not taken back is answered, also while a disk is      *)
(* changed or made.                                                        *)
AskedServed == req # None ~> req = None

(* "Run SAV" always comes to an end, and the card is free then.            *)
RunSavEnds == menu.pc = "make" ~> menu.pc = "idle" /\ sdc # "menu"

(* The files of the base volume are on RT11SAV.DSK, untouched, while it is *)
(* made and afterwards.                                                    *)
OthersKept == V!OthersKept

(* What Run SAV boots is in drive 0 as RT11SAV.DSK is now, and boots the  *)
(* program; a disk that a build gave up on gets no further.                *)
BootsMade ==
  menu.pc = "boot" =>
    /\ Fdd0 \in told /\ image_name[Fdd0] = Sav /\ cltbl[Fdd0] = Table(Sav)
    /\ V!Boots

(* The entries of a directory segment fill its blocks, without a gap.      *)
AreasFill == V!AreasFill

(* The task reads from the disk that the core was told of.                 *)
WalksLive == task.pc = "order" => cltbl[task.drv].state = "live"
=============================================================================
