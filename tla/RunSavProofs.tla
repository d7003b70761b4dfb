---------------------------- MODULE RunSavProofs ----------------------------
(***************************************************************************)
(* Theorems about RunSav, for any drives, files and volumes.               *)
(*                                                                         *)
(* As long as every picked image can be opened with a link table of 16     *)
(* entries, and RT11SAV.DSK is put in drive 0 only, a drive that holds an  *)
(* image for the core has that image's link table, spi_task walks no freed *)
(* one, and what Run SAV boots is a disk that boots the program.           *)
(*                                                                         *)
(* Without these provisos: the types, and the promises of the volume that  *)
(* is made on the disk, which Rt11VolumeProofs gives for rt11_build and    *)
(* which hold here for every build that the menu thread starts.            *)
(***************************************************************************)
EXTENDS RunSav, TLAPS

\* The invariant of a build, and what follows from it.
VP == INSTANCE Rt11VolumeProofs

\* What sdc_image_open and menu_run_sav take for granted.
Granted == Fragmented = {} /\ Unreadable = {} /\ ~Sharing

Typed ==
  /\ told \subseteq Drives /\ flag \subseteq Drives /\ req \in Drives \cup {None}
  /\ image_name \in [Drives -> Files \cup {None}] /\ cltbl \in [Drives -> Tables]
  /\ task \in [pc : {"sleep", "lock", "order"}, drv : Drives \cup {None}]
  /\ sdc \in {"free", "task", "menu"}
  /\ menu \in [pc : {"idle", "mount", "link", "tell", "make", "copy", "build", "boot"},
               drv : Drives \cup {None}, file : Files \cup {None}]

\* Who is where holds the lock.
Locked ==
  /\ task.pc = "order" <=> sdc = "task"
  /\ menu.pc \in {"link", "copy", "build"} <=> sdc = "menu"

\* A drive that the task has found a file in keeps it.
Asked == task.pc \in {"lock", "order"} => task.drv \in flag

\* The drive that is mounted, or made anew, has been taken back from the core.
Mounting ==
  menu.pc \in {"mount", "link", "tell"} =>
    /\ menu.drv \in Drives \ told /\ menu.file \in Files
    /\ menu.file = Sav => menu.drv = Fdd0
    /\ menu.pc = "tell" => cltbl[menu.drv] = Table(menu.file)
Making == menu.pc \in {"make", "copy", "build"} => Fdd0 \notin told

\* Only drive 0 has a table of RT11SAV.DSK, and a drive is without a table only
\* while the menu holds the lock to make one.
Placed == \A d \in Drives : cltbl[d].of = Sav => d = Fdd0
Tabled ==
  \A d \in flag : cltbl[d].state \in {"live", "old"} \/ (menu.pc = "link" /\ menu.drv = d)

\* The volume is made while the menu builds, and kept, if it is good, until it is booted.
Booting ==
  /\ pc = "done" => menu.pc \in {"build", "mount", "link", "tell", "boot"}
  /\ pc = "done" /\ menu.pc # "build" => menu.drv = Fdd0 /\ menu.file = Sav /\ ret = "ok"
  /\ pc \notin {"off", "done"} => menu.pc = "build"
  /\ menu.pc = "boot" =>
       pc = "done" /\ Fdd0 \in told /\ image_name[Fdd0] = Sav /\ cltbl[Fdd0] = Table(Sav)

IInv == Typed /\ Locked /\ Asked /\ Mounting /\ Making /\ Placed /\ Tabled /\ TableTrue

-----------------------------------------------------------------------------
LEMMA NamesApart ==
  Fdd0 \in Drives /\ Sav \in Files /\ None \notin Drives /\ None \notin Files
BY RunSavAssumption

\* With what is granted, opening a file leaves its table.
LEMMA OpensWell ==
  ASSUME Granted, NEW f PROVE Links(f) = {Table(f)}
BY DEF Granted, Links

LEMMA InitIInv ==
  ASSUME Granted, Init PROVE IInv
<1>1. PICK first \in [Drives -> {None} \cup Files \cup Missing] :
        /\ \A d \in Drives : first[d] = Sav => d = Fdd0
        /\ cltbl \in [Drives -> Tables]
        /\ \A d \in Drives : cltbl[d] \in IF first[d] \in Files THEN Links(first[d]) ELSE {NoTable}
        /\ told = {d \in Drives : cltbl[d] # NoTable}
        /\ flag = told
        /\ image_name = [d \in Drives |-> IF d \in told THEN first[d] ELSE None]
        /\ req = None
        /\ task = [pc |-> "sleep", drv |-> None] /\ sdc = "free"
        /\ menu = [pc |-> "idle", drv |-> None, file |-> None]
  BY DEF Init, Granted
<1>2. \A d \in Drives : cltbl[d] = IF first[d] \in Files THEN Table(first[d]) ELSE NoTable
  BY <1>1, OpensWell
<1>3. \A d \in told : first[d] \in Files /\ cltbl[d] = Table(first[d])
  BY <1>1, <1>2
<1>4. Typed
  BY <1>1, <1>3 DEF Typed
<1>5. Placed
  BY <1>1, <1>2, NamesApart DEF Placed, Table, NoTable
<1>6. TableTrue
  BY <1>1, <1>3, NamesApart DEF TableTrue
<1>7. Tabled
  BY <1>1, <1>3 DEF Tabled, Table
<1> QED
  BY <1>1, <1>4, <1>5, <1>6, <1>7 DEF IInv, Locked, Asked, Mounting, Making

-----------------------------------------------------------------------------
(* The core, and spi_task *)

LEMMA CoreIInv ==
  ASSUME IInv, Withdraw \/ \E d \in Drives : Ask(d) PROVE IInv'
<1>1. UNCHANGED <<told, images, task, sdc, menu>> /\ req' \in Drives \cup {None}
  BY DEF Withdraw, Ask
<1> QED
  BY <1>1 DEF IInv, Typed, Locked, Asked, Mounting, Making, Placed, Tabled, TableTrue, images

LEMMA TaskIInv ==
  ASSUME IInv, TaskStep PROVE IInv'
<1>1. UNCHANGED <<told, images, menu>>
  BY DEF TaskStep, Event, Order, Served, core
<1>2. Typed'
  <2>1. req' \in Drives \cup {None} /\ sdc' \in {"free", "task", "menu"}
    BY DEF IInv, Typed, TaskStep, Event, Order, Served, core
  <2>2. task' \in [pc : {"sleep", "lock", "order"}, drv : Drives \cup {None}]
    BY DEF IInv, Typed, TaskStep, Event, Order, Served, Task
  <2> QED BY <1>1, <2>1, <2>2 DEF IInv, Typed, images
<1>3. Locked'
  BY <1>1 DEF IInv, Typed, Locked, TaskStep, Event, Order, Served, Task
<1>4. Asked'
  BY <1>1 DEF IInv, Asked, TaskStep, Event, Order, Served, Task, images
<1> QED
  BY <1>1, <1>2, <1>3, <1>4 DEF IInv, Mounting, Making, Placed, Tabled, TableTrue, images

-----------------------------------------------------------------------------
(* The menu thread *)

\* A disk is picked, or "No Disk"; or menu_run_sav begins.
LEMMA EjectIInv ==
  ASSUME Granted, IInv,
         RunSav \/ \E d \in Drives, f \in Files \cup {None} : Open(d, f)
  PROVE  IInv'
<1>1. PICK d \in Drives : Eject(d) /\ menu.pc = "idle"
        /\ \/ UNCHANGED menu
           \/ \E f \in Files : Menu("mount", d, f) /\ (f = Sav => d = Fdd0)
           \/ Menu("make", d, Sav) /\ d = Fdd0
  BY NamesApart DEF RunSav, Open, Granted
<1>2. UNCHANGED <<req, flag, cltbl, task, sdc>>
  BY DEF RunSav, Open
<1>3. menu' \in [pc : {"idle", "mount", "make"}, drv : Drives \cup {None}, file : Files \cup {None}]
  BY <1>1, NamesApart DEF IInv, Typed, Menu
<1>4. Typed'
  BY <1>1, <1>2, <1>3 DEF IInv, Typed, Eject
<1>5. TableTrue'
  BY <1>1, <1>2 DEF IInv, Typed, TableTrue, Eject
<1>6. Mounting' /\ Making'
  BY <1>1, <1>2, <1>3 DEF IInv, Typed, Mounting, Making, Menu, Eject
<1> QED
  BY <1>1, <1>2, <1>3, <1>4, <1>5, <1>6 DEF IInv, Locked, Asked, Placed, Tabled

LEMMA MountIInv ==
  ASSUME IInv, Mount PROVE IInv'
<1> DEFINE d == menu.drv
<1>1. d \in Drives /\ d \notin told /\ menu.file \in Files /\ (menu.file = Sav => d = Fdd0)
  BY DEF IInv, Mounting, Mount
<1>2. menu' = [pc |-> "link", drv |-> d, file |-> menu.file] /\ sdc = "free" /\ sdc' = "menu"
  BY DEF Mount, Menu
<1>3. cltbl' = [cltbl EXCEPT ![d] = NoTable] /\ UNCHANGED <<told, req, image_name, flag, task>>
  BY DEF Mount, core
<1>4. Typed'
  BY <1>1, <1>2, <1>3 DEF IInv, Typed, Tables
<1>5. Placed' /\ Tabled' /\ TableTrue'
  BY <1>1, <1>2, <1>3, NamesApart DEF IInv, Typed, Placed, Tabled, TableTrue, NoTable, Mount
<1> QED
  BY <1>1, <1>2, <1>3, <1>4, <1>5 DEF IInv, Locked, Asked, Mounting, Making, Mount

LEMMA LinkIInv ==
  ASSUME Granted, IInv, Link PROVE IInv'
<1> DEFINE d == menu.drv  f == menu.file
<1>1. d \in Drives /\ d \notin told /\ f \in Files /\ (f = Sav => d = Fdd0)
  BY DEF IInv, Mounting, Link
<1>2. Table(f) # NoTable
  BY DEF Table, NoTable
<1>3. cltbl' = [cltbl EXCEPT ![d] = Table(f)] /\ flag' = flag \cup {d}
      /\ menu' = [pc |-> "tell", drv |-> d, file |-> f]
  <2>1. Links(f) = {Table(f)} /\ f \notin Unreadable
    BY OpensWell DEF Granted
  <2>2. PICK t \in Links(f) :
          /\ cltbl' = [cltbl EXCEPT ![d] = t]
          /\ flag' \in {flag \cup {d}} \cup (IF t = NoTable /\ f \in Unreadable THEN {flag} ELSE {})
          /\ IF t = NoTable THEN Returns ELSE Menu("tell", d, f)
    BY DEF Link
  <2>3. t = Table(f) /\ t # NoTable
    BY <1>2, <2>1
  <2> QED BY <2>1, <2>2, <2>3 DEF Menu
<1>4. menu.pc = "link" /\ sdc' = "free" /\ UNCHANGED <<told, req, image_name, task>>
  BY DEF Link, core
<1>5. Typed'
  BY <1>1, <1>3, <1>4 DEF IInv, Typed, Tables, Table
<1>6. Placed' /\ Tabled' /\ TableTrue'
  BY <1>1, <1>3, <1>4 DEF IInv, Typed, Placed, Tabled, TableTrue, Table
<1>7. Mounting'
  BY <1>1, <1>3, <1>4 DEF IInv, Typed, Mounting
<1>8. Locked'
  BY <1>3, <1>4 DEF IInv, Locked
<1> QED
  BY <1>3, <1>4, <1>5, <1>6, <1>7, <1>8 DEF IInv, Asked, Making

LEMMA TellIInv ==
  ASSUME IInv, Tell PROVE IInv'
<1> DEFINE d == menu.drv
<1>1. d \in Drives /\ menu.file \in Files /\ cltbl[d] = Table(menu.file)
  BY DEF IInv, Mounting, Tell
<1>2. UNCHANGED <<req, flag, cltbl, task, sdc>>
      /\ \/ menu' = [pc |-> "idle", drv |-> None, file |-> None]
         \/ menu' = [pc |-> "boot", drv |-> Fdd0, file |-> Sav]
  BY DEF Tell, Returns, Idle, Menu
<1>3. told' = told \cup {d} /\ image_name' = [image_name EXCEPT ![d] = menu.file]
  BY DEF Tell
<1>4. Typed'
  BY <1>1, <1>2, <1>3, NamesApart DEF IInv, Typed
<1>5. TableTrue'
  BY <1>1, <1>2, <1>3, NamesApart DEF IInv, Typed, TableTrue
<1> QED
  BY <1>2, <1>4, <1>5 DEF IInv, Locked, Asked, Mounting, Making, Placed, Tabled, Tell

\* FA_CREATE_ALWAYS: the tables of RT11SAV.DSK are outdated, and drive 0 alone had one.
LEMMA OutdatedTables ==
  ASSUME IInv, menu.pc = "make", cltbl' = Outdated, UNCHANGED <<told, image_name, flag>>
  PROVE  cltbl' \in [Drives -> Tables] /\ Placed' /\ Tabled' /\ TableTrue'
<1>1. Fdd0 \notin told
  BY DEF IInv, Making
<1>2. \A d \in Drives :
        /\ cltbl'[d].of = cltbl[d].of
        /\ cltbl'[d] = cltbl[d] \/ (d = Fdd0 /\ cltbl'[d].state = "old")
  BY DEF IInv, Typed, Placed, Outdated, Tables, NoTable
<1>3. cltbl' \in [Drives -> Tables]
  <2>1. ASSUME NEW d \in Drives PROVE Outdated[d] \in Tables
    <3>1. cltbl[d] \in Tables
      BY DEF IInv, Typed
    <3>2. CASE cltbl[d] \in [of : Files, state : {"live", "moved", "old"}]
      BY <3>2 DEF Outdated, Tables
    <3>3. CASE cltbl[d] = NoTable
      BY <3>3, NamesApart DEF Outdated, Tables, NoTable
    <3> QED BY <3>1, <3>2, <3>3 DEF Tables
  <2> QED BY <2>1 DEF Outdated
<1> QED
  BY <1>1, <1>2, <1>3 DEF IInv, Typed, Placed, Tabled, TableTrue

LEMMA CreateIInv ==
  ASSUME IInv, Create PROVE IInv'
<1>1. menu.pc = "make" /\ Fdd0 \notin told /\ sdc = "free"
  BY DEF IInv, Making, Create
<1>2. menu' = [pc |-> "copy", drv |-> Fdd0, file |-> Sav] /\ sdc' = "menu" /\ cltbl' = Outdated
      /\ UNCHANGED <<told, req, image_name, flag, task>>
  BY DEF Create, Menu, core
<1>3. cltbl' \in [Drives -> Tables] /\ Placed' /\ Tabled' /\ TableTrue'
  BY <1>1, <1>2, OutdatedTables
<1>4. Typed'
  BY <1>2, <1>3, NamesApart DEF IInv, Typed
<1> QED
  BY <1>1, <1>2, <1>3, <1>4 DEF IInv, Locked, Asked, Mounting, Making

LEMMA RefusedIInv ==
  ASSUME IInv, MakeRefused PROVE IInv'
<1>1. /\ menu.pc = "make" /\ menu' = [pc |-> "idle", drv |-> None, file |-> None]
      /\ cltbl' \in {cltbl, Outdated} /\ UNCHANGED <<told, req, image_name, flag, task, sdc>>
  BY DEF MakeRefused, Idle, Menu, core
<1>2. cltbl' \in [Drives -> Tables] /\ Placed' /\ Tabled' /\ TableTrue'
  <2>1. CASE UNCHANGED cltbl
    BY <1>1, <2>1 DEF IInv, Typed, Placed, Tabled, TableTrue
  <2> QED BY <1>1, <2>1, OutdatedTables
<1>3. Typed'
  BY <1>1, <1>2 DEF IInv, Typed
<1> QED
  BY <1>1, <1>2, <1>3 DEF IInv, Locked, Asked, Mounting, Making

\* The build goes on, gives up or is over: no disk is touched.
LEMMA MakingIInv ==
  ASSUME IInv, NoMemory \/ CopyFailed \/ Copied \/ Build \/ Built PROVE IInv'
<1>1. UNCHANGED <<told, req, images, task>>
  BY DEF NoMemory, CopyFailed, Copied, Build, Built, core
<1>2. Fdd0 \notin told
  BY DEF IInv, Making, NoMemory, CopyFailed, Copied, Build, Built
<1>3. \/ menu' = [pc |-> "idle", drv |-> None, file |-> None]
      \/ menu' = [pc |-> "mount", drv |-> Fdd0, file |-> Sav]
      \/ menu' = [pc |-> "build", drv |-> Fdd0, file |-> Sav]
      \/ UNCHANGED menu
  BY DEF NoMemory, CopyFailed, Copied, Build, Built, Disk, Idle, Menu
<1>4. menu.pc # "link" /\ menu'.pc \notin {"link", "tell"}
  BY <1>3 DEF NoMemory, CopyFailed, Copied, Build, Built
<1>5. Typed'
  BY <1>1, <1>3, NamesApart DEF IInv, Typed, images, NoMemory, CopyFailed, Copied, Build, Built
<1>6. Locked'
  BY <1>1 DEF IInv, Locked, NoMemory, CopyFailed, Copied, Build, Built, Disk, Idle, Menu
<1>7. Mounting' /\ Making'
  BY <1>1, <1>2, <1>3, <1>4, NamesApart DEF IInv, Mounting, Making
<1> QED
  BY <1>1, <1>4, <1>5, <1>6, <1>7 DEF IInv, Asked, Placed, Tabled, TableTrue, images

LEMMA BootIInv ==
  ASSUME IInv, Boot PROVE IInv'
<1>1. /\ menu.pc = "boot" /\ menu' = [pc |-> "idle", drv |-> None, file |-> None] /\ req' = None
      /\ UNCHANGED <<told, images, task, sdc>>
  BY DEF Boot, Idle, Menu
<1> QED
  BY <1>1 DEF IInv, Typed, Locked, Asked, Mounting, Making, Placed, Tabled, TableTrue, images

-----------------------------------------------------------------------------
LEMMA NextIInv ==
  ASSUME Granted, IInv, [Next]_vars PROVE IInv'
<1>1. CASE Withdraw \/ \E d \in Drives : Ask(d)
  BY <1>1, CoreIInv
<1>2. CASE TaskStep
  BY <1>2, TaskIInv
<1>3. CASE RunSav \/ \E d \in Drives, f \in Files \cup {None} : Open(d, f)
  BY <1>3, EjectIInv
<1>4. CASE Mount
  BY <1>4, MountIInv
<1>5. CASE Link
  BY <1>5, LinkIInv
<1>6. CASE Tell
  BY <1>6, TellIInv
<1>7. CASE Create
  BY <1>7, CreateIInv
<1>8. CASE NoMemory \/ CopyFailed \/ Copied \/ Build \/ Built
  BY <1>8, MakingIInv
<1>10. CASE MakeRefused
  BY <1>10, RefusedIInv
<1>11. CASE Boot
  BY <1>11, BootIInv
<1>9. CASE UNCHANGED vars
  BY <1>9 DEF IInv, Typed, Locked, Asked, Mounting, Making, Placed, Tabled, TableTrue,
              vars, core, images
<1> QED
  BY <1>1, <1>2, <1>3, <1>4, <1>5, <1>6, <1>7, <1>8, <1>9, <1>10, <1>11 DEF Next, MenuStep, MenuLocks

(* The lock, the menu's and the task's place, the tables and the files     *)
(* keep in step, whatever the user mounts and the program asks for: the    *)
(* invariant of sdc_image_open, menu_run_sav and sdc_handle_event that the *)
(* theorems below rest on.                                                *)
THEOREM InvariantHolds ==
  ASSUME Granted PROVE Spec => []IInv
<1>1. Init => IInv
  BY InitIInv
<1>2. IInv /\ [Next]_vars => IInv'
  BY NextIInv
<1> QED BY <1>1, <1>2, PTL DEF Spec

(* The core never believes in an image whose link table is not the one the *)
(* task would look its sectors up in: the eject before and the notice      *)
(* after a mount frame every change of the table.                          *)
THEOREM ImagesTrue ==
  ASSUME Granted PROVE Spec => []TableTrue
<1>1. IInv => TableTrue
  BY DEF IInv
<1> QED BY <1>1, InvariantHolds, PTL

(* However the menu and the task interleave, the task never looks a sector *)
(* up in a freed link table: the lock covers all the time a drive has none.*)
THEOREM TablesWalked ==
  ASSUME Granted PROVE Spec => []WalksTable
<1>1. IInv => WalksTable
  <2> SUFFICES ASSUME IInv, task.pc = "order" PROVE cltbl[task.drv].state \in {"live", "old"}
    BY DEF WalksTable
  <2>1. task.drv \in flag /\ menu.pc # "link"
    BY DEF IInv, Asked, Locked
  <2> QED BY <2>1 DEF IInv, Tabled
<1> QED BY <1>1, InvariantHolds, PTL

-----------------------------------------------------------------------------
(* V, the volume that RunSav makes, is what Rt11VolumeProofs is about: each *)
(* of the one's definitions says what the other's does.                     *)

LEMMA SameNames ==
  Starts = VP!Starts /\ V!Starts = VP!Starts /\ Nobody = VP!Nobody /\ V!Nobody = VP!Nobody /\ FileNames = VP!FileNames
BY DEF Starts, V!Starts, VP!Starts, Nobody, V!Nobody, VP!Nobody, FileNames, VP!FileNames

LEMMA Formatted ==
  Lines \in Nat \ {0} /\ {VP!Starts, VP!Nobody} \subseteq VP!FileNames
BY FormatAssumption, SameNames

LEMMA SameLength ==
  \A ents : Length(ents) = VP!Length(ents) /\ V!Length(ents) = VP!Length(ents)
<1> TAKE ents
<1>1. VP!Length(ents) = (CHOOSE g : VP!Adds(g, ents, DOMAIN ents))[DOMAIN ents]
  BY Formatted, VP!LengthAdds
<1>2. V!Length(ents) = (CHOOSE g : VP!Adds(g, ents, DOMAIN ents))[DOMAIN ents]
  BY DEF V!Length, V!FoldLeft, V!MapThenFoldSet, V!Max, VP!Top, VP!Adds
<1>3. Length(ents) = (CHOOSE g : VP!Adds(g, ents, DOMAIN ents))[DOMAIN ents]
  BY DEF Length, FoldLeft, MapThenFoldSet, Max, VP!Top, VP!Adds
<1> QED BY <1>1, <1>2, <1>3

LEMMA SamePlace ==
  \A g, j : Place(g, j) = VP!Place(g, j) /\ V!Place(g, j) = VP!Place(g, j)
BY SameLength DEF Place, V!Place, VP!Place

LEMMA SameToSet ==
  \A f : ToSet(f) = VP!ToSet(f) /\ V!ToSet(f) = VP!ToSet(f)
BY DEF ToSet, V!ToSet, VP!ToSet

LEMMA SameCalled ==
  \A g, nm : Called(g, nm) = VP!Called(g, nm) /\ V!Called(g, nm) = VP!Called(g, nm)
BY DEF Called, V!Called, VP!Called

LEMMA SameText ==
  /\ \A b : OldText(b) = VP!OldText(b) /\ V!OldText(b) = VP!OldText(b)
  /\ \A t, n : TextBlock(t, n) = VP!TextBlock(t, n) /\ V!TextBlock(t, n) = VP!TextBlock(t, n)
  /\ \A t : V!BlocksOf(t) = VP!BlocksOf(t)
  /\ \A nm : V!RunLine(nm) = VP!RunLine(nm)
  /\ \A n : V!ProgBlock(n) = VP!ProgBlock(n)
BY SameNames DEF OldText, V!OldText, VP!OldText, TextBlock, V!TextBlock, VP!TextBlock, V!BlocksOf, VP!BlocksOf,
   V!RunLine, VP!RunLine, V!ProgBlock, VP!ProgBlock

LEMMA SameBlock ==
  \A b, nm, n : BaseBlock(b, nm, n) = VP!BaseBlock(b, nm, n) /\ V!BaseBlock(b, nm, n) = VP!BaseBlock(b, nm, n)
BY SameNames, SameText DEF BaseBlock, V!BaseBlock, VP!BaseBlock

LEMMA SameArea ==
  \A g, j : Area(g, j) = VP!Area(g, j)
BY SamePlace DEF Area, VP!Area

LEMMA SameBlocks ==
  \A b : Blocks(b) = VP!Blocks(b)
BY SameArea, SameToSet DEF Blocks, VP!Blocks

LEMMA SameProper ==
  \A b : Proper(b) => VP!Proper(b)
<1> TAKE b
<1>1. Segment = VP!Segment
  BY SameNames DEF Segment, VP!Segment, Entry, VP!Entry
<1>2. \A v : Apart(v) => VP!Apart(v)
  BY SameLength DEF Apart, VP!Apart, Span, VP!Span
<1>3. \A v : OneOfEach(v) => VP!OneOfEach(v)
  BY SameCalled DEF OneOfEach, VP!OneOfEach
<1> QED BY <1>1, <1>2, <1>3, SameBlocks, SameBlock, SamePlace, SameCalled, SameNames, SameToSet DEF Proper, VP!Proper

LEMMA GivenIs == VP!Given
<1>1. \A b \in Bases : VP!Proper(b) /\ \A g \in VP!ToSet(b.segs) : Len(g.ents) < Room
  BY RunSavAssumption, SameProper, SameToSet
<1> QED BY <1>1, RunSavAssumption, SameNames, SameToSet DEF VP!Given

LEMMA SameWalk ==
  /\ V!Over = VP!Over /\ V!Cur = VP!Cur
  /\ \A place : V!To(place) = VP!To(place)
  /\ V!Stay = VP!Stay
  /\ \A why : V!GiveUp(why) = VP!GiveUp(why)
  /\ \A g : V!Written(g) = VP!Written(g)
  /\ \A g : V!Fits(g) = VP!Fits(g)
  /\ \A g, j : V!NoRoom(g, j) = VP!NoRoom(g, j)
  /\ \A n : V!FileBlock(n) = VP!FileBlock(n)
  /\ \A t : V!ReadsOn(t) = VP!ReadsOn(t)
  /\ \A n : V!Empty(n) = VP!Empty(n)
<1>1. \A place : V!To(place) = VP!To(place)
  BY DEF V!To, VP!To
<1>2. V!Stay = VP!Stay
  BY DEF V!Stay, VP!Stay, V!file, VP!file
<1>3. \A why : V!GiveUp(why) = VP!GiveUp(why)
  BY DEF V!GiveUp, VP!GiveUp, V!volume, VP!volume, V!walk, VP!walk, V!file, VP!file
<1>4. \A n : V!FileBlock(n) = VP!FileBlock(n)
  BY SameText, SameNames DEF V!FileBlock, VP!FileBlock
<1>5. \A n : V!Empty(n) = VP!Empty(n)
  BY SameNames DEF V!Empty, VP!Empty
<1> QED BY <1>1, <1>2, <1>3, <1>4, <1>5 DEF V!Over, VP!Over, V!Cur, VP!Cur, V!Written, VP!Written, V!Fits, VP!Fits,
  V!NoRoom, VP!NoRoom, V!ReadsOn, VP!ReadsOn

LEMMA SamePutIn ==
  \A ents, j : V!PutIn(ents, j) = VP!PutIn(ents, j)
BY SameWalk DEF V!PutIn, VP!PutIn, V!Perm, VP!Perm

LEMMA PickNameIs == V!PickName => VP!PickName
BY SameWalk, SameCalled DEF V!PickName, VP!PickName, V!volume, VP!volume, V!file, VP!file

LEMMA RemoveOldIs == V!RemoveOld => VP!RemoveOld
BY SameWalk, SameCalled DEF V!RemoveOld, VP!RemoveOld, V!volume, VP!volume, V!file, VP!file

LEMMA AllocIs == V!Alloc => VP!Alloc
BY SameWalk, SamePutIn, SamePlace DEF V!Alloc, VP!Alloc, V!volume, VP!volume

LEMMA PutBlockIs == V!PutBlock => VP!PutBlock
BY SameWalk, SameNames DEF V!PutBlock, VP!PutBlock

LEMMA SamePutStarts == \A t : V!PutStarts(t) => VP!PutStarts(t)
<1>1. \A t : V!BlocksOf(t) = VP!BlocksOf(t)
  BY SameText
<1>2. V!RunLine(name) = VP!RunLine(name)
  BY SameText
<1> QED
BY <1>1, <1>2, SameNames, SameWalk DEF V!PutStarts, VP!PutStarts

LEMMA FindStartsIs == V!FindStarts => VP!FindStarts
BY SameWalk, SameCalled, SameNames, SamePlace, SamePutStarts DEF V!FindStarts, VP!FindStarts, V!volume, VP!volume, V!file, VP!file

LEMMA ReadTextIs == V!ReadText => VP!ReadText
BY SameWalk, SamePutStarts DEF V!ReadText, VP!ReadText, V!volume, VP!volume, V!walk, VP!walk

LEMMA SyncIs == V!Sync => VP!Sync
BY SameWalk DEF V!Sync, VP!Sync

LEMMA StepIs == V!Step => VP!Step
BY PickNameIs, RemoveOldIs, AllocIs, PutBlockIs, FindStartsIs, ReadTextIs, SyncIs DEF V!Step, VP!Step

LEMMA BeginIs == \A b, n : V!Begin(b, n) => VP!Begin(b, n)
BY SameWalk DEF V!Begin, VP!Begin, V!file, VP!file

LEMMA InitIs == V!Init => VP!VolumeInv
BY SameNames DEF V!Init, VP!VolumeInv, VP!NoVolume, V!NoBase, VP!NoBase

LEMMA TypeIs == VP!TypeOK => V!TypeOK
BY SameNames, SameToSet DEF V!TypeOK, VP!TypeOK, V!IsVolume, VP!IsVolume

LEMMA SameCopies == \A v, nm : V!Copies(v, nm) = VP!Copies(v, nm)
BY SameToSet, SameCalled DEF V!Copies, VP!Copies

LEMMA SameSays == \A v, nm, contents : VP!Says(v, nm, contents) => V!Says(v, nm, contents)
BY SameCopies, SamePlace DEF V!Says, VP!Says

LEMMA OthersKeptIs == VP!OthersKept => V!OthersKept
BY SameNames, SameToSet, SameCopies, SamePlace, SameBlock DEF V!OthersKept, VP!OthersKept

LEMMA BootsIs == VP!Boots => V!Boots
<1>1. V!Kept(base) = VP!Kept(base)
  BY SameText DEF V!Kept, VP!Kept
<1>2. \A n : [x \in 1..n |-> V!ProgBlock(x - 1)] = [x \in 1..n |-> VP!ProgBlock(x - 1)]
  BY SameText
<1>3. \A t, n : [x \in 1..n |-> V!TextBlock(t, x - 1)] = [x \in 1..n |-> VP!TextBlock(t, x - 1)]
  BY SameText
<1>4. \A t, nm : V!BlocksOf(t) = VP!BlocksOf(t) /\ V!RunLine(nm) = VP!RunLine(nm)
  BY SameText
<1> DEFINE t == VP!Kept(base) \o <<VP!RunLine(Candidates[k])>>
<1>5. V!Kept(base) \o <<V!RunLine(Candidates[k])>> = t
  BY <1>1, <1>4
<1> HIDE DEF t
<1> SUFFICES ASSUME VP!Boots
             PROVE  V!Says(segs, Candidates[k], [n \in 1..size |-> V!ProgBlock(n - 1)])
                    /\ V!Says(segs, V!Starts, [n \in 1..V!BlocksOf(t) |-> V!TextBlock(t, n - 1)])
  BY <1>5 DEF V!Boots
<1>6. VP!Says(segs, Candidates[k], [n \in 1..size |-> VP!ProgBlock(n - 1)])
      /\ VP!Says(segs, VP!Starts, [n \in 1..VP!BlocksOf(t) |-> VP!TextBlock(t, n - 1)])
  BY DEF VP!Boots, t
<1>7. V!Says(segs, Candidates[k], [n \in 1..size |-> V!ProgBlock(n - 1)])
  BY <1>2, <1>6, SameSays
<1>8. V!Says(segs, V!Starts, [n \in 1..V!BlocksOf(t) |-> V!TextBlock(t, n - 1)])
  BY <1>3, <1>4, <1>6, SameSays, SameNames
<1> QED BY <1>7, <1>8

LEMMA AreasFillIs == VP!AreasFill => V!AreasFill
BY SameLength DEF V!AreasFill, VP!AreasFill

-----------------------------------------------------------------------------
(* The volume on the disk *)

LEMMA VolumeInit ==
  ASSUME Init PROVE VP!VolumeInv
BY InitIs DEF Init

LEMMA VolumeNext ==
  ASSUME VP!VolumeInv, [Next]_vars PROVE VP!VolumeInv'
<1>1. CASE Copied
  <2>1. PICK b \in Bases, n \in Sizes : V!Begin(b, n)
    BY <1>1 DEF Copied
  <2> QED BY <2>1, BeginIs, GivenIs, Formatted, VP!BeginKeeps
<1>2. CASE Build
  <2>1. VP!Step
    BY <1>2, StepIs DEF Build
  <2> QED BY <2>1, GivenIs, Formatted, VP!StepKeeps
<1>3. CASE VolumeOver
  BY <1>3, SameNames DEF VolumeOver, VP!VolumeInv, VP!NoVolume, V!NoBase, VP!NoBase
<1>4. CASE UNCHANGED volume
  <2>1. UNCHANGED VP!vars
    BY <1>4 DEF volume, VP!vars, VP!volume, VP!walk, VP!file
  <2> QED BY <2>1, Formatted, VP!StillKeeps
<1> QED
  BY <1>1, <1>2, <1>3, <1>4 DEF Next, TaskStep, MenuStep, MenuLocks, Ask, Withdraw, Event, Order, Served, Open,
     Mount, Link, Tell, RunSav, NoMemory, MakeRefused, Create, CopyFailed, Built, Disk, Boot, vars

LEMMA VolumeHolds == Spec => []VP!VolumeInv
<1>1. Init => VP!VolumeInv
  BY VolumeInit
<1>2. VP!VolumeInv /\ [Next]_vars => VP!VolumeInv'
  BY VolumeNext
<1> QED BY <1>1, <1>2, PTL DEF Spec

(* Whatever base volume is copied and whatever program is put on it, the   *)
(* files of the base volume are on RT11SAV.DSK, in their places and with   *)
(* their contents: rt11_pick_name, rm_cb and alloc_cb keep a put from all  *)
(* of them but STARTS.COM, also when the build gives up.                   *)
THEOREM FilesKept == Spec => []OthersKept
<1>1. VP!VolumeInv => OthersKept
  BY GivenIs, Formatted, VP!InvOthersKept, OthersKeptIs DEF OthersKept
<1> QED BY <1>1, VolumeHolds, PTL

LEMMA BootingNext ==
  ASSUME Granted, IInv, Booting, [Next]_vars PROVE Booting'
<1> USE DEF Booting
<1>1. CASE Withdraw \/ TaskStep \/ \E d \in Drives : Ask(d)
  <2>1. UNCHANGED <<told, image_name, cltbl, menu, pc, ret>>
    BY <1>1 DEF Withdraw, TaskStep, Ask, Event, Order, Served, core, images, volume
  <2> QED BY <2>1
<1>2. CASE RunSav \/ \E d \in Drives, f \in Files \cup {None} : Open(d, f)
  <2>1. menu.pc = "idle" /\ UNCHANGED <<pc, ret>> /\ (UNCHANGED menu \/ menu'.pc \in {"mount", "make"})
    BY <1>2 DEF RunSav, Open, Menu, volume
  <2> QED BY <2>1
<1>3. CASE Mount
  BY <1>3 DEF Mount, Menu, volume
<1>4. CASE Link
  <2>1. PICK t \in Links(menu.file) : IF t = NoTable THEN Returns ELSE Menu("tell", menu.drv, menu.file)
    BY <1>4 DEF Link
  <2>2. Menu("tell", menu.drv, menu.file)
    BY <2>1, OpensWell DEF Table, NoTable
  <2> QED BY <1>4, <2>2 DEF Link, Menu, volume
<1>5. CASE Tell
  <2>1. /\ menu.pc = "tell" /\ UNCHANGED <<cltbl, pc, ret>> /\ Returns
        /\ told' = told \cup {menu.drv} /\ image_name' = [image_name EXCEPT ![menu.drv] = menu.file]
    BY <1>5 DEF Tell, volume
  <2>2. cltbl[menu.drv] = Table(menu.file) /\ image_name \in [Drives -> Files \cup {None}] /\ menu.drv \in Drives
    BY <2>1 DEF IInv, Typed, Mounting
  <2>3. CASE pc = "done"
    <3>1. menu' = [pc |-> "boot", drv |-> Fdd0, file |-> Sav] /\ menu.drv = Fdd0 /\ menu.file = Sav /\ ret = "ok"
      BY <2>1, <2>3 DEF Returns, ForRunSav, Menu
    <3> QED BY <2>1, <2>2, <2>3, <3>1
  <2>4. CASE pc # "done"
    <3>1. menu'.pc = "idle" /\ pc = "off"
      BY <2>1, <2>4 DEF Returns, ForRunSav, Idle, Menu
    <3> QED BY <2>1, <3>1
  <2> QED BY <2>3, <2>4
<1>6. CASE NoMemory \/ MakeRefused \/ Create \/ CopyFailed
  <2>1. menu.pc \in {"make", "copy"} /\ UNCHANGED <<pc, ret>> /\ menu'.pc \in {"idle", "copy"}
    BY <1>6 DEF NoMemory, MakeRefused, Create, CopyFailed, Idle, Menu, volume
  <2> QED BY <2>1
<1>7. CASE Copied \/ Build
  <2>1. menu'.pc = "build"
    BY <1>7 DEF Copied, Build, Menu
  <2> QED BY <2>1
<1>8. CASE Built
  <2>1. CASE ret = "ok"
    BY <1>8, <2>1 DEF Built, Disk, Menu, volume
  <2>2. CASE ret # "ok"
    BY <1>8, <2>2 DEF Built, Disk, Idle, Menu, VolumeOver
  <2> QED BY <2>1, <2>2
<1>9. CASE Boot
  BY <1>9 DEF Boot, Idle, Menu, VolumeOver
<1>10. CASE UNCHANGED vars
  BY <1>10 DEF vars, core, images, volume
<1> QED
  BY <1>1, <1>2, <1>3, <1>4, <1>5, <1>6, <1>7, <1>8, <1>9, <1>10 DEF Next, MenuStep, MenuLocks

(* menu_run_sav resets the core only with RT11SAV.DSK, as it is now, in    *)
(* drive 0, and then the program is on it under the name that was free,    *)
(* whole, and STARTS.COM says what it said and runs it: a build that gave  *)
(* up never gets that far, however long both are and whatever else the     *)
(* threads do meanwhile.                                                   *)
THEOREM BootsProgram ==
  ASSUME Granted PROVE Spec => []BootsMade
<1>1. Init => Booting
  BY DEF Init, Booting, V!Init
<1>2. IInv /\ Booting /\ [Next]_vars => Booting'
  BY BootingNext
<1>3. Booting /\ VP!VolumeInv => BootsMade
  <2> SUFFICES ASSUME Booting, VP!VolumeInv, menu.pc = "boot" PROVE BootsMade
    BY DEF BootsMade
  <2>1. VP!Boots
    <3>1. pc = "done" /\ ret = "ok"
      BY DEF Booting
    <3> QED BY <3>1, GivenIs, Formatted, VP!InvBuiltRight DEF VP!BuiltRight
  <2> QED BY <2>1, BootsIs DEF BootsMade, Booting
<1> QED BY <1>1, <1>2, <1>3, InvariantHolds, VolumeHolds, PTL DEF Spec

(* However often an area is emptied or split, the entries of each segment  *)
(* have the length together that they had on the base volume: rm_cb and    *)
(* alloc_cb leave no block without an entry and none with two.             *)
THEOREM SegmentsFilled == Spec => []AreasFill
<1>1. VP!VolumeInv => AreasFill
  BY GivenIs, Formatted, VP!InvAreasFill, AreasFillIs DEF AreasFill
<1> QED BY <1>1, VolumeHolds, PTL

-----------------------------------------------------------------------------
(* The types, whatever is picked *)

Mounted == menu.pc \in {"mount", "link", "tell"} => menu.drv \in Drives /\ menu.file \in Files
TInv == Typed /\ irq \in BOOLEAN /\ Mounted

LEMMA LinksAreTables ==
  ASSUME NEW f \in Files PROVE Links(f) \subseteq Tables
BY DEF Links, Table, NoTable, Tables

LEMMA InitTypes ==
  ASSUME Init PROVE TInv
<1>1. PICK first \in [Drives -> {None} \cup Files \cup Missing] :
        /\ cltbl \in [Drives -> Tables]
        /\ \A d \in Drives : cltbl[d] \in IF first[d] \in Files THEN Links(first[d]) ELSE {NoTable}
        /\ told = {d \in Drives : cltbl[d] # NoTable}
        /\ flag = told \cup {d \in Drives : first[d] \in Fragmented}
        /\ image_name = [d \in Drives |-> IF d \in told THEN first[d] ELSE None]
        /\ req = None /\ irq = FALSE
        /\ task = [pc |-> "sleep", drv |-> None] /\ sdc = "free"
        /\ menu = [pc |-> "idle", drv |-> None, file |-> None]
  BY DEF Init
<1>2. \A d \in told : first[d] \in Files
  BY <1>1
<1>3. image_name \in [Drives -> Files \cup {None}]
  BY <1>1, <1>2
<1> QED BY <1>1, <1>3 DEF TInv, Typed, Mounted

LEMMA LinkTypes ==
  ASSUME TInv, Link PROVE TInv'
<1> DEFINE d == menu.drv  f == menu.file
<1>1. d \in Drives /\ f \in Files
  BY DEF TInv, Mounted, Link
<1>2. PICK t \in Links(f) :
        /\ cltbl' = [cltbl EXCEPT ![d] = t]
        /\ flag' \in {flag \cup {d}} \cup (IF t = NoTable /\ f \in Unreadable THEN {flag} ELSE {})
        /\ IF t = NoTable THEN Returns ELSE Menu("tell", d, f)
  BY DEF Link
<1>3. t \in Tables
  BY <1>1, <1>2, LinksAreTables
<1>4. cltbl' \in [Drives -> Tables] /\ flag' \subseteq Drives
  BY <1>1, <1>2, <1>3 DEF TInv, Typed
<1>5. \/ menu' = [pc |-> "idle", drv |-> None, file |-> None]
      \/ menu' = [pc |-> "boot", drv |-> Fdd0, file |-> Sav]
      \/ menu' = [pc |-> "tell", drv |-> d, file |-> f]
  BY <1>2 DEF Returns, Idle, Menu
<1>6. sdc' = "free" /\ UNCHANGED <<told, req, irq, image_name, task>>
  BY DEF Link, core
<1> QED BY <1>1, <1>4, <1>5, <1>6, NamesApart DEF TInv, Typed, Mounted

\* A disk is picked, put aside, mounted or told of.
LEMMA DiskTypes ==
  ASSUME TInv, RunSav \/ Mount \/ Tell \/ \E d \in Drives, f \in Files \cup {None} : Open(d, f)
  PROVE  TInv'
<1>1. CASE RunSav \/ \E d \in Drives, f \in Files \cup {None} : Open(d, f)
  <2>1. PICK d \in Drives : Eject(d) /\ menu.pc = "idle"
          /\ \/ UNCHANGED menu
             \/ \E f \in Files : Menu("mount", d, f)
             \/ Menu("make", d, Sav)
    BY <1>1, NamesApart DEF RunSav, Open
  <2>2. UNCHANGED <<req, irq, flag, cltbl, task, sdc>>
    BY <1>1 DEF RunSav, Open
  <2>3. menu' \in [pc : {"idle", "mount", "make"}, drv : Drives \cup {None}, file : Files \cup {None}]
    BY <2>1, NamesApart DEF TInv, Typed, Menu
  <2>4. Mounted'
    BY <2>1 DEF Mounted, Menu
  <2> QED BY <2>1, <2>2, <2>3, <2>4 DEF TInv, Typed, Eject
<1>2. CASE Mount
  <2>1. menu.drv \in Drives /\ menu.file \in Files
    BY <1>2 DEF TInv, Mounted, Mount
  <2> QED BY <1>2, <2>1 DEF TInv, Typed, Mounted, Mount, Menu, Tables, core
<1>3. CASE Tell
  <2>1. menu.drv \in Drives /\ menu.file \in Files
    BY <1>3 DEF TInv, Mounted, Tell
  <2>2. \/ menu' = [pc |-> "idle", drv |-> None, file |-> None]
        \/ menu' = [pc |-> "boot", drv |-> Fdd0, file |-> Sav]
    BY <1>3 DEF Tell, Returns, Idle, Menu
  <2> QED BY <1>3, <2>1, <2>2, NamesApart DEF TInv, Typed, Mounted, Tell
<1> QED BY <1>1, <1>2, <1>3

LEMMA OutdatedTypes ==
  ASSUME TInv PROVE Outdated \in [Drives -> Tables]
<1>1. ASSUME NEW d \in Drives PROVE Outdated[d] \in Tables
  <2>1. cltbl[d] \in Tables
    BY DEF TInv, Typed
  <2>2. CASE cltbl[d] \in [of : Files, state : {"live", "moved", "old"}]
    BY <2>2 DEF Outdated, Tables
  <2>3. CASE cltbl[d] = NoTable
    BY <2>3, NamesApart DEF Outdated, Tables, NoTable
  <2> QED BY <2>1, <2>2, <2>3 DEF Tables
<1> QED BY <1>1 DEF Outdated

LEMMA MakingTypes ==
  ASSUME TInv, NoMemory \/ MakeRefused \/ Create \/ CopyFailed \/ Copied \/ Build \/ Built \/ Boot PROVE TInv'
<1>1. UNCHANGED <<told, irq, image_name, flag, task>> /\ req' \in {req, None}
  BY DEF NoMemory, MakeRefused, Create, CopyFailed, Copied, Build, Built, Boot, core, images
<1>2. cltbl' \in [Drives -> Tables]
  BY OutdatedTypes DEF TInv, Typed, NoMemory, MakeRefused, Create, CopyFailed, Copied, Build, Built, Boot, images
<1>3. \/ menu' = [pc |-> "idle", drv |-> None, file |-> None]
      \/ menu' = [pc |-> "mount", drv |-> Fdd0, file |-> Sav]
      \/ menu' = [pc |-> "copy", drv |-> Fdd0, file |-> Sav]
      \/ menu' = [pc |-> "build", drv |-> Fdd0, file |-> Sav]
      \/ UNCHANGED menu
  BY DEF NoMemory, MakeRefused, Create, CopyFailed, Copied, Build, Built, Disk, Boot, Idle, Menu
<1>4. sdc' \in {"free", "task", "menu"}
  BY DEF TInv, Typed, NoMemory, MakeRefused, Create, CopyFailed, Copied, Build, Built, Boot
<1> QED BY <1>1, <1>2, <1>3, <1>4, NamesApart DEF TInv, Typed, Mounted

LEMMA TaskTypes ==
  ASSUME TInv, Withdraw \/ TaskStep \/ \E d \in Drives : Ask(d) PROVE TInv'
<1>1. UNCHANGED <<told, images, menu>>
  BY DEF Withdraw, Ask, TaskStep, Event, Order, Served, core
<1>2. req' \in Drives \cup {None} /\ irq' \in BOOLEAN /\ sdc' \in {"free", "task", "menu"}
  BY DEF TInv, Typed, Withdraw, Ask, TaskStep, Event, Order, Served, core
<1>3. task' \in [pc : {"sleep", "lock", "order"}, drv : Drives \cup {None}]
  BY DEF TInv, Typed, Withdraw, Ask, TaskStep, Event, Order, Served, Task
<1> QED BY <1>1, <1>2, <1>3 DEF TInv, Typed, Mounted, images

LEMMA TypesNext ==
  ASSUME TInv, [Next]_vars PROVE TInv'
<1>1. UNCHANGED vars => TInv'
  BY DEF TInv, Typed, Mounted, vars, core, images
<1> QED
  BY <1>1, LinkTypes, DiskTypes, MakingTypes, TaskTypes DEF Next, MenuStep, MenuLocks

(* The disks, the threads and the volume keep to their types, also with    *)
(* files that have too many pieces or cannot be read and with RT11SAV.DSK  *)
(* in any drive; so a put never goes past the blocks that it needs, and a  *)
(* segment never has more entries than there is room for.                  *)
THEOREM TypeCorrect == Spec => []TypeOK
<1>1. Init => TInv
  BY InitTypes
<1>2. TInv /\ [Next]_vars => TInv'
  BY TypesNext
<1>3. VP!VolumeInv => V!TypeOK
  BY GivenIs, Formatted, VP!InvTypeOK, TypeIs
<1>4. TInv /\ V!TypeOK => TypeOK
  BY DEF TInv, Typed, TypeOK
<1> QED BY <1>1, <1>2, <1>3, <1>4, VolumeHolds, PTL DEF Spec
=============================================================================
