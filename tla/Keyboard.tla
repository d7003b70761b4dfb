------------------------------ MODULE Keyboard ------------------------------
(***************************************************************************)
(* The keyboard, from the USB report to the PPU's register: kbd_parse and  *)
(* kbd_tx_uknc of the MCU's usb_host.c, the byte that hid.v holds, and the *)
(* queue of xm2-01.v before R177702.                                       *)
(*                                                                         *)
(* A key has a scan code {column, row}; a press is sent as the code and    *)
(* the end of a row as 128 + row.  The MCU keeps what it believes the      *)
(* machine believes in tables that every client thread shares.  Nothing    *)
(* strobes the byte: the machine takes a change of it.                     *)
(***************************************************************************)
EXTENDS Integers, Sequences, FiniteSets, Functions

CONSTANTS
  Boards,     \* keyboards, each with a client thread of its own
  Mods,       \* the modifier keys in the order of their bits
  SlotKeys,   \* keys that are reported in slots
  Slots,      \* slots of a report (6)
  Code,       \* the scan code of each key, 0 for a key the machine lacks
  Gens,       \* values of a row's generation (256)
  Rollovers,  \* of a row: "few", fewer than Gens of them; "fresh", as long as no key
              \* that is still down has the next generation; or "any"
  Depth       \* places of the queue (8), one of which stays free

None == "none"
Keys == Range(Mods) \cup SlotKeys
Row(code) == code % 16
Rows == {Row(Code[k]) : k \in Keys}
Up(row) == 128 + row
Codes == {Code[k] : k \in Keys} \ {0}
Bytes == Codes \cup {Up(row) : row \in Rows} \cup {255}

ASSUME KeyboardAssumption ==
  /\ Mods \in Seq(Range(Mods)) /\ \A i, j \in DOMAIN Mods : Mods[i] = Mods[j] => i = j
  \* a key is a HID usage, a byte other than 0
  /\ IsFiniteSet(Keys) /\ Cardinality(Keys) < 256
  /\ Boards # {} /\ Range(Mods) \cap SlotKeys = {} /\ None \notin Keys
  /\ Code \in [Keys -> 0..127]
  /\ Slots \in Nat \ {0} /\ Gens \in Nat \ {0} /\ Depth \in Nat \ {0, 1}
  /\ Rollovers \in {"few", "fresh", "any"}

VARIABLES
  \* kbd_parse, one per client thread
  last,      \* last_report: the modifiers down and the key in each slot
  todo,      \* the changes of the report that are still to be handled, each at its
             \* place in the parser's loops
  pc,        \* the thread's place in kbd_tx_uknc
  \* kbd_tx_uknc's tables
  held,      \* keys forwarded as pressed
  rows,      \* keys the machine believes down, per row
  code_of,   \* the code it believes the row is held by
  gen,       \* counts the rollovers of each row
  key_gen,   \* the row's generation when each key was forwarded
  osd,       \* the menu is on the screen
  \* the core
  keyboard,  \* the byte hid.v holds, and so kbd_last
  kbd_q, R177702, press_btn, init,
  \* what the program has understood, and what of it is no fault
  mach,      \* the code each row is held by, 0 if it is up
  lost,      \* a byte has been dropped
  off,       \* rows of which a byte was dropped since the last release
  eaten,     \* keys down whose press the OSD took
  moved      \* keys down that have changed their slot

tables == <<held, rows, code_of, gen, key_gen>>
mcu == <<last, todo, pc, tables, eaten, moved>>
core == <<keyboard, kbd_q, R177702, press_btn, init, mach, lost, off>>
vars == <<mcu, osd, core>>

Blank == [mods |-> {}, slot |-> [i \in 1..Slots |-> None]]
Down(report) == report.mods \cup (Range(report.slot) \ {None})
AllDown == UNION {Down(last[b]) : b \in Boards}

\* A keyboard names a key in one slot only.
Reports ==
  {r \in [mods : SUBSET Range(Mods), slot : [1..Slots -> SlotKeys \cup {None}]] :
     \A i, j \in 1..Slots : i # j /\ r.slot[i] # None => r.slot[i] # r.slot[j]}

Init ==
  /\ last = [b \in Boards |-> Blank]
  /\ todo = [b \in Boards |-> {}]
  /\ pc = [b \in Boards |-> "idle"]
  /\ held = {}
  /\ rows = [r \in Rows |-> 0]
  /\ code_of = [r \in Rows |-> 0]
  /\ gen = [r \in Rows |-> 0]
  /\ key_gen = [k \in Keys |-> 0]
  /\ osd = FALSE
  /\ keyboard = 255
  /\ kbd_q = <<>> /\ R177702 = 0 /\ press_btn = FALSE /\ init = FALSE
  /\ mach = [r \in Rows |-> 0]
  /\ lost = FALSE /\ off = {} /\ eaten = {} /\ moved = {}

-----------------------------------------------------------------------------
(* kbd_parse *)

Event(at, key, pressed) == [at |-> at, key |-> key, pressed |-> pressed]

ModEvents(old, new) ==
  {Event(i, Mods[i], Mods[i] \in new) : i \in {j \in DOMAIN Mods : (Mods[j] \in old) # (Mods[j] \in new)}}

\* Slot by slot: a key that has changed its slot goes up and comes down.
SlotEvents(old, new) ==
  LET Changed == {i \in 1..Slots : old[i] # new[i]}
      At(i) == Len(Mods) + 2 * i
  IN {Event(At(i) - 1, old[i], FALSE) : i \in {j \in Changed : old[j] # None}}
       \cup {Event(At(i), new[i], TRUE) : i \in {j \in Changed : new[j] # None}}

Events(old, new) == ModEvents(old.mods, new.mods) \cup SlotEvents(old.slot, new.slot)

Moved(old, new) == {k \in SlotKeys : \E i, j \in 1..Slots : i # j /\ old[i] = k /\ new[j] = k}

\* The bound: how often a report may bring a row's generation on.
Rolls(events, row) ==
  Cardinality({e \in events : e.pressed /\ Row(Code[e.key]) = row})
    - IF rows[row] = 0 THEN 1 ELSE 0
Forgotten(row) ==
  {key_gen[k] : k \in {h \in held \cup AllDown : Row(Code[h]) = row}} \ {gen[row]}
WithinGens(events) ==
  Rollovers = "any" \/ \A r \in Rows : \A n \in 1..Rolls(events, r) :
    /\ n < Gens /\ (gen[r] + n) % Gens \notin Forgotten(r)
    /\ Rollovers = "few" => gen[r] + n < Gens

\* A report has come.  The parser is alone with it, so last_report may take it now.
Report(b, new) ==
  LET events == Events(last[b], new) IN
  /\ pc[b] = "idle" /\ todo[b] = {}
  /\ new # last[b]
  /\ WithinGens(events)
  /\ todo' = [todo EXCEPT ![b] = events]
  /\ last' = [last EXCEPT ![b] = new]
  /\ eaten' = eaten \cap Down(new)
  /\ moved' = (moved \cap Down(new)) \cup Moved(last[b].slot, new.slot)
  /\ UNCHANGED <<pc, tables, osd, core>>

-----------------------------------------------------------------------------
(* kbd_tx_uknc; a thread may lose the processor wherever pc changes *)

First(b) == CHOOSE e \in todo[b] : \A f \in todo[b] : e.at <= f.at
Key(b) == First(b).key
KRow(b) == Row(Code[Key(b)])
Goto(b, where) == pc' = [pc EXCEPT ![b] = where]
Handled(b) == todo' = [todo EXCEPT ![b] = @ \ {First(b)}]
Awaits(b, pressed) == pc[b] = "idle" /\ todo[b] # {} /\ First(b).pressed = pressed

\* The OSD takes the press, the machine lacks the key, or it is down already.
PressIgnored(b) ==
  /\ Awaits(b, TRUE)
  /\ osd \/ Code[Key(b)] = 0 \/ Key(b) \in held
  /\ Handled(b)
  /\ eaten' = IF osd /\ Key(b) \notin held THEN eaten \cup {Key(b)} ELSE eaten
  /\ UNCHANGED <<last, pc, tables, moved, osd, core>>

\* Mutant: a second code of the row is a press like any other.
PressNoRoll(b) ==
  LET row == KRow(b) IN
  /\ Awaits(b, TRUE)
  /\ ~osd /\ Code[Key(b)] # 0 /\ Key(b) \notin held
  /\ held' = held \cup {Key(b)}
  /\ Goto(b, IF rows[row] = 0 \/ Code[Key(b)] # code_of[row] THEN "press" ELSE "count")
  /\ UNCHANGED <<last, todo, rows, code_of, gen, key_gen, eaten, moved, osd, core>>

\* Another code holds the row: the machine gets the row's release first.
Press(b) ==
  LET row == KRow(b) IN
  /\ Awaits(b, TRUE)
  /\ ~osd /\ Code[Key(b)] # 0 /\ Key(b) \notin held
  /\ held' = held \cup {Key(b)}
  /\ Goto(b, IF rows[row] # 0 /\ Code[Key(b)] # code_of[row] THEN "roll"
             ELSE IF rows[row] = 0 THEN "press" ELSE "count")
  /\ UNCHANGED <<last, todo, rows, code_of, gen, key_gen, eaten, moved, osd, core>>

\* The row's older keys are forgotten.
Forget(b) ==
  /\ pc[b] = "rolled"
  /\ gen' = [gen EXCEPT ![KRow(b)] = (@ + 1) % Gens]
  /\ rows' = [rows EXCEPT ![KRow(b)] = 0]
  /\ Goto(b, "press")
  /\ UNCHANGED <<last, todo, held, code_of, key_gen, eaten, moved, osd, core>>

\* Mutant: keys of one code count as one.
CountOnce(b) ==
  LET row == KRow(b) IN
  /\ pc[b] \in {"count", "pressed"}
  /\ code_of' = [code_of EXCEPT ![row] = IF pc[b] = "pressed" THEN Code[Key(b)] ELSE @]
  /\ rows' = [rows EXCEPT ![row] = 1]
  /\ key_gen' = [key_gen EXCEPT ![Key(b)] = gen[row]]
  /\ Goto(b, "idle") /\ Handled(b)
  /\ UNCHANGED <<last, held, gen, eaten, moved, osd, core>>

\* A key with the code that holds the row is counted, not sent.
Count(b) ==
  LET row == KRow(b) IN
  /\ pc[b] \in {"count", "pressed"}
  /\ code_of' = [code_of EXCEPT ![row] = IF pc[b] = "pressed" THEN Code[Key(b)] ELSE @]
  /\ rows' = [rows EXCEPT ![row] = (@ + 1) % 256]
  /\ key_gen' = [key_gen EXCEPT ![Key(b)] = gen[row]]
  /\ Goto(b, "idle") /\ Handled(b)
  /\ UNCHANGED <<last, held, gen, eaten, moved, osd, core>>

\* Mutant: the OSD takes releases as well.
ReleaseIfHidden(b) ==
  LET row == KRow(b)
      live == ~osd /\ Key(b) \in held /\ key_gen[Key(b)] = gen[row] IN
  /\ Awaits(b, FALSE)
  /\ held' = IF osd THEN held ELSE held \ {Key(b)}
  /\ rows' = IF live THEN [rows EXCEPT ![row] = (@ - 1) % 256] ELSE rows
  /\ IF live /\ rows[row] = 1 THEN Goto(b, "up") /\ UNCHANGED todo
     ELSE UNCHANGED pc /\ Handled(b)
  /\ UNCHANGED <<last, code_of, gen, key_gen, eaten, moved, osd, core>>

\* The release of a key that was not forwarded, or was forgotten since, says nothing.
Release(b) ==
  LET row == KRow(b)
      live == Key(b) \in held /\ key_gen[Key(b)] = gen[row] IN
  /\ Awaits(b, FALSE)
  /\ held' = held \ {Key(b)}
  /\ rows' = IF live THEN [rows EXCEPT ![row] = (@ - 1) % 256] ELSE rows
  /\ IF live /\ rows[row] = 1 THEN Goto(b, "up") /\ UNCHANGED todo
     ELSE UNCHANGED pc /\ Handled(b)
  /\ UNCHANGED <<last, code_of, gen, key_gen, eaten, moved, osd, core>>

\* Mutant: the ring's last place is used as well.
FullLate == Len(kbd_q) = Depth
Full == Len(kbd_q) = Depth - 1
\* The row that a byte is about.
RowOf(byte) == IF byte >= 128 THEN byte - 128 ELSE Row(byte)

\* What the core's next clocks make of a byte: a change of it goes into R177702
\* if the one before has been read, else into the queue, unless that is full;
\* INIT keeps the queue empty.  When a row's release is in, nothing of the row
\* is left to put right.
Arrives(byte) ==
  IF byte # keyboard /\ ~init /\ ~Full
  THEN /\ IF press_btn
          THEN kbd_q' = Append(kbd_q, byte) /\ UNCHANGED <<press_btn, R177702>>
          ELSE press_btn' = TRUE /\ R177702' = byte /\ UNCHANGED kbd_q
       /\ off' = IF byte >= 128 THEN off \ {RowOf(byte)} ELSE off
       /\ UNCHANGED lost
  ELSE /\ lost' = TRUE /\ off' = off \cup {RowOf(byte)}
       /\ UNCHANGED <<kbd_q, press_btn, R177702>>

\* hid.v has a place for a code of seven bits or for a row.
Latched(byte) == IF byte >= 128 THEN Up(Row(byte)) ELSE byte

\* kbd_tx_uknc_byte: 2 ms apart, and the core's clock is 320 ns.
Send(b, byte) ==
  /\ keyboard' = Latched(byte)
  /\ Arrives(Latched(byte))
  /\ UNCHANGED <<last, tables, eaten, moved, osd, init, mach>>

SendRoll(b) ==
  pc[b] = "roll" /\ Send(b, Up(KRow(b))) /\ Goto(b, "rolled") /\ UNCHANGED todo
SendPress(b) ==
  pc[b] = "press" /\ Send(b, Code[Key(b)]) /\ Goto(b, "pressed") /\ UNCHANGED todo
SendUp(b) ==
  pc[b] = "up" /\ Send(b, Up(KRow(b))) /\ Goto(b, "idle") /\ Handled(b)

\* The menu thread shows or hides the OSD.
Menu == osd' = ~osd /\ UNCHANGED <<mcu, core>>

-----------------------------------------------------------------------------
(* xm2-01.v and the PPU's program *)

\* The program reads R177702 when the status register says there is a byte,
\* and takes it for a press or for a row's end; the next byte moves up.
Read ==
  /\ ~init /\ press_btn
  /\ mach' = [mach EXCEPT ![RowOf(R177702)] = IF R177702 >= 128 THEN 0 ELSE R177702]
  /\ IF kbd_q = <<>>
     THEN press_btn' = FALSE /\ UNCHANGED <<R177702, kbd_q>>
     ELSE R177702' = Head(kbd_q) /\ kbd_q' = Tail(kbd_q) /\ UNCHANGED press_btn
  /\ UNCHANGED <<mcu, osd, keyboard, init, lost, off>>

\* The RESET instruction: the program goes on with what it has understood.
InitOn ==
  /\ ~init /\ init' = TRUE
  /\ kbd_q' = <<>>
  /\ lost' = (lost \/ kbd_q # <<>>)
  /\ off' = off \cup {RowOf(byte) : byte \in Range(kbd_q)}
  /\ UNCHANGED <<mcu, osd, keyboard, R177702, press_btn, mach>>

InitOff ==
  /\ init /\ init' = FALSE
  /\ UNCHANGED <<mcu, osd, keyboard, kbd_q, R177702, press_btn, mach, lost, off>>

-----------------------------------------------------------------------------
Thread(b) ==
  \/ PressIgnored(b) \/ Press(b) \/ Forget(b) \/ Count(b) \/ Release(b)
  \/ SendRoll(b) \/ SendPress(b) \/ SendUp(b)
Next ==
  \/ \E b \in Boards : Thread(b) \/ \E new \in Reports : Report(b, new)
  \/ Read \/ InitOn \/ InitOff \/ Menu

Spec == Init /\ [][Next]_vars
\* The threads are scheduled, INIT ends, the program comes to read its keyboard.
FairSpec ==
  /\ Spec
  /\ \A b \in Boards : WF_<<todo, pc>>(Thread(b))
  /\ SF_<<press_btn, kbd_q>>(Read) /\ WF_init(InitOff)

-----------------------------------------------------------------------------
TypeOK ==
  /\ last \in [Boards -> Reports]
  /\ todo \in [Boards -> SUBSET [at : 1..(Len(Mods) + 2 * Slots), key : Keys, pressed : BOOLEAN]]
  /\ pc \in [Boards -> {"idle", "roll", "rolled", "press", "pressed", "count", "up"}]
  /\ held \subseteq Keys /\ eaten \subseteq Keys /\ moved \subseteq Keys
  /\ rows \in [Rows -> 0..255] /\ code_of \in [Rows -> Codes \cup {0}]
  /\ gen \in [Rows -> 0..(Gens - 1)] /\ key_gen \in [Keys -> 0..(Gens - 1)]
  /\ {osd, press_btn, init, lost} \subseteq BOOLEAN /\ off \subseteq Rows
  /\ keyboard \in Bytes /\ R177702 \in Bytes \cup {0}
  /\ kbd_q \in Seq(Bytes) /\ Len(kbd_q) < Depth
  /\ mach \in [Rows -> Codes \cup {0}]

\* No change is being handled and every byte has been read.
AtRest == (\A b \in Boards : todo[b] = {}) /\ ~press_btn

(* As long as nothing is dropped the firmware is handed a legal stream: a  *)
(* press only for a row that is up, a release only for a row that is down  *)
(* (the comment over kbd_tx_uknc_byte), through rollovers, shared codes,   *)
(* the OSD and the queue.                                                  *)
LegalRead == IF R177702 >= 128 THEN mach[RowOf(R177702)] # 0 ELSE mach[RowOf(R177702)] = 0
LegalStream == [][~lost /\ Read => LegalRead]_vars

(* At rest the firmware believes no row down that no key in anyone's hand  *)
(* holds: it would repeat that key for ever.  A dropped byte spoils this   *)
(* for its own row, until the row's next release has come through.         *)
NothingStuck ==
  AtRest => \A r \in Rows \ off : mach[r] # 0 => \E k \in AllDown : Code[k] = mach[r]

(* At rest a key that is down holds its row with its code, unless the OSD  *)
(* took its press, a rollover has made the machine forget it since, or it  *)
(* has changed its slot.  A dropped byte spoils this likewise.             *)
Holds(k) ==
  Code[k] # 0 /\ Row(Code[k]) \notin off /\ key_gen[k] = gen[Row(Code[k])]
    => mach[Row(Code[k])] = Code[k]
HeldRowIsDown == AtRest => \A k \in AllDown \ (eaten \cup moved) : Holds(k)

(* The same for a key that has changed its slot: "the release code is      *)
(* 0x80 | row, sent once the whole row is up again".                       *)
MovedRowIsDown == AtRest => \A k \in AllDown \ eaten : Holds(k)

(* When all keys have gone up for good, the firmware hears of every row.   *)
AllUpHeard == <>[](AllDown = {}) => <>[](\A r \in Rows \ off : mach[r] = 0)
=============================================================================
