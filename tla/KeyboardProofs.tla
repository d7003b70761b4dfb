--------------------------- MODULE KeyboardProofs ---------------------------
(***************************************************************************)
(* Proofs about Keyboard.  The types hold for any number of keyboards.     *)
(* For one keyboard, whose rows are not brought round to a generation that *)
(* a forgotten key still bears, the invariant IInv ties together           *)
(*   - the tables: rows counts the keys that are live, Tables;             *)
(*   - the thread's place between its sends and its tables, Place;         *)
(*   - the generations that the report still has to use, Fresh;            *)
(*   - the keys held, the keys down and the changes pending, Due;          *)
(*   - what the bytes still unread will make of each row, and what the MCU *)
(*     believes of it, Stream, and that each of them is legal when its     *)
(*     turn comes, LegalPending.                                           *)
(* Two keyboards, and generations that come round, break it: see the cfgs  *)
(* Keyboard_two and Keyboard_wrap.                                         *)
(***************************************************************************)
EXTENDS Keyboard, TLAPS, FiniteSetTheorems, WellFoundedInduction

Sent == Codes \cup {Up(row) : row \in Rows}
EventType == [at : 1..(Len(Mods) + 2 * Slots), key : Keys, pressed : BOOLEAN]
Places == {"idle", "roll", "rolled", "press", "pressed", "count", "up"}

LEMMA Sizes ==
  /\ Slots \in Nat /\ Slots > 0 /\ Gens \in Nat /\ Gens > 0 /\ Depth \in Nat /\ Depth > 1
  /\ Len(Mods) \in Nat /\ DOMAIN Mods = 1..Len(Mods)
  /\ \A i \in DOMAIN Mods : Mods[i] \in Keys
  /\ SlotKeys \subseteq Keys /\ Range(Mods) \subseteq Keys
  BY KeyboardAssumption DEF Keys, Range

\* The scan codes and the bytes made of them.
LEMMA Scan ==
  /\ \A k \in Keys : Code[k] \in 0..127 /\ Row(Code[k]) \in Rows
  /\ \A k \in Keys : Code[k] # 0 => Code[k] \in Codes /\ Code[k] \in Sent
  /\ \A r \in Rows : r \in 0..15 /\ Up(r) \in Sent /\ Up(r) >= 128 /\ RowOf(Up(r)) = r
  /\ \A c \in Codes : c \in 1..127 /\ Row(c) \in Rows /\ RowOf(c) = Row(c)
  <1>1. \A k \in Keys : Code[k] \in 0..127 /\ Row(Code[k]) \in Rows
    BY KeyboardAssumption DEF Rows
  <1>2. \A k \in Keys : Code[k] # 0 => Code[k] \in Codes /\ Code[k] \in Sent
    BY DEF Codes, Sent
  <1>3. \A r \in Rows : r \in 0..15
    BY <1>1 DEF Rows, Row
  <1>4. \A r \in Rows : Up(r) \in Sent /\ Up(r) >= 128 /\ RowOf(Up(r)) = r
    BY <1>3 DEF Up, RowOf, Sent
  <1>5. \A c \in Codes : c \in 1..127 /\ Row(c) \in Rows /\ RowOf(c) = Row(c)
    BY <1>1 DEF Codes, RowOf, Rows
  <1> QED BY <1>1, <1>2, <1>3, <1>4, <1>5

LEMMA Heard == \A byte \in Sent : byte \in 1..143 /\ RowOf(byte) \in Rows /\ (byte < 128 => byte \in Codes)
  BY Scan DEF Sent, Up

\* hid.v has a place for every byte that is sent.
LEMMA Kept == \A byte \in Sent : Latched(byte) = byte
  <1>1. \A c \in Codes : Latched(c) = c
    BY Scan DEF Latched
  <1>2. \A r \in Rows : Latched(Up(r)) = Up(r)
    <2> SUFFICES ASSUME NEW r \in Rows PROVE Row(Up(r)) = r
      BY Scan DEF Latched
    <2>1. r \in 0..15 /\ Up(r) = 128 + r
      BY Scan DEF Up
    <2>2. (128 + r) % 16 = r
      BY <2>1
    <2> QED BY <2>1, <2>2 DEF Row
  <1> QED BY <1>1, <1>2 DEF Sent

LEMMA Sending ==
  ASSUME NEW b \in Boards, NEW byte \in Sent, Send(b, byte)
  PROVE  keyboard' = byte /\ Arrives(byte)
  <1>1. Latched(byte) = byte
    BY Kept
  <1>2. keyboard' = Latched(byte) /\ Arrives(Latched(byte))
    BY DEF Send
  <1> QED BY ONLY <1>1, <1>2

Types ==
  /\ last \in [Boards -> Reports] /\ todo \in [Boards -> SUBSET EventType] /\ pc \in [Boards -> Places]
  /\ held \subseteq Keys /\ eaten \subseteq Keys /\ moved \subseteq Keys
  /\ rows \in [Rows -> 0..255] /\ code_of \in [Rows -> Codes \cup {0}]
  /\ gen \in [Rows -> 0..(Gens - 1)] /\ key_gen \in [Keys -> 0..(Gens - 1)]
  /\ osd \in BOOLEAN /\ press_btn \in BOOLEAN /\ init \in BOOLEAN /\ lost \in BOOLEAN /\ off \subseteq Rows
  /\ keyboard \in Sent \cup {255} /\ R177702 \in Sent \cup {0} /\ (press_btn => R177702 \in Sent)
  /\ kbd_q \in Seq(Sent) /\ Len(kbd_q) < Depth /\ (~press_btn => kbd_q = <<>>)
  /\ mach \in [Rows -> Codes \cup {0}]

AtKey ==
  \A b \in Boards : /\ pc[b] # "idle" => todo[b] # {}
                    /\ pc[b] \notin {"idle", "up"} => Code[Key(b)] # 0

LEMMA Least ==
  ASSUME NEW S, S \subseteq Nat, S # {}
  PROVE  \E i \in S : \A j \in S : i <= j
  <1>1. PICK i \in S : \A j \in S : ~(<<j, i>> \in OpToRel(<, Nat))
    BY NatLessThanWellFounded, WFMin
  <1>2. \A j \in S : ~(j < i)
    BY <1>1 DEF OpToRel
  <1> QED BY <1>2

\* The change that comes next.
LEMMA FirstIs ==
  ASSUME Types, NEW b \in Boards, todo[b] # {}
  PROVE  First(b) \in todo[b] /\ First(b) \in EventType /\ Key(b) \in Keys /\ KRow(b) \in Rows
  <1>1. todo[b] \subseteq EventType
    BY DEF Types
  <1>2. \E e \in todo[b] : \A f \in todo[b] : e.at <= f.at
    <2> DEFINE S == {e.at : e \in todo[b]}
    <2>1. S \subseteq Nat /\ S # {}
      BY <1>1, Sizes DEF EventType
    <2>2. PICK i \in S : \A j \in S : i <= j
      BY <2>1, Least
    <2> QED BY <2>2
  <1>3. First(b) \in todo[b]
    BY <1>2 DEF First
  <1>4. Key(b) \in Keys
    BY <1>1, <1>3 DEF Key, EventType
  <1> QED BY <1>1, <1>3, <1>4, Scan DEF KRow

LEMMA KeyStays == \A b \in Boards : todo'[b] = todo[b] => First(b)' = First(b) /\ Key(b)' = Key(b) /\ KRow(b)' = KRow(b)
  BY DEF First, Key, KRow

EventUp(i, old) == Event((Len(Mods) + 2 * i) - 1, old[i], FALSE)
EventDown(i, new) == Event(Len(Mods) + 2 * i, new[i], TRUE)

LEMMA SlotEvent ==
  ASSUME NEW old, NEW new, NEW e
  PROVE  e \in SlotEvents(old, new) <=>
           \E i \in 1..Slots : /\ old[i] # new[i]
                               /\ \/ old[i] # None /\ e = EventUp(i, old)
                                  \/ new[i] # None /\ e = EventDown(i, new)
  <1> DEFINE Changed == {i \in 1..Slots : old[i] # new[i]}
             Ups == {Event((Len(Mods) + 2 * i) - 1, old[i], FALSE) : i \in {j \in Changed : old[j] # None}}
             Downs == {Event(Len(Mods) + 2 * i, new[i], TRUE) : i \in {j \in Changed : new[j] # None}}
  <1>1. SlotEvents(old, new) = Ups \cup Downs
    BY DEF SlotEvents
  <1>2. e \in Ups <=> \E i \in 1..Slots : old[i] # new[i] /\ old[i] # None /\ e = EventUp(i, old)
    BY DEF EventUp
  <1>3. e \in Downs <=> \E i \in 1..Slots : old[i] # new[i] /\ new[i] # None /\ e = EventDown(i, new)
    BY DEF EventDown
  <1> HIDE DEF Ups, Downs
  <1> QED BY <1>1, <1>2, <1>3

\* What a report asks for is a set of changes.
LEMMA EventsAre ==
  ASSUME NEW old \in Reports, NEW new \in Reports
  PROVE  Events(old, new) \subseteq EventType
  <1> DEFINE Ats == 1..(Len(Mods) + 2 * Slots)
  <1>0. Len(Mods) \in Nat /\ Slots \in Nat /\ Slots > 0
    BY Sizes
  <1>1. \A at \in Ats, key \in Keys, pressed \in BOOLEAN : Event(at, key, pressed) \in EventType
    BY DEF Event, EventType
  <1>2. ASSUME NEW e \in ModEvents(old.mods, new.mods) PROVE e \in EventType
    <2>1. PICK i \in DOMAIN Mods : e = Event(i, Mods[i], Mods[i] \in new.mods)
      BY DEF ModEvents
    <2>2. i \in Ats /\ Mods[i] \in Keys
      BY <1>0, Sizes
    <2>3. (Mods[i] \in new.mods) \in BOOLEAN
      OBVIOUS
    <2> QED BY ONLY <2>1, <2>2, <2>3, <1>1
  <1>3. ASSUME NEW e \in SlotEvents(old.slot, new.slot) PROVE e \in EventType
    <2>1. PICK i \in 1..Slots :
            \/ old.slot[i] # None /\ e = EventUp(i, old.slot)
            \/ new.slot[i] # None /\ e = EventDown(i, new.slot)
      BY <1>3, SlotEvent
    <2>2. (Len(Mods) + 2 * i) - 1 \in Ats /\ Len(Mods) + 2 * i \in Ats
      BY <1>0
    <2>3. /\ old.slot[i] # None => old.slot[i] \in Keys
          /\ new.slot[i] # None => new.slot[i] \in Keys
      BY Sizes DEF Reports
    <2> QED BY ONLY <2>1, <2>2, <2>3, <1>1 DEF EventUp, EventDown
  <1> QED BY <1>2, <1>3 DEF Events

-----------------------------------------------------------------------------
(* Types *)

(* At power up nothing is held, sent or queued: kbd_parse starts from an    *)
(* empty report, the rollover tables are clear, and every thread is at its *)
(* first key.                                                              *)
THEOREM TypesInit == Init => Types /\ AtKey
  <1> SUFFICES ASSUME Init PROVE Types /\ AtKey
    OBVIOUS
  <1>1. Blank \in Reports /\ Blank.slot \in [1..Slots -> SlotKeys \cup {None}]
    BY DEF Blank, Reports
  <1>2. /\ last \in [Boards -> Reports] /\ todo \in [Boards -> SUBSET EventType] /\ pc \in [Boards -> Places]
    BY <1>1 DEF Init, Places
  <1>3. rows \in [Rows -> 0..255] /\ gen \in [Rows -> 0..(Gens - 1)] /\ key_gen \in [Keys -> 0..(Gens - 1)]
    BY Sizes DEF Init
  <1>4. kbd_q \in Seq(Sent) /\ Len(kbd_q) < Depth
    BY Sizes DEF Init
  <1>5. Types
    BY <1>2, <1>3, <1>4 DEF Init, Types
  <1> QED BY <1>5 DEF Init, AtKey

AtKeyOf(c) == /\ pc[c] # "idle" => todo[c] # {}
              /\ pc[c] \notin {"idle", "up"} => Code[Key(c)] # 0

\* What a thread does leaves the others' places alone.
LEMMA OthersAtKey ==
  ASSUME AtKey, NEW b \in Boards, \A c \in Boards \ {b} : todo'[c] = todo[c] /\ pc'[c] = pc[c], AtKeyOf(b)'
  PROVE  AtKey'
  <1> SUFFICES ASSUME NEW c \in Boards PROVE AtKeyOf(c)'
    BY DEF AtKey, AtKeyOf
  <1> QED BY KeyStays DEF AtKey, AtKeyOf

LEMMA ReportTypes ==
  ASSUME Types, AtKey, NEW b \in Boards, NEW new \in Reports, Report(b, new)
  PROVE  Types' /\ AtKey'
  <1>1. last[b] \in Reports
    BY DEF Types
  <1>2. Events(last[b], new) \in SUBSET EventType
    BY <1>1, EventsAre
  <1>3. moved' \subseteq Keys
    BY Sizes DEF Types, Report, Moved
  <1>6. last' \in [Boards -> Reports] /\ todo' \in [Boards -> SUBSET EventType]
    BY <1>2 DEF Types, Report
  <1>7. /\ UNCHANGED <<pc, held, rows, code_of, gen, key_gen, osd, keyboard, kbd_q, R177702, press_btn, init, mach, lost, off>>
        /\ eaten' \subseteq eaten
    BY DEF Report, tables, core
  <1>4. Types'
    BY SMTT(30), <1>3, <1>6, <1>7 DEF Types
  <1>5. AtKeyOf(b)'
    BY DEF Types, Report, AtKeyOf
  <1> QED BY <1>4, <1>5, OthersAtKey DEF Report, Types

LEMMA HandledTypes ==
  ASSUME Types, NEW b \in Boards, Handled(b)
  PROVE  todo' \in [Boards -> SUBSET EventType]
  BY DEF Types, Handled

LEMMA PressIgnoredTypes ==
  ASSUME Types, AtKey, NEW b \in Boards, PressIgnored(b)
  PROVE  Types' /\ AtKey'
  <1>1. Key(b) \in Keys
    BY FirstIs DEF PressIgnored, Awaits
  <1>2. Types'
    BY ZenonT(60), <1>1, HandledTypes DEF Types, PressIgnored, tables, core
  <1>3. AtKeyOf(b)'
    BY DEF PressIgnored, AtKeyOf, Awaits
  <1> QED BY <1>2, <1>3, OthersAtKey DEF PressIgnored, Handled, Types

LEMMA PressTypes ==
  ASSUME Types, AtKey, NEW b \in Boards, Press(b)
  PROVE  Types' /\ AtKey'
  <1>1. Key(b) \in Keys
    BY FirstIs DEF Press, Awaits
  <1>2. Types'
    BY <1>1 DEF Types, Press, Goto, Places, core
  <1>3. AtKeyOf(b)'
    BY KeyStays DEF Press, AtKeyOf, Awaits
  <1> QED BY <1>2, <1>3, OthersAtKey DEF Press, Goto, Types

LEMMA ForgetTypes ==
  ASSUME Types, AtKey, NEW b \in Boards, Forget(b)
  PROVE  Types' /\ AtKey'
  <1>1. KRow(b) \in Rows
    BY FirstIs DEF Forget, AtKey
  <1>2. (gen[KRow(b)] + 1) % Gens \in 0..(Gens - 1)
    BY <1>1, Sizes DEF Types
  <1>3. gen' \in [Rows -> 0..(Gens - 1)] /\ rows' \in [Rows -> 0..255]
    <2>1. gen' = [gen EXCEPT ![KRow(b)] = (gen[KRow(b)] + 1) % Gens] /\ gen \in [Rows -> 0..(Gens - 1)]
      BY DEF Forget, Types
    <2>2. rows' = [rows EXCEPT ![KRow(b)] = 0] /\ rows \in [Rows -> 0..255]
      BY DEF Forget, Types
    <2> QED BY ONLY <1>1, <1>2, <2>1, <2>2
  <1>4. Types'
    BY <1>3 DEF Types, Forget, Goto, Places, core
  <1>5. AtKeyOf(b)'
    BY KeyStays DEF Forget, AtKeyOf, AtKey
  <1> QED BY <1>4, <1>5, OthersAtKey DEF Forget, Goto, Types

LEMMA CountTypes ==
  ASSUME Types, AtKey, NEW b \in Boards, Count(b)
  PROVE  Types' /\ AtKey'
  <1>1. KRow(b) \in Rows /\ Key(b) \in Keys /\ Code[Key(b)] # 0
    BY FirstIs DEF Count, AtKey
  <1>2. (rows[KRow(b)] + 1) % 256 \in 0..255
    <2>1. rows[KRow(b)] \in 0..255
      BY <1>1 DEF Types
    <2> QED BY ONLY <2>1
  <1>3. code_of' \in [Rows -> Codes \cup {0}] /\ rows' \in [Rows -> 0..255] /\ key_gen' \in [Keys -> 0..(Gens - 1)]
    <2>1. rows' = [rows EXCEPT ![KRow(b)] = (rows[KRow(b)] + 1) % 256] /\ rows \in [Rows -> 0..255]
      BY DEF Count, Types
    <2>2. key_gen' = [key_gen EXCEPT ![Key(b)] = gen[KRow(b)]] /\ key_gen \in [Keys -> 0..(Gens - 1)]
          /\ gen[KRow(b)] \in 0..(Gens - 1)
      BY <1>1 DEF Count, Types
    <2>3. code_of' \in [Rows -> Codes \cup {0}]
      BY <1>1, Scan DEF Count, Types
    <2> QED BY ONLY <1>1, <1>2, <2>1, <2>2, <2>3
  <1>4. Types'
    BY SMTT(30), <1>3, HandledTypes DEF Types, Count, Goto, Places, core
  <1>5. AtKeyOf(b)'
    BY DEF Count, AtKeyOf, Goto, Types
  <1> QED BY <1>4, <1>5, OthersAtKey DEF Count, Goto, Handled, Types

LEMMA ReleaseTypes ==
  ASSUME Types, AtKey, NEW b \in Boards, Release(b)
  PROVE  Types' /\ AtKey'
  <1>1. KRow(b) \in Rows
    BY FirstIs DEF Release, Awaits
  <1>2. (rows[KRow(b)] - 1) % 256 \in 0..255
    <2>1. rows[KRow(b)] \in 0..255
      BY <1>1 DEF Types
    <2> QED BY ONLY <2>1
  <1>3. rows' \in [Rows -> 0..255]
    BY <1>1, <1>2 DEF Release, Types
  <1>4. /\ todo' \in [Boards -> SUBSET EventType] /\ pc' \in [Boards -> Places]
        /\ \A c \in Boards \ {b} : todo'[c] = todo[c] /\ pc'[c] = pc[c]
    <2>1. \/ Goto(b, "up") /\ UNCHANGED todo
          \/ UNCHANGED pc /\ Handled(b)
      BY DEF Release
    <2>2. CASE Goto(b, "up") /\ UNCHANGED todo
      BY <2>2 DEF Types, Goto, Places
    <2>3. CASE UNCHANGED pc /\ Handled(b)
      BY <2>3, HandledTypes DEF Types, Handled
    <2> QED BY <2>1, <2>2, <2>3
  <1>5. Types'
    BY SMTT(30), <1>3, <1>4 DEF Types, Release, core
  <1>6. AtKeyOf(b)'
    BY DEF Release, AtKeyOf, Goto, Awaits, Types
  <1> QED BY <1>4, <1>5, <1>6, OthersAtKey

LEMMA ArrivesTypes ==
  ASSUME Types, NEW byte \in Sent, Arrives(byte)
  PROVE  /\ press_btn' \in BOOLEAN /\ lost' \in BOOLEAN /\ off' \subseteq Rows
         /\ R177702' \in Sent \cup {0} /\ (press_btn' => R177702' \in Sent)
         /\ kbd_q' \in Seq(Sent) /\ Len(kbd_q') < Depth /\ (~press_btn' => kbd_q' = <<>>)
  <1>1. RowOf(byte) \in Rows
    BY Heard
  <1>2. CASE byte # keyboard /\ ~init /\ ~Full /\ press_btn
    <2>1. kbd_q' = Append(kbd_q, byte) /\ UNCHANGED <<press_btn, R177702, lost>> /\ off' \subseteq off
      BY <1>2 DEF Arrives
    <2>2. kbd_q \in Seq(Sent) /\ Len(kbd_q) # Depth - 1 /\ Len(kbd_q) < Depth /\ Depth \in Nat
      BY <1>2, Sizes DEF Full, Types
    <2>3. kbd_q' \in Seq(Sent) /\ Len(kbd_q') < Depth
      BY ONLY <2>1, <2>2, byte \in Sent
    <2> QED BY <1>2, <2>1, <2>3 DEF Types
  <1>3. CASE byte # keyboard /\ ~init /\ ~Full /\ ~press_btn
    <2>1. press_btn' = TRUE /\ R177702' = byte /\ UNCHANGED <<kbd_q, lost>> /\ off' \subseteq off
      BY <1>3 DEF Arrives
    <2> QED BY <1>3, <2>1 DEF Types
  <1>4. CASE ~(byte # keyboard /\ ~init /\ ~Full)
    <2>1. lost' = TRUE /\ off' = off \cup {RowOf(byte)} /\ UNCHANGED <<kbd_q, press_btn, R177702>>
      BY <1>4 DEF Arrives
    <2> QED BY <1>1, <2>1 DEF Types
  <1> QED BY <1>2, <1>3, <1>4

LEMMA SendTypes ==
  ASSUME Types, NEW b \in Boards, NEW byte \in Sent, Send(b, byte),
         pc' \in [Boards -> Places], todo' \in [Boards -> SUBSET EventType]
  PROVE  Types'
  <1>1. keyboard' = byte /\ Arrives(byte)
    BY Sending
  <1>2. /\ press_btn' \in BOOLEAN /\ lost' \in BOOLEAN /\ off' \subseteq Rows
        /\ R177702' \in Sent \cup {0} /\ (press_btn' => R177702' \in Sent)
        /\ kbd_q' \in Seq(Sent) /\ Len(kbd_q') < Depth /\ (~press_btn' => kbd_q' = <<>>)
    BY <1>1, ArrivesTypes
  <1>3. UNCHANGED <<last, held, rows, code_of, gen, key_gen, eaten, moved, osd, init, mach>>
    BY DEF Send, tables
  <1> QED BY <1>1, <1>2, <1>3 DEF Types

LEMMA SendsTypes ==
  ASSUME Types, AtKey, NEW b \in Boards, SendRoll(b) \/ SendPress(b) \/ SendUp(b)
  PROVE  Types' /\ AtKey'
  <1>1. Key(b) \in Keys /\ KRow(b) \in Rows
    BY FirstIs DEF SendRoll, SendPress, SendUp, AtKey
  <1>2. Up(KRow(b)) \in Sent
    BY <1>1, Scan
  <1>0. pc \in [Boards -> Places] /\ todo \in [Boards -> SUBSET EventType]
    BY DEF Types
  <1>3. CASE SendRoll(b)
    <2>1. Types'
      <3>1. pc' \in [Boards -> Places] /\ todo' = todo /\ Send(b, Up(KRow(b)))
        BY <1>0, <1>3 DEF SendRoll, Goto, Places
      <3> QED BY <1>0, <1>2, <3>1, SendTypes
    <2>2. AtKeyOf(b)'
      BY <1>0, <1>3, KeyStays DEF SendRoll, Goto, AtKeyOf, AtKey
    <2> QED BY <1>3, <2>1, <2>2, OthersAtKey DEF SendRoll, Goto, Types
  <1>4. CASE SendPress(b)
    <2>1. Code[Key(b)] \in Sent
      BY <1>1, <1>4, Scan DEF SendPress, AtKey
    <2>2. Types'
      <3>1. pc' \in [Boards -> Places] /\ todo' = todo /\ Send(b, Code[Key(b)])
        BY <1>0, <1>4 DEF SendPress, Goto, Places
      <3> QED BY <1>0, <2>1, <3>1, SendTypes
    <2>3. AtKeyOf(b)'
      BY <1>0, <1>4, KeyStays DEF SendPress, Goto, AtKeyOf, AtKey
    <2> QED BY <1>4, <2>2, <2>3, OthersAtKey DEF SendPress, Goto, Types
  <1>5. CASE SendUp(b)
    <2>1. Types'
      BY <1>2, <1>5, SendTypes, HandledTypes DEF SendUp, Goto, Places, Types
    <2>2. AtKeyOf(b)'
      BY <1>5 DEF SendUp, Goto, AtKeyOf, Types
    <2> QED BY <1>5, <2>1, <2>2, OthersAtKey DEF SendUp, Goto, Handled, Types
  <1> QED BY <1>3, <1>4, <1>5

LEMMA ReadTypes ==
  ASSUME Types, Read
  PROVE  Types'
  <1>1. R177702 \in Sent /\ RowOf(R177702) \in Rows /\ (R177702 < 128 => R177702 \in Codes) /\ R177702 \in 1..143
    BY Heard DEF Read, Types
  <1>2. (IF R177702 >= 128 THEN 0 ELSE R177702) \in Codes \cup {0}
    BY <1>1
  <1>3. mach' \in [Rows -> Codes \cup {0}]
    <2>1. /\ mach' = [mach EXCEPT ![RowOf(R177702)] = IF R177702 >= 128 THEN 0 ELSE R177702]
          /\ mach \in [Rows -> Codes \cup {0}]
      BY DEF Read, Types
    <2> QED BY ONLY <1>1, <1>2, <2>1
  <1>6. UNCHANGED <<last, todo, pc, held, rows, code_of, gen, key_gen, eaten, moved, osd, keyboard, init, lost, off>>
    BY DEF Read, mcu, tables
  <1>4. CASE kbd_q = <<>>
    <2>1. press_btn' = FALSE /\ UNCHANGED <<R177702, kbd_q>>
      BY <1>4 DEF Read
    <2> QED BY ZenonT(60), <1>3, <1>4, <1>6, <2>1 DEF Types
  <1>5. CASE kbd_q # <<>>
    <2>1. Head(kbd_q) \in Sent /\ Tail(kbd_q) \in Seq(Sent) /\ Len(Tail(kbd_q)) < Depth
      BY <1>5, Sizes DEF Types
    <2>2. R177702' = Head(kbd_q) /\ kbd_q' = Tail(kbd_q) /\ UNCHANGED press_btn /\ press_btn
      BY <1>5 DEF Read
    <2> QED BY <1>3, <1>6, <2>1, <2>2 DEF Types
  <1> QED BY <1>4, <1>5

LEMMA SeqIs ==
  ASSUME Types
  PROVE  \A byte \in Range(kbd_q) : byte \in Sent
  <1>1. kbd_q \in Seq(Sent)
    BY DEF Types
  <1> QED BY ONLY <1>1 DEF Range

LEMMA InitTypes ==
  ASSUME Types, InitOn \/ InitOff
  PROVE  Types'
  <1>1. CASE InitOn
    <2>1. \A byte \in Range(kbd_q) : RowOf(byte) \in Rows
      BY SeqIs, Heard DEF Types
    <2>2. /\ UNCHANGED <<last, todo, pc, held, rows, code_of, gen, key_gen, eaten, moved, osd, keyboard, R177702, press_btn, mach>>
          /\ init' = TRUE /\ kbd_q' = <<>>
      BY <1>1 DEF InitOn, mcu, tables
    <2>3. lost' \in BOOLEAN /\ off' \subseteq Rows
      BY <1>1, <2>1 DEF InitOn, Types
    <2>4. kbd_q' \in Seq(Sent) /\ Len(kbd_q') < Depth
      BY <2>2, Sizes
    <2> QED BY <2>2, <2>3, <2>4 DEF Types
  <1>2. CASE InitOff
    BY <1>2 DEF InitOff, Types, mcu, tables
  <1> QED BY <1>1, <1>2

LEMMA TypesStep == Types /\ AtKey /\ [Next]_vars => Types' /\ AtKey'
  <1> SUFFICES ASSUME Types, AtKey, [Next]_vars PROVE Types' /\ AtKey'
    OBVIOUS
  <1>1. ASSUME NEW b \in Boards, Thread(b) PROVE Types' /\ AtKey'
    BY <1>1, PressIgnoredTypes, PressTypes, ForgetTypes, CountTypes, ReleaseTypes, SendsTypes DEF Thread
  <1>2. ASSUME NEW b \in Boards, NEW new \in Reports, Report(b, new) PROVE Types' /\ AtKey'
    BY <1>2, ReportTypes
  <1>3. ASSUME UNCHANGED mcu PROVE AtKey'
    BY <1>3 DEF mcu, AtKey, Key, First
  <1>4. CASE Read \/ InitOn \/ InitOff
    BY <1>3, <1>4, ReadTypes, InitTypes DEF Read, InitOn, InitOff
  <1>5. CASE Menu
    BY SMTT(30), <1>3, <1>5 DEF Menu, Types, mcu, tables, core
  <1>6. CASE UNCHANGED vars
    BY SMTT(30), <1>3, <1>6 DEF vars, Types, mcu, tables, core
  <1> QED BY <1>1, <1>2, <1>4, <1>5, <1>6 DEF Next

\* Every variable keeps its type: the tables are bytes, every byte on its way is a
\* scan code or a row's release, the queue keeps one place free and holds nothing
\* while R177702 is empty.
THEOREM TypeCorrect == Spec => []TypeOK
  <1>1. Types => TypeOK
    BY SMTT(30), Scan DEF Types, TypeOK, Places, EventType, Sent, Bytes
  <1> QED BY <1>1, TypesInit, TypesStep, PTL DEF Spec

-----------------------------------------------------------------------------
(* One keyboard *)

Busy(b) == pc[b] \in {"roll", "rolled", "press", "pressed", "count"}
\* The keys that have been counted; the one in hand is not yet.
Told(b) == IF Busy(b) THEN held \ {Key(b)} ELSE held
\* Those of a row that have not been forgotten.
Live(b, row) == {k \in Told(b) : Row(Code[k]) = row /\ key_gen[k] = gen[row]}

\* The tables agree: rows counts the live keys, and all have the row's code.
Tables(b) ==
  /\ \A k \in held : Code[k] # 0
  /\ \A r \in Rows : rows[r] = Cardinality(Live(b, r))
  /\ \A r \in Rows : \A k \in Live(b, r) : Code[k] = code_of[r]

Place(b) ==
  /\ Busy(b) => First(b).pressed /\ Key(b) \in held
  /\ pc[b] \in {"roll", "rolled"} => rows[KRow(b)] # 0
  /\ pc[b] \in {"press", "pressed"} => rows[KRow(b)] = 0
  /\ pc[b] = "count" => rows[KRow(b)] # 0 /\ code_of[KRow(b)] = Code[Key(b)]
  /\ pc[b] = "up" => /\ ~First(b).pressed /\ Key(b) \notin held
                     /\ rows[KRow(b)] = 0 /\ code_of[KRow(b)] # 0

\* The generations that are still to come in this report belong to no key.
Fresh(b) ==
  /\ IsFiniteSet(todo[b])
  /\ \A r \in Rows : \A n \in 1..Rolls(todo[b], r) :
       n < Gens /\ \A k \in Told(b) : Row(Code[k]) = r => key_gen[k] # (gen[r] + n) % Gens

\* What is still to be handled brings the keys held in line with the keys down.
Due(b) ==
  /\ \A e \in todo[b] :
       IF e.pressed THEN e.key \in Down(last[b]) ELSE e.key \notin Down(last[b]) \/ e.key \in moved
  /\ \A k \in held \ Down(last[b]) : \E e \in todo[b] : ~e.pressed /\ e.key = k
  /\ \A k \in Down(last[b]) \ (eaten \cup moved) :
       Code[k] # 0 /\ k \notin held => \E e \in todo[b] : e.pressed /\ e.key = k

\* The bytes the program has still to read, and what the n first of them make of a row.
Pending == IF press_btn THEN <<R177702>> \o kbd_q ELSE <<>>
Val(byte) == IF byte >= 128 THEN 0 ELSE byte
Stands(m, s, n, row, c) ==
  \/ m[row] = c /\ \A i \in 1..n : RowOf(s[i]) # row
  \/ \E i \in 1..n : /\ RowOf(s[i]) = row /\ Val(s[i]) = c
                     /\ \A j \in 1..n : j > i => RowOf(s[j]) # row

\* What the MCU believes a row is held by, between its sends and its tables too.
Believed(b, row) ==
  IF pc[b] = "rolled" /\ KRow(b) = row THEN 0
  ELSE IF pc[b] = "pressed" /\ KRow(b) = row THEN Code[Key(b)]
  ELSE IF (pc[b] = "up" /\ KRow(b) = row) \/ rows[row] # 0 THEN code_of[row]
  ELSE 0

\* The program will come to believe the same of every row that has lost nothing.
Stream(b) == \A r \in Rows \ off : Stands(mach, Pending, Len(Pending), r, Believed(b, r))
\* Until a byte is lost, each pending byte is legal when its turn comes.
LegalPending ==
  ~lost => /\ off = {}
           /\ \A j \in 1..Len(Pending) : \E c \in Codes \cup {0} :
                /\ Stands(mach, Pending, j - 1, RowOf(Pending[j]), c)
                /\ c = 0 <=> Pending[j] < 128

IInv(b) == Types /\ AtKey /\ Tables(b) /\ Place(b) /\ Fresh(b) /\ Due(b) /\ Stream(b) /\ LegalPending

-----------------------------------------------------------------------------
(* The changes a report asks for *)

LEMMA EventKinds ==
  ASSUME NEW old \in Reports, NEW new \in Reports, NEW e \in Events(old, new)
  PROVE  IF e.pressed THEN e.key \in Down(new)
         ELSE e.key \notin Down(new) \/ e.key \in Moved(old.slot, new.slot)
  <1>1. CASE e \in ModEvents(old.mods, new.mods)
    <2>1. PICK i \in DOMAIN Mods : e = Event(i, Mods[i], Mods[i] \in new.mods)
      BY <1>1 DEF ModEvents
    <2>2. Mods[i] \in Range(Mods)
      BY DEF Range
    <2>3. Mods[i] \notin Range(new.slot) \ {None}
      BY <2>2, KeyboardAssumption DEF Reports, Range
    <2>4. e.key = Mods[i] /\ e.pressed = (Mods[i] \in new.mods)
      BY <2>1 DEF Event
    <2> QED BY <2>3, <2>4 DEF Down
  <1>2. CASE e \in SlotEvents(old.slot, new.slot)
    <2>1. PICK i \in 1..Slots :
            /\ old.slot[i] # new.slot[i]
            /\ \/ old.slot[i] # None /\ e = EventUp(i, old.slot)
               \/ new.slot[i] # None /\ e = EventDown(i, new.slot)
      BY <1>2, SlotEvent
    <2>2. /\ new.slot \in [1..Slots -> SlotKeys \cup {None}] /\ old.slot \in [1..Slots -> SlotKeys \cup {None}]
          /\ new.mods \subseteq Range(Mods)
      BY DEF Reports
    <2>3. CASE new.slot[i] # None /\ e = EventDown(i, new.slot)
      BY <2>2, <2>3 DEF EventDown, Event, Down, Range
    <2>4. CASE old.slot[i] # None /\ e = EventUp(i, old.slot)
      <3>1. e.key = old.slot[i] /\ e.pressed = FALSE /\ e.key \in SlotKeys
        BY <2>2, <2>4 DEF EventUp, Event
      <3>2. e.key \notin new.mods
        BY <2>2, <3>1, KeyboardAssumption
      <3>3. ASSUME e.key \in Range(new.slot) PROVE e.key \in Moved(old.slot, new.slot)
        <4>1. PICK j \in 1..Slots : new.slot[j] = e.key
          BY <2>2, <3>3 DEF Range
        <4> QED BY <2>1, <3>1, <4>1 DEF Moved
      <3> QED BY <3>1, <3>2, <3>3 DEF Down
    <2> QED BY <2>1, <2>3, <2>4
  <1> QED BY <1>1, <1>2 DEF Events

LEMMA EventsCome ==
  ASSUME NEW old \in Reports, NEW new \in Reports, NEW k
  PROVE  /\ k \in Down(old) \ Down(new) => \E e \in Events(old, new) : ~e.pressed /\ e.key = k
         /\ k \in Down(new) \ Down(old) => \E e \in Events(old, new) : e.pressed /\ e.key = k
  <1>1. /\ new.slot \in [1..Slots -> SlotKeys \cup {None}] /\ old.slot \in [1..Slots -> SlotKeys \cup {None}]
        /\ new.mods \subseteq Range(Mods) /\ old.mods \subseteq Range(Mods)
    BY DEF Reports
  <1>2. ASSUME k \in Range(Mods), (k \in old.mods) # (k \in new.mods)
        PROVE  \E e \in Events(old, new) : e.pressed = (k \in new.mods) /\ e.key = k
    <2>1. PICK i \in DOMAIN Mods : Mods[i] = k
      BY <1>2 DEF Range
    <2>2. Event(i, Mods[i], Mods[i] \in new.mods) \in Events(old, new)
      BY <1>2, <2>1 DEF Events, ModEvents
    <2> QED BY <2>1, <2>2 DEF Event
  <1>3. ASSUME k \in Range(old.slot) \ {None}, k \notin Range(new.slot)
        PROVE  \E e \in Events(old, new) : ~e.pressed /\ e.key = k
    <2>1. PICK i \in 1..Slots : old.slot[i] = k
      BY <1>1, <1>3 DEF Range
    <2>2. old.slot[i] # new.slot[i]
      BY <1>1, <1>3, <2>1 DEF Range
    <2>3. EventUp(i, old.slot) \in SlotEvents(old.slot, new.slot)
      BY <1>3, <2>1, <2>2, SlotEvent
    <2> QED BY <2>1, <2>3 DEF EventUp, Event, Events
  <1>4. ASSUME k \in Range(new.slot) \ {None}, k \notin Range(old.slot)
        PROVE  \E e \in Events(old, new) : e.pressed /\ e.key = k
    <2>1. PICK i \in 1..Slots : new.slot[i] = k
      BY <1>1, <1>4 DEF Range
    <2>2. old.slot[i] # new.slot[i]
      BY <1>1, <1>4, <2>1 DEF Range
    <2>3. EventDown(i, new.slot) \in SlotEvents(old.slot, new.slot)
      BY <1>4, <2>1, <2>2, SlotEvent
    <2> QED BY <2>1, <2>3 DEF EventDown, Event, Events
  <1> QED BY <1>1, <1>2, <1>3, <1>4 DEF Down

LEMMA EventsFinite ==
  ASSUME NEW old \in Reports, NEW new \in Reports
  PROVE  IsFiniteSet(Events(old, new))
  <1> DEFINE M == {j \in DOMAIN Mods : (Mods[j] \in old.mods) # (Mods[j] \in new.mods)}
             S == {i \in 1..Slots : old.slot[i] # new.slot[i]}
             Ups == {j \in S : old.slot[j] # None}
             Downs == {j \in S : new.slot[j] # None}
             fM == [i \in M |-> Event(i, Mods[i], Mods[i] \in new.mods)]
             fU == [i \in Ups |-> EventUp(i, old.slot)]
             fD == [i \in Downs |-> EventDown(i, new.slot)]
             UpEvents == {fU[i] : i \in Ups}
             DownEvents == {fD[i] : i \in Downs}
  <1>1. IsFiniteSet(M) /\ IsFiniteSet(Ups) /\ IsFiniteSet(Downs)
    <2>1. IsFiniteSet(1..Len(Mods)) /\ IsFiniteSet(1..Slots)
      BY Sizes, FS_Interval
    <2>2. M \in SUBSET (1..Len(Mods)) /\ Ups \in SUBSET (1..Slots) /\ Downs \in SUBSET (1..Slots)
      BY Sizes
    <2> QED BY <2>1, <2>2, FS_Subset
  <1>2. fM \in Surjection(M, ModEvents(old.mods, new.mods))
    BY DEF Surjection, ModEvents
  <1>3. fU \in Surjection(Ups, UpEvents) /\ fD \in Surjection(Downs, DownEvents)
    BY DEF Surjection
  <1>4. IsFiniteSet(ModEvents(old.mods, new.mods)) /\ IsFiniteSet(UpEvents) /\ IsFiniteSet(DownEvents)
    BY <1>1, <1>2, <1>3, FS_Surjection
  <1>5. SlotEvents(old.slot, new.slot) \subseteq UpEvents \cup DownEvents
    BY SlotEvent
  <1>6. Events(old, new) \in SUBSET (ModEvents(old.mods, new.mods) \cup (UpEvents \cup DownEvents))
    BY <1>5 DEF Events
  <1> QED BY <1>4, <1>6, FS_Union, FS_Subset

-----------------------------------------------------------------------------
(* What is due *)

LEMMA DueReport ==
  ASSUME Types, NEW b \in Boards, NEW new \in Reports, Due(b), Report(b, new)
  PROVE  Due(b)'
  <1> DEFINE old == last[b]
  <1>1. /\ old \in Reports /\ todo[b] = {} /\ todo'[b] = Events(old, new) /\ last'[b] = new
        /\ held' = held /\ eaten' = eaten \cap Down(new)
        /\ moved' = (moved \cap Down(new)) \cup Moved(old.slot, new.slot)
    BY DEF Types, Report, tables
  <1>2. ASSUME NEW e \in Events(old, new)
        PROVE  IF e.pressed THEN e.key \in Down(new) ELSE e.key \notin Down(new) \/ e.key \in moved'
    BY <1>1, EventKinds
  <1>3. ASSUME NEW k \in held \ Down(new) PROVE \E e \in Events(old, new) : ~e.pressed /\ e.key = k
    BY <1>1, EventsCome DEF Due
  <1>4. ASSUME NEW k \in Down(new) \ (eaten' \cup moved'), Code[k] # 0, k \notin held
        PROVE  \E e \in Events(old, new) : e.pressed /\ e.key = k
    BY <1>1, <1>4, EventsCome DEF Due
  <1> QED BY <1>1, <1>2, <1>3, <1>4 DEF Due

\* What Due asks of a step: only the first change may be handled, and if a key of it
\* has become held, let go or eaten, so must it be.
LEMMA DueStep ==
  ASSUME Types, NEW b \in Boards, Due(b), last'[b] = last[b], moved' = moved,
         todo[b] # {}, todo'[b] \in {todo[b], todo[b] \ {First(b)}},
         held' \in {held, held \cup {Key(b)}, held \ {Key(b)}}, eaten \subseteq eaten',
         Key(b) \in held' \ held => First(b).pressed,
         Key(b) \in held \ held' => ~First(b).pressed,
         todo'[b] # todo[b] => \/ First(b).pressed /\ (Key(b) \in held' \cup eaten' \/ Code[Key(b)] = 0)
                               \/ ~First(b).pressed /\ Key(b) \notin held'
  PROVE  Due(b)'
  <1>1. First(b) \in todo[b]
    BY FirstIs
  <1>2. \A e \in todo'[b] : e \in todo[b]
    OBVIOUS
  <1>3. ASSUME NEW k \in held' \ Down(last[b]) PROVE \E e \in todo'[b] : ~e.pressed /\ e.key = k
    <2>1. k \in held
      BY <1>1, <1>3 DEF Due, Key
    <2>2. PICK e \in todo[b] : ~e.pressed /\ e.key = k
      BY <1>3, <2>1 DEF Due
    <2> QED BY <2>2 DEF Key
  <1>4. ASSUME NEW k \in Down(last[b]) \ (eaten' \cup moved), Code[k] # 0, k \notin held'
        PROVE  \E e \in todo'[b] : e.pressed /\ e.key = k
    <2>1. k \notin held
      BY <1>1, <1>4 DEF Due, Key
    <2>2. PICK e \in todo[b] : e.pressed /\ e.key = k
      BY <1>4, <2>1 DEF Due
    <2> QED BY <1>4, <2>2 DEF Key
  <1> QED BY <1>2, <1>3, <1>4 DEF Due

LEMMA DueThread ==
  ASSUME Types, AtKey, NEW b \in Boards, Place(b), Due(b), Thread(b)
  PROVE  Due(b)'
  <1>1. todo[b] # {} /\ last'[b] = last[b] /\ moved' = moved
    BY DEF Thread, PressIgnored, Press, Forget, Count, Release, SendRoll, SendPress, SendUp, Send, AtKey, Awaits
  <1>2. Handled(b) => todo'[b] = todo[b] \ {First(b)}
    BY DEF Handled, Types
  <1>3. CASE PressIgnored(b)
    BY <1>1, <1>2, <1>3, DueStep DEF PressIgnored, Awaits, tables
  <1>4. CASE Press(b)
    BY <1>1, <1>4, DueStep DEF Press, Awaits
  <1>5. CASE Forget(b)
    BY <1>1, <1>5, DueStep DEF Forget
  <1>6. CASE Count(b)
    BY <1>1, <1>2, <1>6, DueStep DEF Count, Place, Busy
  <1>7. CASE Release(b)
    BY <1>1, <1>2, <1>7, DueStep DEF Release, Awaits
  <1>8. CASE SendRoll(b) \/ SendPress(b)
    BY <1>1, <1>8, DueStep DEF SendRoll, SendPress, Send, tables
  <1>9. CASE SendUp(b)
    BY <1>1, <1>2, <1>9, DueStep DEF SendUp, Send, tables, Place
  <1> QED BY <1>3, <1>4, <1>5, <1>6, <1>7, <1>8, <1>9 DEF Thread

-----------------------------------------------------------------------------
(* The generations *)

LEMMA Modulo ==
  ASSUME NEW m \in Nat, m > 0, NEW x \in Nat, x < 2 * m
  PROVE  x % m = IF x < m THEN x ELSE x - m
  OBVIOUS

LEMMA Onward ==
  ASSUME NEW m \in Nat, NEW g \in 0..(m - 1), NEW n \in Nat, n + 1 < m
  PROVE  (((g + 1) % m) + n) % m = (g + (n + 1)) % m
  <1>1. (g + 1) % m = IF g + 1 < m THEN g + 1 ELSE 0
    BY Modulo
  <1>2. CASE g + 1 < m
    BY <1>1, <1>2
  <1>3. CASE ~(g + 1 < m)
    <2>1. g + (n + 1) = m + n
      BY <1>3
    <2>2. (m + n) % m = n /\ n % m = n
      BY Modulo
    <2> QED BY <1>1, <1>3, <2>1, <2>2
  <1> QED BY <1>2, <1>3

\* What each step of the thread does to the keys that have been counted.
LEMMA ToldAfter ==
  ASSUME Types, AtKey, NEW b \in Boards
  PROVE  /\ PressIgnored(b) \/ Press(b) \/ Forget(b) \/ SendRoll(b) \/ SendPress(b) \/ SendUp(b)
              => Told(b)' = Told(b)
         /\ Count(b) => Told(b)' = held /\ ~Busy(b)'
         /\ Release(b) => Told(b)' = held \ {Key(b)} /\ Told(b) = held /\ ~Busy(b)'
  <1>1. pc \in [Boards -> Places]
    BY DEF Types
  <1>2. CASE PressIgnored(b)
    BY <1>2 DEF PressIgnored, Press, Forget, SendRoll, SendPress, SendUp, Count, Release, Awaits, Told, Busy, tables
  <1>3. CASE Press(b)
    BY <1>1, <1>3, KeyStays DEF Press, PressIgnored, Forget, SendRoll, SendPress, SendUp, Count, Release, Goto, Awaits, Told, Busy
  <1>4. CASE Forget(b)
    BY <1>1, <1>4, KeyStays DEF Forget, SendRoll, SendPress, SendUp, Count, Release, Goto, Awaits, Told, Busy
  <1>5. CASE SendRoll(b) \/ SendPress(b) \/ SendUp(b)
    BY <1>1, <1>5, KeyStays DEF SendRoll, SendPress, SendUp, Send, Count, Release, Goto, Awaits, Told, Busy, tables
  <1>6. CASE Count(b)
    BY <1>1, <1>6 DEF Count, PressIgnored, Press, Forget, SendRoll, SendPress, SendUp, Release, Goto, Awaits, Told, Busy
  <1>7. CASE Release(b)
    BY <1>1, <1>7, KeyStays DEF Release, Goto, Awaits, Told, Busy, PressIgnored, Press, Forget, SendRoll, SendPress, SendUp, Count
  <1> QED BY <1>2, <1>3, <1>4, <1>5, <1>6, <1>7

Presses(events, row) == {e \in events : e.pressed /\ Row(Code[e.key]) = row}

LEMMA PressesCount ==
  ASSUME NEW events, IsFiniteSet(events), NEW row
  PROVE  /\ Cardinality(Presses(events, row)) \in Nat
         /\ Rolls(events, row) = Cardinality(Presses(events, row)) - IF rows[row] = 0 THEN 1 ELSE 0
         /\ \A less \in SUBSET events : Cardinality(Presses(less, row)) <= Cardinality(Presses(events, row))
         /\ \A e \in Presses(events, row) :
              Cardinality(Presses(events \ {e}, row)) = Cardinality(Presses(events, row)) - 1
  <1>1. Presses(events, row) \in SUBSET events
    BY DEF Presses
  <1>2. IsFiniteSet(Presses(events, row)) /\ Cardinality(Presses(events, row)) \in Nat
    BY <1>1, FS_Subset, FS_CardinalityType
  <1>3. ASSUME NEW less \in SUBSET events
        PROVE  Cardinality(Presses(less, row)) <= Cardinality(Presses(events, row))
    <2>1. Presses(less, row) \in SUBSET Presses(events, row)
      BY DEF Presses
    <2> QED BY <1>2, <2>1, FS_Subset
  <1>4. ASSUME NEW e \in Presses(events, row)
        PROVE  Cardinality(Presses(events \ {e}, row)) = Cardinality(Presses(events, row)) - 1
    <2>1. Presses(events \ {e}, row) = Presses(events, row) \ {e}
      BY DEF Presses
    <2> QED BY <1>2, <2>1, FS_RemoveElement
  <1> QED BY <1>2, <1>3, <1>4 DEF Rolls, Presses

\* A step that handles no more than it counts leaves no more rollovers to come.
LEMMA FewerRolls ==
  ASSUME Types, NEW b \in Boards, IsFiniteSet(todo[b]), NEW r \in Rows,
         \/ todo'[b] \subseteq todo[b] /\ (rows'[r] = 0 \/ rows[r] # 0)
         \/ todo[b] # {} /\ First(b).pressed /\ KRow(b) = r /\ todo'[b] = todo[b] \ {First(b)}
  PROVE  IsFiniteSet(todo'[b]) /\ Rolls(todo[b], r) \in Int /\ Rolls(todo[b], r)' \in Int
         /\ Rolls(todo[b], r)' <= Rolls(todo[b], r)
  <1>1. todo'[b] \in SUBSET todo[b]
    OBVIOUS
  <1>2. IsFiniteSet(todo'[b])
    BY <1>1, FS_Subset
  <1>3. Rolls(todo[b], r) = Cardinality(Presses(todo[b], r)) - IF rows[r] = 0 THEN 1 ELSE 0
    BY PressesCount
  <1>4. Rolls(todo[b], r)' = Cardinality(Presses(todo'[b], r)) - IF rows'[r] = 0 THEN 1 ELSE 0
    BY DEF Rolls, Presses
  <1>5. /\ Cardinality(Presses(todo[b], r)) \in Nat /\ Cardinality(Presses(todo'[b], r)) \in Nat
        /\ Cardinality(Presses(todo'[b], r)) <= Cardinality(Presses(todo[b], r))
    BY <1>1, <1>2, PressesCount
  <1>6. CASE todo[b] # {} /\ First(b).pressed /\ KRow(b) = r /\ todo'[b] = todo[b] \ {First(b)}
    <2>1. First(b) \in Presses(todo[b], r)
      BY <1>6, FirstIs DEF Presses, KRow, Key
    <2>2. Cardinality(Presses(todo'[b], r)) = Cardinality(Presses(todo[b], r)) - 1
      BY <1>6, <2>1, PressesCount
    <2> QED BY <1>2, <1>3, <1>4, <1>5, <2>2
  <1> QED BY <1>2, <1>3, <1>4, <1>5, <1>6

LEMMA FreshStep ==
  ASSUME Types, NEW b \in Boards, Fresh(b), IsFiniteSet(todo'[b]), gen' = gen, Told(b)' \subseteq Keys,
         \A k \in Told(b)' : (k \in Told(b) /\ key_gen'[k] = key_gen[k]) \/ key_gen'[k] = gen[Row(Code[k])],
         \A r \in Rows : /\ Rolls(todo[b], r) \in Int /\ Rolls(todo[b], r)' \in Int
                         /\ Rolls(todo[b], r)' <= Rolls(todo[b], r)
  PROVE  Fresh(b)'
  <1> SUFFICES ASSUME NEW r \in Rows, NEW n \in 1..(Rolls(todo[b], r)')
               PROVE  n < Gens /\ \A k \in Told(b)' : Row(Code[k]) = r => key_gen'[k] # (gen[r] + n) % Gens
    BY DEF Fresh
  <1>1. n \in 1..Rolls(todo[b], r) /\ n \in Nat /\ n > 0
    OBVIOUS
  <1>2. n < Gens /\ \A k \in Told(b) : Row(Code[k]) = r => key_gen[k] # (gen[r] + n) % Gens
    BY <1>1 DEF Fresh
  <1>3. (gen[r] + n) % Gens # gen[r]
    <2>1. gen[r] \in 0..(Gens - 1) /\ Gens \in Nat /\ Gens > 0
      BY Sizes DEF Types
    <2>2. gen[r] + n \in Nat /\ gen[r] + n < 2 * Gens
      BY <1>1, <1>2, <2>1
    <2> QED BY <1>1, <1>2, <2>1, <2>2, Modulo
  <1> QED BY <1>2, <1>3

LEMMA LiveFinite ==
  ASSUME Types, NEW b \in Boards, NEW r \in Rows
  PROVE  /\ IsFiniteSet(Live(b, r)) /\ Cardinality(Live(b, r)) \in Nat /\ Cardinality(Live(b, r)) < 256
         /\ Cardinality(Live(b, r)) = 0 <=> Live(b, r) = {}
  <1>1. Live(b, r) \in SUBSET Keys
    BY DEF Live, Told, Types
  <1>2. IsFiniteSet(Keys) /\ Cardinality(Keys) \in Nat /\ Cardinality(Keys) < 256
    BY KeyboardAssumption, FS_CardinalityType
  <1>3. IsFiniteSet(Live(b, r)) /\ Cardinality(Live(b, r)) <= Cardinality(Keys)
    BY <1>1, <1>2, FS_Subset
  <1>4. Cardinality(Live(b, r)) \in Nat /\ (Cardinality(Live(b, r)) = 0 <=> Live(b, r) = {})
    BY <1>3, FS_CardinalityType, FS_EmptySet
  <1> QED BY <1>2, <1>3, <1>4

LEMMA FreshReport ==
  ASSUME Types, AtKey, NEW b \in Boards, NEW new \in Reports, Report(b, new), Rollovers # "any"
  PROVE  Fresh(b)'
  <1>1. /\ last[b] \in Reports /\ todo'[b] = Events(last[b], new) /\ pc[b] = "idle"
        /\ UNCHANGED <<pc, held, rows, gen, key_gen>> /\ WithinGens(Events(last[b], new))
    BY DEF Report, Types, tables
  <1>2. Told(b)' = held
    BY <1>1 DEF Told, Busy
  <1>3. IsFiniteSet(todo'[b])
    BY <1>1, EventsFinite
  <1>4. ASSUME NEW r \in Rows, NEW n \in 1..(Rolls(todo[b], r)')
        PROVE  n < Gens /\ \A k \in held : Row(Code[k]) = r => key_gen[k] # (gen[r] + n) % Gens
    <2>1. Rolls(todo[b], r)' = Rolls(Events(last[b], new), r)
      BY <1>1 DEF Rolls
    <2>2. n < Gens /\ (gen[r] + n) % Gens \notin Forgotten(r)
      BY <1>1, <2>1 DEF WithinGens
    <2>3. (gen[r] + n) % Gens # gen[r]
      <3>1. gen[r] \in 0..(Gens - 1) /\ Gens \in Nat /\ Gens > 0
        BY Sizes DEF Types
      <3>2. gen[r] + n \in Nat /\ gen[r] + n < 2 * Gens
        BY <2>2, <3>1
      <3> QED BY <2>2, <3>1, <3>2, Modulo
    <2> QED BY <2>2, <2>3 DEF Forgotten
  <1> QED BY <1>1, <1>2, <1>3, <1>4 DEF Fresh

LEMMA FreshForget ==
  ASSUME Types, AtKey, NEW b \in Boards, Fresh(b), Place(b), Forget(b)
  PROVE  /\ Fresh(b)'
         /\ \A k \in Told(b) : Row(Code[k]) = KRow(b) => key_gen[k] # gen'[KRow(b)]
  <1>0. pc[b] = "rolled" /\ todo[b] # {} /\ KRow(b) \in Rows /\ First(b).pressed /\ rows[KRow(b)] # 0
    BY FirstIs DEF Forget, AtKey, Place, Busy
  <1>1. PICK row \in Rows : row = KRow(b)
    BY <1>0
  <1>2. /\ UNCHANGED <<todo, held, key_gen>>
        /\ gen'[row] = (gen[row] + 1) % Gens /\ rows'[row] = 0
        /\ \A r \in Rows \ {row} : gen'[r] = gen[r] /\ rows'[r] = rows[r]
    BY <1>0, <1>1 DEF Forget, Types
  <1>3. Told(b)' = Told(b)
    BY ToldAfter
  <1>4. IsFiniteSet(todo[b])
    BY DEF Fresh
  <1>5. /\ Cardinality(Presses(todo[b], row)) \in Nat /\ Cardinality(Presses(todo[b], row)) > 0
        /\ Rolls(todo[b], row) = Cardinality(Presses(todo[b], row))
        /\ Rolls(todo[b], row)' = Cardinality(Presses(todo[b], row)) - 1
    <2>1. First(b) \in Presses(todo[b], row)
      BY <1>0, <1>1, FirstIs DEF Presses, KRow, Key
    <2>2. /\ Cardinality(Presses(todo[b] \ {First(b)}, row)) = Cardinality(Presses(todo[b], row)) - 1
          /\ Cardinality(Presses(todo[b], row)) \in Nat
      BY <1>4, <2>1, PressesCount
    <2>3. Cardinality(Presses(todo[b] \ {First(b)}, row)) \in Nat
      BY <1>4, FS_RemoveElement, PressesCount
    <2>4. Rolls(todo[b], row) = Cardinality(Presses(todo[b], row)) - IF rows[row] = 0 THEN 1 ELSE 0
      BY <1>4, PressesCount
    <2>5. Rolls(todo[b], row)' = Cardinality(Presses(todo[b], row)) - IF rows'[row] = 0 THEN 1 ELSE 0
      BY <1>2 DEF Rolls, Presses
    <2> QED BY <1>0, <1>1, <1>2, <2>2, <2>3, <2>4, <2>5
  <1>6. gen[row] \in 0..(Gens - 1) /\ Gens \in Nat /\ Gens > 0
    BY <1>1, Sizes DEF Types
  <1>7. 1 < Gens /\ \A k \in Told(b) : Row(Code[k]) = row => key_gen[k] # gen'[row]
    <2>1. 1 \in 1..Rolls(todo[b], row)
      BY <1>5
    <2> QED BY <1>1, <1>2, <2>1 DEF Fresh
  <1>8. ASSUME NEW r \in Rows, NEW n \in 1..(Rolls(todo[b], r)')
        PROVE  n < Gens /\ \A k \in Told(b) : Row(Code[k]) = r => key_gen[k] # (gen'[r] + n) % Gens
    <2>1. CASE r = row
      <3>1. n + 1 \in 1..Rolls(todo[b], row) /\ n \in Nat
        BY <1>5, <2>1
      <3>2. n + 1 < Gens /\ \A k \in Told(b) : Row(Code[k]) = row => key_gen[k] # (gen[row] + (n + 1)) % Gens
        BY <1>1, <3>1 DEF Fresh
      <3>3. (gen'[row] + n) % Gens = (gen[row] + (n + 1)) % Gens
        <4>1. PICK g \in 0..(Gens - 1) : g = gen[row]
          BY <1>6
        <4>2. (((g + 1) % Gens) + n) % Gens = (g + (n + 1)) % Gens
          BY <1>6, <3>1, <3>2, Onward
        <4> QED BY <1>2, <4>1, <4>2
      <3> QED BY <2>1, <3>1, <3>2, <3>3, <1>6
    <2>2. CASE r # row
      <3>1. Rolls(todo[b], r)' = Rolls(todo[b], r)
        BY <1>2, <2>2 DEF Rolls
      <3> QED BY <1>2, <2>2, <3>1 DEF Fresh
    <2> QED BY <2>1, <2>2
  <1> QED BY <1>1, <1>2, <1>3, <1>4, <1>7, <1>8 DEF Fresh

LEMMA FreshThread ==
  ASSUME Types, AtKey, NEW b \in Boards, Fresh(b), Place(b), Tables(b), Thread(b)
  PROVE  Fresh(b)'
  <1>1. /\ todo[b] # {} /\ IsFiniteSet(todo[b]) /\ First(b) \in todo[b]
        /\ Key(b) \in Keys /\ KRow(b) \in Rows
    BY FirstIs DEF Fresh, AtKey, Thread, PressIgnored, Press, Forget, Count, Release, SendRoll, SendPress, SendUp, Awaits
  <1>2. Handled(b) => todo'[b] = todo[b] \ {First(b)}
    BY DEF Handled, Types
  <1>3. Told(b) \subseteq Keys /\ held \subseteq Keys
    BY DEF Types, Told
  <1>4. CASE PressIgnored(b) \/ Press(b) \/ SendRoll(b) \/ SendPress(b) \/ SendUp(b)
    <2>1. UNCHANGED <<gen, rows, key_gen>> /\ todo'[b] \subseteq todo[b]
      BY <1>2, <1>4 DEF PressIgnored, Press, SendRoll, SendPress, SendUp, Send, tables
    <2>2. Told(b)' = Told(b)
      BY <1>4, ToldAfter
    <2>3. IsFiniteSet(todo'[b])
      BY <1>1, <2>1, FS_Subset
    <2>4. \A r \in Rows : /\ Rolls(todo[b], r) \in Int /\ Rolls(todo[b], r)' \in Int
                          /\ Rolls(todo[b], r)' <= Rolls(todo[b], r)
      BY <1>1, <2>1, FewerRolls
    <2> QED BY <1>3, <2>1, <2>2, <2>3, <2>4, FreshStep
  <1>5. CASE Forget(b)
    BY <1>5, FreshForget
  <1>6. CASE Count(b)
    <2>1. /\ gen' = gen /\ held' = held /\ todo'[b] = todo[b] \ {First(b)} /\ First(b).pressed
          /\ key_gen'[Key(b)] = gen[Row(Code[Key(b)])]
          /\ \A k \in Keys \ {Key(b)} : key_gen'[k] = key_gen[k]
          /\ \A r \in Rows \ {KRow(b)} : rows'[r] = rows[r]
      BY <1>1, <1>2, <1>6 DEF Count, Types, Place, Busy, KRow
    <2>2. Told(b)' = held /\ held \subseteq Told(b) \cup {Key(b)}
      BY <1>6, ToldAfter DEF Told
    <2>3. IsFiniteSet(todo'[b])
      BY <1>1, <2>1, FS_Subset
    <2>4. \A r \in Rows : /\ Rolls(todo[b], r) \in Int /\ Rolls(todo[b], r)' \in Int
                          /\ Rolls(todo[b], r)' <= Rolls(todo[b], r)
      BY <1>1, <2>1, FewerRolls
    <2>5. \A k \in Told(b)' : (k \in Told(b) /\ key_gen'[k] = key_gen[k]) \/ key_gen'[k] = gen[Row(Code[k])]
      BY <1>3, <2>1, <2>2
    <2> QED BY <1>3, <2>1, <2>2, <2>3, <2>4, <2>5, FreshStep
  <1>7. CASE Release(b)
    <2>1. gen' = gen /\ key_gen' = key_gen /\ todo'[b] \subseteq todo[b]
      BY <1>2, <1>7 DEF Release
    <2>2. Told(b)' \subseteq Told(b)
      BY <1>7, ToldAfter
    <2>3. IsFiniteSet(todo'[b])
      BY <1>1, <2>1, FS_Subset
    <2>4. ASSUME NEW r \in Rows PROVE rows'[r] = 0 \/ rows[r] # 0
      <3>1. CASE rows'[r] = rows[r]
        BY <3>1
      <3>2. CASE rows'[r] # rows[r]
        <4>1. r = KRow(b) /\ Key(b) \in held /\ key_gen[Key(b)] = gen[KRow(b)]
          BY <1>1, <1>7, <3>2 DEF Release, Types
        <4>2. Key(b) \in Live(b, r)
          BY <1>7, <4>1, ToldAfter DEF Live, KRow
        <4> QED BY <4>2, LiveFinite DEF Tables
      <3> QED BY <3>1, <3>2
    <2>5. \A r \in Rows : /\ Rolls(todo[b], r) \in Int /\ Rolls(todo[b], r)' \in Int
                          /\ Rolls(todo[b], r)' <= Rolls(todo[b], r)
      BY <1>1, <2>1, <2>4, FewerRolls
    <2> QED BY <1>3, <2>1, <2>2, <2>3, <2>5, FreshStep
  <1> QED BY <1>4, <1>5, <1>6, <1>7 DEF Thread

-----------------------------------------------------------------------------
(* The tables *)

\* A step that changes nothing of what has been counted.
LEMMA TablesStay ==
  ASSUME Types, NEW b \in Boards, Tables(b), Told(b)' = Told(b), UNCHANGED <<rows, code_of, gen, key_gen>>,
         \A k \in held' : k \in held \/ Code[k] # 0
  PROVE  Tables(b)'
  <1>1. \A r \in Rows : Live(b, r)' = Live(b, r)
    BY DEF Live
  <1> QED BY <1>1 DEF Tables

LEMMA TablesForget ==
  ASSUME Types, AtKey, NEW b \in Boards, Tables(b), Fresh(b), Place(b), Forget(b)
  PROVE  Tables(b)'
  <1>1. KRow(b) \in Rows
    BY FirstIs DEF Forget, AtKey
  <1>2. /\ UNCHANGED <<held, key_gen, code_of>> /\ rows'[KRow(b)] = 0
        /\ \A r \in Rows \ {KRow(b)} : gen'[r] = gen[r] /\ rows'[r] = rows[r]
    BY <1>1 DEF Forget, Types
  <1>3. Told(b)' = Told(b)
    BY ToldAfter
  <1>4. ASSUME NEW r \in Rows, r # KRow(b) PROVE Live(b, r)' = Live(b, r)
    BY <1>2, <1>3, <1>4 DEF Live
  <1>5. ASSUME NEW r \in Rows, r = KRow(b) PROVE Live(b, r)' = {}
    BY <1>2, <1>3, <1>5, FreshForget DEF Live
  <1> QED BY <1>1, <1>2, <1>4, <1>5, FS_EmptySet DEF Tables

LEMMA TablesCount ==
  ASSUME Types, AtKey, NEW b \in Boards, Tables(b), Place(b), Count(b)
  PROVE  /\ Tables(b)'
         /\ \A r \in Rows : IF r = KRow(b) THEN rows'[r] = rows[r] + 1 /\ code_of'[r] = Code[Key(b)]
                            ELSE rows'[r] = rows[r] /\ code_of'[r] = code_of[r]
  <1> DEFINE key == Key(b)
  <1>1. KRow(b) \in Rows /\ key \in Keys /\ Row(Code[key]) = KRow(b) /\ key \in held
    BY FirstIs DEF Count, AtKey, Place, Busy, KRow
  <1>2. /\ UNCHANGED <<held, gen>> /\ rows'[KRow(b)] = (rows[KRow(b)] + 1) % 256
        /\ code_of'[KRow(b)] = IF pc[b] = "pressed" THEN Code[key] ELSE code_of[KRow(b)]
        /\ key_gen'[key] = gen[KRow(b)] /\ \A k \in Keys \ {key} : key_gen'[k] = key_gen[k]
        /\ \A r \in Rows \ {KRow(b)} : code_of'[r] = code_of[r] /\ rows'[r] = rows[r]
    BY <1>1 DEF Count, Types
  <1>3. Told(b)' = held /\ Told(b) = held \ {key} /\ held \subseteq Keys
    BY ToldAfter DEF Count, Told, Busy, Types
  <1>4. ASSUME NEW r \in Rows, r # KRow(b) PROVE Live(b, r)' = Live(b, r)
    <2>1. \A k \in Live(b, r)' : k \in Live(b, r)
      BY <1>1, <1>2, <1>3, <1>4 DEF Live
    <2>2. \A k \in Live(b, r) : k \in Live(b, r)'
      BY <1>1, <1>2, <1>3, <1>4 DEF Live
    <2> QED BY <2>1, <2>2
  <1>5. ASSUME NEW r \in Rows, r = KRow(b)
        PROVE  Live(b, r)' = Live(b, r) \cup {key} /\ key \notin Live(b, r)
    <2>1. \A k \in Live(b, r)' : k \in Live(b, r) \cup {key}
      BY <1>1, <1>2, <1>3, <1>5 DEF Live
    <2>2. \A k \in Live(b, r) \cup {key} : k \in Live(b, r)'
      BY <1>1, <1>2, <1>3, <1>5 DEF Live
    <2>3. key \notin Live(b, r)
      BY <1>3 DEF Live
    <2> QED BY <2>1, <2>2, <2>3
  <1>6. Types'
    BY CountTypes
  <1>7. ASSUME NEW r \in Rows, r = KRow(b)
        PROVE  rows'[r] = rows[r] + 1 /\ rows'[r] = Cardinality(Live(b, r)')
    <2>1. r = KRow(b)
      BY <1>7
    <2>2. /\ IsFiniteSet(Live(b, r)) /\ Cardinality(Live(b, r)) \in Nat
          /\ rows[r] = Cardinality(Live(b, r))
      BY <2>1, LiveFinite DEF Tables
    <2>3. Cardinality(Live(b, r)') = Cardinality(Live(b, r)) + 1
      BY <1>5, <2>1, <2>2, FS_AddElement
    <2>4. Cardinality(Live(b, r)') < 256
      <3>1. Live(b, r)' \in SUBSET Keys
        BY <1>3 DEF Live
      <3> QED BY <3>1, KeyboardAssumption, FS_Subset, FS_CardinalityType
    <2> QED BY <1>2, <2>1, <2>2, <2>3, <2>4
  <1>8. code_of'[KRow(b)] = Code[key] /\ \A k \in Live(b, KRow(b)) : Code[k] = Code[key]
    <2>1. CASE pc[b] = "pressed"
      BY <1>1, <1>2, <2>1, LiveFinite DEF Place, Tables
    <2>2. CASE pc[b] = "count"
      BY <1>1, <1>2, <2>2 DEF Place, Tables
    <2> QED BY <2>1, <2>2 DEF Count
  <1>9. \A k \in held : Code[k] # 0
    BY DEF Tables
  <1>10. \A r \in Rows : /\ rows'[r] = Cardinality(Live(b, r)')
                         /\ \A k \in Live(b, r)' : Code[k] = code_of'[r]
    <2> SUFFICES ASSUME NEW r \in Rows
                 PROVE  /\ rows'[r] = Cardinality(Live(b, r)')
                        /\ \A k \in Live(b, r)' : Code[k] = code_of'[r]
      OBVIOUS
    <2>1. CASE r = KRow(b)
      BY <1>5, <1>7, <1>8, <2>1
    <2>2. CASE r # KRow(b)
      BY <1>2, <1>4, <2>2 DEF Tables
    <2> QED BY <2>1, <2>2
  <1>11. Tables(b)'
    BY <1>2, <1>9, <1>10 DEF Tables
  <1> QED BY <1>2, <1>7, <1>8, <1>11

\* A live key is the one that Release counts off.
LEMMA TablesRelease ==
  ASSUME Types, AtKey, NEW b \in Boards, Tables(b), Release(b)
  PROVE  /\ Tables(b)' /\ UNCHANGED code_of /\ Key(b) \notin held'
         /\ \/ UNCHANGED rows /\ pc'[b] = "idle" /\ pc[b] = "idle"
            \/ /\ rows[KRow(b)] # 0 /\ rows'[KRow(b)] = rows[KRow(b)] - 1 /\ code_of[KRow(b)] # 0
               /\ \A r \in Rows \ {KRow(b)} : rows'[r] = rows[r]
               /\ pc[b] = "idle" /\ pc'[b] = IF rows[KRow(b)] = 1 THEN "up" ELSE "idle"
               /\ rows[KRow(b)] = 1 => UNCHANGED todo
  <1> DEFINE key == Key(b)
             live == key \in held /\ key_gen[key] = gen[KRow(b)]
  <1>1. KRow(b) \in Rows /\ key \in Keys /\ Row(Code[key]) = KRow(b) /\ pc[b] = "idle" /\ pc \in [Boards -> Places]
    BY FirstIs DEF Release, Awaits, KRow, Types
  <1>2. UNCHANGED <<gen, key_gen, code_of>> /\ held' = held \ {key}
    BY DEF Release
  <1>3. Told(b) = held /\ Told(b)' = held \ {key}
    BY ToldAfter
  <1>4. \A r \in Rows : Live(b, r)' = Live(b, r) \ {key}
    BY <1>2, <1>3 DEF Live
  <1>5. \A k \in held' : Code[k] # 0
    BY <1>2 DEF Tables
  <1>6. CASE ~live
    <2>1. \A r \in Rows : key \notin Live(b, r)
      BY <1>1, <1>3, <1>6 DEF Live
    <2>2. UNCHANGED <<rows, pc>>
      BY <1>6 DEF Release
    <2>3. \A r \in Rows : Live(b, r)' = Live(b, r)
      BY <1>4, <2>1
    <2> QED BY <1>1, <1>2, <1>5, <2>2, <2>3 DEF Tables
  <1>7. CASE live
    <2>1. PICK r \in Rows : r = KRow(b)
      BY <1>1
    <2>2. key \in Live(b, r) /\ \A q \in Rows \ {r} : key \notin Live(b, q)
      BY <1>1, <1>3, <1>7, <2>1 DEF Live
    <2>3. /\ IsFiniteSet(Live(b, r)) /\ Cardinality(Live(b, r)) \in Nat /\ Cardinality(Live(b, r)) < 256
          /\ Cardinality(Live(b, r)) # 0 /\ rows[r] = Cardinality(Live(b, r))
      BY <2>2, LiveFinite DEF Tables
    <2>4. Cardinality(Live(b, r)') = rows[r] - 1
      BY <1>4, <2>2, <2>3, FS_RemoveElement
    <2>5. rows' = [rows EXCEPT ![r] = (rows[r] - 1) % 256] /\ rows \in [Rows -> 0..255]
      BY <1>7, <2>1 DEF Release, Types
    <2>6. (rows[r] - 1) % 256 = rows[r] - 1
      BY <2>3
    <2>7. rows'[r] = rows[r] - 1 /\ \A q \in Rows \ {r} : rows'[q] = rows[q]
      BY <2>5, <2>6
    <2>8. \A q \in Rows : rows'[q] = Cardinality(Live(b, q)') /\ \A k \in Live(b, q)' : Code[k] = code_of[q]
      BY <1>4, <2>2, <2>4, <2>7 DEF Tables
    <2>9. Tables(b)'
      BY <1>2, <1>5, <2>8 DEF Tables
    <2>10. code_of[r] # 0
      BY <1>7, <2>2 DEF Tables
    <2>11. /\ pc'[b] = IF rows[r] = 1 THEN "up" ELSE "idle"
           /\ rows[r] = 1 => UNCHANGED todo
      BY <1>1, <1>7, <2>1 DEF Release, Goto
    <2> QED BY <1>1, <1>2, <2>1, <2>3, <2>7, <2>9, <2>10, <2>11
  <1> QED BY <1>6, <1>7

LEMMA TablesThread ==
  ASSUME Types, AtKey, NEW b \in Boards, Fresh(b), Place(b), Tables(b), Thread(b)
  PROVE  Tables(b)'
  <1>1. CASE PressIgnored(b) \/ Press(b) \/ SendRoll(b) \/ SendPress(b) \/ SendUp(b)
    <2>1. UNCHANGED <<rows, code_of, gen, key_gen>> /\ \A k \in held' : k \in held \/ Code[k] # 0
      BY <1>1 DEF PressIgnored, Press, SendRoll, SendPress, SendUp, Send, tables
    <2> QED BY <1>1, <2>1, ToldAfter, TablesStay
  <1> QED BY <1>1, TablesForget, TablesCount, TablesRelease DEF Thread

LEMMA PlaceThread ==
  ASSUME Types, AtKey, NEW b \in Boards, Fresh(b), Place(b), Tables(b), Thread(b)
  PROVE  Place(b)'
  <1>1. pc \in [Boards -> Places]
    BY DEF Types
  <1>2. CASE PressIgnored(b) \/ Count(b) \/ SendUp(b)
    <2>1. pc'[b] = "idle"
      BY <1>1, <1>2 DEF PressIgnored, Count, SendUp, Goto, Awaits
    <2> QED BY <2>1 DEF Place, Busy
  <1>3. CASE Press(b)
    <2>1. /\ First(b).pressed /\ held' = held \cup {Key(b)} /\ UNCHANGED <<todo, rows, code_of>>
          /\ pc'[b] = IF rows[KRow(b)] # 0 /\ Code[Key(b)] # code_of[KRow(b)] THEN "roll"
                      ELSE IF rows[KRow(b)] = 0 THEN "press" ELSE "count"
      BY <1>1, <1>3 DEF Press, Goto, Awaits
    <2> QED BY <2>1, KeyStays DEF Place, Busy
  <1>4. CASE Forget(b)
    <2>1. KRow(b) \in Rows
      BY <1>4, FirstIs DEF Forget, AtKey
    <2>2. /\ First(b).pressed /\ Key(b) \in held /\ UNCHANGED <<held, todo>>
          /\ rows'[KRow(b)] = 0 /\ pc'[b] = "press"
      BY <1>1, <1>4, <2>1 DEF Forget, Goto, Place, Busy, Types
    <2> QED BY <2>2, KeyStays DEF Place, Busy
  <1>5. CASE SendRoll(b) \/ SendPress(b)
    <2>1. /\ UNCHANGED <<held, todo, rows>> /\ First(b).pressed /\ Key(b) \in held
          /\ (pc[b] = "roll" /\ pc'[b] = "rolled") \/ (pc[b] = "press" /\ pc'[b] = "pressed")
      BY <1>1, <1>5 DEF SendRoll, SendPress, Send, Goto, tables, Place, Busy
    <2> QED BY <2>1, KeyStays DEF Place, Busy
  <1>6. CASE Release(b)
    <2>1. pc'[b] = "idle" \/ /\ pc'[b] = "up" /\ UNCHANGED <<todo, code_of>> /\ rows'[KRow(b)] = 0
                             /\ code_of[KRow(b)] # 0 /\ Key(b) \notin held'
      BY <1>6, TablesRelease
    <2>2. ~First(b).pressed
      BY <1>6 DEF Release, Awaits
    <2> QED BY <2>1, <2>2, KeyStays DEF Place, Busy
  <1> QED BY <1>2, <1>3, <1>4, <1>5, <1>6 DEF Thread

-----------------------------------------------------------------------------
(* The bytes on their way *)

LEMMA Pendings ==
  ASSUME Types
  PROVE  /\ Len(Pending) \in Nat /\ Len(Pending) = IF press_btn THEN Len(kbd_q) + 1 ELSE 0
         /\ \A i \in 1..Len(Pending) : Pending[i] = IF i = 1 THEN R177702 ELSE kbd_q[i - 1]
         /\ \A i \in 1..Len(Pending) : Pending[i] \in Sent
  <1>1. kbd_q \in Seq(Sent) /\ (press_btn => R177702 \in Sent)
    BY DEF Types
  <1>2. CASE press_btn
    BY <1>1, <1>2 DEF Pending
  <1>3. CASE ~press_btn
    BY <1>3 DEF Pending
  <1> QED BY <1>2, <1>3

LEMMA StandsSame ==
  ASSUME NEW m, NEW s, NEW t, NEW n \in Nat, NEW r, NEW c, \A i \in 1..n : s[i] = t[i], Stands(m, s, n, r, c)
  PROVE  Stands(m, t, n, r, c)
  BY DEF Stands

LEMMA StandsMore ==
  ASSUME NEW m, NEW s, NEW n \in Nat, NEW r, NEW c
  PROVE  /\ RowOf(s[n + 1]) = r => Stands(m, s, n + 1, r, Val(s[n + 1]))
         /\ RowOf(s[n + 1]) # r /\ Stands(m, s, n, r, c) => Stands(m, s, n + 1, r, c)
  <1>1. ASSUME RowOf(s[n + 1]) = r PROVE Stands(m, s, n + 1, r, Val(s[n + 1]))
    <2>1. n + 1 \in 1..(n + 1) /\ \A j \in 1..(n + 1) : ~(j > n + 1)
      OBVIOUS
    <2> QED BY <1>1, <2>1 DEF Stands
  <1>2. ASSUME RowOf(s[n + 1]) # r, Stands(m, s, n, r, c) PROVE Stands(m, s, n + 1, r, c)
    <2>1. \A i \in 1..(n + 1) : i \in 1..n \/ i = n + 1
      OBVIOUS
    <2>2. CASE m[r] = c /\ \A i \in 1..n : RowOf(s[i]) # r
      BY <1>2, <2>1, <2>2 DEF Stands
    <2>3. CASE \E i \in 1..n : RowOf(s[i]) = r /\ Val(s[i]) = c /\ \A j \in 1..n : j > i => RowOf(s[j]) # r
      <3>1. PICK i \in 1..n : RowOf(s[i]) = r /\ Val(s[i]) = c /\ \A j \in 1..n : j > i => RowOf(s[j]) # r
        BY <2>3
      <3>2. i \in 1..(n + 1) /\ \A j \in 1..(n + 1) : j > i => RowOf(s[j]) # r
        BY <1>2, <2>1, <3>1
      <3> QED BY <3>1, <3>2 DEF Stands
    <2> QED BY <1>2, <2>2, <2>3 DEF Stands
  <1> QED BY <1>1, <1>2

LEMMA StandsLess ==
  ASSUME NEW m, NEW s, NEW n \in Nat, NEW l \in 0..n, NEW r, NEW c, Stands(m, s, n, r, c),
         \A i \in 1..n : i > l => RowOf(s[i]) # r
  PROVE  Stands(m, s, l, r, c)
  <1>1. CASE m[r] = c /\ \A i \in 1..n : RowOf(s[i]) # r
    BY <1>1 DEF Stands
  <1>2. CASE \E i \in 1..n : RowOf(s[i]) = r /\ Val(s[i]) = c /\ \A j \in 1..n : j > i => RowOf(s[j]) # r
    <2>1. PICK i \in 1..n : RowOf(s[i]) = r /\ Val(s[i]) = c /\ \A j \in 1..n : j > i => RowOf(s[j]) # r
      BY <1>2
    <2>2. i \in 1..l
      BY <2>1
    <2> QED BY <2>1, <2>2 DEF Stands
  <1> QED BY <1>1, <1>2 DEF Stands

\* Reading the first byte moves what it says of its row from the bytes to mach.
LEMMA StandsRead ==
  ASSUME NEW m, NEW m2, NEW s, NEW t, NEW n \in Nat, n > 0, NEW r, NEW c,
         \A i \in 1..(n - 1) : t[i] = s[i + 1],
         IF RowOf(s[1]) = r THEN m2[r] = Val(s[1]) ELSE m2[r] = m[r],
         Stands(m, s, n, r, c)
  PROVE  Stands(m2, t, n - 1, r, c)
  <1>1. \A i \in 1..(n - 1) : i + 1 \in 1..n /\ i + 1 > 1
    OBVIOUS
  <1>2. CASE m[r] = c /\ \A i \in 1..n : RowOf(s[i]) # r
    <2>1. m2[r] = c
      BY <1>2
    <2>2. \A i \in 1..(n - 1) : RowOf(t[i]) # r
      BY <1>1, <1>2
    <2> QED BY <2>1, <2>2 DEF Stands
  <1>3. CASE \E i \in 1..n : RowOf(s[i]) = r /\ Val(s[i]) = c /\ \A j \in 1..n : j > i => RowOf(s[j]) # r
    <2>1. PICK i \in 1..n : RowOf(s[i]) = r /\ Val(s[i]) = c /\ \A j \in 1..n : j > i => RowOf(s[j]) # r
      BY <1>3
    <2>2. CASE i = 1
      <3>1. m2[r] = c
        BY <2>1, <2>2
      <3>2. \A j \in 1..(n - 1) : RowOf(t[j]) # r
        BY <1>1, <2>1, <2>2
      <3> QED BY <3>1, <3>2 DEF Stands
    <2>3. CASE i # 1
      <3>1. i - 1 \in 1..(n - 1) /\ t[i - 1] = s[i]
        BY <2>3
      <3>2. ASSUME NEW j \in 1..(n - 1), j > i - 1 PROVE RowOf(t[j]) # r
        <4>1. j + 1 \in 1..n /\ j + 1 > i /\ t[j] = s[j + 1]
          BY <3>2
        <4> QED BY <2>1, <4>1
      <3> QED BY <2>1, <3>1, <3>2 DEF Stands
    <2> QED BY <2>2, <2>3
  <1> QED BY <1>2, <1>3 DEF Stands

\* A byte that arrives is the last to be read; one that does not spoils its row.
LEMMA ArrivesLast ==
  ASSUME Types, NEW byte \in Sent, Arrives(byte)
  PROVE  \/ /\ Len(Pending)' = Len(Pending) + 1 /\ Pending'[Len(Pending) + 1] = byte
            /\ \A i \in 1..Len(Pending) : Pending'[i] = Pending[i]
            /\ lost' = lost /\ off' = IF byte >= 128 THEN off \ {RowOf(byte)} ELSE off
         \/ Pending' = Pending /\ lost' = TRUE /\ off' = off \cup {RowOf(byte)}
  <1>1. kbd_q \in Seq(Sent) /\ (press_btn => R177702 \in Sent) /\ (~press_btn => kbd_q = <<>>)
    BY DEF Types
  <1>2. CASE byte # keyboard /\ ~init /\ ~Full /\ press_btn
    <2>1. kbd_q' = Append(kbd_q, byte) /\ UNCHANGED <<press_btn, R177702>>
      BY <1>2 DEF Arrives
    <2>2. Pending = <<R177702>> \o kbd_q /\ Pending' = <<R177702>> \o Append(kbd_q, byte)
      BY <1>2, <2>1 DEF Pending
    <2>3. /\ Len(Pending) = Len(kbd_q) + 1 /\ Len(Pending)' = Len(kbd_q) + 2 /\ Len(kbd_q) \in Nat
          /\ \A i \in 1..(Len(kbd_q) + 1) : Pending[i] = IF i = 1 THEN R177702 ELSE kbd_q[i - 1]
          /\ \A i \in 1..(Len(kbd_q) + 2) :
               Pending'[i] = IF i = 1 THEN R177702 ELSE IF i = Len(kbd_q) + 2 THEN byte ELSE kbd_q[i - 1]
      BY <1>1, <1>2, <2>2
    <2>4. Pending'[Len(Pending) + 1] = byte
      BY <2>3
    <2> QED BY <1>2, <2>3, <2>4 DEF Arrives
  <1>3. CASE byte # keyboard /\ ~init /\ ~Full /\ ~press_btn
    <2>1. Pending = <<>> /\ Pending' = <<byte>> \o <<>>
      BY <1>1, <1>3 DEF Arrives, Pending
    <2>2. Len(Pending) = 0 /\ Len(Pending)' = 1 /\ Pending'[1] = byte
      BY <2>1
    <2> QED BY <1>3, <2>2 DEF Arrives
  <1>4. CASE ~(byte # keyboard /\ ~init /\ ~Full)
    BY <1>4 DEF Arrives, Pending
  <1> QED BY <1>2, <1>3, <1>4

LEMMA StreamStays ==
  ASSUME Types, NEW b \in Boards, Stream(b), LegalPending,
         UNCHANGED <<mach, off, lost, press_btn, R177702, kbd_q>>,
         \A r \in Rows : Believed(b, r)' = Believed(b, r)
  PROVE  Stream(b)' /\ LegalPending'
  <1>1. Pending' = Pending
    BY DEF Pending
  <1>2. Stream(b)'
    BY <1>1 DEF Stream
  <1>3. LegalPending'
    BY <1>1 DEF LegalPending
  <1> QED BY <1>2, <1>3

\* A byte that says of its row what the MCU goes on to believe, and what it did not
\* believe before.
LEMMA StreamSends ==
  ASSUME Types, NEW b \in Boards, Stream(b), LegalPending, NEW byte \in Sent, Arrives(byte), mach' = mach,
         NEW row \in Rows, RowOf(byte) = row,
         Believed(b, row) \in Codes \cup {0}, Believed(b, row) = 0 <=> byte < 128,
         \A r \in Rows : Believed(b, r)' = IF r = row THEN Val(byte) ELSE Believed(b, r)
  PROVE  Stream(b)' /\ LegalPending'
  <1>1. CASE Pending' = Pending /\ lost' = TRUE /\ off' = off \cup {row}
    BY <1>1 DEF Stream, LegalPending, Stands
  <1>2. CASE /\ Len(Pending)' = Len(Pending) + 1 /\ Pending'[Len(Pending) + 1] = byte
             /\ \A i \in 1..Len(Pending) : Pending'[i] = Pending[i]
             /\ lost' = lost /\ off' = IF byte >= 128 THEN off \ {row} ELSE off
    <2>1. PICK n \in Nat : n = Len(Pending)
      BY Pendings
    <2>2. \A r \in Rows \ off : Stands(mach, Pending', n, r, Believed(b, r))
      BY <1>2, <2>1, StandsSame DEF Stream
    <2>3. ASSUME NEW r \in Rows \ off' PROVE Stands(mach, Pending', n + 1, r, Believed(b, r)')
      <3>1. CASE r = row
        <4>1. RowOf(Pending'[n + 1]) = row /\ Believed(b, row)' = Val(Pending'[n + 1])
          BY <1>2, <2>1
        <4> QED BY <3>1, <4>1, StandsMore
      <3>2. CASE r # row
        <4>1. Stands(mach, Pending', n, r, Believed(b, r)) /\ RowOf(Pending'[n + 1]) # r
          BY <1>2, <2>1, <2>2, <3>2
        <4>2. Believed(b, r)' = Believed(b, r)
          BY <3>2
        <4> QED BY <4>1, <4>2, StandsMore
      <3> QED BY <3>1, <3>2
    <2>4. Stream(b)'
      BY <1>2, <2>1, <2>3 DEF Stream
    <2>5. ASSUME ~lost, NEW j \in 1..(n + 1)
          PROVE  \E c \in Codes \cup {0} : /\ Stands(mach, Pending', j - 1, RowOf(Pending'[j]), c)
                                           /\ c = 0 <=> Pending'[j] < 128
      <3>1. CASE j = n + 1
        <4>1. Stands(mach, Pending', n, row, Believed(b, row))
          BY <2>2, <2>5 DEF LegalPending
        <4> QED BY <1>2, <2>1, <3>1, <4>1
      <3>2. CASE j # n + 1
        <4>1. j \in 1..n /\ j - 1 \in Nat /\ \A i \in 1..(j - 1) : i \in 1..n
          BY <3>2
        <4>2. PICK c \in Codes \cup {0} :
                Stands(mach, Pending, j - 1, RowOf(Pending[j]), c) /\ (c = 0 <=> Pending[j] < 128)
          BY <2>1, <2>5, <4>1 DEF LegalPending
        <4>3. Pending'[j] = Pending[j] /\ \A i \in 1..(j - 1) : Pending[i] = Pending'[i]
          BY <1>2, <2>1, <4>1
        <4>4. Stands(mach, Pending', j - 1, RowOf(Pending[j]), c)
          BY <4>1, <4>2, <4>3, StandsSame
        <4> QED BY <4>2, <4>3, <4>4
      <3> QED BY <3>1, <3>2
    <2>6. ~lost' => off' = {}
      BY <1>2 DEF LegalPending
    <2>7. LegalPending'
      BY <1>2, <2>1, <2>5, <2>6 DEF LegalPending
    <2> QED BY <2>4, <2>7
  <1> QED BY <1>1, <1>2, ArrivesLast

LEMMA ReadMoves ==
  ASSUME Types, Read
  PROVE  /\ Len(Pending) > 0 /\ Pending[1] = R177702 /\ Len(Pending)' = Len(Pending) - 1
         /\ \A i \in 1..(Len(Pending) - 1) : Pending'[i] = Pending[i + 1]
         /\ \A r \in Rows : IF RowOf(Pending[1]) = r THEN mach'[r] = Val(Pending[1]) ELSE mach'[r] = mach[r]
  <1>1. kbd_q \in Seq(Sent) /\ press_btn /\ Len(kbd_q) \in Nat
    BY DEF Types, Read
  <1>2. Len(Pending) = Len(kbd_q) + 1 /\ \A i \in 1..Len(Pending) : Pending[i] = IF i = 1 THEN R177702 ELSE kbd_q[i - 1]
    BY <1>1, Pendings
  <1>3. CASE kbd_q = <<>>
    <2>1. Pending' = <<>> /\ Len(kbd_q) = 0
      BY <1>3 DEF Read, Pending
    <2> QED BY <1>2, <2>1 DEF Read, Types, Val
  <1>4. CASE kbd_q # <<>>
    <2>1. Pending' = <<Head(kbd_q)>> \o Tail(kbd_q)
      BY <1>1, <1>4 DEF Read, Pending
    <2>2. Len(Pending)' = Len(kbd_q) /\ \A i \in 1..Len(kbd_q) : Pending'[i] = kbd_q[i]
      BY <1>1, <1>4, <2>1
    <2>3. \A i \in 1..Len(kbd_q) : Pending[i + 1] = kbd_q[i]
      BY <1>1, <1>2
    <2>4. Pending[1] = R177702
      BY <1>1, <1>2
    <2>5. \A r \in Rows : IF RowOf(R177702) = r THEN mach'[r] = Val(R177702) ELSE mach'[r] = mach[r]
      BY DEF Read, Types, Val
    <2> QED BY <1>1, <1>2, <2>2, <2>3, <2>4, <2>5
  <1> QED BY <1>3, <1>4

LEMMA StreamRead ==
  ASSUME Types, NEW b \in Boards, Stream(b), LegalPending, Read
  PROVE  Stream(b)' /\ LegalPending'
  <1>1. PICK n \in Nat : n = Len(Pending)
    BY Pendings
  <1>2. /\ n > 0 /\ Len(Pending)' = n - 1 /\ off' = off /\ lost' = lost
        /\ \A i \in 1..(n - 1) : Pending'[i] = Pending[i + 1]
        /\ \A r \in Rows : IF RowOf(Pending[1]) = r THEN mach'[r] = Val(Pending[1]) ELSE mach'[r] = mach[r]
    BY <1>1, ReadMoves DEF Read
  <1>3. \A r : Believed(b, r)' = Believed(b, r)
    BY KeyStays DEF Read, mcu, tables, Believed
  <1>4. \A r \in Rows \ off : Stands(mach', Pending', n - 1, r, Believed(b, r))
    BY <1>1, <1>2, StandsRead DEF Stream
  <1>5. Stream(b)'
    BY <1>2, <1>3, <1>4 DEF Stream
  <1>6. ASSUME ~lost, NEW j \in 1..(n - 1)
        PROVE  \E c \in Codes \cup {0} : /\ Stands(mach', Pending', j - 1, RowOf(Pending'[j]), c)
                                         /\ c = 0 <=> Pending'[j] < 128
    <2>1. j + 1 \in 1..n /\ j \in Nat /\ j > 0 /\ \A i \in 1..(j - 1) : i \in 1..(n - 1)
      OBVIOUS
    <2>2. PICK c \in Codes \cup {0} :
            /\ Stands(mach, Pending, (j + 1) - 1, RowOf(Pending[j + 1]), c) /\ (c = 0 <=> Pending[j + 1] < 128)
      BY <1>1, <1>6, <2>1 DEF LegalPending
    <2>3. Stands(mach, Pending, j, RowOf(Pending[j + 1]), c)
      BY <2>1, <2>2
    <2>4. RowOf(Pending[j + 1]) \in Rows
      BY <1>1, <2>1, Pendings, Heard
    <2>5. Stands(mach', Pending', j - 1, RowOf(Pending[j + 1]), c)
      BY <1>2, <2>1, <2>3, <2>4, StandsRead
    <2>6. Pending'[j] = Pending[j + 1]
      BY <1>2
    <2> QED BY <2>2, <2>5, <2>6
  <1>7. LegalPending'
    BY <1>2, <1>6 DEF LegalPending
  <1> QED BY <1>5, <1>7

LEMMA StreamInit ==
  ASSUME Types, NEW b \in Boards, Stream(b), LegalPending, InitOn
  PROVE  Stream(b)' /\ LegalPending'
  <1>1. PICK n \in Nat : n = Len(Pending)
    BY Pendings
  <1>2. PICK l \in 0..n : l = Len(Pending)' /\ \A i \in 1..l : Pending'[i] = Pending[i]
    <2>1. CASE press_btn
      <3>1. Pending' = <<R177702>> /\ n >= 1 /\ Pending[1] = R177702
        BY <1>1, <2>1, Pendings DEF InitOn, Pending, Types
      <3> QED BY <3>1
    <2>2. CASE ~press_btn
      <3>1. Pending' = <<>> /\ Len(Pending)' = 0
        BY <2>2 DEF InitOn, Pending
      <3> QED BY <3>1
    <2> QED BY <2>1, <2>2
  <1>3. \A i \in 1..n : i > l => RowOf(Pending[i]) \in off'
    <2> SUFFICES ASSUME NEW i \in 1..n, i > l PROVE RowOf(Pending[i]) \in off'
      OBVIOUS
    <2>0. kbd_q \in Seq(Sent)
      BY DEF Types
    <2>1. press_btn /\ n = Len(kbd_q) + 1
      BY <1>1, Pendings
    <2>2. l = 1
      BY <1>2, <2>1 DEF InitOn, Pending
    <2>3. Pending[i] = kbd_q[i - 1] /\ i - 1 \in DOMAIN kbd_q
      BY <1>1, <2>0, <2>1, <2>2, Pendings
    <2> QED BY <2>3 DEF InitOn, Range
  <1>4. \A r : Believed(b, r)' = Believed(b, r)
    BY KeyStays DEF InitOn, mcu, tables, Believed
  <1>5. mach' = mach /\ off \subseteq off'
    BY DEF InitOn
  <1>6. ASSUME NEW r \in Rows \ off' PROVE Stands(mach, Pending', l, r, Believed(b, r))
    <2>1. Stands(mach, Pending, n, r, Believed(b, r))
      BY <1>1, <1>5 DEF Stream
    <2>2. Stands(mach, Pending, l, r, Believed(b, r))
      BY <1>3, <2>1, StandsLess
    <2> QED BY <1>2, <2>2, StandsSame
  <1>7. Stream(b)'
    BY <1>2, <1>4, <1>5, <1>6 DEF Stream
  <1>8. LegalPending'
    <2>1. CASE kbd_q = <<>>
      <3>1. Pending' = Pending /\ lost' = lost
        BY <2>1 DEF InitOn, Pending, Types
      <3>2. Range(kbd_q) = {}
        BY <2>1 DEF Range
      <3>3. off' = off
        BY <3>2 DEF InitOn
      <3> QED BY <1>5, <3>1, <3>3 DEF LegalPending
    <2>2. CASE kbd_q # <<>>
      BY <2>2 DEF InitOn, LegalPending
    <2> QED BY <2>1, <2>2
  <1> QED BY <1>7, <1>8

\* A row that keys are counted in has a code.
LEMMA RowCode ==
  ASSUME Types, NEW b \in Boards, Tables(b), NEW r \in Rows, rows[r] # 0
  PROVE  \E k \in held : Code[k] = code_of[r] /\ Code[k] # 0
  <1>1. Live(b, r) # {}
    BY LiveFinite DEF Tables
  <1>2. PICK k \in Live(b, r) : TRUE
    BY <1>1
  <1>3. k \in held
    BY <1>2 DEF Live, Told
  <1> QED BY <1>2, <1>3 DEF Tables

LEMMA StreamThread ==
  ASSUME Types, AtKey, NEW b \in Boards, Tables(b), Place(b), Stream(b), LegalPending, Thread(b)
  PROVE  Stream(b)' /\ LegalPending'
  <1>1. /\ pc \in [Boards -> Places] /\ code_of \in [Rows -> Codes \cup {0}]
        /\ Key(b) \in Keys /\ KRow(b) \in Rows /\ Row(Code[Key(b)]) = KRow(b)
    BY FirstIs DEF Types, KRow, AtKey, Thread, PressIgnored, Press, Forget, Count, Release,
       SendRoll, SendPress, SendUp, Awaits
  <1>2. CASE PressIgnored(b) \/ Press(b)
    <2>1. /\ UNCHANGED <<mach, off, lost, press_btn, R177702, kbd_q, rows, code_of>>
          /\ pc[b] = "idle" /\ pc'[b] \in {"idle", "roll", "press", "count"}
      BY <1>1, <1>2 DEF PressIgnored, Press, Awaits, Goto, core, tables
    <2>2. \A r \in Rows : Believed(b, r)' = Believed(b, r)
      BY <2>1 DEF Believed
    <2> QED BY <2>1, <2>2, StreamStays
  <1>3. CASE Forget(b)
    <2>1. /\ UNCHANGED <<mach, off, lost, press_btn, R177702, kbd_q, code_of, todo>>
          /\ pc[b] = "rolled" /\ pc'[b] = "press" /\ rows'[KRow(b)] = 0
          /\ \A r \in Rows \ {KRow(b)} : rows'[r] = rows[r]
      BY <1>1, <1>3 DEF Forget, Goto, core, Types
    <2>2. \A r \in Rows : Believed(b, r)' = Believed(b, r)
      BY <2>1 DEF Believed
    <2> QED BY <2>1, <2>2, StreamStays
  <1>4. CASE Count(b)
    <2>1. /\ UNCHANGED <<mach, off, lost, press_btn, R177702, kbd_q>>
          /\ pc[b] \in {"count", "pressed"} /\ pc'[b] = "idle"
      BY <1>1, <1>4 DEF Count, Goto, core
    <2>2. \A r \in Rows : IF r = KRow(b) THEN rows'[r] = rows[r] + 1 /\ code_of'[r] = Code[Key(b)]
                          ELSE rows'[r] = rows[r] /\ code_of'[r] = code_of[r]
      BY <1>4, TablesCount
    <2>3. rows[KRow(b)] \in 0..255
      BY <1>1 DEF Types
    <2>4. pc[b] = "count" => rows[KRow(b)] # 0 /\ code_of[KRow(b)] = Code[Key(b)]
      BY DEF Place
    <2>5. ASSUME NEW r \in Rows PROVE Believed(b, r)' = Believed(b, r)
      <3>1. CASE r = KRow(b)
        BY <2>1, <2>2, <2>3, <2>4, <3>1 DEF Believed
      <3>2. CASE r # KRow(b)
        BY <2>1, <2>2, <3>2 DEF Believed
      <3> QED BY <3>1, <3>2
    <2> QED BY <2>1, <2>5, StreamStays
  <1>5. CASE Release(b)
    <2>1. UNCHANGED <<mach, off, lost, press_btn, R177702, kbd_q>> /\ rows \in [Rows -> 0..255]
      BY <1>5 DEF Release, core, Types
    <2>2. ASSUME NEW r \in Rows PROVE Believed(b, r)' = Believed(b, r)
      <3>1. CASE UNCHANGED rows /\ pc'[b] = "idle"
        BY <1>5, <3>1, TablesRelease DEF Believed
      <3>2. CASE ~(UNCHANGED rows /\ pc'[b] = "idle")
        <4>1. /\ rows[KRow(b)] # 0 /\ rows'[KRow(b)] = rows[KRow(b)] - 1 /\ UNCHANGED code_of
              /\ \A q \in Rows \ {KRow(b)} : rows'[q] = rows[q]
              /\ pc[b] = "idle" /\ pc'[b] = IF rows[KRow(b)] = 1 THEN "up" ELSE "idle"
              /\ rows[KRow(b)] = 1 => UNCHANGED todo
          BY <1>5, <3>2, TablesRelease
        <4>2. CASE rows[KRow(b)] = 1
          <5>1. KRow(b)' = KRow(b) /\ pc'[b] = "up"
            BY <4>1, <4>2, KeyStays
          <5>2. CASE r = KRow(b)
            BY <4>1, <5>1, <5>2 DEF Believed
          <5>3. CASE r # KRow(b)
            BY <4>1, <5>1, <5>3 DEF Believed
          <5> QED BY <5>2, <5>3
        <4>3. CASE rows[KRow(b)] # 1
          <5>1. rows'[KRow(b)] # 0
            BY <1>1, <2>1, <4>1, <4>3
          <5>2. rows'[r] # 0 <=> rows[r] # 0
            BY <4>1, <5>1
          <5> QED BY <4>1, <4>3, <5>2 DEF Believed
        <4> QED BY <4>2, <4>3
      <3> QED BY <3>1, <3>2
    <2> QED BY <2>1, <2>2, StreamStays
  <1>6. CASE SendRoll(b)
    <2>1. /\ Arrives(Up(KRow(b))) /\ UNCHANGED <<mach, rows, code_of, todo>> /\ pc[b] = "roll" /\ pc'[b] = "rolled"
      <3>1. Up(KRow(b)) \in Sent
        BY <1>1, Scan
      <3>2. Send(b, Up(KRow(b)))
        BY <1>6 DEF SendRoll
      <3>3. Arrives(Up(KRow(b)))
        BY <3>1, <3>2, Sending
      <3> QED BY <1>1, <3>3, <1>6 DEF SendRoll, Send, Goto, tables
    <2>2. Up(KRow(b)) \in Sent /\ Up(KRow(b)) >= 128 /\ Up(KRow(b)) \in Int /\ RowOf(Up(KRow(b))) = KRow(b)
      BY <1>1, Scan, Heard
    <2>3. Believed(b, KRow(b)) = code_of[KRow(b)] /\ code_of[KRow(b)] # 0
      BY <1>1, <2>1, RowCode DEF Believed, Place
    <2>4. \A r \in Rows : Believed(b, r)' = IF r = KRow(b) THEN Val(Up(KRow(b))) ELSE Believed(b, r)
      BY <2>1, <2>2, KeyStays DEF Believed, Val
    <2> QED BY <1>1, <2>1, <2>2, <2>3, <2>4, StreamSends
  <1>7. CASE SendPress(b)
    <2> DEFINE code == Code[Key(b)]
    <2>1. Arrives(code) /\ UNCHANGED <<mach, rows, code_of, todo>> /\ pc[b] = "press" /\ pc'[b] = "pressed"
      <3>1. code \in Sent
        BY <1>1, <1>7, Scan DEF SendPress, AtKey
      <3>2. Send(b, code)
        BY <1>7 DEF SendPress
      <3>3. Arrives(code)
        BY <3>1, <3>2, Sending
      <3> QED BY <1>1, <1>7, <3>3 DEF SendPress, Send, Goto, tables
    <2>2. code \in Sent /\ code \in 1..127 /\ RowOf(code) = KRow(b)
      BY <1>1, <2>1, Scan DEF AtKey
    <2>3. Believed(b, KRow(b)) = 0
      BY <2>1 DEF Believed, Place
    <2>4. \A r \in Rows : Believed(b, r)' = IF r = KRow(b) THEN Val(code) ELSE Believed(b, r)
      BY <2>1, <2>2, KeyStays DEF Believed, Val
    <2> QED BY <1>1, <2>1, <2>2, <2>3, <2>4, StreamSends
  <1>8. CASE SendUp(b)
    <2>1. /\ Arrives(Up(KRow(b))) /\ UNCHANGED <<mach, rows, code_of>> /\ pc[b] = "up" /\ pc'[b] = "idle"
      <3>1. Up(KRow(b)) \in Sent
        BY <1>1, Scan
      <3>2. Send(b, Up(KRow(b)))
        BY <1>8 DEF SendUp
      <3>3. Arrives(Up(KRow(b)))
        BY <3>1, <3>2, Sending
      <3> QED BY <1>1, <3>3, <1>8 DEF SendUp, Send, Goto, tables
    <2>2. Up(KRow(b)) \in Sent /\ Up(KRow(b)) >= 128 /\ Up(KRow(b)) \in Int /\ RowOf(Up(KRow(b))) = KRow(b)
      BY <1>1, Scan, Heard
    <2>3. Believed(b, KRow(b)) = code_of[KRow(b)] /\ code_of[KRow(b)] # 0 /\ rows[KRow(b)] = 0
      BY <1>1, <2>1 DEF Believed, Place
    <2>4. \A r \in Rows : Believed(b, r)' = IF r = KRow(b) THEN Val(Up(KRow(b))) ELSE Believed(b, r)
      BY <2>1, <2>2, <2>3 DEF Believed, Val
    <2> QED BY <1>1, <2>1, <2>2, <2>3, <2>4, StreamSends
  <1> QED BY <1>2, <1>3, <1>4, <1>5, <1>6, <1>7, <1>8 DEF Thread

-----------------------------------------------------------------------------
(* The invariant of one keyboard *)

LEMMA IInvInit ==
  ASSUME NEW b \in Boards, Init
  PROVE  IInv(b)
  <1>1. Types /\ AtKey
    BY TypesInit
  <1>2. pc[b] = "idle" /\ todo[b] = {} /\ held = {} /\ Told(b) = {}
    BY DEF Init, Told, Busy
  <1>3. Tables(b)
    <2>1. \A r \in Rows : Live(b, r) = {} /\ rows[r] = 0
      BY <1>2 DEF Live, Init
    <2> QED BY <1>2, <2>1, FS_EmptySet DEF Tables
  <1>4. Place(b) /\ Fresh(b)
    <2>1. IsFiniteSet({})
      BY FS_EmptySet
    <2>2. ASSUME NEW r \in Rows PROVE Rolls(todo[b], r) \in Int /\ Rolls(todo[b], r) <= 0
      <3>1. Presses({}, r) = {} /\ Cardinality({}) = 0
        BY FS_EmptySet DEF Presses
      <3>2. Rolls({}, r) = 0 - IF rows[r] = 0 THEN 1 ELSE 0
        BY <2>1, <3>1, PressesCount
      <3> QED BY <1>2, <3>2
    <2>3. Place(b)
      BY <1>2 DEF Place, Busy
    <2>4. Fresh(b)
      BY <1>2, <2>1, <2>2 DEF Fresh
    <2> QED BY <2>3, <2>4
  <1>5. Due(b)
    <2>1. Down(last[b]) = {}
      BY DEF Init, Blank, Down, Range
    <2> QED BY <1>2, <2>1 DEF Due
  <1>6. Pending = <<>> /\ Len(Pending) = 0
    BY DEF Init, Pending
  <1>7. Stream(b)
    <2>1. \A r \in Rows : mach[r] = 0 /\ Believed(b, r) = 0
      BY <1>2 DEF Init, Believed
    <2> QED BY <1>6, <2>1 DEF Stream, Stands
  <1>8. LegalPending
    BY <1>6 DEF Init, LegalPending
  <1> QED BY <1>1, <1>3, <1>4, <1>5, <1>7, <1>8 DEF IInv

LEMMA IInvReport ==
  ASSUME NEW b \in Boards, IInv(b), Rollovers # "any", NEW new \in Reports, Report(b, new)
  PROVE  IInv(b)'
  <1>0. Types /\ AtKey /\ Tables(b) /\ Place(b) /\ Due(b) /\ Stream(b) /\ LegalPending
    BY DEF IInv
  <1>1. Types' /\ AtKey' /\ Fresh(b)' /\ Due(b)'
    BY <1>0, ReportTypes, FreshReport, DueReport
  <1>2. /\ pc[b] = "idle" /\ UNCHANGED <<pc, held, rows, code_of, gen, key_gen>>
        /\ UNCHANGED <<mach, off, lost, press_btn, R177702, kbd_q>>
    BY DEF Report, tables, core
  <1>3. Told(b)' = Told(b) /\ \A r : Believed(b, r)' = Believed(b, r)
    BY <1>2 DEF Told, Busy, Believed
  <1>4. Tables(b)'
    BY <1>0, <1>2, <1>3, TablesStay
  <1>5. Place(b)'
    BY <1>2 DEF Place, Busy
  <1>6. Stream(b)' /\ LegalPending'
    BY <1>0, <1>2, <1>3, StreamStays
  <1> QED BY <1>1, <1>4, <1>5, <1>6 DEF IInv

\* The rest of the machine leaves the MCU's state alone.
LEMMA McuStays ==
  ASSUME Types, NEW b \in Boards, UNCHANGED mcu, AtKey, Tables(b), Place(b), Fresh(b), Due(b)
  PROVE  AtKey' /\ Tables(b)' /\ Place(b)' /\ Fresh(b)' /\ Due(b)' /\ \A r : Believed(b, r)' = Believed(b, r)
  <1>1. UNCHANGED <<last, todo, pc, held, rows, code_of, gen, key_gen, eaten, moved>>
    BY DEF mcu, tables
  <1>2. \A c \in Boards : First(c)' = First(c) /\ Key(c)' = Key(c) /\ KRow(c)' = KRow(c)
    BY <1>1, KeyStays
  <1>3. Told(b)' = Told(b) /\ \A r : Live(b, r)' = Live(b, r)
    BY <1>1, <1>2 DEF Told, Busy, Live
  <1>4. \A r : Rolls(todo[b], r)' = Rolls(todo[b], r)
    BY <1>1 DEF Rolls
  <1>5. AtKey' /\ Place(b)'
    BY <1>1, <1>2 DEF AtKey, Place, Busy
  <1>6. Tables(b)' /\ Fresh(b)'
    BY <1>1, <1>3, <1>4 DEF Tables, Fresh
  <1>7. Due(b)' /\ \A r : Believed(b, r)' = Believed(b, r)
    BY <1>1, <1>2 DEF Due, Believed
  <1> QED BY <1>5, <1>6, <1>7

LEMMA IInvStep ==
  ASSUME NEW b, Boards = {b}, Rollovers # "any"
  PROVE  IInv(b) /\ [Next]_vars => IInv(b)'
  <1> SUFFICES ASSUME IInv(b), [Next]_vars PROVE IInv(b)'
    OBVIOUS
  <1>0. b \in Boards /\ \A c \in Boards : c = b
    OBVIOUS
  <1>1. Types /\ AtKey /\ Tables(b) /\ Place(b) /\ Fresh(b) /\ Due(b) /\ Stream(b) /\ LegalPending
    BY DEF IInv
  <1>2. Types' /\ AtKey'
    BY <1>1, TypesStep
  <1>3. CASE Thread(b)
    BY <1>0, <1>1, <1>2, <1>3, TablesThread, PlaceThread, FreshThread, DueThread, StreamThread DEF IInv
  <1>4. CASE \E new \in Reports : Report(b, new)
    BY <1>0, <1>4, IInvReport
  <1>5. ASSUME UNCHANGED mcu, Stream(b)' /\ LegalPending' PROVE IInv(b)'
    BY <1>0, <1>1, <1>2, <1>5, McuStays DEF IInv
  <1>6. ASSUME UNCHANGED mcu, UNCHANGED <<mach, off, lost, press_btn, R177702, kbd_q>> PROVE IInv(b)'
    <2>1. \A r : Believed(b, r)' = Believed(b, r)
      BY <1>0, <1>1, <1>6, McuStays
    <2> QED BY <1>0, <1>1, <1>5, <1>6, <2>1, StreamStays
  <1>7. CASE Read
    BY <1>0, <1>1, <1>5, <1>7, StreamRead DEF Read
  <1>8. CASE InitOn
    BY <1>0, <1>1, <1>5, <1>8, StreamInit DEF InitOn
  <1>9. CASE InitOff \/ Menu \/ UNCHANGED vars
    <2>1. UNCHANGED mcu /\ UNCHANGED <<mach, off, lost, press_btn, R177702, kbd_q>>
      BY <1>9 DEF InitOff, Menu, vars, core
    <2> QED BY <1>6, <2>1
  <1> QED BY <1>0, <1>3, <1>4, <1>7, <1>8, <1>9 DEF Next

(* With one keyboard, and unless a key outlives 256 rollovers of its row,  *)
(* usb_host.c's tables, the bytes on their way through hid.v and xm2-01.v, *)
(* and what the program has understood of them tell one story at every     *)
(* step: the invariant that the theorems below read off.                   *)
THEOREM Agreement ==
  ASSUME NEW b, Boards = {b}, Rollovers # "any"
  PROVE  Spec => []IInv(b)
  <1>1. Init => IInv(b)
    BY IInvInit
  <1> QED BY <1>1, IInvStep, PTL DEF Spec

\* At rest the firmware's rows are what the tables say.
LEMMA RestBelieved ==
  ASSUME NEW b \in Boards, IInv(b), AtRest, NEW r \in Rows \ off
  PROVE  /\ mach[r] = (IF rows[r] = 0 THEN 0 ELSE code_of[r])
         /\ pc[b] = "idle" /\ todo[b] = {}
  <1>1. pc[b] = "idle" /\ todo[b] = {}
    BY DEF IInv, AtKey, AtRest
  <1>2. Len(Pending) = 0
    BY DEF AtRest, Pending
  <1>3. mach[r] = Believed(b, r)
    BY <1>2 DEF IInv, Stream, Stands
  <1> QED BY <1>1, <1>3 DEF Believed

\* With one keyboard, and no row brought round to a generation that a key it has
\* forgotten still bears, no row stays down that no key in the hand holds: through
\* rollovers, shared codes, the menu, INIT and bytes that were dropped.
THEOREM NoRowSticks ==
  ASSUME NEW b, Boards = {b}, Rollovers # "any"
  PROVE  Spec => []NothingStuck
  <1>1. IInv(b) => NothingStuck
    <2> SUFFICES ASSUME IInv(b), AtRest, NEW r \in Rows \ off, mach[r] # 0
                 PROVE  \E k \in AllDown : Code[k] = mach[r]
      BY DEF NothingStuck
    <2>1. rows[r] # 0 /\ mach[r] = code_of[r] /\ todo[b] = {}
      BY RestBelieved
    <2>2. PICK k \in held : Code[k] = code_of[r]
      BY <2>1, RowCode DEF IInv
    <2>3. k \in Down(last[b])
      BY <2>1 DEF IInv, Due
    <2> QED BY <2>1, <2>2, <2>3 DEF AllDown
  <1> QED BY <1>1, Agreement, PTL

\* Under the same conditions a key that is down, has kept its slot and was not taken
\* by the menu holds its row with its code, unless a rollover has made the machine
\* forget it.
THEOREM HeldKeysHold ==
  ASSUME NEW b, Boards = {b}, Rollovers # "any"
  PROVE  Spec => []HeldRowIsDown
  <1>1. IInv(b) => HeldRowIsDown
    <2> SUFFICES ASSUME IInv(b), AtRest, NEW k \in AllDown \ (eaten \cup moved), Code[k] # 0,
                        Row(Code[k]) \notin off, key_gen[k] = gen[Row(Code[k])]
                 PROVE  mach[Row(Code[k])] = Code[k]
      BY DEF HeldRowIsDown, Holds
    <2>1. todo[b] = {} /\ pc[b] = "idle" /\ k \in Down(last[b])
      BY DEF IInv, AtKey, AtRest, AllDown
    <2>2. k \in held
      BY <2>1 DEF IInv, Due
    <2>3. PICK r \in Rows : r = Row(Code[k])
      BY <2>2, Scan DEF IInv, Types
    <2>4. k \in Live(b, r)
      BY <2>1, <2>2, <2>3 DEF Live, Told, Busy
    <2>5. rows[r] # 0 /\ code_of[r] = Code[k]
      BY <2>4, LiveFinite DEF IInv, Tables
    <2> QED BY <2>3, <2>5, RestBelieved
  <1> QED BY <1>1, Agreement, PTL

\* Until a byte is dropped the firmware reads a press only for a row that is up and a
\* release only for one that is down.
THEOREM OnlyLegalBytes ==
  ASSUME NEW b, Boards = {b}, Rollovers # "any"
  PROVE  Spec => LegalStream
  <1>1. IInv(b) /\ [Next]_vars => [~lost /\ Read => LegalRead]_vars
    <2> SUFFICES ASSUME IInv(b), ~lost, Read PROVE LegalRead
      OBVIOUS
    <2>1. Len(Pending) > 0 /\ Pending[1] = R177702 /\ Len(Pending) \in Nat
      BY ReadMoves, Pendings DEF IInv
    <2>2. PICK c \in Codes \cup {0} : Stands(mach, Pending, 1 - 1, RowOf(R177702), c) /\ (c = 0 <=> R177702 < 128)
      BY <2>1 DEF IInv, LegalPending
    <2>3. mach[RowOf(R177702)] = c
      BY <2>2 DEF Stands
    <2>4. R177702 \in Int
      <3>1. Types
        BY DEF IInv
      <3>2. R177702 \in Sent
        BY <2>1, <3>1, Pendings
      <3> QED BY <3>2, Heard
    <2> QED BY <2>2, <2>3, <2>4 DEF LegalRead
  <1> QED BY <1>1, Agreement, PTL DEF Spec, LegalStream
=============================================================================
