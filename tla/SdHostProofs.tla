---------------------------- MODULE SdHostProofs ----------------------------
(***************************************************************************)
(* Theorems about SdHost, for any sectors, orders and kinds of fault: types *)
(* are kept, host and card never drive the data lines together, a card is  *)
(* addressed as it was made, and sd_rw.v implements SdHostContract.        *)
(***************************************************************************)
EXTENDS SdHost, TLAPS

\* A command is on its way only in a state that sends one.
Sending == ctrl.busy => stat \in DOMAIN After
TypeInv == TypeOK /\ Sending

\* What a response may lead to is a state of the command FSM.
LEMMA NextStatTypes == stat \in DOMAIN After => NextStat \in Stat
<1> SUFFICES ASSUME stat \in DOMAIN After PROVE NextStat \in Stat
  OBVIOUS
<1>1. After[stat] \in Stat
  BY DEF After, Stat, Ident
<1>2. stat \in DOMAIN Instead => Instead[stat] \in Stat
  BY DEF Instead, Stat, Ident, After
<1>3. stat \in Stat /\ "CMD55_41" \in Stat
  BY DEF Stat, Ident, After
<1> QED BY <1>1, <1>2, <1>3 DEF NextStat

\* What the host samples from the line is a half of a sector or junk.
LEMMA OnLineTypes == TypeOK => OnLine \in Half
BY DEF TypeOK, Card, OnLine, Half, Junk

\* What the card has to say is of what a response can carry.
LEMMA TruthTypes == Truth \subseteq {"aa", "ready", "ccs", "rca"}
BY DEF Truth, Says

\* A rising edge of sdclk keeps the data FSM, the buffer and the card in type.
LEMMA ClkTypes ==
  ASSUME TypeOK, SdClk
  PROVE  dat' \in Dat /\ buf' \in [1..2 -> Half] /\ left' \in 0..MaxFaults
         /\ card' \in Card
<1>1. dat' \in Dat /\ buf' \in [1..2 -> Half] /\ left' \in 0..MaxFaults
  <2>1. ASSUME NEW st \in Dat, DatTo(st) PROVE dat' \in Dat /\ buf' \in [1..2 -> Half]
    BY <2>1 DEF DatTo, TypeOK
  <2>2. NoFault \/ (\E f \in FaultNames : Fault(f)) => left' \in 0..MaxFaults
    BY FaultsAssumption DEF NoFault, Fault, TypeOK
  <2>3. ASSUME ReadClk PROVE dat' \in Dat /\ buf' \in [1..2 -> Half] /\ left' \in 0..MaxFaults
    BY <2>1, <2>2, <2>3, OnLineTypes DEF ReadClk, Dat, TypeOK, FaultNames
  <2>4. ASSUME WriteClk PROVE dat' \in Dat /\ buf' \in [1..2 -> Half] /\ left' \in 0..MaxFaults
    BY <2>1, <2>2, <2>4 DEF WriteClk, Dat, FaultNames
  <2> QED BY <2>1, <2>2, <2>3, <2>4 DEF SdClk, DatClk, Dat
<1>2. card' \in Card
  <2>1. ASSUME NEW st \in CardSt, NEW line \in Line, CardTo(st, line)
        PROVE  card' \in Card
    BY <2>1 DEF CardTo, TypeOK, Card
  <2>2. card.line \in DOMAIN Follows => Follows[card.line] \in Line
    BY DEF Follows, Line
  <2>3. <<"write", card.sec>> \in Written
    BY DEF TypeOK, Card, Written
  <2> QED BY <2>1, <2>2, <2>3 DEF SdClk, CardClk, CardSt, Line, TypeOK, Card
<1> QED BY <1>1, <1>2

\* The card's kind is found in the last state of its identification that
\* does without it, and kept.
LEMMA KindStep ==
  ASSUME TypeOK, CmdDone, stat \in DOMAIN After
  PROVE  type'.kind = "UNKNOWN" <=> stat' \in Unidentified
<1>0. stat' = NextStat /\ type \in Type /\ (type.kind = "UNKNOWN" <=> stat \in Unidentified)
  BY DEF CmdDone, TypeOK
<1>1. CASE stat = "ACMD41" /\ Good
  <2>1. type'.kind = Kind /\ stat' = "CMD2"
    BY <1>0, <1>1 DEF CmdDone, NextStat, After, Type
  <2> QED BY <2>1 DEF Kind, Unidentified
<1>2. CASE ~(stat = "ACMD41" /\ Good)
  <2>1. type'.kind = type.kind
    BY <1>0, <1>2 DEF CmdDone, Type
  <2>2. stat' \in Unidentified <=> stat \in Unidentified
    BY <1>0, <1>2 DEF NextStat, After, Instead, GivesUp8, Unidentified
  <2> QED BY <1>0, <2>1, <2>2
<1> QED BY <1>1, <1>2

\* The types, with what keeps the command FSM's table defined, are inductive.
LEMMA TypeAlways == Spec => []TypeInv
<1>1. Init => TypeInv
  <2> SUFFICES ASSUME Init PROVE TypeOK /\ Sending
    BY DEF TypeInv
  <2>1. type \in Type /\ ctrl \in Ctrl /\ addr \in Places /\ stat \in Stat
    BY DEF Init, Type, Ctrl, Quiet, Answers, Args, Places, Stat, Ident, After
  <2>2. card \in Card
    BY <2>1 DEF Init, Card, CardSt, Line, Written
  <2> QED BY <2>1, <2>2, FaultsAssumption
          DEF Init, Sending, TypeOK, Quiet, Dat, Half, Junk, Unidentified
<1>2. TypeInv /\ [Next]_vars => TypeInv'
  <2> SUFFICES ASSUME TypeOK, Sending, [Next]_vars PROVE TypeInv'
    BY DEF TypeInv
  <2> USE DEF TypeOK, TypeInv, Sending
  <2>1. CASE UNCHANGED vars
    BY <2>1 DEF vars
  <2>2. CASE Order
    BY <2>2, OpsAssumption DEF Order, Orders
  <2>3. CASE SetCmd
    BY <2>3 DEF SetCmd, Sent, Ident, Ctrl, Answers, Args
  <2>4. CASE Accept
    <3>1. order \in Orders /\ order[2] \in Sectors
      BY <2>4 DEF Accept, Orders
    <3>2. addr' \in Places
      BY <2>4, <3>1 DEF Accept, Places
    <3>3. ctrl' \in Ctrl
      BY <2>4 DEF Accept, Sent, Ctrl, Answers, Args
    <3> QED BY <2>4, <3>2, <3>3 DEF Accept, Stat, After, Unidentified
  <2>5. CASE CardHears
    <3>1. left' \in 0..MaxFaults
      BY <2>5, FaultsAssumption DEF CardHears, NoFault, Fault
    <3>2. card' = card \/ Obey
      BY <2>5 DEF CardHears
    <3>3. card' \in Card
      BY <3>2 DEF Obey, Card, CardSt, Written
    <3>4. ctrl' \in Ctrl
      BY <2>5, TruthTypes DEF CardHears, Ctrl, Args
    <3> QED BY <2>5, <3>1, <3>3, <3>4 DEF CardHears
  <2>6. CASE CmdDone
    <3>1. stat' = NextStat /\ stat \in DOMAIN After
      BY <2>6 DEF CmdDone
    <3>2. stat' \in Stat
      BY <3>1, NextStatTypes
    <3>3. type' \in Type
      <4>1. (type.cnt + 1) % 8 \in 0..7
        BY DEF Type
      <4>2. Kind \in {"SDv1", "SDv2", "SDHCv2"} /\ GivesUp8 \in BOOLEAN
        BY DEF Kind, GivesUp8
      <4>3. type.v1 \in BOOLEAN /\ (type.v1 \/ GivesUp8) \in BOOLEAN
        BY <4>2 DEF Type
      <4>4. type' \in {type, [type EXCEPT !.cnt = (@ + 1) % 8, !.v1 = @ \/ GivesUp8],
                       [type EXCEPT !.kind = Kind], [type EXCEPT !.rca = "rca" \in ctrl.arg]}
        BY <2>6 DEF CmdDone
      <4>5. [type EXCEPT !.kind = Kind] \in Type
        BY <4>2 DEF Type
      <4>8. ("rca" \in ctrl.arg) \in BOOLEAN
        OBVIOUS
      <4>9. ASSUME NEW r \in BOOLEAN PROVE [type EXCEPT !.rca = r] \in Type
        BY DEF Type
      <4>10. [type EXCEPT !.rca = "rca" \in ctrl.arg] \in Type
        BY <4>8, <4>9
      <4>6. ASSUME NEW n \in 0..7, NEW w \in BOOLEAN
            PROVE  [type EXCEPT !.cnt = n, !.v1 = w] \in Type
        BY DEF Type
      <4>7. [type EXCEPT !.cnt = (@ + 1) % 8, !.v1 = @ \/ GivesUp8] \in Type
        BY <4>1, <4>3, <4>6
      <4> QED BY <4>4, <4>5, <4>7, <4>10
    <3>4. stat = "CMD17" /\ ~Good => stat' = "CMD17"
      BY <3>1 DEF NextStat, GivesUp8, Instead
    <3>5. ctrl' \in Ctrl /\ (ctrl'.busy => stat = "CMD17" /\ ~Good)
      BY <2>6 DEF CmdDone, Sent, Quiet, Ctrl, Answers, Args
    <3>6. type'.kind = "UNKNOWN" <=> stat' \in Unidentified
      BY <2>6, <3>1, KindStep DEF CmdDone
    <3> QED BY <2>6, <3>1, <3>2, <3>3, <3>4, <3>5, <3>6 DEF CmdDone
  <2>7. CASE ReadAgain
    BY <2>7 DEF ReadAgain, Transfer, Sent, Stat, After, Ctrl, Answers, Args, Unidentified
  <2>8. CASE Finish
    BY <2>8 DEF Finish, rdone, Stat, Dat, After, Unidentified
  <2>9. CASE WriteFailed
    BY <2>9 DEF WriteFailed, Transfer, Stat, Dat, After, Unidentified
  <2>10. CASE SdClk
    BY <2>10, ClkTypes DEF SdClk
  <2> QED BY <2>1, <2>2, <2>3, <2>4, <2>5, <2>6, <2>7, <2>8, <2>9, <2>10 DEF Next, HostNext
<1> QED BY <1>1, <1>2, PTL DEF Spec

\* Every register of the SD host and the card's state keep their types.
THEOREM TypeCorrect == Spec => []TypeOK
<1>1. TypeInv => TypeOK
  BY DEF TypeInv
<1> QED BY <1>1, TypeAlways, PTL
-----------------------------------------------------------------------------
(* Who drives the data lines.  NoContention is not inductive: that the card *)
(* waits for a block when the host begins to send one goes back to the      *)
(* response to CMD24.                                                       *)

WriteStates == {"WDATA", "WCRC", "WWAITACK", "WACK", "WWAIT", "WERR"}
\* the data FSM writes only in the write state of the command FSM
WritesInWriting == dat \in WriteStates => stat = "WRITING"
\* a card that has answered CMD24 waits for the block
WriteHeard == stat = "CMD24" /\ ctrl.busy /\ ctrl.seen /\ Good => card.st = "rcv"
\* and goes on waiting until the host has sent it
CardWaits == stat = "WRITING" /\ dat \in {"RWAIT", "WDATA", "WCRC"} => card.st = "rcv"
LineInv == WritesInWriting /\ WriteHeard /\ CardWaits

\* A rising edge of sdclk keeps the direction of the data lines.
LEMMA ClkLine == TypeInv /\ LineInv /\ SdClk => LineInv'
<1> SUFFICES ASSUME TypeInv, LineInv, SdClk PROVE LineInv'
  OBVIOUS
<1>0. UNCHANGED <<order, stat, type, ctrl, addr>>
  BY DEF SdClk
<1>1. card.st = "rcv" /\ dat # "WCRC" => card' = card
  BY DEF SdClk, CardClk
<1>2. WritesInWriting'
  <2>1. stat # "WRITING" => dat' \notin WriteStates
    BY DEF SdClk, DatClk, ReadClk, DatTo, Reading, LineInv, WritesInWriting, WriteStates
  <2> QED BY <1>0, <2>1 DEF WritesInWriting
<1>3. WriteHeard'
  BY <1>0, <1>1 DEF LineInv, WriteHeard, WritesInWriting, WriteStates, Good
<1>4. CardWaits'
  <2>1. stat = "WRITING" /\ dat' \in {"RWAIT", "WDATA", "WCRC"} => dat \in {"RWAIT", "WDATA"}
    BY DEF SdClk, DatClk, WriteClk, DatTo, Reading
  <2> QED BY <1>0, <1>1, <2>1 DEF LineInv, CardWaits
<1> QED BY <1>2, <1>3, <1>4 DEF LineInv

\* The host and the card never drive the data lines at once: no response,
\* late block or missing acknowledgement makes the host send a block to a
\* card that is not waiting for one.
THEOREM DataLinesOwned == Spec => []NoContention
<1>1. Init => LineInv
  BY DEF Init, LineInv, WritesInWriting, WriteHeard, CardWaits, WriteStates
<1>2. TypeInv /\ LineInv /\ [Next]_vars => LineInv'
  <2> SUFFICES ASSUME TypeInv, LineInv, [Next]_vars PROVE LineInv'
    OBVIOUS
  <2> USE DEF LineInv, WritesInWriting, WriteHeard, CardWaits, Good, WriteStates
  <2>1. CASE UNCHANGED vars
    BY <2>1 DEF vars
  <2>2. CASE Order
    BY <2>2 DEF Order
  <2>3. CASE SetCmd
    BY <2>3 DEF SetCmd, Ident, Sent
  <2>4. CASE Accept
    BY <2>4 DEF Accept, Sent
  <2>5. CASE CardHears
    <3>1. ctrl'.ans = "ok" => card.st = "tran" /\ Obey
      BY <2>5 DEF CardHears, Meant, TypeInv, TypeOK
    <3>2. stat = "CMD24" /\ Obey => card'.st = "rcv"
      BY DEF Obey, TypeInv, TypeOK, Card
    <3>3. UNCHANGED <<stat, dat>> /\ stat # "WRITING"
      BY <2>5 DEF CardHears, TypeInv, Sending, After
    <3> QED BY <3>1, <3>2, <3>3
  <2>6. CASE CmdDone
    <3>1. stat' = NextStat /\ stat \in DOMAIN After /\ UNCHANGED <<dat, card>>
      BY <2>6 DEF CmdDone, TypeInv, Sending
    <3>2. stat # "WRITING" /\ (stat' = "WRITING" => stat = "CMD24" /\ Good)
      BY <3>1 DEF NextStat, After, Instead
    <3>3. ~(stat' = "CMD24" /\ ctrl'.seen)
      BY <2>6 DEF CmdDone, Sent, Quiet
    <3> QED BY <2>6, <3>1, <3>2, <3>3 DEF CmdDone
  <2>7. CASE ReadAgain
    BY <2>7 DEF ReadAgain, Sent
  <2>8. CASE Finish
    BY <2>8 DEF Finish
  <2>9. CASE WriteFailed
    BY <2>9 DEF WriteFailed
  <2>10. CASE SdClk
    BY <2>10, ClkLine
  <2> QED BY <2>1, <2>2, <2>3, <2>4, <2>5, <2>6, <2>7, <2>8, <2>9, <2>10 DEF Next, HostNext
<1>3. LineInv => NoContention
  BY DEF LineInv, WritesInWriting, CardWaits, WriteStates, NoContention
<1> QED BY <1>1, <1>2, <1>3, TypeAlways, PTL DEF Spec
-----------------------------------------------------------------------------
(* What kind of card it is.  The tries of CMD8 are counted against the      *)
(* faults that spent them.                                                  *)

\* an identified card has nothing on the data lines to be deaf for
CardIdle == stat \in Ident => card.st = "tran"
\* each try of CMD8 that came back empty cost a fault, also the one at hand
TriesPaid ==
  stat \in {"CMD0", "CMD8"} =>
    /\ type.cnt + left <= MaxFaults
    /\ stat = "CMD8" /\ ctrl.busy /\ ctrl.seen /\ ctrl.ans = "timeout" =>
         type.cnt + left + 1 <= MaxFaults
\* an OCR of a card that is powered up says what the card is
OcrTrue == stat = "ACMD41" /\ ctrl.busy /\ ctrl.seen /\ Good => "ccs" \in ctrl.arg
\* past ACMD41 the card has been found to number its sectors
KindFound == ~type.v1 /\ (stat \notin Unidentified => type.kind = "SDHCv2")
KindInv == CardIdle /\ TriesPaid /\ OcrTrue /\ KindFound

\* The steps of the command FSM keep the tries paid for.
LEMMA CmdKind ==
  ASSUME MaxFaults <= 7, TypeInv, KindInv, CmdDone
  PROVE  KindInv'
<1>1. /\ stat' = NextStat /\ stat \in DOMAIN After /\ UNCHANGED <<card, left>>
      /\ ctrl.busy /\ ctrl.seen
  BY DEF CmdDone, TypeInv, Sending
<1>2. type.cnt \in Nat /\ left \in Nat /\ MaxFaults \in Nat
  BY FaultsAssumption DEF TypeInv, TypeOK, Type
<1>3. ~GivesUp8
  BY <1>1, <1>2 DEF GivesUp8, KindInv, TriesPaid
<1>4. CardIdle'
  <2>1. stat \in {"CMD17", "CMD24"} => stat' \in {"CMD17", "CMD24", "READING", "WRITING"}
    BY <1>1, <1>3 DEF NextStat, After, Instead
  <2>2. stat \notin {"CMD17", "CMD24"} => stat \in Ident
    BY <1>1 DEF Ident
  <2>3. stat' \in Ident => stat \in Ident
    BY <2>1, <2>2 DEF Ident, After
  <2> QED BY <1>1, <2>3 DEF KindInv, CardIdle
<1>5. TriesPaid'
  <2>1. stat' \in {"CMD0", "CMD8"} => stat \in {"CMD0", "CMD8"}
    BY <1>1 DEF NextStat, Ident, After, Instead
  <2>2. stat = "CMD8" /\ ctrl.ans = "timeout" => type'.cnt = type.cnt + 1
    <3> SUFFICES ASSUME stat = "CMD8", ctrl.ans = "timeout" PROVE type'.cnt = type.cnt + 1
      OBVIOUS
    <3>1. type'.cnt = (type.cnt + 1) % 8
      BY DEF CmdDone, TypeInv, TypeOK, Type
    <3>2. type.cnt + 1 \in 0..7
      BY <1>1, <1>2 DEF KindInv, TriesPaid
    <3> QED BY <3>1, <3>2
  <2>3. ~(stat = "CMD8" /\ ctrl.ans = "timeout") => type'.cnt = type.cnt
    BY DEF CmdDone, TypeInv, TypeOK, Type
  <2>4. stat' = "CMD8" => ~ctrl'.seen
    BY DEF CmdDone, Sent, Quiet
  <2> QED BY <1>1, <1>2, <2>1, <2>2, <2>3, <2>4 DEF KindInv, TriesPaid
<1>7. OcrTrue'
  BY DEF CmdDone, OcrTrue, Sent, Quiet
<1>6. KindFound'
  <2>1. ~type'.v1
    BY <1>3 DEF CmdDone, KindInv, KindFound, TypeInv, TypeOK, Type
  <2>2. /\ stat = "ACMD41" /\ Good => type'.kind = "SDHCv2"
        /\ stat \notin {"CMD8", "ACMD41"} => type'.kind = type.kind
    BY <1>1 DEF CmdDone, KindInv, KindFound, OcrTrue, Kind, TypeInv, TypeOK, Type
  <2>3. stat' \notin Unidentified =>
          \/ stat \notin Unidentified
          \/ stat = "ACMD41" /\ Good
    BY <1>1, <1>3 DEF NextStat, After, Instead, Unidentified
  <2> QED BY <2>1, <2>2, <2>3 DEF KindInv, KindFound, Unidentified
<1> QED BY <1>4, <1>5, <1>6, <1>7 DEF KindInv

\* The kind of card, with the tries that it takes to mistake it, is inductive
\* as long as no damage to the OCR goes unseen.
LEMMA KindAlways ==
  ASSUME MaxFaults <= 7, "ocr" \notin Faults
  PROVE  Spec => []KindInv
<1>1. Init => KindInv
  BY FaultsAssumption DEF Init, KindInv, CardIdle, TriesPaid, OcrTrue, KindFound, Quiet, Unidentified
<1>2. TypeInv /\ KindInv /\ [Next]_vars => KindInv'
  <2> SUFFICES ASSUME TypeInv, KindInv, [Next]_vars PROVE KindInv'
    OBVIOUS
  <2> USE DEF KindInv, CardIdle, TriesPaid, OcrTrue, KindFound
  <2>1. CASE UNCHANGED vars
    BY <2>1 DEF vars, Good
  <2>2. CASE Order
    BY <2>2 DEF Order, Good
  <2>3. CASE SetCmd
    BY <2>3 DEF SetCmd, Sent
  <2>4. CASE Accept
    BY <2>4 DEF Accept, Ident, After, Unidentified
  <2>5. CASE CardHears
    <3>1. UNCHANGED <<stat, type>> /\ ctrl.busy
      BY <2>5 DEF CardHears
    <3>2. stat \in Ident => card' = card
      BY <2>5 DEF CardHears, Obey, Ident, After
    <3>3. stat \in {"CMD0", "CMD8"} /\ ctrl'.ans = "timeout" => left' = left - 1 /\ left > 0
      <4>1. stat \in {"CMD0", "CMD8"} => Meant
        BY DEF Meant, Ident, After
      <4> QED BY <2>5, <4>1 DEF CardHears, Fault, TypeInv, TypeOK
    <3>4. left' = left \/ (left > 0 /\ left' = left - 1)
      BY <2>5 DEF CardHears, Fault, NoFault
    <3>5. type.cnt \in Nat /\ left \in Nat /\ MaxFaults \in Nat
      BY FaultsAssumption DEF TypeInv, TypeOK, Type
    <3>6. TriesPaid'
      BY <3>1, <3>3, <3>4, <3>5
    <3>7. OcrTrue'
      <4> SUFFICES ASSUME stat = "ACMD41", ctrl'.seen, Good' PROVE "ccs" \in ctrl'.arg
        BY <3>1
      <4>1. Truth = {"ready", "ccs"} /\ Misread["ACMD41"] = "ocr"
        BY DEF Truth, Says, Misread
      <4>2. ctrl'.ans = "ok" /\ "ready" \in ctrl'.arg
        BY <3>1 DEF Good
      <4>3. ~Fault("ocr")
        BY DEF Fault
      <4> QED BY <2>5, <4>1, <4>2, <4>3 DEF CardHears, TypeInv, TypeOK, Ctrl
    <3> QED BY <3>1, <3>2, <3>6, <3>7
  <2>6. CASE CmdDone
    BY <2>6, CmdKind
  <2>7. CASE ReadAgain
    BY <2>7 DEF ReadAgain, Transfer, Ident, After, Sent, Unidentified
  <2>8. CASE Finish
    BY <2>8 DEF Finish, rdone, Ident, After, Unidentified
  <2>9. CASE WriteFailed
    BY <2>9 DEF WriteFailed, Transfer, Ident, After, Unidentified
  <2>10. CASE SdClk
    <3>1. UNCHANGED <<stat, type, ctrl>>
      BY <2>10 DEF SdClk
    <3>2. card.st = "tran" => card' = card
      BY <2>10 DEF SdClk, CardClk
    <3>3. left' = left \/ (left > 0 /\ left' = left - 1)
      BY <2>10 DEF SdClk, DatClk, ReadClk, WriteClk, Fault, NoFault
    <3>4. type.cnt \in Nat /\ left \in Nat /\ MaxFaults \in Nat
      BY FaultsAssumption DEF TypeInv, TypeOK, Type
    <3> QED BY <3>1, <3>2, <3>3, <3>4 DEF Good
  <2> QED BY <2>1, <2>2, <2>3, <2>4, <2>5, <2>6, <2>7, <2>8, <2>9, <2>10 DEF Next, HostNext
<1> QED BY <1>1, <1>2, TypeAlways, PTL DEF Spec

\* A card that numbers its sectors is never addressed in bytes, however the
\* commands of its identification fare, as long as fewer faults come than
\* CMD8 has tries and none of them changes the OCR unseen: that one alone
\* does it, for nothing checks a response's CRC.
THEOREM AddressedAsMade ==
  ASSUME MaxFaults <= 7, "ocr" \notin Faults
  PROVE  Spec => []AddressingRight
<1>1. KindInv => AddressingRight
  BY DEF KindInv, KindFound, AddressingRight, Ident, After, Unidentified
<1> QED BY <1>1, KindAlways, PTL
-----------------------------------------------------------------------------
(***************************************************************************)
(* The refinement of SdHostContract, for commands that do not arrive (also *)
(* CMD24), an echo or an address misread, a card that is slow to power up  *)
(* and blocks that come late, up to the seven of these that AddressedAsMade *)
(* allows: what done speaks for has then been moved.  The inductive        *)
(* invariant is how far the data FSM is with the block that the card is    *)
(* sending or storing, and that it is the block of sectoraddr.             *)
(***************************************************************************)
Clean == Faults \subseteq {"lost", "lostwr", "echo", "rca", "slow", "late"} /\ MaxFaults <= 7

Heard == ctrl.seen /\ Good
Rest == card.st = "tran" /\ dat = "RWAIT"
LineIdle == card.st # "data" => card.line = "idle"
\* the data FSM takes the block as the card sends it
Following ==
  /\ card.sec = addr
  /\ \/ dat = "RWAIT" /\ card.st = "data" /\ card.line \in {"idle", "start"}
     \/ dat = "RDATA1" /\ card.st = "data" /\ card.line = "half1"
     \/ dat = "RDATA2" /\ card.st = "data" /\ card.line = "half2" /\ buf[1] = <<addr, 1>>
     \/ dat = "RCRC" /\ card.st = "data" /\ card.line = "crc" /\ Whole(addr)
     \/ dat \in {"RTAIL", "DONE"} /\ card.st = "tran" /\ Whole(addr)
\* the card takes the block as the data FSM sends it
Storing ==
  /\ card.sec = addr
  /\ \/ dat \in {"RWAIT", "WDATA", "WCRC"} /\ card.st = "rcv"
     \/ dat = "WWAITACK" /\ card.st = "ack"
     \/ dat \in {"WACK", "WWAIT"} /\ card.st = "prg"
     \/ /\ dat \in {"WWAIT", "RTAIL", "DONE"} /\ card.st = "tran"
        /\ card.wrote = <<"write", addr>>
AtRest == stat \notin {"CMD17", "CMD24", "READING", "WRITING"} => Rest
Reads ==
  /\ stat = "CMD17" => dat = "RTIMEOUT" \/ (Heard /\ Following) \/ (~Heard /\ Rest)
  /\ stat = "READING" => dat = "RTIMEOUT" \/ Following
Writes ==
  /\ stat = "CMD24" => /\ dat = "RWAIT"
                       /\ \/ Heard /\ card.st = "rcv" /\ card.sec = addr
                          \/ ~Heard /\ card.st = "tran"
  /\ stat = "WRITING" => Storing
Ordered ==
  /\ stat \in {"CMD17", "READING"} => order = <<"read", addr>>
  /\ stat \in {"CMD24", "WRITING"} => order = <<"write", addr>>
  /\ stat \in {"CMD17", "CMD24", "READING", "WRITING"} => addr \in Sectors
MovesInv == LineIdle /\ AtRest /\ Reads /\ Writes /\ Ordered

\* The second half completes a sector.
LEMMA SecondHalf ==
  ASSUME NEW S, NEW f \in [1..2 -> S], NEW x, f[1] = x, NEW y
  PROVE  [f EXCEPT ![2] = y] = <<x, y>>
OBVIOUS

\* A rising edge of sdclk while a block is being read: host and card stay in
\* step, or the host gives the block up before it has begun.
LEMMA ReadEdge ==
  ASSUME TypeOK, LineIdle, Following, stat \in {"CMD17", "READING"}, SdClk
  PROVE  LineIdle' /\ (dat' = "RTIMEOUT" \/ Following')
<1> USE DEF TypeOK, Card
<1>0. addr' = addr /\ card'.sec = card.sec /\ card.sec = addr
  BY DEF SdClk, CardClk, CardTo, Following
<1>a. /\ DOMAIN Follows = {"start", "half1", "half2"}
      /\ Follows["start"] = "half1" /\ Follows["half1"] = "half2" /\ Follows["half2"] = "crc"
  BY DEF Follows
<1>b. buf \in [1..2 -> Half]
  OBVIOUS
<1>c. card \in Card
  OBVIOUS
<1>1. CASE dat = "RWAIT" /\ card.st = "data" /\ card.line = "idle"
  <2>1. dat' \in {"RWAIT", "RTIMEOUT"}
    BY <1>1 DEF SdClk, DatClk, ReadClk, DatTo, Low, Reading
  <2>2. card'.st = "data" /\ card'.line \in {"idle", "start"}
    BY <1>1 DEF SdClk, CardClk, CardTo, Follows
  <2> QED BY ONLY <1>0, <1>b, <2>1, <2>2 DEF LineIdle, Following
<1>2. CASE dat = "RWAIT" /\ card.st = "data" /\ card.line = "start"
  <2>1. dat' = "RDATA1"
    BY <1>2 DEF SdClk, DatClk, ReadClk, DatTo, Low, Reading
  <2>2. card'.st = "data" /\ card'.line = "half1"
    BY <1>a, <1>2 DEF SdClk, CardClk, CardTo
  <2> QED BY ONLY <1>0, <1>b, <2>1, <2>2 DEF LineIdle, Following
<1>3. CASE dat = "RDATA1" /\ card.st = "data" /\ card.line = "half1"
  <2>1. dat' = "RDATA2" /\ buf' = [buf EXCEPT ![1] = <<addr, 1>>]
    BY <1>0, <1>3 DEF SdClk, DatClk, ReadClk, DatTo, Reading, OnLine
  <2>2. card'.st = "data" /\ card'.line = "half2"
    BY <1>a, <1>3 DEF SdClk, CardClk, CardTo
  <2> QED BY ONLY <1>0, <1>b, <2>1, <2>2 DEF LineIdle, Following
<1>4. CASE dat = "RDATA2" /\ card.st = "data" /\ card.line = "half2" /\ buf[1] = <<addr, 1>>
  <2>1. dat' = "RCRC" /\ buf' = [buf EXCEPT ![2] = <<addr, 2>>]
    BY <1>0, <1>4 DEF SdClk, DatClk, ReadClk, DatTo, Reading, OnLine
  <2>2. buf' = << <<addr, 1>>, <<addr, 2>> >>
    BY ONLY <1>b, <1>4, <2>1, SecondHalf
  <2>3. card'.st = "data" /\ card'.line = "crc"
    BY ONLY <1>a, <1>c, <1>4, SdClk DEF SdClk, CardClk, CardTo, Card
  <2> QED BY ONLY <1>0, <2>1, <2>2, <2>3 DEF LineIdle, Following, Whole
<1>5. CASE dat = "RCRC" /\ card.st = "data" /\ card.line = "crc" /\ Whole(addr)
  <2>1. dat' = "RTAIL" /\ buf' = buf
    BY <1>5 DEF SdClk, DatClk, ReadClk, DatTo, Reading
  <2>2. card'.st = "tran" /\ card'.line = "idle"
    BY <1>5 DEF SdClk, CardClk, CardTo, Follows
  <2> QED BY <1>0, <1>5, <2>1, <2>2 DEF LineIdle, Following, Whole
<1>6. CASE dat \in {"RTAIL", "DONE"} /\ card.st = "tran" /\ Whole(addr)
  <2>1. dat' = "DONE" /\ buf' = buf
    BY <1>6 DEF SdClk, DatClk, ReadClk, DatTo, Reading
  <2>2. card' = card
    BY <1>6 DEF SdClk, CardClk
  <2> QED BY <1>0, <1>6, <2>1, <2>2 DEF LineIdle, Following, Whole
<1> QED BY <1>1, <1>2, <1>3, <1>4, <1>5, <1>6 DEF Following

\* The same of a block being written; without a fault the card answers.
LEMMA WriteEdge ==
  ASSUME Clean, TypeOK, LineIdle, Storing, stat = "WRITING", SdClk
  PROVE  LineIdle' /\ Storing'
<1> USE DEF TypeOK, Card
<1>0. addr' = addr /\ card'.sec = card.sec /\ card.sec = addr
  BY DEF SdClk, CardClk, CardTo, Storing
<1>1. CASE dat \in {"RWAIT", "WDATA"} /\ card.st = "rcv"
  <2>1. dat' \in {"WDATA", "WCRC"}
    BY <1>1 DEF SdClk, DatClk, WriteClk, DatTo, Reading
  <2>2. card' = card
    BY <1>1 DEF SdClk, CardClk
  <2> QED BY <1>0, <1>1, <2>1, <2>2 DEF LineIdle, Storing
<1>2. CASE dat = "WCRC" /\ card.st = "rcv"
  <2>1. dat' = "WWAITACK" /\ left' = left
    BY <1>2 DEF SdClk, DatClk, WriteClk, DatTo, Reading, Fault, NoFault, Clean
  <2>2. card'.st = "ack" /\ card'.line = "idle"
    BY <1>2, <2>1 DEF SdClk, CardClk, CardTo
  <2> QED BY <1>0, <2>1, <2>2 DEF LineIdle, Storing
<1>3. CASE dat = "WWAITACK" /\ card.st = "ack"
  <2>1. dat' = "WACK"
    BY <1>3 DEF SdClk, DatClk, WriteClk, DatTo, Reading, Low
  <2>2. card'.st = "prg" /\ card'.line = "idle"
    BY <1>3 DEF SdClk, CardClk, CardTo
  <2> QED BY <1>0, <2>1, <2>2 DEF LineIdle, Storing
<1>4. CASE dat \in {"WACK", "WWAIT"} /\ card.st = "prg"
  <2>1. dat' = "WWAIT"
    BY <1>4 DEF SdClk, DatClk, WriteClk, DatTo, Reading, Low, Fault, Clean
  <2>2. card' = card \/ card' = [card EXCEPT !.st = "tran", !.wrote = <<"write", card.sec>>]
    BY <1>4 DEF SdClk, CardClk
  <2> QED BY <1>0, <1>4, <2>1, <2>2 DEF LineIdle, Storing
<1>5. CASE dat \in {"WWAIT", "RTAIL", "DONE"} /\ card.st = "tran"
           /\ card.wrote = <<"write", addr>>
  <2>1. dat' \in {"RTAIL", "DONE"}
    BY <1>5 DEF SdClk, DatClk, WriteClk, DatTo, Reading, Low
  <2>2. card' = card
    BY <1>5 DEF SdClk, CardClk
  <2> QED BY <1>0, <1>5, <2>1, <2>2 DEF LineIdle, Storing
<1> QED BY <1>1, <1>2, <1>3, <1>4, <1>5 DEF Storing

\* Every step keeps MovesInv.
LEMMA MovesStep ==
  ASSUME Clean, TypeInv, KindInv, MovesInv, [Next]_vars
  PROVE  MovesInv'
<1> USE DEF MovesInv, TypeInv, TypeOK, Card
<1>1. CASE UNCHANGED vars
  BY <1>1 DEF vars, LineIdle, AtRest, Reads, Writes, Ordered, Rest, Heard, Good,
       Following, Storing, Whole
<1>2. CASE Order
  <2>1. stat \notin {"CMD17", "CMD24", "READING", "WRITING"}
    BY <1>2, NoneAssumption DEF Order, Ordered
  <2> QED BY <1>2, <2>1 DEF Order, LineIdle, AtRest, Reads, Writes, Ordered, Rest
<1>3. CASE SetCmd
  BY <1>3 DEF SetCmd, Ident, After, LineIdle, AtRest, Reads, Writes, Ordered, Rest
<1>4. CASE Accept
  <2>1. stat = "READY" /\ card.st = "tran" /\ dat = "RWAIT"
    BY <1>4 DEF Accept, AtRest, Rest
  <2>2. PICK k \in {"read", "write"}, s \in Sectors : order = <<k, s>>
    BY <1>4 DEF Accept, Orders
  <2>3. order' = <<k, addr'>> /\ addr' \in Sectors /\ stat' = IF k = "read" THEN "CMD17" ELSE "CMD24"
    BY <1>4, <2>1, <2>2 DEF Accept, KindInv, KindFound, Unidentified
  <2> QED BY <1>4, <2>1, <2>3
          DEF Accept, Sent, LineIdle, AtRest, Reads, Writes, Ordered, Rest, Heard
<1>5. CASE CardHears
  <2>0. UNCHANGED <<order, stat, addr, dat, buf>> /\ ctrl.busy /\ ~ctrl.seen /\ ctrl'.seen
        /\ stat \notin {"READING", "WRITING"}
    BY <1>5 DEF CardHears, Sending, After
  <2>1. CASE ctrl'.ans = "ok"
    <3>1. card.st = "tran" /\ Obey
      BY <1>5, <2>1 DEF CardHears, Meant
    <3>2. stat = "CMD17" => dat = "RTIMEOUT" \/ dat = "RWAIT"
      BY <2>0 DEF Reads, Heard, Rest
    <3> QED BY <2>0, <2>1, <3>1, <3>2 DEF Obey, LineIdle, AtRest, Reads, Writes, Ordered, Rest,
                Heard, Good, Following
  <2>2. CASE ctrl'.ans # "ok"
    <3>1. card' = card
      BY <1>5, <2>2, FaultsAssumption DEF CardHears, Clean, Fault
    <3> QED BY <2>0, <2>2, <3>1 DEF LineIdle, AtRest, Reads, Writes, Ordered, Rest, Heard, Good
  <2> QED BY <2>1, <2>2
<1>6. CASE CmdDone
  <2>0. UNCHANGED <<order, addr, dat, buf, card>> /\ ctrl.seen /\ stat' = NextStat
        /\ stat \in DOMAIN After /\ ~ctrl'.seen
    BY <1>6 DEF CmdDone, Sending, Sent, Quiet
  <2>1. CASE stat \in Ident
    <3>1. stat' \notin {"CMD17", "CMD24", "READING", "WRITING"}
      BY <2>0, <2>1 DEF NextStat, Ident, After, Instead
    <3> QED BY <2>0, <2>1, <3>1 DEF LineIdle, AtRest, Reads, Writes, Ordered, Rest, Ident, After
  <2>2. CASE stat \in {"CMD17", "CMD24"} /\ Good
    <3>1. stat' = IF stat = "CMD17" THEN "READING" ELSE "WRITING"
      BY <2>0, <2>2 DEF NextStat, After
    <3> QED BY <2>0, <2>2, <3>1 DEF LineIdle, AtRest, Reads, Writes, Ordered, Heard,
                Following, Storing, Whole
  <2>3. CASE stat \in {"CMD17", "CMD24"} /\ ~Good
    <3>1. stat' = stat
      BY <2>0, <2>3 DEF NextStat, Instead, GivesUp8
    <3> QED BY <2>0, <2>3, <3>1 DEF LineIdle, AtRest, Reads, Writes, Ordered, Heard, Rest
  <2> QED BY <2>0, <2>1, <2>2, <2>3 DEF Ident
<1>7. CASE ReadAgain
  <2>1. stat = "READING" /\ dat' = "RTIMEOUT"
    BY <1>7 DEF ReadAgain, Transfer, Writes, Storing
  <2> QED BY <1>7, <2>1 DEF ReadAgain, LineIdle, AtRest, Reads, Writes, Ordered
<1>8. CASE Finish
  <2>1. card.st = "tran"
    BY <1>8 DEF Finish, rdone, Reads, Writes, Following, Storing
  <2> QED BY <1>8, <2>1 DEF Finish, LineIdle, AtRest, Reads, Writes, Ordered, Rest
<1>9. ~WriteFailed
  BY DEF WriteFailed, Transfer, Reads, Writes, Following, Storing
<1>10. CASE SdClk
  <2>0. UNCHANGED <<order, stat, type, ctrl, addr>>
    BY <1>10 DEF SdClk
  <2>1. CASE stat \in {"CMD17", "READING"} /\ Following
    <3>1. LineIdle' /\ (dat' = "RTIMEOUT" \/ Following')
      BY <1>10, <2>1, ReadEdge
    <3>2. stat = "CMD17" => dat' = "RTIMEOUT" \/ Heard'
      BY <1>10, <2>1, <2>0 DEF Reads, Heard, Good, Following, Rest, SdClk
    <3> QED BY <2>0, <2>1, <3>1, <3>2 DEF AtRest, Reads, Writes, Ordered
  <2>2. CASE stat \in {"CMD17", "READING"} /\ dat = "RTIMEOUT"
    <3>1. dat' = "RTIMEOUT"
      BY <1>10, <2>2 DEF SdClk, DatClk, ReadClk, DatTo, Reading
    <3>2. LineIdle'
      BY <1>10 DEF SdClk, CardClk, CardTo, LineIdle
    <3> QED BY <2>0, <2>2, <3>1, <3>2 DEF AtRest, Reads, Writes, Ordered
  <2>3. CASE stat = "CMD17" /\ ~Heard /\ Rest
    <3>1. card' = card /\ dat' = "RWAIT"
      BY <1>10, <2>3 DEF SdClk, DatClk, ReadClk, CardClk, DatTo, Low, Reading, Rest
    <3> QED BY <2>0, <2>3, <3>1 DEF LineIdle, AtRest, Reads, Writes, Ordered, Heard, Good, Rest
  <2>4. CASE stat = "WRITING"
    BY <1>10, <2>0, <2>4, WriteEdge DEF AtRest, Reads, Writes, Ordered
  <2>5. CASE stat \notin {"CMD17", "READING", "WRITING"}
    <3>1. dat' = "RWAIT" /\ (card.st \in {"tran", "rcv"} => card' = card)
      BY <1>10, <2>5 DEF SdClk, DatClk, CardClk, DatTo, Reading, AtRest, Writes, Rest
    <3> QED BY <2>0, <2>5, <3>1
            DEF LineIdle, AtRest, Reads, Writes, Ordered, Heard, Good, Rest
  <2> QED BY <2>1, <2>2, <2>3, <2>4, <2>5 DEF Reads
<1> QED BY <1>1, <1>2, <1>3, <1>4, <1>5, <1>6, <1>7, <1>8, <1>9, <1>10 DEF Next, HostNext

\* With done, what has been moved is what was ordered.
SpeaksTrue == Moved = IF rdone THEN order ELSE None

LEMMA MovedIsOrder == TypeInv /\ MovesInv => SpeaksTrue
<1> SUFFICES ASSUME TypeOK, MovesInv PROVE Moved = IF rdone THEN order ELSE None
  BY DEF SpeaksTrue, TypeInv
<1>1. CASE ~rdone
  BY <1>1 DEF Moved
<1>2. CASE rdone /\ stat = "WRITING"
  <2>1. order = <<"write", addr>> /\ card.wrote = <<"write", addr>>
    BY <1>2 DEF rdone, MovesInv, Writes, Storing, Ordered
  <2> QED BY <1>2, <2>1 DEF Moved
<1>3. CASE rdone /\ stat # "WRITING"
  <2>1. order = <<"read", addr>> /\ Whole(addr) /\ addr \in Sectors
    BY <1>3 DEF rdone, MovesInv, Reads, Following, Ordered
  <2>2. \A s \in Sectors : Whole(s) => s = addr
    BY <2>1 DEF Whole
  <2>3. (CHOOSE s \in Sectors : Whole(s)) = addr
    BY <2>1, <2>2
  <2> QED BY <1>3, <2>1, <2>3 DEF Moved
<1> QED BY <1>1, <1>2, <1>3

RefInv == TypeInv /\ MovesInv /\ SpeaksTrue

LEMMA RefAlways ==
  ASSUME Clean
  PROVE  Spec => []RefInv
<1>1. Init => MovesInv
  BY DEF Init, MovesInv, LineIdle, AtRest, Reads, Writes, Ordered, Rest
<1>2. TypeInv /\ KindInv /\ MovesInv /\ [Next]_vars => MovesInv'
  BY MovesStep
<1>3. Spec => []KindInv
  BY KindAlways DEF Clean
<1> QED BY <1>1, <1>2, <1>3, TypeAlways, MovedIsOrder, PTL DEF Spec, RefInv

\* What the contract sees of the command FSM.
Sees == IF stat \in Ident THEN "ident" ELSE IF rdone THEN "done"
        ELSE IF rbusy THEN "busy" ELSE "ready"

\* One step of the host is one step of the contract, or none.
LEMMA ContractStep ==
  ASSUME Clean, RefInv, RefInv', [Next]_vars
  PROVE  [Contract!Next]_(Contract!vars)
<1> USE DEF RefInv, TypeInv
<1>1. Moved = (IF rdone THEN order ELSE None) /\ Moved' = (IF rdone THEN order ELSE None)'
  BY DEF SpeaksTrue
<1>2. /\ Sees = "ident" <=> stat \in Ident
      /\ Sees = "done" <=> rdone
      /\ Sees = "ready" <=> stat = "READY"
      /\ Sees \in {"ident", "done", "ready", "busy"}
  BY DEF Sees, rdone, rbusy, Ident, After
<1>3. /\ Sees' = "ident" <=> stat' \in Ident
      /\ Sees' = "done" <=> rdone'
      /\ Sees' = "ready" <=> stat' = "READY"
      /\ Sees' \in {"ident", "done", "ready", "busy"}
  BY DEF Sees, rdone, rbusy, Ident, After
<1>4. ASSUME order' = order, Sees' = Sees PROVE [Contract!Next]_(Contract!vars)
  BY <1>1, <1>2, <1>3, <1>4 DEF Contract!vars, Sees
<1>5. ASSUME order' = order, Sees = "busy", Sees' = "done" PROVE Contract!End
  BY <1>1, <1>2, <1>3, <1>5 DEF Contract!End, Sees
<1>6. CASE UNCHANGED vars
  BY <1>4, <1>6 DEF vars, Sees, rdone, rbusy
<1>7. CASE Order
  <2>1. order = None /\ order' \in Contract!Orders /\ Sees' = Sees
    BY <1>7 DEF Order, Contract!Orders, Sees, rdone, rbusy
  <2>2. ~rdone /\ ~rdone'
    BY <1>7, NoneAssumption DEF Order, rdone, MovesInv, Ordered
  <2>3. Contract!Order
    BY <1>1, <2>1, <2>2 DEF Contract!Order, Sees
  <2> QED BY <2>3 DEF Contract!Next
<1>8. CASE SetCmd
  BY <1>4, <1>8 DEF SetCmd, Sees, rdone, rbusy
<1>9. CASE Accept
  <2>1. stat = "READY" /\ order # None /\ order' = order /\ stat' \in {"CMD17", "CMD24"}
    BY <1>9 DEF Accept
  <2>2. Sees = "ready" /\ Sees' = "busy" /\ ~rdone /\ ~rdone'
    BY <2>1, <1>2, <1>3 DEF rdone, Ident, After
  <2>3. Contract!Begin
    BY <1>1, <2>1, <2>2 DEF Contract!Begin, Sees
  <2> QED BY <2>3 DEF Contract!Next
<1>10. CASE CardHears
  BY <1>4, <1>10 DEF CardHears, Sees, rdone, rbusy
<1>11. CASE CmdDone
  <2>0. order' = order /\ dat' = dat /\ stat' = NextStat /\ stat \in DOMAIN After
    BY <1>11 DEF CmdDone, Sending
  <2>1. CASE stat \in Ident
    <3>1. stat' \in Ident \/ stat' = "READY"
      BY <2>0, <2>1 DEF NextStat, Ident, After, Instead
    <3>2. ~rdone /\ ~rdone'
      BY <2>1, <3>1 DEF rdone, Ident, After
    <3>3. CASE stat' \in Ident
      BY <1>2, <1>3, <1>4, <2>0, <2>1, <3>3
    <3>4. CASE stat' = "READY"
      <4>1. Contract!Identified
        BY <1>1, <1>2, <1>3, <2>0, <2>1, <3>2, <3>4 DEF Contract!Identified, Sees
      <4> QED BY <4>1 DEF Contract!Next
    <3> QED BY <3>1, <3>3, <3>4
  <2>2. CASE stat \in {"CMD17", "CMD24"}
    <3>1. stat' \in {"CMD17", "CMD24", "READING", "WRITING"}
      BY <2>0, <2>2 DEF NextStat, After, Instead, GivesUp8
    <3>2. Sees = "busy" /\ Sees' \in {"busy", "done"}
      BY <1>2, <1>3, <2>2, <3>1 DEF rdone, Ident, After
    <3> QED BY <1>4, <1>5, <2>0, <3>2 DEF Contract!Next
  <2> QED BY <2>0, <2>1, <2>2 DEF Ident
<1>12. CASE ReadAgain
  <2>1. Sees = "busy" /\ Sees' = "busy" /\ order' = order
    BY <1>2, <1>3, <1>12 DEF ReadAgain, Transfer, rdone, Ident, After
  <2> QED BY <1>4, <2>1
<1>13. CASE Finish
  <2>1. Sees = "done" /\ Sees' = "ready" /\ ~rdone' /\ order' = None
    BY <1>2, <1>3, <1>13 DEF Finish, rdone
  <2>2. Contract!Back
    BY <1>1, <2>1 DEF Contract!Back, Sees
  <2> QED BY <2>2 DEF Contract!Next
<1>14. ~WriteFailed
  BY DEF WriteFailed, Transfer, MovesInv, Reads, Writes, Following, Storing
<1>15. CASE SdClk
  <2>1. UNCHANGED <<order, stat>> /\ ~rdone
    BY <1>15 DEF SdClk, Answered, rdone, Transfer
  <2>2. Sees' = Sees \/ (Sees = "busy" /\ Sees' = "done")
    BY <1>2, <1>3, <2>1
  <2> QED BY <1>4, <1>5, <2>1, <2>2 DEF Contract!Next
<1> QED BY <1>6, <1>7, <1>8, <1>9, <1>10, <1>11, <1>12, <1>13, <1>14, <1>15 DEF Next, HostNext

\* sd_rw.v keeps its promise to sd_card.v while commands are lost and blocks
\* come late: each order is begun and ended once, in turn, and done means
\* that the sector ordered is in the buffer, whole, or on the card.  (That
\* done comes is for TLC: KeepsContract.)
THEOREM KeepsItsPromise ==
  ASSUME Faults \subseteq {"lost", "lostwr", "echo", "rca", "slow", "late"}, MaxFaults <= 7
  PROVE  Spec => Contract!Spec
<1>1. Clean
  BY DEF Clean
<1>2. Init => Contract!Init
  BY DEF Init, Contract!Init, Moved, rdone, Ident, After
<1>3. RefInv /\ RefInv' /\ [Next]_vars => [Contract!Next]_(Contract!vars)
  BY <1>1, ContractStep
<1> QED BY <1>1, <1>2, <1>3, RefAlways, PTL DEF Spec, Contract!Spec
=============================================================================
