------------------------------- MODULE SdHost -------------------------------
(***************************************************************************)
(* The SD host of the FPGA: sd_rw.v, its command FSM (sdcmd_stat) and its  *)
(* data FSM (sddat_stat), over sdcmd_ctrl.v, which sends one command and   *)
(* waits for the response, and the card at the other end of both lines.    *)
(*                                                                         *)
(* The two FSMs are clocked alike but the data FSM moves only on a rising  *)
(* edge of sdclk, at least two clocks apart, so the command FSM has        *)
(* answered what the data FSM has reached (Answered) before it moves on.   *)
(* A sector is cut into two halves: enough to tell a whole block from one  *)
(* the host joined in the middle.  The card is external: it obeys a        *)
(* command that its state allows and ignores another.                      *)
(***************************************************************************)
EXTENDS Naturals, FiniteSets

CONSTANTS
  Sectors,    \* card sectors
  Elsewhere,  \* what a card that numbers sectors takes sector << 9 for
  None,       \* no order
  Ops,        \* what sd_card.v orders: subset of {"read", "write"}
  Faults,     \* what may go wrong on the lines: subset of FaultNames
  MaxFaults   \* how often, in one behaviour

\* "lost": a command other than CMD24 does not reach the card; "lostwr":
\* CMD24 does not.  "bent": one does, but the host gets no response or sees
\* that it is spoilt.  sdcmd_ctrl.v has no CRC for responses and judges only
\* the first bits, so damage to the argument goes unseen where sd_rw.v uses
\* it: "echo" of CMD8, "ocr" of ACMD41, "rca" of CMD3.  "slow": the card is
\* still powering up (its OCR says so).  "late": the card starts a block only
\* after the data FSM's 1000000 edges.  "deaf": the card does not answer a
\* block written to it.  "long": it stays busy for more than those edges.
FaultNames == {"lost", "lostwr", "bent", "echo", "ocr", "rca", "slow", "late", "deaf", "long"}

ASSUME ElsewhereAssumption == Elsewhere \notin Sectors
ASSUME NoneAssumption == None \notin {"read", "write"} \X Sectors
ASSUME OpsAssumption == Ops \subseteq {"read", "write"}
ASSUME FaultsAssumption == Faults \subseteq FaultNames /\ MaxFaults \in Nat

VARIABLES
  order,   \* rstart and wstart with the sector, as sd_card.v holds them
  stat,    \* sdcmd_stat
  type,    \* card_type, with sdv1_maybe, cmd8_cnt and whether rca is the card's
  ctrl,    \* sdcmd_ctrl.v: busy, whether the card has dealt with the command,
           \* the verdict on the response and what its argument (resparg) says
  addr,    \* sectoraddr, as the card reads it
  dat,     \* sddat_stat
  buf,     \* the two halves that outen has put into the sector buffer
  card,    \* the card: state, its sector, what of it is on the data lines
  left     \* faults that may still come

vars == <<order, stat, type, ctrl, addr, dat, buf, card, left>>
-----------------------------------------------------------------------------
Orders == {"read", "write"} \X Sectors
Places == Sectors \cup {Elsewhere}
Written == ({"write"} \X Places) \cup {None}
Junk == "junk"
Half == (Places \X {1, 2}) \cup {Junk}

\* the identification chain: what follows a good response, and what a bad one
After == [CMD0 |-> "CMD8", CMD8 |-> "CMD55_41", CMD55_41 |-> "ACMD41", ACMD41 |-> "CMD2",
          CMD2 |-> "CMD3", CMD3 |-> "CMD7", CMD7 |-> "CMD55_6", CMD55_6 |-> "ACMD6",
          ACMD6 |-> "CMD16", CMD16 |-> "READY", CMD24 |-> "WRITING", CMD17 |-> "READING"]
Instead == [CMD0 |-> "CMD8", ACMD41 |-> "CMD55_41", ACMD6 |-> "CMD55_6"]
Ident == DOMAIN After \ {"CMD24", "CMD17"}
Stat == Ident \cup {"READY", "CMD17", "CMD24", "READING", "WRITING"}
Dat == {"RWAIT", "RDATA1", "RDATA2", "RCRC", "RTAIL", "DONE", "RTIMEOUT",
        "WDATA", "WCRC", "WWAITACK", "WACK", "WWAIT", "WERR"}
\* the card's data line, as the host's start bit detector sees it: idle, a
\* start bit, the halves of a block, its CRC
Line == {"idle", "start", "half1", "half2", "crc"}
CardSt == {"tran", "data", "rcv", "ack", "prg"}
Type == [kind : {"UNKNOWN", "SDv1", "SDv2", "SDHCv2"}, v1 : BOOLEAN, cnt : 0..7, rca : BOOLEAN]

\* What the card has to say in the argument of a response, as far as sd_rw.v
\* looks at it: the echoed pattern, that it is powered up and that it numbers
\* sectors, its address.
Says == [CMD8 |-> {"aa"}, ACMD41 |-> {"ready", "ccs"}, CMD3 |-> {"rca"}]
Misread == [CMD8 |-> "echo", ACMD41 |-> "ocr", CMD3 |-> "rca"]
Answers == {"ok", "timeout", "syntaxe"}
Args == SUBSET {"aa", "ready", "ccs", "rca"}
Ctrl == [busy : BOOLEAN, seen : BOOLEAN, ans : Answers, arg : Args]
Card == [st : CardSt, sec : Places, line : Line, wrote : Written]
Unidentified == {"CMD0", "CMD8", "CMD55_41", "ACMD41"}

TypeOK ==
  /\ order \in Orders \cup {None}
  /\ stat \in Stat
  /\ type \in Type /\ (type.kind = "UNKNOWN" <=> stat \in Unidentified)
  /\ ctrl \in Ctrl
  /\ addr \in Places
  /\ dat \in Dat
  /\ buf \in [1..2 -> Half]
  /\ card \in Card
  /\ left \in 0..MaxFaults

Quiet == [busy |-> FALSE, seen |-> FALSE, ans |-> "ok", arg |-> {}]
Sent  == [busy |-> TRUE, seen |-> FALSE, ans |-> "ok", arg |-> {}]

Init ==
  /\ order = None /\ stat = "CMD0" /\ ctrl = Quiet /\ dat = "RWAIT" /\ addr \in Sectors
  /\ type = [kind |-> "UNKNOWN", v1 |-> FALSE, cnt |-> 0, rca |-> FALSE]
  /\ buf = [h \in 1..2 |-> Junk]
  /\ card \in [st : {"tran"}, sec : {addr}, line : {"idle"}, wrote : {None}]
  /\ left = MaxFaults

Fault(f) == f \in Faults /\ left > 0 /\ left' = left - 1
NoFault == left' = left
-----------------------------------------------------------------------------
(* The user of the host, sd_card.v *)
rbusy == stat # "READY"
rdone == stat \in {"READING", "WRITING"} /\ dat = "DONE"

\* an order stays up until rdone
Order ==
  /\ order = None /\ order' \in Ops \X Sectors
  /\ UNCHANGED <<stat, type, ctrl, addr, dat, buf, card, left>>
-----------------------------------------------------------------------------
(* The command FSM *)
SetCmd ==
  /\ stat \in Ident /\ ~ctrl.busy
  /\ ctrl' = Sent
  /\ UNCHANGED <<order, stat, type, addr, dat, buf, card, left>>

Accept ==
  /\ stat = "READY" /\ order # None
  /\ stat' = IF order[1] = "read" THEN "CMD17" ELSE "CMD24"
  /\ addr' = IF type.kind = "SDHCv2" THEN order[2] ELSE Elsewhere
  /\ ctrl' = Sent
  /\ UNCHANGED <<order, type, dat, buf, card, left>>

\* the card gets the command: one that its state allows and that is meant
\* for it is obeyed and answered, another is ignored; or the lines spoil it
Obey == card' = CASE stat = "CMD17" -> [card EXCEPT !.st = "data", !.sec = addr]
                  [] stat = "CMD24" -> [card EXCEPT !.st = "rcv", !.sec = addr, !.wrote = None]
                  [] OTHER -> card
Meant == card.st = "tran" /\ (stat \in {"CMD7", "CMD55_6"} => type.rca)
Truth == IF stat \in DOMAIN Says THEN Says[stat] ELSE {}
CardHears ==
  /\ ctrl.busy /\ ~ctrl.seen
  /\ \E ans \in Answers, arg \in SUBSET Truth :
       /\ ctrl' = [ctrl EXCEPT !.seen = TRUE, !.ans = ans, !.arg = arg]
       /\ \/ Meant /\ ans = "ok" /\ arg = Truth /\ Obey /\ NoFault
          \/ Meant /\ ans # "ok" /\ arg = {} /\ Obey /\ Fault("bent")
          \/ Meant /\ ans = "ok" /\ arg # Truth /\ Obey /\ Fault(Misread[stat])
          \/ Meant /\ stat = "ACMD41" /\ ans = "ok" /\ arg = {} /\ Obey /\ Fault("slow")
          \/ ~Meant /\ ans = "timeout" /\ arg = {} /\ card' = card /\ NoFault
          \/ ans = "timeout" /\ arg = {} /\ card' = card
             /\ Fault(IF stat = "CMD24" THEN "lostwr" ELSE "lost")
  /\ UNCHANGED <<order, stat, type, addr, dat, buf>>

\* done: on to the next command, or once more from the same or an earlier
\* one.  Only CMD17 is sent again outside the identification.
\* Mutant: CMD8 is given up four tries too early.
GivesUp8Early == stat = "CMD8" /\ ctrl.ans = "timeout" /\ type.cnt = 3
GivesUp8 == stat = "CMD8" /\ ctrl.ans = "timeout" /\ type.cnt = 7
\* no timeout, no syntaxe, and the bits of resparg that the state looks at
Good == /\ ctrl.ans = "ok"
        /\ stat = "CMD8" => "aa" \in ctrl.arg
        /\ stat = "ACMD41" => "ready" \in ctrl.arg
\* Mutant: the response to CMD24 is not looked at.
NextStatBlind ==
  IF Good \/ stat = "CMD24" THEN After[stat]
  ELSE IF stat \in DOMAIN Instead THEN Instead[stat] ELSE stat
\* Mutant: what follows ACMD41 does not wait for the card's power-up.
NextStatHasty ==
  IF ctrl.ans = "ok" THEN After[stat]
  ELSE IF GivesUp8 THEN "CMD55_41"
  ELSE IF stat \in DOMAIN Instead THEN Instead[stat] ELSE stat
NextStat ==
  IF Good THEN After[stat]
  ELSE IF GivesUp8 THEN "CMD55_41"
  ELSE IF stat \in DOMAIN Instead THEN Instead[stat] ELSE stat
Kind == IF type.v1 THEN "SDv1" ELSE IF "ccs" \in ctrl.arg THEN "SDHCv2" ELSE "SDv2"
CmdDone ==
  /\ ctrl.busy /\ ctrl.seen
  /\ stat' = NextStat
  /\ type' = CASE stat = "CMD8" /\ ctrl.ans = "timeout" ->
                    [type EXCEPT !.cnt = (@ + 1) % 8, !.v1 = @ \/ GivesUp8]
               [] stat = "ACMD41" /\ Good -> [type EXCEPT !.kind = Kind]
               [] stat = "CMD3" /\ Good -> [type EXCEPT !.rca = "rca" \in ctrl.arg]
               [] OTHER -> type
  /\ ctrl' = IF stat = "CMD17" /\ ~Good THEN Sent ELSE Quiet
  /\ UNCHANGED <<order, addr, dat, buf, card, left>>

\* the data FSM has come to an end
Transfer == stat \in {"READING", "WRITING"}
ReadAgain ==
  /\ Transfer /\ dat = "RTIMEOUT"
  /\ stat' = "CMD17" /\ ctrl' = Sent
  /\ UNCHANGED <<order, type, addr, dat, buf, card, left>>

Finish ==
  /\ rdone
  /\ stat' = "READY" /\ dat' = "RWAIT" /\ order' = None
  /\ UNCHANGED <<type, ctrl, addr, buf, card, left>>

WriteFailed ==
  /\ Transfer /\ dat = "WERR"
  /\ stat' = "READY" /\ dat' = "RWAIT"
  /\ UNCHANGED <<order, type, ctrl, addr, buf, card, left>>
-----------------------------------------------------------------------------
(* A rising edge of sdclk: the data FSM and the card move together *)
Low(bit) == \/ card.st = "data" /\ (card.line = "start" \/ (card.line # "idle" /\ bit = 0))
            \/ card.st \in {"ack", "prg"}
OnLine == CASE card.st = "data" /\ card.line = "half1" -> <<card.sec, 1>>
            [] card.st = "data" /\ card.line = "half2" -> <<card.sec, 2>>
            [] OTHER -> Junk

DatTo(st) == dat' = st /\ UNCHANGED buf
Reading == stat \in {"CMD17", "READING"}

\* RWAIT and the reading states
ReadClk ==
  \/ /\ dat = "RWAIT"
     /\ \E bit \in {0, 1} : DatTo(IF Low(bit) THEN "RDATA1" ELSE "RWAIT")
     /\ NoFault
  \/ /\ dat = "RWAIT" /\ card.st = "data" /\ card.line = "idle"
     /\ DatTo("RTIMEOUT") /\ Fault("late")
  \/ dat = "RDATA1" /\ dat' = "RDATA2" /\ buf' = [buf EXCEPT ![1] = OnLine] /\ NoFault
  \/ dat = "RDATA2" /\ dat' = "RCRC" /\ buf' = [buf EXCEPT ![2] = OnLine] /\ NoFault
  \/ dat = "RCRC" /\ DatTo("RTAIL") /\ NoFault

\* the writing states; wack, the card's verdict, is read and not looked at
\* Mutant: the host does not wait for the card to have programmed the block.
WriteClkNoWait ==
  \/ dat = "RWAIT" /\ DatTo("WDATA") /\ NoFault
  \/ dat = "WDATA" /\ DatTo("WCRC") /\ NoFault
  \/ dat = "WCRC" /\ DatTo("WWAITACK") /\ NoFault
  \/ dat = "WWAITACK" /\ Low(0) /\ DatTo("RTAIL") /\ NoFault
WriteClk ==
  \/ dat = "RWAIT" /\ DatTo("WDATA") /\ NoFault
  \/ dat = "WDATA" /\ DatTo("WCRC") /\ NoFault
  \/ dat = "WCRC" /\ DatTo("WWAITACK") /\ (NoFault \/ Fault("deaf"))
  \/ dat = "WWAITACK" /\ Low(0) /\ DatTo("WACK") /\ NoFault
  \/ dat = "WWAITACK" /\ ~Low(0) /\ DatTo("WERR") /\ NoFault
  \/ dat = "WACK" /\ DatTo("WWAIT") /\ NoFault
  \/ dat = "WWAIT" /\ DatTo(IF Low(0) THEN "WWAIT" ELSE "RTAIL") /\ NoFault
  \/ dat = "WWAIT" /\ Low(0) /\ DatTo("WERR") /\ Fault("long")

DatClk ==
  \/ Reading /\ ReadClk
  \/ stat = "WRITING" /\ WriteClk
  \/ (Reading \/ stat = "WRITING") /\ dat = "RTAIL" /\ DatTo("DONE") /\ NoFault
  \/ (Reading \/ stat = "WRITING") /\ dat \in {"DONE", "RTIMEOUT"} /\ DatTo(dat) /\ NoFault
  \/ ~Reading /\ stat # "WRITING" /\ DatTo("RWAIT") /\ NoFault

CardTo(st, line) == card' = [card EXCEPT !.st = st, !.line = line]
Follows == [start |-> "half1", half1 |-> "half2", half2 |-> "crc"]
CardClk ==
  \/ card.st = "data" /\ card.line = "idle" /\ card' = card
  \/ card.st = "data" /\ card.line = "idle" /\ dat' # "RTIMEOUT" /\ CardTo("data", "start")
  \/ card.st = "data" /\ card.line \in DOMAIN Follows /\ CardTo("data", Follows[card.line])
  \/ card.st = "data" /\ card.line = "crc" /\ CardTo("tran", "idle")
  \/ card.st = "rcv" /\ dat = "WCRC" /\ CardTo(IF left' = left THEN "ack" ELSE "tran", "idle")
  \/ card.st = "ack" /\ CardTo("prg", "idle")
  \/ card.st = "prg" /\ card' = card
  \/ card.st = "prg" /\ card' = [card EXCEPT !.st = "tran", !.wrote = <<"write", card.sec>>]
  \/ (card.st = "tran" \/ (card.st = "rcv" /\ dat # "WCRC")) /\ card' = card

Answered == ~(Transfer /\ dat \in {"DONE", "RTIMEOUT", "WERR"})
SdClk == Answered /\ DatClk /\ CardClk /\ UNCHANGED <<order, stat, type, ctrl, addr>>
-----------------------------------------------------------------------------
HostNext == SetCmd \/ Accept \/ CmdDone \/ ReadAgain \/ Finish \/ WriteFailed
Next == Order \/ HostNext \/ CardHears \/ SdClk

Spec == Init /\ [][Next]_vars

\* sdclk runs, the FSM answers, and the card gets on with what it does.
CardMoves == SdClk /\ card' # card
FairSpec == Spec /\ WF_vars(HostNext) /\ WF_vars(CardHears)
                 /\ WF_vars(SdClk) /\ WF_vars(CardMoves)
-----------------------------------------------------------------------------
(* Properties *)

\* sd_rw.v keeps its promise to sd_card.v: every order is ended by one done,
\* and then the sector ordered is in the buffer, whole, or on the card.
Whole(s) == buf = << <<s, 1>>, <<s, 2>> >>
Moved ==
  IF ~rdone THEN None
  ELSE IF stat = "WRITING" THEN card.wrote
  ELSE IF \E s \in Sectors : Whole(s) THEN <<"read", CHOOSE s \in Sectors : Whole(s)>>
  ELSE None
Contract == INSTANCE SdHostContract WITH
  st <- IF stat \in Ident THEN "ident" ELSE IF rdone THEN "done"
        ELSE IF rbusy THEN "busy" ELSE "ready",
  moved <- Moved
KeepsContract == Contract!FairSpec

\* The host and the card never drive the data lines at once.
NoContention == dat \in {"WDATA", "WCRC"} => card.st = "rcv"

\* A card that numbers its sectors is not taken for one that numbers its
\* bytes, whatever the lines do short of an undetected change of its OCR, and
\* as long as fewer commands are lost than the eight CMD8 tries.
AddressingRight == stat \notin Ident => type.kind = "SDHCv2"

\* "No retry on write!": the order of a write that has failed is over.
NoWriteRetry == [][stat = "WRITING" /\ dat = "WERR" /\ stat' = "READY" => order' = None]_vars

\* An order ends, done or given up.
OrderEnds == order # None ~> order = None

\* A read order ends with its own sector in the buffer, also when the
\* command had to be sent again.
ReadGetsItsSector == rdone /\ stat = "READING" => Whole(order[2])
=============================================================================
