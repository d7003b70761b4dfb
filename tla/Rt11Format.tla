----------------------------- MODULE Rt11Format -----------------------------
(***************************************************************************)
(* The format of an RT-11 volume, as rt11sav.c reads and writes it.  A     *)
(* directory segment is the place of its first block and its entries, each *)
(* with a status, a name and a length; what is in a block is the lines or  *)
(* parts of a file that it holds.                                          *)
(***************************************************************************)
EXTENDS Integers, Sequences, SequencesExt

CONSTANT Lines   \* lines of text in a block

Starts == "STARTS"
Nobody == ""

FileNames == STRING

ASSUME FormatAssumption == Lines \in Nat \ {0} /\ {Starts, Nobody} \subseteq FileNames

Entry == [st : {"perm", "empty"}, name : FileNames, len : Nat]
Segment == [first : Nat, ents : Seq(Entry)]
Empty(n) == [st |-> "empty", name |-> Nobody, len |-> n]
Perm(nm, n) == [st |-> "perm", name |-> nm, len |-> n]
Length(ents) == FoldLeft(LAMBDA n, e : n + e.len, 0, ents)
Place(g, j) == g.first + Length(SubSeq(g.ents, 1, j - 1))
Called(g, nm) == {j \in DOMAIN g.ents : g.ents[j].st = "perm" /\ g.ents[j].name = nm}

\* Block n of a text, which is NUL padded.
TextBlock(t, n) ==
  LET last == (n + 1) * Lines
  IN  SubSeq(t, n * Lines + 1, IF Len(t) < last THEN Len(t) ELSE last)
BlocksOf(t) == (Len(t) + Lines - 1) \div Lines
OldText(b) == [n \in 1..b.lines |-> <<Starts, n>>]
RunLine(nm) == <<nm, 0>>

\* Block n of a file of the base, and of the program.
BaseBlock(b, nm, n) ==
  CASE nm = Starts -> TextBlock(OldText(b), n)
    [] nm = Nobody -> <<>>
    [] OTHER -> << <<nm, n>> >>
ProgBlock(n) == << <<"program", n>> >>

Area(g, j) == Place(g, j) .. Place(g, j) + g.ents[j].len - 1
Blocks(b) == UNION {UNION {Area(g, j) : j \in DOMAIN g.ents} : g \in ToSet(b.segs)}
BaseData(b) ==
  [x \in Blocks(b) |->
     LET g == CHOOSE h \in ToSet(b.segs) : \E j \in DOMAIN h.ents : x \in Area(h, j)
         j == CHOOSE y \in DOMAIN g.ents : x \in Area(g, y)
     IN  BaseBlock(b, g.ents[j].name, x - Place(g, j))]

\* What a base volume is: segments that lie apart, one file of a name, blocks that
\* hold what the files say, and a STARTS.COM that is long enough for its text.
Span(g) == g.first .. g.first + Length(g.ents) - 1
Apart(v) == \A x, y \in DOMAIN v : x # y => Span(v[x]) \cap Span(v[y]) = {}
OneOfEach(v) ==
  \A x, y \in DOMAIN v : \A p \in DOMAIN v[x].ents, q \in DOMAIN v[y].ents :
    v[x].ents[p].st = "perm" /\ q \in Called(v[y], v[x].ents[p].name) => x = y /\ p = q
Proper(b) ==
  /\ b.segs \in Seq(Segment) \ {<<>>} /\ Apart(b.segs) /\ OneOfEach(b.segs)
  /\ DOMAIN b.data = Blocks(b)
  /\ \A g \in ToSet(b.segs) : \A j \in DOMAIN g.ents : \A n \in 0..(g.ents[j].len - 1) :
       b.data[Place(g, j) + n] = BaseBlock(b, g.ents[j].name, n)
  /\ b.lines \in Nat
  /\ \A g \in ToSet(b.segs) : \A j \in Called(g, Starts) : b.lines <= g.ents[j].len * Lines
  /\ (\A g \in ToSet(b.segs) : Called(g, Starts) = {}) => b.lines = 0
=============================================================================
