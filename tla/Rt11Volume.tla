----------------------------- MODULE Rt11Volume -----------------------------
(***************************************************************************)
(* rt11sav.c: an RT-11 volume is made to boot one program.  The program is *)
(* put on a copy of a base volume under a name that is free, and           *)
(* STARTS.COM is written again with a line that runs it.                   *)
(*                                                                         *)
(* A directory segment lists entries in the order of their areas, so an    *)
(* entry's place is the sum of the lengths before it.  Every access to the *)
(* disk may fail, and then rt11_build gives up.  What a failed write has   *)
(* left behind is not read again, but the half-made RT11SAV.DSK stays on   *)
(* the card: Run SAV does not mount it, the user may.                      *)
(***************************************************************************)
EXTENDS Rt11Format, FiniteSets

CONSTANTS
  Bases,       \* base volumes: segments, lines of STARTS.COM, what is in the blocks
  Candidates,  \* names that rt11_pick_name tries, in order
  Sizes,       \* lengths of the program, in blocks
  Room         \* entries that a segment has room for, the end mark included

VARIABLES
  segs, data,  \* the volume: directory segments, and what is in the blocks
  base, size,  \* the base volume and the length of the program
  pc, s,       \* what goes on, and the segment that a walk has come to
  k,           \* the candidate for the program's name
  name, need,  \* of the file that is being put
  blk, i,      \* its first block, and how many blocks have been moved
  text,        \* what STARTS.COM is to say
  ret          \* "none", "ok" or the reason for giving up

volume == <<segs, data>>
walk == <<s, k>>
file == <<name, need, blk, i, text>>
vars == <<volume, base, size, pc, walk, file, ret>>

NoBase == [segs |-> <<>>, lines |-> 0, data |-> <<>>]
Init ==
  /\ segs = <<>> /\ data = <<>> /\ base = NoBase /\ size = 0
  /\ pc = "off" /\ s = 1 /\ k = 1
  /\ name = Nobody /\ need = 0 /\ blk = 0 /\ i = 0 /\ text = <<>>
  /\ ret = "none"

-----------------------------------------------------------------------------
(* dir_walk: one step of it is one segment *)

Cur == segs[s]
To(place) == pc' = place /\ s' = 1
Stay == /\ s < Len(segs) /\ s' = s + 1 /\ UNCHANGED <<pc, k, file, ret>>
Over == s = Len(segs)
GiveUp(why) == /\ pc' = "done" /\ ret' = why /\ UNCHANGED <<volume, walk, file>>
Written(g) == segs' = [segs EXCEPT ![s] = g]

\* rt11_build is called with a copy of base volume b and a program of n blocks.
Begin(b, n) ==
  /\ pc = "off"
  /\ base' = b /\ size' = n
  /\ segs' = b.segs /\ data' = b.data
  /\ To("pick") /\ k' = 1
  /\ UNCHANGED <<file, ret>>

\* Mutant: the digit is not looked up in its turn.
PickNameOnce ==
  /\ pc = "pick"
  /\ \/ GiveUp("dir read")
     \/ /\ Called(Cur, Candidates[k]) # {}
        /\ \/ k = Len(Candidates) /\ GiveUp("name taken")
           \/ /\ k < Len(Candidates) /\ k' = k + 1 /\ To("rm")
              /\ name' = Candidates[k + 1] /\ need' = size
              /\ UNCHANGED <<volume, blk, i, text, ret>>
     \/ /\ Called(Cur, Candidates[k]) = {} /\ UNCHANGED volume
        /\ \/ Stay
           \/ /\ Over /\ To("rm") /\ name' = Candidates[k] /\ need' = size
              /\ UNCHANGED <<k, blk, i, text, ret>>
  /\ UNCHANGED <<base, size>>

\* rt11_pick_name: a file of that name on the volume means the next candidate.
PickName ==
  /\ pc = "pick"
  /\ \/ GiveUp("dir read")
     \/ /\ Called(Cur, Candidates[k]) # {}
        /\ \/ k = Len(Candidates) /\ GiveUp("name taken")
           \/ /\ k < Len(Candidates) /\ k' = k + 1 /\ To("pick")
              /\ UNCHANGED <<volume, file, ret>>
     \/ /\ Called(Cur, Candidates[k]) = {} /\ UNCHANGED volume
        /\ \/ Stay
           \/ /\ Over /\ To("rm") /\ name' = Candidates[k] /\ need' = size
              /\ UNCHANGED <<k, blk, i, text, ret>>
  /\ UNCHANGED <<base, size>>

\* rm_cb: the old file of that name becomes an empty area.
RemoveOld ==
  LET here == Called(Cur, name) IN
  /\ pc = "rm"
  /\ \/ GiveUp("dir read")
     \/ /\ here = {} /\ UNCHANGED volume
        /\ Stay \/ (Over /\ To("alloc") /\ UNCHANGED <<k, file, ret>>)
     \/ \E j \in here :
          /\ Written([Cur EXCEPT !.ents[j] = Empty(@.len)])
          /\ To("alloc") /\ UNCHANGED <<data, k, file, ret>>
  /\ UNCHANGED <<base, size>>

\* Mutant: what is left of the area is lost.
PutInWhole(ents, j) == [ents EXCEPT ![j] = Perm(name, need)]

\* The area of entry j is split: the file, and what is left of the area.
PutIn(ents, j) ==
  LET rest == ents[j].len - need
  IN  SubSeq(ents, 1, j - 1) \o <<Perm(name, need)>>
        \o (IF rest > 0 THEN <<Empty(rest)>> ELSE <<>>) \o SubSeq(ents, j + 1, Len(ents))

Fits(g) == {j \in DOMAIN g.ents : g.ents[j].st = "empty" /\ g.ents[j].len >= need}

\* Mutant: the entry that a split adds is not counted.
NoRoomLate(g, j) == g.ents[j].len > need /\ Len(g.ents) + 1 > Room
NoRoom(g, j) == g.ents[j].len > need /\ Len(g.ents) + 2 > Room

\* alloc_cb: the first area that is big enough, or none at all.
Alloc ==
  LET here == Fits(Cur)
      j == CHOOSE x \in here : \A y \in here : x <= y
  IN
  /\ pc = "alloc"
  /\ \/ GiveUp("dir write")
     \/ /\ here = {}
        /\ \/ Stay /\ UNCHANGED volume
           \/ Over /\ GiveUp("disk full")
     \/ /\ here # {}
        /\ \/ NoRoom(Cur, j) /\ GiveUp("dir full")
           \/ /\ ~NoRoom(Cur, j)
              /\ Written([Cur EXCEPT !.ents = PutIn(@, j)])
              /\ blk' = Place(Cur, j) /\ i' = 0 /\ To("put")
              /\ UNCHANGED <<data, k, name, need, text, ret>>
  /\ UNCHANGED <<base, size>>

FileBlock(n) == IF name = Starts THEN TextBlock(text, n) ELSE ProgBlock(n)

\* rt11_put: block after block, each read from its source first.
PutBlock ==
  /\ pc = "put"
  /\ \/ GiveUp("read SAV") \/ GiveUp("write DSK")
     \/ /\ data' = [data EXCEPT ![blk + i] = FileBlock(i)]
        /\ i' = i + 1
        /\ IF i + 1 < need THEN UNCHANGED <<pc, s>>
           ELSE To(IF name = Starts THEN "sync" ELSE "find")
        /\ UNCHANGED <<segs, k, name, need, blk, text, ret>>
  /\ UNCHANGED <<base, size>>

\* The line is added, and STARTS.COM is put like any file.
PutStarts(t) ==
  /\ text' = Append(t, RunLine(name))
  /\ name' = Starts /\ need' = BlocksOf(text')
  /\ To("rm")

\* rt11_find for STARTS.COM; a volume without one gets one, and one of no blocks
\* says nothing.
FindStarts ==
  LET here == Called(Cur, Starts) IN
  /\ pc = "find"
  /\ \/ GiveUp("dir read")
     \/ /\ here = {} /\ UNCHANGED volume
        /\ Stay \/ (Over /\ PutStarts(<<>>) /\ UNCHANGED <<k, blk, i, ret>>)
     \/ \E j \in here :
          /\ Cur.ents[j].len = 0
          /\ PutStarts(<<>>) /\ UNCHANGED <<volume, k, blk, i, ret>>
     \/ \E j \in here :
          /\ Cur.ents[j].len > 0
          /\ blk' = Place(Cur, j) /\ need' = Cur.ents[j].len /\ i' = 0 /\ text' = <<>>
          /\ To("read") /\ UNCHANGED <<volume, k, name, ret>>
  /\ UNCHANGED <<base, size>>

\* Mutant: only the first block is read.
ReadsOnOne(t) == FALSE
\* A text goes on in the next block if this one is full; two are enough.
ReadsOn(t) == i + 1 < need /\ i + 1 < 2 /\ Len(t) = (i + 1) * Lines

ReadText ==
  LET t == text \o data[blk + i] IN
  /\ pc = "read"
  /\ \/ GiveUp("read DSK")
     \/ ReadsOn(t) /\ text' = t /\ i' = i + 1 /\ UNCHANGED <<volume, walk, pc, name, need, blk, ret>>
     \/ ~ReadsOn(t) /\ PutStarts(t) /\ UNCHANGED <<volume, k, blk, i, ret>>
  /\ UNCHANGED <<base, size>>

Sync ==
  /\ pc = "sync"
  /\ GiveUp("ok") \/ GiveUp("write DSK")
  /\ UNCHANGED <<base, size>>

Step == PickName \/ RemoveOld \/ Alloc \/ PutBlock \/ FindStarts \/ ReadText \/ Sync
Next == Step \/ \E b \in Bases, n \in Sizes : Begin(b, n)
Spec == Init /\ [][Next]_vars

-----------------------------------------------------------------------------
IsVolume(v) ==
  \A g \in ToSet(v) :
    /\ g.first \in Nat /\ Len(g.ents) < Room
    /\ \A e \in ToSet(g.ents) : e.st \in {"perm", "empty"} /\ e.len \in Nat
TypeOK ==
  /\ IsVolume(segs) /\ IsVolume(base.segs) /\ size \in Sizes \cup {0}
  /\ pc \in {"off", "pick", "rm", "alloc", "put", "find", "read", "sync", "done"}
  /\ s \in 1..(Len(segs) + 1) /\ k \in DOMAIN Candidates
  /\ name \in ToSet(Candidates) \cup {Starts, Nobody}
  /\ need \in Nat /\ blk \in Nat /\ i \in Nat /\ (pc = "put" => i < need)
  /\ ret \in {"none", "ok", "dir read", "dir write", "name taken", "disk full",
              "dir full", "read SAV", "write DSK", "read DSK"}

\* Where file nm is, and what it says.
Copies(v, nm) == {c \in ToSet(v) \X (1..Room) : c[2] \in Called(c[1], nm)}
Says(v, nm, contents) ==
  \E c \in Copies(v, nm) :
    /\ Copies(v, nm) = {c}
    /\ LET g == c[1]  j == c[2] IN
       \A n \in DOMAIN contents :
         n <= g.ents[j].len /\ data[Place(g, j) + n - 1] = contents[n]

(* The files of the base volume, STARTS.COM apart, are on the volume all   *)
(* the time, in their places and with their contents: "never over one of   *)
(* the system's own programs", nor over anything else.                     *)
OthersKept ==
  pc # "off" =>
    \A nm \in {e.name : e \in UNION {ToSet(g.ents) : g \in ToSet(base.segs)}} \ {Starts, Nobody} :
      \A c \in Copies(base.segs, nm) :
        LET g == c[1]  j == c[2] IN
        /\ \E d \in Copies(segs, nm) : Place(d[1], d[2]) = Place(g, j) /\ d[1].ents[d[2]].len = g.ents[j].len
        /\ \A n \in 0..(g.ents[j].len - 1) : data[Place(g, j) + n] = BaseBlock(base, nm, n)

\* The volume boots the program: it is there under its name, whole, and STARTS.COM
\* says what it said (up to two blocks of it) and then runs it.
Kept(b) == LET n == 2 * Lines IN SubSeq(OldText(b), 1, IF b.lines < n THEN b.lines ELSE n)
Boots ==
  LET t == Kept(base) \o <<RunLine(Candidates[k])>> IN
  /\ Says(segs, Candidates[k], [n \in 1..size |-> ProgBlock(n - 1)])
  /\ Says(segs, Starts, [n \in 1..BlocksOf(t) |-> TextBlock(t, n - 1)])

(* A build that reports success has made a volume that boots the program.  *)
BuiltRight == ret = "ok" => Boots

(* The areas of a segment still fill it: no entry reaches into the next    *)
(* segment's blocks or leaves blocks without an entry.                     *)
AreasFill ==
  pc # "off" =>
    \A x \in DOMAIN segs : Length(segs[x].ents) = Length(base.segs[x].ents)
=============================================================================
