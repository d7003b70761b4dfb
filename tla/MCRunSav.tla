------------------------------ MODULE MCRunSav ------------------------------
(* Instances of RunSav for TLC. *)
EXTENDS RunSav

Names == <<"P", "P1">>

\* The first segment is filled with up to three entries: empty
\* areas, STARTS.COM, and files that have the names the program might get.
\* The second is empty, or holds one of the first two of these.
Parts == {<<3>>, <<1, 2, 0>>}
File == {"P", "P1", Starts, Nobody}
Filled(nm, n) == IF nm = Nobody THEN Empty(n) ELSE Perm(nm, n)
Fills == UNION {{[x \in DOMAIN q |-> Filled(nm[x], q[x])] : nm \in [DOMAIN q -> File]} : q \in Parts}
Seconds == {<<Empty(3)>>} \cup {<<Perm(nm, 2), Empty(1)>> : nm \in {"P", Starts}}
Once(ents) == \A x, y \in DOMAIN ents : ents[x].name = ents[y].name /\ x # y => ents[x].name = Nobody
\* A name that is never tried is a name like any other.
Needed(ents) == LET nms == {ents[x].name : x \in DOMAIN ents} IN "P1" \in nms => "P" \in nms
Volumes == {<<[first |-> 10, ents |-> p[1]], [first |-> 20, ents |-> p[2]]>> :
              p \in {q \in Fills \X Seconds : Once(q[1] \o q[2]) /\ Needed(q[1] \o q[2])}}
StartsLen(v) ==
  LET ents == v[1].ents \o v[2].ents
      L == {ents[x].len : x \in {y \in DOMAIN ents : ents[y].name = Starts}}
  IN  IF L = {} THEN 0 ELSE CHOOSE n \in L : TRUE
\* STARTS.COM fills its blocks to the end, or to the last line but one.
Bare == UNION {{[segs |-> v, lines |-> n] : n \in {StartsLen(v) * 2, StartsLen(v) * 2 - 1} \cap Nat} : v \in Volumes}
AllBases == {[segs |-> b.segs, lines |-> b.lines, data |-> BaseData(b)] : b \in Bare}
=============================================================================
