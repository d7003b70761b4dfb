---------------------------- MODULE MCRt11Volume ----------------------------
(* Base volumes for TLC: every way to fill two segments of three blocks with *)
(* empty areas, STARTS.COM and files that have the program's names.          *)
EXTENDS Rt11Volume

Names == <<"P", "P1">>
Held == 3
Parts == {q \in UNION {[1..n -> 1..Held] : n \in 1..Held} :
            FoldLeft(LAMBDA x, y : x + y, 0, q) = Held}
Fills == UNION {{[x \in DOMAIN q |-> IF nm[x] = Nobody THEN Empty(q[x]) ELSE Perm(nm[x], q[x])]
                 : nm \in [DOMAIN q -> {"P", "P1", Starts, Nobody}]} : q \in Parts}
Once(ents) == \A x, y \in DOMAIN ents : ents[x].name = ents[y].name /\ x # y => ents[x].name = Nobody
Volumes == {<<[first |-> 10, ents |-> a], [first |-> 20, ents |-> b]>> :
              <<a, b>> \in {p \in Fills \X Fills : Once(p[1] \o p[2])}}
Tall(v) == LET L == {e.len : e \in {f \in UNION {ToSet(g.ents) : g \in ToSet(v)} : f.name = Starts}}
           IN  IF L = {} THEN 0 ELSE CHOOSE n \in L : TRUE
Bare == UNION {{[segs |-> v, lines |-> n] : n \in 0..(2 * Tall(v))} : v \in Volumes}
SmallBases == {[segs |-> b.segs, lines |-> b.lines, data |-> BaseData(b)] : b \in Bare}
=============================================================================
