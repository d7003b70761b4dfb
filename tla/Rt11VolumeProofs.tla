-------------------------- MODULE Rt11VolumeProofs --------------------------
(***************************************************************************)
(* Theorems about Rt11Volume, for any base volumes, programs and names:    *)
(* what rt11_build does to the directory and to the blocks leaves every    *)
(* file of the base volume but STARTS.COM where it was and as it was, and  *)
(* a build that succeeds has put the program and STARTS.COM there whole.   *)
(*                                                                         *)
(* A segment says nowhere where an entry's area lies: it is the sum of the *)
(* lengths before.  So the module begins with that sum, by induction from  *)
(* the least element of a set of numbers, and goes on to what emptying and *)
(* splitting an area do to the places of all the others, to files as       *)
(* triples <<name, first block, number of blocks>>, and to the invariant   *)
(* of a build, action by action.                                           *)
(***************************************************************************)
EXTENDS Rt11Volume, TLAPS, WellFoundedInduction

\* A set of numbers that is not empty has a least one; so what holds of 0, and of
\* n + 1 when it holds of n, holds of every number.
LEMMA LeastOf ==
  ASSUME NEW T \in SUBSET Nat, T # {}
  PROVE  \E m \in T : \A n \in T : m <= n
  <1>1. IsWellFoundedOn(OpToRel(<, Nat), Nat)
    BY NatLessThanWellFounded
  <1>2. OpToRel(<, Nat) = {ss \in Nat \X Nat : ss[1] < ss[2]}
    BY DEF OpToRel
  <1>3. PICK m \in T : \A n \in T : ~ (<<n, m>> \in OpToRel(<, Nat))
    BY <1>1, WFMin
  <1>4. \A n \in T : ~(n < m)
    BY <1>2, <1>3
  <1> QED BY <1>4

LEMMA Induction ==
  ASSUME NEW P \in SUBSET Nat, 0 \in P, \A n \in P : n + 1 \in P
  PROVE  \A n \in Nat : n \in P
  <1> SUFFICES ASSUME Nat \ P # {} PROVE FALSE
    OBVIOUS
  <1>1. PICK m \in Nat \ P : \A n \in Nat \ P : m <= n
    BY LeastOf
  <1>2. m # 0
    BY <1>1
  <1>3. m - 1 \in Nat /\ ~(m <= m - 1) /\ (m - 1) + 1 = m
    BY <1>1, <1>2
  <1>4. m - 1 \in P
    BY <1>1, <1>3
  <1> QED BY <1>1, <1>3, <1>4

-----------------------------------------------------------------------------
(* Sums of lengths: FoldLeft as a function on the sets of indices *)

Top(D) == CHOOSE x \in D : \A y \in D : x >= y
\* What FoldLeft chooses: g adds the lengths of the entries of a set of indices, the
\* last one first.
Adds(g, ents, D) ==
  g = [q \in SUBSET D |-> IF q = {} THEN 0 ELSE g[q \ {Top(q)}] + ents[Top(q)].len]

LEMMA LengthAdds ==
  ASSUME NEW ents
  PROVE  Length(ents) = (CHOOSE g : Adds(g, ents, DOMAIN ents))[DOMAIN ents]
  BY DEF Length, FoldLeft, MapThenFoldSet, Max, Top, Adds

LEMMA TopIs ==
  ASSUME NEW n \in Nat, NEW q \in SUBSET (1..n), n \in q
  PROVE  Top(q) = n
  <1>1. \A y \in q : n >= y
    OBVIOUS
  <1>2. \A x \in q : (\A y \in q : x >= y) => x = n
    <2> TAKE x \in q
    <2>1. x \in 1..n
      OBVIOUS
    <2>2. x >= n => x = n
      BY <2>1
    <2> QED BY <2>2
  <1> QED BY <1>1, <1>2 DEF Top

\* Two such functions agree where the lengths agree, and there is one.
LEMMA AddsAgree ==
  ASSUME NEW e, NEW f, NEW a \in Nat, NEW b \in Nat, NEW n \in Nat, n <= a, n <= b,
         NEW g, NEW h, Adds(g, e, 1..a), Adds(h, f, 1..b),
         \A j \in 1..n : e[j].len = f[j].len
  PROVE  g[1..n] = h[1..n]
  <1> DEFINE Wrong == {m \in 0..n : \E q \in SUBSET (1..m) : g[q] # h[q]}
  <1>1. SUFFICES ASSUME Wrong # {} PROVE FALSE
    <2>1. n \in 0..n /\ 1..n \in SUBSET (1..n)
      OBVIOUS
    <2> QED BY <2>1
  <1>2. PICK m \in Wrong : \A l \in Wrong : m <= l
    <2>1. Wrong \in SUBSET Nat
      OBVIOUS
    <2> HIDE DEF Wrong
    <2> QED BY <1>1, <2>1, LeastOf
  <1>3. PICK q \in SUBSET (1..m) : g[q] # h[q]
    BY <1>2
  <1>4. q \in SUBSET (1..a) /\ q \in SUBSET (1..b)
    BY <1>2
  <1>5. q # {}
    <2>1. g[{}] = 0 /\ h[{}] = 0
      BY DEF Adds
    <2> QED BY <1>3, <2>1
  <1>6. m \in q
    <2>1. SUFFICES ASSUME m \notin q PROVE FALSE
      OBVIOUS
    <2>2. m # 0
      <3>1. 1..0 = {}
        OBVIOUS
      <3> QED BY <1>3, <1>5, <3>1
    <2>3. q \in SUBSET (1..(m - 1)) /\ m - 1 \in 0..n
      BY <1>2, <2>1, <2>2
    <2>4. m - 1 \in Wrong
      BY <1>3, <2>3
    <2>5. m <= m - 1
      BY <1>2, <2>4
    <2> QED BY <2>3, <2>5
  <1>7. m \in 1..n
    BY <1>2, <1>6
  <1>8. Top(q) = m
    BY <1>6, <1>7, TopIs
  <1>9. g[q] = g[q \ {m}] + e[m].len /\ h[q] = h[q \ {m}] + f[m].len
    BY <1>4, <1>5, <1>8 DEF Adds
  <1>10. g[q \ {m}] = h[q \ {m}]
    <2>1. m - 1 \notin Wrong
      <3>1. ~(m <= m - 1)
        BY <1>7
      <3> QED BY <1>2, <3>1
    <2>2. q \ {m} \in SUBSET (1..(m - 1)) /\ m - 1 \in 0..n
      BY <1>7
    <2> QED BY <2>1, <2>2
  <1> QED BY <1>3, <1>7, <1>9, <1>10

LEMMA AddsExists ==
  ASSUME NEW e, NEW n \in Nat
  PROVE  \E g : Adds(g, e, 1..n)
  <1> DEFINE Wrong == {m \in Nat : ~\E g : Adds(g, e, 1..m)}
  <1>1. SUFFICES ASSUME Wrong # {} PROVE FALSE
    OBVIOUS
  <1>2. PICK m \in Wrong : \A l \in Wrong : m <= l
    BY <1>1, LeastOf
  <1>3. CASE m = 0
    <2>1. Adds([q \in SUBSET (1..0) |-> 0], e, 1..0)
      <3>1. \A q \in SUBSET (1..0) : q = {}
        OBVIOUS
      <3> QED BY <3>1 DEF Adds
    <2> QED BY <1>2, <1>3, <2>1
  <1>4. CASE m # 0
    <2>1. m - 1 \in Nat \ Wrong
      BY <1>2, <1>4
    <2>2. PICK g : Adds(g, e, 1..(m - 1))
      BY <2>1
    <2> DEFINE h == [q \in SUBSET (1..m) |-> IF m \in q THEN g[q \ {m}] + e[m].len ELSE g[q]]
    <2>3. ASSUME NEW q \in SUBSET (1..m), q # {}
          PROVE  h[q] = h[q \ {Top(q)}] + e[Top(q)].len
      <3>1. CASE m \in q
        BY <3>1, TopIs
      <3>2. CASE m \notin q
        <4>1. q \in SUBSET (1..(m - 1))
          BY <1>4, <3>2
        <4>2. g[q] = g[q \ {Top(q)}] + e[Top(q)].len
          BY <2>2, <2>3, <4>1 DEF Adds
        <4> QED BY <3>2, <4>2
      <3> QED BY <3>1, <3>2
    <2>4. h[{}] = 0
      BY <2>2 DEF Adds
    <2>5. Adds(h, e, 1..m)
      <3>1. h = [q \in SUBSET (1..m) |-> h[q]]
        OBVIOUS
      <3>2. \A q \in SUBSET (1..m) : h[q] = IF q = {} THEN 0 ELSE h[q \ {Top(q)}] + e[Top(q)].len
        BY <2>3, <2>4
      <3> HIDE DEF h
      <3> QED BY <3>1, <3>2 DEF Adds
    <2> QED BY <1>2, <2>5
  <1> QED BY <1>3, <1>4

LEMMA LengthOf ==
  ASSUME NEW e, NEW n \in Nat, DOMAIN e = 1..n
  PROVE  \E g : Adds(g, e, 1..n) /\ Length(e) = g[1..n]
  BY LengthAdds, AddsExists

\* The length up to entry n is the length up to the entry before, and that of n.
LEMMA LengthStep ==
  ASSUME NEW S, NEW e \in Seq(S), NEW n \in 1..Len(e)
  PROVE  Length(SubSeq(e, 1, n)) = Length(SubSeq(e, 1, n - 1)) + e[n].len
  <1> DEFINE u == SubSeq(e, 1, n)  v == SubSeq(e, 1, n - 1)
  <1>1. DOMAIN u = 1..n /\ DOMAIN v = 1..(n - 1) /\ u[n] = e[n]
        /\ \A j \in 1..(n - 1) : u[j].len = v[j].len
    OBVIOUS
  <1> HIDE DEF u, v
  <1>2. PICK g : Adds(g, u, 1..n) /\ Length(u) = g[1..n]
    BY <1>1, LengthOf
  <1>3. PICK h : Adds(h, v, 1..(n - 1)) /\ Length(v) = h[1..(n - 1)]
    BY <1>1, LengthOf
  <1>4. g[1..n] = g[(1..n) \ {n}] + u[n].len
    <2>1. n \in Nat /\ n \in 1..n /\ 1..n \in SUBSET (1..n)
      OBVIOUS
    <2>2. Top(1..n) = n /\ 1..n # {}
      BY <2>1, TopIs
    <2> QED BY <1>2, <2>1, <2>2 DEF Adds
  <1>5. (1..n) \ {n} = 1..(n - 1)
    OBVIOUS
  <1>6. g[1..(n - 1)] = h[1..(n - 1)]
    <2>1. n \in Nat /\ n - 1 \in Nat /\ n - 1 <= n /\ n - 1 <= n - 1
      OBVIOUS
    <2>2. \A m \in Nat : m <= n /\ m <= n - 1 /\ (\A j \in 1..m : u[j].len = v[j].len) => g[1..m] = h[1..m]
      BY ONLY <1>2, <1>3, <2>1, AddsAgree
    <2> QED BY <1>1, <2>1, <2>2
  <1> QED BY <1>1, <1>2, <1>3, <1>4, <1>5, <1>6 DEF u, v

LEMMA LengthNone ==
  ASSUME NEW S, NEW e \in Seq(S)
  PROVE  Length(SubSeq(e, 1, 0)) = 0 /\ Length(SubSeq(e, 1, Len(e))) = Length(e)
  <1>1. DOMAIN SubSeq(e, 1, 0) = 1..0
    OBVIOUS
  <1>2. PICK g : Adds(g, SubSeq(e, 1, 0), 1..0) /\ Length(SubSeq(e, 1, 0)) = g[1..0]
    BY <1>1, LengthOf
  <1>3. g[1..0] = 0
    BY <1>2 DEF Adds
  <1>4. SubSeq(e, 1, Len(e)) = e
    OBVIOUS
  <1> QED BY <1>2, <1>3, <1>4

-----------------------------------------------------------------------------
(* Where the areas of a segment end *)

\* Where the area of entry j ends, counted from the first block of the segment.
Ends(e, j) == Length(SubSeq(e, 1, j))

LEMMA EndsIs ==
  ASSUME NEW e \in Seq(Entry)
  PROVE  /\ Ends(e, 0) = 0 /\ Ends(e, Len(e)) = Length(e)
         /\ \A j \in 1..Len(e) : Ends(e, j) = Ends(e, j - 1) + e[j].len
  BY LengthStep, LengthNone DEF Ends

LEMMA EndsNat ==
  ASSUME NEW e \in Seq(Entry)
  PROVE  \A j \in 0..Len(e) : Ends(e, j) \in Nat
  <1> DEFINE P == {n \in Nat : n <= Len(e) => Ends(e, n) \in Nat}
  <1>1. 0 \in P
    BY EndsIs
  <1>2. ASSUME NEW n \in P PROVE n + 1 \in P
    <2>1. SUFFICES ASSUME n + 1 <= Len(e) PROVE Ends(e, n + 1) \in Nat
      OBVIOUS
    <2>2. n + 1 \in 1..Len(e) /\ (n + 1) - 1 = n
      BY <2>1
    <2>3. Ends(e, n + 1) = Ends(e, n) + e[n + 1].len
      BY <2>2, EndsIs
    <2>4. e[n + 1] \in Entry /\ Ends(e, n) \in Nat
      BY <2>1, <2>2
    <2> QED BY <2>3, <2>4 DEF Entry
  <1>3. \A n \in Nat : n \in P
    <2> HIDE DEF P
    <2> QED BY <1>1, <1>2, Induction DEF P
  <1> QED BY <1>3

LEMMA EndsGrow ==
  ASSUME NEW e \in Seq(Entry), NEW a \in 0..Len(e)
  PROVE  \A b \in a..Len(e) : Ends(e, a) <= Ends(e, b)
  <1> DEFINE P == {n \in Nat : a + n <= Len(e) => Ends(e, a) <= Ends(e, a + n)}
  <1>1. 0 \in P
    BY EndsNat
  <1>2. ASSUME NEW n \in P PROVE n + 1 \in P
    <2>1. SUFFICES ASSUME a + (n + 1) <= Len(e) PROVE Ends(e, a) <= Ends(e, a + (n + 1))
      OBVIOUS
    <2>2. a + (n + 1) \in 1..Len(e) /\ (a + (n + 1)) - 1 = a + n /\ a + n \in 0..Len(e)
      BY <2>1
    <2>3. Ends(e, a + (n + 1)) = Ends(e, a + n) + e[a + (n + 1)].len
      BY <2>2, EndsIs
    <2>4. e[a + (n + 1)] \in Entry /\ Ends(e, a) <= Ends(e, a + n)
      BY <2>1, <2>2
    <2>5. Ends(e, a) \in Nat /\ Ends(e, a + n) \in Nat
      BY <2>2, EndsNat
    <2> QED BY <2>3, <2>4, <2>5 DEF Entry
  <1>3. \A n \in Nat : n \in P
    <2> HIDE DEF P
    <2> QED BY <1>1, <1>2, Induction DEF P
  <1>4. ASSUME NEW b \in a..Len(e) PROVE Ends(e, a) <= Ends(e, b)
    <2>1. b - a \in Nat /\ a + (b - a) = b
      OBVIOUS
    <2> QED BY <1>3, <2>1
  <1> QED BY <1>4

\* Every block of the segment lies in some area.
LEMMA EndsCover ==
  ASSUME NEW e \in Seq(Entry), NEW x \in 0..(Length(e) - 1)
  PROVE  \E j \in 1..Len(e) : Ends(e, j - 1) <= x /\ x < Ends(e, j)
  <1> DEFINE T == {j \in 0..Len(e) : x < Ends(e, j)}
  <1>1. Len(e) \in T
    BY EndsIs, EndsNat
  <1>2. PICK j \in T : \A l \in T : j <= l
    <2>1. T \in SUBSET Nat /\ T # {}
      BY <1>1
    <2> HIDE DEF T
    <2> QED BY <2>1, LeastOf
  <1>3. j # 0
    BY EndsIs
  <1>4. j \in 1..Len(e) /\ j - 1 \in 0..Len(e) /\ ~(j <= j - 1)
    BY <1>3
  <1>5. j - 1 \notin T
    BY <1>2, <1>4
  <1>6. ~(x < Ends(e, j - 1)) /\ Ends(e, j - 1) \in Nat
    BY <1>4, <1>5, EndsNat
  <1> QED BY <1>4, <1>6

\* Entries of the same lengths from the same place on end at the same places.
LEMMA EndsAgree ==
  ASSUME NEW e \in Seq(Entry), NEW f \in Seq(Entry), NEW a \in 0..Len(e), NEW d \in Nat,
         NEW n \in a..Len(e), n + d <= Len(f), Ends(f, a + d) = Ends(e, a),
         \A x \in (a + 1)..n : f[x + d].len = e[x].len
  PROVE  Ends(f, n + d) = Ends(e, n)
  <1> DEFINE P == {m \in Nat : a + m <= n => Ends(f, (a + m) + d) = Ends(e, a + m)}
  <1>1. 0 \in P
    OBVIOUS
  <1>2. ASSUME NEW m \in P PROVE m + 1 \in P
    <2>1. SUFFICES ASSUME a + (m + 1) <= n PROVE Ends(f, (a + (m + 1)) + d) = Ends(e, a + (m + 1))
      OBVIOUS
    <2> DEFINE x == a + (m + 1)
    <2>2. x \in 1..Len(e) /\ x + d \in 1..Len(f) /\ x - 1 = a + m /\ (x + d) - 1 = (a + m) + d
          /\ x \in (a + 1)..n
      BY <2>1
    <2> HIDE DEF x
    <2>3. Ends(e, x) = Ends(e, a + m) + e[x].len /\ Ends(f, x + d) = Ends(f, (a + m) + d) + f[x + d].len
      BY <2>2, EndsIs
    <2>4. Ends(f, (a + m) + d) = Ends(e, a + m)
      <3>1. a + m <= n
        BY <2>1
      <3> QED BY <3>1
    <2> QED BY <2>2, <2>3, <2>4 DEF x
  <1>3. \A m \in Nat : m \in P
    <2> HIDE DEF P
    <2> QED BY <1>1, <1>2, Induction DEF P
  <1>4. n - a \in Nat /\ a + (n - a) = n /\ n <= n
    OBVIOUS
  <1>5. n - a \in P
    BY <1>3, <1>4
  <1>6. Ends(f, (a + (n - a)) + d) = Ends(e, a + (n - a))
    BY <1>4, <1>5
  <1> QED BY <1>4, <1>6

-----------------------------------------------------------------------------
(* What is done to a directory segment *)

LEMMA Names ==
  Nobody \in FileNames /\ Starts \in FileNames
  BY FormatAssumption

LEMMA NewEntries ==
  ASSUME NEW n \in Nat, NEW nm \in FileNames
  PROVE  Perm(nm, n) \in Entry /\ Empty(n) \in Entry
  BY Names DEF Perm, Empty, Entry

LEMMA Joined ==
  ASSUME NEW S, NEW a \in Seq(S), NEW b \in Seq(S)
  PROVE  /\ a \o b \in Seq(S) /\ Len(a \o b) = Len(a) + Len(b)
         /\ \A x \in 1..Len(a) : (a \o b)[x] = a[x]
         /\ \A x \in 1..Len(b) : (a \o b)[Len(a) + x] = b[x]
  OBVIOUS

Split(e, j) == IF e[j].len > need THEN 1 ELSE 0

\* alloc_cb: the entries of a segment once the file has been put in.
LEMMA PutInEntries ==
  ASSUME NEW e \in Seq(Entry), NEW j \in 1..Len(e), name \in FileNames, need \in Nat \ {0},
         need <= e[j].len
  PROVE  /\ PutIn(e, j) \in Seq(Entry) /\ Len(PutIn(e, j)) = Len(e) + Split(e, j)
         /\ \A x \in 1..(j - 1) : PutIn(e, j)[x] = e[x]
         /\ PutIn(e, j)[j] = Perm(name, need)
         /\ Split(e, j) = 1 => PutIn(e, j)[j + 1] = Empty(e[j].len - need)
         /\ \A x \in (j + 1)..Len(e) : PutIn(e, j)[x + Split(e, j)] = e[x]
  <1> DEFINE a == SubSeq(e, 1, j - 1)  p == <<Perm(name, need)>>  b == SubSeq(e, j + 1, Len(e))
             r == e[j].len - need  d == Split(e, j)
             q == IF r > 0 THEN <<Empty(r)>> ELSE <<>>
  <1>1. e[j].len \in Nat /\ r \in Nat /\ (r > 0 <=> e[j].len > need)
    <2>1. e[j] \in Entry
      OBVIOUS
    <2> QED BY <2>1 DEF Entry
  <1>2. p \in Seq(Entry) /\ Len(p) = 1 /\ p[1] = Perm(name, need)
    BY NewEntries
  <1>3. q \in Seq(Entry) /\ Len(q) = d /\ (d = 1 => q[1] = Empty(r)) /\ d \in {0, 1}
    <2>1. CASE r > 0
      BY <1>1, <2>1, NewEntries, Names DEF Split
    <2>2. CASE ~(r > 0)
      BY <1>1, <2>2 DEF Split
    <2> QED BY <2>1, <2>2
  <1>4. a \in Seq(Entry) /\ Len(a) = j - 1 /\ \A x \in 1..(j - 1) : a[x] = e[x]
    OBVIOUS
  <1>5. b \in Seq(Entry) /\ Len(b) = Len(e) - j /\ \A x \in 1..(Len(e) - j) : b[x] = e[x + j]
    OBVIOUS
  <1> DEFINE ap == a \o p  apq == ap \o q
  <1>6. PutIn(e, j) = apq \o b
    BY DEF PutIn
  <1> HIDE DEF a, p, q, b, r, d, ap, apq
  <1>7. /\ ap \in Seq(Entry) /\ Len(ap) = Len(a) + Len(p)
        /\ \A x \in 1..Len(a) : ap[x] = a[x]
        /\ \A x \in 1..Len(p) : ap[Len(a) + x] = p[x]
    <2>1. a \in Seq(Entry) /\ p \in Seq(Entry)
      BY <1>2, <1>4
    <2> QED BY ONLY <2>1, Joined DEF ap
  <1>8. /\ apq \in Seq(Entry) /\ Len(apq) = Len(ap) + Len(q)
        /\ \A x \in 1..Len(ap) : apq[x] = ap[x]
        /\ \A x \in 1..Len(q) : apq[Len(ap) + x] = q[x]
    BY <1>3, <1>7, Joined DEF apq
  <1>9. /\ PutIn(e, j) \in Seq(Entry) /\ Len(PutIn(e, j)) = Len(apq) + Len(b)
        /\ \A x \in 1..Len(apq) : PutIn(e, j)[x] = apq[x]
        /\ \A x \in 1..Len(b) : PutIn(e, j)[Len(apq) + x] = b[x]
    <2>1. apq \in Seq(Entry) /\ b \in Seq(Entry)
      BY <1>5, <1>8
    <2> QED BY ONLY <1>6, <2>1, Joined
  <1>10. Len(ap) = j /\ Len(apq) = j + d /\ ap[j] = Perm(name, need)
    <2>1. 1 \in 1..Len(p) /\ Len(a) + 1 = j
      BY <1>2, <1>4
    <2> QED BY <1>2, <1>3, <1>4, <1>7, <1>8, <2>1
  <1>11. ASSUME NEW x \in 1..(j - 1) PROVE PutIn(e, j)[x] = e[x]
    <2>1. x \in 1..Len(apq) /\ x \in 1..Len(ap) /\ x \in 1..Len(a)
      BY <1>3, <1>4, <1>10
    <2> QED BY <1>4, <1>7, <1>8, <1>9, <2>1
  <1>12. PutIn(e, j)[j] = Perm(name, need) /\ (d = 1 => PutIn(e, j)[j + 1] = Empty(r))
    <2>1. j \in 1..Len(ap) /\ j \in 1..Len(apq)
      BY <1>3, <1>10
    <2>2. ASSUME d = 1 PROVE j + 1 \in 1..Len(apq) /\ 1 \in 1..Len(q)
      BY <1>3, <1>10, <2>2
    <2> QED BY <1>3, <1>8, <1>9, <1>10, <2>1, <2>2
  <1>13. ASSUME NEW x \in (j + 1)..Len(e) PROVE PutIn(e, j)[x + d] = e[x]
    <2>1. x - j \in 1..Len(b) /\ Len(apq) + (x - j) = x + d /\ (x - j) + j = x
      BY <1>3, <1>5, <1>10
    <2> QED BY <1>5, <1>9, <2>1
  <1>14. Len(apq) + Len(b) = Len(e) + d
    BY <1>3, <1>5, <1>10
  <1> QED BY <1>9, <1>11, <1>12, <1>13, <1>14 DEF d, r

\* The areas after the file end where they did.
LEMMA PutInEnds ==
  ASSUME NEW e \in Seq(Entry), NEW j \in 1..Len(e), name \in FileNames, need \in Nat \ {0},
         need <= e[j].len
  PROVE  /\ \A x \in 0..(j - 1) : Ends(PutIn(e, j), x) = Ends(e, x)
         /\ \A x \in j..Len(e) : Ends(PutIn(e, j), x + Split(e, j)) = Ends(e, x)
  <1> DEFINE f == PutIn(e, j)  d == Split(e, j)
  <1>1. /\ f \in Seq(Entry) /\ Len(f) = Len(e) + d
        /\ \A x \in 1..(j - 1) : f[x] = e[x]
        /\ f[j] = Perm(name, need)
        /\ d = 1 => f[j + 1] = Empty(e[j].len - need)
        /\ \A x \in (j + 1)..Len(e) : f[x + d] = e[x]
    BY PutInEntries
  <1>2. d \in {0, 1} /\ (d = 1 <=> e[j].len > need) /\ e[j].len \in Nat
    <2>1. e[j] \in Entry
      OBVIOUS
    <2> QED BY <2>1 DEF Entry, Split
  <1> HIDE DEF f, d
  <1>3. ASSUME NEW x \in 0..(j - 1) PROVE Ends(f, x) = Ends(e, x)
    <2>1. 0 \in 0..Len(e) /\ 0 \in Nat /\ x \in 0..Len(e) /\ x + 0 = x /\ x + 0 <= Len(f)
      BY <1>1, <1>2
    <2>2. Ends(f, 0 + 0) = Ends(e, 0)
      BY <1>1, EndsIs
    <2>3. \A y \in (0 + 1)..x : f[y + 0].len = e[y].len
      BY <1>1
    <2>4. Ends(f, x + 0) = Ends(e, x)
      BY <1>1, <2>1, <2>2, <2>3, EndsAgree
    <2> QED BY <2>1, <2>4
  <1>4. Ends(f, j + d) = Ends(e, j)
    <2>1. Ends(f, j) = Ends(e, j - 1) + need
      <3>1. Ends(f, j) = Ends(f, j - 1) + f[j].len
        BY <1>1, <1>2, EndsIs
      <3>2. Ends(f, j - 1) = Ends(e, j - 1)
        BY <1>3
      <3> QED BY <1>1, <3>1, <3>2 DEF Perm
    <2>2. Ends(e, j) = Ends(e, j - 1) + e[j].len /\ Ends(e, j - 1) \in Nat
      BY EndsIs, EndsNat
    <2>3. CASE d = 0
      BY <1>2, <2>1, <2>2, <2>3
    <2>4. CASE d = 1
      <3>1. Ends(f, j + 1) = Ends(f, j) + f[j + 1].len
        <4>1. j + 1 \in 1..Len(f) /\ (j + 1) - 1 = j
          BY <1>1, <2>4
        <4> QED BY <1>1, <4>1, EndsIs
      <3> QED BY <1>1, <1>2, <2>1, <2>2, <2>4, <3>1 DEF Empty
    <2> QED BY <1>2, <2>3, <2>4
  <1>5. ASSUME NEW x \in j..Len(e) PROVE Ends(f, x + d) = Ends(e, x)
    <2>1. d \in Nat /\ j \in 0..Len(e) /\ x + d <= Len(f)
      BY <1>1, <1>2
    <2>2. \A y \in (j + 1)..x : f[y + d].len = e[y].len
      BY <1>1
    <2> QED BY <1>1, <1>4, <2>1, <2>2, EndsAgree
  <1> QED BY <1>3, <1>5 DEF f, d

\* An area that becomes empty keeps its place, and so do all others.
LEMMA RemovedEnds ==
  ASSUME NEW e \in Seq(Entry), NEW j \in 1..Len(e)
  PROVE  LET f == [e EXCEPT ![j] = Empty(e[j].len)] IN
         /\ f \in Seq(Entry) /\ Len(f) = Len(e)
         /\ \A x \in 0..Len(e) : Ends(f, x) = Ends(e, x)
  <1> DEFINE f == [e EXCEPT ![j] = Empty(e[j].len)]
  <1>1. Empty(e[j].len) \in Entry /\ Empty(e[j].len).len = e[j].len
    <2>1. e[j] \in Entry
      OBVIOUS
    <2> QED BY <2>1, NewEntries, Names DEF Entry, Empty
  <1>2. f \in Seq(Entry) /\ Len(f) = Len(e) /\ \A x \in 1..Len(e) : f[x].len = e[x].len
    BY <1>1
  <1> HIDE DEF f
  <1>3. ASSUME NEW x \in 0..Len(e) PROVE Ends(f, x) = Ends(e, x)
    <2>1. 0 \in 0..Len(e) /\ 0 \in Nat /\ x + 0 = x /\ x + 0 <= Len(f)
      BY <1>2
    <2>2. Ends(f, 0 + 0) = Ends(e, 0)
      BY <1>2, EndsIs
    <2>3. \A y \in (0 + 1)..x : f[y + 0].len = e[y].len
      BY <1>2
    <2>4. Ends(f, x + 0) = Ends(e, x)
      BY <1>2, <2>1, <2>2, <2>3, EndsAgree
    <2> QED BY <2>1, <2>4
  <1> QED BY <1>2, <1>3 DEF f

-----------------------------------------------------------------------------
(* The files of a volume: a name, the first block and the number of blocks *)

\* File nm is on v, n blocks from block "at"; and segments as long as they were, each
\* from where it was.
HasFile(v, nm, at, n) ==
  \E x \in DOMAIN v : \E j \in Called(v[x], nm) : at = Place(v[x], j) /\ n = v[x].ents[j].len

Alike(v, w) ==
  /\ Len(v) = Len(w)
  /\ \A x \in DOMAIN w : v[x].first = w[x].first /\ Length(v[x].ents) = Length(w[x].ents)

LEMMA SegmentIs ==
  ASSUME NEW v \in Seq(Segment), NEW x \in DOMAIN v
  PROVE  v[x] \in Segment /\ v[x].first \in Nat /\ v[x].ents \in Seq(Entry)
         /\ DOMAIN v[x].ents = 1..Len(v[x].ents) /\ Length(v[x].ents) \in Nat
  <1>1. v[x] \in Segment
    OBVIOUS
  <1>2. v[x].first \in Nat /\ v[x].ents \in Seq(Entry)
    BY <1>1 DEF Segment
  <1>3. Len(v[x].ents) \in 0..Len(v[x].ents)
    BY <1>2
  <1> QED BY <1>1, <1>2, <1>3, EndsIs, EndsNat

LEMMA AreaIn ==
  ASSUME NEW g \in Segment, NEW j \in DOMAIN g.ents
  PROVE  /\ Place(g, j) = g.first + Ends(g.ents, j - 1) /\ Place(g, j) \in Nat
         /\ g.ents[j] \in Entry /\ g.ents[j].len \in Nat
         /\ g.first <= Place(g, j)
         /\ Place(g, j) + g.ents[j].len = g.first + Ends(g.ents, j)
         /\ Place(g, j) + g.ents[j].len <= g.first + Length(g.ents)
  <1> DEFINE e == g.ents
  <1>1. g.first \in Nat /\ e \in Seq(Entry)
    BY DEF Segment
  <1>2. j \in 1..Len(e) /\ j - 1 \in 0..Len(e) /\ j \in 0..Len(e) /\ Len(e) \in j..Len(e)
        /\ Len(e) \in 0..Len(e)
    BY <1>1
  <1>3. e[j] \in Entry /\ e[j].len \in Nat
    <2>1. e[j] \in Entry
      BY <1>1, <1>2
    <2> QED BY <2>1 DEF Entry
  <1>4. Ends(e, j) = Ends(e, j - 1) + e[j].len /\ Ends(e, Len(e)) = Length(e)
    BY <1>1, <1>2, EndsIs
  <1>5. Ends(e, j - 1) \in Nat /\ Ends(e, j) \in Nat /\ Ends(e, Len(e)) \in Nat
    BY <1>1, <1>2, EndsNat
  <1>6. Ends(e, j) <= Ends(e, Len(e))
    BY <1>1, <1>2, EndsGrow
  <1>7. Place(g, j) = g.first + Ends(e, j - 1)
    BY DEF Place, Ends
  <1> DEFINE n == e[j].len  f == g.first  at == Place(g, j)
             before == Ends(e, j - 1)  upto == Ends(e, j)  all == Length(e)
  <1>8. /\ f \in Nat /\ n \in Nat /\ before \in Nat /\ upto \in Nat /\ all \in Nat
        /\ upto = before + n /\ upto <= all /\ at = f + before
    BY <1>1, <1>3, <1>4, <1>5, <1>6, <1>7
  <1>9. at \in Nat /\ f <= at /\ at + n = f + upto /\ at + n <= f + all
    <2> HIDE DEF n, f, at, before, upto, all
    <2> QED BY <1>8
  <1> QED BY <1>3, <1>7, <1>9

\* No two areas of a segment share a block, nor do those of segments that lie apart.
LEMMA AreasApart ==
  ASSUME NEW g \in Segment, NEW p \in DOMAIN g.ents, NEW q \in DOMAIN g.ents, p < q
  PROVE  Place(g, p) + g.ents[p].len <= Place(g, q)
  <1>1. g.ents \in Seq(Entry) /\ g.first \in Nat
    BY DEF Segment
  <1>2. p \in 0..Len(g.ents) /\ q - 1 \in p..Len(g.ents) /\ q - 1 \in 0..Len(g.ents)
    BY <1>1
  <1>3. Ends(g.ents, p) <= Ends(g.ents, q - 1) /\ Ends(g.ents, p) \in Nat /\ Ends(g.ents, q - 1) \in Nat
    BY <1>1, <1>2, EndsGrow, EndsNat
  <1> QED BY <1>1, <1>3, AreaIn

LEMMA CalledIs ==
  ASSUME NEW g, NEW nm
  PROVE  /\ Called(g, nm) \subseteq DOMAIN g.ents
         /\ \A j \in DOMAIN g.ents : j \in Called(g, nm) <=> g.ents[j].st = "perm" /\ g.ents[j].name = nm
  BY DEF Called

LEMMA FileSpan ==
  ASSUME NEW f \in Nat, NEW l \in Nat, NEW a \in Nat, NEW n \in Nat, f <= a, a + n <= f + l
  PROVE  \A p \in 0..(n - 1) : a + p \in f..(f + l - 1)
  OBVIOUS

LEMMA FilesApart ==
  ASSUME NEW v \in Seq(Segment), Apart(v), NEW f, NEW g, f # g, NEW a, NEW b, NEW n, NEW m,
         HasFile(v, f, a, n), HasFile(v, g, b, m)
  PROVE  \A p \in 0..(n - 1), q \in 0..(m - 1) : a + p # b + q
  <1>1. PICK x, i1 : x \in DOMAIN v /\ i1 \in Called(v[x], f) /\ a = Place(v[x], i1) /\ n = v[x].ents[i1].len
    BY DEF HasFile
  <1>2. PICK y, i2 : y \in DOMAIN v /\ i2 \in Called(v[y], g) /\ b = Place(v[y], i2) /\ m = v[y].ents[i2].len
    BY DEF HasFile
  <1>3. /\ i1 \in DOMAIN v[x].ents /\ v[x].ents[i1].name = f
        /\ i2 \in DOMAIN v[y].ents /\ v[y].ents[i2].name = g
    BY <1>1, <1>2, CalledIs
  <1>4. v[x] \in Segment /\ v[x].first \in Nat /\ Length(v[x].ents) \in Nat /\ i1 \in Nat
    <2>1. i1 \in 1..Len(v[x].ents)
      BY <1>1, <1>3, SegmentIs
    <2> QED BY <1>1, <2>1, SegmentIs
  <1>4a. v[y] \in Segment /\ v[y].first \in Nat /\ Length(v[y].ents) \in Nat /\ i2 \in Nat
    <2>1. i2 \in 1..Len(v[y].ents)
      BY <1>2, <1>3, SegmentIs
    <2> QED BY <1>2, <2>1, SegmentIs
  <1>5. a \in Nat /\ n \in Nat /\ v[x].first <= a /\ a + n <= v[x].first + Length(v[x].ents)
    BY <1>1, <1>3, <1>4, AreaIn
  <1>5a. b \in Nat /\ m \in Nat /\ v[y].first <= b /\ b + m <= v[y].first + Length(v[y].ents)
    BY <1>2, <1>3, <1>4a, AreaIn
  <1>6. CASE x # y
    <2>1. \A p \in 0..(n - 1) : a + p \in Span(v[x])
      BY <1>4, <1>5, FileSpan DEF Span
    <2>2. \A q \in 0..(m - 1) : b + q \in Span(v[y])
      BY <1>4a, <1>5a, FileSpan DEF Span
    <2>3. \A z \in Span(v[x]) : z \notin Span(v[y])
      BY <1>1, <1>2, <1>6 DEF Apart
    <2> QED BY <2>1, <2>2, <2>3
  <1>7. CASE x = y
    <2>1. i1 # i2
      BY <1>3, <1>7
    <2>2. i1 < i2 => a + n <= b
      BY <1>1, <1>2, <1>3, <1>4, <1>4a, <1>7, AreasApart
    <2>3. i2 < i1 => b + m <= a
      BY <1>1, <1>2, <1>3, <1>4, <1>4a, <1>7, AreasApart
    <2>4. i1 < i2 \/ i2 < i1
      BY <1>4, <1>4a, <2>1
    <2> QED BY <1>5, <1>5a, <2>2, <2>3, <2>4
  <1> QED BY <1>6, <1>7

LEMMA FileOnce ==
  ASSUME NEW v, OneOfEach(v), NEW f, NEW a, NEW b, NEW n, NEW m, HasFile(v, f, a, n), HasFile(v, f, b, m)
  PROVE  a = b /\ n = m
  <1>1. PICK x, i1 : x \in DOMAIN v /\ i1 \in Called(v[x], f) /\ a = Place(v[x], i1) /\ n = v[x].ents[i1].len
    BY DEF HasFile
  <1>2. PICK y, i2 : y \in DOMAIN v /\ i2 \in Called(v[y], f) /\ b = Place(v[y], i2) /\ m = v[y].ents[i2].len
    BY DEF HasFile
  <1>3. i1 \in DOMAIN v[x].ents /\ i2 \in DOMAIN v[y].ents
        /\ v[x].ents[i1].st = "perm" /\ v[x].ents[i1].name = f
    BY <1>1, <1>2, CalledIs
  <1>4. x = y /\ i1 = i2
    BY <1>1, <1>2, <1>3 DEF OneOfEach
  <1> QED BY <1>1, <1>2, <1>4

LEMMA FileIs ==
  ASSUME NEW v \in Seq(Segment), NEW f, NEW a, NEW n, HasFile(v, f, a, n)
  PROVE  a \in Nat /\ n \in Nat
  BY CalledIs, SegmentIs, AreaIn DEF HasFile

LEMMA AlikeApart ==
  ASSUME NEW v \in Seq(Segment), NEW w \in Seq(Segment), Alike(v, w), Apart(w)
  PROVE  Apart(v)
  <1>1. DOMAIN v = DOMAIN w
    BY DEF Alike
  <1>2. \A x \in DOMAIN v : Span(v[x]) = Span(w[x])
    BY <1>1 DEF Alike, Span
  <1> QED BY <1>1, <1>2 DEF Apart

Removed(v, x, j) == [v EXCEPT ![x] = [v[x] EXCEPT !.ents[j] = Empty(@.len)]]

\* rm_cb: the file that is removed goes, and every other stays in its place.
LEMMA RemoveFiles ==
  ASSUME NEW v \in Seq(Segment), OneOfEach(v), NEW x \in DOMAIN v, NEW nm, NEW j \in Called(v[x], nm)
  PROVE  LET w == Removed(v, x, j) IN
         /\ w \in Seq(Segment) /\ Alike(w, v) /\ OneOfEach(w)
         /\ \A y \in DOMAIN v : Len(w[y].ents) = Len(v[y].ents)
         /\ \A f, a, n : HasFile(w, f, a, n) <=> f # nm /\ HasFile(v, f, a, n)
  <1> DEFINE e == v[x].ents  r == [e EXCEPT ![j] = Empty(e[j].len)]  w == Removed(v, x, j)
  <1>0. w = [v EXCEPT ![x] = [v[x] EXCEPT !.ents[j] = Empty(@.len)]]
    BY DEF Removed
  <1> HIDE DEF w
  <1>1. e \in Seq(Entry) /\ v[x].first \in Nat /\ j \in 1..Len(e) /\ e[j].st = "perm" /\ e[j].name = nm
        /\ v[x] \in Segment /\ DOMAIN e = 1..Len(e)
    BY SegmentIs, CalledIs
  <1>2. r \in Seq(Entry) /\ Len(r) = Len(e) /\ \A z \in 0..Len(e) : Ends(r, z) = Ends(e, z)
    BY <1>1, RemovedEnds
  <1>3. Len(w) = Len(v) /\ DOMAIN w = DOMAIN v /\ \A y \in DOMAIN v : y # x => w[y] = v[y]
    BY <1>0
  <1>4. w[x] = [v[x] EXCEPT !.ents = r] /\ w[x].ents = r /\ w[x].first = v[x].first /\ w[x] \in Segment
    BY <1>0, <1>1, <1>2 DEF Segment
  <1>5. w \in Seq(Segment)
    <2>1. \A y \in DOMAIN v : w[y] \in Segment
      BY <1>3, <1>4, SegmentIs
    <2> QED BY <1>0, <1>3, <2>1
  <1>6. r[j].st = "empty" /\ \A q \in 1..Len(e) : q # j => r[q] = e[q]
    BY <1>1 DEF Empty
  <1> HIDE DEF e, r
  <1>7. ASSUME NEW y \in DOMAIN v
        PROVE  /\ DOMAIN w[y].ents = DOMAIN v[y].ents /\ Len(w[y].ents) = Len(v[y].ents)
               /\ \A q \in DOMAIN v[y].ents : Place(w[y], q) = Place(v[y], q)
               /\ \A q \in DOMAIN v[y].ents : ~(y = x /\ q = j) => w[y].ents[q] = v[y].ents[q]
    <2>1. CASE y # x
      BY <1>3, <2>1
    <2>2. CASE y = x
      <3>1. DOMAIN r = DOMAIN e
        BY <1>1, <1>2
      <3>2. ASSUME NEW q \in DOMAIN e PROVE Place(w[x], q) = Place(v[x], q)
        <4>1. Place(w[x], q) = v[x].first + Ends(r, q - 1) /\ Place(v[x], q) = v[x].first + Ends(e, q - 1)
          <5>1. q \in DOMAIN v[x].ents /\ q \in DOMAIN w[x].ents
            BY <1>4, <3>1 DEF e
          <5>2. Place(w[x], q) = w[x].first + Ends(w[x].ents, q - 1)
            BY <1>4, <5>1, AreaIn
          <5>3. Place(v[x], q) = v[x].first + Ends(v[x].ents, q - 1)
            BY <1>1, <5>1, AreaIn
          <5> QED BY <1>4, <5>2, <5>3 DEF e
        <4>2. q - 1 \in 0..Len(e)
          BY <1>1
        <4> QED BY <1>2, <4>1, <4>2
      <3> QED BY <1>1, <1>2, <1>4, <1>6, <2>2, <3>1, <3>2 DEF e
    <2> QED BY <2>1, <2>2
  <1>8. Alike(w, v)
    <2>1. Length(r) = Length(e)
      <3>1. Len(e) \in 0..Len(e)
        BY <1>1
      <3> QED BY <1>1, <1>2, <3>1, EndsIs
    <2> QED BY <1>3, <1>4, <2>1 DEF Alike, e
  <1>9. ASSUME NEW y \in DOMAIN v, NEW f PROVE Called(w[y], f) = {q \in Called(v[y], f) : ~(y = x /\ q = j)}
    <2>1. w[x].ents[j].st = "empty"
      BY <1>4, <1>6
    <2>2. DOMAIN w[y].ents = DOMAIN v[y].ents
      BY <1>7
    <2>3. ASSUME NEW q \in DOMAIN v[y].ents
          PROVE  q \in Called(w[y], f) <=> q \in Called(v[y], f) /\ ~(y = x /\ q = j)
      <3>1. CASE y = x /\ q = j
        BY <2>1, <3>1 DEF Called
      <3>2. CASE ~(y = x /\ q = j)
        <4>1. w[y].ents[q] = v[y].ents[q]
          BY <1>7, <3>2
        <4> QED BY <2>2, <3>2, <4>1 DEF Called
      <3> QED BY <3>1, <3>2
    <2>4. Called(w[y], f) \subseteq DOMAIN v[y].ents /\ Called(v[y], f) \subseteq DOMAIN v[y].ents
      BY <2>2, CalledIs
    <2> QED BY <2>3, <2>4
  <1>10. \A y \in DOMAIN v : \A q \in Called(v[y], nm) : y = x /\ q = j
    <2>1. v[x].ents[j].st = "perm" /\ v[x].ents[j].name = nm /\ j \in DOMAIN v[x].ents
      BY CalledIs
    <2>2. \A y \in DOMAIN v : \A q \in Called(v[y], nm) : q \in DOMAIN v[y].ents
      BY CalledIs
    <2> QED BY <2>1, <2>2 DEF OneOfEach
  <1>11. OneOfEach(w)
    <2> SUFFICES ASSUME NEW y \in DOMAIN w, NEW z \in DOMAIN w, NEW p \in DOMAIN w[y].ents, NEW q \in DOMAIN w[z].ents,
                        w[y].ents[p].st = "perm", q \in Called(w[z], w[y].ents[p].name)
                 PROVE  y = z /\ p = q
      BY DEF OneOfEach
    <2>1. ~(y = x /\ p = j)
      BY <1>4, <1>6
    <2>2. w[y].ents[p] = v[y].ents[p] /\ p \in DOMAIN v[y].ents /\ q \in DOMAIN v[z].ents
      BY <1>3, <1>7, <2>1
    <2>3. q \in Called(v[z], v[y].ents[p].name)
      BY <1>3, <1>9, <2>2
    <2> QED BY <1>3, <2>2, <2>3 DEF OneOfEach
  <1>12. ASSUME NEW f, NEW a, NEW n PROVE HasFile(w, f, a, n) <=> f # nm /\ HasFile(v, f, a, n)
    <2>1. ASSUME NEW y \in DOMAIN v, NEW q \in Called(v[y], f), ~(y = x /\ q = j)
          PROVE  Place(w[y], q) = Place(v[y], q) /\ w[y].ents[q].len = v[y].ents[q].len
      BY <1>7, <2>1, CalledIs
    <2>2. ASSUME HasFile(w, f, a, n) PROVE f # nm /\ HasFile(v, f, a, n)
      <3>1. PICK y, q : y \in DOMAIN v /\ q \in Called(w[y], f) /\ a = Place(w[y], q) /\ n = w[y].ents[q].len
        BY <1>3, <2>2 DEF HasFile
      <3>2. q \in Called(v[y], f) /\ ~(y = x /\ q = j)
        BY <1>9, <3>1
      <3> QED BY <1>10, <2>1, <3>1, <3>2 DEF HasFile
    <2>3. ASSUME HasFile(v, f, a, n), f # nm PROVE HasFile(w, f, a, n)
      <3>1. PICK y, q : y \in DOMAIN v /\ q \in Called(v[y], f) /\ a = Place(v[y], q) /\ n = v[y].ents[q].len
        BY <2>3 DEF HasFile
      <3>2. ~(y = x /\ q = j)
        <4>1. v[y].ents[q].name = f /\ v[x].ents[j].name = nm
          BY <3>1, CalledIs
        <4> QED BY <2>3, <4>1
      <3>3. q \in Called(w[y], f)
        BY <1>9, <3>1, <3>2
      <3> QED BY <1>3, <2>1, <3>1, <3>2, <3>3 DEF HasFile
    <2> QED BY <2>2, <2>3
  <1> QED BY <1>5, <1>7, <1>8, <1>11, <1>12 DEF w

Shift(e, j, q) == IF q <= j THEN q ELSE q + Split(e, j)

LEMMA Shifted ==
  ASSUME NEW e \in Seq(Entry), NEW j \in 1..Len(e), name \in FileNames, need \in Nat \ {0}, need <= e[j].len
  PROVE  /\ \A q \in 1..Len(e) : q # j =>
              /\ Shift(e, j, q) \in 1..Len(PutIn(e, j)) /\ Shift(e, j, q) # j
              /\ PutIn(e, j)[Shift(e, j, q)] = e[q]
              /\ Ends(PutIn(e, j), Shift(e, j, q) - 1) = Ends(e, q - 1)
         /\ \A p, q \in 1..Len(e) : Shift(e, j, p) = Shift(e, j, q) => p = q
         /\ \A y \in 1..Len(PutIn(e, j)) :
              \/ y = j \/ PutIn(e, j)[y].st = "empty"
              \/ \E q \in 1..Len(e) : q # j /\ y = Shift(e, j, q)
         /\ j \in 1..Len(PutIn(e, j)) /\ Ends(PutIn(e, j), j - 1) = Ends(e, j - 1)
         /\ Length(PutIn(e, j)) = Length(e)
  <1> DEFINE f == PutIn(e, j)  d == Split(e, j)
  <1>1. /\ f \in Seq(Entry) /\ Len(f) = Len(e) + d
        /\ \A x \in 1..(j - 1) : f[x] = e[x]
        /\ d = 1 => f[j + 1] = Empty(e[j].len - need)
        /\ \A x \in (j + 1)..Len(e) : f[x + d] = e[x]
    BY PutInEntries
  <1>2. /\ \A x \in 0..(j - 1) : Ends(f, x) = Ends(e, x)
        /\ \A x \in j..Len(e) : Ends(f, x + d) = Ends(e, x)
    BY PutInEnds
  <1>3. d \in {0, 1}
    BY DEF Split
  <1>4. \A q \in 1..Len(e) : Shift(e, j, q) = IF q <= j THEN q ELSE q + d
    BY DEF Shift
  <1> HIDE DEF f, d
  <1>5. ASSUME NEW q \in 1..Len(e), q # j
        PROVE  /\ Shift(e, j, q) \in 1..Len(f) /\ Shift(e, j, q) # j
               /\ f[Shift(e, j, q)] = e[q] /\ Ends(f, Shift(e, j, q) - 1) = Ends(e, q - 1)
    <2>1. CASE q < j
      <3>1. Shift(e, j, q) = q /\ q \in 1..(j - 1) /\ q - 1 \in 0..(j - 1) /\ q \in 1..Len(f)
        BY <1>1, <1>3, <1>4, <2>1
      <3> QED BY <1>1, <1>2, <1>5, <3>1
    <2>2. CASE q > j
      <3>1. Shift(e, j, q) = q + d /\ q \in (j + 1)..Len(e) /\ q - 1 \in j..Len(e) /\ q + d \in 1..Len(f)
            /\ (q + d) - 1 = (q - 1) + d /\ q + d # j
        BY <1>1, <1>3, <1>4, <2>2
      <3> QED BY <1>1, <1>2, <3>1
    <2> QED BY <1>5, <2>1, <2>2
  <1>6. \A p, q \in 1..Len(e) : Shift(e, j, p) = Shift(e, j, q) => p = q
    BY <1>3, <1>4
  <1>7. ASSUME NEW y \in 1..Len(f)
        PROVE  y = j \/ f[y].st = "empty" \/ \E q \in 1..Len(e) : q # j /\ y = Shift(e, j, q)
    <2>1. CASE y < j
      BY <1>4, <2>1
    <2>2. CASE y > j + d
      <3>1. y - d \in 1..Len(e) /\ y - d > j /\ (y - d) + d = y
        BY <1>1, <1>3, <2>2
      <3> QED BY <1>4, <3>1
    <2>3. CASE y > j /\ ~(y > j + d)
      <3>1. d = 1 /\ y = j + 1
        BY <1>3, <2>3
      <3> QED BY <1>1, <3>1 DEF Empty
    <2> QED BY <2>1, <2>2, <2>3
  <1>8. j \in 1..Len(f) /\ j - 1 \in 0..(j - 1) /\ Len(e) \in j..Len(e)
    BY <1>1, <1>3
  <1>9. Length(f) = Length(e)
    BY <1>1, <1>2, <1>8, EndsIs
  <1> QED BY <1>2, <1>5, <1>6, <1>7, <1>8, <1>9 DEF f

Inserted(v, x, j) == [v EXCEPT ![x] = [v[x] EXCEPT !.ents = PutIn(@, j)]]

\* alloc_cb: the file that is put comes, and every other stays in its place.
LEMMA PutFiles ==
  ASSUME NEW v \in Seq(Segment), OneOfEach(v), NEW x \in DOMAIN v, NEW j \in DOMAIN v[x].ents,
         v[x].ents[j].st = "empty", name \in FileNames, need \in Nat \ {0}, need <= v[x].ents[j].len,
         \A y \in DOMAIN v : Called(v[y], name) = {}
  PROVE  LET w == Inserted(v, x, j) IN
         /\ w \in Seq(Segment) /\ Alike(w, v) /\ OneOfEach(w)
         /\ \A y \in DOMAIN v : y # x => w[y] = v[y]
         /\ Len(w[x].ents) = Len(v[x].ents) + Split(v[x].ents, j)
         /\ \A f, a, n : HasFile(w, f, a, n) <=>
              HasFile(v, f, a, n) \/ (f = name /\ a = Place(v[x], j) /\ n = need)
  <1> DEFINE e == v[x].ents  r == PutIn(e, j)  w == Inserted(v, x, j)
  <1>0. w = [v EXCEPT ![x] = [v[x] EXCEPT !.ents = PutIn(@, j)]]
    BY DEF Inserted
  <1> HIDE DEF w
  <1>1. e \in Seq(Entry) /\ v[x].first \in Nat /\ j \in 1..Len(e)
        /\ v[x] \in Segment /\ DOMAIN e = 1..Len(e)
    BY SegmentIs
  <1>2. r \in Seq(Entry) /\ Len(r) = Len(e) + Split(e, j) /\ r[j] = Perm(name, need)
    BY <1>1, PutInEntries
  <1>3. /\ \A q \in 1..Len(e) : q # j =>
             /\ Shift(e, j, q) \in 1..Len(r) /\ Shift(e, j, q) # j
             /\ r[Shift(e, j, q)] = e[q] /\ Ends(r, Shift(e, j, q) - 1) = Ends(e, q - 1)
        /\ \A p, q \in 1..Len(e) : Shift(e, j, p) = Shift(e, j, q) => p = q
        /\ \A y \in 1..Len(r) : y = j \/ r[y].st = "empty" \/ \E q \in 1..Len(e) : q # j /\ y = Shift(e, j, q)
        /\ j \in 1..Len(r) /\ Ends(r, j - 1) = Ends(e, j - 1) /\ Length(r) = Length(e)
    BY <1>1, Shifted
  <1>4. Len(w) = Len(v) /\ DOMAIN w = DOMAIN v /\ \A y \in DOMAIN v : y # x => w[y] = v[y]
    BY <1>0
  <1>5. w[x] = [v[x] EXCEPT !.ents = r] /\ w[x].ents = r /\ w[x].first = v[x].first /\ w[x] \in Segment
        /\ DOMAIN r = 1..Len(r)
    <2>1. w[x] = [v[x] EXCEPT !.ents = r]
      BY <1>0
    <2>2. DOMAIN r = 1..Len(r)
      BY <1>2
    <2> QED BY <1>1, <1>2, <2>1, <2>2 DEF Segment
  <1>6. w \in Seq(Segment)
    <2>1. \A y \in DOMAIN v : w[y] \in Segment
      BY <1>4, <1>5, SegmentIs
    <2> QED BY <1>0, <1>4, <2>1
  <1>7. Alike(w, v)
    BY <1>3, <1>4, <1>5 DEF Alike
  <1>8. e[j].st # "perm"
    OBVIOUS
  <1> HIDE DEF e, r
  \* Entry q of segment y is entry Now(y, q) afterwards.
  <1> DEFINE Now(y, q) == IF y = x THEN Shift(e, j, q) ELSE q
  <1>9. ASSUME NEW y \in DOMAIN v, NEW q \in DOMAIN v[y].ents, ~(y = x /\ q = j)
        PROVE  /\ Now(y, q) \in DOMAIN w[y].ents /\ ~(y = x /\ Now(y, q) = j)
               /\ w[y].ents[Now(y, q)] = v[y].ents[q] /\ Place(w[y], Now(y, q)) = Place(v[y], q)
    <2>1. CASE y # x
      BY <1>4, <2>1
    <2>2. CASE y = x
      <3>1. q \in 1..Len(e) /\ q # j /\ q \in DOMAIN v[x].ents
        BY <1>1, <1>9, <2>2 DEF e
      <3>2. /\ Now(y, q) \in DOMAIN w[x].ents /\ Now(y, q) # j
            /\ r[Now(y, q)] = e[q] /\ Ends(r, Now(y, q) - 1) = Ends(e, q - 1)
        BY <1>3, <1>5, <2>2, <3>1
      <3> HIDE DEF Now
      <3>3. Place(w[x], Now(y, q)) = w[x].first + Ends(w[x].ents, Now(y, q) - 1)
        BY <1>5, <3>2, AreaIn
      <3>4. Place(v[x], q) = v[x].first + Ends(v[x].ents, q - 1)
        BY <1>1, <3>1, AreaIn
      <3> QED BY <1>5, <2>2, <3>2, <3>3, <3>4 DEF e
    <2> QED BY <2>1, <2>2
  <1>10. /\ j \in DOMAIN w[x].ents /\ w[x].ents[j].st = "perm" /\ w[x].ents[j].name = name
         /\ w[x].ents[j].len = need /\ Place(w[x], j) = Place(v[x], j)
    <2>1. j \in DOMAIN w[x].ents
      BY <1>3, <1>5
    <2>2. Place(w[x], j) = w[x].first + Ends(w[x].ents, j - 1)
      BY <1>5, <2>1, AreaIn
    <2>3. Place(v[x], j) = v[x].first + Ends(v[x].ents, j - 1)
      BY <1>1, AreaIn
    <2> QED BY <1>2, <1>3, <1>5, <2>1, <2>2, <2>3 DEF e, Perm
  <1>11. ASSUME NEW y \in DOMAIN w, NEW z \in DOMAIN w[y].ents, w[y].ents[z].st = "perm", ~(y = x /\ z = j)
         PROVE  \E q \in DOMAIN v[y].ents : ~(y = x /\ q = j) /\ z = Now(y, q)
    <2>1. CASE y # x
      BY <1>4, <2>1
    <2>2. CASE y = x
      <3>1. z \in 1..Len(r) /\ r[z].st # "empty" /\ z # j
        BY <1>5, <1>11, <2>2
      <3>2. PICK q \in 1..Len(e) : q # j /\ z = Shift(e, j, q)
        BY <1>3, <3>1
      <3> QED BY <1>1, <2>2, <3>2 DEF e
    <2> QED BY <2>1, <2>2
  <1>12. ASSUME NEW y \in DOMAIN v, NEW p \in DOMAIN v[y].ents, NEW q \in DOMAIN v[y].ents,
                ~(y = x /\ p = j), ~(y = x /\ q = j), Now(y, p) = Now(y, q)
         PROVE  p = q
    BY <1>1, <1>3, <1>12 DEF e
  <1> HIDE DEF Now
  <1>13. OneOfEach(w)
    <2> SUFFICES ASSUME NEW y \in DOMAIN w, NEW z \in DOMAIN w, NEW p \in DOMAIN w[y].ents, NEW q \in DOMAIN w[z].ents,
                        w[y].ents[p].st = "perm", w[z].ents[q].st = "perm", w[z].ents[q].name = w[y].ents[p].name
                 PROVE  y = z /\ p = q
      <3>1. \A y, z \in DOMAIN w : \A p \in DOMAIN w[y].ents, q \in DOMAIN w[z].ents :
              q \in Called(w[z], w[y].ents[p].name) => w[z].ents[q].st = "perm" /\ w[z].ents[q].name = w[y].ents[p].name
        BY DEF Called
      <3> QED BY <3>1 DEF OneOfEach
    <2>1. ASSUME NEW a \in DOMAIN w, NEW b \in DOMAIN w[a].ents, ~(a = x /\ b = j), w[a].ents[b].st = "perm"
          PROVE  w[a].ents[b].name # name
      <3>1. PICK c \in DOMAIN v[a].ents : ~(a = x /\ c = j) /\ b = Now(a, c)
        BY <1>11, <2>1
      <3>2. w[a].ents[b] = v[a].ents[c]
        BY <1>4, <1>9, <3>1
      <3>3. c \in Called(v[a], w[a].ents[b].name)
        BY <2>1, <3>2 DEF Called
      <3> QED BY <1>4, <3>3
    <2>2. CASE ~(y = x /\ p = j) /\ ~(z = x /\ q = j)
      <3>1. PICK c \in DOMAIN v[y].ents : ~(y = x /\ c = j) /\ p = Now(y, c)
        BY <1>11, <2>2
      <3>2. PICK d \in DOMAIN v[z].ents : ~(z = x /\ d = j) /\ q = Now(z, d)
        BY <1>11, <2>2
      <3>3. w[y].ents[p] = v[y].ents[c] /\ w[z].ents[q] = v[z].ents[d]
        BY <1>4, <1>9, <3>1, <3>2
      <3>4. d \in Called(v[z], v[y].ents[c].name)
        BY <3>3, CalledIs
      <3>5. y = z /\ c = d
        BY <1>4, <3>3, <3>4 DEF OneOfEach
      <3> QED BY <3>1, <3>2, <3>5
    <2>3. CASE y = x /\ p = j
      BY <1>10, <2>1, <2>3
    <2>4. CASE z = x /\ q = j
      BY <1>10, <2>1, <2>4
    <2> QED BY <2>2, <2>3, <2>4
  <1>14. ASSUME NEW f, NEW a, NEW n
         PROVE  HasFile(w, f, a, n) <=>
                  HasFile(v, f, a, n) \/ (f = name /\ a = Place(v[x], j) /\ n = need)
    <2>1. ASSUME HasFile(w, f, a, n), ~(f = name /\ a = Place(v[x], j) /\ n = need) PROVE HasFile(v, f, a, n)
      <3>1. PICK y, z : y \in DOMAIN w /\ z \in Called(w[y], f) /\ a = Place(w[y], z) /\ n = w[y].ents[z].len
        BY <2>1 DEF HasFile
      <3>2. z \in DOMAIN w[y].ents /\ w[y].ents[z].st = "perm" /\ w[y].ents[z].name = f
        BY <3>1 DEF Called
      <3>3. ~(y = x /\ z = j)
        BY <1>10, <2>1, <3>1, <3>2
      <3>4. PICK q \in DOMAIN v[y].ents : ~(y = x /\ q = j) /\ z = Now(y, q)
        BY <1>11, <3>1, <3>2, <3>3
      <3>5. w[y].ents[z] = v[y].ents[q] /\ Place(w[y], z) = Place(v[y], q) /\ y \in DOMAIN v
        BY <1>4, <1>9, <3>1, <3>4
      <3>6. q \in Called(v[y], f)
        BY <3>2, <3>5, CalledIs
      <3> QED BY <3>1, <3>5, <3>6 DEF HasFile
    <2>2. ASSUME HasFile(v, f, a, n) PROVE HasFile(w, f, a, n)
      <3>1. PICK y, q : y \in DOMAIN v /\ q \in Called(v[y], f) /\ a = Place(v[y], q) /\ n = v[y].ents[q].len
        BY <2>2 DEF HasFile
      <3>2. q \in DOMAIN v[y].ents /\ v[y].ents[q].st = "perm" /\ v[y].ents[q].name = f
        BY <3>1, CalledIs
      <3>3. ~(y = x /\ q = j)
        BY <1>8, <3>2 DEF e
      <3>4. Now(y, q) \in DOMAIN w[y].ents /\ w[y].ents[Now(y, q)] = v[y].ents[q] /\ Place(w[y], Now(y, q)) = Place(v[y], q)
        BY <1>9, <3>1, <3>2, <3>3
      <3>5. Now(y, q) \in Called(w[y], f)
        BY <3>2, <3>4 DEF Called
      <3> QED BY <1>4, <3>1, <3>4, <3>5 DEF HasFile
    <2>3. HasFile(w, name, Place(v[x], j), need)
      <3>1. j \in Called(w[x], name)
        BY <1>10, CalledIs
      <3> QED BY <1>4, <1>10, <3>1 DEF HasFile
    <2> QED BY <2>1, <2>2, <2>3
  <1> QED BY <1>2, <1>4, <1>5, <1>6, <1>7, <1>13, <1>14 DEF e, w

-----------------------------------------------------------------------------
(* The same, as a set: <<name, first block, number of blocks>> *)

\* The files of volume v.
Files(v) ==
  UNION {{<<v[x].ents[j].name, Place(v[x], j), v[x].ents[j].len>> :
            j \in {q \in DOMAIN v[x].ents : v[x].ents[q].st = "perm"}} : x \in DOMAIN v}

LEMMA FilesAre ==
  ASSUME NEW v
  PROVE  /\ \A f, a, n : <<f, a, n>> \in Files(v) <=> HasFile(v, f, a, n)
         /\ \A c \in Files(v) : c = <<c[1], c[2], c[3]>> /\ HasFile(v, c[1], c[2], c[3])
  <1>1. ASSUME NEW f, NEW a, NEW n PROVE <<f, a, n>> \in Files(v) <=> HasFile(v, f, a, n)
    <2>1. ASSUME <<f, a, n>> \in Files(v) PROVE HasFile(v, f, a, n)
      <3>1. PICK x \in DOMAIN v : \E j \in {q \in DOMAIN v[x].ents : v[x].ents[q].st = "perm"} :
              <<f, a, n>> = <<v[x].ents[j].name, Place(v[x], j), v[x].ents[j].len>>
        BY <2>1 DEF Files
      <3>2. PICK j \in DOMAIN v[x].ents : v[x].ents[j].st = "perm"
              /\ <<f, a, n>> = <<v[x].ents[j].name, Place(v[x], j), v[x].ents[j].len>>
        BY <3>1
      <3>3. f = v[x].ents[j].name /\ a = Place(v[x], j) /\ n = v[x].ents[j].len
        BY <3>2
      <3> QED BY <3>2, <3>3 DEF HasFile, Called
    <2>2. ASSUME HasFile(v, f, a, n) PROVE <<f, a, n>> \in Files(v)
      <3>1. PICK x, j : x \in DOMAIN v /\ j \in Called(v[x], f) /\ a = Place(v[x], j) /\ n = v[x].ents[j].len
        BY <2>2 DEF HasFile
      <3>2. j \in DOMAIN v[x].ents /\ v[x].ents[j].st = "perm" /\ v[x].ents[j].name = f
        BY <3>1 DEF Called
      <3> QED BY <3>1, <3>2 DEF Files
    <2> QED BY <2>1, <2>2
  <1>2. \A c \in Files(v) : c = <<c[1], c[2], c[3]>>
    BY DEF Files
  <1> QED BY <1>1, <1>2

LEMMA FileOf ==
  ASSUME NEW v, NEW x \in DOMAIN v, NEW nm, NEW j \in Called(v[x], nm)
  PROVE  <<nm, Place(v[x], j), v[x].ents[j].len>> \in Files(v)
  BY FilesAre DEF HasFile

LEMMA NoneCalled ==
  ASSUME NEW v, NEW nm
  PROVE  (\A x \in DOMAIN v : Called(v[x], nm) = {}) <=> (\A c \in Files(v) : c[1] # nm)
  <1>1. ASSUME NEW x \in DOMAIN v, NEW j \in Called(v[x], nm), \A c \in Files(v) : c[1] # nm PROVE FALSE
    <2>1. <<nm, Place(v[x], j), v[x].ents[j].len>> \in Files(v)
      BY FileOf
    <2> QED BY <1>1, <2>1
  <1>2. ASSUME NEW c \in Files(v), c[1] = nm, \A x \in DOMAIN v : Called(v[x], nm) = {} PROVE FALSE
    BY <1>2, FilesAre DEF HasFile
  <1> QED BY <1>1, <1>2

LEMMA RemoveSet ==
  ASSUME NEW v \in Seq(Segment), OneOfEach(v), NEW x \in DOMAIN v, NEW nm, NEW j \in Called(v[x], nm)
  PROVE  Files(Removed(v, x, j)) = {c \in Files(v) : c[1] # nm}
  <1> DEFINE w == Removed(v, x, j)
  <1>1. \A f, a, n : HasFile(w, f, a, n) <=> f # nm /\ HasFile(v, f, a, n)
    BY RemoveFiles
  <1> HIDE DEF w
  <1>2. ASSUME NEW c \in Files(w) PROVE c \in Files(v) /\ c[1] # nm
    BY <1>1, FilesAre
  <1>3. ASSUME NEW c \in Files(v), c[1] # nm PROVE c \in Files(w)
    BY <1>1, <1>3, FilesAre
  <1>4. Files(w) = {c \in Files(v) : c[1] # nm}
    BY <1>2, <1>3
  <1> QED BY <1>4 DEF w

LEMMA PutSet ==
  ASSUME NEW v \in Seq(Segment), OneOfEach(v), NEW x \in DOMAIN v, NEW j \in DOMAIN v[x].ents,
         v[x].ents[j].st = "empty", name \in FileNames, need \in Nat \ {0}, need <= v[x].ents[j].len,
         \A y \in DOMAIN v : Called(v[y], name) = {}
  PROVE  Files(Inserted(v, x, j)) = Files(v) \cup {<<name, Place(v[x], j), need>>}
  <1> DEFINE w == Inserted(v, x, j)  d == <<name, Place(v[x], j), need>>
  <1>1. \A f, a, n : HasFile(w, f, a, n) <=>
          HasFile(v, f, a, n) \/ (f = name /\ a = Place(v[x], j) /\ n = need)
    BY PutFiles
  <1> HIDE DEF w
  <1>2. ASSUME NEW c \in Files(w) PROVE c \in Files(v) \cup {d}
    BY <1>1, FilesAre
  <1>3. ASSUME NEW c \in Files(v) \cup {d} PROVE c \in Files(w)
    BY <1>1, FilesAre
  <1>4. Files(w) = Files(v) \cup {d}
    BY <1>2, <1>3
  <1> QED BY <1>4 DEF w

LEMMA FileTypes ==
  ASSUME NEW v \in Seq(Segment), NEW c \in Files(v)
  PROVE  c[2] \in Nat /\ c[3] \in Nat
  BY FilesAre, FileIs

LEMMA FilesLieApart ==
  ASSUME NEW v \in Seq(Segment), Apart(v), NEW c \in Files(v), NEW d \in Files(v), c[1] # d[1]
  PROVE  \A p \in 0..(c[3] - 1), q \in 0..(d[3] - 1) : c[2] + p # d[2] + q
  BY FilesAre, FilesApart

LEMMA FileAlone ==
  ASSUME NEW v, OneOfEach(v), NEW c \in Files(v), NEW d \in Files(v), c[1] = d[1]
  PROVE  c = d
  BY FilesAre, FileOnce

-----------------------------------------------------------------------------
(* The blocks of a base volume *)

\* Each block of the segments is one of the base volume, and lies in an area.
LEMMA BaseCovers ==
  ASSUME NEW b, Proper(b), NEW x \in DOMAIN b.segs, NEW y \in Span(b.segs[x])
  PROVE  y \in Blocks(b)
  <1> DEFINE g == b.segs[x]
  <1>1. g \in Segment /\ g.first \in Nat /\ g.ents \in Seq(Entry) /\ Length(g.ents) \in Nat
        /\ DOMAIN g.ents = 1..Len(g.ents)
    BY SegmentIs DEF Proper
  <1>2. y - g.first \in 0..(Length(g.ents) - 1)
    BY <1>1 DEF Span
  <1>3. PICK j \in 1..Len(g.ents) : Ends(g.ents, j - 1) <= y - g.first /\ y - g.first < Ends(g.ents, j)
    BY <1>1, <1>2, EndsCover
  <1> HIDE DEF g
  <1>4. Place(g, j) = g.first + Ends(g.ents, j - 1) /\ Place(g, j) + g.ents[j].len = g.first + Ends(g.ents, j)
        /\ Place(g, j) \in Nat /\ g.ents[j].len \in Nat
    BY <1>1, AreaIn
  <1>5. Ends(g.ents, j - 1) \in Nat /\ Ends(g.ents, j) \in Nat
    <2>1. j - 1 \in 0..Len(g.ents) /\ j \in 0..Len(g.ents)
      BY <1>1
    <2> QED BY <1>1, <2>1, EndsNat
  <1>6. y \in Int /\ Place(g, j) <= y /\ y <= Place(g, j) + g.ents[j].len - 1
    <2>1. y \in Int
      BY <1>1 DEF Span, g
    <2>2. g.first \in Nat
      BY <1>1
    <2>3. Ends(g.ents, j - 1) <= y - g.first /\ y - g.first < Ends(g.ents, j)
      BY <1>3 DEF g
    <2>4. g.first + Ends(g.ents, j - 1) <= y
      BY <1>5, <2>1, <2>2, <2>3
    <2>5. y <= g.first + Ends(g.ents, j) - 1
      BY <1>5, <2>1, <2>2, <2>3
    <2>6. Place(g, j) <= y
      BY <1>4, <2>4
    <2>7. y <= Place(g, j) + g.ents[j].len - 1
      <3>1. Place(g, j) + g.ents[j].len = g.first + Ends(g.ents, j)
        BY <1>4
      <3>2. Place(g, j) \in Nat /\ g.ents[j].len \in Nat
        BY <1>4
      <3>3. \A a, l, f, m \in Nat : a + l = f + m /\ y <= f + m - 1 => y <= a + l - 1
        BY <2>1
      <3> QED BY ONLY <1>5, <2>2, <2>5, <3>1, <3>2, <3>3
    <2> QED BY <2>1, <2>6, <2>7
  <1>7. y \in Area(g, j)
    BY <1>4, <1>6 DEF Area
  <1>8. g \in ToSet(b.segs)
    BY DEF ToSet, g
  <1> QED BY <1>1, <1>7, <1>8 DEF Blocks

LEMMA AreaInSpan ==
  ASSUME NEW g \in Segment, NEW j \in DOMAIN g.ents, NEW y \in Area(g, j)
  PROVE  y \in Span(g)
  <1>1. g.first \in Nat /\ Length(g.ents) \in Nat
    <2>1. g.first \in Nat /\ g.ents \in Seq(Entry)
      BY DEF Segment
    <2>2. Len(g.ents) \in 0..Len(g.ents)
      BY <2>1
    <2> QED BY <2>1, <2>2, EndsIs, EndsNat
  <1> QED BY <1>1, AreaIn DEF Area, Span

LEMMA BaseHas ==
  ASSUME NEW b, Proper(b)
  PROVE  /\ DOMAIN b.data = Blocks(b)
         /\ \A c \in Files(b.segs) : \A p \in 0..(c[3] - 1) : b.data[c[2] + p] = BaseBlock(b, c[1], p)
  <1>1. ASSUME NEW c \in Files(b.segs), NEW p \in 0..(c[3] - 1)
        PROVE  b.data[c[2] + p] = BaseBlock(b, c[1], p)
    <2>1. HasFile(b.segs, c[1], c[2], c[3])
      BY FilesAre
    <2>2. PICK x, j : x \in DOMAIN b.segs /\ j \in Called(b.segs[x], c[1])
                      /\ c[2] = Place(b.segs[x], j) /\ c[3] = b.segs[x].ents[j].len
      BY <2>1 DEF HasFile
    <2>3. j \in DOMAIN b.segs[x].ents /\ b.segs[x].ents[j].name = c[1] /\ b.segs[x] \in ToSet(b.segs)
      BY <2>2, CalledIs DEF ToSet
    <2> QED BY <2>2, <2>3 DEF Proper
  <1> QED BY <1>1 DEF Proper

LEMMA FileInBlocks ==
  ASSUME NEW b, Proper(b), NEW v \in Seq(Segment), Alike(v, b.segs), NEW c \in Files(v), NEW p \in 0..(c[3] - 1)
  PROVE  c[2] + p \in Blocks(b)
  <1>1. PICK x, j : x \in DOMAIN v /\ j \in Called(v[x], c[1]) /\ c[2] = Place(v[x], j) /\ c[3] = v[x].ents[j].len
    <2>1. HasFile(v, c[1], c[2], c[3])
      BY FilesAre
    <2> QED BY <2>1 DEF HasFile
  <1>2. j \in DOMAIN v[x].ents /\ v[x] \in Segment
    BY <1>1, CalledIs, SegmentIs
  <1>3. c[2] \in Nat /\ c[3] \in Nat
    BY FileTypes
  <1>4. c[2] + p \in Area(v[x], j)
    BY <1>1, <1>3 DEF Area
  <1>5. c[2] + p \in Span(v[x])
    BY <1>2, <1>4, AreaInSpan
  <1>6. x \in DOMAIN b.segs /\ Span(b.segs[x]) = Span(v[x])
    <2>1. b.segs \in Seq(Segment)
      BY DEF Proper
    <2> QED BY <1>1, <2>1 DEF Alike, Span
  <1> QED BY <1>5, <1>6, BaseCovers

-----------------------------------------------------------------------------
(* The invariant of a build *)

\* What RunSavAssumption says of the base volumes, the names and the programs.
Given ==
  /\ Candidates \in Seq(FileNames) \ {<<>>} /\ Starts \notin ToSet(Candidates)
  /\ Sizes \subseteq Nat \ {0} /\ Room \in Nat
  /\ \A b \in Bases : Proper(b) /\ \A g \in ToSet(b.segs) : Len(g.ents) < Room

\* What STARTS.COM is to say in the end.
NewText == Append(Kept(base), RunLine(Candidates[k]))

Putting == pc \in {"rm", "alloc", "put"}
\* STARTS.COM is still as it was; the program is on the volume.
StartsStill == pc \in {"pick", "find", "read"} \/ (Putting /\ name # Starts)
ProgramThere == pc \in {"find", "read", "sync"} \/ (Putting /\ name = Starts) \/ ret = "ok"

\* The segments lie as those of the base volume, and hold one file of a name.
Shape ==
  /\ base \in Bases /\ size \in Sizes /\ k \in DOMAIN Candidates
  /\ segs \in Seq(Segment) /\ Alike(segs, base.segs) /\ OneOfEach(segs)
  /\ \A x \in DOMAIN segs : Len(segs[x].ents) < Room
  /\ DOMAIN data = Blocks(base)
  /\ s \in DOMAIN segs
Types ==
  /\ pc \in {"pick", "rm", "alloc", "put", "find", "read", "sync", "done"}
  /\ name \in ToSet(Candidates) \cup {Starts, Nobody}
  /\ need \in Nat /\ blk \in Nat /\ i \in Nat /\ (pc = "put" => i < need)
  /\ ret \in {"none", "ok", "dir read", "dir write", "name taken", "disk full",
              "dir full", "read SAV", "write DSK", "read DSK"}
  /\ ret # "none" <=> pc = "done"
\* The segments that a walk has passed do not have what it looks for.
Sought ==
  /\ pc = "pick" => segs = base.segs /\ \A x \in 1..(s - 1) : Called(segs[x], Candidates[k]) = {}
  /\ pc = "rm" => \A x \in 1..(s - 1) : Called(segs[x], name) = {}
  /\ pc = "alloc" => \A x \in DOMAIN segs : Called(segs[x], name) = {}
  /\ pc = "find" => \A x \in 1..(s - 1) : Called(segs[x], Starts) = {}
\* The name of the program is no name of the base volume; a put is that of the
\* program or that of STARTS.COM.
Naming ==
  /\ pc \notin {"pick", "done"} => \A c \in Files(base.segs) : c[1] # Candidates[k]
  /\ Putting => \/ name = Candidates[k] /\ need = size
                \/ name = Starts /\ text = NewText /\ need = BlocksOf(text)
  /\ pc \in {"find", "read"} => name = Candidates[k]
\* The files of the base volume are as they were, STARTS.COM until it is removed.
OldKept ==
  \A c \in Files(base.segs) :
    c[1] # Starts \/ StartsStill =>
      c \in Files(segs) /\ \A p \in 0..(c[3] - 1) : data[c[2] + p] = BaseBlock(base, c[1], p)
OldStarts == StartsStill => \A c \in Files(segs) : c[1] = Starts => c \in Files(base.segs)
\* The file that is put is in the directory, and its blocks so far are there.
Filling == pc = "put" => <<name, blk, need>> \in Files(segs) /\ \A p \in 0..(i - 1) : data[blk + p] = FileBlock(p)
Program ==
  ProgramThere =>
    \E c \in Files(segs) :
      c[1] = Candidates[k] /\ c[3] = size /\ \A p \in 0..(size - 1) : data[c[2] + p] = ProgBlock(p)
\* What has been read of STARTS.COM is what it says.
Reading ==
  pc = "read" =>
    /\ <<Starts, blk, need>> \in Files(base.segs) /\ i < need
    /\ \/ i = 0 /\ text = <<>>
       \/ i = 1 /\ text = TextBlock(OldText(base), 0) /\ Len(text) = Lines
Finished ==
  pc = "sync" \/ ret = "ok" =>
    /\ text = NewText /\ need = BlocksOf(text) /\ <<Starts, blk, need>> \in Files(segs)
    /\ \A p \in 0..(need - 1) : data[blk + p] = TextBlock(text, p)

OnVolume ==
  Shape /\ Types /\ Sought /\ Naming /\ OldKept /\ OldStarts /\ Filling /\ Program /\ Reading /\ Finished
NoVolume ==
  /\ segs = <<>> /\ base = NoBase /\ size = 0 /\ s = 1 /\ k = 1
  /\ name = Nobody /\ need = 0 /\ blk = 0 /\ i = 0 /\ ret = "none"
VolumeInv == IF pc = "off" THEN NoVolume ELSE OnVolume

-----------------------------------------------------------------------------
(* What STARTS.COM says *)

Line == FileNames \X Nat

LEMMA OldLines ==
  ASSUME NEW b, b.lines \in Nat
  PROVE  OldText(b) \in Seq(Line) /\ Len(OldText(b)) = b.lines
  <1>1. \A n \in 1..b.lines : <<Starts, n>> \in Line
    BY Names DEF Line
  <1> QED BY <1>1 DEF OldText

LEMMA Blocks01 ==
  ASSUME NEW b, b.lines \in Nat
  PROVE  /\ TextBlock(OldText(b), 0) = SubSeq(OldText(b), 1, IF b.lines < Lines THEN b.lines ELSE Lines)
         /\ TextBlock(OldText(b), 1) = SubSeq(OldText(b), Lines + 1, IF b.lines < 2 * Lines THEN b.lines ELSE 2 * Lines)
  <1>1. (0 + 1) * Lines = Lines /\ 0 * Lines + 1 = 1 /\ (1 + 1) * Lines = 2 * Lines /\ 1 * Lines + 1 = Lines + 1
    BY FormatAssumption
  <1> QED BY <1>1, OldLines DEF TextBlock

LEMMA OneBlock ==
  ASSUME NEW b, b.lines \in Nat, b.lines <= Lines \/ Len(TextBlock(OldText(b), 0)) # Lines
  PROVE  TextBlock(OldText(b), 0) = Kept(b)
  <1>1. OldText(b) \in Seq(Line) /\ Len(OldText(b)) = b.lines /\ Lines \in Nat \ {0}
    BY OldLines, FormatAssumption
  <1>2. b.lines <= Lines
    BY <1>1, Blocks01
  <1>3. b.lines < 2 * Lines /\ (IF b.lines < Lines THEN b.lines ELSE Lines) = b.lines
    BY <1>1, <1>2
  <1>4. (IF b.lines < 2 * Lines THEN b.lines ELSE 2 * Lines) = b.lines
    BY <1>3
  <1> QED BY <1>3, <1>4, Blocks01 DEF Kept

LEMMA TwoBlocks ==
  ASSUME NEW b, b.lines \in Nat, Len(TextBlock(OldText(b), 0)) = Lines
  PROVE  TextBlock(OldText(b), 0) \o TextBlock(OldText(b), 1) = Kept(b)
  <1> DEFINE T == OldText(b)  m == IF b.lines < 2 * Lines THEN b.lines ELSE 2 * Lines
  <1>1. T \in Seq(Line) /\ Len(T) = b.lines /\ Lines \in Nat \ {0}
    BY OldLines, FormatAssumption
  <1>2. Lines <= b.lines /\ TextBlock(T, 0) = SubSeq(T, 1, Lines)
    BY <1>1, Blocks01
  <1>3. m \in Nat /\ m <= Len(T) /\ Lines <= m
    BY <1>1, <1>2
  <1>4. TextBlock(T, 1) = SubSeq(T, Lines + 1, m) /\ Kept(b) = SubSeq(T, 1, m)
    BY Blocks01 DEF Kept
  <1> HIDE DEF T, m
  <1>5. SubSeq(T, 1, Lines) \o SubSeq(T, Lines + 1, m) = SubSeq(T, 1, m)
    BY <1>1, <1>2, <1>3
  <1> QED BY <1>2, <1>4, <1>5 DEF T

\* Two blocks of STARTS.COM are kept, and the line is added.
LEMMA KeptIs ==
  ASSUME NEW b, b.lines \in Nat
  PROVE  Kept(b) \in Seq(Line) /\ (b.lines = 0 => Kept(b) = <<>>)
  <1>1. OldText(b) \in Seq(Line) /\ Len(OldText(b)) = b.lines /\ Lines \in Nat \ {0}
    BY OldLines, FormatAssumption
  <1> QED BY <1>1 DEF Kept

LEMMA NeedsBlocks ==
  ASSUME NEW n \in Nat \ {0}, NEW l \in Nat \ {0}
  PROVE  (n + l - 1) \div l \in Nat \ {0}
  <1> DEFINE q == (n + l - 1) \div l
  <1>1. q \in Int /\ n + l - 1 < l * (q + 1)
    OBVIOUS
  <1> HIDE DEF q
  <1>2. ASSUME q <= 0 PROVE FALSE
    <2>1. l * (q + 1) <= l
      BY <1>1, <1>2
    <2> QED BY <1>1, <2>1
  <1> QED BY <1>1, <1>2 DEF q

-----------------------------------------------------------------------------
(* The steps keep the invariant *)

LEMMA ShapeFacts ==
  ASSUME Given, Shape
  PROVE  /\ Proper(base) /\ base.segs \in Seq(Segment) /\ OneOfEach(base.segs) /\ base.lines \in Nat
         /\ segs \in Seq(Segment) /\ Apart(segs) /\ Len(segs) = Len(base.segs)
         /\ DOMAIN segs = 1..Len(segs) /\ s \in 1..Len(segs) /\ Len(segs) \in Nat
         /\ segs[s] \in Segment /\ segs[s].ents \in Seq(Entry) /\ DOMAIN segs[s].ents = 1..Len(segs[s].ents)
         /\ size \in Nat \ {0} /\ Room \in Nat
         /\ Candidates[k] \in FileNames /\ Candidates[k] \in ToSet(Candidates) /\ Candidates[k] # Starts
  <1>1. Proper(base) /\ base.segs \in Seq(Segment) /\ Apart(base.segs) /\ OneOfEach(base.segs)
        /\ base.lines \in Nat
    BY DEF Given, Shape, Proper
  <1>2. segs \in Seq(Segment) /\ s \in DOMAIN segs /\ Len(segs) = Len(base.segs)
    BY DEF Shape, Alike
  <1>3. Apart(segs)
    BY <1>1, AlikeApart DEF Shape
  <1>4. segs[s] \in Segment /\ segs[s].ents \in Seq(Entry) /\ DOMAIN segs[s].ents = 1..Len(segs[s].ents)
    BY <1>2, SegmentIs
  <1>5. size \in Nat \ {0} /\ Room \in Nat
    BY DEF Given, Shape
  <1>6. Candidates[k] \in FileNames /\ Candidates[k] \in ToSet(Candidates) /\ Candidates[k] # Starts
    <2>1. Candidates \in Seq(FileNames) /\ k \in DOMAIN Candidates /\ Starts \notin ToSet(Candidates)
      BY DEF Given, Shape
    <2>2. Candidates[k] \in ToSet(Candidates)
      BY <2>1 DEF ToSet
    <2> QED BY <2>1, <2>2
  <1> QED BY <1>1, <1>2, <1>3, <1>4, <1>5, <1>6

LEMMA TextIs ==
  ASSUME Given, Shape
  PROVE  NewText \in Seq(Line) /\ BlocksOf(NewText) \in Nat \ {0}
  <1>1. Kept(base) \in Seq(Line) /\ RunLine(Candidates[k]) \in Line
    BY ShapeFacts, KeptIs DEF RunLine, Line
  <1>2. NewText \in Seq(Line) /\ Len(NewText) \in Nat \ {0}
    BY <1>1 DEF NewText
  <1>3. BlocksOf(NewText) \in Nat \ {0}
    BY <1>2, NeedsBlocks, FormatAssumption DEF BlocksOf
  <1> QED BY <1>2, <1>3

LEMMA PuttingFacts ==
  ASSUME Given, Shape, Naming, Putting
  PROVE  /\ name \in FileNames /\ need \in Nat \ {0} /\ name \in {Candidates[k], Starts}
         /\ \A c \in Files(base.segs) : c[1] # Starts \/ StartsStill => c[1] # name
  <1>1. \/ name = Candidates[k] /\ need = size
        \/ name = Starts /\ text = NewText /\ need = BlocksOf(text)
    BY DEF Naming
  <1>2. name \in FileNames /\ need \in Nat \ {0}
    BY <1>1, ShapeFacts, TextIs, Names
  <1>3. \A c \in Files(base.segs) : c[1] # Candidates[k]
    BY DEF Naming, Putting
  <1>4. name = Starts => ~StartsStill
    BY DEF StartsStill, Putting
  <1> QED BY <1>1, <1>2, <1>3, <1>4

LEMMA AlikeThen ==
  ASSUME NEW u, NEW v, NEW w, Alike(u, v), Alike(v, w), DOMAIN v = DOMAIN w
  PROVE  Alike(u, w)
  BY DEF Alike

Failures == {"dir read", "dir write", "name taken", "disk full", "dir full", "read SAV", "write DSK", "read DSK"}

LEMMA GivesUp ==
  ASSUME OnVolume, NEW why \in Failures, GiveUp(why), UNCHANGED <<base, size>>
  PROVE  OnVolume'
  <1> USE DEF OnVolume, GiveUp, volume, walk, file
  <1>1. Shape'
    BY DEF Shape
  <1>2. Types'
    BY DEF Types, Failures
  <1>3. Sought' /\ Naming'
    BY DEF Sought, Naming, Putting
  <1>4. ~StartsStill' /\ ~ProgramThere'
    BY DEF StartsStill, ProgramThere, Putting, Failures
  <1>5. OldKept' /\ OldStarts'
    BY <1>4 DEF OldKept, OldStarts
  <1>6. Filling' /\ Program' /\ Reading' /\ Finished'
    BY <1>4 DEF Filling, Program, Reading, Finished, Failures
  <1> QED BY <1>1, <1>2, <1>3, <1>5, <1>6

\* The walk goes on, or comes to what is next, and the volume stays as it is.
LEMMA Goes ==
  ASSUME OnVolume, pc # "done", UNCHANGED <<segs, data, base, size, name, need, blk, i, text, ret>>,
         pc' = pc \/ (pc = "rm" /\ pc' = "alloc"), s' \in DOMAIN segs, k' = k, Sought'
  PROVE  OnVolume'
  <1> USE DEF OnVolume
  <1>1. Shape'
    BY DEF Shape
  <1>2. Types'
    BY DEF Types
  <1>3. Naming'
    BY DEF Naming, Putting, NewText
  <1>4. (StartsStill' <=> StartsStill) /\ (ProgramThere' <=> ProgramThere)
    BY DEF StartsStill, ProgramThere, Putting
  <1>5. OldKept' /\ OldStarts'
    BY <1>4 DEF OldKept, OldStarts
  <1>6. Filling'
    BY DEF Filling, FileBlock
  <1>7. Program'
    BY <1>4 DEF Program
  <1>8. Reading'
    BY DEF Reading
  <1>9. Finished'
    BY DEF Finished, NewText
  <1> QED BY <1>1, <1>2, <1>3, <1>5, <1>6, <1>7, <1>8, <1>9

\* An action each: the invariant holds after it.
LEMMA PicksName ==
  ASSUME Given, OnVolume, PickName
  PROVE  OnVolume'
  <1>1. pc = "pick" /\ UNCHANGED <<base, size>> /\ ret = "none"
    BY DEF PickName, OnVolume, Types
  <1>2. DOMAIN segs = 1..Len(segs) /\ s \in 1..Len(segs) /\ Len(segs) \in Nat
    BY ShapeFacts DEF OnVolume
  <1>3. CASE GiveUp("dir read") \/ GiveUp("name taken")
    BY <1>1, <1>3, GivesUp DEF Failures
  <1>4. CASE k < Len(Candidates) /\ k' = k + 1 /\ To("pick") /\ UNCHANGED <<volume, file, ret>>
    <2> USE <1>1, <1>4 DEF OnVolume, To, volume, file
    <2>1. Shape'
      <3>1. k + 1 \in DOMAIN Candidates /\ 1 \in DOMAIN segs
        BY <1>2 DEF Shape, Given
      <3> QED BY <3>1 DEF Shape
    <2>2. Types'
      BY DEF Types
    <2>3. Sought'
      BY DEF Sought
    <2>4. Naming' /\ Filling' /\ Reading' /\ Finished'
      BY DEF Naming, Filling, Reading, Finished, Putting
    <2>5. StartsStill' /\ StartsStill /\ ~ProgramThere'
      BY DEF StartsStill, ProgramThere, Putting
    <2>6. OldKept' /\ OldStarts' /\ Program'
      BY <2>5 DEF OldKept, OldStarts, Program
    <2> QED BY <2>1, <2>2, <2>3, <2>4, <2>6
  <1>5. CASE Called(Cur, Candidates[k]) = {} /\ UNCHANGED volume /\ Stay
    <2>1. Sought'
      BY <1>1, <1>2, <1>5 DEF OnVolume, Sought, Stay, Cur, volume, file
    <2>2. UNCHANGED <<segs, data, base, size, name, need, blk, i, text, ret>>
          /\ pc' = pc /\ k' = k /\ s' \in DOMAIN segs
      BY <1>1, <1>2, <1>5 DEF Stay, volume, file
    <2>3. pc # "done"
      BY <1>1
    <2> QED BY <2>1, <2>2, <2>3, Goes
  <1>6. CASE /\ Called(Cur, Candidates[k]) = {} /\ UNCHANGED volume
             /\ Over /\ To("rm") /\ name' = Candidates[k] /\ need' = size
             /\ UNCHANGED <<k, blk, i, text, ret>>
    <2>1. \A c \in Files(base.segs) : c[1] # Candidates[k]
      <3>1. \A x \in DOMAIN segs : Called(segs[x], Candidates[k]) = {}
        <4>1. s = Len(segs) /\ Called(segs[s], Candidates[k]) = {}
          BY <1>6 DEF Over, Cur
        <4>2. \A x \in 1..(s - 1) : Called(segs[x], Candidates[k]) = {}
          BY <1>1 DEF OnVolume, Sought
        <4>3. \A x \in DOMAIN segs : x \in 1..(s - 1) \/ x = s
          BY <1>2, <4>1
        <4> QED BY <4>1, <4>2, <4>3
      <3> QED BY <1>1, <3>1, NoneCalled DEF OnVolume, Sought
    <2> USE <1>1, <1>6 DEF OnVolume, To, volume
    <2>2. Shape'
      BY <1>2 DEF Shape
    <2>3. Types'
      BY ShapeFacts DEF Types
    <2>4. Sought'
      BY DEF Sought
    <2>5. Naming'
      BY <2>1 DEF Naming
    <2>6. Filling' /\ Reading' /\ Finished'
      BY DEF Filling, Reading, Finished
    <2>7. StartsStill' /\ StartsStill /\ ~ProgramThere'
      BY ShapeFacts DEF StartsStill, ProgramThere, Putting
    <2>8. OldKept' /\ OldStarts' /\ Program'
      BY <2>7 DEF OldKept, OldStarts, Program
    <2> QED BY <2>2, <2>3, <2>4, <2>5, <2>6, <2>8
  <1> QED BY <1>3, <1>4, <1>5, <1>6 DEF PickName

LEMMA Removes ==
  ASSUME Given, OnVolume, RemoveOld
  PROVE  OnVolume'
  <1>1. pc = "rm" /\ UNCHANGED <<base, size>> /\ ret = "none" /\ Putting
    BY DEF RemoveOld, OnVolume, Types, Putting
  <1>2. DOMAIN segs = 1..Len(segs) /\ s \in 1..Len(segs) /\ Len(segs) \in Nat
    BY ShapeFacts DEF OnVolume
  <1>3. CASE GiveUp("dir read")
    BY <1>1, <1>3, GivesUp DEF Failures
  <1>4. CASE Called(Cur, name) = {} /\ UNCHANGED volume /\ Stay
    <2>1. Sought'
      BY <1>1, <1>2, <1>4 DEF OnVolume, Sought, Stay, Cur, volume, file
    <2>2. UNCHANGED <<segs, data, base, size, name, need, blk, i, text, ret>>
          /\ pc' = pc /\ k' = k /\ s' \in DOMAIN segs
      BY <1>1, <1>2, <1>4 DEF Stay, volume, file
    <2>3. pc # "done"
      BY <1>1
    <2> QED BY <2>1, <2>2, <2>3, Goes
  <1>5. CASE Called(Cur, name) = {} /\ UNCHANGED volume /\ Over /\ To("alloc") /\ UNCHANGED <<k, file, ret>>
    <2>1. Sought'
      BY <1>1, <1>2, <1>5 DEF OnVolume, Sought, Over, Cur, volume, file, To
    <2>2. 1 \in DOMAIN segs
      BY <1>2
    <2>3. UNCHANGED <<segs, data, base, size, name, need, blk, i, text, ret>>
          /\ pc' = "alloc" /\ k' = k /\ s' = 1
      BY <1>1, <1>5 DEF To, volume, file
    <2> QED BY <1>1, <2>1, <2>2, <2>3, Goes
  <1>6. ASSUME NEW j \in Called(Cur, name), Written([Cur EXCEPT !.ents[j] = Empty(@.len)]),
               To("alloc"), UNCHANGED <<data, k, file, ret>>
        PROVE  OnVolume'
    <2>1. segs' = Removed(segs, s, j)
      BY <1>6 DEF Written, Cur, Removed
    <2>2. segs \in Seq(Segment) /\ OneOfEach(segs) /\ s \in DOMAIN segs /\ j \in Called(segs[s], name)
      BY DEF OnVolume, Shape, Cur
    <2>3. /\ segs' \in Seq(Segment) /\ Alike(segs', segs) /\ OneOfEach(segs')
          /\ \A y \in DOMAIN segs : Len(segs'[y].ents) = Len(segs[y].ents)
      BY <2>1, <2>2, RemoveFiles
    <2>4. Files(segs') = {c \in Files(segs) : c[1] # name}
      BY <2>1, <2>2, RemoveSet
    <2>5. DOMAIN segs' = DOMAIN segs /\ 1 \in DOMAIN segs
      BY <1>2, <2>2, <2>3 DEF Alike
    <2>6. /\ name \in {Candidates[k], Starts} /\ Candidates[k] # Starts
          /\ \A c \in Files(base.segs) : c[1] # Starts \/ StartsStill => c[1] # name
      BY <1>1, ShapeFacts, PuttingFacts DEF OnVolume
    <2> USE <1>1, <1>6 DEF OnVolume, To, file
    <2>7. Shape'
      <3>1. Alike(segs', base.segs)
        <4>1. DOMAIN segs = DOMAIN base.segs
          BY ShapeFacts
        <4> QED BY <2>3, <4>1, AlikeThen DEF Shape
      <3> QED BY <2>3, <2>5, <3>1 DEF Shape
    <2>8. Types'
      BY DEF Types
    <2>9. Sought'
      <3>1. \A x \in DOMAIN segs' : Called(segs'[x], name) = {}
        BY <2>4, NoneCalled
      <3> QED BY <3>1 DEF Sought
    <2>10. Naming'
      BY DEF Naming, Putting, NewText
    <2>11. Filling' /\ Reading' /\ Finished'
      BY DEF Filling, Reading, Finished
    <2>12. (StartsStill' <=> StartsStill) /\ (ProgramThere' <=> name = Starts)
      BY DEF StartsStill, ProgramThere, Putting
    <2>13. OldKept'
      BY <2>4, <2>6, <2>12 DEF OldKept
    <2>14. OldStarts'
      BY <2>4, <2>12 DEF OldStarts
    <2>15. Program'
      <3>1. SUFFICES ASSUME name = Starts PROVE Program'
        BY <2>12 DEF Program
      <3>2. ProgramThere
        BY <3>1 DEF ProgramThere
      <3>3. PICK c \in Files(segs) :
              c[1] = Candidates[k] /\ c[3] = size /\ \A p \in 0..(size - 1) : data[c[2] + p] = ProgBlock(p)
        BY <3>2 DEF Program
      <3>4. c \in Files(segs')
        BY <2>4, <2>6, <3>1, <3>3
      <3> QED BY <3>3, <3>4 DEF Program
    <2> QED BY <2>7, <2>8, <2>9, <2>10, <2>11, <2>13, <2>14, <2>15
  <1> QED BY <1>3, <1>4, <1>5, <1>6 DEF RemoveOld

LEMMA Allocs ==
  ASSUME Given, OnVolume, Alloc
  PROVE  OnVolume'
  <1>1. pc = "alloc" /\ UNCHANGED <<base, size>> /\ ret = "none" /\ Putting
    BY DEF Alloc, OnVolume, Types, Putting
  <1>2. /\ segs \in Seq(Segment) /\ OneOfEach(segs) /\ s \in DOMAIN segs /\ Len(segs) \in Nat
        /\ DOMAIN segs = 1..Len(segs) /\ s \in 1..Len(segs)
        /\ segs[s] \in Segment /\ segs[s].ents \in Seq(Entry) /\ DOMAIN segs[s].ents = 1..Len(segs[s].ents)
    BY ShapeFacts DEF OnVolume, Shape
  <1> DEFINE here == Fits(Cur)  j == CHOOSE x \in here : \A y \in here : x <= y
  <1>3. CASE GiveUp("dir write") \/ GiveUp("disk full") \/ GiveUp("dir full")
    BY <1>1, <1>3, GivesUp DEF Failures
  <1>4. CASE Stay /\ UNCHANGED volume
    <2>1. Sought'
      BY <1>1, <1>4 DEF OnVolume, Sought, Stay, volume, file
    <2>2. UNCHANGED <<segs, data, base, size, name, need, blk, i, text, ret>>
          /\ pc' = pc /\ k' = k /\ s' \in DOMAIN segs
      BY <1>1, <1>2, <1>4 DEF Stay, volume, file
    <2>3. pc # "done"
      BY <1>1
    <2> QED BY <2>1, <2>2, <2>3, Goes
  <1>5. CASE /\ here # {} /\ ~NoRoom(Cur, j) /\ Written([Cur EXCEPT !.ents = PutIn(@, j)])
             /\ blk' = Place(Cur, j) /\ i' = 0 /\ To("put")
             /\ UNCHANGED <<data, k, name, need, text, ret>>
    <2>1. j \in here
      <3>1. here \in SUBSET Nat
        BY <1>2 DEF Fits, Cur
      <3>2. \E x \in here : \A y \in here : x <= y
        BY <1>5, <3>1, LeastOf
      <3> QED BY <3>2
    <2> HIDE DEF j
    <2>2. /\ j \in DOMAIN segs[s].ents /\ segs[s].ents[j].st = "empty" /\ need <= segs[s].ents[j].len
          /\ segs[s].ents[j].len \in Nat
      <3>1. j \in DOMAIN segs[s].ents /\ segs[s].ents[j].st = "empty" /\ segs[s].ents[j].len >= need
        BY <2>1 DEF Fits, Cur
      <3>2. segs[s].ents[j].len \in Nat /\ need \in Nat
        BY <1>2, <3>1, AreaIn DEF OnVolume, Types
      <3> QED BY <3>1, <3>2
    <2> HIDE DEF here
    <2>3. /\ name \in FileNames /\ need \in Nat \ {0} /\ name \in {Candidates[k], Starts}
      BY <1>1, PuttingFacts DEF OnVolume
    <2>4. \A y \in DOMAIN segs : Called(segs[y], name) = {}
      BY <1>1 DEF OnVolume, Sought
    <2>5. segs' = Inserted(segs, s, j)
      BY <1>5 DEF Written, Cur, Inserted
    <2>6. /\ segs' \in Seq(Segment) /\ Alike(segs', segs) /\ OneOfEach(segs')
          /\ \A y \in DOMAIN segs : y # s => segs'[y] = segs[y]
          /\ Len(segs'[s].ents) = Len(segs[s].ents) + Split(segs[s].ents, j)
      BY <1>2, <2>2, <2>3, <2>4, <2>5, PutFiles, SMTT(30)
    <2> DEFINE d == <<name, Place(segs[s], j), need>>
    <2>7. Files(segs') = Files(segs) \cup {d}
      <3>1. Files(Inserted(segs, s, j)) = Files(segs) \cup {d}
        BY <1>2, <2>2, <2>3, <2>4, PutSet
      <3> QED BY <2>5, <3>1
    <2>8. DOMAIN segs' = DOMAIN segs /\ 1 \in DOMAIN segs
      BY <1>2, <2>6 DEF Alike
    <2>9. Place(segs[s], j) \in Nat
      BY <1>2, <2>2, AreaIn
    <2> USE <1>1, <1>5 DEF OnVolume, To
    <2>10. Shape'
      <3>1. Alike(segs', base.segs)
        <4>1. DOMAIN segs = DOMAIN base.segs
          BY ShapeFacts
        <4> QED BY <2>6, <4>1, AlikeThen DEF Shape
      <3>2. Len(segs[s].ents) + Split(segs[s].ents, j) < Room
        <4>1. Len(segs[s].ents) < Room /\ Len(segs[s].ents) \in Nat /\ Room \in Nat
          BY <1>2, ShapeFacts DEF Shape
        <4>2. segs[s].ents[j].len > need => ~(Len(segs[s].ents) + 2 > Room)
          BY DEF NoRoom, Cur
        <4> DEFINE l == Len(segs[s].ents)  more == Split(segs[s].ents, j)
        <4>3. more = 0 \/ (more = 1 /\ ~(l + 2 > Room))
          BY <4>2 DEF Split
        <4>4. l < Room /\ l \in Nat /\ Room \in Nat
          BY <4>1
        <4> HIDE DEF l, more
        <4>5. l + more < Room
          BY ONLY <4>3, <4>4
        <4> QED BY <4>5 DEF l, more
      <3>3. \A x \in DOMAIN segs' : Len(segs'[x].ents) < Room
        BY <2>6, <2>8, <3>2 DEF Shape
      <3> QED BY <2>6, <2>8, <3>1, <3>3 DEF Shape
    <2>11. Types'
      BY <2>3, <2>9 DEF Types, Cur
    <2>12. Sought' /\ Reading' /\ Finished'
      BY DEF Sought, Reading, Finished
    <2>13. Naming'
      BY DEF Naming, Putting, NewText
    <2>14. (StartsStill' <=> StartsStill) /\ (ProgramThere' <=> ProgramThere)
      BY DEF StartsStill, ProgramThere, Putting
    <2>15. OldKept'
      BY <2>7, <2>14 DEF OldKept
    <2>16. OldStarts'
      <3>1. StartsStill => name # Starts
        BY DEF StartsStill
      <3> QED BY <2>7, <2>14, <3>1 DEF OldStarts
    <2>17. Filling'
      <3>1. <<name', blk', need'>> \in Files(segs')
        BY <2>7 DEF Cur
      <3> QED BY <3>1 DEF Filling
    <2>18. Program'
      BY <2>7, <2>14 DEF Program
    <2> QED BY <2>10, <2>11, <2>12, <2>13, <2>15, <2>16, <2>17, <2>18
  <1> QED BY <1>3, <1>4, <1>5 DEF Alloc

LEMMA Puts ==
  ASSUME Given, OnVolume, PutBlock
  PROVE  OnVolume'
  <1>1. pc = "put" /\ UNCHANGED <<base, size>> /\ ret = "none" /\ Putting
    BY DEF PutBlock, OnVolume, Types, Putting
  <1>2. CASE GiveUp("read SAV") \/ GiveUp("write DSK")
    BY <1>1, <1>2, GivesUp DEF Failures
  <1>3. CASE /\ data' = [data EXCEPT ![blk + i] = FileBlock(i)] /\ i' = i + 1
             /\ IF i + 1 < need THEN UNCHANGED <<pc, s>>
                ELSE To(IF name = Starts THEN "sync" ELSE "find")
             /\ UNCHANGED <<segs, k, name, need, blk, text, ret>>
    <2> DEFINE d == <<name, blk, need>>
    <2>1. /\ d \in Files(segs) /\ \A p \in 0..(i - 1) : data[blk + p] = FileBlock(p)
          /\ i \in Nat /\ blk \in Nat /\ need \in Nat /\ i < need
      BY <1>1 DEF OnVolume, Filling, Types
    <2>2. /\ segs \in Seq(Segment) /\ Apart(segs) /\ Proper(base) /\ Alike(segs, base.segs)
          /\ DOMAIN segs = 1..Len(segs) /\ Len(segs) \in Nat /\ 1 \in DOMAIN segs
      BY ShapeFacts DEF OnVolume, Shape
    <2>3. blk + i \in DOMAIN data
      <3>1. i \in 0..(d[3] - 1)
        BY <2>1
      <3> QED BY <2>1, <2>2, <3>1, FileInBlocks DEF OnVolume, Shape
    <2>4. /\ \A p \in 0..i : data'[blk + p] = FileBlock(p)
          /\ DOMAIN data' = DOMAIN data
      BY <1>3, <2>1, <2>3
    <2>5. ASSUME NEW c \in Files(segs), c[1] # name, NEW p \in 0..(c[3] - 1)
          PROVE  data'[c[2] + p] = data[c[2] + p]
      <3>1. i \in 0..(d[3] - 1) /\ d[1] = name /\ d[2] = blk
        BY <2>1
      <3>2. c[2] + p # blk + i
        BY <2>1, <2>2, <2>5, <3>1, FilesLieApart
      <3> QED BY <1>3, <3>2
    <2>6. /\ name \in {Candidates[k], Starts} /\ Candidates[k] # Starts
          /\ \A c \in Files(base.segs) : c[1] # Starts \/ StartsStill => c[1] # name
      BY <1>1, ShapeFacts, PuttingFacts DEF OnVolume
    <2>7. pc' \in {"put", "sync", "find"} /\ (pc' = "sync" => name = Starts) /\ (pc' = "find" => name # Starts)
          /\ (pc' = "put" <=> i + 1 < need) /\ s' \in DOMAIN segs
      BY <1>1, <1>3, <2>2 DEF To, OnVolume, Shape
    <2> HIDE <1>3
    <2>8. UNCHANGED <<segs, base, size, k, name, need, blk, text, ret>> /\ i' = i + 1
      BY <1>1, <1>3
    <2> USE <1>1, <2>7, <2>8 DEF OnVolume
    <2>9. Shape'
      BY <2>4 DEF Shape
    <2>10. Types'
      BY <2>1 DEF Types
    <2>11. Sought'
      <3>1. pc' = "find" => s' = 1
        BY <1>3 DEF To
      <3> QED BY <3>1 DEF Sought
    <2>12. Naming'
      BY <2>6 DEF Naming, Putting, NewText
    <2>13. StartsStill' => StartsStill
      BY DEF StartsStill, Putting
    <2>14. OldKept'
      <3> SUFFICES ASSUME NEW c \in Files(base.segs), c[1] # Starts \/ StartsStill'
                   PROVE  c \in Files(segs) /\ \A p \in 0..(c[3] - 1) : data'[c[2] + p] = BaseBlock(base, c[1], p)
        BY DEF OldKept
      <3>1. c \in Files(segs) /\ c[1] # name /\ \A p \in 0..(c[3] - 1) : data[c[2] + p] = BaseBlock(base, c[1], p)
        BY <2>6, <2>13 DEF OldKept
      <3> QED BY <2>5, <3>1
    <2>15. OldStarts'
      BY <2>13 DEF OldStarts
    <2>16. Filling'
      <3>1. \A p \in 0..((i + 1) - 1) : data'[blk + p] = FileBlock(p)
        BY <2>1, <2>4
      <3>2. \A p : FileBlock(p)' = FileBlock(p)
        BY DEF FileBlock
      <3> QED BY <2>1, <3>1, <3>2 DEF Filling
    <2>17. pc' # "put" => \A p \in 0..(need - 1) : data'[blk + p] = FileBlock(p)
      BY <2>1, <2>4
    <2>18. Program'
      <3>1. CASE name = Starts
        <4>1. ProgramThere
          BY <3>1 DEF ProgramThere
        <4>2. PICK c \in Files(segs) :
                c[1] = Candidates[k] /\ c[3] = size /\ \A p \in 0..(size - 1) : data[c[2] + p] = ProgBlock(p)
          BY <4>1 DEF Program
        <4>3. \A p \in 0..(size - 1) : data'[c[2] + p] = ProgBlock(p)
          BY <2>5, <2>6, <3>1, <4>2
        <4> QED BY <4>2, <4>3 DEF Program
      <3>2. CASE name # Starts /\ pc' = "find"
        <4>1. name = Candidates[k] /\ need = size
          BY <3>2 DEF Naming
        <4>2. \A p \in 0..(size - 1) : data'[d[2] + p] = ProgBlock(p)
          BY <2>17, <3>2, <4>1 DEF FileBlock
        <4>3. d[1] = Candidates[k] /\ d[3] = size
          BY <4>1
        <4> HIDE DEF d
        <4> QED BY <2>1, <4>2, <4>3 DEF Program
      <3>3. CASE name # Starts /\ pc' # "find"
        BY <3>3 DEF Program, ProgramThere, Putting
      <3> QED BY <3>1, <3>2, <3>3
    <2>19. Reading'
      BY DEF Reading
    <2>20. Finished'
      <3>1. SUFFICES ASSUME pc' = "sync" PROVE Finished'
        BY DEF Finished
      <3>2. name = Starts /\ text = NewText /\ need = BlocksOf(text)
        BY <2>6, <3>1 DEF Naming
      <3>3. \A p \in 0..(need - 1) : data'[blk + p] = TextBlock(text, p)
        BY <2>17, <3>1, <3>2 DEF FileBlock
      <3>4. NewText' = NewText
        BY DEF NewText
      <3> QED BY <2>1, <3>2, <3>3, <3>4 DEF Finished
    <2> QED BY <2>9, <2>10, <2>11, <2>12, <2>14, <2>15, <2>16, <2>18, <2>19, <2>20
  <1> QED BY <1>1, <1>2, <1>3 DEF PutBlock

LEMMA StartsAgain ==
  ASSUME Given, OnVolume, pc \in {"find", "read"}, NEW t, PutStarts(t), t = Kept(base),
         UNCHANGED <<segs, data, base, size, k, blk, i, ret>>
  PROVE  OnVolume'
  <1> DEFINE there == RunLine(name)
  <1>1. name = Candidates[k] /\ Candidates[k] # Starts /\ ret = "none" /\ StartsStill /\ ProgramThere
    BY ShapeFacts DEF OnVolume, Naming, Types, StartsStill, ProgramThere
  <1>2. text' = NewText /\ name' = Starts /\ need' = BlocksOf(NewText) /\ pc' = "rm" /\ s' = 1
    BY <1>1 DEF PutStarts, To, NewText
  <1>3. NewText' = NewText
    BY DEF NewText
  <1>4. need' \in Nat /\ 1 \in DOMAIN segs
    BY <1>2, TextIs, ShapeFacts DEF OnVolume
  <1> USE <1>1, <1>2 DEF OnVolume
  <1>5. Shape'
    BY <1>4 DEF Shape
  <1>6. Types'
    BY <1>4 DEF Types
  <1>7. Sought' /\ Filling' /\ Reading' /\ Finished'
    BY DEF Sought, Filling, Reading, Finished
  <1>8. Naming'
    <2>1. \A c \in Files(base.segs) : c[1] # Candidates[k]
      BY DEF Naming
    <2>2. text' = NewText' /\ need' = BlocksOf(text')
      BY <1>3
    <2> HIDE DEF NewText
    <2> QED BY <2>1, <2>2 DEF Naming
  <1>9. ~StartsStill'
    BY DEF StartsStill, Putting
  <1>10. OldKept' /\ OldStarts'
    BY <1>9 DEF OldKept, OldStarts
  <1>11. Program'
    BY DEF Program
  <1> QED BY <1>5, <1>6, <1>7, <1>8, <1>10, <1>11

LEMMA Finds ==
  ASSUME Given, OnVolume, FindStarts
  PROVE  OnVolume'
  <1>1. pc = "find" /\ UNCHANGED <<base, size>> /\ ret = "none" /\ StartsStill /\ ProgramThere
    BY DEF FindStarts, OnVolume, Types, StartsStill, ProgramThere
  <1>2. DOMAIN segs = 1..Len(segs) /\ s \in 1..Len(segs) /\ Len(segs) \in Nat /\ segs \in Seq(Segment)
    BY ShapeFacts DEF OnVolume
  <1>3. CASE GiveUp("dir read")
    BY <1>1, <1>3, GivesUp DEF Failures
  <1>4. CASE Called(Cur, Starts) = {} /\ UNCHANGED volume /\ Stay
    <2>0. \A x \in 1..(s - 1) : Called(segs[x], Starts) = {}
      BY <1>1 DEF OnVolume, Sought
    <2>1. Sought'
      <3>1. \A x \in 1..((s + 1) - 1) : Called(segs[x], Starts) = {}
        <4>1. \A x \in 1..((s + 1) - 1) : x \in 1..(s - 1) \/ x = s
          BY <1>2
        <4> QED BY <1>4, <2>0, <4>1 DEF Cur
      <3>2. segs' = segs /\ s' = s + 1 /\ pc' = "find"
        BY <1>1, <1>4 DEF Stay, volume
      <3> QED BY <3>1, <3>2 DEF Sought
    <2>2. UNCHANGED <<segs, data, base, size, name, need, blk, i, text, ret>>
          /\ pc' = pc /\ k' = k /\ s' \in DOMAIN segs
      BY <1>1, <1>2, <1>4 DEF Stay, volume, file
    <2>3. pc # "done"
      BY <1>1
    <2> QED BY <2>1, <2>2, <2>3, Goes
  <1>5. CASE Called(Cur, Starts) = {} /\ UNCHANGED volume /\ Over /\ PutStarts(<<>>) /\ UNCHANGED <<k, blk, i, ret>>
    <2>1. \A x \in DOMAIN segs : Called(segs[x], Starts) = {}
      <3>1. \A x \in 1..(s - 1) : Called(segs[x], Starts) = {}
        BY <1>1 DEF OnVolume, Sought
      <3>2. \A x \in DOMAIN segs : x \in 1..(s - 1) \/ x = s
        BY <1>2, <1>5 DEF Over
      <3> QED BY <1>5, <3>1, <3>2 DEF Cur
    <2>2. \A c \in Files(base.segs) : c[1] # Starts
      BY <1>1, <2>1, NoneCalled DEF OnVolume, OldKept
    <2>3. \A g \in ToSet(base.segs) : Called(g, Starts) = {}
      BY <2>2, NoneCalled DEF ToSet
    <2>4. base.lines = 0
      BY <2>3, ShapeFacts DEF OnVolume, Proper
    <2>5. <<>> = Kept(base)
      BY <2>4, KeptIs
    <2>6. UNCHANGED <<segs, data, base, size, k, blk, i, ret>>
      BY <1>1, <1>5 DEF volume
    <2> QED BY <1>1, <1>5, <2>5, <2>6, StartsAgain
  <1>5a. ASSUME NEW j \in Called(Cur, Starts), Cur.ents[j].len = 0,
                PutStarts(<<>>), UNCHANGED <<volume, k, blk, i, ret>>
         PROVE  OnVolume'
    <2> DEFINE d == <<Starts, Place(Cur, j), 0>>
    <2>1. d \in Files(segs)
      BY <1>2, <1>5a, FileOf DEF Cur
    <2>2. d \in Files(base.segs)
      BY <1>1, <2>1 DEF OnVolume, OldStarts
    <2>3. Proper(base) /\ base.lines \in Nat
      BY ShapeFacts DEF OnVolume, Proper
    <2>4. PICK x, y : x \in DOMAIN base.segs /\ y \in Called(base.segs[x], Starts) /\ base.segs[x].ents[y].len = 0
      <3>1. HasFile(base.segs, Starts, Place(Cur, j), 0)
        BY <2>2, FilesAre
      <3> QED BY ONLY <3>1 DEF HasFile
    <2>5. base.segs[x] \in ToSet(base.segs)
      BY <2>4 DEF ToSet
    <2>6. base.lines <= 0 * Lines /\ Lines \in Nat
      BY <2>3, <2>4, <2>5, FormatAssumption DEF Proper
    <2>7. base.lines = 0
      BY <2>3, <2>6
    <2>8. <<>> = Kept(base)
      BY <2>3, <2>7, KeptIs
    <2>9. UNCHANGED <<segs, data, base, size, k, blk, i, ret>>
      BY <1>1, <1>5a DEF volume
    <2> QED BY <1>1, <1>5a, <2>8, <2>9, StartsAgain
  <1>6. ASSUME NEW j \in Called(Cur, Starts), Cur.ents[j].len > 0,
               blk' = Place(Cur, j), need' = Cur.ents[j].len, i' = 0, text' = <<>>,
               To("read"), UNCHANGED <<volume, k, name, ret>>
        PROVE  OnVolume'
    <2> DEFINE d == <<Starts, blk', need'>>
    <2>1. d \in Files(segs)
      BY <1>2, <1>6, FileOf DEF Cur
    <2>2. d \in Files(base.segs)
      BY <1>1, <2>1 DEF OnVolume, OldStarts
    <2>3. blk' \in Nat /\ need' \in Nat \ {0}
      BY <1>2, <1>6, <2>1, FileTypes
    <2>4. 1 \in DOMAIN segs
      BY <1>2
    <2> USE <1>1, <1>6 DEF OnVolume, To, volume
    <2>5. Shape'
      BY <2>4 DEF Shape
    <2>6. Types'
      BY <2>3 DEF Types
    <2>7. Sought' /\ Filling' /\ Finished'
      BY DEF Sought, Filling, Finished
    <2>8. Naming'
      BY DEF Naming, Putting
    <2>9. StartsStill' /\ ProgramThere'
      BY DEF StartsStill, ProgramThere
    <2>10. OldKept' /\ OldStarts'
      BY <2>9 DEF OldKept, OldStarts
    <2>11. Program'
      BY <2>9 DEF Program
    <2>12. Reading'
      BY <2>2, <2>3 DEF Reading
    <2> QED BY <2>5, <2>6, <2>7, <2>8, <2>10, <2>11, <2>12
  <1> QED BY <1>1, <1>3, <1>4, <1>5, <1>5a, <1>6 DEF FindStarts

\* What ReadText has read when it stops is what is kept of STARTS.COM.
LEMMA ReadsIs ==
  ASSUME Given, OnVolume, pc = "read"
  PROVE  /\ text \o data[blk + i] \in Seq(Line)
         /\ ~ReadsOn(text \o data[blk + i]) => text \o data[blk + i] = Kept(base)
         /\ ReadsOn(text \o data[blk + i]) =>
              i = 0 /\ i + 1 < need /\ text \o data[blk + i] = TextBlock(OldText(base), 0)
              /\ Len(text \o data[blk + i]) = Lines
  <1> DEFINE d == <<Starts, blk, need>>  T == OldText(base)  t == text \o data[blk + i]
  <1>1. d \in Files(base.segs) /\ i \in Nat /\ need \in Nat /\ i < need
    BY DEF OnVolume, Reading, Types
  <1>2. Proper(base) /\ base.lines \in Nat /\ T \in Seq(Line) /\ Len(T) = base.lines
    BY ShapeFacts, OldLines DEF OnVolume
  <1>3. data[blk + i] = TextBlock(T, i)
    <2>1. \A p \in 0..(d[3] - 1) : data[d[2] + p] = BaseBlock(base, d[1], p)
      BY <1>1 DEF OnVolume, OldKept, StartsStill
    <2>2. i \in 0..(need - 1)
      BY <1>1
    <2>3. data[blk + i] = BaseBlock(base, Starts, i)
      BY <2>1, <2>2
    <2>4. Starts # Nobody
      BY DEF Starts, Nobody
    <2> QED BY <2>3, <2>4 DEF BaseBlock
  <1>4. base.lines <= need * Lines
    <2>1. PICK x, j : x \in DOMAIN base.segs /\ j \in Called(base.segs[x], Starts) /\ need = base.segs[x].ents[j].len
      <3>1. HasFile(base.segs, Starts, blk, need)
        BY <1>1, FilesAre
      <3> QED BY <3>1 DEF HasFile
    <2>2. base.segs[x] \in ToSet(base.segs)
      BY <2>1 DEF ToSet
    <2> QED BY <1>2, <2>1, <2>2 DEF Proper
  <1>5. Lines \in Nat \ {0}
    BY FormatAssumption
  <1>6. /\ TextBlock(T, 0) = SubSeq(T, 1, IF base.lines < Lines THEN base.lines ELSE Lines)
        /\ TextBlock(T, 1) = SubSeq(T, Lines + 1, IF base.lines < 2 * Lines THEN base.lines ELSE 2 * Lines)
    BY <1>2, Blocks01
  <1>7. TextBlock(T, 0) \in Seq(Line)
    <2>1. \A n \in Nat : n <= Len(T) => SubSeq(T, 1, n) \in Seq(Line)
      BY <1>2
    <2>2. (IF base.lines < Lines THEN base.lines ELSE Lines) \in Nat
          /\ (IF base.lines < Lines THEN base.lines ELSE Lines) <= Len(T)
      BY <1>2, <1>5
    <2> HIDE DEF T
    <2> QED BY <1>6, <2>1, <2>2
  <1>8. CASE i = 0 /\ text = <<>>
    <2>1. t = TextBlock(T, 0)
      BY <1>3, <1>7, <1>8
    <2>2. ASSUME ~ReadsOn(t) PROVE t = Kept(base)
      <3>1. ~(1 < need) \/ Len(t) # Lines
        BY <1>5, <1>8, <2>2 DEF ReadsOn
      <3>2. ~(1 < need) => base.lines <= Lines
        <4>1. ~(1 < need) => need = 1
          BY <1>1, <1>8
        <4> QED BY <1>4, <1>5, <4>1
      <3> QED BY <1>2, <2>1, <3>1, <3>2, OneBlock
    <2>3. ASSUME ReadsOn(t) PROVE i + 1 < need /\ Len(t) = Lines
      BY <1>5, <1>8, <2>3 DEF ReadsOn
    <2> QED BY <1>7, <1>8, <2>1, <2>2, <2>3
  <1>9. CASE i = 1 /\ text = TextBlock(T, 0) /\ Len(text) = Lines
    <2>1. t = Kept(base)
      BY <1>2, <1>3, <1>9, TwoBlocks
    <2>2. ~ReadsOn(t)
      BY <1>9 DEF ReadsOn
    <2> QED BY <1>2, <2>1, <2>2, KeptIs
  <1> QED BY <1>8, <1>9 DEF OnVolume, Reading

LEMMA Reads ==
  ASSUME Given, OnVolume, ReadText
  PROVE  OnVolume'
  <1> DEFINE t == text \o data[blk + i]
  <1>1. pc = "read" /\ UNCHANGED <<base, size>> /\ ret = "none" /\ StartsStill /\ ProgramThere
    BY DEF ReadText, OnVolume, Types, StartsStill, ProgramThere
  <1>2. /\ ~ReadsOn(t) => t = Kept(base)
        /\ ReadsOn(t) => i = 0 /\ i + 1 < need /\ t = TextBlock(OldText(base), 0) /\ Len(t) = Lines
    BY <1>1, ReadsIs
  <1>3. CASE GiveUp("read DSK")
    BY <1>1, <1>3, GivesUp DEF Failures
  <1>4. CASE ~ReadsOn(t) /\ PutStarts(t) /\ UNCHANGED <<volume, k, blk, i, ret>>
    <2>1. UNCHANGED <<segs, data, base, size, k, blk, i, ret>>
      BY <1>1, <1>4 DEF volume
    <2> QED BY <1>1, <1>2, <1>4, <2>1, StartsAgain
  <1>5. CASE ReadsOn(t) /\ text' = t /\ i' = i + 1 /\ UNCHANGED <<volume, walk, pc, name, need, blk, ret>>
    <2> HIDE DEF t
    <2> USE <1>1, <1>5 DEF OnVolume, volume, walk
    <2>1. Shape'
      BY DEF Shape
    <2>2. Types'
      BY DEF Types
    <2>3. Sought' /\ Filling' /\ Finished'
      BY DEF Sought, Filling, Finished
    <2>4. Naming'
      BY DEF Naming, Putting
    <2>5. StartsStill' /\ ProgramThere'
      BY DEF StartsStill, ProgramThere
    <2>6. OldKept' /\ OldStarts'
      BY <2>5 DEF OldKept, OldStarts
    <2>7. Program'
      BY <2>5 DEF Program
    <2>8. Reading'
      BY <1>2 DEF Reading
    <2> QED BY <2>1, <2>2, <2>3, <2>4, <2>6, <2>7, <2>8
  <1> QED BY <1>3, <1>4, <1>5 DEF ReadText

LEMMA Syncs ==
  ASSUME Given, OnVolume, Sync
  PROVE  OnVolume'
  <1>1. pc = "sync" /\ UNCHANGED <<base, size>> /\ ret = "none" /\ ProgramThere
    BY DEF Sync, OnVolume, Types, ProgramThere
  <1>2. CASE GiveUp("write DSK")
    BY <1>1, <1>2, GivesUp DEF Failures
  <1>3. CASE GiveUp("ok")
    <2> USE <1>1, <1>3 DEF OnVolume, GiveUp, volume, walk, file
    <2>1. Shape'
      BY DEF Shape
    <2>2. Types'
      BY DEF Types
    <2>3. Sought' /\ Naming' /\ Filling' /\ Reading'
      BY DEF Sought, Naming, Filling, Reading, Putting
    <2>4. ~StartsStill'
      BY DEF StartsStill, Putting
    <2>5. OldKept' /\ OldStarts'
      BY <2>4 DEF OldKept, OldStarts
    <2>6. Program'
      BY DEF Program
    <2>7. Finished'
      BY DEF Finished, NewText
    <2> QED BY <2>1, <2>2, <2>3, <2>5, <2>6, <2>7
  <1> QED BY <1>2, <1>3 DEF Sync

LEMMA Begins ==
  ASSUME Given, NoVolume, NEW b \in Bases, NEW n \in Sizes, Begin(b, n)
  PROVE  OnVolume'
  <1>1. Proper(b) /\ \A g \in ToSet(b.segs) : Len(g.ents) < Room
    BY DEF Given
  <1>2. b.segs \in Seq(Segment) \ {<<>>} /\ OneOfEach(b.segs)
    BY <1>1 DEF Proper
  <1>3. 1 \in DOMAIN Candidates
    BY DEF Given
  <1>4. DOMAIN b.data = Blocks(b)
        /\ \A c \in Files(b.segs) : \A p \in 0..(c[3] - 1) : b.data[c[2] + p] = BaseBlock(b, c[1], p)
    BY <1>1, BaseHas
  <1>5. base' = b /\ size' = n /\ segs' = b.segs /\ data' = b.data /\ pc' = "pick" /\ s' = 1 /\ k' = 1
        /\ name' = Nobody /\ need' = 0 /\ blk' = 0 /\ i' = 0 /\ ret' = "none"
    BY DEF Begin, To, file, NoVolume
  <1> USE <1>5 DEF OnVolume
  <1>6. Shape'
    <2>1. Alike(b.segs, b.segs)
      BY DEF Alike
    <2>2. \A x \in DOMAIN b.segs : Len(b.segs[x].ents) < Room
      BY <1>1 DEF ToSet
    <2>3. 1 \in DOMAIN b.segs
      BY <1>2
    <2> QED BY <1>2, <1>3, <1>4, <2>1, <2>2, <2>3 DEF Shape
  <1>7. Types'
    BY DEF Types
  <1>8. Sought' /\ Naming' /\ Filling' /\ Reading' /\ Finished'
    BY DEF Sought, Naming, Filling, Reading, Finished, Putting
  <1>9. StartsStill' /\ ~ProgramThere'
    BY DEF StartsStill, ProgramThere, Putting
  <1>10. OldKept' /\ OldStarts' /\ Program'
    BY <1>4, <1>9 DEF OldKept, OldStarts, Program
  <1> QED BY <1>6, <1>7, <1>8, <1>10

LEMMA StillKeeps ==
  ASSUME VolumeInv, UNCHANGED vars PROVE VolumeInv'
  <1>1. /\ UNCHANGED <<segs, data, base, size, pc, s, k>>
        /\ UNCHANGED <<name, need, blk, i, text, ret>>
    BY DEF vars, volume, walk, file
  <1>2. NoVolume => NoVolume'
    BY <1>1 DEF NoVolume
  <1>3. /\ Shape => Shape'
        /\ Types => Types'
        /\ Sought => Sought'
    BY <1>1 DEF Shape, Types, Sought
  <1>4. NewText' = NewText /\ Putting' = Putting
    BY <1>1 DEF NewText, Putting
  <1>5. StartsStill' = StartsStill /\ ProgramThere' = ProgramThere
    BY <1>1, <1>4 DEF StartsStill, ProgramThere
  <1>6. /\ Naming => Naming'
        /\ OldKept => OldKept'
        /\ OldStarts => OldStarts'
    BY <1>1, <1>4, <1>5 DEF Naming, OldKept, OldStarts
  <1>7. Filling => Filling'
    BY <1>1 DEF Filling, FileBlock
  <1>8. /\ Program => Program'
        /\ Reading => Reading'
        /\ Finished => Finished'
    BY <1>1, <1>4, <1>5 DEF Program, Reading, Finished
  <1> QED BY <1>1, <1>2, <1>3, <1>6, <1>7, <1>8 DEF VolumeInv, OnVolume

LEMMA StepKeeps ==
  ASSUME Given, VolumeInv, Step
  PROVE  VolumeInv'
  <1>1. pc # "off"
    BY DEF Step, PickName, RemoveOld, Alloc, PutBlock, FindStarts, ReadText, Sync
  <1>2. OnVolume
    BY <1>1 DEF VolumeInv
  <1>3. OnVolume'
    BY <1>2, PicksName, Removes, Allocs, Puts, Finds, Reads, Syncs DEF Step
  <1>4. pc' # "off"
    BY <1>3 DEF OnVolume, Types
  <1> QED BY <1>3, <1>4 DEF VolumeInv

LEMMA BeginKeeps ==
  ASSUME Given, VolumeInv, NEW b \in Bases, NEW n \in Sizes, Begin(b, n)
  PROVE  VolumeInv'
  <1>1. NoVolume
    BY DEF VolumeInv, Begin
  <1>2. OnVolume'
    BY <1>1, Begins
  <1>3. pc' # "off"
    BY <1>2 DEF OnVolume, Types
  <1> QED BY <1>2, <1>3 DEF VolumeInv

-----------------------------------------------------------------------------
(* What the invariant says of the volume *)

\* The places of a file, as Rt11Volume has them, are the files above.
LEMMA CopyFile ==
  ASSUME NEW v, NEW nm, NEW c \in Copies(v, nm)
  PROVE  <<nm, Place(c[1], c[2]), c[1].ents[c[2]].len>> \in Files(v)
  <1>1. c[1] \in ToSet(v) /\ c[2] \in Called(c[1], nm)
    BY DEF Copies
  <1>2. PICK x \in DOMAIN v : c[1] = v[x]
    BY <1>1 DEF ToSet
  <1> QED BY <1>1, <1>2, FileOf

LEMMA FileCopy ==
  ASSUME Given, NEW v \in Seq(Segment), \A x \in DOMAIN v : Len(v[x].ents) < Room, NEW f \in Files(v)
  PROVE  \E d \in Copies(v, f[1]) : Place(d[1], d[2]) = f[2] /\ d[1].ents[d[2]].len = f[3]
  <1>1. HasFile(v, f[1], f[2], f[3])
    BY FilesAre
  <1>2. PICK x, j : x \in DOMAIN v /\ j \in Called(v[x], f[1]) /\ f[2] = Place(v[x], j) /\ f[3] = v[x].ents[j].len
    BY <1>1 DEF HasFile
  <1> DEFINE d == <<v[x], j>>
  <1>3. j \in 1..Room
    <2>1. j \in 1..Len(v[x].ents) /\ Len(v[x].ents) < Room /\ Room \in Nat /\ Len(v[x].ents) \in Nat
      BY <1>2, CalledIs, SegmentIs DEF Given
    <2> QED BY <2>1
  <1>4. d \in Copies(v, f[1])
    BY <1>2, <1>3 DEF Copies, ToSet
  <1>5. Place(d[1], d[2]) = f[2] /\ d[1].ents[d[2]].len = f[3]
    BY <1>2
  <1> HIDE DEF d
  <1> QED BY <1>4, <1>5

LEMMA OneCopy ==
  ASSUME NEW v, OneOfEach(v), NEW nm, NEW c \in Copies(v, nm)
  PROVE  Copies(v, nm) = {c}
  <1>1. ASSUME NEW d \in Copies(v, nm) PROVE d = c
    <2>1. /\ c = <<c[1], c[2]>> /\ c[1] \in ToSet(v) /\ c[2] \in Called(c[1], nm)
          /\ d = <<d[1], d[2]>> /\ d[1] \in ToSet(v) /\ d[2] \in Called(d[1], nm)
      BY DEF Copies
    <2>2. PICK x \in DOMAIN v : c[1] = v[x]
      BY <2>1 DEF ToSet
    <2>3. PICK y \in DOMAIN v : d[1] = v[y]
      BY <2>1 DEF ToSet
    <2>4. /\ c[2] \in DOMAIN v[x].ents /\ v[x].ents[c[2]].st = "perm" /\ v[x].ents[c[2]].name = nm
          /\ d[2] \in DOMAIN v[y].ents /\ d[2] \in Called(v[y], nm)
      BY <2>1, <2>2, <2>3, CalledIs
    <2>5. x = y /\ c[2] = d[2]
      BY <2>4 DEF OneOfEach
    <2> QED BY <2>1, <2>2, <2>3, <2>5
  <1> QED BY <1>1

LEMMA VolumesAre ==
  ASSUME NEW v \in Seq(Segment), \A x \in DOMAIN v : Len(v[x].ents) < Room
  PROVE  IsVolume(v)
  <1> SUFFICES ASSUME NEW g \in ToSet(v)
               PROVE  /\ g.first \in Nat /\ Len(g.ents) < Room
                      /\ \A e \in ToSet(g.ents) : e.st \in {"perm", "empty"} /\ e.len \in Nat
    BY DEF IsVolume
  <1>1. PICK x \in DOMAIN v : g = v[x]
    BY DEF ToSet
  <1>2. g.first \in Nat /\ g.ents \in Seq(Entry)
    BY <1>1, SegmentIs
  <1>3. ASSUME NEW e \in ToSet(g.ents) PROVE e.st \in {"perm", "empty"} /\ e.len \in Nat
    <2>1. e \in Entry
      BY <1>2 DEF ToSet
    <2> QED BY <2>1 DEF Entry
  <1> QED BY <1>1, <1>2, <1>3

LEMMA InvTypeOK ==
  ASSUME Given, VolumeInv
  PROVE  TypeOK
  <1>1. CASE pc = "off"
    <2>1. NoVolume
      BY <1>1 DEF VolumeInv
    <2>2. IsVolume(<<>>)
      BY DEF IsVolume, ToSet
    <2>3. 1 \in DOMAIN Candidates /\ base.segs = <<>> /\ Len(<<>>) = 0
      BY <2>1 DEF Given, NoVolume, NoBase
    <2> QED BY <1>1, <2>1, <2>2, <2>3 DEF TypeOK, NoVolume
  <1>2. CASE pc # "off"
    <2>1. Shape /\ Types
      BY <1>2 DEF VolumeInv, OnVolume
    <2>2. IsVolume(segs)
      BY <2>1, VolumesAre, ShapeFacts DEF Shape
    <2>3. IsVolume(base.segs)
      <3>1. \A x \in DOMAIN base.segs : Len(base.segs[x].ents) < Room
        BY <2>1 DEF Shape, Given, ToSet
      <3> QED BY <2>1, <3>1, VolumesAre, ShapeFacts
    <2>4. s \in 1..(Len(segs) + 1)
      BY <2>1, ShapeFacts
    <2> QED BY <2>1, <2>2, <2>3, <2>4 DEF TypeOK, Types, Shape
  <1> QED BY <1>1, <1>2

LEMMA InvOthersKept ==
  ASSUME Given, VolumeInv
  PROVE  OthersKept
  <1> SUFFICES ASSUME pc # "off", NEW nm, nm # Starts, NEW c \in Copies(base.segs, nm)
               PROVE  LET g == c[1]  j == c[2] IN
                      /\ \E d \in Copies(segs, nm) : Place(d[1], d[2]) = Place(g, j) /\ d[1].ents[d[2]].len = g.ents[j].len
                      /\ \A n \in 0..(g.ents[j].len - 1) : data[Place(g, j) + n] = BaseBlock(base, nm, n)
    BY DEF OthersKept
  <1> DEFINE f == <<nm, Place(c[1], c[2]), c[1].ents[c[2]].len>>
  <1>1. OnVolume
    BY DEF VolumeInv
  <1>2. f \in Files(base.segs)
    BY CopyFile
  <1>3. f[1] = nm /\ f[2] = Place(c[1], c[2]) /\ f[3] = c[1].ents[c[2]].len
    OBVIOUS
  <1> HIDE DEF f
  <1>4. f \in Files(segs) /\ \A p \in 0..(f[3] - 1) : data[f[2] + p] = BaseBlock(base, f[1], p)
    BY <1>1, <1>2, <1>3 DEF OnVolume, OldKept
  <1>5. \E d \in Copies(segs, f[1]) : Place(d[1], d[2]) = f[2] /\ d[1].ents[d[2]].len = f[3]
    BY <1>1, <1>4, FileCopy DEF OnVolume, Shape
  <1> QED BY <1>3, <1>4, <1>5

LEMMA FileSays ==
  ASSUME Given, Shape, NEW c \in Files(segs), NEW contents,
         DOMAIN contents = 1..c[3], \A n \in 1..c[3] : data[c[2] + (n - 1)] = contents[n]
  PROVE  Says(segs, c[1], contents)
  <1>1. segs \in Seq(Segment) /\ OneOfEach(segs) /\ \A x \in DOMAIN segs : Len(segs[x].ents) < Room
    BY DEF Shape
  <1>2. PICK d \in Copies(segs, c[1]) : Place(d[1], d[2]) = c[2] /\ d[1].ents[d[2]].len = c[3]
    BY <1>1, FileCopy
  <1>3. Copies(segs, c[1]) = {d}
    BY <1>1, OneCopy
  <1>4. c[2] \in Nat /\ c[3] \in Nat
    BY <1>1, FileTypes
  <1>5. ASSUME NEW n \in 1..c[3] PROVE n <= c[3] /\ data[c[2] + n - 1] = contents[n]
    <2>1. c[2] + (n - 1) = c[2] + n - 1
      BY <1>4
    <2> QED BY <1>4, <2>1
  <1> QED BY <1>2, <1>3, <1>5 DEF Says

LEMMA InvBuiltRight ==
  ASSUME Given, VolumeInv
  PROVE  BuiltRight
  <1> SUFFICES ASSUME ret = "ok"
               PROVE  LET t == Kept(base) \o <<RunLine(Candidates[k])>> IN
                      /\ Says(segs, Candidates[k], [n \in 1..size |-> ProgBlock(n - 1)])
                      /\ Says(segs, Starts, [n \in 1..BlocksOf(t) |-> TextBlock(t, n - 1)])
    BY DEF BuiltRight, Boots
  <1>1. OnVolume
    BY DEF VolumeInv, NoVolume
  <1>2. Says(segs, Candidates[k], [n \in 1..size |-> ProgBlock(n - 1)])
    <2>1. PICK c \in Files(segs) :
            c[1] = Candidates[k] /\ c[3] = size /\ \A p \in 0..(size - 1) : data[c[2] + p] = ProgBlock(p)
      BY <1>1 DEF OnVolume, Program, ProgramThere
    <2> DEFINE contents == [n \in 1..size |-> ProgBlock(n - 1)]
    <2>2. size \in Nat
      BY <1>1, ShapeFacts DEF OnVolume
    <2>3. DOMAIN contents = 1..c[3] /\ \A n \in 1..c[3] : data[c[2] + (n - 1)] = contents[n]
      BY <2>1, <2>2
    <2> HIDE DEF contents
    <2>4. Says(segs, c[1], contents)
      BY <1>1, <2>3, FileSays DEF OnVolume
    <2> QED BY <2>1, <2>4 DEF contents
  <1>3. Kept(base) \o <<RunLine(Candidates[k])>> = NewText
    <2>1. Kept(base) \in Seq(Line)
      BY <1>1, ShapeFacts, KeptIs DEF OnVolume
    <2> QED BY <2>1 DEF NewText
  <1>4. Says(segs, Starts, [n \in 1..BlocksOf(NewText) |-> TextBlock(NewText, n - 1)])
    <2> DEFINE c == <<Starts, blk, need>>
    <2>1. c \in Files(segs) /\ need = BlocksOf(NewText) /\ \A p \in 0..(need - 1) : data[blk + p] = TextBlock(NewText, p)
      BY <1>1 DEF OnVolume, Finished
    <2>2. c[1] = Starts /\ c[2] = blk /\ c[3] = need
      OBVIOUS
    <2> DEFINE contents == [n \in 1..BlocksOf(NewText) |-> TextBlock(NewText, n - 1)]
    <2>3. need \in Nat
      BY <1>1 DEF OnVolume, Types
    <2>4. DOMAIN contents = 1..need /\ \A n \in 1..need : data[blk + (n - 1)] = contents[n]
      BY <2>1, <2>3
    <2> HIDE DEF c, contents
    <2>5. Says(segs, c[1], contents)
      BY <1>1, <2>1, <2>2, <2>4, FileSays DEF OnVolume
    <2> QED BY <2>2, <2>5 DEF contents
  <1> QED BY <1>2, <1>3, <1>4

LEMMA InvAreasFill ==
  ASSUME Given, VolumeInv
  PROVE  AreasFill
  <1> SUFFICES ASSUME pc # "off", NEW x \in DOMAIN segs PROVE Length(segs[x].ents) = Length(base.segs[x].ents)
    BY DEF AreasFill
  <1>1. Shape
    BY DEF VolumeInv, OnVolume
  <1>2. x \in DOMAIN base.segs
    BY <1>1, ShapeFacts
  <1> QED BY <1>1, <1>2 DEF Shape, Alike

(* rt11_build on its own, whatever base volume it is called with and       *)
(* however long the program is: the directory keeps to its format and its  *)
(* segments to their lengths, no file of the base volume is overwritten,   *)
(* and success means that the volume boots the program.                    *)
THEOREM VolumeSafe ==
  ASSUME Given
  PROVE  Spec => [](TypeOK /\ OthersKept /\ BuiltRight /\ AreasFill)
  <1>1. Init => VolumeInv
    BY DEF Init, VolumeInv, NoVolume
  <1>2. VolumeInv /\ [Next]_vars => VolumeInv'
    BY StillKeeps, StepKeeps, BeginKeeps DEF Next
  <1>3. VolumeInv => TypeOK /\ OthersKept /\ BuiltRight /\ AreasFill
    BY InvTypeOK, InvOthersKept, InvBuiltRight, InvAreasFill
  <1> QED BY <1>1, <1>2, <1>3, PTL DEF Spec
=============================================================================
