-------------------------- MODULE StatementsProofs --------------------------
(***************************************************************************)
(* Theorems about Copy and about MCStatements, for any rows, chunks, size  *)
(* of the buffer and of the queue: the server gets what the user wrote, in *)
(* order and to its end, through the buffer, the chunks and the queue of   *)
(* another thread; and nothing is left behind on the connection.           *)
(*                                                                         *)
(* A sequence cut into pieces is described by where the cuts are, so that  *)
(* no recursive definition is needed: Splits(ps, s).  CopyInv has a part   *)
(* for the user and the worker (which of them is in libpq), one for the    *)
(* order of what was sent, what is to be sent and what is kept, and one    *)
(* for a COPY TO.                                                          *)
(***************************************************************************)
EXTENDS MCStatements, CursorsProofs, WellFoundedInduction

-----------------------------------------------------------------------------
(* Natural numbers                                                          *)

\* A set of natural numbers has a least one.
LEMMA NatMin ==
  ASSUME NEW T, T \subseteq Nat, T # {}
  PROVE  \E n \in T : \A m \in T : n <= m
<1> DEFINE R == OpToRel(<, Nat)
<1>1. IsWellFoundedOn(R, Nat)
  BY NatLessThanWellFounded
<1>2. \A a, b \in Nat : a < b => <<a, b>> \in R
  BY DEF OpToRel
<1> HIDE DEF R
<1>3. PICK n \in T : \A m \in T : ~(<<m, n>> \in R)
  BY <1>1, WFMin
<1>4. \A m \in T : n <= m
  <2> TAKE m \in T
  <2>1. ~(m < n)
    BY <1>2, <1>3
  <2> QED
    BY <2>1
<1> QED
  BY <1>4

\* Induction.
LEMMA NatInd ==
  ASSUME NEW S, 0 \in S, \A n \in Nat : n \in S => n + 1 \in S
  PROVE  Nat \subseteq S
<1>1. SUFFICES ASSUME NEW k \in Nat \ S
               PROVE  FALSE
  OBVIOUS
<1>2. PICK n \in Nat \ S : \A m \in Nat \ S : n <= m
  BY NatMin
<1>3. n - 1 \in Nat /\ n - 1 \in S
  BY <1>2
<1> QED
  BY <1>2, <1>3

-----------------------------------------------------------------------------
(* A sequence in pieces                                                     *)


\* s is the pieces of ps, one after the other, which end at the cuts.
CutAt(ps, s, cut) ==
  /\ cut \in [0..Len(ps) -> Nat] /\ cut[0] = 0 /\ cut[Len(ps)] = Len(s)
  /\ \A i \in 1..Len(ps) :
       /\ cut[i] = cut[i - 1] + Len(ps[i]) /\ cut[i] <= Len(s)
       /\ \A j \in 1..Len(ps[i]) : ps[i][j] = s[cut[i - 1] + j]
Splits(ps, s) == \E cut : CutAt(ps, s, cut)

\* One piece.
LEMMA SplitOne ==
  ASSUME NEW s \in Seq(Int)
  PROVE  Splits(<<s>>, s)
<1> DEFINE cut == [i \in 0..1 |-> IF i = 0 THEN 0 ELSE Len(s)]
<1>1. Len(s) \in Nat /\ Len(<<s>>) = 1
  OBVIOUS
<1>2. cut \in [0..1 -> Nat] /\ cut[0] = 0 /\ cut[1] = Len(s)
  BY <1>1
<1> HIDE DEF cut
<1>3. \A i \in 1..1 : /\ cut[i] = cut[i - 1] + Len(<<s>>[i]) /\ cut[i] <= Len(s)
                      /\ \A j \in 1..Len(<<s>>[i]) : <<s>>[i][j] = s[cut[i - 1] + j]
  BY <1>1, <1>2
<1> QED
  BY <1>1, <1>2, <1>3 DEF Splits, CutAt

\* The pieces of one sequence, and then those of another.
LEMMA SplitConcat ==
  ASSUME NEW ps \in Seq(Seq(Int)), NEW qs \in Seq(Seq(Int)),
         NEW s \in Seq(Int), NEW t \in Seq(Int), Splits(ps, s), Splits(qs, t)
  PROVE  Splits(ps \o qs, s \o t)
<1>1. PICK a : CutAt(ps, s, a)
  BY DEF Splits
<1>2. PICK b : CutAt(qs, t, b)
  BY DEF Splits
<1> DEFINE rs == ps \o qs
           u == s \o t
           cut == [i \in 0..Len(rs) |-> IF i <= Len(ps) THEN a[i] ELSE Len(s) + b[i - Len(ps)]]
<1>3. PICK m \in Nat, n \in Nat, k \in Nat, l \in Nat :
        m = Len(ps) /\ n = Len(qs) /\ k = Len(s) /\ l = Len(t)
  OBVIOUS
<1>a. /\ a \in [0..m -> Nat] /\ a[0] = 0 /\ a[m] = k
      /\ \A i \in 1..m :
           /\ a[i] = a[i - 1] + Len(ps[i]) /\ a[i] <= k
           /\ \A j \in 1..Len(ps[i]) : ps[i][j] = s[a[i - 1] + j]
  BY <1>1, <1>3 DEF CutAt
<1>b. /\ b \in [0..n -> Nat] /\ b[0] = 0 /\ b[n] = l
      /\ \A i \in 1..n :
           /\ b[i] = b[i - 1] + Len(qs[i]) /\ b[i] <= l
           /\ \A j \in 1..Len(qs[i]) : qs[i][j] = t[b[i - 1] + j]
  BY <1>2, <1>3 DEF CutAt
<1>4. /\ rs \in Seq(Seq(Int)) /\ Len(rs) = m + n /\ \A i \in 1..m : rs[i] = ps[i]
      /\ \A i \in (m + 1)..(m + n) : rs[i] = qs[i - m]
  BY <1>3
<1>5. /\ u \in Seq(Int) /\ Len(u) = k + l /\ \A i \in 1..k : u[i] = s[i]
      /\ \A i \in 1..l : u[k + i] = t[i]
  BY <1>3
<1>6. /\ cut \in [0..(m + n) -> Nat] /\ \A i \in 0..m : cut[i] = a[i]
      /\ \A i \in (m + 1)..(m + n) : cut[i] = k + b[i - m]
  <2>1. /\ DOMAIN cut = 0..(m + n)
        /\ \A i \in 0..(m + n) : cut[i] = IF i <= m THEN a[i] ELSE k + b[i - m]
    BY <1>3, <1>4
  <2>2. cut = [i \in 0..(m + n) |-> cut[i]]
    BY <2>1
  <2> HIDE DEF cut
  <2>3. ASSUME NEW i \in 0..(m + n) PROVE cut[i] \in Nat
    <3>1. CASE i <= m
      BY <1>a, <2>1, <3>1
    <3>2. CASE i > m
      <4>1. i - m \in 0..n
        BY <3>2
      <4>2. cut[i] = k + b[i - m] /\ b[i - m] \in Nat
        BY <1>b, <2>1, <3>2, <4>1
      <4> QED
        BY <4>2
    <3> QED
      BY <3>1, <3>2
  <2> QED
    BY <2>1, <2>2, <2>3
<1> HIDE DEF cut, rs, u
<1>7. cut[m] = k /\ cut[m + n] = k + l /\ cut[0] = 0 /\ \A i \in m..(m + n) : cut[i] = k + b[i - m]
  <2>1. cut[m] = k /\ cut[0] = 0
    BY <1>a, <1>6
  <2>2. ASSUME NEW i \in m..(m + n) PROVE cut[i] = k + b[i - m]
    <3>1. CASE i = m
      BY <1>b, <2>1, <3>1
    <3> QED
      BY <1>6, <3>1
  <2>3. cut[m + n] = k + b[(m + n) - m]
    BY <2>2
  <2> QED
    BY <1>b, <2>1, <2>2, <2>3
<1>8. ASSUME NEW i \in 1..(m + n)
      PROVE  /\ cut[i] = cut[i - 1] + Len(rs[i]) /\ cut[i] <= Len(u)
             /\ \A j \in 1..Len(rs[i]) : rs[i][j] = u[cut[i - 1] + j]
  <2>1. CASE i <= m
    <3>0. i \in 1..m /\ i - 1 \in 0..m /\ i \in 0..m
      BY <2>1
    <3>1. /\ a[i] = a[i - 1] + Len(ps[i]) /\ a[i] <= k /\ a[i - 1] \in Nat /\ a[i] \in Nat
          /\ \A j \in 1..Len(ps[i]) : ps[i][j] = s[a[i - 1] + j]
      BY <1>a, <3>0
    <3>2. cut[i] = a[i] /\ cut[i - 1] = a[i - 1] /\ rs[i] = ps[i]
      BY <1>4, <1>6, <3>0
    <3>3. PICK z \in Nat : z = Len(ps[i])
      BY <1>3, <3>0
    <3>4. PICK g \in Nat : g = a[i - 1]
      BY <3>1
    <3>5. a[i] = g + z /\ g + z <= k /\ \A j \in 1..z : ps[i][j] = s[g + j]
      BY <3>1, <3>3, <3>4
    <3>6. cut[i] = g + z /\ cut[i - 1] = g /\ Len(rs[i]) = z
      BY <3>2, <3>3, <3>4, <3>5
    <3>7. ASSUME NEW j \in 1..z
          PROVE  rs[i][j] = u[cut[i - 1] + j]
      <4>1. g + j \in 1..k
        BY <3>5
      <4>2. u[g + j] = s[g + j]
        BY <1>5, <4>1
      <4> QED
        BY <3>2, <3>5, <3>6, <4>2
    <3>8. g + z <= k + l
      BY <3>5
    <3> QED
      BY <1>5, <3>5, <3>6, <3>7, <3>8
  <2>2. CASE i > m
    <3>0. PICK h \in 1..n : h = i - m
      BY <2>2
    <3>1. /\ b[h] = b[h - 1] + Len(qs[h]) /\ b[h] <= l /\ b[h - 1] \in Nat /\ b[h] \in Nat
          /\ \A j \in 1..Len(qs[h]) : qs[h][j] = t[b[h - 1] + j]
      <4>1. h - 1 \in 0..n /\ h \in 0..n
        OBVIOUS
      <4> QED
        BY <1>b, <4>1
    <3>2. cut[i] = k + b[h] /\ cut[i - 1] = k + b[h - 1] /\ rs[i] = qs[h]
      <4>1. i - 1 \in m..(m + n) /\ (i - 1) - m = h - 1 /\ i \in m..(m + n)
            /\ i \in (m + 1)..(m + n)
        BY <2>2, <3>0
      <4> QED
        BY <1>4, <1>7, <3>0, <4>1
    <3>3. PICK z \in Nat : z = Len(qs[h])
      <4>1. h \in DOMAIN qs
        BY <1>3
      <4> QED
        BY <4>1
    <3>4. PICK g \in Nat : g = b[h - 1]
      BY <3>1
    <3>5. b[h] = g + z /\ g + z <= l /\ \A j \in 1..z : qs[h][j] = t[g + j]
      BY <3>1, <3>3, <3>4
    <3>6. cut[i] = k + (g + z) /\ cut[i - 1] = k + g /\ Len(rs[i]) = z
      BY <3>2, <3>3, <3>4, <3>5
    <3>7. ASSUME NEW j \in 1..z
          PROVE  rs[i][j] = u[cut[i - 1] + j]
      <4>1. g + j \in 1..l /\ (k + g) + j = k + (g + j)
        BY <3>5
      <4>2. u[k + (g + j)] = t[g + j]
        BY <1>5, <4>1
      <4> QED
        BY <3>2, <3>5, <3>6, <4>1, <4>2
    <3>8. k + (g + z) = (k + g) + z /\ k + (g + z) <= k + l
      BY <3>5
    <3> QED
      BY <1>5, <3>6, <3>7, <3>8
  <2> QED
    BY <2>1, <2>2
<1>9. CutAt(rs, u, cut)
  BY <1>4, <1>5, <1>6, <1>7, <1>8 DEF CutAt
<1> QED
  BY <1>9 DEF Splits, rs, u

\* qs is ps with the pieces h and h + 1 in one.
Joined(ps, qs, h) ==
  /\ h \in 1..(Len(ps) - 1) /\ Len(qs) = Len(ps) - 1
  /\ \A i \in 1..(h - 1) : qs[i] = ps[i]
  /\ qs[h] = ps[h] \o ps[h + 1]
  /\ \A i \in (h + 1)..Len(qs) : qs[i] = ps[i + 1]

\* Pieces h and h + 1 are joined: the sequence is the same.
LEMMA SplitJoin ==
  ASSUME NEW ps \in Seq(Seq(Int)), NEW qs \in Seq(Seq(Int)), NEW h \in Nat,
         NEW s \in Seq(Int), Splits(ps, s), Joined(ps, qs, h)
  PROVE  Splits(qs, s)
<1>1. PICK a : CutAt(ps, s, a)
  BY DEF Splits
<1>2. PICK n \in Nat, l \in Nat : n = Len(qs) /\ l = Len(s)
  OBVIOUS
<1>3. /\ h \in 1..n /\ Len(ps) = n + 1
      /\ \A i \in 1..(h - 1) : qs[i] = ps[i]
      /\ qs[h] = ps[h] \o ps[h + 1]
      /\ \A i \in (h + 1)..n : qs[i] = ps[i + 1]
  BY <1>2 DEF Joined
<1>a. /\ a \in [0..(n + 1) -> Nat] /\ a[0] = 0 /\ a[n + 1] = l
      /\ \A i \in 1..(n + 1) :
           /\ a[i] = a[i - 1] + Len(ps[i]) /\ a[i] <= l
           /\ \A j \in 1..Len(ps[i]) : ps[i][j] = s[a[i - 1] + j]
  BY <1>1, <1>2, <1>3 DEF CutAt
<1> DEFINE cut == [i \in 0..n |-> IF i < h THEN a[i] ELSE a[i + 1]]
<1>4. /\ cut \in [0..n -> Nat] /\ \A i \in 0..(h - 1) : cut[i] = a[i]
      /\ \A i \in h..n : cut[i] = a[i + 1]
  <2>1. /\ \A i \in 0..(h - 1) : i \in 0..n /\ i < h
        /\ \A i \in h..n : i \in 0..n /\ ~(i < h)
        /\ \A i \in 0..n : i \in 0..(n + 1) /\ i + 1 \in 0..(n + 1)
    BY <1>3
  <2>2. \A i \in 0..n : a[i] \in Nat /\ a[i + 1] \in Nat
    BY <1>a, <2>1
  <2>3. cut \in [0..n -> Nat]
    BY <2>2
  <2>4. \A i \in 0..(h - 1) : cut[i] = a[i]
    BY <2>1
  <2>5. \A i \in h..n : cut[i] = a[i + 1]
    BY <2>1
  <2> QED
    BY <2>3, <2>4, <2>5
<1> HIDE DEF cut
<1>5. cut[0] = 0 /\ cut[n] = l
  BY <1>3, <1>4, <1>a
<1>6. ASSUME NEW i \in 1..n
      PROVE  /\ cut[i] = cut[i - 1] + Len(qs[i]) /\ cut[i] <= l
             /\ \A j \in 1..Len(qs[i]) : qs[i][j] = s[cut[i - 1] + j]
  <2>1. CASE i < h
    <3>0. /\ i \in 0..(h - 1) /\ i - 1 \in 0..(h - 1) /\ i \in 1..(h - 1)
          /\ i \in 1..(n + 1)
      BY <2>1
    <3>1. cut[i] = a[i] /\ cut[i - 1] = a[i - 1] /\ qs[i] = ps[i] /\ i \in 1..(n + 1)
      BY <1>3, <1>4, <3>0
    <3> QED
      BY <1>a, <3>1
  <2>2. CASE i > h
    <3>0. /\ i \in h..n /\ i - 1 \in h..n /\ (i - 1) + 1 = i /\ i \in (h + 1)..n
          /\ i + 1 \in 1..(n + 1) /\ (i + 1) - 1 = i
      BY <2>2
    <3>1. cut[i] = a[i + 1] /\ cut[i - 1] = a[i] /\ qs[i] = ps[i + 1]
      BY <1>3, <1>4, <3>0
    <3>2. /\ a[i + 1] = a[(i + 1) - 1] + Len(ps[i + 1]) /\ a[i + 1] <= l
          /\ \A j \in 1..Len(ps[i + 1]) : ps[i + 1][j] = s[a[(i + 1) - 1] + j]
      BY <1>a, <3>0
    <3> QED
      BY <3>0, <3>1, <3>2
  <2>3. CASE i = h
    <3>0. /\ h \in 1..(n + 1) /\ h + 1 \in 1..(n + 1) /\ (h + 1) - 1 = h
          /\ h - 1 \in 0..(n + 1) /\ h \in 0..(n + 1) /\ h + 1 \in 0..(n + 1)
          /\ h - 1 \in 0..(h - 1) /\ h \in h..n
      <4>1. h \in 1..n
        BY <1>3
      <4> QED
        BY <4>1
    <3>1. cut[h] = a[h + 1] /\ cut[h - 1] = a[h - 1] /\ qs[h] = ps[h] \o ps[h + 1]
      BY <1>3, <1>4, <3>0
    <3>2. h \in DOMAIN ps /\ h + 1 \in DOMAIN ps
      BY <1>3, <3>0
    <3>3. PICK x \in Nat, y \in Nat, g \in Nat : x = Len(ps[h]) /\ y = Len(ps[h + 1]) /\ g = a[h - 1]
      <4>1. a[h - 1] \in Nat
        BY <1>a, <3>0
      <4>2. Len(ps[h]) \in Nat /\ Len(ps[h + 1]) \in Nat
        BY <3>2
      <4> QED
        BY <4>1, <4>2
    <3>4. /\ Len(qs[h]) = x + y /\ \A j \in 1..x : qs[h][j] = ps[h][j]
          /\ \A j \in (x + 1)..(x + y) : qs[h][j] = ps[h + 1][j - x]
      <4>1. PICK p \in Seq(Int), q \in Seq(Int) : p = ps[h] /\ q = ps[h + 1]
        BY <3>2
      <4>2. /\ Len(p \o q) = x + y /\ \A j \in 1..x : (p \o q)[j] = p[j]
            /\ \A j \in (x + 1)..(x + y) : (p \o q)[j] = q[j - x]
        <5>1. Len(p) = x /\ Len(q) = y
          BY <3>3, <4>1
        <5> QED
          BY ZenonT(60), <5>1, ConcatAt
      <4> QED
        BY <3>1, <4>1, <4>2
    <3>5. a[h] = g + x /\ \A j \in 1..x : ps[h][j] = s[g + j]
      BY <1>a, <3>0, <3>3
    <3>6. /\ a[h + 1] = (g + x) + y /\ a[h + 1] <= l
          /\ \A j \in 1..y : ps[h + 1][j] = s[(g + x) + j]
      <4>1. /\ a[h + 1] = a[(h + 1) - 1] + y /\ a[h + 1] <= l
            /\ \A j \in 1..y : ps[h + 1][j] = s[a[(h + 1) - 1] + j]
        BY <1>a, <3>0, <3>3
      <4> QED
        BY <3>0, <3>5, <4>1
    <3>7. cut[h] = cut[h - 1] + (x + y) /\ cut[h] <= l
      <4>1. (g + x) + y = g + (x + y)
        OBVIOUS
      <4> QED
        BY <3>1, <3>3, <3>6, <4>1
    <3>8. ASSUME NEW j \in 1..(x + y)
          PROVE  qs[h][j] = s[cut[h - 1] + j]
      <4>1. CASE j <= x
        BY <3>1, <3>3, <3>4, <3>5, <4>1
      <4>2. CASE j > x
        <5>1. j - x \in 1..y /\ (g + x) + (j - x) = g + j
          BY <4>2
        <5>2. qs[h][j] = ps[h + 1][j - x] /\ ps[h + 1][j - x] = s[(g + x) + (j - x)]
          BY SMTT(20), <3>4, <3>6, <4>2, <5>1
        <5> QED
          BY <3>1, <3>3, <5>1, <5>2
      <4> QED
        BY <4>1, <4>2
    <3> QED
      BY <2>3, <3>4, <3>7, <3>8
  <2> QED
    BY <1>3, <2>1, <2>2, <2>3
<1>7. CutAt(qs, s, cut)
  BY <1>2, <1>4, <1>5, <1>6 DEF CutAt
<1> QED
  BY <1>7 DEF Splits

\* What the first piece is; and the only one, if the others are empty.
LEMMA SplitFirst ==
  ASSUME NEW ps \in Seq(Seq(Int)), ps # <<>>, NEW s \in Seq(Int), Splits(ps, s)
  PROVE  IsPrefix(ps[1], s)
<1>1. PICK a : CutAt(ps, s, a)
  BY DEF Splits
<1>2. PICK l \in Nat : l = Len(ps[1])
  OBVIOUS
<1>3. l <= Len(s) /\ \A j \in 1..l : ps[1][j] = s[j]
  <2>1. 1 \in 1..Len(ps)
    OBVIOUS
  <2>2. /\ a[0] = 0 /\ a[1] = a[1 - 1] + l /\ a[1] <= Len(s)
        /\ \A j \in 1..l : ps[1][j] = s[a[1 - 1] + j]
    BY <1>1, <1>2, <2>1 DEF CutAt
  <2>3. a[1 - 1] = 0
    BY <2>2
  <2> QED
    BY <2>2, <2>3
<1>4. SubSeq(ps[1], 1, l) = SubSeq(s, 1, l)
  <2> DEFINE p == ps[1]
  <2>1. p \in Seq(Int) /\ Len(p) = l /\ 1 - 1 = 0
    BY <1>2
  <2> HIDE DEF p
  <2>2. SubSeq(p, 1, l) = [i \in 1..l |-> p[i]]
    BY <2>1
  <2>3. SubSeq(s, 1, l) = [i \in 1..l |-> s[i]]
    BY <1>3
  <2> QED
    BY <1>3, <2>2, <2>3 DEF p
<1> QED
  BY <1>2, <1>3, <1>4 DEF IsPrefix

\* One piece, with only empty ones after it, is the sequence.
LEMMA SplitOnly ==
  ASSUME NEW w \in Seq(Int), NEW rs \in Seq(Seq(Int)), NEW s \in Seq(Int),
         Splits(<<w>> \o rs, s), \A i \in 1..Len(rs) : rs[i] = <<>>
  PROVE  w = s
<1> DEFINE ps == <<w>> \o rs
<1>1. PICK a : CutAt(ps, s, a)
  BY DEF Splits
<1>2. PICK n \in Nat, k \in Nat, l \in Nat : n = Len(rs) /\ k = Len(w) /\ l = Len(s)
  OBVIOUS
<1>3. Len(ps) = n + 1 /\ ps[1] = w /\ \A i \in 2..(n + 1) : Len(ps[i]) = 0
  BY <1>2
<1> HIDE DEF ps
<1>4. /\ a \in [0..(n + 1) -> Nat] /\ a[0] = 0 /\ a[n + 1] = l
      /\ \A i \in 1..(n + 1) : a[i] = a[i - 1] + Len(ps[i])
      /\ \A j \in 1..k : w[j] = s[a[1 - 1] + j]
  <2>1. \A i \in 1..(n + 1) : a[i] = a[i - 1] + Len(ps[i])
    BY <1>1, <1>3 DEF CutAt
  <2>2. \A j \in 1..k : w[j] = s[a[1 - 1] + j]
    <3>1. 1 \in 1..(n + 1)
      OBVIOUS
    <3> QED
      BY <1>1, <1>2, <1>3, <3>1 DEF CutAt
  <2> QED
    BY <1>1, <1>2, <1>3, <2>1, <2>2 DEF CutAt
<1>5. a[1] = k
  <2>1. 1 \in 1..(n + 1) /\ 1 - 1 = 0
    OBVIOUS
  <2>2. a[1] = a[0] + Len(ps[1])
    BY <1>4, <2>1
  <2> QED
    BY <1>2, <1>3, <1>4, <2>2
<1>6. \A i \in 1..n : a[i + 1] = a[i]
  <2> SUFFICES ASSUME NEW i \in 1..n PROVE a[i + 1] = a[i]
    OBVIOUS
  <2>1. i + 1 \in 2..(n + 1) /\ (i + 1) - 1 = i /\ i + 1 \in 1..(n + 1) /\ i \in 0..(n + 1)
    OBVIOUS
  <2>2. Len(ps[i + 1]) = 0 /\ a[i + 1] \in Nat /\ a[i] \in Nat
    BY <1>3, <1>4, <2>1
  <2>3. a[i + 1] = a[(i + 1) - 1] + Len(ps[i + 1])
    BY <1>4, <2>1
  <2> QED
    BY <2>1, <2>2, <2>3
<1>7. a[n + 1] = k
  <2> DEFINE S == {i \in Nat : i <= n => a[i + 1] = k}
  <2>1. 0 \in S
    BY <1>5
  <2>2. \A i \in Nat : i \in S => i + 1 \in S
    <3> SUFFICES ASSUME NEW i \in Nat, i \in S, i + 1 <= n PROVE a[(i + 1) + 1] = k
      OBVIOUS
    <3>1. i + 1 \in 1..n
      OBVIOUS
    <3> QED
      BY <1>6, <3>1
  <2> HIDE DEF S
  <2>3. n \in S
    BY <2>1, <2>2, NatInd
  <2> QED
    BY <2>3 DEF S
<1>8. k = l /\ \A j \in 1..k : w[j] = s[j]
  BY <1>4, <1>7
<1>9. w = [j \in 1..k |-> w[j]] /\ s = [j \in 1..l |-> s[j]]
  BY <1>2
<1> QED
  BY <1>8, <1>9

\* ps with the pieces h and h + 1 in one.
Join(ps, h) == [i \in 1..(Len(ps) - 1) |->
                  IF i < h THEN ps[i] ELSE IF i = h THEN ps[h] \o ps[h + 1] ELSE ps[i + 1]]

\* The join of two pieces exists.
LEMMA JoinPieces ==
  ASSUME NEW ps \in Seq(Seq(Int)), NEW h \in 1..(Len(ps) - 1), NEW s \in Seq(Int), Splits(ps, s)
  PROVE  /\ Join(ps, h) \in Seq(Seq(Int)) /\ Len(Join(ps, h)) = Len(ps) - 1
         /\ \A i \in 1..(h - 1) : Join(ps, h)[i] = ps[i]
         /\ Join(ps, h)[h] = ps[h] \o ps[h + 1]
         /\ \A i \in (h + 1)..(Len(ps) - 1) : Join(ps, h)[i] = ps[i + 1]
         /\ Splits(Join(ps, h), s)
<1> DEFINE n == Len(ps) - 1
           qs == Join(ps, h)
<1>1. n \in Nat /\ Len(ps) = n + 1 /\ h \in Nat /\ h \in 1..n
  OBVIOUS
<1>2. \A i \in 1..n : ps[i] \in Seq(Int) /\ ps[i + 1] \in Seq(Int)
  <2> SUFFICES ASSUME NEW i \in 1..n PROVE ps[i] \in Seq(Int) /\ ps[i + 1] \in Seq(Int)
    OBVIOUS
  <2>1. i \in 1..Len(ps) /\ i + 1 \in 1..Len(ps)
    BY <1>1
  <2> QED
    BY <2>1
<1>3. DOMAIN qs = 1..n
  BY DEF Join
<1>4. /\ \A i \in 1..(h - 1) : qs[i] = ps[i]
      /\ qs[h] = ps[h] \o ps[h + 1]
      /\ \A i \in (h + 1)..n : qs[i] = ps[i + 1]
  <2>1. \A i \in 1..n : qs[i] = IF i < h THEN ps[i] ELSE IF i = h THEN ps[h] \o ps[h + 1] ELSE ps[i + 1]
    BY DEF Join
  <2> HIDE DEF qs, n
  <2>2. \A i \in 1..(h - 1) : i \in 1..n /\ i < h
    BY <1>1
  <2>3. \A i \in (h + 1)..n : i \in 1..n /\ ~(i < h) /\ i # h
    BY <1>1
  <2>4. ~(h < h) /\ h \in 1..n
    BY <1>1
  <2>5. \A i \in 1..(h - 1) : qs[i] = ps[i]
    BY <2>1, <2>2
  <2>6. \A i \in (h + 1)..n : qs[i] = ps[i + 1]
    BY <2>1, <2>3
  <2> QED
    BY <2>1, <2>4, <2>5, <2>6
<1>5. \A i \in 1..n : qs[i] \in Seq(Int)
  <2> SUFFICES ASSUME NEW i \in 1..n PROVE qs[i] \in Seq(Int)
    OBVIOUS
  <2>1. ps[h] \o ps[h + 1] \in Seq(Int)
    BY <1>1, <1>2
  <2>2. i \in 1..(h - 1) \/ i = h \/ i \in (h + 1)..n
    BY <1>1
  <2> QED
    BY <1>2, <1>4, <2>1, <2>2
<1>6. qs \in Seq(Seq(Int)) /\ Len(qs) = n
  <2>1. qs = [i \in 1..n |-> qs[i]]
    BY <1>3 DEF Join
  <2> HIDE DEF qs, n
  <2>2. qs \in [1..n -> Seq(Int)]
    BY <1>5, <2>1
  <2>3. qs \in Seq(Seq(Int))
    BY <1>1, <2>2, IsASeq
  <2>4. DOMAIN qs = 1..Len(qs) /\ Len(qs) \in Nat
    BY <2>3
  <2> QED
    BY <1>1, <1>3, <2>3, <2>4
<1> HIDE DEF qs
<1>7. Joined(ps, qs, h)
  BY <1>1, <1>4, <1>6 DEF Joined
<1>8. Splits(qs, s)
  BY <1>1, <1>6, <1>7, SplitJoin
<1> QED
  BY <1>4, <1>6, <1>8 DEF qs

\* s is w, then the chunks of cs, then b.
IsPieces(ps, w, cs, b) ==
  /\ ps \in Seq(Seq(Int)) /\ Len(ps) = Len(cs) + 2 /\ ps[1] = w
  /\ \A i \in 1..Len(cs) : ps[i + 1] = cs[i]
  /\ ps[Len(cs) + 2] = b
InOrder(w, cs, b, s) == \E ps : IsPieces(ps, w, cs, b) /\ Splits(ps, s)

\* The first chunk is sent.
LEMMA OrderSent ==
  ASSUME NEW w \in Seq(Int), NEW cs \in Seq(Seq(Int)), NEW b \in Seq(Int), NEW s \in Seq(Int),
         InOrder(w, cs, b, s), cs # <<>>
  PROVE  InOrder(w \o cs[1], Tail(cs), b, s)
<1>1. PICK ps : IsPieces(ps, w, cs, b) /\ Splits(ps, s)
  BY DEF InOrder
<1>2. PICK n \in Nat : n = Len(cs) /\ n >= 1
  OBVIOUS
<1>3. /\ ps \in Seq(Seq(Int)) /\ Len(ps) = n + 2 /\ ps[1] = w /\ ps[n + 2] = b
      /\ \A i \in 1..n : ps[i + 1] = cs[i]
  BY <1>1, <1>2 DEF IsPieces
<1>4. 1 \in 1..(Len(ps) - 1)
  BY <1>2, <1>3
<1> DEFINE qs == Join(ps, 1)
<1>5. /\ qs \in Seq(Seq(Int)) /\ Len(qs) = n + 1
      /\ qs[1] = ps[1] \o ps[1 + 1] /\ \A i \in 2..(n + 1) : qs[i] = ps[i + 1]
      /\ Splits(qs, s)
  <2>1. Len(ps) - 1 = n + 1 /\ 1 + 1 = 2
    BY <1>3
  <2>2. /\ qs \in Seq(Seq(Int)) /\ Len(qs) = Len(ps) - 1 /\ qs[1] = ps[1] \o ps[1 + 1]
        /\ \A i \in (1 + 1)..(Len(ps) - 1) : qs[i] = ps[i + 1]
        /\ Splits(qs, s)
    BY <1>1, <1>3, <1>4, JoinPieces
  <2> HIDE DEF qs
  <2> QED
    BY <2>1, <2>2
<1> HIDE DEF qs
<1>6. Tail(cs) \in Seq(Seq(Int)) /\ Len(Tail(cs)) = n - 1 /\ \A i \in 1..(n - 1) : Tail(cs)[i] = cs[i + 1]
  BY <1>2
<1>7. ps[1 + 1] = cs[1]
  BY <1>2, <1>3
<1>8. \A i \in 1..(n - 1) : qs[i + 1] = Tail(cs)[i]
  <2> SUFFICES ASSUME NEW i \in 1..(n - 1) PROVE qs[i + 1] = Tail(cs)[i]
    OBVIOUS
  <2>1. i + 1 \in 2..(n + 1) /\ i + 1 \in 1..n
    OBVIOUS
  <2> QED
    BY <1>3, <1>5, <1>6, <2>1
<1>9. qs[n + 1] = b
  <2>1. n + 1 \in 2..(n + 1) /\ (n + 1) + 1 = n + 2
    BY <1>2
  <2> QED
    BY <1>3, <1>5, <2>1
<1>10. (n - 1) + 2 = n + 1
  OBVIOUS
<1>11. IsPieces(qs, w \o cs[1], Tail(cs), b)
  BY <1>3, <1>5, <1>6, <1>7, <1>8, <1>9, <1>10 DEF IsPieces
<1> QED
  BY <1>5, <1>11 DEF InOrder

\* More is kept at the end.
LEMMA OrderKept ==
  ASSUME NEW w \in Seq(Int), NEW cs \in Seq(Seq(Int)), NEW b \in Seq(Int), NEW s \in Seq(Int),
         InOrder(w, cs, b, s), NEW x \in Seq(Int)
  PROVE  InOrder(w, cs, b \o x, s \o x)
<1>1. PICK ps : IsPieces(ps, w, cs, b) /\ Splits(ps, s)
  BY DEF InOrder
<1>2. PICK n \in Nat : n = Len(cs)
  OBVIOUS
<1>3. /\ ps \in Seq(Seq(Int)) /\ Len(ps) = n + 2 /\ ps[1] = w /\ ps[n + 2] = b
      /\ \A i \in 1..n : ps[i + 1] = cs[i]
  BY <1>1, <1>2 DEF IsPieces
<1> DEFINE qs == ps \o <<x>>
           rs == Join(qs, n + 2)
<1>4. Splits(qs, s \o x)
  <2>1. <<x>> \in Seq(Seq(Int)) /\ Splits(<<x>>, x)
    BY SplitOne
  <2> QED
    BY <1>1, <1>3, <2>1, SplitConcat
<1>5. /\ qs \in Seq(Seq(Int)) /\ Len(qs) = n + 3 /\ qs[n + 3] = x
      /\ \A i \in 1..(n + 2) : qs[i] = ps[i]
  BY <1>3
<1>6. s \o x \in Seq(Int) /\ n + 2 \in 1..(Len(qs) - 1) /\ (n + 2) + 1 = n + 3 /\ (n + 2) - 1 = n + 1
      /\ (n + 3) - 1 = n + 2
  BY <1>5
<1> HIDE DEF qs
<1>7. /\ rs \in Seq(Seq(Int)) /\ Len(rs) = n + 2
      /\ \A i \in 1..(n + 1) : rs[i] = qs[i]
      /\ rs[n + 2] = qs[n + 2] \o qs[n + 3] /\ Splits(rs, s \o x)
  <2>1. /\ rs \in Seq(Seq(Int)) /\ Len(rs) = Len(qs) - 1
        /\ \A i \in 1..((n + 2) - 1) : rs[i] = qs[i]
        /\ rs[n + 2] = qs[n + 2] \o qs[(n + 2) + 1] /\ Splits(rs, s \o x)
    BY <1>4, <1>5, <1>6, JoinPieces
  <2> HIDE DEF rs
  <2> QED
    BY <1>5, <1>6, <2>1
<1> HIDE DEF rs
<1>8. \A i \in 1..(n + 1) : rs[i] = ps[i]
  <2>1. \A i \in 1..(n + 1) : i \in 1..(n + 2)
    OBVIOUS
  <2> QED
    BY <1>5, <1>7, <2>1
<1>9. rs[1] = w /\ rs[n + 2] = b \o x /\ \A i \in 1..n : rs[i + 1] = cs[i]
  <2>1. 1 \in 1..(n + 1) /\ n + 2 \in 1..(n + 2) /\ \A i \in 1..n : i + 1 \in 1..(n + 1)
    OBVIOUS
  <2>2. rs[1] = w /\ \A i \in 1..n : rs[i + 1] = cs[i]
    BY <1>3, <1>8, <2>1
  <2>3. qs[n + 2] = b
    BY <1>3, <1>5, <2>1
  <2> QED
    BY <1>5, <1>7, <2>2, <2>3
<1>10. IsPieces(rs, w, cs, b \o x)
  BY <1>2, <1>7, <1>9 DEF IsPieces
<1> QED
  BY <1>7, <1>10 DEF InOrder

\* What was kept is a chunk.
LEMMA OrderFlushed ==
  ASSUME NEW w \in Seq(Int), NEW cs \in Seq(Seq(Int)), NEW b \in Seq(Int), NEW s \in Seq(Int),
         InOrder(w, cs, b, s)
  PROVE  InOrder(w, Append(cs, b), <<>>, s)
<1>1. PICK ps : IsPieces(ps, w, cs, b) /\ Splits(ps, s)
  BY DEF InOrder
<1>2. PICK n \in Nat : n = Len(cs)
  OBVIOUS
<1>3. /\ ps \in Seq(Seq(Int)) /\ Len(ps) = n + 2 /\ ps[1] = w /\ ps[n + 2] = b
      /\ \A i \in 1..n : ps[i + 1] = cs[i]
  BY <1>1, <1>2 DEF IsPieces
<1>4. PICK e \in Seq(Int) : e = <<>>
  <2>1. <<>> \in Seq(Int)
    OBVIOUS
  <2> QED
    BY <2>1
<1> DEFINE qs == ps \o <<e>>
<1>5. Splits(qs, s \o e)
  <2>1. <<e>> \in Seq(Seq(Int)) /\ Splits(<<e>>, e)
    BY SplitOne
  <2> QED
    BY <1>1, <1>3, <2>1, SplitConcat
<1>6. s \o e = s
  BY <1>4
<1>7. /\ qs \in Seq(Seq(Int)) /\ Len(qs) = n + 3 /\ qs[n + 3] = e
      /\ \A i \in 1..(n + 2) : qs[i] = ps[i]
  BY <1>3
<1>8. /\ Append(cs, b) \in Seq(Seq(Int)) /\ Len(Append(cs, b)) = n + 1 /\ Append(cs, b)[n + 1] = b
      /\ \A i \in 1..n : Append(cs, b)[i] = cs[i]
  BY <1>2
<1> HIDE DEF qs
<1>9. ASSUME NEW i \in 1..(n + 1) PROVE qs[i + 1] = Append(cs, b)[i]
  <2>1. CASE i <= n
    BY <1>3, <1>7, <1>8, <2>1
  <2>2. CASE i = n + 1
    <3>1. i + 1 = n + 2 /\ n + 2 \in 1..(n + 2)
      BY <2>2
    <3> QED
      BY <1>3, <1>7, <1>8, <2>2, <3>1
  <2>3. i <= n \/ i = n + 1
    OBVIOUS
  <2> QED
    BY <2>1, <2>2, <2>3
<1>10. IsPieces(qs, w, Append(cs, b), <<>>)
  <2>1. (n + 1) + 2 = n + 3 /\ 1 \in 1..(n + 2)
    OBVIOUS
  <2>2. qs[1] = w
    BY <1>3, <1>7, <2>1
  <2> QED
    BY <1>4, <1>7, <1>8, <1>9, <2>1, <2>2 DEF IsPieces
<1> QED
  BY <1>5, <1>6, <1>10 DEF InOrder

\* More chunks come at the end.
LEMMA OrderWritten ==
  ASSUME NEW w \in Seq(Int), NEW cs \in Seq(Seq(Int)), NEW s \in Seq(Int), InOrder(w, cs, <<>>, s),
         NEW ds \in Seq(Seq(Int)), ds # <<>>, NEW t \in Seq(Int), Splits(ds, t)
  PROVE  InOrder(w, cs \o ds, <<>>, s \o t)
<1>1. PICK ps : IsPieces(ps, w, cs, <<>>) /\ Splits(ps, s)
  BY DEF InOrder
<1>2. PICK n \in Nat, m \in Nat : n = Len(cs) /\ m = Len(ds)
  OBVIOUS
<1>3. /\ ps \in Seq(Seq(Int)) /\ Len(ps) = n + 2 /\ ps[1] = w /\ ps[n + 2] = <<>>
      /\ \A i \in 1..n : ps[i + 1] = cs[i]
  BY <1>1, <1>2 DEF IsPieces
<1>m. m >= 1 /\ 1 \in DOMAIN ds
  BY <1>2
<1> DEFINE qs == ps \o ds
           rs == Join(qs, n + 2)
           es == cs \o ds
<1>4. Splits(qs, s \o t) /\ s \o t \in Seq(Int)
  BY <1>1, <1>3, SplitConcat
<1>5. /\ qs \in Seq(Seq(Int)) /\ Len(qs) = (n + 2) + m
      /\ \A i \in 1..(n + 2) : qs[i] = ps[i]
      /\ \A i \in ((n + 2) + 1)..((n + 2) + m) : qs[i] = ds[i - (n + 2)]
  <2>1. /\ qs \in Seq(Seq(Int)) /\ Len(qs) = Len(ps) + Len(ds)
        /\ \A i \in 1..Len(ps) : qs[i] = ps[i]
        /\ \A i \in (Len(ps) + 1)..(Len(ps) + Len(ds)) : qs[i] = ds[i - Len(ps)]
    BY <1>3, ConcatAt
  <2> HIDE DEF qs
  <2> QED
    BY <1>2, <1>3, <2>1
<1>6. /\ es \in Seq(Seq(Int)) /\ Len(es) = n + m
      /\ \A i \in 1..n : es[i] = cs[i]
      /\ \A i \in (n + 1)..(n + m) : es[i] = ds[i - n]
  BY <1>2, ConcatAt
<1> HIDE DEF qs, es
<1>7. /\ rs \in Seq(Seq(Int)) /\ Len(rs) = n + (m + 1)
      /\ \A i \in 1..(n + 1) : rs[i] = qs[i]
      /\ rs[n + 2] = qs[n + 2] \o qs[n + 3]
      /\ \A i \in (n + 3)..(n + (m + 1)) : rs[i] = qs[i + 1]
      /\ Splits(rs, s \o t)
  <2>1. /\ n + 2 \in 1..(Len(qs) - 1) /\ Len(qs) - 1 = n + (m + 1) /\ (n + 2) - 1 = n + 1
        /\ (n + 2) + 1 = n + 3
    BY <1>5, <1>m
  <2>2. /\ rs \in Seq(Seq(Int)) /\ Len(rs) = Len(qs) - 1
        /\ \A i \in 1..((n + 2) - 1) : rs[i] = qs[i]
        /\ rs[n + 2] = qs[n + 2] \o qs[(n + 2) + 1]
        /\ \A i \in ((n + 2) + 1)..(Len(qs) - 1) : rs[i] = qs[i + 1]
        /\ Splits(rs, s \o t)
    BY <1>4, <1>5, <2>1, JoinPieces
  <2> HIDE DEF rs
  <2> QED
    BY <2>1, <2>2
<1> HIDE DEF rs
<1>8. ASSUME NEW i \in 1..(n + m) PROVE rs[i + 1] = es[i]
  <2>1. CASE i <= n
    <3>1. i \in 1..n /\ i + 1 \in 1..(n + 1) /\ i + 1 \in 1..(n + 2)
      BY <2>1
    <3> QED
      BY <1>3, <1>5, <1>6, <1>7, <3>1
  <2>2. CASE i = n + 1
    <3>1. /\ n + 2 \in 1..(n + 2) /\ n + 3 \in ((n + 2) + 1)..((n + 2) + m) /\ (n + 3) - (n + 2) = 1
          /\ n + 1 \in (n + 1)..(n + m) /\ (n + 1) - n = 1 /\ (n + 1) + 1 = n + 2
      BY <1>m
    <3>2. qs[n + 2] = <<>> /\ qs[n + 3] = ds[1] /\ es[n + 1] = ds[1]
      BY <1>3, <1>5, <1>6, <3>1
    <3>3. <<>> \o ds[1] = ds[1]
      <4>1. PICK d \in Seq(Int) : d = ds[1]
        BY <1>m
      <4>2. <<>> \o d = d
        OBVIOUS
      <4> QED
        BY <4>1, <4>2
    <3> QED
      BY <1>7, <2>2, <3>1, <3>2, <3>3
  <2>3. CASE i >= n + 2
    <3>1. /\ i + 1 \in (n + 3)..(n + (m + 1)) /\ i \in (n + 1)..(n + m)
          /\ (i + 1) + 1 \in ((n + 2) + 1)..((n + 2) + m) /\ ((i + 1) + 1) - (n + 2) = i - n
      BY <2>3
    <3>2. rs[i + 1] = qs[(i + 1) + 1]
      BY <1>7, <3>1
    <3>3. qs[(i + 1) + 1] = ds[i - n]
      BY <1>5, <3>1
    <3> QED
      BY <1>6, <3>1, <3>2, <3>3
  <2>4. i <= n \/ i = n + 1 \/ i >= n + 2
    OBVIOUS
  <2> QED
    BY <2>1, <2>2, <2>3, <2>4
<1>9. rs[1] = w
  <2>1. 1 \in 1..(n + 1) /\ 1 \in 1..(n + 2)
    OBVIOUS
  <2> QED
    BY <1>3, <1>5, <1>7, <2>1
<1>e. PICK e \in Seq(Int) : e = <<>>
  <2>1. <<>> \in Seq(Int)
    OBVIOUS
  <2> QED
    BY <2>1
<1>v. PICK v \in Seq(Int) : v = s \o t
  BY <1>4
<1>k. PICK k \in Nat : k = n + m
  OBVIOUS
<1> DEFINE us == rs \o <<e>>
<1>10. IsPieces(us, w, es, <<>>) /\ Splits(us, s \o t)
  <2>3. <<e>> \in Seq(Seq(Int)) /\ Splits(<<e>>, e)
    BY SplitOne
  <2>2. v \o e = v
    BY <1>e
  <2>4. Splits(us, v)
    <3>1. Splits(rs \o <<e>>, v \o e)
      BY <1>7, <1>v, <2>3, SplitConcat
    <3> QED
      BY <2>2, <3>1
  <2>5. Len(rs) = k + 1
    <3>1. n + (m + 1) = (n + m) + 1
      OBVIOUS
    <3> QED
      BY <1>7, <1>k, <3>1
  <2>6. /\ us \in Seq(Seq(Int)) /\ Len(us) = k + 2 /\ us[k + 2] = e
        /\ \A i \in 1..(k + 1) : us[i] = rs[i]
    <3>1. rs \in Seq(Seq(Int)) /\ (k + 1) + 1 = k + 2
      BY <1>7
    <3> QED
      BY <2>5, <3>1
  <2> HIDE DEF us
  <2>7. us[1] = w /\ \A i \in 1..k : us[i + 1] = es[i]
    <3>1. 1 \in 1..(k + 1) /\ \A i \in 1..k : i + 1 \in 1..(k + 1)
      OBVIOUS
    <3> QED
      BY <1>8, <1>9, <1>k, <2>6, <3>1
  <2> QED
    BY <1>6, <1>e, <1>k, <1>v, <2>4, <2>6, <2>7 DEF IsPieces
<1> QED
  BY <1>10 DEF InOrder, es

\* What was sent is the first part.
LEMMA OrderPrefix ==
  ASSUME NEW w \in Seq(Int), NEW cs, NEW b, NEW s \in Seq(Int), InOrder(w, cs, b, s),
         Len(cs) \in Nat
  PROVE  IsPrefix(w, s)
<1>1. PICK ps : IsPieces(ps, w, cs, b) /\ Splits(ps, s)
  BY DEF InOrder
<1>2. ps \in Seq(Seq(Int)) /\ ps # <<>> /\ ps[1] = w
  BY <1>1 DEF IsPieces
<1> QED
  BY <1>1, <1>2, SplitFirst

\* When nothing else is left, everything was sent.
LEMMA OrderAll ==
  ASSUME NEW w \in Seq(Int), NEW cs \in Seq(Seq(Int)), NEW s \in Seq(Int), InOrder(w, cs, <<>>, s),
         \A i \in 1..Len(cs) : cs[i] = <<>>
  PROVE  w = s
<1>1. PICK ps : IsPieces(ps, w, cs, <<>>) /\ Splits(ps, s)
  BY DEF InOrder
<1>2. PICK n \in Nat : n = Len(cs)
  OBVIOUS
<1>3. /\ ps \in Seq(Seq(Int)) /\ Len(ps) = n + 2 /\ ps[1] = w /\ ps[n + 2] = <<>>
      /\ \A i \in 1..n : ps[i + 1] = cs[i]
  BY <1>1, <1>2 DEF IsPieces
<1>4. /\ Tail(ps) \in Seq(Seq(Int)) /\ Len(Tail(ps)) = n + 1
      /\ \A i \in 1..(n + 1) : Tail(ps)[i] = ps[i + 1]
  BY <1>3
<1>5. ps = <<w>> \o Tail(ps)
  BY <1>3
<1>6. ASSUME NEW i \in 1..(n + 1) PROVE Tail(ps)[i] = <<>>
  <2>1. CASE i \in 1..n
    BY <1>2, <1>3, <1>4, <2>1
  <2>2. CASE i = n + 1
    <3>1. (n + 1) + 1 = n + 2
      OBVIOUS
    <3> QED
      BY <1>3, <1>4, <2>2, <3>1
  <2>3. i \in 1..n \/ i = n + 1
    OBVIOUS
  <2> QED
    BY <2>1, <2>2, <2>3
<1>7. Splits(<<w>> \o Tail(ps), s)
  BY <1>1, <1>5
<1> QED
  BY <1>4, <1>6, <1>7, SplitOnly

\* The chunks of a write: head before the first of the numbers after k.
LEMMA WriteChunks ==
  ASSUME NEW m \in Nat, m >= 1, NEW k \in Nat, NEW head \in Seq(Int), Len(head) \in {0, 1},
         NEW ds \in Seq(Seq(Int)), Len(ds) = m, ds[1] = head \o <<k + 1>>,
         \A i \in 2..m : ds[i] = <<k + i>>,
         NEW nums \in Seq(Int), Len(nums) = m, \A i \in 1..m : nums[i] = k + i
  PROVE  Splits(ds, head \o nums)
<1>1. PICK h \in {0, 1} : h = Len(head)
  OBVIOUS
<1> DEFINE t == head \o nums
           cut == [i \in 0..m |-> IF i = 0 THEN 0 ELSE h + i]
<1>2. /\ t \in Seq(Int) /\ Len(t) = h + m /\ \A j \in 1..h : t[j] = head[j]
      /\ \A j \in 1..m : t[h + j] = k + j
  <2>1. /\ t \in Seq(Int) /\ Len(t) = h + m /\ \A j \in 1..h : t[j] = head[j]
        /\ \A j \in (h + 1)..(h + m) : t[j] = nums[j - h]
    <3>1. /\ t \in Seq(Int) /\ Len(t) = Len(head) + Len(nums)
          /\ \A j \in 1..Len(head) : t[j] = head[j]
          /\ \A j \in (Len(head) + 1)..(Len(head) + Len(nums)) : t[j] = nums[j - Len(head)]
      BY ConcatAt
    <3> HIDE DEF t
    <3> QED
      BY <1>1, <3>1
  <2> HIDE DEF t
  <2>2. ASSUME NEW j \in 1..m PROVE t[h + j] = k + j
    <3>1. h + j \in (h + 1)..(h + m) /\ (h + j) - h = j
      BY <1>1
    <3> QED
      BY <2>1, <3>1
  <2> QED
    BY <2>1, <2>2
<1>3. /\ ds[1] \in Seq(Int) /\ Len(ds[1]) = h + 1 /\ \A j \in 1..h : ds[1][j] = head[j]
      /\ ds[1][h + 1] = k + 1
  BY <1>1
<1>4. cut \in [0..m -> Nat] /\ cut[0] = 0 /\ \A i \in 1..m : cut[i] = h + i
  <2>1. \A i \in 0..m : cut[i] = IF i = 0 THEN 0 ELSE h + i
    OBVIOUS
  <2>2. 0 \in 0..m /\ \A i \in 1..m : i # 0 /\ i \in 0..m
    OBVIOUS
  <2>3. cut \in [0..m -> Nat]
    OBVIOUS
  <2> HIDE DEF cut
  <2> QED
    BY <2>1, <2>2, <2>3
<1> HIDE DEF cut, t
<1>5. ASSUME NEW i \in 1..m
      PROVE  /\ cut[i] = cut[i - 1] + Len(ds[i]) /\ cut[i] <= h + m
             /\ \A j \in 1..Len(ds[i]) : ds[i][j] = t[cut[i - 1] + j]
  <2>1. CASE i = 1
    <3>1. cut[1] = h + 1 /\ cut[1 - 1] = 0 /\ 1 \in 1..m
      BY <1>4
    <3>2. ASSUME NEW j \in 1..(h + 1) PROVE ds[1][j] = t[0 + j]
      <4>1. CASE j \in 1..h
        BY <1>2, <1>3, <4>1
      <4>2. CASE j = h + 1
        <5>1. t[h + 1] = k + 1 /\ h + 1 = 0 + (h + 1)
          BY <1>2, <3>1
        <5> QED
          BY <1>3, <4>2, <5>1
      <4>3. j \in 1..h \/ j = h + 1
        BY <1>1
      <4> QED
        BY <4>1, <4>2, <4>3
    <3>3. h + 1 <= h + m /\ h + 1 = 0 + (h + 1)
      BY <1>1
    <3> QED
      BY <1>3, <2>1, <3>1, <3>2, <3>3
  <2>2. CASE i >= 2
    <3>1. i \in 2..m /\ i - 1 \in 1..m /\ (h + (i - 1)) + 1 = h + i /\ h + i <= h + m
      BY <1>1, <2>2
    <3>2. cut[i] = h + i /\ cut[i - 1] = h + (i - 1) /\ ds[i] = <<k + i>> /\ t[h + i] = k + i
      BY <1>2, <1>4, <3>1
    <3>3. Len(ds[i]) = 1 /\ ds[i][1] = k + i
      BY <3>2
    <3> QED
      BY <3>1, <3>2, <3>3
  <2> QED
    BY <2>1, <2>2
<1>6. cut[m] = h + m
  BY <1>4
<1>7. CutAt(ds, t, cut)
  BY <1>2, <1>4, <1>5, <1>6 DEF CutAt
<1> QED
  BY <1>7 DEF Splits, t

\* A prefix of the first part.
LEMMA PrefixConcat ==
  ASSUME NEW w \in Seq(Int), NEW s \in Seq(Int), NEW x \in Seq(Int), IsPrefix(w, s)
  PROVE  IsPrefix(w, s \o x)
<1>1. PICK k \in Nat, l \in Nat, n \in Nat : k = Len(w) /\ l = Len(s) /\ n = Len(x)
  OBVIOUS
<1>2. k <= l /\ SubSeq(w, 1, k) = SubSeq(s, 1, k)
  BY <1>1 DEF IsPrefix
<1> DEFINE u == s \o x
<1>3. u \in Seq(Int) /\ Len(u) = l + n /\ \A i \in 1..l : u[i] = s[i]
  BY <1>1
<1> HIDE DEF u
<1>4. SubSeq(u, 1, k) = SubSeq(s, 1, k)
  <2>1. SubSeq(u, 1, k) = [i \in 1..k |-> u[i]] /\ SubSeq(s, 1, k) = [i \in 1..k |-> s[i]]
    BY <1>1, <1>2, <1>3
  <2>2. \A i \in 1..k : i \in 1..l
    BY <1>2
  <2> QED
    BY <1>3, <2>1, <2>2
<1>5. k <= l + n
  BY <1>2
<1> QED
  BY <1>1, <1>2, <1>3, <1>4, <1>5 DEF IsPrefix, u

-----------------------------------------------------------------------------
(* COPY: the invariant                                                      *)

CopyType == [direction : {"in", "out"}, binary : BOOLEAN, queued : BOOLEAN, rows : BOOLEAN,
             size : Nat]
Places   == {"block", "writing", "finishing", "joining", "ending", "canceling", "left"}
Outcomes == {"none", "ok", "raised"}
UserType == [at : Places, todo : Seq(Seq(Int)), exc : BOOLEAN, outcome : Outcomes]
Workers  == {"none", "get", "send", "stopped", "dead"}
Servers  == {"copying", "failed", "canceled", "done"}
CopyTyped ==
  /\ copy \in CopyType /\ user \in UserType
  /\ buffer \in Seq(Int) /\ wire \in Seq(Int) /\ data \in Seq(Int) /\ queue \in Seq(Seq(Int))
  /\ signature_sent \in BOOLEAN /\ finished \in BOOLEAN /\ lost \in BOOLEAN
  /\ worker_error \in BOOLEAN /\ worker \in Workers /\ server \in Servers
Bounded ==
  /\ (user.at = "left") = (user.outcome # "none")
  /\ worker_error = (worker = "dead")
  /\ Len(buffer) <= BufferRows /\ Len(queue) <= QueueSize

\* Where a COPY FROM may be, and what is kept for later there.
Over == {"joining", "ending", "left"}
Flagged == copy.binary => (signature_sent <=> data # <<>>)
UserHolds ==
  /\ user.at # "canceling"
  /\ user.at \notin {"writing", "finishing"} => user.todo = <<>>
  /\ user.at \notin {"block", "writing"} => buffer = <<>>
  /\ ~copy.rows => buffer = <<>>
  /\ user.at = "joining" => copy.queued
  /\ Flagged
  /\ \A i \in 1..Len(user.todo) : user.todo[i] # <<>>

\* The worker: started by the first chunk, it stops at the end of the queue, or
\* dies because the connection is lost; the block waits for that.
WorkerHolds ==
  /\ worker = "dead" => lost
  /\ ~copy.queued => queue = <<>> /\ worker = "none"
  /\ worker = "none" /\ copy.queued => user.todo = <<>> /\ \A i \in 1..Len(queue) : queue[i] = <<>>
  /\ worker = "stopped" => queue = <<>> /\ user.at \in Over
  /\ \A i \in 1..Len(queue) : queue[i] = <<>> => i = Len(queue) /\ user.at \in Over
  /\ user.at \in {"ending", "left"} => worker \in {"none", "stopped", "dead"}
  /\ user.at = "ending" => worker # "dead"

\* What the user has written so far; what ends it; what the server is to have.
Sofar  == IF copy.binary /\ data # <<>> THEN <<Signature>> \o data ELSE data
Ending == IF ~copy.binary THEN <<>>
          ELSE IF data = <<>> THEN <<Signature, Trailer>>
          ELSE IF copy.rows THEN <<Trailer>> ELSE <<>>
Stream == IF user.at \in {"block", "writing"} THEN Sofar ELSE Sofar \o Ending

\* It is on the server, in the queue, with the user, in the buffer, in this order.
Ordered == /\ lost \/ InOrder(wire, queue \o user.todo, buffer, Stream)
           /\ IsPrefix(wire, Stream)

\* How the block ends.
EndsWell ==
  /\ user.outcome = "ok" => wire = Written /\ server = "done"
  /\ user.outcome = "raised" /\ ~lost => server # "copying"

InInv == In => UserHolds /\ WorkerHolds /\ Ordered /\ EndsWell

\* What the server of a COPY TO has to send, and the user was given.
AllRows == [i \in 1..copy.size |-> i]
Full == Outgoing(copy.size, copy.binary /\ ~copy.rows, Done)
OutHolds ==
  /\ user.at \in {"block", "canceling", "left"} /\ user.todo = <<>>
  /\ worker = "none" /\ queue = <<>> /\ buffer = <<>> /\ ~copy.queued
  /\ ~(copy.rows /\ copy.binary)
  /\ user.at = "canceling" => ~finished
  /\ user.outcome = "raised" => wire = <<>>
  /\ user.at = "block" \/ user.outcome = "ok" =>
       \/ ~finished /\ data \o wire = Full
       \/ ~finished /\ data \o wire = Append(AllRows, Failed)
       \/ finished /\ wire = <<>> /\ Append(data, Done) = Full
OutInv == ~In => OutHolds

CopyInv == CopyTyped /\ Bounded /\ InInv /\ OutInv

-----------------------------------------------------------------------------
(* COPY: types                                                              *)

\* The small sequences of a COPY.
LEMMA SeqFacts ==
  /\ <<>> \in Seq(Int) /\ <<>> \in Seq(Seq(Int)) /\ <<Signature>> \in Seq(Int)
  /\ <<Trailer>> \in Seq(Int) /\ <<Signature, Trailer>> \in Seq(Int)
  /\ \A x \in Int : <<x>> \in Seq(Int)
  /\ \A s \in Seq(Int) : <<s>> \in Seq(Seq(Int))
  /\ \A s, t \in Seq(Int) : s \o t \in Seq(Int)
  /\ \A s, t \in Seq(Seq(Int)) : s \o t \in Seq(Seq(Int))
<1>1. /\ <<>> \in Seq(Int) /\ <<>> \in Seq(Seq(Int)) /\ <<Signature>> \in Seq(Int)
      /\ <<Trailer>> \in Seq(Int) /\ <<Signature, Trailer>> \in Seq(Int)
  BY DEF Signature, Trailer
<1>2. \A x \in Int : <<x>> \in Seq(Int)
  OBVIOUS
<1>3. \A s \in Seq(Int) : <<s>> \in Seq(Seq(Int))
  OBVIOUS
<1>4. \A s, t \in Seq(Int) : s \o t \in Seq(Int)
  OBVIOUS
<1>5. \A s, t \in Seq(Seq(Int)) : s \o t \in Seq(Seq(Int))
  OBVIOUS
<1> QED
  BY <1>1, <1>2, <1>3, <1>4, <1>5

\* What ends the format.
LEMMA EndingTyped ==
  ASSUME CopyTyped
  PROVE  Ending \in Seq(Int) /\ Sofar \in Seq(Int) /\ Stream \in Seq(Int)
<1>1. Ending \in Seq(Int)
  BY SeqFacts DEF Ending
<1>2. Sofar \in Seq(Int)
  BY SeqFacts DEF Sofar, CopyTyped
<1> QED
  BY <1>1, <1>2, SeqFacts DEF Stream

\* Three sequences in a row.
LEMMA Assoc ==
  ASSUME NEW s \in Seq(Int), NEW t \in Seq(Int), NEW u \in Seq(Int)
  PROVE  (s \o t) \o u = s \o (t \o u)
  BY SMTT(40)

\* EndingTyped, after a step.
LEMMA EndingTyped_ == ASSUME CopyTyped' PROVE (Ending \in Seq(Int))'
  BY EndingTyped, PTL

\* What the user has written, and the end of the format.
LEMMA WrittenIs == ASSUME CopyTyped PROVE Written = Sofar \o Ending
<1>1. \A s \in Seq(Int) : s \o <<>> = s /\ <<>> \o s = s
  OBVIOUS
<1>2. CASE ~copy.binary
  BY <1>1, <1>2 DEF Written, Sofar, Ending, CopyTyped
<1>3. CASE copy.binary /\ data = <<>>
  BY <1>1, <1>3, SeqFacts DEF Written, Sofar, Ending, CopyTyped
<1>4. CASE copy.binary /\ data # <<>>
  <2>1. \A s, t, u \in Seq(Int) : (s \o t) \o u = s \o (t \o u)
    BY SMTT(40)
  <2> QED
    BY <1>4, <2>1, SeqFacts DEF Written, Sofar, Ending, CopyTyped
<1> QED
  BY <1>2, <1>3, <1>4

\* How finish() begins: the last chunk is refused, and the block is left, or the
\* chunk is to be written, if it is not empty.
Refuses(chunk) ==
  /\ chunk # <<>> /\ Refused
  /\ user'.at = "left" /\ user'.todo = <<>> /\ user'.outcome = "raised" /\ worker' = worker
Goes(chunk) ==
  /\ ~(chunk # <<>> /\ Refused)
  /\ user'.at = "finishing" /\ user'.outcome = user.outcome
  /\ IF chunk = <<>> THEN user'.todo = <<>> /\ worker' = worker
     ELSE /\ user'.todo = <<chunk>>
          /\ worker' = IF copy.queued /\ worker = "none" THEN "get" ELSE worker

\* The end of a block is sent, or refused by the connection or the worker.
LEMMA FinishIs ==
  ASSUME CopyTyped, NEW exc \in BOOLEAN, NEW kept, NEW sent, finish(exc, kept, sent),
         NEW chunk \in Seq(Int), chunk = FormatterEnd(kept, sent)
  PROVE  /\ user' \in UserType /\ worker' \in Workers /\ buffer' = <<>>
         /\ Refuses(chunk) \/ Goes(chunk)
<1>1. CASE chunk # <<>> /\ Refused
  <2>1. user' = [user EXCEPT !.at = "left", !.todo = <<>>, !.outcome = "raised"]
        /\ worker' = worker /\ buffer' = <<>>
    BY <1>1 DEF finish, Left
  <2> QED
    BY <1>1, <2>1, SeqFacts DEF CopyTyped, UserType, Places, Outcomes, Refuses
<1>2. CASE ~(chunk # <<>> /\ Refused)
  <2> DEFINE next == IF chunk = <<>> THEN <<>> ELSE <<chunk>>
  <2>1. user' = [user EXCEPT !.at = "finishing", !.exc = exc, !.todo = next]
        /\ buffer' = <<>> /\ IF chunk = <<>> THEN worker' = worker ELSE WriterStarts
    BY <1>2 DEF finish
  <2>2. next \in Seq(Seq(Int))
    BY SeqFacts
  <2>3. user' \in UserType /\ user'.at = "finishing" /\ user'.outcome = user.outcome
        /\ user'.todo = next
    BY <2>1, <2>2 DEF CopyTyped, UserType, Places
  <2> QED
    BY <1>2, <2>1, <2>3 DEF CopyTyped, Workers, Goes, WriterStarts
<1> QED
  BY <1>1, <1>2

\* The end that the formatter makes is a chunk.
LEMMA FormatterEndTyped ==
  ASSUME CopyTyped, NEW kept \in Seq(Int), NEW sent
  PROVE  FormatterEnd(kept, sent) \in Seq(Int)
<1>1. Append(kept, Trailer) \in Seq(Int)
  BY DEF Trailer
<1> QED
  BY <1>1, SeqFacts DEF FormatterEnd

\* What the user gives to the writer, or why it does not take it.
LEMMA GivesIs ==
  ASSUME CopyTyped, NEW chunks \in Seq(Seq(Int)), NEW kept \in Seq(Int), NEW sent \in BOOLEAN,
         Gives(chunks, kept, sent)
  PROVE  /\ user' \in UserType /\ worker' \in Workers /\ buffer' \in Seq(Int)
         /\ signature_sent' = sent
         /\ \/ chunks = <<>> /\ user' = user /\ worker' = worker /\ buffer' = kept
            \/ /\ chunks # <<>> /\ ~Refused /\ buffer' = kept
               /\ user'.at = "writing" /\ user'.todo = chunks /\ user'.outcome = user.outcome
               /\ worker' = IF copy.queued /\ worker = "none" THEN "get" ELSE worker
            \/ chunks # <<>> /\ Refused /\ finish(TRUE, kept, sent)
<1>1. CASE chunks # <<>> /\ Refused
  <2>1. finish(TRUE, kept, sent) /\ signature_sent' = sent
    BY <1>1 DEF Gives
  <2> QED
    BY <1>1, <2>1, FormatterEndTyped, FinishIs, SeqFacts
<1>2. CASE chunks = <<>>
  BY <1>2 DEF Gives, CopyTyped
<1>3. CASE chunks # <<>> /\ ~Refused
  <2>1. user' = [user EXCEPT !.at = "writing", !.todo = chunks] /\ WriterStarts
        /\ buffer' = kept /\ signature_sent' = sent
    BY <1>3 DEF Gives
  <2> QED
    BY <1>3, <2>1 DEF CopyTyped, UserType, Places, Workers, WriterStarts
<1> QED
  BY <1>1, <1>2, <1>3

\* What a row makes of the buffer.
LEMMA KeptIs ==
  ASSUME CopyTyped, Len(buffer) <= BufferRows, NEW row \in Seq(Int), Len(row) > 0
  PROVE  /\ Kept(row)[1] \in Seq(Int) /\ Kept(row)[2] \in Seq(Int)
         /\ Len(Kept(row)[2]) <= BufferRows
         /\ \/ Kept(row)[1] = <<>> /\ Kept(row)[2] = buffer \o row
            \/ Kept(row)[1] = buffer \o row /\ Kept(row)[2] = <<>> /\ buffer \o row # <<>>
<1>1. PICK b \in Nat, r \in Nat : b = Len(buffer) /\ r = Len(row)
  BY DEF CopyTyped
<1>2. buffer \o row \in Seq(Int) /\ Len(buffer \o row) = b + r
  BY <1>1 DEF CopyTyped
<1>3. BufferRows \in Nat
  BY CopyAssumption
<1>4. buffer \o row # <<>>
  BY <1>1, <1>2
<1>5. CASE b + r > BufferRows
  BY <1>1, <1>2, <1>3, <1>4, <1>5, SeqFacts DEF Kept
<1>6. CASE ~(b + r > BufferRows)
  BY <1>1, <1>2, <1>3, <1>4, <1>6, SeqFacts DEF Kept
<1> QED
  BY <1>5, <1>6

\* The row that write_row() formats, and the chunks that write() sends.
LEMMA RowIs ==
  ASSUME CopyTyped, Bounded, write_row, In => UserHolds
  PROVE  \E row \in Seq(Int), kept \in Seq(Int), out \in Seq(Int) :
           /\ Sofar' = Sofar \o row /\ data' \in Seq(Int) /\ data' # <<>>
           /\ out \in Seq(Int) /\ kept \in Seq(Int) /\ Len(kept) <= BufferRows
           /\ \/ out = <<>> /\ kept = buffer \o row
              \/ out = buffer \o row /\ kept = <<>> /\ out # <<>>
           /\ Gives(IF out = <<>> THEN <<>> ELSE <<out>>, kept, copy.binary)
<1> DEFINE number == Len(data) + 1
           row == (IF copy.binary /\ ~signature_sent THEN <<Signature>> ELSE <<>>) \o <<number>>
           out == Kept(row)[1]
           kept == Kept(row)[2]
<1>1. /\ data' = Append(data, number) /\ copy' = copy
      /\ Gives(IF out = <<>> THEN <<>> ELSE <<out>>, kept, copy.binary)
  BY DEF write_row
<1>2. number \in Int /\ <<number>> \in Seq(Int)
  BY DEF CopyTyped
<1>3. row \in Seq(Int) /\ Len(row) > 0
  BY <1>2, SeqFacts
<1>4. data' \in Seq(Int) /\ data' # <<>> /\ data' = data \o <<number>>
  BY <1>1, <1>2 DEF CopyTyped
<1>5. Sofar' = Sofar \o row
  <2> HIDE DEF number
  <2>1. CASE ~copy.binary
    BY <1>1, <1>2, <1>4, <2>1 DEF Sofar
  <2>2. CASE copy.binary /\ data = <<>>
    BY <1>1, <1>2, <1>4, <2>2 DEF Sofar, UserHolds, Flagged, write_row
  <2>3. CASE copy.binary /\ data # <<>>
    <3>1. Sofar' = <<Signature>> \o (data \o <<number>>) /\ Sofar = <<Signature>> \o data
      BY <1>1, <1>4, <2>3 DEF Sofar
    <3>2. row = <<number>>
      <4>1. signature_sent
        BY <2>3 DEF UserHolds, Flagged, write_row
      <4>2. row = <<>> \o <<number>>
        BY <4>1
      <4> QED
        BY <1>2, <4>2
    <3>3. <<Signature>> \o (data \o <<number>>) = (<<Signature>> \o data) \o <<number>>
      BY <1>2, Assoc, SeqFacts DEF CopyTyped
    <3> QED
      BY <3>1, <3>2, <3>3
  <2> QED
    BY <2>1, <2>2, <2>3
<1> HIDE DEF row
<1>6. /\ out \in Seq(Int) /\ kept \in Seq(Int) /\ Len(kept) <= BufferRows
      /\ \/ out = <<>> /\ kept = buffer \o row
         \/ out = buffer \o row /\ kept = <<>> /\ buffer \o row # <<>>
  BY <1>3, KeptIs DEF Bounded
<1> HIDE DEF out, kept
<1> QED
  BY <1>1, <1>3, <1>4, <1>5, <1>6

\* A write() gives chunks, in pieces of at most the size of a buffer.
LEMMA ChunksAre ==
  ASSUME CopyTyped, write, In => UserHolds
  PROVE  \E chunks \in Seq(Seq(Int)), block \in Seq(Int) :
           /\ chunks # <<>> /\ Splits(chunks, block)
           /\ \A i \in 1..Len(chunks) : chunks[i] # <<>>
           /\ Sofar' = Sofar \o block /\ data' \in Seq(Int) /\ data' # <<>>
           /\ Gives(chunks, buffer, TRUE)
<1>0. PICK k \in Nat : k = Len(data)
  BY DEF CopyTyped
<1> DEFINE piece(i) == (IF copy.binary /\ data = <<>> /\ i = 1 THEN <<Signature>> ELSE <<>>)
                         \o <<k + i>>
<1>1. PICK n \in 1..MaxChunks : /\ data' = data \o [i \in 1..n |-> k + i]
                                /\ Gives([i \in 1..n |-> piece(i)], buffer, TRUE)
  BY <1>0 DEF write
<1> DEFINE nums == [i \in 1..n |-> k + i]
           chunks == [i \in 1..n |-> piece(i)]
           head == IF copy.binary /\ data = <<>> THEN <<Signature>> ELSE <<>>
<1>2. n \in Nat /\ n >= 1
  BY CopyAssumption
<1>3. head \in Seq(Int) /\ Len(head) \in {0, 1}
  BY SeqFacts
<1>4. nums \in Seq(Int) /\ Len(nums) = n /\ \A i \in 1..n : nums[i] = k + i
  <2>1. nums \in [1..n -> Int]
    OBVIOUS
  <2>2. nums \in Seq(Int)
    BY <1>2, <2>1, IsASeq
  <2> QED
    BY <1>2, <2>2
<1>5. \A i \in 1..n : piece(i) \in Seq(Int) /\ piece(i) # <<>>
  BY SeqFacts
<1>6. piece(1) = head \o <<k + 1>> /\ \A i \in 2..n : piece(i) = <<k + i>>
  <2>1. \A i \in 2..n : i # 1 /\ <<k + i>> \in Seq(Int)
    OBVIOUS
  <2>2. \A s \in Seq(Int) : <<>> \o s = s
    OBVIOUS
  <2> QED
    BY <2>1, <2>2
<1> HIDE DEF piece
<1>7. /\ chunks \in Seq(Seq(Int)) /\ Len(chunks) = n /\ \A i \in 1..n : chunks[i] = piece(i)
  <2>1. chunks \in [1..n -> Seq(Int)]
    BY <1>5
  <2>2. chunks \in Seq(Seq(Int))
    BY <1>2, <2>1, IsASeq
  <2> QED
    BY <1>2, <2>2
<1>8. data' = data \o nums /\ Gives(chunks, buffer, TRUE)
  BY <1>1
<1> HIDE DEF nums, chunks, head
<1>9. Splits(chunks, head \o nums)
  <2>1. 1 \in 1..n /\ \A i \in 2..n : i \in 1..n
    BY <1>2
  <2>2. chunks[1] = head \o <<k + 1>> /\ \A i \in 2..n : chunks[i] = <<k + i>>
    BY <1>6, <1>7, <2>1
  <2> HIDE DEF Splits
  <2>3. /\ n \in Nat /\ n >= 1 /\ k \in Nat /\ head \in Seq(Int) /\ Len(head) \in {0, 1}
        /\ chunks \in Seq(Seq(Int)) /\ Len(chunks) = n
    BY <1>2, <1>3, <1>7
  <2>4. nums \in Seq(Int) /\ Len(nums) = n /\ \A i \in 1..n : nums[i] = k + i
    BY <1>4
  <2> QED
    BY <2>2, <2>3, <2>4, WriteChunks
<1>10. data' \in Seq(Int) /\ data' # <<>>
  <2>1. data \in Seq(Int) /\ nums \in Seq(Int) /\ Len(nums) = n
    BY <1>4 DEF CopyTyped
  <2>2. data \o nums \in Seq(Int) /\ Len(data \o nums) = Len(data) + Len(nums)
    BY <2>1, ConcatAt
  <2>3. Len(data \o nums) = k + n
    BY <1>0, <2>1, <2>2
  <2> QED
    BY <1>2, <1>8, <2>2, <2>3
<1>11. Sofar' = Sofar \o (head \o nums)
  <2>1. copy' = copy
    BY DEF write
  <2>2. CASE ~(copy.binary /\ data = <<>>)
    <3>1. head \o nums = nums
      BY <1>4, <2>2 DEF head
    <3>2. CASE ~copy.binary
      BY <1>8, <2>1, <3>1, <3>2 DEF Sofar
    <3>3. CASE copy.binary /\ data # <<>>
      <4>1. Sofar' = <<Signature>> \o (data \o nums) /\ Sofar = <<Signature>> \o data
        BY <1>8, <1>10, <2>1, <3>3 DEF Sofar
      <4>2. data \in Seq(Int) /\ nums \in Seq(Int) /\ <<Signature>> \in Seq(Int)
        BY <1>4, SeqFacts DEF CopyTyped
      <4>3. <<Signature>> \o (data \o nums) = (<<Signature>> \o data) \o nums
        BY <4>2, Assoc
      <4> QED
        BY <3>1, <4>1, <4>3
    <3> QED
      BY <2>2, <3>2, <3>3
  <2>3. CASE copy.binary /\ data = <<>>
    <3>1. \A s \in Seq(Int) : <<>> \o s = s
      OBVIOUS
    <3>2. Sofar' = <<Signature>> \o nums /\ Sofar = <<>> /\ head = <<Signature>>
      BY <1>4, <1>8, <1>10, <2>1, <2>3, <3>1 DEF Sofar, head
    <3> QED
      BY <1>4, <3>1, <3>2, SeqFacts
  <2> QED
    BY <2>2, <2>3
<1>12. head \o nums \in Seq(Int) /\ chunks # <<>> /\ \A i \in 1..Len(chunks) : chunks[i] # <<>>
  BY <1>2, <1>3, <1>4, <1>5, <1>7
<1> QED
  BY <1>7, <1>8, <1>9, <1>10, <1>11, <1>12

\* finish() keeps the types and the bounds.
LEMMA FinishTyped ==
  ASSUME CopyTyped, Bounded, NEW exc \in BOOLEAN, NEW kept \in Seq(Int), NEW sent,
         finish(exc, kept, sent), worker_error' = worker_error, queue' = queue, user.at # "left"
  PROVE  user' \in UserType /\ worker' \in Workers /\ buffer' \in Seq(Int) /\ Bounded'
<1>1. PICK chunk \in Seq(Int) : chunk = FormatterEnd(kept, sent)
  BY FormatterEndTyped
<1>2. /\ user' \in UserType /\ worker' \in Workers /\ buffer' = <<>>
      /\ Refuses(chunk) \/ Goes(chunk)
  BY <1>1, FinishIs
<1>3. (user'.at = "left") = (user'.outcome # "none") /\ worker_error' = (worker' = "dead")
  BY <1>2, SeqFacts DEF Refuses, Goes, Bounded, CopyTyped, UserType, Outcomes
<1>4. Len(buffer') <= BufferRows
  BY <1>2, CopyAssumption
<1> QED
  BY <1>2, <1>3, <1>4, SeqFacts DEF Bounded

\* The chunks given to the writer, or refused, are what the block goes on with.
LEMMA GivesTyped ==
  ASSUME CopyTyped, Bounded, NEW chunks \in Seq(Seq(Int)), NEW kept \in Seq(Int),
         NEW sent \in BOOLEAN, Gives(chunks, kept, sent), Len(kept) <= BufferRows,
         worker_error' = worker_error, queue' = queue, user.at # "left"
  PROVE  /\ user' \in UserType /\ worker' \in Workers /\ buffer' \in Seq(Int)
         /\ signature_sent' \in BOOLEAN /\ Bounded'
<1>1. CASE chunks # <<>> /\ Refused /\ finish(TRUE, kept, sent)
  BY <1>1, GivesIs, FinishTyped
<1>2. CASE /\ chunks # <<>> /\ ~Refused /\ buffer' = kept
           /\ user'.at = "writing" /\ user'.todo = chunks /\ user'.outcome = user.outcome
           /\ worker' = IF copy.queued /\ worker = "none" THEN "get" ELSE worker
  BY <1>2, GivesIs DEF Bounded
<1>3. CASE chunks = <<>> /\ user' = user /\ worker' = worker /\ buffer' = kept
  BY <1>3, GivesIs DEF Bounded
<1> QED
  BY <1>1, <1>2, <1>3, GivesIs

\* A step of a COPY FROM that only moves a chunk or the block.
LEMMA SendsTyped ==
  ASSUME CopyTyped, NEW chunk \in Seq(Int), Sends(chunk)
  PROVE  wire' \in Seq(Int)
  BY SeqFacts DEF Sends, CopyTyped

\* write_row() and write() keep the types.
LEMMA WriteTyped ==
  ASSUME CopyTyped, Bounded, InInv, write_row \/ write
  PROVE  CopyTyped' /\ Bounded'
<1>1. /\ copy' = copy /\ finished' = finished /\ queue' = queue /\ worker_error' = worker_error
      /\ wire' = wire /\ server' = server /\ lost' = lost /\ user.at = "block" /\ In
  BY DEF write_row, write
<1>2. In => UserHolds
  BY DEF InInv
<1>3. /\ user' \in UserType /\ worker' \in Workers /\ buffer' \in Seq(Int)
      /\ signature_sent' \in BOOLEAN /\ Bounded' /\ data' \in Seq(Int)
  <2>1. CASE write_row
    <3>1. PICK row \in Seq(Int), kept \in Seq(Int), out \in Seq(Int) :
           /\ data' \in Seq(Int) /\ Len(kept) <= BufferRows
           /\ Gives(IF out = <<>> THEN <<>> ELSE <<out>>, kept, copy.binary)
      BY <1>2, <2>1, RowIs
    <3>2. (IF out = <<>> THEN <<>> ELSE <<out>>) \in Seq(Seq(Int)) /\ copy.binary \in BOOLEAN
      BY SeqFacts DEF CopyTyped, CopyType
    <3> QED
      BY <1>1, <3>1, <3>2, GivesTyped
  <2>2. CASE write
    <3>1. PICK chunks \in Seq(Seq(Int)), block \in Seq(Int) :
            data' \in Seq(Int) /\ Gives(chunks, buffer, TRUE)
      BY <1>2, <2>2, ChunksAre
    <3>2. buffer \in Seq(Int) /\ Len(buffer) <= BufferRows
      BY DEF CopyTyped, Bounded
    <3> QED
      BY <1>1, <3>1, <3>2, GivesTyped
  <2> QED
    BY <2>1, <2>2
<1> QED
  BY <1>1, <1>3 DEF CopyTyped

\* So does a chunk sent by the user,
LEMMA LibpqTyped ==
  ASSUME CopyTyped, Bounded, LibpqWriter_write
  PROVE  CopyTyped' /\ Bounded'
<1>1. /\ copy' = copy /\ finished' = finished /\ queue' = queue /\ worker_error' = worker_error
      /\ server' = server /\ lost' = lost /\ data' = data /\ signature_sent' = signature_sent
      /\ user.at \in {"writing", "finishing"} /\ user.todo # <<>>
  BY DEF LibpqWriter_write
<1>2. user.todo[1] \in Seq(Int) /\ Tail(user.todo) \in Seq(Seq(Int))
  BY <1>1 DEF CopyTyped, UserType
<1>3. /\ user' \in UserType /\ worker' \in Workers /\ buffer' \in Seq(Int) /\ wire' \in Seq(Int)
      /\ Bounded'
  <2>1. CASE Sends(user.todo[1]) /\ user' = [user EXCEPT !.todo = Tail(@)] /\ UNCHANGED <<buffer, worker>>
    <3>1. user' \in UserType /\ user'.at = user.at /\ user'.outcome = user.outcome
      BY <1>2, <2>1 DEF CopyTyped, UserType
    <3> QED
      BY <1>1, <1>2, <2>1, <3>1, SendsTyped DEF CopyTyped, Bounded
  <2>2. CASE finish(TRUE, buffer, signature_sent) /\ wire' = wire
    <3>1. buffer \in Seq(Int) /\ wire \in Seq(Int)
      BY DEF CopyTyped
    <3> QED
      BY <1>1, <2>2, <3>1, FinishTyped
  <2>3. CASE Left("raised") /\ UNCHANGED <<buffer, worker, wire>>
    BY <1>1, <2>3, SeqFacts DEF CopyTyped, Bounded, UserType, Places, Outcomes, Left
  <2> QED
    BY <2>1, <2>2, <2>3 DEF LibpqWriter_write
<1> QED
  BY <1>1, <1>3 DEF CopyTyped

\* a chunk that passes through the queue,
LEMMA QueueTyped ==
  ASSUME CopyTyped, Bounded, QueuedLibpqWriter_write \/ finish_queue \/ worker_get
  PROVE  CopyTyped' /\ Bounded'
<1>0. QueueSize \in Nat /\ Len(queue) \in Nat
  BY CopyAssumption DEF CopyTyped
<1>1. CASE QueuedLibpqWriter_write
  <2>1. user.todo[1] \in Seq(Int) /\ Tail(user.todo) \in Seq(Seq(Int)) /\ queue \in Seq(Seq(Int))
    BY <1>1 DEF CopyTyped, UserType, QueuedLibpqWriter_write
  <2>2. /\ user' = [user EXCEPT !.todo = Tail(user.todo)] /\ queue' = Append(queue, user.todo[1])
        /\ Len(queue) < QueueSize
    BY <1>1 DEF QueuedLibpqWriter_write
  <2>3. queue' \in Seq(Seq(Int)) /\ Len(queue') = Len(queue) + 1
    BY <2>1, <2>2
  <2>4. user' \in UserType /\ user'.at = user.at /\ user'.outcome = user.outcome
    BY <2>1, <2>2 DEF CopyTyped, UserType
  <2>5. Len(queue') <= QueueSize
    BY <1>0, <2>2, <2>3
  <2> QED
    BY <1>1, <2>3, <2>4, <2>5 DEF CopyTyped, Bounded, QueuedLibpqWriter_write
<1>2. CASE finish_queue
  <2>1. queue \in Seq(Seq(Int)) /\ <<>> \in Seq(Int)
    BY SeqFacts DEF CopyTyped
  <2>2. /\ user' = [user EXCEPT !.at = "joining"] /\ queue' = Append(queue, <<>>)
        /\ Len(queue) < QueueSize /\ user.at = "finishing"
    BY <1>2 DEF finish_queue
  <2>3. queue' \in Seq(Seq(Int)) /\ Len(queue') = Len(queue) + 1
    BY <2>1, <2>2
  <2>4. user' \in UserType /\ user'.at = "joining" /\ user'.outcome = user.outcome
    BY <2>2 DEF CopyTyped, UserType, Places
  <2>5. Len(queue') <= QueueSize
    BY <1>0, <2>2, <2>3
  <2> QED
    BY <1>2, <2>2, <2>3, <2>4, <2>5 DEF CopyTyped, Bounded, finish_queue
<1>3. CASE worker_get
  <2>1. queue \in Seq(Seq(Int)) /\ queue # <<>>
    BY <1>3 DEF CopyTyped, worker_get
  <2>2. queue[1] \in Seq(Int) /\ Tail(queue) \in Seq(Seq(Int)) /\ Len(Tail(queue)) = Len(queue) - 1
    BY <2>1
  <2>3. wire' \in Seq(Int) /\ worker' \in {"stopped", "send"}
    BY <1>3, <2>2, SendsTyped DEF worker_get, CopyTyped
  <2>4. Len(queue') <= QueueSize /\ queue' \in Seq(Seq(Int))
    BY <1>0, <1>3, <2>2 DEF Bounded, worker_get
  <2> QED
    BY <1>3, <2>3, <2>4 DEF CopyTyped, Bounded, worker_get, Workers
<1> QED
  BY <1>1, <1>2, <1>3

\* and whatever ends a write, a worker, a block or the connection.
LEMMA EndsTyped ==
  ASSUME CopyTyped, Bounded,
         \/ write_ends \/ worker_sent \/ exit \/ finish_join \/ finish_libpq \/ copy_end
         \/ server_fails \/ connection_lost
  PROVE  CopyTyped' /\ Bounded'
<1>1. CASE write_ends \/ finish_libpq
  <2>1. user' \in UserType /\ user'.at # "left" /\ user.at # "left" /\ user'.outcome = user.outcome
    BY <1>1 DEF write_ends, finish_libpq, CopyTyped, UserType, Places
  <2> QED
    BY <1>1, <2>1 DEF write_ends, finish_libpq, CopyTyped, Bounded
<1>2. CASE worker_sent
  BY <1>2 DEF worker_sent, CopyTyped, Bounded, Workers
<1>3. CASE exit
  <2>1. PICK exc \in BOOLEAN : finish(exc, buffer, signature_sent)
    BY <1>3 DEF exit
  <2>2. /\ UNCHANGED <<copy, signature_sent, finished, queue, worker_error, wire, server, lost, data>>
        /\ buffer \in Seq(Int) /\ user.at = "block"
    BY <1>3 DEF exit, CopyTyped
  <2>3. user' \in UserType /\ worker' \in Workers /\ buffer' \in Seq(Int) /\ Bounded'
    BY <2>1, <2>2, FinishTyped
  <2> QED
    BY <2>2, <2>3 DEF CopyTyped
<1>4. CASE finish_join
  <2>1. user' \in UserType /\ (user'.at = "left") = (user'.outcome # "none")
    <3>1. CASE Left("raised")
      BY <3>1, SeqFacts DEF CopyTyped, UserType, Places, Outcomes, Left
    <3>2. CASE user' = [user EXCEPT !.at = "ending"] /\ user.at # "left"
      BY <3>2 DEF CopyTyped, Bounded, UserType, Places, Outcomes
    <3> QED
      BY <1>4, <3>1, <3>2 DEF finish_join
  <2> QED
    BY <1>4, <2>1 DEF finish_join, CopyTyped, Bounded
<1>5. CASE copy_end
  <2>1. user' \in UserType /\ (user'.at = "left") = (user'.outcome # "none")
    BY ZenonT(60), <1>5, SeqFacts DEF copy_end, CopyTyped, Bounded, UserType, Places, Outcomes, Left
  <2>2. server' \in Servers /\ finished' \in BOOLEAN
    BY <1>5 DEF copy_end, CopyTyped, Servers
  <2> QED
    BY <1>5, <2>1, <2>2 DEF copy_end, CopyTyped, Bounded
<1>6. CASE server_fails
  BY <1>6 DEF server_fails, CopyTyped, Bounded, Servers
<1>7. CASE connection_lost
  BY <1>7 DEF connection_lost, CopyTyped, Bounded
<1> QED
  BY <1>1, <1>2, <1>3, <1>4, <1>5, <1>6, <1>7

-----------------------------------------------------------------------------
(* COPY TO                                                                  *)

\* s ends with the message that ends the COPY; before it is only data.
EndsWith(s, end) == /\ s \in Seq(Int) /\ end \in Int /\ end <= Done
                    /\ Len(s) > 0 /\ s[Len(s)] = end
                    /\ \A i \in 1..(Len(s) - 1) : s[i] > Done

\* The message after d is data, or it is the last.
LEMMA NextMessage ==
  ASSUME NEW d \in Seq(Int), NEW w \in Seq(Int), w # <<>>, NEW s, d \o w = s, NEW end, EndsWith(s, end)
  PROVE  /\ w[1] \in Int
         /\ w[1] > Done => (d \o <<w[1]>>) \o Tail(w) = s
         /\ ~(w[1] > Done) => w[1] = end /\ Tail(w) = <<>> /\ Append(d, end) = s
<1>1. PICK m \in Nat, n \in Nat : m = Len(d) /\ n = Len(w) /\ n >= 1
  OBVIOUS
<1>2. Len(s) = m + n /\ s[m + 1] = w[1] /\ w[1] \in Int
  <2>1. /\ Len(s) = m + n /\ \A j \in (m + 1)..(m + n) : s[j] = w[j - m]
    BY <1>1, ConcatAt
  <2>2. m + 1 \in (m + 1)..(m + n) /\ (m + 1) - m = 1
    BY <1>1
  <2>3. s[m + 1] = w[1]
    BY <2>1, <2>2
  <2> QED
    BY <2>1, <2>3
<1>3. d \o <<w[1]>> \in Seq(Int) /\ <<w[1]>> \in Seq(Int) /\ Tail(w) \in Seq(Int)
      /\ w = <<w[1]>> \o Tail(w)
  BY <1>2
<1>4. (d \o <<w[1]>>) \o Tail(w) = s
  <2>1. (d \o <<w[1]>>) \o Tail(w) = d \o (<<w[1]>> \o Tail(w))
    BY <1>3, Assoc
  <2> QED
    BY <1>3, <2>1
<1>5. ASSUME ~(w[1] > Done)
      PROVE  w[1] = end /\ Tail(w) = <<>> /\ Append(d, end) = s
  <2>1. m + 1 \in 1..(m + n) /\ (m + 1 \in 1..((m + n) - 1) \/ m + 1 = m + n)
    BY <1>1
  <2>2. m + 1 = m + n
    BY <1>2, <1>5, <2>1 DEF EndsWith
  <2>a. n = 1
    BY <2>2
  <2>b. s[m + n] = end
    BY <1>2 DEF EndsWith
  <2>3. w[1] = end
    BY <1>2, <2>2, <2>b
  <2>4. Tail(w) = <<>>
    <3>1. Len(w) = 1
      BY <1>1, <2>a
    <3>2. Tail(w) \in Seq(Int) /\ Len(Tail(w)) = 0
      BY <3>1
    <3>3. PICK t : t = Tail(w)
      OBVIOUS
    <3>4. t \in Seq(Int) /\ Len(t) = 0
      BY <3>2, <3>3
    <3>5. t = <<>>
      BY <3>4
    <3> QED
      BY <3>3, <3>5
  <2>5. s = d \o <<w[1]>>
    <3>1. PICK x \in Seq(Int) : x = d \o <<w[1]>>
      BY <1>3
    <3>2. s = x \o <<>>
      BY <1>4, <2>4, <3>1
    <3> QED
      BY <3>1, <3>2
  <2> QED
    BY SMTT(20), <1>2, <2>3, <2>4, <2>5
<1> QED
  BY <1>2, <1>4, <1>5

\* What the server sends has its last message once, at its end.
LEMMA FullEnds ==
  ASSUME CopyTyped
  PROVE  EndsWith(Full, Done) /\ EndsWith(Append(AllRows, Failed), Failed)
<1>1. PICK n \in Nat : n = copy.size
  BY DEF CopyTyped, CopyType
<1> DEFINE r == [i \in 1..n |-> i]
<1>2. r \in Seq(Int) /\ Len(r) = n /\ \A i \in 1..n : r[i] = i
  <2>1. r \in [1..n -> Int]
    OBVIOUS
  <2>2. r \in Seq(Int)
    BY <2>1, IsASeq
  <2> QED
    BY <2>2
<1> DEFINE B == copy.binary /\ ~copy.rows
<1>3. Full = (IF B THEN <<Signature>> ELSE <<>>) \o r \o (IF B THEN <<Trailer>> ELSE <<>>) \o <<Done>>
      /\ AllRows = r
  BY <1>1 DEF Full, Outgoing, AllRows
<1>4. Signature = 0 /\ Trailer = -1 /\ Done = -2 /\ Failed = -3
  BY DEF Signature, Trailer, Done, Failed
<1> HIDE DEF r
<1>5. EndsWith(Append(r, Failed), Failed)
  <2>1. /\ Append(r, -3) \in Seq(Int) /\ Len(Append(r, -3)) = n + 1 /\ Append(r, -3)[n + 1] = -3
        /\ \A i \in 1..n : Append(r, -3)[i] = r[i]
    BY <1>2
  <2>2. (n + 1) - 1 = n /\ \A i \in 1..n : i > -2
    OBVIOUS
  <2> QED
    BY <1>2, <1>4, <2>1, <2>2 DEF EndsWith
<1>6. CASE ~B
  <2>1. Full = <<>> \o r \o <<>> \o <<-2>>
    BY <1>3, <1>4, <1>6
  <2>2. <<>> \o r \o <<>> = r
    BY <1>2
  <2>3. Full = r \o <<-2>>
    BY <2>1, <2>2
  <2>4. /\ Full \in Seq(Int) /\ Len(Full) = n + 1 /\ Full[n + 1] = -2
        /\ \A i \in 1..n : Full[i] = r[i]
    BY <1>2, <2>3
  <2>5. (n + 1) - 1 = n /\ \A i \in 1..n : i > -2
    OBVIOUS
  <2> QED
    BY <1>2, <1>3, <1>4, <1>5, <2>4, <2>5 DEF EndsWith
<1>7. CASE B
  <2>1. Full = <<0>> \o r \o <<-1>> \o <<-2>>
    BY <1>3, <1>4, <1>7
  <2>2. /\ <<0>> \o r \in Seq(Int) /\ Len(<<0>> \o r) = n + 1 /\ \A i \in 1..(n + 1) : (<<0>> \o r)[i] > -2
    <3>1. <<0>> \in Seq(Int) /\ Len(<<0>>) = 1 /\ <<0>>[1] = 0
      OBVIOUS
    <3>2. /\ <<0>> \o r \in Seq(Int) /\ Len(<<0>> \o r) = 1 + n
          /\ \A j \in 1..1 : (<<0>> \o r)[j] = <<0>>[j]
          /\ \A j \in (1 + 1)..(1 + n) : (<<0>> \o r)[j] = r[j - 1]
      BY <1>2, <3>1, ConcatAt
    <3>3. \A i \in 1..(n + 1) : (i \in 1..1 /\ i = 1) \/ (i \in (1 + 1)..(1 + n) /\ i - 1 \in 1..n /\ i - 1 > -2)
      OBVIOUS
    <3>4. (<<0>> \o r)[1] = 0
      BY <3>1, <3>2
    <3>5. \A i \in (1 + 1)..(1 + n) : i - 1 \in 1..n => (<<0>> \o r)[i] = i - 1
      <4> TAKE i \in (1 + 1)..(1 + n)
      <4>1. (<<0>> \o r)[i] = r[i - 1]
        BY <3>2
      <4>2. \A k \in 1..n : r[k] = k
        BY <1>2
      <4> QED
        BY <4>1, <4>2
    <3> HIDE DEF r
    <3>6. ASSUME NEW i \in 1..(n + 1) PROVE (<<0>> \o r)[i] > -2
      <4>1. CASE i \in (1 + 1)..(1 + n) /\ i - 1 \in 1..n /\ i - 1 > -2
        <5>1. (<<0>> \o r)[i] = i - 1
          BY <3>5, <4>1
        <5> QED
          BY <4>1, <5>1
      <4>2. CASE i = 1
        BY <3>4, <4>2
      <4> QED
        BY <3>3, <4>1, <4>2
    <3> QED
      BY <3>2, <3>6
  <2>3. PICK q \in Seq(Int) : q = <<0>> \o r
    BY <2>2
  <2>4. /\ q \o <<-1>> \in Seq(Int) /\ Len(q \o <<-1>>) = n + 2 /\ (q \o <<-1>>)[n + 2] = -1
        /\ \A i \in 1..(n + 1) : (q \o <<-1>>)[i] = q[i]
    BY <2>2, <2>3
  <2>5. PICK t \in Seq(Int) : t = q \o <<-1>>
    BY <2>4
  <2>6. \A i \in 1..(n + 2) : i \in 1..(n + 1) \/ i = n + 2
    OBVIOUS
  <2>7. Len(t) = n + 2 /\ \A i \in 1..(n + 2) : t[i] > -2
    BY <2>2, <2>3, <2>4, <2>5, <2>6
  <2>8. Full = t \o <<-2>>
    BY <2>1, <2>3, <2>5
  <2>9. /\ Full \in Seq(Int) /\ Len(Full) = n + 3 /\ Full[n + 3] = -2
        /\ \A i \in 1..(n + 2) : Full[i] = t[i]
    BY <2>7, <2>8
  <2>10. (n + 3) - 1 = n + 2
    OBVIOUS
  <2>11. \A i \in 1..(n + 2) : Full[i] > -2
    BY <2>7, <2>9
  <2>12. Len(Full) - 1 = n + 2 /\ Len(Full) > 0 /\ Full[Len(Full)] = -2 /\ Full \in Seq(Int)
    BY <2>9, <2>10
  <2>13. \A i \in 1..(Len(Full) - 1) : Full[i] > -2
    BY <2>11, <2>12
  <2> HIDE DEF Full
  <2>14. EndsWith(Full, Done)
    BY <1>4, <2>12, <2>13 DEF EndsWith
  <2> QED
    BY <1>3, <1>5, <2>14
<1> QED
  BY <1>6, <1>7

\* A block that is over.
LEMMA LeftTyped ==
  ASSUME CopyTyped, NEW outcome \in {"ok", "raised"}, Left(outcome)
  PROVE  /\ user' \in UserType /\ user'.at = "left" /\ user'.todo = <<>>
         /\ user'.outcome = outcome
  BY SeqFacts DEF Left, CopyTyped, UserType, Places, Outcomes

\* The messages of a COPY TO are given to the user in order, up to the last.
LEMMA MessageStep ==
  ASSUME CopyTyped, Bounded, OutHolds, user.at = "block", ~finished, wire # <<>>,
         Message(wire[1], <<wire[1]>>), wire' = Tail(wire), signature_sent' \in BOOLEAN,
         UNCHANGED <<copy, buffer, queue, worker, worker_error, server, lost>>
  PROVE  CopyTyped' /\ Bounded' /\ OutHolds'
<1>1. \/ data \o wire = Full
      \/ data \o wire = Append(AllRows, Failed)
  BY DEF OutHolds
<1>2. Full' = Full /\ AllRows' = AllRows
  BY DEF Full, AllRows
<1>3. EndsWith(Full, Done) /\ EndsWith(Append(AllRows, Failed), Failed)
  BY FullEnds
<1>4. data \in Seq(Int) /\ wire \in Seq(Int)
  BY DEF CopyTyped
<1>5. wire[1] \in Int /\ data \o <<wire[1]>> \in Seq(Int) /\ Tail(wire) \in Seq(Int)
  BY <1>4
<1>6. CASE wire[1] > Done
  <2>1. data' = data \o <<wire[1]>> /\ finished' = finished /\ user' = user
    BY <1>6 DEF Message, IsData
  <2>2. /\ data \o wire = Full => data' \o wire' = Full
        /\ data \o wire = Append(AllRows, Failed) => data' \o wire' = Append(AllRows, Failed)
    BY <1>3, <1>4, <1>6, <2>1, NextMessage
  <2>3. CopyTyped' /\ Bounded'
    BY <1>5, <2>1 DEF CopyTyped, Bounded
  <2> HIDE DEF Full, AllRows
  <2>4. ~finished' /\ (data' \o wire' = Full' \/ data' \o wire' = Append(AllRows', Failed))
    BY <1>1, <1>2, <2>1, <2>2
  <2>5. /\ user'.at = "block" /\ user'.outcome = "none" /\ user'.todo = <<>>
        /\ worker' = "none" /\ queue' = <<>> /\ buffer' = <<>> /\ copy' = copy
        /\ ~copy.queued /\ ~(copy.rows /\ copy.binary)
    BY <2>1 DEF OutHolds, Bounded
  <2> QED
    BY <2>3, <2>4, <2>5 DEF OutHolds
<1>7. CASE ~(wire[1] > Done) /\ data \o wire = Full
  <2>1. wire[1] = Done /\ Tail(wire) = <<>> /\ Append(data, Done) = Full
    BY <1>3, <1>4, <1>7, NextMessage
  <2>2. finished' = TRUE /\ data' = data /\ user' = user
    BY <1>7, <2>1 DEF Message, IsData
  <2>3. CopyTyped' /\ Bounded'
    BY <1>5, <2>2 DEF CopyTyped, Bounded
  <2> HIDE DEF Full, AllRows
  <2>4. finished' /\ wire' = <<>> /\ Append(data', Done) = Full'
    BY <1>2, <2>1, <2>2
  <2>5. /\ user'.at = "block" /\ user'.outcome = "none" /\ user'.todo = <<>>
        /\ worker' = "none" /\ queue' = <<>> /\ buffer' = <<>> /\ copy' = copy
        /\ ~copy.queued /\ ~(copy.rows /\ copy.binary)
    BY <2>2 DEF OutHolds, Bounded
  <2>6. \/ ~finished' /\ data' \o wire' = Full'
        \/ ~finished' /\ data' \o wire' = Append(AllRows', Failed)
        \/ finished' /\ wire' = <<>> /\ Append(data', Done) = Full'
    BY <2>4
  <2>7. OutHolds'
    BY <2>5, <2>6, ZenonT(40) DEF OutHolds
  <2> QED
    BY <2>3, <2>7
<1>8. CASE ~(wire[1] > Done) /\ data \o wire = Append(AllRows, Failed)
  <2>0. PICK all, end : all = Append(AllRows, Failed) /\ end = Failed
    OBVIOUS
  <2>a. wire[1] = end /\ Tail(wire) = <<>>
    <3>1. EndsWith(all, end) /\ data \o wire = all
      BY <1>3, <1>8, <2>0
    <3> QED
      BY ZenonT(60), <1>4, <1>8, <3>1, NextMessage
  <2>1. wire[1] = Failed /\ Tail(wire) = <<>> /\ Failed # Done
    BY <2>0, <2>a DEF Failed, Done
  <2>2. data' = data /\ finished' = finished /\ Left("raised")
    BY <1>8, <2>1 DEF Message, IsData
  <2>3. /\ user' \in UserType /\ user'.at = "left" /\ user'.todo = <<>>
        /\ user'.outcome = "raised"
    BY <2>2, LeftTyped
  <2>4. CopyTyped' /\ Bounded'
    BY <1>5, <2>2, <2>3 DEF CopyTyped, Bounded
  <2>5. /\ worker' = "none" /\ queue' = <<>> /\ buffer' = <<>> /\ copy' = copy
        /\ ~copy.queued /\ ~(copy.rows /\ copy.binary) /\ wire' = <<>>
    BY <2>1 DEF OutHolds
  <2> QED
    BY <2>3, <2>4, <2>5 DEF OutHolds
<1> QED
  BY <1>1, <1>6, <1>7, <1>8

\* A COPY TO, step by step: what the server sends is read to its end.
LEMMA OutStep ==
  ASSUME CopyTyped, Bounded, ~In, OutHolds, CopyNext
  PROVE  CopyTyped' /\ Bounded' /\ ~In' /\ OutHolds'
<1>0. read \/ read_row \/ exit_out \/ end_copy_out
  <2>1. ~(write_row \/ write \/ exit \/ copy_end \/ server_fails \/ connection_lost)
    BY DEF write_row, write, exit, copy_end, server_fails, connection_lost
  <2>2. ~(LibpqWriter_write \/ QueuedLibpqWriter_write \/ write_ends)
    BY DEF OutHolds, LibpqWriter_write, QueuedLibpqWriter_write, write_ends
  <2>3. ~(finish_queue \/ finish_join \/ finish_libpq \/ worker_get \/ worker_sent)
    BY DEF OutHolds, finish_queue, finish_join, finish_libpq, worker_get, worker_sent
  <2> QED
    BY <2>1, <2>2, <2>3 DEF CopyNext, Leaving, CopyWorker
<1>1. copy' = copy /\ ~In'
  BY <1>0 DEF read, read_row, exit_out, end_copy_out, In
<1>2. CASE read
  BY <1>1, <1>2, MessageStep DEF read, CopyTyped
<1>3. CASE read_row
  <2>1. ~copy.binary
    BY <1>3 DEF read_row, OutHolds, CopyTyped, CopyType
  <2>2. /\ wire' = Tail(wire) /\ Message(wire[1], <<wire[1]>>) /\ signature_sent' = signature_sent
        /\ UNCHANGED <<copy, buffer, queue, worker, worker_error, server, lost>>
        /\ user.at = "block" /\ ~finished /\ wire # <<>>
    BY <1>3, <2>1 DEF read_row
  <2> QED
    BY <1>1, <2>2, MessageStep DEF CopyTyped
<1>4. CASE exit_out
  <2>1. UNCHANGED <<copy, buffer, signature_sent, finished, queue, worker, worker_error, lost, data>>
        /\ user.at = "block" /\ user.outcome = "none"
    BY <1>4 DEF exit_out, Bounded
  <2>a. Full' = Full /\ AllRows' = AllRows
    BY <2>1 DEF Full, AllRows
  <2>b. /\ worker' = "none" /\ queue' = <<>> /\ buffer' = <<>> /\ copy' = copy
        /\ ~copy.queued /\ ~(copy.rows /\ copy.binary) /\ user.todo = <<>>
    BY <2>1 DEF OutHolds
  <2>2. CASE Left("ok") /\ UNCHANGED <<server, wire>>
    <3>1. /\ user' \in UserType /\ user'.at = "left" /\ user'.todo = <<>>
          /\ user'.outcome = "ok"
      BY <2>2, LeftTyped
    <3>2. CopyTyped' /\ Bounded'
      BY <2>1, <2>2, <3>1 DEF CopyTyped, Bounded
    <3> HIDE DEF Full, AllRows
    <3>3. \/ ~finished' /\ data' \o wire' = Full'
          \/ ~finished' /\ data' \o wire' = Append(AllRows', Failed)
          \/ finished' /\ wire' = <<>> /\ Append(data', Done) = Full'
      BY <2>1, <2>2, <2>a DEF OutHolds
    <3> QED
      BY <1>1, <2>b, <3>1, <3>2, <3>3 DEF OutHolds
  <2>3. CASE ~Active /\ Left("raised") /\ UNCHANGED <<server, wire>>
    <3>1. /\ user' \in UserType /\ user'.at = "left" /\ user'.todo = <<>>
          /\ user'.outcome = "raised" /\ wire' = <<>>
      BY <2>3, LeftTyped DEF Active
    <3>2. CopyTyped' /\ Bounded'
      BY <2>1, <2>3, <3>1 DEF CopyTyped, Bounded
    <3> QED
      BY <1>1, <2>b, <3>1, <3>2 DEF OutHolds
  <2>4. CASE Active /\ user' = [user EXCEPT !.at = "canceling"]
    <3>1. /\ user' \in UserType /\ user'.at = "canceling" /\ user'.todo = <<>>
          /\ user'.outcome = "none"
      BY <2>1, <2>4, <2>b DEF CopyTyped, UserType, Places
    <3>2. wire' \in Seq(Int) /\ server' \in Servers
      <4>1. CASE UNCHANGED <<server, wire>>
        BY <4>1 DEF CopyTyped
      <4>2. CASE /\ server' = "canceled"
                 /\ \E n \in 0..(Len(wire) - 1) : wire' = Append(SubSeq(wire, 1, n), Canceled)
        <5>1. PICK n \in 0..(Len(wire) - 1) : wire' = Append(SubSeq(wire, 1, n), Canceled)
          BY <4>2
        <5>2. wire \in Seq(Int) /\ Canceled \in Int /\ n \in Nat /\ n <= Len(wire)
          BY DEF CopyTyped, Canceled
        <5>3. SubSeq(wire, 1, n) \in Seq(Int)
          BY <5>2
        <5> QED
          BY <4>2, <5>1, <5>2, <5>3 DEF Servers
      <4> QED
        BY <1>4, <2>4, <4>1, <4>2 DEF exit_out, Left, CopyTyped, UserType
    <3>3. CopyTyped' /\ Bounded'
      BY <2>1, <2>4, <3>1, <3>2 DEF CopyTyped, Bounded
    <3>4. ~finished'
      BY <2>1, <2>4 DEF OutHolds, Active
    <3> QED
      BY <1>1, <2>b, <3>1, <3>3, <3>4 DEF OutHolds
  <2> QED
    BY <1>4, <2>2, <2>3, <2>4 DEF exit_out
<1>5. CASE end_copy_out
  <2>1. /\ UNCHANGED <<copy, buffer, signature_sent, queue, worker, worker_error, server, lost, data>>
        /\ Left("raised") /\ wire' = CopyDrained /\ finished' \in BOOLEAN /\ user.at = "canceling"
    BY <1>5 DEF end_copy_out, CopyTyped
  <2>2. wire' = <<>>
    BY <2>1 DEF CopyDrained, OutHolds
  <2>3. /\ user' \in UserType /\ user'.at = "left" /\ user'.todo = <<>>
        /\ user'.outcome = "raised"
    BY <2>1, LeftTyped
  <2>4. CopyTyped' /\ Bounded'
    BY <2>1, <2>2, <2>3, SeqFacts DEF CopyTyped, Bounded
  <2>b. /\ worker' = "none" /\ queue' = <<>> /\ buffer' = <<>> /\ copy' = copy
        /\ ~copy.queued /\ ~(copy.rows /\ copy.binary)
    BY <2>1 DEF OutHolds
  <2> HIDE DEF Full, AllRows
  <2>5. OutHolds'
    BY <2>2, <2>3, <2>b DEF OutHolds
  <2> QED
    BY <2>4, <2>5, <1>1
<1> QED
  BY <1>0, <1>1, <1>2, <1>3, <1>4, <1>5

-----------------------------------------------------------------------------
(* COPY FROM: the user and the worker                                       *)

\* The user and the worker, when a block ends with a last chunk.
LEMMA FinishHolds ==
  ASSUME CopyTyped, Bounded, UserHolds, WorkerHolds, user.at \in {"block", "writing"},
         NEW exc \in BOOLEAN, NEW kept \in Seq(Int), NEW sent, finish(exc, kept, sent),
         UNCHANGED <<copy, queue, lost, worker_error>>,
         Flagged'
  PROVE  UserHolds' /\ WorkerHolds'
<1>1. PICK chunk \in Seq(Int) : chunk = FormatterEnd(kept, sent)
  BY FormatterEndTyped
<1>2. buffer' = <<>> /\ (Refuses(chunk) \/ Goes(chunk))
  BY <1>1, FinishIs
<1>3. user'.todo = <<>> \/ (user'.todo = <<chunk>> /\ chunk # <<>>)
  BY <1>2 DEF Refuses, Goes
<1>4. \A i \in 1..Len(user'.todo) : user'.todo[i] # <<>>
  BY <1>3
<1>5. UserHolds'
  BY <1>2, <1>4 DEF UserHolds, Flagged, Refuses, Goes
<1>6. CASE Refuses(chunk)
  <2>1. worker' = "dead" /\ copy.queued /\ user'.at = "left" /\ worker = "dead"
    BY <1>6 DEF Refuses, Refused, Bounded
  <2> QED
    BY <1>5, <2>1 DEF WorkerHolds, Over
<1>7. CASE Goes(chunk)
  <2>1. /\ user'.at = "finishing" /\ worker' \in {worker, "get"}
        /\ worker' # worker => copy.queued
        /\ worker' = "none" /\ copy.queued => user'.todo = <<>> /\ worker = "none"
    BY <1>7 DEF Goes
  <2> QED
    BY <1>5, <2>1 DEF WorkerHolds, Over
<1> QED
  BY <1>2, <1>6, <1>7

\* ... when chunks are given to the writer.
LEMMA GivesHolds ==
  ASSUME CopyTyped, Bounded, UserHolds, WorkerHolds, user.at = "block",
         NEW chunks \in Seq(Seq(Int)), NEW kept \in Seq(Int), NEW sent \in BOOLEAN,
         Gives(chunks, kept, sent), \A i \in 1..Len(chunks) : chunks[i] # <<>>,
         ~copy.rows => kept = <<>>,
         UNCHANGED <<copy, queue, lost, worker_error>>,
         copy.binary => sent, copy.binary => data' # <<>>
  PROVE  UserHolds' /\ WorkerHolds'
<1>1. signature_sent' = sent
  BY DEF Gives
<1>2. CASE chunks # <<>> /\ Refused /\ finish(TRUE, kept, sent)
  <2>1. Flagged' /\ user.at \in {"block", "writing"}
    BY <1>1 DEF Flagged
  <2> QED
    BY <1>2, <2>1, FinishHolds
<1>3. CASE /\ chunks # <<>> /\ ~Refused /\ buffer' = kept
           /\ user'.at = "writing" /\ user'.todo = chunks /\ user'.outcome = user.outcome
           /\ worker' = IF copy.queued /\ worker = "none" THEN "get" ELSE worker
  BY <1>1, <1>3 DEF UserHolds, Flagged, WorkerHolds, Over
<1>4. CASE chunks = <<>> /\ user' = user /\ worker' = worker /\ buffer' = kept
  BY <1>1, <1>4 DEF UserHolds, Flagged, WorkerHolds
<1> QED
  BY <1>2, <1>3, <1>4, GivesIs

\* ... when rows or a block are written.
LEMMA WriteHolds ==
  ASSUME CopyTyped, Bounded, In, UserHolds, WorkerHolds, write_row \/ write
  PROVE  UserHolds' /\ WorkerHolds'
<1>1. user.at = "block" /\ UNCHANGED <<copy, queue, lost, worker_error>>
  BY DEF write_row, write
<1>2. CASE write_row
  <2>1. PICK row \in Seq(Int), kept \in Seq(Int), out \in Seq(Int) :
          /\ data' # <<>> /\ Gives(IF out = <<>> THEN <<>> ELSE <<out>>, kept, copy.binary)
    BY <1>2, RowIs
  <2> DEFINE chunks == IF out = <<>> THEN <<>> ELSE <<out>>
  <2>2. chunks \in Seq(Seq(Int)) /\ \A i \in 1..Len(chunks) : chunks[i] # <<>>
    BY SeqFacts
  <2>3. Gives(chunks, kept, copy.binary) /\ copy.rows /\ copy.binary \in BOOLEAN
    BY <1>2, <2>1 DEF write_row, CopyTyped, CopyType
  <2> HIDE DEF chunks
  <2> QED
    BY <1>1, <2>1, <2>2, <2>3, GivesHolds
<1>3. CASE write
  <2>1. PICK chunks \in Seq(Seq(Int)), block \in Seq(Int) :
           /\ \A i \in 1..Len(chunks) : chunks[i] # <<>>
           /\ data' # <<>> /\ Gives(chunks, buffer, TRUE)
    BY <1>3, ChunksAre
  <2>2. buffer \in Seq(Int) /\ (~copy.rows => buffer = <<>>)
    BY DEF CopyTyped, UserHolds, Flagged
  <2> QED
    BY <1>1, <2>1, <2>2, GivesHolds
<1> QED
  BY <1>2, <1>3

\* What is left of the chunks when one is gone.
LEMMA TailOf ==
  ASSUME NEW cs \in Seq(Seq(Int)), cs # <<>>
  PROVE  /\ cs[1] \in Seq(Int) /\ Tail(cs) \in Seq(Seq(Int)) /\ Len(Tail(cs)) = Len(cs) - 1
         /\ Len(cs) \in Nat /\ Len(cs) >= 1
         /\ \A i \in 1..Len(Tail(cs)) : Tail(cs)[i] = cs[i + 1] /\ i + 1 \in 1..Len(cs)
  OBVIOUS

\* ... when the user sends a chunk: there is no worker in libpq.
LEMMA LibpqHolds ==
  ASSUME CopyTyped, Bounded, UserHolds, WorkerHolds, LibpqWriter_write
  PROVE  UserHolds' /\ WorkerHolds'
<1>1. /\ UNCHANGED <<copy, signature_sent, finished, queue, worker_error, server, lost, data>>
      /\ user.at \in {"writing", "finishing"} /\ user.todo # <<>> /\ ~copy.queued
  BY DEF LibpqWriter_write
<1>2. CASE user' = [user EXCEPT !.todo = Tail(@)] /\ UNCHANGED <<buffer, worker>>
  <2>1. user.todo \in Seq(Seq(Int))
    BY DEF CopyTyped, UserType
  <2>2. user'.todo = Tail(user.todo) /\ user'.at = user.at
    BY <1>2 DEF CopyTyped, UserType
  <2>3. \A i \in 1..Len(user'.todo) : user'.todo[i] # <<>>
    BY <1>1, <2>1, <2>2, TailOf DEF UserHolds, Flagged
  <2>4. UserHolds'
    BY <1>1, <1>2, <2>2, <2>3 DEF UserHolds, Flagged
  <2>5. WorkerHolds'
    BY <1>1, <1>2, <2>2 DEF WorkerHolds
  <2> QED
    BY <2>4, <2>5
<1>3. CASE user.at = "writing" /\ finish(TRUE, buffer, signature_sent)
  <2>1. buffer \in Seq(Int) /\ Flagged'
    BY <1>1 DEF CopyTyped, UserHolds, Flagged
  <2> QED
    BY <1>1, <1>3, <2>1, FinishHolds
<1>4. CASE Left("raised") /\ UNCHANGED <<buffer, worker>> /\ user.at = "finishing"
  <2>1. user'.at = "left" /\ user'.todo = <<>>
    BY <1>4, LeftTyped
  <2> QED
    BY <1>1, <1>4, <2>1 DEF UserHolds, Flagged, WorkerHolds, Over
<1> QED
  BY <1>1, <1>2, <1>3, <1>4 DEF LibpqWriter_write

\* ... when a chunk goes into the queue or out of it.
LEMMA QueueHolds ==
  ASSUME CopyTyped, Bounded, UserHolds, WorkerHolds,
         QueuedLibpqWriter_write \/ finish_queue \/ worker_get
  PROVE  UserHolds' /\ WorkerHolds'
<1>0. queue \in Seq(Seq(Int)) /\ user.todo \in Seq(Seq(Int)) /\ Len(queue) \in Nat
  BY DEF CopyTyped, UserType
<1>1. CASE QueuedLibpqWriter_write
  <2>1. /\ UNCHANGED <<copy, buffer, signature_sent, worker, lost, data>>
        /\ user.at \in {"writing", "finishing"} /\ user.todo # <<>> /\ copy.queued
        /\ queue' = Append(queue, user.todo[1])
    BY <1>1 DEF QueuedLibpqWriter_write
  <2>2. user'.todo = Tail(user.todo) /\ user'.at = user.at
    BY <1>1 DEF CopyTyped, UserType, QueuedLibpqWriter_write
  <2>3. \A i \in 1..Len(user'.todo) : user'.todo[i] # <<>>
    BY <1>0, <2>1, <2>2, TailOf DEF UserHolds, Flagged
  <2>4. UserHolds'
    BY <2>1, <2>2, <2>3 DEF UserHolds, Flagged
  <2>5. user.todo[1] # <<>> /\ user.todo[1] \in Seq(Int)
    BY <1>0, <2>1 DEF UserHolds, Flagged
  <2>6. \A i \in 1..Len(queue') : queue'[i] # <<>>
    <3>1. \A i \in 1..Len(queue) : queue[i] # <<>>
      BY <2>1 DEF WorkerHolds, Over
    <3> QED
      BY <1>0, <2>1, <2>5, <3>1
  <2>7. worker \notin {"none", "stopped"}
    BY <2>1 DEF WorkerHolds, Over
  <2>8. WorkerHolds'
    BY <2>1, <2>2, <2>6, <2>7 DEF WorkerHolds
  <2> QED
    BY <2>4, <2>8
<1>2. CASE finish_queue
  <2>1. /\ UNCHANGED <<copy, buffer, signature_sent, worker, lost, data>>
        /\ user.at = "finishing" /\ user.todo = <<>> /\ copy.queued
        /\ queue' = Append(queue, <<>>)
    BY <1>2 DEF finish_queue
  <2>2. user'.todo = <<>> /\ user'.at = "joining"
    BY <1>2, <2>1 DEF CopyTyped, UserType, finish_queue
  <2>4. UserHolds'
    BY <2>1, <2>2 DEF UserHolds, Flagged
  <2>5. \A i \in 1..Len(queue) : queue[i] # <<>>
    BY <2>1 DEF WorkerHolds, Over
  <2>6. \A i \in 1..Len(queue') : queue'[i] = <<>> => i = Len(queue')
    BY <1>0, <2>1, <2>5, SeqFacts
  <2>7. worker = "none" => \A i \in 1..Len(queue') : queue'[i] = <<>>
    <3> SUFFICES ASSUME worker = "none" PROVE \A i \in 1..Len(queue') : queue'[i] = <<>>
      OBVIOUS
    <3>1. \A i \in 1..Len(queue) : queue[i] = <<>>
      BY <2>1 DEF WorkerHolds
    <3> QED
      BY <1>0, <2>1, <3>1, SeqFacts
  <2>8. worker # "stopped"
    BY <2>1 DEF WorkerHolds, Over
  <2>9. WorkerHolds'
    BY <2>1, <2>2, <2>6, <2>7, <2>8 DEF WorkerHolds, Over
  <2> QED
    BY <2>4, <2>9
<1>3. CASE worker_get
  <2>1. /\ UNCHANGED <<copy, buffer, signature_sent, lost, data, user>>
        /\ worker = "get" /\ queue # <<>> /\ queue' = Tail(queue)
        /\ IF queue[1] = <<>> THEN worker' = "stopped" ELSE worker' = "send"
    BY <1>3 DEF worker_get
  <2>2. UserHolds'
    BY <2>1 DEF UserHolds, Flagged
  <2>3. \A i \in 1..Len(queue') : queue'[i] = queue[i + 1] /\ i + 1 \in 1..Len(queue)
    BY <1>0, <2>1, TailOf
  <2>4. Len(queue') = Len(queue) - 1 /\ queue' \in Seq(Seq(Int)) /\ 1 \in 1..Len(queue)
    BY <1>0, <2>1, TailOf
  <2>5. \A i \in 1..Len(queue') : queue'[i] = <<>> => i = Len(queue') /\ user.at \in Over
    <3> SUFFICES ASSUME NEW i \in 1..Len(queue'), queue'[i] = <<>>
                 PROVE  i = Len(queue') /\ user.at \in Over
      OBVIOUS
    <3>1. i + 1 = Len(queue) /\ user.at \in Over
      BY <2>3 DEF WorkerHolds
    <3> QED
      BY <1>0, <2>4, <3>1
  <2>6. queue[1] = <<>> => queue' = <<>> /\ user.at \in Over
    <3> SUFFICES ASSUME queue[1] = <<>> PROVE queue' = <<>> /\ user.at \in Over
      OBVIOUS
    <3>1. 1 = Len(queue) /\ user.at \in Over
      BY <2>4 DEF WorkerHolds
    <3>2. Len(queue') = 0
      <4>1. PICK n \in Nat, m \in Nat : n = Len(queue) /\ m = Len(queue') /\ m = n - 1
        BY <1>0, <2>4
      <4>2. n = 1
        BY <3>1, <4>1
      <4>3. m = 0
        BY <4>1, <4>2
      <4> QED
        BY <4>1, <4>3
    <3> QED
      BY <2>4, <3>1, <3>2
  <2>7. copy.queued /\ user.at \notin {"ending", "left"}
    BY <2>1 DEF WorkerHolds, CopyTyped, CopyType
  <2>8. WorkerHolds'
    BY <2>1, <2>5, <2>6, <2>7 DEF WorkerHolds
  <2> QED
    BY <2>2, <2>8
<1> QED
  BY <1>1, <1>2, <1>3

\* ... when a write, the worker, the block or the connection ends.
LEMMA EndsHolds ==
  ASSUME CopyTyped, Bounded, UserHolds, WorkerHolds,
         \/ write_ends \/ worker_sent \/ exit \/ finish_join \/ finish_libpq \/ copy_end
         \/ server_fails \/ connection_lost
  PROVE  UserHolds' /\ WorkerHolds'
<1>1. CASE write_ends
  <2>1. user'.at = "block" /\ user'.todo = <<>> /\ user.at = "writing" /\ user.todo = <<>>
    BY <1>1 DEF write_ends, CopyTyped, UserType
  <2> QED
    BY <1>1, <2>1 DEF write_ends, UserHolds, Flagged, WorkerHolds, Over
<1>2. CASE finish_libpq
  <2>1. /\ user'.at = "ending" /\ user'.todo = <<>> /\ user.at = "finishing" /\ user.todo = <<>>
        /\ ~copy.queued
    BY <1>2 DEF finish_libpq, CopyTyped, UserType
  <2> QED
    BY <1>2, <2>1 DEF finish_libpq, UserHolds, Flagged, WorkerHolds, Over
<1>3. CASE finish_join
  <2>1. /\ user.at = "joining" /\ user.todo = <<>> /\ worker \in {"none", "stopped", "dead"}
        /\ worker_error = (worker = "dead")
        /\ UNCHANGED <<copy, buffer, signature_sent, queue, worker, lost, data>>
    BY <1>3 DEF finish_join, UserHolds, Flagged, Bounded, WorkerEnded
  <2>2. /\ user'.todo = <<>>
        /\ IF worker_error THEN user'.at = "left" ELSE user'.at = "ending"
    BY <1>3, <2>1, LeftTyped DEF finish_join, CopyTyped, UserType
  <2> QED
    BY <2>1, <2>2 DEF UserHolds, Flagged, WorkerHolds, Over
<1>4. CASE copy_end
  <2>1. /\ user'.at = "left" /\ user'.todo = <<>>
        /\ UNCHANGED <<copy, buffer, signature_sent, queue, worker, lost, data>>
        /\ user.at = "ending"
    BY <1>4 DEF copy_end, CopyTyped, UserType, Left
  <2> QED
    BY <2>1 DEF UserHolds, Flagged, WorkerHolds, Over
<1>5. CASE worker_sent
  BY <1>5 DEF worker_sent, UserHolds, Flagged, WorkerHolds, CopyTyped, CopyType
<1>6. CASE exit
  <2>1. PICK exc \in BOOLEAN : finish(exc, buffer, signature_sent)
    BY <1>6 DEF exit
  <2>2. /\ UNCHANGED <<copy, signature_sent, queue, worker_error, lost, data>>
        /\ buffer \in Seq(Int) /\ user.at = "block"
        /\ Flagged'
    BY <1>6 DEF exit, CopyTyped, UserHolds, Flagged
  <2> QED
    BY <2>1, <2>2, FinishHolds
<1>7. CASE server_fails
  BY <1>7 DEF server_fails, UserHolds, Flagged, WorkerHolds
<1>8. CASE connection_lost
  BY <1>8 DEF connection_lost, UserHolds, Flagged, WorkerHolds
<1> QED
  BY <1>1, <1>2, <1>3, <1>4, <1>5, <1>6, <1>7, <1>8

-----------------------------------------------------------------------------
(* COPY FROM: the order of what is sent                                     *)

\* The end of the formatter is what it kept and the end of the format.
LEMMA FormatterEndIs ==
  ASSUME CopyTyped, NEW kept \in Seq(Int), NEW sent \in BOOLEAN,
         copy.binary => (sent <=> data # <<>>)
  PROVE  FormatterEnd(kept, sent) = kept \o Ending
<1>1. kept \o <<>> = kept /\ Append(kept, Trailer) = kept \o <<Trailer>>
  BY DEF Trailer
<1> QED
  BY <1>1 DEF FormatterEnd, Ending

\* What is to be sent, in the order in which it is.
ToSend == queue \o user.todo

\* What is sent, to be sent, kept and written are sequences.
LEMMA ToSendTyped ==
  ASSUME CopyTyped
  PROVE  /\ queue \in Seq(Seq(Int)) /\ user.todo \in Seq(Seq(Int)) /\ ToSend \in Seq(Seq(Int))
         /\ wire \in Seq(Int) /\ buffer \in Seq(Int) /\ Stream \in Seq(Int)
<1>1. queue \in Seq(Seq(Int)) /\ user.todo \in Seq(Seq(Int))
  BY DEF CopyTyped, UserType
<1> QED
  BY <1>1, SeqFacts, EndingTyped DEF CopyTyped, ToSend

\* In a connection that is not lost, all is in order; the rest follows.
LEMMA OrderedIf ==
  ASSUME CopyTyped, InOrder(wire, ToSend, buffer, Stream)
  PROVE  Ordered
<1>1. IsPrefix(wire, Stream)
  <2>1. Len(ToSend) \in Nat
    BY ToSendTyped
  <2> QED
    BY <2>1, ToSendTyped, OrderPrefix
<1> QED
  BY <1>1 DEF Ordered, ToSend

\* OrderedIf, after a step.
LEMMA OrderedIf_ == ASSUME CopyTyped', InOrder(wire, ToSend, buffer, Stream)' PROVE Ordered'
  BY OrderedIf, PTL

\* In a lost one, what was sent stays the first part.
LEMMA LostOrdered ==
  ASSUME CopyTyped, Ordered, lost', wire' = wire, NEW x \in Seq(Int), Stream' = Stream \o x
  PROVE  Ordered'
<1>1. IsPrefix(wire, Stream \o x)
  BY ToSendTyped, PrefixConcat DEF Ordered
<1> QED
  BY <1>1 DEF Ordered

\* The stream does not change until more is written, or the format is ended.
LEMMA StreamSame ==
  ASSUME CopyTyped, data' = data, copy' = copy,
         user.at \in {"block", "writing"} <=> user'.at \in {"block", "writing"}
  PROVE  Stream' = Stream
<1>1. Sofar' = Sofar /\ Ending' = Ending
  BY DEF Sofar, Ending
<1> QED
  BY <1>1 DEF Stream

\* A step that moves nothing.
LEMMA SameOrdered ==
  ASSUME CopyTyped, Ordered, wire' = wire, Stream' = Stream, buffer' = buffer,
         ToSend' = ToSend, lost => lost'
  PROVE  Ordered'
<1>1. InOrder(wire, ToSend, buffer, Stream) => InOrder(wire', ToSend', buffer', Stream')
  OBVIOUS
<1> QED
  BY <1>1 DEF Ordered, ToSend

\* The block ends with what is kept, and the end of the format.
LEMMA FinishOrdered ==
  ASSUME CopyTyped, CopyTyped', Bounded, UserHolds, WorkerHolds, Ordered, user.at = "block",
         NEW exc \in BOOLEAN, finish(exc, buffer, signature_sent),
         UNCHANGED <<copy, queue, lost, wire, data>>
  PROVE  Ordered'
<1> DEFINE chunk == buffer \o Ending
<1>1. chunk \in Seq(Int) /\ FormatterEnd(buffer, signature_sent) = chunk /\ Ending \in Seq(Int)
  BY ToSendTyped, EndingTyped, SeqFacts, FormatterEndIs DEF UserHolds, Flagged, CopyTyped
<1>2. buffer' = <<>> /\ (Refuses(chunk) \/ Goes(chunk))
  BY <1>1, FinishIs DEF CopyTyped
<1>3. Stream' = Stream \o Ending
  <2>1. user'.at \in {"left", "finishing"}
    BY <1>2 DEF Refuses, Goes
  <2>2. Sofar' = Sofar /\ Ending' = Ending
    BY DEF Sofar, Ending
  <2> QED
    BY <2>1, <2>2 DEF Stream
<1>4. CASE lost
  BY <1>1, <1>3, <1>4, LostOrdered
<1>5. CASE ~lost
  <2>1. Goes(chunk)
    BY <1>2, <1>5 DEF Refuses, Refused, Bounded, WorkerHolds
  <2>2. user.todo = <<>> /\ ToSend = queue
    BY ToSendTyped DEF UserHolds, ToSend
  <2>3. InOrder(wire, queue, buffer, Stream)
    BY <1>5, <2>2 DEF Ordered, ToSend
  <2>4. InOrder(wire, queue, chunk, Stream \o Ending)
    BY <1>1, <2>3, ToSendTyped, OrderKept
  <2>5. Stream \o Ending \in Seq(Int)
    BY <1>1, ToSendTyped, SeqFacts
  <2>6. InOrder(wire, ToSend', <<>>, Stream \o Ending)
    <3>1. CASE chunk = <<>>
      <4>1. ToSend' = queue
        BY <2>1, <3>1, ToSendTyped DEF Goes, ToSend
      <4> QED
        BY <2>4, <3>1, <4>1
    <3>2. CASE chunk # <<>>
      <4> HIDE DEF chunk
      <4>1. ToSend' = queue \o <<chunk>>
        BY <2>1, <3>2 DEF Goes, ToSend
      <4>2. ToSend' = Append(queue, chunk)
        BY <1>1, <4>1, ToSendTyped
      <4>3. InOrder(wire, Append(queue, chunk), <<>>, Stream \o Ending)
        BY <1>1, <2>4, <2>5, ToSendTyped, OrderFlushed
      <4> QED
        BY <4>2, <4>3
    <3> QED
      BY <3>1, <3>2
  <2>7. InOrder(wire, ToSend, buffer, Stream)'
    BY <1>2, <1>3, <2>6
  <2> QED
    BY <2>7, OrderedIf_
<1> QED
  BY <1>4, <1>5

\* A block that the user writes, and does not end.
LEMMA GivesOrdered ==
  ASSUME CopyTyped, CopyTyped', Bounded, UserHolds, WorkerHolds, Ordered, user.at = "block",
         NEW chunks \in Seq(Seq(Int)), NEW kept \in Seq(Int), NEW sent \in BOOLEAN,
         Gives(chunks, kept, sent), NEW x \in Seq(Int), Sofar' = Sofar \o x,
         UNCHANGED <<copy, queue, lost, wire>>,
         InOrder(wire, queue, buffer, Stream) => InOrder(wire, queue \o chunks, kept, Stream \o x)
  PROVE  Ordered'
<1>1. Stream = Sofar
  BY DEF Stream
<1>2. user.todo = <<>> /\ ToSend = queue
  BY SMTT(20), ToSendTyped DEF UserHolds, ToSend
<1>3. Stream' = Stream \o x \/ Stream' = (Stream \o x) \o Ending'
  BY <1>1 DEF Stream
<1>4. CASE lost
  <2>1. PICK s \in Seq(Int), e \in Seq(Int) : s = Stream /\ e = Ending'
    BY EndingTyped_, ToSendTyped
  <2>2. (Stream \o x) \o Ending' = Stream \o (x \o Ending') /\ x \o Ending' \in Seq(Int)
    <3>1. (s \o x) \o e = s \o (x \o e)
      BY Assoc
    <3>2. x \o e \in Seq(Int)
      BY SeqFacts
    <3> QED
      BY <2>1, <3>1, <3>2
  <2>3. CASE Stream' = Stream \o x
    BY <1>4, <2>3, LostOrdered
  <2>4. CASE Stream' = Stream \o (x \o Ending')
    BY <1>4, <2>2, <2>4, LostOrdered
  <2> QED
    BY <1>3, <2>2, <2>3, <2>4
<1>5. CASE ~lost
  <2>1. ~Refused
    BY <1>5 DEF Refused, Bounded, WorkerHolds
  <2>2. /\ buffer' = kept /\ user'.at \in {"block", "writing"}
        /\ ToSend' = queue \o chunks
    <3>1. CASE chunks = <<>> /\ user' = user /\ buffer' = kept
      BY <1>2, <3>1 DEF ToSend
    <3>2. CASE buffer' = kept /\ user'.at = "writing" /\ user'.todo = chunks
      BY <3>2 DEF ToSend
    <3> QED
      BY <2>1, <3>1, <3>2, GivesIs
  <2>3. Stream' = Stream \o x
    BY <1>1, <2>2 DEF Stream
  <2>4. InOrder(wire, queue, buffer, Stream)
    BY <1>2, <1>5 DEF Ordered, ToSend
  <2>5. InOrder(wire, ToSend, buffer, Stream)'
    BY <2>2, <2>3, <2>4
  <2> QED
    BY <2>5, OrderedIf_
<1> QED
  BY <1>4, <1>5

\* What is written goes behind what was.
LEMMA WriteOrdered ==
  ASSUME CopyTyped, CopyTyped', Bounded, In, UserHolds, WorkerHolds, Ordered, write_row \/ write
  PROVE  Ordered'
<1>1. user.at = "block" /\ UNCHANGED <<copy, queue, lost, wire>>
  BY DEF write_row, write
<1>2. CASE write_row
  <2>1. PICK row \in Seq(Int), kept \in Seq(Int), out \in Seq(Int) :
          /\ Sofar' = Sofar \o row
          /\ \/ out = <<>> /\ kept = buffer \o row
             \/ out = buffer \o row /\ kept = <<>> /\ out # <<>>
          /\ Gives(IF out = <<>> THEN <<>> ELSE <<out>>, kept, copy.binary)
    BY <1>2, RowIs
  <2> DEFINE chunks == IF out = <<>> THEN <<>> ELSE <<out>>
  <2>2. chunks \in Seq(Seq(Int)) /\ copy.binary \in BOOLEAN /\ Gives(chunks, kept, copy.binary)
    BY <2>1, SeqFacts DEF CopyTyped, CopyType
  <2>3. ASSUME InOrder(wire, queue, buffer, Stream)
        PROVE  InOrder(wire, queue \o chunks, kept, Stream \o row)
    <3>1. InOrder(wire, queue, buffer \o row, Stream \o row)
      BY <2>3, ToSendTyped, OrderKept
    <3>2. CASE out = <<>> /\ kept = buffer \o row
      <4>1. queue \o chunks = queue
        BY <3>2, ToSendTyped
      <4> QED
        BY <3>1, <3>2, <4>1
    <3>3. CASE out = buffer \o row /\ kept = <<>> /\ out # <<>>
      <4>1. queue \o chunks = Append(queue, out)
        BY <3>3, ToSendTyped
      <4>2. Stream \o row \in Seq(Int)
        BY ToSendTyped, SeqFacts
      <4>3. InOrder(wire, Append(queue, out), <<>>, Stream \o row)
        BY <3>1, <3>3, <4>2, ToSendTyped, OrderFlushed
      <4> QED
        BY <3>3, <4>1, <4>3
    <3> QED
      BY <2>1, <3>2, <3>3
  <2> HIDE DEF chunks
  <2> QED
    BY <1>1, <2>1, <2>2, <2>3, GivesOrdered
<1>3. CASE write
  <2>1. PICK chunks \in Seq(Seq(Int)), block \in Seq(Int) :
           /\ chunks # <<>> /\ Splits(chunks, block) /\ Sofar' = Sofar \o block
           /\ Gives(chunks, buffer, TRUE)
    BY <1>3, ChunksAre
  <2>2. buffer = <<>> /\ buffer \in Seq(Int)
    BY <1>3, SeqFacts DEF UserHolds, write
  <2>3. ASSUME InOrder(wire, queue, buffer, Stream)
        PROVE  InOrder(wire, queue \o chunks, buffer, Stream \o block)
    BY <2>1, <2>2, <2>3, ToSendTyped, OrderWritten
  <2> QED
    BY <1>1, <2>1, <2>2, <2>3, GivesOrdered
<1> QED
  BY <1>2, <1>3

\* The first chunk of the user is sent: the queue is empty.
LEMMA LibpqOrdered ==
  ASSUME CopyTyped, CopyTyped', Bounded, UserHolds, WorkerHolds, Ordered, LibpqWriter_write
  PROVE  Ordered'
<1>1. /\ UNCHANGED <<copy, signature_sent, queue, lost, data>>
      /\ user.at \in {"writing", "finishing"} /\ user.todo # <<>> /\ ~copy.queued
  BY DEF LibpqWriter_write
<1>2. CASE Sends(user.todo[1]) /\ user' = [user EXCEPT !.todo = Tail(@)] /\ UNCHANGED buffer
  <2>1. user'.todo = Tail(user.todo) /\ user'.at = user.at
    BY <1>2 DEF CopyTyped, UserType
  <2>2. Stream' = Stream
    BY <1>1, <2>1, StreamSame
  <2>3. CASE lost
    <3>1. wire' = wire /\ <<>> \in Seq(Int) /\ Stream' = Stream \o <<>>
      BY <1>2, <2>2, <2>3, ToSendTyped, SeqFacts DEF Sends
    <3> QED
      BY <1>1, <2>3, <3>1, LostOrdered
  <2>4. CASE ~lost
    <3>1. ToSend = user.todo /\ ToSend' = Tail(user.todo)
      <4>1. \A t \in Seq(Seq(Int)) : <<>> \o t = t
        OBVIOUS
      <4>2. user.todo \in Seq(Seq(Int)) /\ Tail(user.todo) \in Seq(Seq(Int))
        BY <1>1, ToSendTyped, TailOf
      <4>3. queue = <<>> /\ queue' = <<>> /\ user'.todo = Tail(user.todo)
        BY <1>1, <2>1 DEF WorkerHolds
      <4> QED
        BY <4>1, <4>2, <4>3 DEF ToSend
    <3>2. InOrder(wire, user.todo, buffer, Stream)
      BY <2>4, <3>1 DEF Ordered, ToSend
    <3>3. InOrder(wire \o user.todo[1], Tail(user.todo), buffer, Stream)
      BY <1>1, <3>2, ToSendTyped, OrderSent
    <3>4. wire' = wire \o user.todo[1] /\ buffer' = buffer
      BY <1>2, <2>4 DEF Sends
    <3>5. InOrder(wire, ToSend, buffer, Stream)'
      BY <2>2, <3>1, <3>3, <3>4
    <3> QED
      BY <3>5, OrderedIf_
  <2> QED
    BY <2>3, <2>4
<1>3. CASE lost /\ wire' = wire /\ user.at = "writing" /\ finish(TRUE, buffer, signature_sent)
  <2>1. PICK chunk \in Seq(Int) : chunk = FormatterEnd(buffer, signature_sent)
    BY FormatterEndTyped, ToSendTyped
  <2>2. user'.at \in {"left", "finishing"}
    BY <1>3, <2>1, FinishIs DEF Refuses, Goes
  <2>3. Sofar' = Sofar /\ Ending' = Ending
    BY <1>1 DEF Sofar, Ending
  <2>4. Stream' = Stream \o Ending
    BY <1>3, <2>2, <2>3 DEF Stream
  <2> QED
    BY <1>1, <1>3, <2>4, EndingTyped, LostOrdered
<1>4. CASE lost /\ wire' = wire /\ user.at = "finishing" /\ Left("raised")
  <2>1. user'.at = "left"
    BY <1>4, LeftTyped
  <2>2. Stream' = Stream
    BY <1>1, <1>4, <2>1, StreamSame
  <2>3. <<>> \in Seq(Int) /\ Stream' = Stream \o <<>>
    BY <2>2, ToSendTyped, SeqFacts
  <2> QED
    BY <1>1, <1>4, <2>3, LostOrdered
<1> QED
  BY <1>1, <1>2, <1>3, <1>4 DEF LibpqWriter_write

\* A chunk of t that goes into q.
LEMMA MoveOne ==
  ASSUME NEW S, NEW q \in Seq(S), NEW t \in Seq(S), t # <<>>
  PROVE  Append(q, t[1]) \o Tail(t) = q \o t
<1>1. PICK m \in Nat, n \in Nat : m = Len(q) /\ n = Len(t) /\ n >= 1
  OBVIOUS
<1>2. /\ Append(q, t[1]) \in Seq(S) /\ Len(Append(q, t[1])) = m + 1
      /\ \A i \in 1..m : Append(q, t[1])[i] = q[i] 
      /\ Append(q, t[1])[m + 1] = t[1]
  BY <1>1
<1>3. PICK r : r = Append(q, t[1])
  OBVIOUS
<1>4. /\ Tail(t) \in Seq(S) /\ Len(Tail(t)) = n - 1 /\ \A i \in 1..(n - 1) : Tail(t)[i] = t[i + 1]
  BY <1>1
<1>5. PICK u : u = Tail(t)
  OBVIOUS
<1>6. /\ r \o u \in Seq(S) /\ Len(r \o u) = m + n
      /\ \A i \in 1..(m + n) : (r \o u)[i] = IF i <= m + 1 THEN r[i] ELSE u[i - (m + 1)]
  BY <1>1, <1>2, <1>3, <1>4, <1>5, ConcatProperties
<1>7. /\ q \o t \in Seq(S) /\ Len(q \o t) = m + n
      /\ \A i \in 1..(m + n) : (q \o t)[i] = IF i <= m THEN q[i] ELSE t[i - m]
  BY <1>1, ConcatProperties
<1>8. ASSUME NEW i \in 1..(m + n) PROVE (r \o u)[i] = (q \o t)[i]
  <2>1. CASE i <= m
    BY <1>2, <1>3, <1>6, <1>7, <2>1
  <2>2. CASE i = m + 1
    <3>1. (r \o u)[i] = t[1] /\ i - m = 1
      BY <1>2, <1>3, <1>6, <2>2
    <3>2. (q \o t)[i] = t[i - m]
      BY <1>7, <2>2
    <3> QED
      BY <3>1, <3>2
  <2>3. CASE i > m + 1
    <3>1. (r \o u)[i] = u[i - (m + 1)] /\ i - (m + 1) \in 1..(n - 1) /\ (i - (m + 1)) + 1 = i - m
      BY <1>6, <2>3
    <3>2. (q \o t)[i] = t[i - m]
      BY <1>7, <2>3
    <3>3. \A k \in 1..(n - 1) : u[k] = t[k + 1]
      BY <1>4, <1>5
    <3>4. u[i - (m + 1)] = t[(i - (m + 1)) + 1]
      BY <3>1, <3>3
    <3> QED
      BY <3>1, <3>2, <3>4
  <2>4. i <= m \/ i = m + 1 \/ i > m + 1
    OBVIOUS
  <2> QED
    BY <2>1, <2>2, <2>3, <2>4
<1>9. PICK x \in Seq(S), y \in Seq(S) : x = r \o u /\ y = q \o t
  BY <1>6, <1>7
<1>10. Len(x) = Len(y) /\ \A i \in 1..Len(x) : x[i] = y[i]
  BY <1>6, <1>7, <1>8, <1>9
<1>11. x = y
  BY <1>10, SeqEqual
<1> QED
  BY <1>3, <1>5, <1>9, <1>11

\* A chunk enters the queue behind the others; the worker takes the first.
LEMMA QueueOrdered ==
  ASSUME CopyTyped, CopyTyped', Bounded, UserHolds, WorkerHolds, Ordered,
         QueuedLibpqWriter_write \/ finish_queue \/ worker_get
  PROVE  Ordered'
<1>1. CASE QueuedLibpqWriter_write
  <2>1. /\ UNCHANGED <<copy, buffer, lost, data, wire>> /\ user.todo # <<>>
        /\ queue' = Append(queue, user.todo[1])
    BY <1>1 DEF QueuedLibpqWriter_write
  <2>2. user'.todo = Tail(user.todo) /\ user'.at = user.at
    BY <1>1 DEF CopyTyped, UserType, QueuedLibpqWriter_write
  <2>3. Stream' = Stream
    BY <2>1, <2>2, StreamSame
  <2>4. ToSend' = ToSend
    <3>1. PICK q \in Seq(Seq(Int)), t \in Seq(Seq(Int)) : q = queue /\ t = user.todo
      BY ToSendTyped
    <3>2. Append(q, t[1]) \o Tail(t) = q \o t
      BY <2>1, <3>1, MoveOne
    <3> QED
      BY <2>1, <2>2, <3>1, <3>2 DEF ToSend
  <2> QED
    BY <2>1, <2>3, <2>4, SameOrdered
<1>2. CASE finish_queue
  <2>1. /\ UNCHANGED <<copy, buffer, lost, data, wire>> /\ user.todo = <<>>
        /\ user.at = "finishing" /\ queue' = Append(queue, <<>>)
    BY <1>2 DEF finish_queue
  <2>2. user'.todo = <<>> /\ user'.at = "joining"
    BY <1>2, <2>1 DEF CopyTyped, UserType, finish_queue
  <2>3. Stream' = Stream /\ buffer = <<>>
    BY <2>1, <2>2, StreamSame DEF UserHolds
  <2>4. CASE lost
    <3>1. <<>> \in Seq(Int) /\ Stream' = Stream \o <<>>
      BY <2>3, ToSendTyped, SeqFacts
    <3> QED
      BY <2>1, <2>4, <3>1, LostOrdered
  <2>5. CASE ~lost
    <3>1. ToSend = queue /\ ToSend' = Append(queue, <<>>)
      <4>0. <<>> \in Seq(Int) /\ queue \in Seq(Seq(Int))
        BY ToSendTyped, SeqFacts
      <4>a. Append(queue, <<>>) \in Seq(Seq(Int))
        BY <4>0
      <4>1. PICK q \in Seq(Seq(Int)), r \in Seq(Seq(Int)) : q = queue /\ r = Append(queue, <<>>)
        BY <4>0, <4>a
      <4>2. q \o <<>> = q /\ r \o <<>> = r
        OBVIOUS
      <4> QED
        BY <2>1, <2>2, <4>1, <4>2 DEF ToSend
    <3>2. InOrder(wire, queue, buffer, Stream)
      BY <2>5, <3>1 DEF Ordered, ToSend
    <3>3. InOrder(wire, Append(queue, buffer), <<>>, Stream)
      BY <3>2, ToSendTyped, OrderFlushed
    <3>4. InOrder(wire, ToSend, buffer, Stream)'
      BY <2>1, <2>3, <3>1, <3>3
    <3> QED
      BY <3>4, OrderedIf_
  <2> QED
    BY <2>4, <2>5
<1>3. CASE worker_get
  <2>1. /\ UNCHANGED <<copy, buffer, lost, data, user>> /\ queue # <<>> /\ queue' = Tail(queue)
        /\ IF queue[1] = <<>> THEN wire' = wire ELSE Sends(queue[1])
    BY <1>3 DEF worker_get
  <2>2. Stream' = Stream
    BY <2>1, StreamSame
  <2>3. CASE lost
    <3>1. wire' = wire /\ <<>> \in Seq(Int) /\ Stream' = Stream \o <<>>
      BY <2>1, <2>2, <2>3, ToSendTyped, SeqFacts DEF Sends
    <3> QED
      BY <2>1, <2>3, <3>1, LostOrdered
  <2>4. CASE ~lost
    <3>1. PICK q \in Seq(Seq(Int)), t \in Seq(Seq(Int)) : q = queue /\ t = user.todo
      BY ToSendTyped
    <3>2. /\ q \o t \in Seq(Seq(Int)) /\ q \o t # <<>> /\ (q \o t)[1] = q[1]
          /\ Tail(q \o t) = Tail(q) \o t
      BY <2>1, <3>1, SMTT(40)
    <3>3. ToSend # <<>> /\ ToSend[1] = queue[1] /\ ToSend' = Tail(ToSend)
      BY <2>1, <3>1, <3>2 DEF ToSend
    <3>4. InOrder(wire, ToSend, buffer, Stream)
      BY <2>4 DEF Ordered, ToSend
    <3>5. InOrder(wire \o queue[1], Tail(ToSend), buffer, Stream)
      BY <3>3, <3>4, ToSendTyped, OrderSent
    <3>6. wire' = wire \o queue[1]
      <4>1. wire \o <<>> = wire
        BY ToSendTyped
      <4> QED
        BY <2>1, <2>4, <4>1 DEF Sends
    <3>7. InOrder(wire, ToSend, buffer, Stream)'
      BY <2>1, <2>2, <3>3, <3>5, <3>6
    <3> QED
      BY <3>7, OrderedIf_
  <2> QED
    BY <2>3, <2>4
<1> QED
  BY <1>1, <1>2, <1>3

\* The ends of the block send nothing.
LEMMA EndsOrdered ==
  ASSUME CopyTyped, CopyTyped', Bounded, UserHolds, WorkerHolds, Ordered,
         \/ write_ends \/ worker_sent \/ exit \/ finish_join \/ finish_libpq \/ copy_end
         \/ server_fails \/ connection_lost
  PROVE  Ordered'
<1>1. CASE exit
  <2>1. PICK exc \in BOOLEAN : finish(exc, buffer, signature_sent)
    BY <1>1 DEF exit
  <2> QED
    BY <1>1, <2>1, FinishOrdered DEF exit
<1>2. CASE ~exit
  <2>1. UNCHANGED <<copy, wire, buffer, data, queue>> /\ (lost => lost')
    BY <1>2 DEF write_ends, worker_sent, finish_join, finish_libpq, copy_end, server_fails,
                connection_lost
  <2>2. /\ user'.todo = user.todo
        /\ user.at \in {"block", "writing"} <=> user'.at \in {"block", "writing"}
    <3>1. CASE write_ends
      <4>1. user' = [user EXCEPT !.at = "block"] /\ user.at = "writing"
        BY <3>1 DEF write_ends
      <4> QED
        BY <4>1 DEF CopyTyped, UserType
    <3>2. CASE worker_sent \/ server_fails \/ connection_lost
      BY <3>2 DEF worker_sent, server_fails, connection_lost
    <3>3. CASE finish_join \/ finish_libpq \/ copy_end
      <4>1. user.at \in {"joining", "finishing", "ending"} /\ user.todo = <<>>
        BY <3>3 DEF finish_join, finish_libpq, copy_end, UserHolds
      <4>2. user'.at \in {"left", "ending"} /\ user'.todo = <<>>
        BY <3>3, <4>1, LeftTyped DEF finish_join, finish_libpq, copy_end, CopyTyped, UserType
      <4> QED
        BY <4>1, <4>2
    <3> QED
      BY <1>2, <3>1, <3>2, <3>3
  <2>3. Stream' = Stream
    BY <2>1, <2>2, StreamSame
  <2>4. ToSend' = ToSend
    BY <2>1, <2>2 DEF ToSend
  <2> QED
    BY <2>1, <2>3, <2>4, SameOrdered
<1> QED
  BY <1>1, <1>2

-----------------------------------------------------------------------------
(* COPY FROM: how the block ends                                            *)

\* Nothing but copy_end() lets a block work, or leaves one that is in the COPY.
LEMMA LeftWell ==
  ASSUME CopyTyped, CopyTyped', Bounded', EndsWell,
         user'.outcome = user.outcome \/ (user'.outcome = "raised" /\ lost'),
         user.outcome = "none" \/ (user' = user /\ data' = data /\ wire' = wire /\ copy' = copy),
         server' = server \/ (server = "copying" /\ server' = "failed"), lost => lost'
  PROVE  EndsWell'
<1>1. CASE user.outcome = "none"
  <2>1. user'.outcome = "none" \/ (user'.outcome = "raised" /\ lost')
    BY <1>1
  <2> QED
    BY <2>1 DEF EndsWell
<1>2. CASE user.outcome # "none" /\ user' = user /\ data' = data /\ wire' = wire /\ copy' = copy
  <2>1. Written' = Written
    BY <1>2 DEF Written
  <2> HIDE DEF Written
  <2> QED
    BY <1>2, <2>1 DEF EndsWell
<1> QED
  BY <1>1, <1>2

\* All that is to be sent, when the block comes to its end.
LEMMA AllSent ==
  ASSUME CopyTyped, Bounded, UserHolds, WorkerHolds, Ordered, user.at = "ending", ~lost
  PROVE  wire = Written
<1>1. Stream = Written
  BY WrittenIs DEF Stream
<1>2. user.todo = <<>> /\ buffer = <<>> /\ worker \in {"none", "stopped"}
  BY DEF UserHolds, WorkerHolds
<1>3. ToSend = queue
  BY <1>2, ToSendTyped DEF ToSend
<1>4. \A i \in 1..Len(queue) : queue[i] = <<>>
  <2>1. CASE queue = <<>>
    BY <2>1
  <2>2. CASE copy.queued /\ worker = "none"
    BY <2>2 DEF WorkerHolds
  <2> QED
    BY <1>2, <2>1, <2>2 DEF WorkerHolds
<1>5. InOrder(wire, queue, <<>>, Stream)
  BY <1>2, <1>3 DEF Ordered, ToSend
<1>6. wire = Stream
  BY <1>4, <1>5, ToSendTyped, OrderAll
<1> QED
  BY <1>1, <1>6

\* A block that works ends with everything sent.
LEMMA EndsWellNext ==
  ASSUME CopyTyped, CopyTyped', Bounded, Bounded', In, UserHolds, WorkerHolds, Ordered, EndsWell,
         CopyNext
  PROVE  EndsWell'
<1>0. lost => lost'
  BY DEF CopyNext, Leaving, CopyWorker, write_row, write, exit, read, read_row, exit_out,
         LibpqWriter_write, QueuedLibpqWriter_write, write_ends, finish_queue, finish_join,
         finish_libpq, copy_end, end_copy_out, worker_get, worker_sent, server_fails, connection_lost
<1>1. CASE write_row \/ write
  <2>1. user.at = "block" /\ lost' = lost /\ server' = server
    BY <1>1 DEF write_row, write
  <2>2. \E chunks \in Seq(Seq(Int)), kept \in Seq(Int), sent \in BOOLEAN : Gives(chunks, kept, sent)
    <3>1. CASE write_row
      <4>1. PICK row \in Seq(Int), kept \in Seq(Int), out \in Seq(Int) :
              Gives(IF out = <<>> THEN <<>> ELSE <<out>>, kept, copy.binary)
        BY <3>1, RowIs
      <4>2. (IF out = <<>> THEN <<>> ELSE <<out>>) \in Seq(Seq(Int)) /\ copy.binary \in BOOLEAN
        BY SeqFacts DEF CopyTyped, CopyType
      <4> QED
        BY <4>1, <4>2
    <3>2. CASE write
      <4>1. PICK chunks \in Seq(Seq(Int)), block \in Seq(Int) : Gives(chunks, buffer, TRUE)
        BY <3>2, ChunksAre
      <4> QED
        BY <4>1, ToSendTyped
    <3> QED
      BY <1>1, <3>1, <3>2
  <2>3. PICK chunks \in Seq(Seq(Int)), kept \in Seq(Int), sent \in BOOLEAN : Gives(chunks, kept, sent)
    BY <2>2
  <2>4. user'.outcome = user.outcome \/ (user'.outcome = "raised" /\ lost')
    <3>1. CASE finish(TRUE, kept, sent)
      <4>1. PICK chunk \in Seq(Int) : chunk = FormatterEnd(kept, sent)
        BY FormatterEndTyped
      <4>2. Refuses(chunk) \/ Goes(chunk)
        BY <3>1, <4>1, FinishIs
      <4> QED
        BY <2>1, <4>2 DEF Refuses, Goes, Refused, Bounded, WorkerHolds
    <3> QED
      BY <2>3, <3>1, GivesIs
  <2>5. user.outcome = "none"
    BY <2>1 DEF Bounded
  <2> QED
    BY <2>1, <2>4, <2>5, LeftWell
<1>2. CASE exit
  <2>1. PICK exc \in BOOLEAN : finish(exc, buffer, signature_sent)
    BY <1>2 DEF exit
  <2>2. PICK chunk \in Seq(Int) : chunk = FormatterEnd(buffer, signature_sent)
    BY ToSendTyped, FormatterEndTyped
  <2>3. Refuses(chunk) \/ Goes(chunk)
    BY <2>1, <2>2, FinishIs
  <2>4. user.at = "block" /\ lost' = lost /\ server' = server
    BY <1>2 DEF exit
  <2>5. user'.outcome = user.outcome \/ (user'.outcome = "raised" /\ lost')
    BY <2>3, <2>4 DEF Refuses, Goes, Refused, Bounded, WorkerHolds
  <2>6. user.outcome = "none"
    BY <2>4 DEF Bounded
  <2> QED
    BY <2>4, <2>5, <2>6, LeftWell
<1>3. CASE LibpqWriter_write
  <2>1. user.at \in {"writing", "finishing"} /\ lost' = lost /\ server' = server /\ ~copy.queued
    BY <1>3 DEF LibpqWriter_write
  <2>2. user.outcome = "none"
    BY <2>1 DEF Bounded
  <2>3. user'.outcome = user.outcome \/ (user'.outcome = "raised" /\ lost')
    <3>1. CASE user' = [user EXCEPT !.todo = Tail(@)]
      BY <3>1 DEF CopyTyped, UserType
    <3>2. CASE lost /\ finish(TRUE, buffer, signature_sent)
      <4>1. PICK chunk \in Seq(Int) : chunk = FormatterEnd(buffer, signature_sent)
        BY ToSendTyped, FormatterEndTyped
      <4>2. Refuses(chunk) \/ Goes(chunk)
        BY <3>2, <4>1, FinishIs
      <4> QED
        BY <2>1, <3>2, <4>2 DEF Refuses, Goes
    <3>3. CASE lost /\ Left("raised")
      BY <2>1, <3>3, LeftTyped
    <3> QED
      BY <1>3, <3>1, <3>2, <3>3 DEF LibpqWriter_write
  <2> QED
    BY <2>1, <2>2, <2>3, LeftWell
<1>4. CASE QueuedLibpqWriter_write \/ finish_queue \/ finish_libpq \/ write_ends
  <2>1. user.at \in {"writing", "finishing"} /\ lost' = lost /\ server' = server
    BY <1>4 DEF QueuedLibpqWriter_write, finish_queue, finish_libpq, write_ends
  <2>2. user.outcome = "none"
    BY <2>1 DEF Bounded
  <2>3. user'.outcome = user.outcome
    BY <1>4 DEF QueuedLibpqWriter_write, finish_queue, finish_libpq, write_ends, CopyTyped, UserType
  <2> QED
    BY <2>1, <2>2, <2>3, LeftWell
<1>5. CASE finish_join
  <2>1. user.at = "joining" /\ lost' = lost /\ server' = server
    BY <1>5 DEF finish_join
  <2>2. user.outcome = "none"
    BY <2>1 DEF Bounded
  <2>3. user'.outcome = user.outcome \/ (user'.outcome = "raised" /\ lost')
    <3>1. CASE worker_error
      <4>1. lost
        BY <3>1 DEF Bounded, WorkerHolds
      <4>2. Left("raised")
        BY <1>5, <3>1 DEF finish_join
      <4>3. user'.outcome = "raised"
        BY <4>2, LeftTyped
      <4> QED
        BY <2>1, <4>1, <4>3
    <3>2. CASE ~worker_error
      BY <1>5, <3>2 DEF finish_join, CopyTyped, UserType
    <3> QED
      BY <3>1, <3>2
  <2> QED
    BY <2>1, <2>2, <2>3, LeftWell
<1>6. CASE copy_end
  <2>1. user.at = "ending" /\ UNCHANGED <<copy, wire, lost, data>>
    BY <1>6 DEF copy_end
  <2>2. Written' = Written
    BY <2>1 DEF Written
  <2>3. CASE lost \/ server = "failed"
    <3>1. user'.outcome = "raised" /\ server' = server
      BY <1>6, <2>3, LeftTyped DEF copy_end
    <3> QED
      BY <2>1, <2>3, <3>1 DEF EndsWell
  <2>4. CASE ~(lost \/ server = "failed") /\ user.exc
    <3>1. user'.outcome = "raised" /\ server' = "canceled"
      BY <1>6, <2>4, LeftTyped DEF copy_end
    <3> QED
      BY <3>1 DEF EndsWell
  <2>5. CASE ~(lost \/ server = "failed") /\ ~user.exc
    <3>1. user'.outcome = "ok" /\ server' = "done"
      BY <1>6, <2>5, LeftTyped DEF copy_end
    <3>2. wire = Written
      BY <2>1, <2>5, AllSent
    <3> HIDE DEF Written
    <3> QED
      BY <2>1, <2>2, <3>1, <3>2 DEF EndsWell
  <2> QED
    BY <2>3, <2>4, <2>5
<1>7. CASE worker_get \/ worker_sent
  <2>1. user' = user /\ lost' = lost /\ server' = server /\ worker \in {"get", "send"}
    BY <1>7 DEF worker_get, worker_sent
  <2>2. user.outcome = "none"
    BY <2>1 DEF Bounded, WorkerHolds
  <2> QED
    BY <2>1, <2>2, LeftWell
<1>8. CASE server_fails \/ connection_lost
  <2>1. /\ UNCHANGED <<user, data, wire, copy>>
        /\ server' = server \/ (server = "copying" /\ server' = "failed")
    BY <1>8 DEF server_fails, connection_lost
  <2> QED
    BY <1>0, <2>1, LeftWell
<1>9. ~(read \/ read_row \/ exit_out \/ end_copy_out)
  BY DEF read, read_row, exit_out, end_copy_out, UserHolds
<1> QED
  BY <1>1, <1>2, <1>3, <1>4, <1>5, <1>6, <1>7, <1>8, <1>9 DEF CopyNext, Leaving, CopyWorker

-----------------------------------------------------------------------------
(* COPY: the theorems                                                       *)

\* A COPY FROM, step by step.
LEMMA InStep ==
  ASSUME CopyTyped, Bounded, In, UserHolds, WorkerHolds, Ordered, EndsWell, CopyNext
  PROVE  CopyTyped' /\ Bounded' /\ In' /\ UserHolds' /\ WorkerHolds' /\ Ordered' /\ EndsWell'
<1>0. ~(read \/ read_row \/ exit_out \/ end_copy_out)
  BY DEF read, read_row, exit_out, end_copy_out, UserHolds
<1>1. \/ write_row \/ write \/ LibpqWriter_write
      \/ QueuedLibpqWriter_write \/ finish_queue \/ worker_get
      \/ write_ends \/ worker_sent \/ exit \/ finish_join \/ finish_libpq \/ copy_end
      \/ server_fails \/ connection_lost
  BY <1>0 DEF CopyNext, Leaving, CopyWorker
<1>2. InInv
  BY DEF InInv
<1>3. CopyTyped' /\ Bounded'
  BY <1>1, <1>2, WriteTyped, LibpqTyped, QueueTyped, EndsTyped
<1>4. copy' = copy
  BY <1>1 DEF write_row, write, LibpqWriter_write, QueuedLibpqWriter_write, finish_queue, worker_get,
       write_ends, worker_sent, exit, finish_join, finish_libpq, copy_end, server_fails, connection_lost
<1>5. In'
  BY <1>4 DEF In
<1>6. UserHolds' /\ WorkerHolds'
  BY <1>1, WriteHolds, LibpqHolds, QueueHolds, EndsHolds
<1>7. Ordered'
  BY <1>1, <1>3, WriteOrdered, LibpqOrdered, QueueOrdered, EndsOrdered
<1>8. EndsWell'
  BY <1>3, EndsWellNext
<1> QED
  BY <1>3, <1>5, <1>6, <1>7, <1>8

\* Every step of a COPY keeps the invariant,
LEMMA CopyInvNext == CopyInv /\ [CopyNext]_copyVars => CopyInv'
<1> SUFFICES ASSUME CopyInv, [CopyNext]_copyVars PROVE CopyInv'
  OBVIOUS
<1>0. CopyTyped /\ Bounded /\ InInv /\ OutInv
  BY DEF CopyInv
<1>1. CASE CopyNext /\ In
  <2>1. CopyTyped' /\ Bounded' /\ In' /\ UserHolds' /\ WorkerHolds' /\ Ordered' /\ EndsWell'
    BY <1>0, <1>1, InStep DEF InInv
  <2> QED
    BY <2>1 DEF CopyInv, InInv, OutInv
<1>2. CASE CopyNext /\ ~In
  <2>1. CopyTyped' /\ Bounded' /\ ~In' /\ OutHolds'
    BY <1>0, <1>2, OutStep DEF OutInv
  <2> QED
    BY <2>1 DEF CopyInv, InInv, OutInv
<1>3. CASE UNCHANGED copyVars
  <2>1. /\ CopyTyped' = CopyTyped /\ Bounded' = Bounded
        /\ In' = In /\ UserHolds' = UserHolds /\ WorkerHolds' = WorkerHolds
    BY <1>3 DEF copyVars, CopyTyped, Bounded, In, UserHolds, Flagged, WorkerHolds
  <2>2. Stream' = Stream /\ Written' = Written /\ ToSend' = ToSend
    BY <1>3 DEF copyVars, Stream, Sofar, Ending, Written, ToSend
  <2>3. Ordered => Ordered'
    <3>1. wire' = wire /\ buffer' = buffer /\ lost' = lost
      BY <1>3 DEF copyVars
    <3> SUFFICES ASSUME Ordered PROVE Ordered'
      OBVIOUS
    <3> QED
      BY <1>0, <2>2, <3>1, SameOrdered
  <2>4. EndsWell => EndsWell'
    <3> HIDE DEF Written
    <3> QED
      BY <1>3, <2>2 DEF copyVars, EndsWell
  <2>5. OutHolds => OutHolds'
    <3>1. Full' = Full /\ AllRows' = AllRows
      BY <1>3 DEF copyVars, Full, AllRows
    <3> HIDE DEF Full, AllRows
    <3> QED
      BY <1>3, <3>1 DEF copyVars, OutHolds
  <2> QED
    BY <1>0, <2>1, <2>3, <2>4, <2>5 DEF CopyInv, InInv, OutInv
<1> QED
  BY <1>1, <1>2, <1>3

LEMMA CopyInitHolds ==
  CopyInit => CopyTyped /\ Bounded /\ InInv /\ (~BinaryRows => OutInv)
<1> SUFFICES ASSUME CopyInit PROVE CopyTyped /\ Bounded /\ InInv /\ (~BinaryRows => OutInv)
  OBVIOUS
<1>1. copy \in CopyType
  BY CopyAssumption DEF CopyInit, CopyType
<1>2. /\ user = [at |-> "block", todo |-> <<>>, exc |-> FALSE, outcome |-> "none"]
      /\ buffer = <<>> /\ signature_sent = FALSE /\ finished = FALSE
      /\ queue = <<>> /\ worker = "none" /\ worker_error = FALSE
      /\ server = "copying" /\ lost = FALSE /\ data = <<>>
  BY DEF CopyInit
<1>3. user \in UserType
  BY <1>2, SeqFacts DEF UserType, Places, Outcomes
<1>a. Outgoing(copy.size, copy.binary, Done) \in Seq(Int) /\ AllRows \in Seq(Int)
  <2>1. PICK n \in Nat : n = copy.size
    BY <1>1 DEF CopyType
  <2>2. [i \in 1..n |-> i] \in Seq(Int)
    <3>1. [i \in 1..n |-> i] \in [1..n -> Int]
      OBVIOUS
    <3> QED
      BY <3>1, IsASeq
  <2>3. PICK r \in Seq(Int) : r = [i \in 1..n |-> i]
    BY <2>2
  <2>4. PICK a \in Seq(Int), b \in Seq(Int), c \in Seq(Int) :
          /\ a = (IF copy.binary THEN <<Signature>> ELSE <<>>)
          /\ b = (IF copy.binary THEN <<Trailer>> ELSE <<>>) /\ c = <<Done>>
    <3>1. /\ (IF copy.binary THEN <<Signature>> ELSE <<>>) \in Seq(Int)
          /\ (IF copy.binary THEN <<Trailer>> ELSE <<>>) \in Seq(Int)
      BY SeqFacts
    <3>2. <<Done>> \in Seq(Int)
      BY DEF Done
    <3> QED
      BY <3>1, <3>2
  <2>5. Outgoing(n, copy.binary, Done) = a \o r \o b \o c
    BY <2>3, <2>4 DEF Outgoing
  <2>6. a \o r \o b \o c \in Seq(Int)
    BY SeqFacts
  <2> QED
    BY <2>1, <2>3, <2>5, <2>6 DEF AllRows
<1>b. /\ buffer \in Seq(Int) /\ data \in Seq(Int) /\ queue \in Seq(Seq(Int)) /\ <<>> \in Seq(Int)
      /\ signature_sent \in BOOLEAN /\ finished \in BOOLEAN /\ lost \in BOOLEAN
      /\ worker_error \in BOOLEAN /\ worker \in Workers /\ server \in Servers
  <2>1. buffer \in Seq(Int) /\ data \in Seq(Int) /\ queue \in Seq(Seq(Int)) /\ <<>> \in Seq(Int)
    BY <1>2, SeqFacts
  <2> QED
    BY <1>2, <2>1 DEF Workers, Servers
<1>c. Bounded
  <2>1. user.at = "block" /\ user.outcome = "none" /\ worker_error = FALSE /\ worker = "none"
    BY <1>2
  <2>2. Len(buffer) = 0 /\ Len(queue) = 0
    BY <1>2
  <2>3. BufferRows \in Nat /\ QueueSize \in Nat
    BY CopyAssumption
  <2>4. Len(buffer) <= BufferRows /\ Len(queue) <= QueueSize
    BY <2>2, <2>3
  <2>5. (user.at = "left") = (user.outcome # "none")
    BY <2>1
  <2>6. worker_error = (worker = "dead")
    BY <2>1
  <2> QED
    BY <2>4, <2>5, <2>6 DEF Bounded
<1>4. CASE In
  <2>1. copy.size = 0 /\ wire = <<>>
    BY <1>4 DEF CopyInit
  <2>2. CopyTyped
    BY <1>1, <1>3, <1>b, <2>1 DEF CopyTyped
  <2>4. UserHolds /\ WorkerHolds
    BY <1>2 DEF UserHolds, Flagged, WorkerHolds
  <2>5. EndsWell
    BY <1>2 DEF EndsWell
  <2>6. Ordered
    <3>1. Stream = <<>> /\ ToSend = <<>>
      BY <1>2 DEF Stream, Sofar, ToSend
    <3>2. InOrder(<<>>, <<>>, <<>>, <<>>)
      <4>1. PICK e \in Seq(Int) : e = <<>>
        BY SeqFacts
      <4>2. Splits(<<e>>, e)
        BY SplitOne
      <4>3. <<e>> \in Seq(Seq(Int))
        BY SeqFacts
      <4>4. Splits(<<e>> \o <<e>>, e \o e)
        BY <4>2, <4>3, SplitConcat
      <4>5. PICK ps \in Seq(Seq(Int)) : ps = <<e>> \o <<e>>
        BY <4>3, SeqFacts
      <4>6. Len(ps) = 2 /\ ps[1] = e /\ ps[2] = e
        BY <4>3, <4>5
      <4>a. e \o e = e
        BY <4>1
      <4>7. Splits(ps, e)
        BY <4>4, <4>5, <4>a
      <4>8. IsPieces(ps, e, <<>>, e)
        BY <4>6 DEF IsPieces
      <4> QED
        BY <4>1, <4>7, <4>8 DEF InOrder
    <3>3. InOrder(wire, ToSend, buffer, Stream)
      BY <1>2, <2>1, <3>1, <3>2
    <3> QED
      BY <2>2, <3>3, OrderedIf
  <2> QED
    BY <1>4, <1>c, <2>2, <2>4, <2>5, <2>6 DEF InInv, OutInv
<1>5. CASE ~In
  <2>1. ~copy.queued /\ (~BinaryRows => ~(copy.rows /\ copy.binary))
    BY <1>5, <1>1 DEF CopyInit, CopyType
  <2>2. wire = Outgoing(copy.size, copy.binary, Done) \/ wire = Append(AllRows, Failed)
    BY <1>5 DEF CopyInit, AllRows
  <2>3. wire \in Seq(Int)
    <3>1. Append(AllRows, Failed) \in Seq(Int)
      <4>1. AllRows \in Seq(Int) /\ Failed \in Int
        BY <1>a DEF Failed
      <4> HIDE DEF AllRows
      <4> QED
        BY <4>1
    <3> QED
      BY <1>a, <2>2, <3>1
  <2>4. CopyTyped
    BY <1>1, <1>3, <1>b, <2>3 DEF CopyTyped
  <2>5. ASSUME ~BinaryRows
        PROVE  data \o wire = Full \/ data \o wire = Append(AllRows, Failed)
    <3>1. data \o wire = wire
      BY <1>2, <2>3
    <3>2. (copy.binary /\ ~copy.rows) = copy.binary
      BY <1>1, <2>1, <2>5 DEF CopyType
    <3>3. Full = Outgoing(copy.size, copy.binary, Done)
      BY <3>2 DEF Full
    <3> QED
      BY <2>2, <3>1, <3>3
  <2>6. ASSUME ~BinaryRows PROVE OutHolds
    <3> HIDE DEF Full, AllRows
    <3> QED
      BY <1>2, <2>1, <2>5, <2>6 DEF OutHolds
  <2> QED
    BY <1>5, <1>c, <2>4, <2>6 DEF InInv, OutInv
<1> QED
  BY <1>4, <1>5

\* which holds at first,
LEMMA CopyInvInit == ASSUME ~BinaryRows PROVE CopyInit => CopyInv
  BY CopyInitHolds DEF CopyInv

\* and therefore always.
LEMMA CopyInvHolds == ASSUME ~BinaryRows PROVE CopySpec => []CopyInv
  BY CopyInvInit, CopyInvNext, PTL DEF CopySpec

\* What the invariant says of the properties.
LEMMA CopyInvKeeps == CopyInv => CopyTypeOK /\ CopyKeepsData /\ CopyLeavesConnection
<1> SUFFICES ASSUME CopyInv PROVE CopyTypeOK /\ CopyKeepsData /\ CopyLeavesConnection
  OBVIOUS
<1>0. CopyTyped /\ Bounded /\ InInv /\ OutInv
  BY DEF CopyInv
<1>1. CopyTypeOK
  BY <1>0 DEF CopyTypeOK, CopyTyped, Bounded, CopyType, UserType, Places, Outcomes, Workers, Servers
<1>2. WrittenInOrder
  <2> SUFFICES ASSUME In PROVE IsPrefix(wire, Written) /\ (user.outcome = "ok" => wire = Written /\ server = "done")
    BY DEF WrittenInOrder
  <2>1. Ordered /\ EndsWell
    BY <1>0 DEF InInv
  <2>2. IsPrefix(wire, Written)
    <3>1. Written = Sofar \o Ending /\ Ending \in Seq(Int) /\ Sofar \in Seq(Int) /\ wire \in Seq(Int)
      BY <1>0, WrittenIs, EndingTyped, ToSendTyped
    <3>2. CASE Stream = Sofar
      BY <2>1, <3>1, <3>2, PrefixConcat DEF Ordered
    <3>3. CASE Stream = Sofar \o Ending
      BY <2>1, <3>1, <3>3 DEF Ordered
    <3> QED
      BY <3>2, <3>3 DEF Stream
  <2> HIDE DEF Written
  <2> QED
    BY <2>1, <2>2 DEF EndsWell
<1>3. ReadToTheEnd
  <2> SUFFICES ASSUME ~In, finished, user.at \in {"block", "left"}, user.outcome # "raised"
               PROVE  Append(data, Done) = Full
    BY DEF ReadToTheEnd, Full
  <2>1. user.at = "block" \/ user.outcome = "ok"
    BY <1>0 DEF Bounded, CopyTyped, UserType, Outcomes
  <2> HIDE DEF Full
  <2> QED
    BY <1>0, <2>1 DEF OutInv, OutHolds
<1>4. CopyLeavesConnection
  <2>1. CASE In
    BY <1>0, <2>1 DEF CopyLeavesConnection, InInv, WorkerHolds, EndsWell
  <2>2. CASE ~In
    BY <1>0, <2>2 DEF CopyLeavesConnection, OutInv, OutHolds, Active
  <2> QED
    BY <2>1, <2>2
<1> QED
  BY <1>1, <1>2, <1>3, <1>4 DEF CopyKeepsData

\* A COPY FROM keeps its invariant, whatever a COPY TO does.
FromInv == In => CopyTyped /\ Bounded /\ InInv

\* A COPY FROM needs nothing known of a COPY TO.
LEMMA FromInvHolds == CopySpec => []FromInv
<1>1. CopyInit => FromInv
  BY CopyInitHolds DEF FromInv
<1>2. FromInv /\ [CopyNext]_copyVars => FromInv'
  <2> SUFFICES ASSUME FromInv, [CopyNext]_copyVars PROVE FromInv'
    OBVIOUS
  <2>1. CASE In
    <3>1. CopyInv
      BY <2>1 DEF FromInv, CopyInv, OutInv
    <3> QED
      BY <3>1, CopyInvNext DEF FromInv, CopyInv
  <2>2. CASE ~In
    <3>1. copy' = copy
      BY DEF CopyNext, Leaving, CopyWorker, write_row, write, exit, read, read_row, exit_out,
         LibpqWriter_write, QueuedLibpqWriter_write, write_ends, finish_queue, finish_join,
         finish_libpq, copy_end, end_copy_out, worker_get, worker_sent, server_fails,
         connection_lost, copyVars
    <3> QED
      BY <2>2, <3>1 DEF FromInv, In
  <2> QED
    BY <2>1, <2>2
<1> QED
  BY <1>1, <1>2, PTL DEF CopySpec

\* What the server gets of a COPY FROM is what was written, in order, and all
\* of it when the block works; and a COPY TO that ends well was read to its end.
THEOREM CopyCorrect ==
  ASSUME ~BinaryRows
  PROVE  CopySpec => []CopyKeepsData
  BY CopyInvHolds, CopyInvKeeps, PTL

\* What is sent of a COPY FROM is in order, and all of it when the block works,
\* through the buffer, the chunks and the queue of another thread.
THEOREM CopyFromCorrect == CopySpec => []WrittenInOrder
<1>1. FromInv => WrittenInOrder
  <2> SUFFICES ASSUME FromInv, In PROVE WrittenInOrder
    BY DEF WrittenInOrder
  <2>1. CopyInv
    BY DEF FromInv, CopyInv, OutInv
  <2> QED
    BY <2>1, CopyInvKeeps DEF CopyKeepsData
<1> QED
  BY <1>1, FromInvHolds, PTL

\* The user and the worker of a queued writer are never both in libpq, and a
\* block left with an exception leaves the connection out of the COPY.
THEOREM CopyLeavesCorrect ==
  ASSUME ~BinaryRows
  PROVE  CopySpec => []CopyLeavesConnection
  BY CopyInvHolds, CopyInvKeeps, PTL

-----------------------------------------------------------------------------
(* A connection, used for a COPY or by cursors                              *)

\* What is used keeps its specification, and so does what is at rest.
LEMMA StatementsParts == Spec => CopySpec /\ CursorsSpec
<1>1. Init => CopyInit /\ CursorsInit
  BY DEF Init, NoCopy, NoCursors
<1>2. [Next]_<<part, copyVars, cursorsVars>> => [CopyNext]_copyVars /\ [CursorsNext]_cursorsVars
  BY DEF Next
<1> QED
  BY <1>1, <1>2, PTL DEF Spec, CopySpec, CursorsSpec

\* The state of a COPY block, of the cursors, of the portals and of what is in
\* flight is as it should be.
THEOREM StatementsTyped ==
  ASSUME ~BinaryRows
  PROVE  Spec => []StatementsTypeOK
<1>1. CursorsInv => CursorsTypeOK
  BY CursorsInvKeeps
<1>2. CopyInv => CopyTypeOK
  BY CopyInvKeeps
<1> QED
  BY <1>1, <1>2, StatementsParts, CopyInvHolds, CursorsInvHolds, PTL DEF StatementsTypeOK

\* Nothing is left on the connection by a COPY block, a call, an interrupted
\* call, a stream() left at any row, nor by a server cursor that was closed:
\* neither a COPY, nor a worker in libpq, nor unread results, nor a portal.
THEOREM StatementsLeaveNothing ==
  ASSUME ~BinaryRows
  PROVE  Spec => []LeavesNothingBehind
<1>1. CursorsInv => NothingInFlight /\ ClosedLeavesNothing
  BY CursorsInvKeeps
<1>2. CopyInv => CopyLeavesConnection
  BY CopyInvKeeps
<1> QED
  BY <1>1, <1>2, StatementsParts, CopyInvHolds, CursorsInvHolds, PTL DEF LeavesNothingBehind
=============================================================================
