-------------------------- MODULE EarlyChatProofs ---------------------------
(***************************************************************************)
(* Proofs about the chat of phases 1 to 3, for any number of clients,      *)
(* names and descriptors: which client a name belongs to, and the order in *)
(* which texts reach the screen.                                           *)
(***************************************************************************)
EXTENDS EarlyChat, SequenceTheorems, TLAPS

(* A queue without its k-th packet. *)
Without(r, q, k) ==
    /\ Len(q) = Len(r) + 1
    /\ \A i \in DOMAIN r : r[i] = IF i < k THEN q[i] ELSE q[i + 1]

(* Every packet of r was in q.                                             *)
Among(r, q) == \A i \in DOMAIN r : \E j \in DOMAIN q : r[i] = q[j]

(* What is appended to the second of two sequences is behind both.         *)
LEMMA AppendBehind ==
  ASSUME NEW S, NEW b \in Seq(S), NEW q \in Seq(S), NEW m \in S
  PROVE  b \o Append(q, m) = Append(b \o q, m)
  <1>1. Append(q, m) = q \o <<m>> /\ Append(b \o q, m) = (b \o q) \o <<m>>
    BY AppendIsConcat, ConcatProperties
  <1>2. <<m>> \in Seq(S)
    OBVIOUS
  <1> QED
    BY <1>1, <1>2, ConcatAssociative

(* Where the parts of a joined sequence are. *)
Parts(x, b, q, e, l) ==
    /\ e \in Nat /\ l \in Nat /\ DOMAIN x = 1 .. e + l /\ Len(x) = e + l
    /\ DOMAIN b = 1 .. e /\ DOMAIN q = 1 .. l
    /\ \A i \in 1 .. e : x[i] = b[i]
    /\ \A i \in 1 .. l : x[e + i] = q[i]

(* A joined sequence consists of its parts.                                *)
LEMMA Joined ==
  ASSUME NEW S, NEW b \in Seq(S), NEW q \in Seq(S)
  PROVE  Parts(b \o q, b, q, Len(b), Len(q))
  <1> DEFINE x == b \o q  e == Len(b)  l == Len(q)
  <1>1. /\ Len(x) = e + l /\ x \in Seq(S) /\ e \in Nat /\ l \in Nat
        /\ \A i \in 1 .. e + l : x[i] = IF i <= e THEN b[i] ELSE q[i - e]
    BY ConcatProperties, LenProperties
  <1>2. DOMAIN b = 1 .. e /\ DOMAIN q = 1 .. l
    BY LenProperties
  <1> HIDE DEF x, e, l
  <1>3. DOMAIN x = 1 .. e + l
    BY <1>1, LenProperties
  <1>4. \A i \in 1 .. e : x[i] = b[i]
    BY <1>1
  <1>5. \A i \in 1 .. l : x[e + i] = q[i]
    <2> TAKE i \in 1 .. l
    <2>1. e + i \in 1 .. e + l /\ ~(e + i <= e) /\ (e + i) - e = i
      BY <1>1
    <2> QED
      BY <1>1, <2>1
  <1>6. Parts(x, b, q, e, l)
    BY <1>1, <1>2, <1>3, <1>4, <1>5 DEF Parts
  <1> QED
    BY <1>6 DEF x, e, l

(* What recv() leaves when it takes n packets. *)
CutAt(r, q, n, l) ==
    /\ l \in Nat /\ n \in 1 .. l /\ Len(q) = l /\ DOMAIN q = 1 .. l
    /\ Len(r) = l - n
    /\ \A i \in 1 .. l - n : r[i] = q[n + i]

(* SubSeq cuts the first n off, and they begin with the head.              *)
LEMMA Cuts ==
  ASSUME NEW S, NEW q \in Seq(S), NEW n \in DOMAIN q
  PROVE  /\ SubSeq(q, n + 1, Len(q)) \in Seq(S)
         /\ CutAt(SubSeq(q, n + 1, Len(q)), q, n, Len(q))
         /\ Head(q) \in S /\ Head(q) = q[1]
  <1> DEFINE l == Len(q)  a == n + 1
  <1>1. l \in Nat /\ n \in 1 .. l /\ DOMAIN q = 1 .. l
    BY LenProperties
  <1>2. a \in 1 .. l + 1 /\ l - a + 1 = l - n /\ \A i \in Int : a + i - 1 = n + i
    <2> HIDE DEF l
    <2> QED
      BY <1>1
  <1> DEFINE r == SubSeq(q, a, l)
  <1>3. r \in Seq(S) /\ Len(r) = IF a <= l THEN l - a + 1 ELSE 0
    <2> HIDE DEF a
    <2> QED
      BY <1>1, <1>2, SubSeqProperties
  <1>4. \A i \in 1 .. l - a + 1 : r[i] = q[a + i - 1]
    <2> HIDE DEF a
    <2> QED
      BY <1>1, <1>2, SubSeqProperties
  <1>5. q # <<>> /\ Head(q) = q[1] /\ Head(q) \in S
    BY <1>1, EmptySeq, HeadTailProperties
  <1> HIDE DEF r, l
  <1>6. Len(r) = l - n
    BY <1>1, <1>2, <1>3, SMTT(30)
  <1>7. \A i \in 1 .. l - n : r[i] = q[n + i]
    <2> TAKE i \in 1 .. l - n
    <2>1. i \in 1 .. l - a + 1 /\ a + i - 1 = n + i
      BY <1>1, <1>2
    <2> HIDE DEF a
    <2> QED
      BY <1>4, <2>1
  <1>8. CutAt(r, q, n, l)
    BY <1>1, <1>6, <1>7 DEF CutAt, l
  <1> QED
    BY <1>3, <1>5, <1>8 DEF r, l

(* What was put aside is taken from its front. *)
LEMMA FromFront ==
  ASSUME NEW S, NEW b \in Seq(S), NEW q \in Seq(S), b # <<>>
  PROVE  /\ Tail(b) \in Seq(S) /\ Head(b) \in S
         /\ Among(Tail(b) \o q, b \o q)
         /\ 1 \in DOMAIN (b \o q) /\ (b \o q)[1] = Head(b)
         /\ Without(Tail(b) \o q, b \o q, 1)
  <1> DEFINE t == Tail(b)
             x == b \o q
             y == t \o q
             e == Len(b)
             l == Len(q)
  <1>1. e \in Nat /\ e # 0 /\ t \in Seq(S) /\ Len(t) = e - 1
        /\ Head(b) = b[1] /\ Head(b) \in S /\ \A i \in 1 .. e - 1 : t[i] = b[i + 1]
    BY LenProperties, EmptySeq, HeadTailProperties
  <1> HIDE DEF t
  <1>2. Parts(x, b, q, e, l) /\ Parts(y, t, q, e - 1, l)
    BY <1>1, Joined
  <1> HIDE DEF x, y, e, l
  <1> USE DEF Parts
  <1>3. ASSUME NEW i \in DOMAIN y PROVE y[i] = x[i + 1] /\ i + 1 \in DOMAIN x /\ ~(i < 1)
    <2>1. i \in 1 .. (e - 1) + l /\ i + 1 \in 1 .. e + l
      BY <1>1, <1>2
    <2>2. CASE i <= e - 1
      <3>1. i \in 1 .. e - 1 /\ i + 1 \in 1 .. e
        BY <1>1, <2>1, <2>2
      <3>2. y[i] = t[i] /\ x[i + 1] = b[i + 1] /\ t[i] = b[i + 1]
        BY <1>1, <1>2, <3>1
      <3> QED
        BY <1>2, <2>1, <3>2
    <2>3. CASE ~(i <= e - 1)
      <3> DEFINE o == i - (e - 1)
      <3>1. o \in 1 .. l /\ (e - 1) + o = i /\ e + o = i + 1
        BY <1>1, <1>2, <2>1, <2>3
      <3> HIDE DEF o
      <3>2. y[(e - 1) + o] = q[o] /\ x[e + o] = q[o]
        BY <1>2, <3>1
      <3> QED
        BY <1>2, <2>1, <3>1, <3>2
    <2> QED
      BY <2>1, <2>2, <2>3
  <1>4. Among(y, x)
    BY <1>3 DEF Among
  <1>5. 1 \in DOMAIN x /\ x[1] = Head(b)
    BY <1>1, <1>2
  <1>6. Len(x) = Len(y) + 1
    BY <1>1, <1>2
  <1>7. Without(y, x, 1)
    BY <1>3, <1>6 DEF Without
  <1> QED
    BY <1>1, <1>4, <1>5, <1>7 DEF t, x, y

-----------------------------------------------------------------------------
(* Orders of texts. *)

(* A sequence keeps its own texts.                                         *)
LEMMA KeepsItself ==
  ASSUME NEW s, NEW all \in BOOLEAN
  PROVE  Keeps(s, s, all)
  <1> DEFINE T == TextsIn(s)  at == [i \in T |-> i]
  <1>1. at \in [T -> T] /\ \A i \in T : at[i] = i
    OBVIOUS
  <1> HIDE DEF T, at
  <1>2. /\ \A i \in T : s[at[i]] = s[i]
        /\ \A i, j \in T : i < j => at[i] < at[j]
        /\ all => \A k \in T : \E i \in T : at[i] = k
    BY <1>1
  <1> QED
    BY <1>1, <1>2 DEF Keeps, T

(* What is kept of what was kept is kept.                                  *)
LEMMA KeepsOfKept ==
  ASSUME NEW r, NEW s, NEW t, NEW all \in BOOLEAN, Keeps(r, s, all), Keeps(s, t, all)
  PROVE  Keeps(r, t, all)
  <1> DEFINE R == TextsIn(r)  S == TextsIn(s)  T == TextsIn(t)
  <1>1. PICK f \in [R -> S] :
          /\ \A i \in R : s[f[i]] = r[i]
          /\ \A i, j \in R : i < j => f[i] < f[j]
          /\ all => \A k \in S : \E i \in R : f[i] = k
    BY DEF Keeps
  <1>2. PICK g \in [S -> T] :
          /\ \A i \in S : t[g[i]] = s[i]
          /\ \A i, j \in S : i < j => g[i] < g[j]
          /\ all => \A k \in T : \E i \in S : g[i] = k
    BY DEF Keeps
  <1> DEFINE at == [i \in R |-> g[f[i]]]
  <1>3. at \in [R -> T] /\ \A i \in R : at[i] = g[f[i]] /\ f[i] \in S
    OBVIOUS
  <1> HIDE DEF R, S, T, at
  <1>4. \A i \in R : t[at[i]] = r[i]
    BY <1>1, <1>2, <1>3
  <1>5. \A i, j \in R : i < j => at[i] < at[j]
    <2>1. \A i, j \in R : i < j => f[i] < f[j]
      BY <1>1, Zenon
    <2>2. \A i, j \in S : i < j => g[i] < g[j]
      BY <1>2, Zenon
    <2> QED
      BY ONLY <1>3, <2>1, <2>2, Zenon
  <1>6. all => \A k \in T : \E i \in R : at[i] = k
    <2> SUFFICES ASSUME all, NEW k \in T PROVE \E i \in R : at[i] = k
      OBVIOUS
    <2>1. PICK o \in S : g[o] = k
      BY <1>2, Zenon
    <2>2. PICK i \in R : f[i] = o
      BY <1>1, Zenon
    <2> QED
      BY <1>3, <2>1, <2>2
  <1> QED
    BY <1>3, <1>4, <1>5, <1>6 DEF Keeps, R, T

(* What keeps all texts keeps some.                                        *)
LEMMA KeepsLess ==
  ASSUME NEW s, NEW t, NEW all \in BOOLEAN, NEW fewer \in BOOLEAN, (fewer => all), Keeps(s, t, all)
  PROVE  Keeps(s, t, fewer)
  BY DEF Keeps

(* What is joined keeps its order if its parts do. *)
LEMMA KeepsJoined ==
  ASSUME NEW S, NEW a \in Seq(S), NEW b \in Seq(S), NEW c \in Seq(S), NEW d \in Seq(S),
         NEW all \in BOOLEAN, Keeps(a, b, all), Keeps(c, d, all)
  PROVE  Keeps(a \o c, b \o d, all)
  <1> DEFINE x == a \o c  y == b \o d
             A == TextsIn(a)  B == TextsIn(b)  C == TextsIn(c)  D == TextsIn(d)
             X == TextsIn(x)  Y == TextsIn(y)
             la == Len(a)  lb == Len(b)  lc == Len(c)  ld == Len(d)
  <1>1. PICK f \in [A -> B] :
          /\ \A i \in A : b[f[i]] = a[i]
          /\ \A i, j \in A : i < j => f[i] < f[j]
          /\ all => \A k \in B : \E i \in A : f[i] = k
    BY DEF Keeps
  <1>2. PICK g \in [C -> D] :
          /\ \A i \in C : d[g[i]] = c[i]
          /\ \A i, j \in C : i < j => g[i] < g[j]
          /\ all => \A k \in D : \E i \in C : g[i] = k
    BY DEF Keeps
  <1>3. Parts(x, a, c, la, lc) /\ Parts(y, b, d, lb, ld)
    BY Joined
  <1>4. /\ A = {i \in 1 .. la : a[i].kind = "MESSAGE"} /\ B = {i \in 1 .. lb : b[i].kind = "MESSAGE"}
        /\ C = {i \in 1 .. lc : c[i].kind = "MESSAGE"} /\ D = {i \in 1 .. ld : d[i].kind = "MESSAGE"}
    BY <1>3 DEF TextsIn, Parts
  <1>5. /\ X = {i \in 1 .. la + lc : x[i].kind = "MESSAGE"}
        /\ Y = {i \in 1 .. lb + ld : y[i].kind = "MESSAGE"}
    <2> HIDE DEF x, y, la, lb, lc, ld
    <2> QED
      BY <1>3 DEF TextsIn, Parts
  <1> HIDE DEF x, y, A, B, C, D, X, Y, la, lb, lc, ld
  <1>6. /\ la \in Nat /\ lb \in Nat /\ lc \in Nat /\ ld \in Nat
        /\ \A i \in 1 .. la : x[i] = a[i]
        /\ \A i \in 1 .. lc : x[la + i] = c[i]
        /\ \A i \in 1 .. lb : y[i] = b[i]
        /\ \A i \in 1 .. ld : y[lb + i] = d[i]
    BY <1>3 DEF Parts
  <1>7. /\ \A i \in A : i \in 1 .. la /\ i \in X
        /\ \A i \in C : i \in 1 .. lc /\ la + i \in X
        /\ \A i \in B : i \in 1 .. lb /\ i \in Y /\ y[i] = b[i]
        /\ \A i \in D : i \in 1 .. ld /\ lb + i \in Y /\ y[lb + i] = d[i]
    <2>1. ASSUME NEW i \in A PROVE i \in 1 .. la /\ i \in X
      BY <1>4, <1>5, <1>6
    <2>2. ASSUME NEW i \in C PROVE i \in 1 .. lc /\ la + i \in X
      <3>1. la + i \in 1 .. la + lc
        BY <1>4, <1>6
      <3> QED
        BY <1>4, <1>5, <1>6, <3>1
    <2>3. ASSUME NEW i \in B PROVE i \in 1 .. lb /\ i \in Y /\ y[i] = b[i]
      BY <1>4, <1>5, <1>6
    <2>4. ASSUME NEW i \in D PROVE i \in 1 .. ld /\ lb + i \in Y /\ y[lb + i] = d[i]
      <3>1. lb + i \in 1 .. lb + ld
        BY <1>4, <1>6
      <3> QED
        BY <1>4, <1>5, <1>6, <3>1
    <2> QED
      BY <2>1, <2>2, <2>3, <2>4
  <1>8. ASSUME NEW i \in X
        PROVE  \/ i \in A /\ i <= la /\ x[i] = a[i]
               \/ i - la \in C /\ i > la /\ x[i] = c[i - la]
    <2>1. i \in 1 .. la + lc /\ x[i].kind = "MESSAGE"
      BY <1>5
    <2>2. CASE i <= la
      BY <1>4, <1>6, <2>1, <2>2
    <2>3. CASE i > la
      <3> DEFINE o == i - la
      <3>1. o \in 1 .. lc /\ la + o = i
        BY <1>6, <2>1, <2>3
      <3> HIDE DEF o
      <3>2. x[i] = c[o]
        BY <1>6, <3>1
      <3>3. o \in C
        BY <1>4, <2>1, <3>1, <3>2
      <3> QED
        BY <2>3, <3>2, <3>3 DEF o
    <2> QED
      BY <1>6, <2>1, <2>2, <2>3
  <1> DEFINE at == [i \in X |-> IF i <= la THEN f[i] ELSE lb + g[i - la]]
  <1>9. /\ \A i \in X : i <= la => i \in A /\ at[i] = f[i] /\ f[i] \in B
        /\ \A i \in X : ~(i <= la) => i - la \in C /\ at[i] = lb + g[i - la] /\ g[i - la] \in D
    <2> SUFFICES ASSUME NEW i \in X
        PROVE  /\ i <= la => i \in A /\ at[i] = f[i] /\ f[i] \in B
               /\ ~(i <= la) => i - la \in C /\ at[i] = lb + g[i - la] /\ g[i - la] \in D
      OBVIOUS
    <2>1. i \in Int /\ la \in Int
      BY <1>5, <1>6
    <2> QED
      BY <1>1, <1>2, <1>8, <2>1
  <1>10. at \in [X -> Y]
    <2>1. ASSUME NEW i \in X PROVE at[i] \in Y
      BY <1>7, <1>9
    <2>2. at = [i \in X |-> at[i]]
      OBVIOUS
    <2> HIDE DEF at
    <2> QED
      BY <2>1, <2>2
  <1> HIDE DEF at
  <1>11. ASSUME NEW i \in X PROVE y[at[i]] = x[i]
    <2>0. i \in Int /\ la \in Int
      BY <1>5, <1>6
    <2>1. CASE i <= la
      BY <1>1, <1>7, <1>8, <1>9, <2>0, <2>1
    <2>2. CASE ~(i <= la)
      <3>1. i - la \in C /\ at[i] = lb + g[i - la] /\ g[i - la] \in D /\ x[i] = c[i - la]
        BY <1>8, <1>9, <2>0, <2>2
      <3> DEFINE o == i - la
      <3> HIDE DEF o
      <3>2. o \in C /\ at[i] = lb + g[o] /\ g[o] \in D /\ x[i] = c[o]
        BY <3>1 DEF o
      <3> QED
        BY <1>2, <1>7, <3>2
    <2> QED
      BY <2>1, <2>2
  <1>12. ASSUME NEW i \in X, NEW j \in X, i < j PROVE at[i] < at[j]
    <2>0. i \in Int /\ j \in Int /\ la \in Int
      BY <1>5, <1>6
    <2>1. CASE j <= la
      <3>1. i <= la
        BY <1>12, <2>0, <2>1
      <3>2. \A h, k \in A : h < k => f[h] < f[k]
        BY <1>1, Zenon
      <3>3. i \in A /\ j \in A /\ at[i] = f[i] /\ at[j] = f[j]
        BY <1>9, <2>1, <3>1
      <3> QED
        BY ONLY <1>12, <3>2, <3>3, Zenon
    <2>2. CASE i <= la /\ ~(j <= la)
      <3>1. at[i] \in 1 .. lb
        BY <1>7, <1>9, <2>2
      <3>2. at[j] = lb + g[j - la] /\ g[j - la] \in 1 .. ld
        BY <1>7, <1>9, <2>2
      <3> DEFINE o == g[j - la]  ai == at[i]  aj == at[j]
      <3> HIDE DEF o, ai, aj
      <3>3. ai < aj
        <4>1. ai \in 1 .. lb /\ aj = lb + o /\ o \in 1 .. ld /\ lb \in Nat /\ ld \in Nat
          BY <1>6, <3>1, <3>2 DEF o, ai, aj
        <4> QED
          BY ONLY <4>1
      <3> QED
        BY <3>3 DEF ai, aj
    <2>3. CASE ~(i <= la)
      <3>1. ~(j <= la)
        BY <1>12, <2>0, <2>3
      <3> DEFINE oi == i - la  oj == j - la
      <3>2. oi < oj
        BY <1>12, <2>0
      <3>3. oi \in C /\ oj \in C /\ at[i] = lb + g[oi] /\ at[j] = lb + g[oj]
        BY <1>9, <2>3, <3>1
      <3> HIDE DEF oi, oj
      <3>4. g[oi] < g[oj]
        <4>1. \A h, k \in C : h < k => g[h] < g[k]
          BY <1>2, Zenon
        <4> QED
          BY ONLY <3>2, <3>3, <4>1, Zenon
      <3>5. g[oi] \in 1 .. ld /\ g[oj] \in 1 .. ld
        BY <1>7, <3>3
      <3> DEFINE u == g[oi]  v == g[oj]
      <3> HIDE DEF u, v
      <3>6. lb + u < lb + v
        <4>1. u < v /\ u \in Int /\ v \in Int /\ lb \in Int
          BY <1>6, <3>4, <3>5 DEF u, v
        <4> QED
          BY ONLY <4>1
      <3> QED
        BY <3>3, <3>6 DEF u, v
    <2> QED
      BY <2>1, <2>2, <2>3
  <1>13. ASSUME all, NEW k \in Y PROVE \E i \in X : at[i] = k
    <2>1. k \in 1 .. lb + ld /\ y[k].kind = "MESSAGE"
      BY <1>5
    <2>2. CASE k <= lb
      <3>1. k \in B
        BY <1>4, <1>6, <2>1, <2>2
      <3>2. PICK i \in A : f[i] = k
        BY <1>1, <1>13, <3>1, Zenon
      <3>3. i \in X /\ i <= la
        BY <1>7
      <3> QED
        BY <1>9, <3>2, <3>3
    <2>3. CASE k > lb
      <3> DEFINE o == k - lb
      <3>1. o \in 1 .. ld /\ lb + o = k
        BY <1>6, <2>1, <2>3
      <3> HIDE DEF o
      <3>2. o \in D
        BY <1>4, <1>6, <2>1, <3>1
      <3>3. PICK i \in C : g[i] = o
        BY <1>2, <1>13, <3>2, Zenon
      <3> DEFINE h == la + i
      <3>4. h \in X /\ ~(h <= la) /\ h - la = i
        BY <1>6, <1>7
      <3> HIDE DEF h
      <3>5. at[h] = lb + g[i]
        BY <1>9, <3>4
      <3> QED
        BY <3>1, <3>3, <3>4, <3>5
    <2> QED
      BY <1>6, <2>1, <2>2, <2>3
  <1>14. Keeps(x, y, all)
    BY <1>10, <1>11, <1>12, <1>13 DEF Keeps, X, Y
  <1> QED
    BY <1>14 DEF x, y

(* What is cut off the front may be missing if there was no text in it. *)
LEMMA KeepsRest ==
  ASSUME NEW S, NEW q \in Seq(S), NEW r \in Seq(S), NEW k \in 0 .. Len(q), NEW all \in BOOLEAN,
         Len(r) = Len(q) - k, \A i \in 1 .. Len(q) - k : r[i] = q[k + i],
         (all => \A i \in 1 .. k : q[i].kind # "MESSAGE")
  PROVE  Keeps(r, q, all)
  <1> DEFINE l == Len(q)  R == TextsIn(r)  Q == TextsIn(q)
  <1>1. l \in Nat /\ k \in 0 .. l /\ \A i \in 1 .. l - k : r[i] = q[k + i]
    BY LenProperties
  <1>2. Q = {i \in 1 .. l : q[i].kind = "MESSAGE"} /\ R = {i \in 1 .. l - k : r[i].kind = "MESSAGE"}
    BY LenProperties DEF TextsIn
  <1>3. all => \A i \in 1 .. k : q[i].kind # "MESSAGE"
    OBVIOUS
  <1> HIDE DEF l, R, Q
  <1> DEFINE at == [i \in R |-> k + i]
  <1>4. \A i \in R : at[i] = k + i /\ k + i \in Q /\ q[k + i] = r[i] /\ i \in Int
    <2> TAKE i \in R
    <2>1. i \in 1 .. l - k /\ r[i].kind = "MESSAGE"
      BY <1>2
    <2>2. k + i \in 1 .. l /\ q[k + i] = r[i]
      BY <1>1, <2>1
    <2> QED
      BY <1>2, <2>1, <2>2
  <1>5. at \in [R -> Q]
    BY <1>4
  <1> HIDE DEF at
  <1>6. \A i \in R : q[at[i]] = r[i]
    BY <1>4
  <1>7. \A i, j \in R : i < j => at[i] < at[j]
    BY <1>1, <1>4
  <1>8. ASSUME all, NEW o \in Q PROVE \E i \in R : at[i] = o
    <2> DEFINE i == o - k
    <2>1. o \in 1 .. l /\ q[o].kind = "MESSAGE"
      BY <1>2
    <2>2. ~(o \in 1 .. k)
      BY <1>3, <1>8, <2>1
    <2>3. i \in 1 .. l - k /\ k + i = o
      BY <1>1, <2>1, <2>2
    <2> HIDE DEF i
    <2>4. i \in R
      BY <1>1, <1>2, <2>1, <2>3
    <2> QED
      BY <1>4, <2>3, <2>4
  <1> QED
    BY <1>5, <1>6, <1>7, <1>8 DEF Keeps, R, Q

-----------------------------------------------------------------------------
(* Types. *)

(* What users type, what clients send and what the server sends.           *)
Commanded == [kind : {"LOGIN", "MESSAGE"}, name : Names] \cup [kind : {"LIST", "QUIT"}]
ToServer == [kind : {"MESSAGE"}, to : Names, text : Clients \X Nat]
       \cup [kind : {"LOGIN"}, name : Names, seq : Nat]
       \cup [kind : {"LIST", "QUIT"}, seq : Nat]
ToClient == [kind : {"MESSAGE"}, from : Names \cup {NoName}, text : Clients \X Nat]
       \cup [kind : {"CONTROL"}, ack : BOOLEAN, replyTo : Nat, name : Names \cup {NoName}]
       \cup [kind : {"LIST"}] \cup {Null}
(* Where clientLoop may be.                                                *)
Places == {"setup", "acquire", "requests", "login", "getUsers", "quit", "poll"}

(* Types of the clients' state, of the streams, and of the server's        *)
(* tables. A sealed stream leaves nothing in a buffer (receivePacket of    *)
(* phase 2).                                                               *)
ClientTypes ==
    /\ pc \in [Clients -> Places]
    /\ curSeqNo \in [Clients -> Nat]
    /\ name \in [Clients -> Names \cup {NoName}]
    /\ requests \in [Clients -> Seq(Commanded)]
StreamTypes ==
    /\ up \in [Clients -> Seq(ToServer)] /\ upBuffer \in [Clients -> Seq(ToServer)]
    /\ down \in [Clients -> Seq(ToClient)] /\ downBuffer \in [Clients -> Seq(ToClient)]
    /\ pktQueue \in [Clients -> Seq(ToClient)] /\ shown \in [Clients -> Seq(ToClient)]
    /\ forwarded \in [Clients -> Seq(ToClient)]
    /\ sealed \in BOOLEAN /\ dropped \in BOOLEAN
    /\ sealed => \A c \in Clients : upBuffer[c] = <<>> /\ downBuffer[c] = <<>>
(* fd is whatever FreeFd chose; nothing proved here depends on it.         *)
Connections(F) == [client : Clients, connected : BOOLEAN, fd : F]
TableTypes ==
    /\ \E F : conns \in Seq(Connections(F))
    /\ names \in Seq(Names \cup {NoName}) /\ Len(names) <= Len(conns)
    /\ index \in [Names -> 0 .. Len(conns)]

(* What is on its way to the server and back, in the order it is read.     *)
Toward(c) == upBuffer[c] \o up[c]
Back(c)   == downBuffer[c] \o down[c]

(* The fields of what a client receives, by its kind.                      *)
LEMMA ToClientKinds ==
  ASSUME NEW p \in ToClient
  PROVE  /\ p.kind = "CONTROL" => p.ack \in BOOLEAN /\ p.replyTo \in Nat /\ p.name \in Names \cup {NoName}
         /\ Null \in ToClient /\ Null.kind = "NULL"
  BY DEF ToClient, Null

(* The fields of what the server receives, by its kind.                    *)
LEMMA ToServerKinds ==
  ASSUME NEW p \in ToServer
  PROVE  /\ p.kind = "MESSAGE" => p.to \in Names /\ p.text \in Clients \X Nat
         /\ p.kind = "LOGIN" => p.name \in Names /\ p.seq \in Nat
         /\ p.kind \in {"LIST", "QUIT"} => p.seq \in Nat
         /\ p.kind \in {"MESSAGE", "LOGIN", "LIST", "QUIT"}
  BY DEF ToServer

(* What one recv() of n packets does to what was buffered and on the wire. *)
LEMMA ReadsFirst ==
  ASSUME NEW S, NEW b \in Seq(S), NEW w \in Seq(S), NEW n \in DOMAIN w,
         sealed \in BOOLEAN, sealed => b = <<>>
  PROVE  /\ First(b, w, n) \in S /\ First(b, w, n) = (b \o w)[1] /\ 1 \in DOMAIN (b \o w)
         /\ Rest(b, w, n) \in Seq(S) /\ Left(w, n) \in Seq(S)
         /\ sealed => Rest(b, w, n) = <<>>
         /\ CutAt(Rest(b, w, n) \o Left(w, n), b \o w, IF sealed THEN n ELSE 1, Len(b \o w))
         /\ n \in Nat
  <1> DEFINE h == SubSeq(w, 1, n)
             v == SubSeq(w, n + 1, Len(w))
             g == b \o h
             x == b \o w
  <1>1. v \in Seq(S) /\ CutAt(v, w, n, Len(w))
    BY Cuts
  <1>2. Len(w) \in Nat /\ n \in 1 .. Len(w) /\ Len(b) \in Nat
    BY LenProperties
  <1>3. h \in Seq(S) /\ Len(h) = n /\ \A i \in 1 .. n : h[i] = w[i]
    <2> DEFINE l == Len(w)
    <2>1. l \in Nat /\ 1 \in 1 .. l + 1 /\ n \in 0 .. l /\ 1 <= n /\ n - 1 + 1 = n
      BY <1>2
    <2>2. h \in Seq(S) /\ Len(h) = n - 1 + 1
      BY <2>1, SubSeqProperties
    <2>3. \A i \in 1 .. n : h[i] = w[i]
      BY <1>2, <2>1, SubSeqProperties
    <2> HIDE DEF h
    <2> QED
      BY <2>1, <2>2, <2>3
  <1> HIDE DEF h, v
  <1>4. h \o v = w
    <2> DEFINE y == h \o v  l == Len(w)
    <2>1. Parts(y, h, v, n, l - n) /\ y \in Seq(S)
      <3>1. Len(v) = l - n
        BY <1>1 DEF CutAt
      <3>2. Parts(y, h, v, Len(h), Len(v)) /\ y \in Seq(S)
        BY <1>1, <1>3, Joined, ConcatProperties
      <3> HIDE DEF y, l
      <3> QED
        BY <1>3, <3>1, <3>2
    <2> HIDE DEF y, l
    <2>2. l \in Nat /\ n \in 1 .. l /\ Len(y) = l
      BY <1>2, <2>1 DEF Parts, l
    <2>3. \A i \in 1 .. l : y[i] = w[i]
      <3> TAKE i \in 1 .. l
      <3>1. CASE i <= n
        BY <1>3, <2>1, <2>2, <3>1 DEF Parts
      <3>2. CASE ~(i <= n)
        <4> DEFINE o == i - n
        <4>1. o \in 1 .. l - n /\ n + o = i
          BY <2>2, <3>2
        <4> HIDE DEF o
        <4>2. y[n + o] = v[o] /\ v[o] = w[n + o]
          BY <1>1, <2>1, <4>1 DEF Parts, CutAt, l
        <4> QED
          BY <4>1, <4>2
      <3> QED
        BY <3>1, <3>2
    <2>4. y = w
      BY <2>1, <2>2, <2>3, SeqEqual DEF l
    <2> QED
      BY <2>4 DEF y
  <1>5. g \in Seq(S) /\ g \o v = x
    <2>1. g \in Seq(S)
      BY <1>3, ConcatProperties
    <2>2. (b \o h) \o v = b \o (h \o v)
      <3> HIDE DEF g, x
      <3>1. b \in Seq(S) /\ h \in Seq(S) /\ v \in Seq(S)
        BY <1>1, <1>3
      <3> QED
        BY ONLY <3>1, ConcatAssociative, SMTT(30)
    <2> QED
      BY <1>4, <2>1, <2>2
  <1>6. Len(g) = Len(b) + n
    BY <1>3, ConcatProperties
  <1> HIDE DEF g
  <1>7. g # <<>>
    <2>1. Len(g) # 0
      BY <1>2, <1>6
    <2> QED
      BY <1>5, <2>1, EmptySeq
  <1>8. /\ Tail(g) \in Seq(S) /\ Head(g) \in S
        /\ 1 \in DOMAIN x /\ x[1] = Head(g)
        /\ Without(Tail(g) \o v, x, 1)
    BY <1>1, <1>5, <1>7, FromFront
  <1>9. First(b, w, n) = Head(g) /\ Left(w, n) = v
        /\ Rest(b, w, n) = IF sealed THEN <<>> ELSE Tail(g)
    BY DEF First, Left, Rest, g, h, v
  <1>10. CASE sealed
    <2>1. x = w /\ <<>> \o v = v
      BY <1>1, <1>10, ConcatEmptySeq
    <2>2. Rest(b, w, n) = <<>> /\ Rest(b, w, n) \o Left(w, n) = v
      BY <1>9, <1>10, <2>1
    <2>3. CutAt(v, x, n, Len(x))
      BY <1>1, <2>1
    <2>4. <<>> \in Seq(S)
      OBVIOUS
    <2>5. n \in Nat
      BY <1>2
    <2> HIDE DEF x
    <2> QED
      BY <1>1, <1>8, <1>9, <1>10, <2>2, <2>3, <2>4, <2>5 DEF x
  <1>11. CASE ~sealed
    <2>1. Rest(b, w, n) = Tail(g) /\ Rest(b, w, n) \o Left(w, n) = Tail(g) \o v
      BY <1>9, <1>11
    <2> DEFINE y == Tail(g) \o v  l == Len(x)
    <2>2. x \in Seq(S)
      BY ConcatProperties
    <2>3. y \in Seq(S)
      BY <1>1, <1>8, ConcatProperties
    <2> HIDE DEF x, y
    <2>4. l \in Nat /\ DOMAIN x = 1 .. l
      BY <2>2, LenProperties
    <2>5. Len(y) \in Nat /\ DOMAIN y = 1 .. Len(y)
      BY <2>3, LenProperties
    <2>6. l = Len(y) + 1 /\ \A i \in DOMAIN y : y[i] = IF i < 1 THEN x[i] ELSE x[i + 1]
      BY <1>8 DEF Without, y
    <2>7. Len(y) = l - 1 /\ 1 \in 1 .. l
      BY <2>4, <2>5, <2>6
    <2>8. \A i \in 1 .. l - 1 : y[i] = x[1 + i]
      <3> TAKE i \in 1 .. l - 1
      <3>1. i \in DOMAIN y /\ ~(i < 1) /\ i + 1 = 1 + i
        BY <2>4, <2>5, <2>7
      <3> QED
        BY <2>6, <3>1
    <2> DEFINE k == 1
    <2>9. CutAt(y, x, k, l)
      <3> HIDE DEF l
      <3>1. CutAt(y, x, 1, l)
        BY <2>4, <2>7, <2>8 DEF CutAt, l
      <3> QED
        BY <3>1
    <2>10. k = IF sealed THEN n ELSE 1
      BY <1>11
    <2> HIDE DEF k
    <2> QED
      BY <1>1, <1>2, <1>8, <1>9, <1>11, <2>1, <2>9, <2>10 DEF x, y
  <1> QED
    BY <1>10, <1>11

(* A sequence with one more element behind it. *)
Longer(r, q, m) ==
    /\ Len(q) \in Nat /\ DOMAIN q = 1 .. Len(q) /\ DOMAIN r = 1 .. Len(q) + 1
    /\ r[Len(q) + 1] = m /\ \A i \in 1 .. Len(q) : r[i] = q[i]

(* Append makes a sequence longer by one.                                  *)
LEMMA IsLonger ==
  ASSUME NEW S, NEW q \in Seq(S), NEW m \in S
  PROVE  Append(q, m) \in Seq(S) /\ Longer(Append(q, m), q, m)
  <1> DEFINE r == Append(q, m)
  <1>1. /\ r \in Seq(S) /\ Len(r) = Len(q) + 1
        /\ \A i \in 1 .. Len(q) : r[i] = q[i]
        /\ r[Len(q) + 1] = m
    BY AppendProperties
  <1> HIDE DEF r
  <1>2. DOMAIN r = 1 .. Len(r) /\ DOMAIN q = 1 .. Len(q) /\ Len(q) \in Nat
    BY <1>1, LenProperties
  <1>3. Longer(r, q, m)
    BY <1>1, <1>2 DEF Longer
  <1> QED
    BY <1>1, <1>3 DEF r

(* Append to the second of two sequences makes both together longer by     *)
(* one.                                                                    *)
LEMMA LongerBehind ==
  ASSUME NEW S, NEW b \in Seq(S), NEW q \in Seq(S), NEW m \in S
  PROVE  /\ Append(q, m) \in Seq(S)
         /\ b \o Append(q, m) = Append(b \o q, m)
         /\ Longer(b \o Append(q, m), b \o q, m)
  <1> DEFINE x == b \o q
  <1>1. x \in Seq(S) /\ b \o Append(q, m) = Append(x, m)
    BY ConcatProperties, AppendBehind
  <1> HIDE DEF x
  <1>2. Longer(Append(x, m), x, m)
    BY <1>1, IsLonger
  <1> QED
    BY <1>1, <1>2, AppendProperties DEF x

(* A client took p, the first packet that was coming to it. *)
BackTaken(c, p) ==
    /\ down' \in [Clients -> Seq(ToClient)] /\ downBuffer' \in [Clients -> Seq(ToClient)]
    /\ sealed' = sealed /\ dropped' \in BOOLEAN /\ (dropped => dropped')
    /\ sealed => \A d \in Clients : downBuffer'[d] = <<>>
    /\ p \in ToClient /\ 1 \in DOMAIN Back(c) /\ p = Back(c)[1]
    /\ \E k \in Nat : CutAt(Back(c)', Back(c), k, Len(Back(c))) /\ (k > 1 => dropped')
    /\ \A d \in Clients \ {c} : Back(d)' = Back(d)

(* The server took p, the first that was coming from c. *)
TowardTaken(c, p) ==
    /\ up' \in [Clients -> Seq(ToServer)] /\ upBuffer' \in [Clients -> Seq(ToServer)]
    /\ sealed' = sealed /\ dropped' \in BOOLEAN /\ (dropped => dropped')
    /\ sealed => \A d \in Clients : upBuffer'[d] = <<>>
    /\ p \in ToServer /\ 1 \in DOMAIN Toward(c) /\ p = Toward(c)[1]
    /\ \E k \in Nat : CutAt(Toward(c)', Toward(c), k, Len(Toward(c)))
    /\ \A d \in Clients \ {c} : Toward(d)' = Toward(d)

(* recv() and the factory take the first packet that was coming to c.      *)
LEMMA ClientReads ==
  ASSUME StreamTypes, NEW c \in Clients, NEW n \in DOMAIN down[c], Receives(c, n)
  PROVE  BackTaken(c, Received(c, n))
  <1> DEFINE b == downBuffer[c]  w == down[c]
             r == Rest(b, w, n)  v == Left(w, n)
  <1>1. b \in Seq(ToClient) /\ w \in Seq(ToClient) /\ n \in DOMAIN w
        /\ sealed \in BOOLEAN /\ (sealed => b = <<>>)
        /\ dropped \in BOOLEAN
    BY DEF StreamTypes
  <1>2. /\ downBuffer' = [downBuffer EXCEPT ![c] = r] /\ down' = [down EXCEPT ![c] = v]
        /\ dropped' = (dropped \/ (sealed /\ n > 1)) /\ sealed' = sealed
    BY DEF Receives, Joins
  <1> DEFINE x == b \o w  y == r \o v
  <1>3. /\ Received(c, n) \in ToClient /\ Received(c, n) = x[1] /\ 1 \in DOMAIN x
        /\ r \in Seq(ToClient) /\ v \in Seq(ToClient) /\ (sealed => r = <<>>)
        /\ \E k \in Nat : CutAt(y, x, k, Len(x)) /\ (k > 1 => sealed /\ n > 1)
    <2>1. Received(c, n) = First(b, w, n)
      BY DEF Received
    <2> HIDE DEF b, w
    <2>2. /\ First(b, w, n) \in ToClient /\ First(b, w, n) = (b \o w)[1] /\ 1 \in DOMAIN (b \o w)
          /\ Rest(b, w, n) \in Seq(ToClient) /\ Left(w, n) \in Seq(ToClient)
          /\ sealed => Rest(b, w, n) = <<>>
      BY ONLY <1>1, ReadsFirst
    <2> DEFINE k == IF sealed THEN n ELSE 1
    <2>3. CutAt(Rest(b, w, n) \o Left(w, n), b \o w, k, Len(b \o w)) /\ n \in Nat
      BY ONLY <1>1, ReadsFirst
    <2>4. k \in Nat /\ (k > 1 => sealed /\ n > 1)
      BY <2>3
    <2> HIDE DEF k
    <2> QED
      BY <2>1, <2>2, <2>3, <2>4
  <1> HIDE DEF r, v
  <1>4. Back(c) = x /\ Back(c)' = y
    BY <1>2 DEF Back, StreamTypes
  <1>5. \A d \in Clients \ {c} : Back(d)' = Back(d)
    BY <1>2 DEF Back, StreamTypes
  <1>6. /\ downBuffer' \in [Clients -> Seq(ToClient)] /\ down' \in [Clients -> Seq(ToClient)]
        /\ sealed => \A d \in Clients : downBuffer'[d] = <<>>
    BY <1>2, <1>3 DEF StreamTypes
  <1> HIDE DEF b, w, x, y
  <1>7. \E k \in Nat : CutAt(y, x, k, Len(x)) /\ (k > 1 => dropped')
    BY <1>2, <1>3
  <1>8. dropped' \in BOOLEAN /\ (dropped => dropped')
    BY <1>1, <1>2
  <1> DEFINE p == Received(c, n)
  <1> HIDE DEF p
  <1>9. BackTaken(c, p)
    BY <1>2, <1>3, <1>4, <1>5, <1>6, <1>7, <1>8 DEF BackTaken, p
  <1> QED
    BY <1>9 DEF p

(* The server reads what its client sent first.                            *)
LEMMA ServerReads ==
  ASSUME StreamTypes, TableTypes, NEW s, NEW p, ReadsFrom(s, p)
  PROVE  s \in SIDs /\ conns[s].client \in Clients /\ conns[s].connected
         /\ TowardTaken(conns[s].client, p) /\ server = "running"
  <1>0. s \in SIDs /\ conns[s].connected /\ server = "running"
    BY DEF ReadsFrom, WaitForRead
  <1>1. PICK c : c = conns[s].client
    OBVIOUS
  <1>2. c \in Clients
    <2>1. PICK F : conns \in Seq(Connections(F))
      BY DEF TableTypes
    <2>2. conns[s] \in Connections(F)
      BY <1>0, <2>1, ElementOfSeq DEF SIDs
    <2> QED
      BY <1>1, <2>2 DEF Connections
  <1> DEFINE b == upBuffer[c]  w == up[c]
  <1>3. PICK n \in DOMAIN w :
          /\ p = First(b, w, n)
          /\ upBuffer' = [upBuffer EXCEPT ![c] = Rest(b, w, n)]
          /\ up' = [up EXCEPT ![c] = Left(w, n)]
          /\ Joins(n)
    BY <1>1 DEF ReadsFrom
  <1> DEFINE r == Rest(b, w, n)  v == Left(w, n)
  <1>4. b \in Seq(ToServer) /\ w \in Seq(ToServer) /\ n \in DOMAIN w
        /\ sealed \in BOOLEAN /\ (sealed => b = <<>>)
        /\ dropped \in BOOLEAN
    BY <1>2 DEF StreamTypes
  <1>5. /\ upBuffer' = [upBuffer EXCEPT ![c] = r] /\ up' = [up EXCEPT ![c] = v]
        /\ dropped' = (dropped \/ (sealed /\ n > 1)) /\ sealed' = sealed
    BY <1>3 DEF Joins
  <1> DEFINE x == b \o w  y == r \o v
  <1>6. /\ p \in ToServer /\ p = x[1] /\ 1 \in DOMAIN x
        /\ r \in Seq(ToServer) /\ v \in Seq(ToServer) /\ (sealed => r = <<>>)
        /\ \E k \in Nat : CutAt(y, x, k, Len(x))
    <2>1. p = First(b, w, n)
      BY <1>3
    <2> HIDE DEF b, w
    <2>2. /\ First(b, w, n) \in ToServer /\ First(b, w, n) = (b \o w)[1] /\ 1 \in DOMAIN (b \o w)
          /\ Rest(b, w, n) \in Seq(ToServer) /\ Left(w, n) \in Seq(ToServer)
          /\ sealed => Rest(b, w, n) = <<>>
      BY ONLY <1>4, ReadsFirst
    <2> DEFINE k == IF sealed THEN n ELSE 1
    <2>3. CutAt(Rest(b, w, n) \o Left(w, n), b \o w, k, Len(b \o w)) /\ n \in Nat
      BY ONLY <1>4, ReadsFirst
    <2>4. k \in Nat
      BY <2>3
    <2> HIDE DEF k
    <2> QED
      BY <2>1, <2>2, <2>3, <2>4
  <1> HIDE DEF r, v
  <1>7. Toward(c) = x /\ Toward(c)' = y
    BY <1>2, <1>5 DEF Toward, StreamTypes
  <1>8. \A d \in Clients \ {c} : Toward(d)' = Toward(d)
    BY <1>5 DEF Toward, StreamTypes
  <1>9. /\ upBuffer' \in [Clients -> Seq(ToServer)] /\ up' \in [Clients -> Seq(ToServer)]
        /\ sealed => \A d \in Clients : upBuffer'[d] = <<>>
    BY <1>2, <1>5, <1>6 DEF StreamTypes
  <1> HIDE DEF b, w, x, y
  <1>10. dropped' \in BOOLEAN /\ (dropped => dropped')
    BY <1>4, <1>5
  <1>11. TowardTaken(c, p)
    BY <1>5, <1>6, <1>7, <1>8, <1>9, <1>10 DEF TowardTaken
  <1> QED
    BY <1>0, <1>1, <1>2, <1>11

(* p was sent to c: it is the last of those that are coming. *)
BackLonger(c, p) ==
    /\ down' \in [Clients -> Seq(ToClient)]
    /\ Back(c)' = Append(Back(c), p) /\ Longer(Back(c)', Back(c), p)
    /\ \A d \in Clients \ {c} : Back(d)' = Back(d)

(* c has sent p: it is the last of those that are coming from it.          *)
TowardLonger(c, p) ==
    /\ up' \in [Clients -> Seq(ToServer)]
    /\ Longer(Toward(c)', Toward(c), p)
    /\ \A d \in Clients \ {c} : Toward(d)' = Toward(d)

(* SendPacket puts a packet behind all that is coming to its client.       *)
LEMMA ServerSends ==
  ASSUME StreamTypes, NEW c \in Clients, NEW p \in ToClient,
         down' = [down EXCEPT ![c] = Append(@, p)], downBuffer' = downBuffer
  PROVE  BackLonger(c, p)
  <1>1. downBuffer[c] \in Seq(ToClient) /\ down[c] \in Seq(ToClient)
    BY DEF StreamTypes
  <1> DEFINE q == Append(down[c], p)
  <1>2. /\ q \in Seq(ToClient) /\ downBuffer[c] \o q = Append(Back(c), p)
        /\ Longer(downBuffer[c] \o q, Back(c), p)
    <2> DEFINE b == downBuffer[c]  w == down[c]
    <2>1. Back(c) = b \o w
      BY DEF Back
    <2> HIDE DEF b, w
    <2>2. /\ Append(w, p) \in Seq(ToClient)
          /\ b \o Append(w, p) = Append(b \o w, p)
          /\ Longer(b \o Append(w, p), b \o w, p)
      BY <1>1, LongerBehind DEF b, w
    <2> QED
      BY <2>1, <2>2 DEF b, w
  <1> HIDE DEF q
  <1>3. down' = [down EXCEPT ![c] = q]
    BY DEF q
  <1>4. Back(c)' = downBuffer[c] \o q /\ down' \in [Clients -> Seq(ToClient)]
    BY <1>2, <1>3 DEF Back, StreamTypes
  <1>5. \A d \in Clients \ {c} : Back(d)' = Back(d)
    BY <1>3 DEF Back, StreamTypes
  <1> QED
    BY <1>2, <1>4, <1>5 DEF BackLonger

(* A client's packet goes behind all that it sent before.                  *)
LEMMA ClientSends ==
  ASSUME StreamTypes, NEW c \in Clients, NEW p \in ToServer,
         up' = [up EXCEPT ![c] = Append(@, p)], upBuffer' = upBuffer
  PROVE  TowardLonger(c, p)
  <1>1. upBuffer[c] \in Seq(ToServer) /\ up[c] \in Seq(ToServer)
    BY DEF StreamTypes
  <1> DEFINE q == Append(up[c], p)
  <1>2. q \in Seq(ToServer) /\ Longer(upBuffer[c] \o q, Toward(c), p)
    BY <1>1, LongerBehind DEF Toward
  <1> HIDE DEF q
  <1>3. up' = [up EXCEPT ![c] = q]
    BY DEF q
  <1>4. Toward(c)' = upBuffer[c] \o q /\ up' \in [Clients -> Seq(ToServer)]
    BY <1>2, <1>3 DEF Toward, StreamTypes
  <1>5. \A d \in Clients \ {c} : Toward(d)' = Toward(d)
    BY <1>3 DEF Toward, StreamTypes
  <1> QED
    BY <1>2, <1>4, <1>5 DEF TowardLonger

(* The type invariant.                                                     *)
Types == ClientTypes /\ StreamTypes /\ TableTypes

(* Every connection is one of a client.                                    *)
LEMMA ConnectionTyped ==
  ASSUME TableTypes, NEW s \in SIDs
  PROVE  conns[s].client \in Clients
  <1>1. PICK F : conns \in Seq(Connections(F))
    BY DEF TableTypes
  <1>2. conns[s] \in Connections(F)
    BY <1>1, ElementOfSeq DEF SIDs
  <1> QED
    BY <1>2 DEF Connections

(* The types hold at the start.                                            *)
LEMMA InitTyped == ASSUME Init PROVE Types
  <1> USE EarlyChatAssumption
  <1>1. <<>> \in Seq(Commanded) /\ <<>> \in Seq(ToServer) /\ <<>> \in Seq(ToClient)
        /\ <<>> \in Seq(Names \cup {NoName}) /\ <<>> \in Seq(Connections({})) /\ Len(<<>>) = 0
    OBVIOUS
  <1>2. ClientTypes
    BY <1>1 DEF Init, ClientTypes, Places
  <1>3. StreamTypes
    BY <1>1 DEF Init, StreamTypes
  <1>4. TableTypes
    <2>1. index \in [Names -> {0}]
      BY DEF Init, NoSID
    <2>2. names = <<>> /\ conns = <<>>
      BY DEF Init
    <2> QED
      BY <1>1, <2>1, <2>2 DEF TableTypes
  <1> QED
    BY <1>2, <1>3, <1>4 DEF Types

(* The tables keep their types where they do not change.                   *)
LEMMA TablesTyped ==
  ASSUME TableTypes, UNCHANGED <<conns, names, index>>
  PROVE  TableTypes'
  BY DEF TableTypes

(* What is on its way stays typed. *)
LEMMA TakenTyped ==
  ASSUME StreamTypes, NEW c \in Clients, NEW p, BackTaken(c, p), UNCHANGED <<up, upBuffer, forwarded>>,
         pktQueue' \in [Clients -> Seq(ToClient)], shown' \in [Clients -> Seq(ToClient)]
  PROVE  StreamTypes'
  BY DEF StreamTypes, BackTaken

(* The streams keep their types when the server reads from one.            *)
LEMMA ReadTyped ==
  ASSUME StreamTypes, NEW c \in Clients, NEW p, TowardTaken(c, p), downBuffer' = downBuffer,
         UNCHANGED <<pktQueue, shown>>, down' \in [Clients -> Seq(ToClient)],
         forwarded' \in [Clients -> Seq(ToClient)]
  PROVE  StreamTypes'
  BY DEF StreamTypes, TowardTaken

(* A queue with one more element is one of its type.                       *)
LEMMA AppendTyped ==
  ASSUME NEW S, NEW f \in [Clients -> Seq(S)], NEW c \in Clients, NEW x \in S
  PROVE  [f EXCEPT ![c] = Append(@, x)] \in [Clients -> Seq(S)]
  <1>1. Append(f[c], x) \in Seq(S)
    BY AppendProperties
  <1> QED
    BY <1>1

(* The types after what the user does, and after connect().                *)
LEMMA CommandTyped ==
  ASSUME Types, NEW c \in Clients, Command(c) \/ UIStops(c) \/ SetupConnection(c)
  PROVE  Types'
  <1> USE EarlyChatAssumption DEF Types
  <1>1. StreamTypes'
    BY DEF Command, UIStops, SetupConnection, streams, client, tables, StreamTypes
  <1>2. TableTypes'
    BY TablesTyped DEF Command, UIStops, SetupConnection, tables
  <1>3. ClientTypes'
    <2>1. CASE Command(c)
      <3>1. PICK r \in Commands[c] : requests' = [requests EXCEPT ![c] = Append(@, r)]
        BY <2>1 DEF Command
      <3>2. r \in Commanded
        BY DEF Commanded
      <3>3. requests' \in [Clients -> Seq(Commanded)]
        BY <3>1, <3>2, AppendTyped DEF ClientTypes
      <3> QED
        BY <2>1, <3>3 DEF Command, client, ClientTypes
    <2>2. CASE UIStops(c)
      BY <2>2 DEF UIStops, client, ClientTypes
    <2>3. CASE SetupConnection(c)
      BY <2>3 DEF SetupConnection, frontend, ClientTypes, Places
    <2> QED
      BY <2>1, <2>2, <2>3
  <1> QED
    BY <1>1, <1>2, <1>3

(* A request makes a packet of its own kind, numbered with curSeqNo, and   *)
(* only LOGIN and QUIT wait for a reply.                                   *)
LEMMA SentTyped ==
  ASSUME NEW c \in Clients, NEW r \in Commanded, curSeqNo[c] \in Nat
  PROVE  /\ Sent(c, r) \in ToServer
         /\ Waits(r.kind) \in Places
         /\ Sent(c, r).kind = r.kind
         /\ r.kind \in {"LOGIN", "QUIT"} => Sent(c, r).seq = curSeqNo[c]
         /\ Waits(r.kind) = "login" <=> r.kind = "LOGIN"
         /\ Waits(r.kind) = "quit" <=> r.kind = "QUIT"
  BY DEF Sent, Waits, Commanded, ToServer, Places

(* The types after a request, and what it does: one packet is sent, and a  *)
(* login forgets the name.                                                 *)
LEMMA TryGetRequestTyped ==
  ASSUME Types, NEW c \in Clients, TryGetRequest(c)
  PROVE  /\ Types' /\ c \in Clients
         /\ \E r \in Commanded :
              /\ TowardLonger(c, Sent(c, r))
              /\ pc' = [pc EXCEPT ![c] = Waits(r.kind)]
              /\ name' = [name EXCEPT ![c] = IF r.kind = "LOGIN" THEN NoName ELSE @]
  <1> USE DEF Types
  <1>1. requests[c] # <<>> /\ requests[c] \in Seq(Commanded)
    BY DEF TryGetRequest, HasRequest, ClientTypes
  <1>2. PICK r : r = Head(requests[c])
    OBVIOUS
  <1>3. r \in Commanded /\ Tail(requests[c]) \in Seq(Commanded)
    BY <1>1, <1>2, HeadTailProperties
  <1>4. /\ up' = [up EXCEPT ![c] = Append(@, Sent(c, r))]
        /\ pc' = [pc EXCEPT ![c] = Waits(r.kind)]
        /\ name' = [name EXCEPT ![c] = IF r.kind = "LOGIN" THEN NoName ELSE @]
        /\ requests' = [requests EXCEPT ![c] = Tail(@)]
        /\ curSeqNo' = [curSeqNo EXCEPT ![c] = @ + 1]
        /\ UNCHANGED <<pktQueue, shown, sealed, upBuffer, down, downBuffer, dropped, tables>>
    BY <1>2 DEF TryGetRequest
  <1>5. Sent(c, r) \in ToServer /\ Waits(r.kind) \in Places
    BY <1>3, SentTyped DEF ClientTypes
  <1>6. TowardLonger(c, Sent(c, r))
    BY <1>4, <1>5, ClientSends
  <1>7. ClientTypes'
    BY <1>3, <1>4, <1>5 DEF ClientTypes
  <1>8. StreamTypes'
    BY <1>4, <1>6 DEF TowardLonger, StreamTypes, tables
  <1>9. TableTypes'
    BY <1>4, TablesTyped DEF tables
  <1> QED
    BY <1>3, <1>4, <1>6, <1>7, <1>8, <1>9

(* The types after a packet that was not waited for, and what becomes of   *)
(* it.                                                                     *)
LEMMA OtherTyped ==
  ASSUME Types, NEW c \in Clients, OtherThanAck(c) \/ OtherThanList(c)
  PROVE  /\ Types'
         /\ \E p : /\ BackTaken(c, p)
                   /\ PutAside(c, IF pc[c] # "getUsers" /\ p.kind = "CONTROL" THEN Null ELSE p)
                   /\ pc[c] = "getUsers" => p.kind # "LIST"
  <1> USE DEF Types
  <1>1. PICK n \in DOMAIN down[c] :
          /\ Receives(c, n)
          /\ PutAside(c, IF pc[c] # "getUsers" /\ Received(c, n).kind = "CONTROL"
                         THEN Null ELSE Received(c, n))
          /\ pc[c] = "getUsers" => Received(c, n).kind # "LIST"
    <2>1. CASE OtherThanAck(c)
      BY <2>1 DEF OtherThanAck
    <2>2. CASE OtherThanList(c)
      BY <2>2 DEF OtherThanList
    <2> QED
      BY <2>1, <2>2
  <1>2. PICK p : p = Received(c, n)
    OBVIOUS
  <1>3. BackTaken(c, p)
    BY <1>1, <1>2, ClientReads
  <1>4. PICK x : x = IF pc[c] # "getUsers" /\ p.kind = "CONTROL" THEN Null ELSE p
    OBVIOUS
  <1>5. x \in ToClient
    BY <1>3, <1>4 DEF BackTaken, ToClient
  <1>6. pktQueue' \in [Clients -> Seq(ToClient)]
    BY <1>1, <1>2, <1>4, <1>5, AppendTyped DEF PutAside, StreamTypes
  <1>7. /\ UNCHANGED <<pc, curSeqNo, name, requests, shown, up, upBuffer, forwarded>>
        /\ UNCHANGED <<conns, names, index>>
    BY DEF OtherThanAck, OtherThanList, frontend, tables
  <1>8. StreamTypes'
    BY <1>3, <1>6, <1>7, TakenTyped DEF StreamTypes
  <1>9. ClientTypes'
    BY <1>7 DEF ClientTypes
  <1>10. TableTypes'
    BY <1>7, TablesTyped
  <1> QED
    BY <1>1, <1>2, <1>3, <1>8, <1>9, <1>10

(* The types after the reply to a login, and what the client makes of it.  *)
LEMMA LoginReturnsTyped ==
  ASSUME Types, NEW c \in Clients, LoginReturns(c)
  PROVE  /\ Types'
         /\ \E p : /\ BackTaken(c, p) /\ IsReply(c, p)
                   /\ name' = [name EXCEPT ![c] = IF p.ack THEN p.name ELSE @]
  <1> USE DEF Types
  <1>1. PICK n \in DOMAIN down[c] :
          /\ IsReply(c, Received(c, n)) /\ Receives(c, n)
          /\ name' = [name EXCEPT ![c] = IF Received(c, n).ack THEN Received(c, n).name ELSE @]
    BY DEF LoginReturns
  <1>2. PICK p : p = Received(c, n)
    OBVIOUS
  <1>3. BackTaken(c, p)
    BY <1>1, <1>2, ClientReads
  <1>4. p \in ToClient /\ p.kind = "CONTROL" /\ p.name \in Names \cup {NoName}
    <2>1. p \in ToClient /\ p.kind = "CONTROL"
      BY <1>1, <1>2, <1>3 DEF BackTaken, IsReply
    <2> QED
      BY <2>1, ToClientKinds
  <1>5. /\ UNCHANGED <<curSeqNo, pktQueue, requests, shown, up, upBuffer, forwarded>>
        /\ UNCHANGED <<conns, names, index>>
        /\ pc' = [pc EXCEPT ![c] = "requests"]
    BY DEF LoginReturns, frontend, tables
  <1>6. StreamTypes'
    BY <1>3, <1>5, TakenTyped DEF StreamTypes
  <1>7. ClientTypes'
    BY <1>1, <1>2, <1>4, <1>5 DEF ClientTypes, Places
  <1>8. TableTypes'
    BY <1>5, TablesTyped
  <1> QED
    BY <1>1, <1>2, <1>3, <1>6, <1>7, <1>8

(* The types after the reply to a DISCONNECT, which is sent again.         *)
LEMMA QuitRepeatsTyped ==
  ASSUME Types, NEW c \in Clients, QuitRepeats(c)
  PROVE  /\ Types'
         /\ \E p : BackTaken(c, p) /\ IsReply(c, p)
         /\ TowardLonger(c, [kind |-> "QUIT", seq |-> curSeqNo[c]])
  <1> USE DEF Types
  <1>1. PICK n \in DOMAIN down[c] : IsReply(c, Received(c, n)) /\ Receives(c, n)
    BY DEF QuitRepeats
  <1>2. PICK p : p = Received(c, n)
    OBVIOUS
  <1>3. BackTaken(c, p) /\ IsReply(c, p)
    BY <1>1, <1>2, ClientReads
  <1>4. /\ up' = [up EXCEPT ![c] = Append(@, [kind |-> "QUIT", seq |-> curSeqNo[c]])]
        /\ curSeqNo' = [curSeqNo EXCEPT ![c] = @ + 1]
        /\ UNCHANGED <<pc, pktQueue, shown, name, requests, upBuffer, forwarded, conns, names, index>>
    BY DEF QuitRepeats, frontend, tables
  <1>5. PICK m : m = [kind |-> "QUIT", seq |-> curSeqNo[c]]
    OBVIOUS
  <1>6. m \in ToServer
    BY <1>5 DEF ToServer, ClientTypes
  <1>7. TowardLonger(c, m)
    BY <1>4, <1>5, <1>6, ClientSends
  <1>8. StreamTypes'
    BY <1>3, <1>4, <1>7 DEF TowardLonger, StreamTypes, BackTaken
  <1>9. ClientTypes'
    BY <1>4 DEF ClientTypes
  <1>10. TableTypes'
    BY <1>4, TablesTyped
  <1> QED
    BY <1>3, <1>5, <1>7, <1>8, <1>9, <1>10

(* The types after getUsers, and what it took.                             *)
LEMMA GetUsersTyped ==
  ASSUME Types, NEW c \in Clients, GetUsersReturns(c)
  PROVE  /\ Types'
         /\ \/ \E p : BackTaken(c, p) /\ p.kind = "LIST"
            \/ UNCHANGED <<down, downBuffer, dropped>>
  <1> USE DEF Types
  <1>1. /\ UNCHANGED <<requests, curSeqNo, pktQueue, shown, name, up, upBuffer, forwarded>>
        /\ UNCHANGED <<conns, names, index>>
        /\ pc' = [pc EXCEPT ![c] = "requests"]
    BY DEF GetUsersReturns, frontend, tables
  <1>2. ClientTypes'
    BY <1>1 DEF ClientTypes, Places
  <1>3. TableTypes'
    BY <1>1, TablesTyped
  <1>4. CASE \E n \in DOMAIN down[c] : Received(c, n).kind = "LIST" /\ Receives(c, n)
    <2>1. PICK n \in DOMAIN down[c] : Received(c, n).kind = "LIST" /\ Receives(c, n)
      BY <1>4
    <2>2. PICK p : p = Received(c, n)
      OBVIOUS
    <2>3. BackTaken(c, p) /\ p.kind = "LIST"
      BY <2>1, <2>2, ClientReads
    <2>4. StreamTypes'
      BY <1>1, <2>3, TakenTyped DEF StreamTypes
    <2> QED
      BY <1>2, <1>3, <2>3, <2>4
  <1>5. CASE UNCHANGED <<sealed, down, downBuffer, dropped>>
    BY <1>1, <1>2, <1>3, <1>5 DEF StreamTypes
  <1> QED
    BY <1>4, <1>5 DEF GetUsersReturns

(* The screen shows packets.                                               *)
LEMMA ShowTyped ==
  ASSUME StreamTypes, NEW c \in Clients, NEW p \in ToClient, Show(c, p)
  PROVE  shown' \in [Clients -> Seq(ToClient)]
  <1>1. CASE p.kind = "MESSAGE"
    BY <1>1, AppendTyped DEF Show, StreamTypes
  <1>2. CASE p.kind # "MESSAGE"
    BY <1>2 DEF Show, StreamTypes
  <1> QED
    BY <1>1, <1>2

(* The types after a step of the last loop, which never waits for a reply, *)
(* and what it took from the socket or from what was put aside.            *)
LEMMA PollTyped ==
  ASSUME Types, NEW c \in Clients,
         NoMoreRequests(c) \/ PollQueue(c) \/ PollSocket(c) \/ PollEmpty(c)
  PROVE  /\ Types' /\ pc[c] \notin {"login", "quit"} /\ pc'[c] \notin {"login", "quit"}
         /\ \/ UNCHANGED <<pktQueue, shown, down, downBuffer, dropped>>
            \/ \E p : BackTaken(c, p) /\ Show(c, p) /\ pktQueue' = pktQueue /\ pktQueue[c] = <<>>
            \/ /\ PollQueue(c) /\ UNCHANGED <<down, downBuffer, dropped>>
  <1> USE DEF Types
  <1>1. /\ UNCHANGED <<requests, curSeqNo, name, up, upBuffer, forwarded>>
        /\ UNCHANGED <<conns, names, index>>
        /\ \/ pc' = [pc EXCEPT ![c] = "poll"] \/ pc' = [pc EXCEPT ![c] = "acquire"] \/ pc' = pc
    BY DEF NoMoreRequests, PollQueue, PollSocket, PollEmpty, frontend, tables, streams
  <1>2. pc[c] \in {"requests", "acquire", "poll"}
    BY DEF NoMoreRequests, PollQueue, PollSocket, PollEmpty, Awake
  <1>3. ClientTypes' /\ pc[c] \notin {"login", "quit"} /\ pc'[c] \notin {"login", "quit"}
    BY <1>1, <1>2 DEF ClientTypes, Places
  <1>4. TableTypes'
    BY <1>1, TablesTyped
  <1>5. CASE NoMoreRequests(c) \/ PollEmpty(c)
    <2>1. UNCHANGED <<pktQueue, shown, streams>>
      BY <1>5 DEF NoMoreRequests, PollEmpty
    <2> QED
      BY <1>1, <1>3, <1>4, <2>1 DEF StreamTypes, streams
  <1>6. CASE PollSocket(c)
    <2>1. PICK n \in DOMAIN down[c] : Show(c, Received(c, n)) /\ Receives(c, n)
      BY <1>6 DEF PollSocket
    <2>2. PICK p : p = Received(c, n)
      OBVIOUS
    <2>3. BackTaken(c, p) /\ Show(c, p) /\ p \in ToClient
      BY <2>1, <2>2, ClientReads DEF BackTaken
    <2>4. pktQueue' = pktQueue /\ pktQueue[c] = <<>>
      BY <1>6 DEF PollSocket
    <2>5. StreamTypes'
      BY <1>1, <2>3, <2>4, ShowTyped, TakenTyped DEF StreamTypes
    <2> QED
      BY <1>3, <1>4, <2>3, <2>4, <2>5
  <1>7. CASE PollQueue(c)
    <2>1. pktQueue[c] \in Seq(ToClient) /\ pktQueue[c] # <<>>
      BY <1>7 DEF PollQueue, StreamTypes
    <2>2. Head(pktQueue[c]) \in ToClient /\ Tail(pktQueue[c]) \in Seq(ToClient)
      BY <2>1, HeadTailProperties
    <2>3. shown' \in [Clients -> Seq(ToClient)]
      BY <1>7, <2>2, ShowTyped DEF PollQueue
    <2>4. pktQueue' \in [Clients -> Seq(ToClient)] /\ UNCHANGED streams
      BY <1>7, <2>2 DEF PollQueue, StreamTypes
    <2>5. StreamTypes'
      BY <1>1, <2>3, <2>4 DEF StreamTypes, streams
    <2> QED
      BY <1>3, <1>4, <1>7, <2>4, <2>5 DEF streams
  <1> QED
    BY <1>5, <1>6, <1>7

(* The connections there are stay those of their clients. *)
Remembers ==
    /\ SIDs \subseteq SIDs'
    /\ \A s \in SIDs : conns[s].client \in Clients /\ (conns[s].client)' = conns[s].client

(* Connections that did not change belong to whom they did.                *)
LEMMA StillRemembers ==
  ASSUME TableTypes, conns' = conns
  PROVE  Remembers
  BY ConnectionTyped DEF Remembers, SIDs

(* A client that is accepted is behind all connections there were.         *)
LEMMA Accepts ==
  ASSUME Types, NEW c \in Clients, GetConnections(c)
  PROVE  Types' /\ Remembers /\ UNCHANGED <<frontend, client, streams, names, index, forwarded>>
  <1> USE DEF Types
  <1>1. PICK F : conns \in Seq(Connections(F))
    BY DEF TableTypes
  <1>2. PICK f : f = FreeFd
    OBVIOUS
  <1> DEFINE T == Connections(F \cup {f})  z == [client |-> c, connected |-> TRUE, fd |-> f]
  <1>3. Connections(F) \subseteq T /\ z \in T
    BY DEF Connections
  <1>4. conns' = Append(conns, z)
    BY <1>2 DEF GetConnections
  <1>5. conns \in Seq(T)
    <2> HIDE DEF T
    <2> QED
      BY <1>1, <1>3, SeqMonotonic
  <1> HIDE DEF T, z
  <1>6. /\ conns' \in Seq(T) /\ Len(conns') = Len(conns) + 1 /\ Len(conns) \in Nat
        /\ \A s \in 1 .. Len(conns) : conns'[s] = conns[s]
    BY <1>3, <1>4, <1>5, AppendProperties, LenProperties
  <1>7. UNCHANGED <<frontend, client, streams, names, index, forwarded>>
    BY DEF GetConnections
  <1>8. TableTypes'
    <2>1. \E G : conns' \in Seq(Connections(G))
      BY <1>6 DEF T
    <2>2. names' \in Seq(Names \cup {NoName}) /\ Len(names') <= Len(conns')
      <3>1. names \in Seq(Names \cup {NoName}) /\ Len(names) <= Len(conns)
        BY DEF TableTypes
      <3>2. Len(names) \in Nat
        BY <3>1, LenProperties
      <3> QED
        BY <1>6, <1>7, <3>1, <3>2
    <2>3. index' \in [Names -> 0 .. Len(conns')]
      <3>1. 0 .. Len(conns) \subseteq 0 .. Len(conns')
        BY <1>6
      <3> QED
        BY <1>7, <3>1 DEF TableTypes
    <2> QED
      BY <2>1, <2>2, <2>3 DEF TableTypes
  <1>9. ClientTypes' /\ StreamTypes'
    BY <1>7 DEF ClientTypes, StreamTypes, frontend, client, streams
  <1>10. Remembers
    BY <1>6, ConnectionTyped DEF Remembers, SIDs
  <1> QED
    BY <1>7, <1>8, <1>9, <1>10

(* Reading from a closed connection changes nothing but idx.               *)
LEMMA NotConnectedTyped ==
  ASSUME Types, NotConnected
  PROVE  /\ Types'
         /\ UNCHANGED <<frontend, client, streams, conns, names, index, forwarded>>
  <1> USE DEF Types
  <1>1. UNCHANGED <<frontend, client, streams, conns, names, index, forwarded>>
    BY DEF NotConnected
  <1> QED
    BY <1>1, TablesTyped DEF ClientTypes, StreamTypes, frontend, client, streams

(* insert() *)
LEMMA LongerOf ==
  ASSUME NEW i \in Nat, NEW j \in Nat
  PROVE  Max({i, j}) = IF i <= j THEN j ELSE i
  <1> DEFINE m == IF i <= j THEN j ELSE i
             P(x) == \A y \in {i, j} : x >= y
  <1>1. m \in {i, j} /\ P(m)
    OBVIOUS
  <1>2. \A x \in {i, j} : P(x) => x = m
    OBVIOUS
  <1>3. Max({i, j}) = CHOOSE x \in {i, j} : P(x)
    BY DEF Max
  <1> HIDE DEF m, P
  <1>4. (CHOOSE x \in {i, j} : P(x)) = m
    BY <1>1, <1>2
  <1> QED
    BY <1>3, <1>4 DEF m

(* A connection's name leads back to it (mData and reverseMap).            *)
Directory ==
    \A s \in DOMAIN names :
       names[s] # NoName => names[s] \in Names /\ index[names[s]] = s

(* insert() keeps the tables' types, gives the name to s, and takes from   *)
(* the index at most the name s had; a name that was free leaves the       *)
(* directory consistent.                                                   *)
LEMMA Inserts ==
  ASSUME TableTypes, NEW s \in SIDs, NEW n \in Names, Insert(s, n), conns' = conns
  PROVE  /\ TableTypes'
         /\ index'[n] = s
         /\ \A m \in Names : m # n => \/ index'[m] = index[m]
                                      \/ s \in DOMAIN names /\ names[s] = m
         /\ Directory /\ index[n] = NoSID => Directory'
  <1>1. /\ names \in Seq(Names \cup {NoName}) /\ Len(names) <= Len(conns) /\ Len(conns) \in Nat
        /\ index \in [Names -> 0 .. Len(conns)] /\ NoName \notin Names
    BY EarlyChatAssumption, LenProperties DEF TableTypes
  <1>2. s \in 1 .. Len(conns) /\ Len(names) \in Nat /\ DOMAIN names = 1 .. Len(names)
        /\ \A t \in 1 .. Len(names) : names[t] \in Names \cup {NoName}
    BY <1>1, LenProperties, ElementOfSeq DEF SIDs
  <1> DEFINE l == Len(names)
  <1>3. PICK k : k = Max({s, l})
    OBVIOUS
  <1>4. k \in Nat /\ s \in 1 .. k /\ l <= k /\ k <= Len(conns)
    <2>1. k = IF s <= l THEN l ELSE s
      BY <1>2, <1>3, LongerOf
    <2> QED
      BY <1>1, <1>2, <2>1
  <1>5. index' = [m \in Names |-> IF m = n THEN s
                                 ELSE IF s <= l /\ names[s] = m THEN NoSID ELSE index[m]]
        /\ names' = [t \in 1 .. k |-> IF t = s THEN n ELSE IF t <= l THEN names[t] ELSE NoName]
    BY <1>3 DEF Insert
  <1> HIDE DEF l
  <1> USE <1>2 DEF l
  <1>6. names' \in [1 .. k -> Names \cup {NoName}]
    <2>1. \A t \in 1 .. k : (IF t = s THEN n ELSE IF t <= l THEN names[t] ELSE NoName) \in Names \cup {NoName}
      <3> TAKE t \in 1 .. k
      <3>1. t <= l => t \in 1 .. l
        BY <1>4
      <3> QED
        BY <1>2, <3>1
    <2> QED
      BY <1>5, <2>1
  <1>7. names' \in Seq(Names \cup {NoName}) /\ Len(names') = k /\ DOMAIN names' = 1 .. k
    <2>1. names' \in Seq(Names \cup {NoName})
      BY <1>4, <1>6, SeqDef
    <2>2. DOMAIN names' = 1 .. k
      BY <1>6
    <2> QED
      BY <1>4, <2>1, <2>2, LenProperties
  <1>8. index' \in [Names -> 0 .. Len(conns)]
    BY <1>1, <1>2, <1>5 DEF NoSID
  <1>9. TableTypes'
    BY <1>1, <1>4, <1>7, <1>8 DEF TableTypes
  <1>10. \A m \in Names : m # n => \/ index'[m] = index[m]
                                   \/ s \in DOMAIN names /\ names[s] = m
    <2> TAKE m \in Names
    <2>1. CASE s <= l /\ names[s] = m
      BY <1>2, <2>1
    <2>2. CASE ~(s <= l /\ names[s] = m)
      BY <1>5, <2>2
    <2> QED
      BY <2>1, <2>2
  <1>11. ASSUME Directory, index[n] = NoSID PROVE Directory'
    <2> SUFFICES ASSUME NEW t \in 1 .. k, names'[t] # NoName
                 PROVE  names'[t] \in Names /\ index'[names'[t]] = t
      BY <1>7 DEF Directory
    <2>1. CASE t = s
      BY <1>5, <2>1
    <2>2. CASE t # s
      <3>1. t <= l /\ names'[t] = names[t]
        BY <1>5, <2>2
      <3>2. t \in 1 .. l
        BY <1>4, <3>1
      <3>3. names[t] \in Names /\ index[names[t]] = t
        BY <1>2, <1>11, <3>1, <3>2 DEF Directory
      <3>4. names[t] # n
        BY <1>11, <3>2, <3>3 DEF NoSID
      <3>5. ~(s <= l /\ names[s] = names[t])
        <4> SUFFICES ASSUME s <= l, names[s] = names[t] PROVE FALSE
          OBVIOUS
        <4>1. s \in DOMAIN names /\ names[s] # NoName
          BY <1>1, <1>2, <3>3
        <4>2. index[names[s]] = s
          BY <1>11, <4>1 DEF Directory
        <4> QED
          BY <2>2, <3>3, <4>2
      <3>6. index'[names[t]] = index[names[t]]
        BY <1>5, <3>3, <3>4, <3>5
      <3> QED
        BY <3>1, <3>3, <3>6
    <2> QED
      BY <2>1, <2>2
  <1> QED
    BY <1>5, <1>9, <1>10, <1>11

(* A reply carries the number and the name of what it answers.             *)
LEMMA ControlTyped ==
  ASSUME NEW p \in ToServer, p.kind \in {"LOGIN", "QUIT"}, NEW ack \in BOOLEAN
  PROVE  /\ Control(p, ack) \in ToClient /\ Control(p, ack).kind = "CONTROL"
         /\ Control(p, ack).replyTo = p.seq /\ Control(p, ack).ack = ack
         /\ p.kind = "LOGIN" => p.name \in Names /\ Control(p, ack).name = p.name
  <1>1. p.seq \in Nat /\ (p.kind = "LOGIN" => p.name \in Names)
    BY ToServerKinds
  <1> QED
    BY <1>1 DEF Control, ToClient

(* The types after handleLogin, and what it does.                          *)
LEMMA HandleLoginTyped ==
  ASSUME Types, HandleLogin
  PROVE  /\ Types' /\ Remembers
         /\ \E s \in SIDs : \E p \in ToServer : \E ack \in BOOLEAN :
              /\ p.kind = "LOGIN"
              /\ TowardTaken(conns[s].client, p)
              /\ BackLonger(conns[s].client, Control(p, ack))
              /\ IF ack THEN index[p.name] = NoSID /\ Insert(s, p.name)
                        ELSE UNCHANGED <<names, index>>
         /\ UNCHANGED <<frontend, client, conns, forwarded>>
  <1> USE DEF Types
  <1>1. PICK s, p : s \in SIDs /\ p.kind = "LOGIN" /\ ReadsFrom(s, p) /\ Login(s, p)
    BY DEF HandleLogin
  <1>2. UNCHANGED <<frontend, client, downBuffer, conns, forwarded>>
    BY DEF HandleLogin
  <1>3. PICK c : c = conns[s].client
    OBVIOUS
  <1>4. c \in Clients /\ TowardTaken(c, p)
    BY <1>1, <1>3, ServerReads
  <1>5. p \in ToServer /\ p.name \in Names
    <2>1. p \in ToServer
      BY <1>4 DEF TowardTaken
    <2> QED
      BY <1>1, <2>1, ToServerKinds
  <1>6. PICK ack \in BOOLEAN :
          /\ SendPacket(s, Control(p, ack))
          /\ IF ack THEN index[p.name] = NoSID /\ Insert(s, p.name) ELSE UNCHANGED <<names, index>>
    <2>1. CASE index[p.name] # NoSID
      BY <1>1, <2>1 DEF Login
    <2>2. CASE index[p.name] = NoSID
      BY <1>1, <2>2 DEF Login
    <2> QED
      BY <2>1, <2>2
  <1>7. PICK m : m = Control(p, ack)
    OBVIOUS
  <1>8. m \in ToClient
    BY <1>1, <1>5, <1>7, ControlTyped
  <1>9. BackLonger(c, m)
    BY <1>2, <1>3, <1>4, <1>6, <1>7, <1>8, ServerSends DEF SendPacket
  <1>10. StreamTypes'
    <2>1. down' \in [Clients -> Seq(ToClient)]
      BY <1>9 DEF BackLonger
    <2>2. forwarded' \in [Clients -> Seq(ToClient)] /\ UNCHANGED <<pktQueue, shown>>
      BY <1>2 DEF StreamTypes, client
    <2> QED
      BY <1>2, <1>4, <2>1, <2>2, ReadTyped
  <1>11. TableTypes'
    <2>1. CASE ack
      BY <1>1, <1>2, <1>5, <1>6, <2>1, Inserts
    <2>2. CASE ~ack
      BY <1>2, <1>6, <2>2, TablesTyped
    <2> QED
      BY <2>1, <2>2
  <1>12. ClientTypes'
    BY <1>2 DEF ClientTypes, frontend, client
  <1>13. Remembers
    BY <1>2, StillRemembers
  <1> QED
    BY <1>1, <1>2, <1>3, <1>4, <1>5, <1>6, <1>7, <1>9, <1>10, <1>11, <1>12, <1>13

(* The types after handleQuit, and what it does.                           *)
LEMMA HandleQuitTyped ==
  ASSUME Types, HandleQuit
  PROVE  /\ Types' /\ Remembers
         /\ \E c \in Clients : \E p \in ToServer :
              /\ p.kind = "QUIT"
              /\ TowardTaken(c, p)
              /\ BackLonger(c, Control(p, TRUE))
         /\ UNCHANGED <<frontend, client, names, index, forwarded>>
  <1> USE DEF Types
  <1>1. PICK s, p :
          /\ s \in SIDs
          /\ p.kind = "QUIT" /\ ReadsFrom(s, p)
          /\ SendPacket(s, Control(p, TRUE))
          /\ conns' = [conns EXCEPT ![s].connected = FALSE]
    BY DEF HandleQuit
  <1>2. UNCHANGED <<frontend, client, downBuffer, names, index, forwarded>>
    BY DEF HandleQuit
  <1>3. PICK c : c = conns[s].client
    OBVIOUS
  <1>4. c \in Clients /\ TowardTaken(c, p) /\ p \in ToServer
    <2>1. c \in Clients /\ TowardTaken(c, p)
      BY <1>1, <1>3, ServerReads
    <2> QED
      BY <2>1 DEF TowardTaken
  <1>5. PICK m : m = Control(p, TRUE)
    OBVIOUS
  <1>6. m \in ToClient
    BY <1>1, <1>4, <1>5, ControlTyped
  <1>7. BackLonger(c, m)
    BY <1>1, <1>2, <1>3, <1>4, <1>5, <1>6, ServerSends DEF SendPacket
  <1>8. StreamTypes'
    <2>1. down' \in [Clients -> Seq(ToClient)]
      BY <1>7 DEF BackLonger
    <2>2. forwarded' \in [Clients -> Seq(ToClient)] /\ UNCHANGED <<pktQueue, shown>>
      BY <1>2 DEF StreamTypes, client
    <2> QED
      BY <1>2, <1>4, <2>1, <2>2, ReadTyped
  <1>9. ClientTypes'
    BY <1>2 DEF ClientTypes, frontend, client
  <1>10. TableTypes' /\ Remembers
    <2>1. PICK F : conns \in Seq(Connections(F))
      BY DEF TableTypes
    <2>2. s \in 1 .. Len(conns) /\ conns[s] \in Connections(F)
      BY <1>1, <2>1, ElementOfSeq DEF SIDs
    <2> DEFINE z == [conns[s] EXCEPT !.connected = FALSE]
    <2>3. z \in Connections(F) /\ z.client = conns[s].client
      BY <2>2 DEF Connections
    <2>4. conns' = [conns EXCEPT ![s] = z]
      BY <1>1
    <2> HIDE DEF z
    <2>5. /\ conns' \in Seq(Connections(F)) /\ Len(conns') = Len(conns)
          /\ \A t \in 1 .. Len(conns) : conns'[t] = IF t = s THEN z ELSE conns[t]
      BY <2>1, <2>2, <2>3, <2>4, ExceptSeq
    <2>6. TableTypes'
      BY <1>2, <2>5 DEF TableTypes
    <2>7. Remembers
      BY <2>3, <2>5, ConnectionTyped DEF Remembers, SIDs
    <2> QED
      BY <2>6, <2>7
  <1> QED
    BY <1>1, <1>2, <1>4, <1>5, <1>7, <1>8, <1>9, <1>10

(* The types after getUserList, and what it does.                          *)
LEMMA GetUserListTyped ==
  ASSUME Types, GetUserList
  PROVE  /\ Types' /\ UNCHANGED <<frontend, client, conns, names, index, forwarded>>
         /\ \E c \in Clients : \E p \in ToServer :
              /\ p.kind = "LIST"
              /\ TowardTaken(c, p)
              /\ BackLonger(c, [kind |-> "LIST"])
  <1> USE DEF Types
  <1>1. PICK s, p :
          s \in SIDs /\ p.kind = "LIST" /\ ReadsFrom(s, p) /\ SendPacket(s, [kind |-> "LIST"])
    BY DEF GetUserList
  <1>2. UNCHANGED <<frontend, client, downBuffer, conns, names, index, forwarded>>
    BY DEF GetUserList
  <1>3. PICK c : c = conns[s].client
    OBVIOUS
  <1>4. c \in Clients /\ TowardTaken(c, p) /\ p \in ToServer
    <2>1. c \in Clients /\ TowardTaken(c, p)
      BY <1>1, <1>3, ServerReads
    <2> QED
      BY <2>1 DEF TowardTaken
  <1>5. PICK m : m = [kind |-> "LIST"]
    OBVIOUS
  <1>6. m \in ToClient
    BY <1>5 DEF ToClient
  <1>7. BackLonger(c, m)
    BY <1>1, <1>2, <1>3, <1>4, <1>5, <1>6, ServerSends DEF SendPacket
  <1>8. StreamTypes'
    <2>1. down' \in [Clients -> Seq(ToClient)]
      BY <1>7 DEF BackLonger
    <2>2. forwarded' \in [Clients -> Seq(ToClient)] /\ UNCHANGED <<pktQueue, shown>>
      BY <1>2 DEF StreamTypes, client
    <2> QED
      BY <1>2, <1>4, <2>1, <2>2, ReadTyped
  <1>9. ClientTypes' /\ TableTypes'
    BY <1>2, TablesTyped DEF ClientTypes, frontend, client
  <1> QED
    BY <1>1, <1>2, <1>4, <1>5, <1>7, <1>8, <1>9

(* The types after a read past the end of the names, and what was read.    *)
LEMMA ReadsPastEndTyped ==
  ASSUME Types, ReadsPastEnd
  PROVE  /\ Types' /\ UNCHANGED <<frontend, client, down, downBuffer, conns, names, index, forwarded>>
         /\ \E c \in Clients : \E p \in ToServer :
              p.kind \in {"LIST", "MESSAGE"} /\ TowardTaken(c, p)
  <1> USE DEF Types
  <1>1. PICK s, p : s \in SIDs /\ Unnamed(s, p) /\ ReadsFrom(s, p)
    BY DEF ReadsPastEnd
  <1>2. UNCHANGED <<frontend, client, down, downBuffer, conns, names, index, forwarded>>
    BY DEF ReadsPastEnd
  <1>3. PICK c : c = conns[s].client
    OBVIOUS
  <1>4. c \in Clients /\ TowardTaken(c, p) /\ p \in ToServer
    <2>1. c \in Clients /\ TowardTaken(c, p)
      BY <1>1, <1>3, ServerReads
    <2> QED
      BY <2>1 DEF TowardTaken
  <1>5. p.kind \in {"LIST", "MESSAGE"}
    BY <1>1 DEF Unnamed
  <1>6. StreamTypes'
    <2>1. down' \in [Clients -> Seq(ToClient)]
      BY <1>2 DEF StreamTypes
    <2>2. forwarded' \in [Clients -> Seq(ToClient)] /\ UNCHANGED <<pktQueue, shown>>
      BY <1>2 DEF StreamTypes, client
    <2> QED
      BY <1>2, <1>4, <2>1, <2>2, ReadTyped
  <1>7. ClientTypes' /\ TableTypes'
    BY <1>2, TablesTyped DEF ClientTypes, frontend, client
  <1> QED
    BY <1>2, <1>4, <1>5, <1>6, <1>7

(* The types after handleMessage, which sends one text on or nothing.      *)
LEMMA HandleMessageTyped ==
  ASSUME Types, HandleMessage
  PROVE  /\ Types' /\ UNCHANGED <<frontend, client, conns, names, index>>
         /\ \E c \in Clients : \E p \in ToServer :
              p.kind = "MESSAGE" /\ TowardTaken(c, p)
         /\ \/ UNCHANGED <<down, downBuffer, forwarded>>
            \/ \E d \in Clients : \E text \in ToClient :
                 /\ text.kind = "MESSAGE" /\ BackLonger(d, text)
                 /\ forwarded' = [forwarded EXCEPT ![d] = Append(@, text)]
  <1> USE DEF Types
  <1>1. PICK s, p :
          /\ s \in SIDs
          /\ p.kind = "MESSAGE" /\ ReadsFrom(s, p)
          /\ LET sender == IF s <= Len(names) THEN names[s] ELSE NoName
                 text   == [kind |-> "MESSAGE", from |-> sender, text |-> p.text]
                 rcvr   == index[p.to]
             IN  IF rcvr = NoSID \/ ~conns[rcvr].connected
                 THEN UNCHANGED <<down, forwarded>>
                 ELSE /\ SendPacket(rcvr, text)
                      /\ forwarded' = [forwarded EXCEPT ![conns[rcvr].client] = Append(@, text)]
    BY DEF HandleMessage
  <1>2. UNCHANGED <<frontend, client, downBuffer, conns, names, index>>
    BY DEF HandleMessage
  <1>3. PICK c : c = conns[s].client
    OBVIOUS
  <1>4. c \in Clients /\ TowardTaken(c, p) /\ p \in ToServer
    <2>1. c \in Clients /\ TowardTaken(c, p)
      BY <1>1, <1>3, ServerReads
    <2> QED
      BY <2>1 DEF TowardTaken
  <1>5. p.to \in Names /\ p.text \in Clients \X Nat
    BY <1>1, <1>4, ToServerKinds
  <1>6. PICK sender : sender = IF s <= Len(names) THEN names[s] ELSE NoName
    OBVIOUS
  <1>7. PICK text : text = [kind |-> "MESSAGE", from |-> sender, text |-> p.text]
    OBVIOUS
  <1>8. text \in ToClient /\ text.kind = "MESSAGE"
    <2>1. names \in Seq(Names \cup {NoName}) /\ s \in 1 .. Len(conns) /\ Len(names) \in Nat
      BY <1>1, LenProperties DEF TableTypes, SIDs
    <2>2. s <= Len(names) => s \in 1 .. Len(names)
      BY <2>1
    <2>3. sender \in Names \cup {NoName}
      BY <1>6, <2>1, <2>2, ElementOfSeq
    <2> QED
      BY <1>5, <1>7, <2>3 DEF ToClient
  <1>9. PICK rcvr : rcvr = index[p.to]
    OBVIOUS
  <1>10. ClientTypes' /\ TableTypes'
    BY <1>2, TablesTyped DEF ClientTypes, frontend, client
  <1>11. CASE rcvr = NoSID \/ ~conns[rcvr].connected
    <2>1. UNCHANGED <<down, downBuffer, forwarded>>
      BY <1>1, <1>2, <1>9, <1>11
    <2>2. StreamTypes'
      BY <1>2, <1>4, <2>1, ReadTyped DEF StreamTypes, client
    <2> QED
      BY <1>1, <1>2, <1>4, <1>10, <2>1, <2>2
  <1>12. CASE ~(rcvr = NoSID \/ ~conns[rcvr].connected)
    <2>1. SendPacket(rcvr, text) /\ forwarded' = [forwarded EXCEPT ![conns[rcvr].client] = Append(@, text)]
      BY <1>1, <1>6, <1>7, <1>9, <1>12
    <2>2. rcvr \in SIDs
      <3>1. Len(conns) \in Nat
        BY LenProperties DEF TableTypes
      <3>2. rcvr \in 0 .. Len(conns) /\ rcvr # 0
        BY <1>5, <1>9, <1>12 DEF TableTypes, NoSID
      <3> QED
        BY <3>1, <3>2 DEF SIDs
    <2>3. PICK d : d = conns[rcvr].client
      OBVIOUS
    <2>4. d \in Clients
      BY <2>2, <2>3, ConnectionTyped
    <2>5. BackLonger(d, text)
      BY <1>2, <1>8, <2>1, <2>3, <2>4, ServerSends DEF SendPacket
    <2>6. forwarded' = [forwarded EXCEPT ![d] = Append(@, text)]
      BY <2>1, <2>3
    <2>7. forwarded' \in [Clients -> Seq(ToClient)]
      BY <1>8, <2>4, <2>6, AppendTyped DEF StreamTypes
    <2>8. StreamTypes'
      <3>1. down' \in [Clients -> Seq(ToClient)] /\ UNCHANGED <<pktQueue, shown>>
        BY <1>2, <2>5 DEF BackLonger, client
      <3> QED
        BY <1>2, <1>4, <2>7, <3>1, ReadTyped
    <2> QED
      BY <1>1, <1>2, <1>4, <1>8, <1>10, <2>4, <2>5, <2>6, <2>8
  <1> QED
    BY <1>11, <1>12

(* What is on its way to the server, w, from a client in loop place p with *)
(* next number n: at most one LOGIN, of the last number and still waited   *)
(* for, and DISCONNECTs only while /quit waits.                            *)
Asks(w, p, n) ==
    /\ \A i \in DOMAIN w : w[i].kind = "LOGIN" => p = "login" /\ w[i].seq = n - 1
    /\ \A i \in DOMAIN w : w[i].kind = "QUIT" => p = "quit" /\ w[i].seq < n
    /\ \A i, j \in DOMAIN w : w[i].kind = "LOGIN" /\ w[j].kind = "LOGIN" => i = j

(* What is on its way back, b: every reply answers something that has been *)
(* read, and one that grants the login c waits for is about a name c       *)
(* holds.                                                                  *)
Answers(b, w, p, n, held) ==
    \A i \in DOMAIN b : b[i].kind = "CONTROL" =>
       /\ b[i].replyTo < n
       /\ \A j \in DOMAIN w : w[j].kind = "LOGIN" => w[j].seq # b[i].replyTo
       /\ p = "login" /\ b[i].replyTo = n - 1 /\ b[i].ack => b[i].name \in held

(* The names whose texts go to c.                                          *)
Held(c) == {m \in Names : index[m] # NoSID /\ conns[index[m]].client = c}

(* A client that waits for a login has no name, and one that has holds it. *)
KnowsName(c) ==
    /\ pc[c] = "login" => name[c] = NoName
    /\ name[c] # NoName => name[c] \in Held(c)

(* What NameIsMine rests on, for one client.                               *)
Knows(c) ==
    /\ Asks(Toward(c), pc[c], curSeqNo[c])
    /\ Answers(Back(c), Toward(c), pc[c], curSeqNo[c], Held(c))
    /\ KnowsName(c)

(* The inductive invariant behind NameIsMine: with the types, the tables   *)
(* agree and the replies on their way are true.                            *)
Inductive == Types /\ Directory /\ \A c \in Clients : Knows(c)

(* r is what is left of q behind some of its first packets.                *)
Fewer(r, q) ==
    \E k \in Nat : \A i \in DOMAIN r : i \in Int /\ k + i \in DOMAIN q /\ r[i] = q[k + i]

(* r has no reply that was not in q.                                       *)
NoReplyMore(r, q) ==
    \A i \in DOMAIN r : r[i].kind = "CONTROL" => \E j \in DOMAIN q : r[i] = q[j]

(* Taking from the front asks nothing new.                                 *)
LEMMA FewerAsks ==
  ASSUME NEW r, NEW q, NEW p, NEW n, Fewer(r, q), Asks(q, p, n)
  PROVE  Asks(r, p, n)
  <1>1. PICK k \in Nat : \A i \in DOMAIN r : i \in Int /\ k + i \in DOMAIN q /\ r[i] = q[k + i]
    BY DEF Fewer
  <1>2. \A i \in DOMAIN r : r[i].kind = "LOGIN" => p = "login" /\ r[i].seq = n - 1
    BY <1>1 DEF Asks
  <1>3. \A i \in DOMAIN r : r[i].kind = "QUIT" => p = "quit" /\ r[i].seq < n
    BY <1>1 DEF Asks
  <1>4. ASSUME NEW i \in DOMAIN r, NEW j \in DOMAIN r, r[i].kind = "LOGIN", r[j].kind = "LOGIN"
        PROVE  i = j
    <2>1. k + i = k + j
      BY <1>1, <1>4 DEF Asks
    <2>2. i \in Int /\ j \in Int
      BY <1>1
    <2>3. \A x, y \in Int : k + x = k + y => x = y
      OBVIOUS
    <2> QED
      BY <2>1, <2>2, <2>3
  <1> QED
    BY <1>2, <1>3, <1>4 DEF Asks

(* Answers stay true when packets are taken and names are gained.          *)
LEMMA FewerAnswers ==
  ASSUME NEW b, NEW d, NEW w, NEW v, NEW p, NEW n, NEW held, NEW more,
         NoReplyMore(d, b), Fewer(v, w), held \subseteq more, Answers(b, w, p, n, held)
  PROVE  Answers(d, v, p, n, more)
  <1>1. \A j \in DOMAIN v : \E i \in DOMAIN w : v[j] = w[i]
    BY DEF Fewer
  <1> SUFFICES ASSUME NEW i \in DOMAIN d, d[i].kind = "CONTROL"
               PROVE  /\ d[i].replyTo < n
                      /\ \A j \in DOMAIN v : v[j].kind = "LOGIN" => v[j].seq # d[i].replyTo
                      /\ p = "login" /\ d[i].replyTo = n - 1 /\ d[i].ack => d[i].name \in more
    BY DEF Answers
  <1>2. PICK h \in DOMAIN b : d[i] = b[h]
    BY DEF NoReplyMore
  <1> QED
    BY <1>1, <1>2 DEF Answers

(* A cut sequence has the packets behind the cut.                          *)
LEMMA CutIsFewer ==
  ASSUME NEW S, NEW q \in Seq(S), NEW r \in Seq(S), NEW k \in Nat, CutAt(r, q, k, Len(q))
  PROVE  Fewer(r, q) /\ NoReplyMore(r, q)
         /\ \A i \in DOMAIN r : i \in Nat /\ k + i # 1 /\ k + i \in DOMAIN q /\ r[i] = q[k + i]
  <1> DEFINE l == Len(q)
  <1>1. l \in Nat /\ k \in 1 .. l /\ DOMAIN q = 1 .. l /\ DOMAIN r = 1 .. l - k
        /\ \A i \in 1 .. l - k : r[i] = q[k + i]
    <2>1. DOMAIN r = 1 .. Len(r)
      BY LenProperties
    <2> QED
      BY <2>1 DEF CutAt
  <1> HIDE DEF l
  <1>2. \A i \in DOMAIN r : i \in Nat /\ k + i # 1 /\ k + i \in DOMAIN q /\ r[i] = q[k + i]
    BY <1>1
  <1> QED
    BY <1>2 DEF Fewer, NoReplyMore

(* A sequence has its own packets.                                         *)
LEMMA SameIsFewer ==
  ASSUME NEW S, NEW q \in Seq(S)
  PROVE  Fewer(q, q) /\ NoReplyMore(q, q)
  <1> DEFINE l == Len(q)
  <1>1. l \in Nat /\ DOMAIN q = 1 .. l
    BY LenProperties
  <1> HIDE DEF l
  <1>2. \A i \in DOMAIN q : i \in Int /\ 0 + i \in DOMAIN q /\ q[i] = q[0 + i]
    BY <1>1
  <1> QED
    BY <1>2 DEF Fewer, NoReplyMore

(* A packet that is no reply brings none.                                  *)
LEMMA QuietLonger ==
  ASSUME NEW r, NEW q, NEW m, Longer(r, q, m), m.kind # "CONTROL"
  PROVE  NoReplyMore(r, q)
  BY DEF Longer, NoReplyMore

(* The packets on their way are packets.                                   *)
LEMMA StreamsTyped ==
  ASSUME StreamTypes, NEW c \in Clients
  PROVE  Toward(c) \in Seq(ToServer) /\ Back(c) \in Seq(ToClient)
  BY ConcatProperties DEF StreamTypes, Toward, Back

(* The same after a step.                                                  *)
LEMMA StreamsTypedNext ==
  ASSUME StreamTypes', NEW c \in Clients
  PROVE  Toward(c)' \in Seq(ToServer) /\ Back(c)' \in Seq(ToClient)
  BY ConcatProperties DEF StreamTypes, Toward, Back

(* What c knows, it knows after a step that sends it no reply. *)
LEMMA StillKnows ==
  ASSUME NEW c \in Clients, Knows(c),
         Fewer(Toward(c)', Toward(c)), NoReplyMore(Back(c)', Back(c)),
         curSeqNo'[c] = curSeqNo[c], name'[c] = name[c], Held(c) \subseteq Held(c)',
         \/ pc'[c] = pc[c]
         \/ pc[c] \notin {"login", "quit"} /\ pc'[c] # "login"
  PROVE  Knows(c)'
  <1> DEFINE n == curSeqNo[c]
  <1>1. Asks(Toward(c)', pc[c], n)
    BY FewerAsks DEF Knows
  <1>2. Answers(Back(c)', Toward(c)', pc[c], n, Held(c)')
    BY FewerAnswers DEF Knows
  <1>3. Asks(Toward(c)', pc'[c], n)
    BY <1>1 DEF Asks
  <1>4. Answers(Back(c)', Toward(c)', pc'[c], n, Held(c)')
    BY <1>2 DEF Answers
  <1>5. KnowsName(c)'
    BY DEF Knows, KnowsName
  <1> QED
    BY <1>3, <1>4, <1>5 DEF Knows

(* Nobody loses a name while the index stays.                              *)
LEMMA HeldStays ==
  ASSUME TableTypes, Remembers, index' = index
  PROVE  \A c \in Clients : Held(c) \subseteq Held(c)'
  <1> SUFFICES ASSUME NEW c \in Clients, NEW m \in Held(c) PROVE m \in Held(c)'
    OBVIOUS
  <1>1. m \in Names /\ index[m] # NoSID /\ conns[index[m]].client = c
    BY DEF Held
  <1>2. index[m] \in SIDs
    <2>1. Len(conns) \in Nat /\ index[m] \in 0 .. Len(conns)
      BY <1>1, LenProperties DEF TableTypes
    <2> QED
      BY <1>1, <2>1 DEF NoSID, SIDs
  <1>3. (conns[index[m]].client)' = c
    BY <1>1, <1>2 DEF Remembers
  <1> QED
    BY <1>1, <1>3 DEF Held

(* A step in which the server does nothing and c neither asks nor is told. *)
QuietFor(c) ==
    /\ Fewer(Toward(c)', Toward(c)) /\ NoReplyMore(Back(c)', Back(c))
    /\ curSeqNo'[c] = curSeqNo[c] /\ name'[c] = name[c]
    /\ \/ pc'[c] = pc[c]
       \/ pc[c] \notin {"login", "quit"} /\ pc'[c] # "login"

(* A step that is quiet for c keeps what c knows.                          *)
LEMMA QuietKeeps ==
  ASSUME Inductive, Types', Remembers, UNCHANGED <<names, index>>, NEW c \in Clients, QuietFor(c)
  PROVE  Knows(c)'
  <1>1. Held(c) \subseteq Held(c)'
    BY HeldStays DEF Inductive, Types
  <1> QED
    BY <1>1, StillKnows DEF Inductive, QuietFor

(* A step that moves nothing of c is quiet for it.                         *)
LEMMA NotMoved ==
  ASSUME StreamTypes, NEW c \in Clients,
         Toward(c)' = Toward(c), Back(c)' = Back(c),
         curSeqNo'[c] = curSeqNo[c], name'[c] = name[c], pc'[c] = pc[c]
  PROVE  QuietFor(c)
  BY StreamsTyped, SameIsFewer DEF QuietFor

(* A client that takes a packet gets no reply it was not sent.             *)
LEMMA TakenFewer ==
  ASSUME StreamTypes, StreamTypes', NEW c \in Clients, NEW p, BackTaken(c, p), NEW d \in Clients
  PROVE  NoReplyMore(Back(d)', Back(d))
  <1>1. CASE d = c
    <2>1. PICK k \in Nat : CutAt(Back(c)', Back(c), k, Len(Back(c)))
      BY DEF BackTaken
    <2>2. Back(c) \in Seq(ToClient) /\ Back(c)' \in Seq(ToClient)
      BY StreamsTyped, StreamsTypedNext
    <2>3. NoReplyMore(Back(c)', Back(c))
      BY <2>1, <2>2, CutIsFewer
    <2> QED
      BY <1>1, <2>3
  <1>2. CASE d # c
    <2>1. Back(d)' = Back(d) /\ Back(d) \in Seq(ToClient)
      BY <1>2, StreamsTyped DEF BackTaken
    <2> QED
      BY <2>1, SameIsFewer
  <1> QED
    BY <1>1, <1>2

(* The server that reads a packet leaves those behind it.                  *)
LEMMA ReadFewer ==
  ASSUME StreamTypes, StreamTypes', NEW c \in Clients, NEW p, TowardTaken(c, p), NEW d \in Clients
  PROVE  Fewer(Toward(d)', Toward(d))
  <1>1. CASE d = c
    <2>1. PICK k \in Nat : CutAt(Toward(c)', Toward(c), k, Len(Toward(c)))
      BY DEF TowardTaken
    <2>2. Toward(c) \in Seq(ToServer) /\ Toward(c)' \in Seq(ToServer)
      BY StreamsTyped, StreamsTypedNext
    <2>3. Fewer(Toward(c)', Toward(c))
      BY <2>1, <2>2, CutIsFewer
    <2> QED
      BY <1>1, <2>3
  <1>2. CASE d # c
    <2>1. Toward(d)' = Toward(d) /\ Toward(d) \in Seq(ToServer)
      BY <1>2, StreamsTyped DEF TowardTaken
    <2> QED
      BY <2>1, SameIsFewer
  <1> QED
    BY <1>1, <1>2

(* A client's step that asks nothing. *)
LEMMA ClientQuiet ==
  ASSUME Inductive, NEW c \in Clients,
         \/ Command(c) \/ UIStops(c) \/ SetupConnection(c)
         \/ OtherThanAck(c) \/ OtherThanList(c) \/ GetUsersReturns(c)
         \/ NoMoreRequests(c) \/ PollQueue(c) \/ PollSocket(c) \/ PollEmpty(c)
  PROVE  Inductive'
  <1> USE DEF Inductive, Types
  <1>1. /\ UNCHANGED <<up, upBuffer, conns, names, index>> /\ UNCHANGED <<curSeqNo, name>>
        /\ \A d \in Clients :
              \/ pc'[d] = pc[d]
              \/ pc[d] \notin {"login", "quit"} /\ pc'[d] # "login"
    <2>1. CASE Command(c) \/ UIStops(c)
      BY <2>1 DEF Command, UIStops, client, streams, tables
    <2>2. CASE SetupConnection(c)
      BY <2>2 DEF SetupConnection, streams, tables, ClientTypes
    <2>3. CASE OtherThanAck(c) \/ OtherThanList(c)
      BY <2>3 DEF OtherThanAck, OtherThanList, tables
    <2>4. CASE GetUsersReturns(c)
      BY <2>4 DEF GetUsersReturns, tables, ClientTypes
    <2>5. CASE NoMoreRequests(c)
      BY <2>5 DEF NoMoreRequests, Awake, streams, tables, ClientTypes
    <2>6. CASE PollQueue(c) \/ PollSocket(c) \/ PollEmpty(c)
      BY <2>6 DEF PollQueue, PollSocket, PollEmpty, streams, tables, ClientTypes
    <2> QED
      BY <2>1, <2>2, <2>3, <2>4, <2>5, <2>6
  <1>2. Types'
    BY CommandTyped, OtherTyped, GetUsersTyped, PollTyped
  <1>3. \A d \in Clients : NoReplyMore(Back(d)', Back(d))
    <2>1. \/ UNCHANGED <<down, downBuffer>>
          \/ \E p : BackTaken(c, p)
      <3>1. CASE Command(c) \/ UIStops(c) \/ SetupConnection(c)
        BY <3>1 DEF Command, UIStops, SetupConnection, streams
      <3>2. CASE OtherThanAck(c) \/ OtherThanList(c)
        BY <3>2, OtherTyped
      <3>3. CASE GetUsersReturns(c)
        BY <3>3, GetUsersTyped
      <3>4. CASE NoMoreRequests(c) \/ PollQueue(c) \/ PollSocket(c) \/ PollEmpty(c)
        BY <3>4, PollTyped
      <3> QED
        BY <3>1, <3>2, <3>3, <3>4
    <2>2. CASE UNCHANGED <<down, downBuffer>>
      BY <2>2, StreamsTyped, SameIsFewer DEF Back
    <2>3. CASE \E p : BackTaken(c, p)
      BY <1>2, <2>3, TakenFewer
    <2> QED
      BY <2>1, <2>2, <2>3
  <1>4. \A d \in Clients : Toward(d)' = Toward(d)
    BY <1>1 DEF Toward
  <1>5. \A d \in Clients : QuietFor(d)
    BY <1>1, <1>3, <1>4, StreamsTyped, SameIsFewer DEF QuietFor
  <1>6. \A d \in Clients : Knows(d)'
    BY <1>1, <1>2, <1>5, StillRemembers, QuietKeeps
  <1>7. Directory'
    BY <1>1 DEF Directory
  <1> QED
    BY <1>2, <1>6, <1>7

(* A client's step leaves what the others know.                            *)
LEMMA OthersStay ==
  ASSUME Inductive, Types', UNCHANGED <<conns, names, index>>, NEW c \in Clients,
         \A d \in Clients \ {c} :
            /\ Toward(d)' = Toward(d) /\ Back(d)' = Back(d)
            /\ curSeqNo'[d] = curSeqNo[d] /\ name'[d] = name[d] /\ pc'[d] = pc[d],
         Knows(c)'
  PROVE  Inductive'
  <1>1. \A d \in Clients \ {c} : QuietFor(d)
    BY NotMoved DEF Inductive, Types
  <1>2. Remembers
    BY StillRemembers DEF Inductive, Types
  <1>3. \A d \in Clients \ {c} : Knows(d)'
    BY <1>1, <1>2, QuietKeeps
  <1>4. Directory'
    BY DEF Inductive, Directory
  <1> QED
    BY <1>3, <1>4 DEF Inductive

(* A request: a LOGIN is the only one on its way, since no login was       *)
(* waited for, and no reply that is coming answers it.                     *)
LEMMA RequestKeeps ==
  ASSUME Inductive, NEW c \in Clients, TryGetRequest(c)
  PROVE  Inductive'
  <1> USE DEF Inductive, Types
  <1>1. PICK r \in Commanded :
              /\ TowardLonger(c, Sent(c, r))
              /\ pc' = [pc EXCEPT ![c] = Waits(r.kind)]
              /\ name' = [name EXCEPT ![c] = IF r.kind = "LOGIN" THEN NoName ELSE @]
    BY TryGetRequestTyped
  <1>2. Types'
    BY TryGetRequestTyped
  <1>3. /\ UNCHANGED <<down, downBuffer, conns, names, index>>
        /\ curSeqNo' = [curSeqNo EXCEPT ![c] = @ + 1]
    BY DEF TryGetRequest, tables
  <1>4. pc[c] \notin {"login", "quit"}
    BY DEF TryGetRequest, Awake
  <1>5. PICK m : m = Sent(c, r)
    OBVIOUS
  <1>6. PICK w : w = Waits(r.kind)
    OBVIOUS
  <1>7. PICK n \in Nat : n = curSeqNo[c]
    BY DEF ClientTypes
  <1>8. /\ m.kind = r.kind
        /\ r.kind \in {"LOGIN", "QUIT"} => m.seq = n
        /\ w = "login" <=> r.kind = "LOGIN"
        /\ w = "quit" <=> r.kind = "QUIT"
    BY <1>5, <1>6, <1>7, SentTyped
  <1>9. PICK q : q = Toward(c)
    OBVIOUS
  <1>10. PICK t : t = Toward(c)'
    OBVIOUS
  <1>11. Longer(t, q, m)
    BY <1>1, <1>5, <1>9, <1>10 DEF TowardLonger
  <1>12. Asks(q, pc[c], n) /\ \A i \in DOMAIN q : q[i].kind \notin {"LOGIN", "QUIT"}
    BY <1>4, <1>7, <1>9 DEF Knows, Asks
  <1>13. \A i \in DOMAIN t : t[i].kind \in {"LOGIN", "QUIT"} => i = Len(q) + 1 /\ t[i] = m
    BY <1>11, <1>12 DEF Longer
  <1>14. Asks(t, w, n + 1)
    <2>1. (n + 1) - 1 = n /\ n < n + 1
      OBVIOUS
    <2>2. \A i \in DOMAIN t : t[i].kind = "LOGIN" => w = "login" /\ t[i].seq = n
      BY <1>8, <1>13
    <2>3. \A i \in DOMAIN t : t[i].kind = "QUIT" => w = "quit" /\ t[i].seq = n
      BY <1>8, <1>13
    <2>4. \A i, j \in DOMAIN t : t[i].kind = "LOGIN" /\ t[j].kind = "LOGIN" => i = j
      BY <1>13
    <2> QED
      BY <2>1, <2>2, <2>3, <2>4 DEF Asks
  <1>15. PICK b : b = Back(c)
    OBVIOUS
  <1>16. Back(c)' = b
    BY <1>3, <1>15 DEF Back
  <1>17. \A i \in DOMAIN b : b[i].kind = "CONTROL" => b[i].replyTo \in Nat /\ b[i].replyTo < n
    <2>1. b \in Seq(ToClient)
      BY <1>15, StreamsTyped
    <2>2. \A i \in DOMAIN b : b[i] \in ToClient
      BY <2>1, LenProperties, ElementOfSeq
    <2>3. \A i \in DOMAIN b : b[i].kind = "CONTROL" => b[i].replyTo < n
      BY <1>7, <1>15 DEF Knows, Answers
    <2> QED
      BY <2>2, <2>3, ToClientKinds
  <1>18. Answers(b, t, w, n + 1, Held(c)')
    <2> SUFFICES ASSUME NEW i \in DOMAIN b, b[i].kind = "CONTROL"
                 PROVE  /\ b[i].replyTo < n + 1
                        /\ \A j \in DOMAIN t : t[j].kind = "LOGIN" => t[j].seq # b[i].replyTo
                        /\ b[i].replyTo # (n + 1) - 1
      BY DEF Answers
    <2>1. PICK o \in Nat : o = b[i].replyTo /\ o < n
      BY <1>17
    <2>2. o < n + 1 /\ o # (n + 1) - 1 /\ o # n
      BY <2>1
    <2> QED
      BY <1>8, <1>13, <2>1, <2>2
  <1>19. /\ Toward(c)' = t /\ pc'[c] = w /\ curSeqNo'[c] = n + 1
        /\ name'[c] = IF r.kind = "LOGIN" THEN NoName ELSE name[c]
    BY <1>1, <1>3, <1>6, <1>7, <1>10 DEF ClientTypes
  <1>20. KnowsName(c)'
    <2>1. Held(c)' = Held(c)
      BY <1>3 DEF Held
    <2> QED
      BY <1>8, <1>19, <2>1 DEF KnowsName, Knows
  <1>21. Knows(c)'
    BY <1>14, <1>16, <1>18, <1>19, <1>20 DEF Knows
  <1>22. \A d \in Clients \ {c} :
            /\ Toward(d)' = Toward(d) /\ Back(d)' = Back(d)
            /\ curSeqNo'[d] = curSeqNo[d] /\ name'[d] = name[d] /\ pc'[d] = pc[d]
    BY <1>1, <1>3 DEF TowardLonger, Back, ClientTypes
  <1> QED
    BY <1>2, <1>3, <1>21, <1>22, OthersStay

(* The reply to a login: no LOGIN is on its way any more, and the name     *)
(* that is granted is held.                                                *)
LEMMA LoginReturnKeeps ==
  ASSUME Inductive, NEW c \in Clients, LoginReturns(c)
  PROVE  Inductive'
  <1> USE DEF Inductive, Types
  <1>1. PICK p :
          /\ BackTaken(c, p) /\ IsReply(c, p)
          /\ name' = [name EXCEPT ![c] = IF p.ack THEN p.name ELSE @]
    BY LoginReturnsTyped
  <1>2. Types'
    BY LoginReturnsTyped
  <1>3. /\ UNCHANGED <<up, upBuffer, conns, names, index, curSeqNo>>
        /\ pc' = [pc EXCEPT ![c] = "requests"] /\ pc[c] = "login"
    BY DEF LoginReturns, tables
  <1>4. PICK n : n = curSeqNo[c]
    OBVIOUS
  <1>5. PICK w : w = Toward(c)
    OBVIOUS
  <1>6. p.kind = "CONTROL" /\ p.replyTo = n - 1 /\ 1 \in DOMAIN Back(c) /\ p = Back(c)[1]
    BY <1>1, <1>4 DEF IsReply, BackTaken
  <1>7. /\ Asks(w, "login", n)
        /\ \A j \in DOMAIN w : w[j].kind = "LOGIN" => w[j].seq # n - 1
        /\ p.ack => p.name \in Held(c)
    BY <1>3, <1>4, <1>5, <1>6 DEF Knows, Answers
  <1>8. Asks(w, "requests", n)
    BY <1>7 DEF Asks
  <1>9. Answers(Back(c), w, "requests", n, Held(c))
    BY <1>4, <1>5 DEF Knows, Answers
  <1>10. NoReplyMore(Back(c)', Back(c)) /\ Fewer(w, w) /\ Held(c)' = Held(c) /\ Toward(c)' = w
    <2>1. NoReplyMore(Back(c)', Back(c))
      BY <1>1, <1>2, TakenFewer
    <2>2. Fewer(w, w)
      BY <1>5, StreamsTyped, SameIsFewer
    <2> QED
      BY <1>3, <1>5, <2>1, <2>2 DEF Held, Toward
  <1>11. Answers(Back(c)', w, "requests", n, Held(c)')
    BY <1>9, <1>10, FewerAnswers
  <1>12. pc'[c] = "requests" /\ curSeqNo'[c] = n /\ name'[c] = IF p.ack THEN p.name ELSE name[c]
    BY <1>1, <1>3, <1>4 DEF ClientTypes
  <1>13. KnowsName(c)'
    BY <1>3, <1>7, <1>10, <1>12 DEF KnowsName, Knows
  <1>14. Knows(c)'
    BY <1>8, <1>10, <1>11, <1>12, <1>13 DEF Knows
  <1>15. \A d \in Clients \ {c} :
            /\ Toward(d)' = Toward(d) /\ Back(d)' = Back(d)
            /\ curSeqNo'[d] = curSeqNo[d] /\ name'[d] = name[d] /\ pc'[d] = pc[d]
    BY <1>1, <1>3 DEF BackTaken, Toward, ClientTypes
  <1> QED
    BY <1>2, <1>3, <1>14, <1>15, OthersStay

(* A DISCONNECT sent again.                                                *)
LEMMA QuitRepeatKeeps ==
  ASSUME Inductive, NEW c \in Clients, QuitRepeats(c)
  PROVE  Inductive'
  <1> USE DEF Inductive, Types
  <1>1. PICK m : m = [kind |-> "QUIT", seq |-> curSeqNo[c]]
    OBVIOUS
  <1>2. Types' /\ TowardLonger(c, m) /\ \E p : BackTaken(c, p)
    BY <1>1, QuitRepeatsTyped
  <1>3. /\ UNCHANGED <<pc, name, conns, names, index>> /\ pc[c] = "quit"
        /\ curSeqNo' = [curSeqNo EXCEPT ![c] = @ + 1]
    BY DEF QuitRepeats, tables
  <1>4. PICK n \in Nat : n = curSeqNo[c]
    BY DEF ClientTypes
  <1>5. PICK q : q = Toward(c)
    OBVIOUS
  <1>6. PICK t : t = Toward(c)'
    OBVIOUS
  <1>7. Longer(t, q, m) /\ m.kind = "QUIT" /\ m.seq = n
    BY <1>1, <1>2, <1>4, <1>5, <1>6 DEF TowardLonger
  <1>8. Asks(q, "quit", n) /\ q \in Seq(ToServer)
    BY <1>3, <1>4, <1>5, StreamsTyped DEF Knows
  <1>9. \A i \in DOMAIN q : q[i].kind = "QUIT" => q[i].seq < n + 1
    <2> SUFFICES ASSUME NEW i \in DOMAIN q, q[i].kind = "QUIT" PROVE q[i].seq < n + 1
      OBVIOUS
    <2>1. q[i] \in ToServer
      BY <1>8, LenProperties, ElementOfSeq
    <2>2. q[i].seq \in Nat
      BY <2>1, ToServerKinds
    <2>3. q[i].seq < n
      BY <1>8 DEF Asks
    <2> QED
      BY <2>2, <2>3
  <1>10. Asks(t, "quit", n + 1)
    <2>1. n < n + 1
      OBVIOUS
    <2>2. \A i \in DOMAIN t : t[i].kind # "LOGIN"
      BY <1>7, <1>8 DEF Longer, Asks
    <2>3. \A i \in DOMAIN t : t[i].kind = "QUIT" => t[i].seq < n + 1
      BY <1>7, <1>9, <2>1 DEF Longer
    <2> QED
      BY <2>2, <2>3 DEF Asks
  <1>11. \A i \in DOMAIN t : t[i].kind # "LOGIN"
    BY <1>10 DEF Asks
  <1>12. PICK b : b = Back(c)'
    OBVIOUS
  <1>13. b \in Seq(ToClient) /\ NoReplyMore(b, Back(c))
    BY <1>2, <1>12, StreamsTypedNext, TakenFewer
  <1>14. Answers(b, t, "quit", n + 1, Held(c)')
    <2> SUFFICES ASSUME NEW i \in DOMAIN b, b[i].kind = "CONTROL" PROVE b[i].replyTo < n + 1
      BY <1>11 DEF Answers
    <2>1. b[i] \in ToClient
      BY <1>13, LenProperties, ElementOfSeq
    <2>2. b[i].replyTo \in Nat
      BY <2>1, ToClientKinds
    <2>3. b[i].replyTo < n
      BY <1>4, <1>13 DEF NoReplyMore, Knows, Answers
    <2> QED
      BY <2>2, <2>3
  <1>15. KnowsName(c)'
    BY <1>3 DEF KnowsName, Knows, Held
  <1>16. Knows(c)'
    BY <1>3, <1>4, <1>6, <1>10, <1>12, <1>14, <1>15 DEF Knows, ClientTypes
  <1>17. \A d \in Clients \ {c} :
            /\ Toward(d)' = Toward(d) /\ Back(d)' = Back(d)
            /\ curSeqNo'[d] = curSeqNo[d] /\ name'[d] = name[d] /\ pc'[d] = pc[d]
    BY <1>2, <1>3 DEF BackTaken, TowardLonger, ClientTypes
  <1> QED
    BY <1>2, <1>3, <1>16, <1>17, OthersStay

(* A step that is quiet for everybody keeps the invariant.                 *)
LEMMA AllQuiet ==
  ASSUME Inductive, Types', Remembers, UNCHANGED <<names, index>>, \A d \in Clients : QuietFor(d)
  PROVE  Inductive'
  <1>1. \A d \in Clients : Knows(d)'
    BY QuietKeeps
  <1>2. Directory'
    BY DEF Inductive, Directory
  <1> QED
    BY <1>1, <1>2 DEF Inductive

(* The server reads a packet and answers with no reply. *)
LEMMA ReadQuietly ==
  ASSUME Inductive, Types', UNCHANGED <<client, conns, names, index>>,
         NEW c \in Clients, NEW p, TowardTaken(c, p),
         \/ UNCHANGED <<down, downBuffer>>
         \/ \E d \in Clients : \E m : m.kind # "CONTROL" /\ BackLonger(d, m)
  PROVE  Inductive'
  <1> USE DEF Inductive, Types
  <1>1. \A d \in Clients : Fewer(Toward(d)', Toward(d))
    BY ReadFewer
  <1>2. \A d \in Clients : NoReplyMore(Back(d)', Back(d))
    <2> SUFFICES ASSUME NEW d \in Clients PROVE NoReplyMore(Back(d)', Back(d))
      OBVIOUS
    <2>1. CASE Back(d)' = Back(d)
      BY <2>1, StreamsTyped, SameIsFewer
    <2>2. ASSUME NEW m, m.kind # "CONTROL", Longer(Back(d)', Back(d), m)
          PROVE  NoReplyMore(Back(d)', Back(d))
      BY <2>2, QuietLonger
    <2>3. CASE UNCHANGED <<down, downBuffer>>
      BY <2>1, <2>3 DEF Back
    <2>4. CASE \E e \in Clients : \E m : m.kind # "CONTROL" /\ BackLonger(e, m)
      <3>1. PICK e \in Clients : \E m : m.kind # "CONTROL" /\ BackLonger(e, m)
        BY <2>4
      <3> QED
        BY <2>1, <2>2, <3>1 DEF BackLonger
    <2> QED
      BY <2>3, <2>4
  <1>3. \A d \in Clients : QuietFor(d)
    BY <1>1, <1>2 DEF QuietFor, client
  <1> QED
    BY <1>3, AllQuiet, StillRemembers

(* The server's steps that answer with no reply.                           *)
LEMMA ServerQuiet ==
  ASSUME Inductive,
         \/ \E c \in Clients : GetConnections(c)
         \/ NotConnected \/ GetUserList \/ HandleMessage \/ ReadsPastEnd
  PROVE  Inductive'
  <1> USE DEF Inductive, Types
  <1>1. CASE \E c \in Clients : GetConnections(c)
    <2>1. /\ Types' /\ Remembers
          /\ UNCHANGED <<frontend, client, streams, names, index, forwarded>>
      BY <1>1, Accepts
    <2>2. \A d \in Clients : QuietFor(d)
      BY <2>1, NotMoved DEF client, streams, Toward, Back
    <2> QED
      BY <2>1, <2>2, AllQuiet
  <1>2. CASE NotConnected
    <2>1. /\ Types'
          /\ UNCHANGED <<frontend, client, streams, conns, names, index, forwarded>>
      BY <1>2, NotConnectedTyped
    <2>2. \A d \in Clients : QuietFor(d)
      BY <2>1, NotMoved DEF client, streams, Toward, Back
    <2> QED
      BY <2>1, <2>2, AllQuiet, StillRemembers
  <1>3. CASE GetUserList
    <2>1. PICK c \in Clients, p \in ToServer :
            TowardTaken(c, p) /\ BackLonger(c, [kind |-> "LIST"])
      BY <1>3, GetUserListTyped
    <2>2. PICK m : m = [kind |-> "LIST"]
      OBVIOUS
    <2>3. BackLonger(c, m) /\ m.kind # "CONTROL"
      BY <2>1, <2>2
    <2>4. Types' /\ UNCHANGED <<client, conns, names, index>>
      BY <1>3, GetUserListTyped
    <2> QED
      BY <2>1, <2>3, <2>4, ReadQuietly
  <1>4. CASE HandleMessage
    <2>1. PICK c \in Clients, p \in ToServer : TowardTaken(c, p)
      BY <1>4, HandleMessageTyped
    <2>2. \/ UNCHANGED <<down, downBuffer>>
          \/ \E d \in Clients : \E m : m.kind # "CONTROL" /\ BackLonger(d, m)
      BY <1>4, HandleMessageTyped
    <2>3. Types' /\ UNCHANGED <<client, conns, names, index>>
      BY <1>4, HandleMessageTyped
    <2> QED
      BY <2>1, <2>2, <2>3, ReadQuietly
  <1>5. CASE ReadsPastEnd
    <2>1. PICK c \in Clients, p \in ToServer : TowardTaken(c, p)
      BY <1>5, ReadsPastEndTyped
    <2>2. Types' /\ UNCHANGED <<client, down, downBuffer, conns, names, index>>
      BY <1>5, ReadsPastEndTyped
    <2> QED
      BY <2>1, <2>2, ReadQuietly
  <1> QED
    BY <1>1, <1>2, <1>3, <1>4, <1>5

(* The reply to what c asked is behind all that was coming to it. *)
LEMMA ReplyKnown ==
  ASSUME NEW b, NEW e, NEW m, Longer(e, b, m), NEW w, NEW v, Fewer(v, w),
         NEW p, NEW n, NEW held, NEW more,
         Answers(b, w, p, n, held), p = "login" => \A i \in DOMAIN b :
             b[i].kind = "CONTROL" => b[i].replyTo # n - 1,
         m.replyTo < n,
         \A j \in DOMAIN v : v[j].kind # "LOGIN",
         p = "login" /\ m.ack => m.name \in more
  PROVE  Answers(e, v, p, n, more)
  <1> SUFFICES ASSUME NEW i \in DOMAIN e, e[i].kind = "CONTROL"
               PROVE  /\ e[i].replyTo < n
                      /\ p = "login" /\ e[i].replyTo = n - 1 /\ e[i].ack => e[i].name \in more
    BY DEF Answers
  <1>1. CASE i = Len(b) + 1
    BY <1>1 DEF Longer
  <1>2. CASE i \in DOMAIN b
    BY <1>2 DEF Longer, Answers
  <1> QED
    BY <1>1, <1>2 DEF Longer

(* A name is given to nobody who could not have it. *)
LEMMA HeldByOthers ==
  ASSUME TableTypes, Directory, NEW s \in SIDs, NEW n \in Names,
         Insert(s, n), conns' = conns, index[n] = NoSID
  PROVE  /\ \A d \in Clients : d # conns[s].client => Held(d) \subseteq Held(d)'
         /\ n \in Held(conns[s].client)'
  <1>1. /\ index'[n] = s
        /\ \A m \in Names : m # n => \/ index'[m] = index[m]
                                     \/ s \in DOMAIN names /\ names[s] = m
    BY Inserts
  <1>2. s # NoSID
    <2>1. Len(conns) \in Nat
      BY LenProperties DEF TableTypes
    <2> QED
      BY <2>1 DEF NoSID, SIDs
  <1>3. ASSUME NEW d \in Clients, d # conns[s].client, NEW m \in Held(d) PROVE m \in Held(d)'
    <2>1. m \in Names /\ index[m] # NoSID /\ conns[index[m]].client = d
      BY DEF Held
    <2>2. m # n
      BY <2>1
    <2>3. ~(s \in DOMAIN names /\ names[s] = m)
      <3> SUFFICES ASSUME s \in DOMAIN names, names[s] = m PROVE FALSE
        OBVIOUS
      <3>1. names[s] # NoName
        BY <2>1, EarlyChatAssumption
      <3>2. index[m] = s
        BY <3>1 DEF Directory
      <3> QED
        BY <1>3, <2>1, <3>2
    <2>4. index'[m] = index[m]
      BY <1>1, <2>1, <2>2, <2>3
    <2> QED
      BY <2>1, <2>4 DEF Held
  <1> QED
    BY <1>1, <1>2, <1>3 DEF Held

(* handleLogin: the reply is the only one to a login that is waited for,   *)
(* and the name it grants is in the index, where no other client had it.   *)
LEMMA LoginKeeps ==
  ASSUME Inductive, HandleLogin
  PROVE  Inductive'
  <1> USE DEF Inductive, Types
  <1>1. PICK s \in SIDs : \E p \in ToServer : \E ack \in BOOLEAN :
              /\ p.kind = "LOGIN"
              /\ TowardTaken(conns[s].client, p)
              /\ BackLonger(conns[s].client, Control(p, ack))
              /\ IF ack THEN index[p.name] = NoSID /\ Insert(s, p.name)
                        ELSE UNCHANGED <<names, index>>
    BY HandleLoginTyped
  <1>2. PICK c : c = conns[s].client
    OBVIOUS
  <1>3. PICK p \in ToServer : \E ack \in BOOLEAN :
              /\ p.kind = "LOGIN"
              /\ TowardTaken(c, p)
              /\ BackLonger(c, Control(p, ack))
              /\ IF ack THEN index[p.name] = NoSID /\ Insert(s, p.name)
                        ELSE UNCHANGED <<names, index>>
    BY <1>1, <1>2
  <1>4. PICK ack \in BOOLEAN :
              /\ p.kind = "LOGIN"
              /\ TowardTaken(c, p)
              /\ BackLonger(c, Control(p, ack))
              /\ IF ack THEN index[p.name] = NoSID /\ Insert(s, p.name)
                        ELSE UNCHANGED <<names, index>>
    BY <1>3
  <1>5. PICK m : m = Control(p, ack)
    OBVIOUS
  <1>6. /\ m.kind = "CONTROL" /\ m.replyTo = p.seq /\ m.ack = ack
        /\ p.name \in Names /\ m.name = p.name /\ p.seq \in Nat
    BY <1>4, <1>5, ControlTyped, ToServerKinds
  <1>7. Types' /\ Remembers /\ UNCHANGED <<client, conns>> /\ c \in Clients
    BY <1>2, HandleLoginTyped, ConnectionTyped
  <1>8. PICK n \in Nat : n = curSeqNo[c]
    BY <1>7 DEF ClientTypes
  <1>9. PICK w : w = Toward(c)
    OBVIOUS
  <1>10. PICK v : v = Toward(c)'
    OBVIOUS
  <1>11. w \in Seq(ToServer) /\ v \in Seq(ToServer) /\ 1 \in DOMAIN w /\ w[1] = p
    BY <1>4, <1>7, <1>9, <1>10, StreamsTyped, StreamsTypedNext DEF TowardTaken
  <1>12. Asks(w, pc[c], n)
    BY <1>7, <1>8, <1>9 DEF Knows
  <1>13. pc[c] = "login" /\ p.seq = n - 1
    BY <1>4, <1>11, <1>12 DEF Asks
  <1>14. Fewer(v, w) /\ \A j \in DOMAIN v : v[j].kind # "LOGIN"
    <2>1. PICK k \in Nat : CutAt(v, w, k, Len(w))
      BY <1>4, <1>9, <1>10 DEF TowardTaken
    <2>2. Fewer(v, w) /\ \A i \in DOMAIN v : k + i # 1 /\ k + i \in DOMAIN w /\ v[i] = w[k + i]
      BY <1>11, <2>1, CutIsFewer
    <2>3. \A i \in DOMAIN w : w[i].kind = "LOGIN" => i = 1
      BY <1>4, <1>11, <1>12 DEF Asks
    <2> QED
      BY <2>2, <2>3
  <1>15. PICK b : b = Back(c)
    OBVIOUS
  <1>16. PICK e : e = Back(c)'
    OBVIOUS
  <1>17. Longer(e, b, m)
    BY <1>4, <1>5, <1>15, <1>16 DEF BackLonger
  <1>18. Answers(b, w, pc[c], n, Held(c))
    BY <1>7, <1>8, <1>9, <1>15 DEF Knows
  <1>19. \A i \in DOMAIN b : b[i].kind = "CONTROL" => b[i].replyTo # n - 1
    BY <1>4, <1>11, <1>13, <1>18 DEF Answers
  <1>20. ack => m.name \in Held(c)'
    BY <1>2, <1>4, <1>6, <1>7, HeldByOthers
  <1>21. m.replyTo < n
    BY <1>6, <1>13
  <1>22. Answers(e, v, pc[c], n, Held(c)')
    BY <1>6, <1>14, <1>17, <1>18, <1>19, <1>20, <1>21, ReplyKnown
  <1>23. Asks(v, pc[c], n)
    BY <1>12, <1>14, FewerAsks
  <1>24. pc'[c] = pc[c] /\ curSeqNo'[c] = n /\ name'[c] = name[c]
    BY <1>7, <1>8 DEF client
  <1>25. KnowsName(c)'
    BY <1>7, <1>13, <1>24 DEF KnowsName, Knows
  <1>26. Knows(c)'
    BY <1>10, <1>16, <1>22, <1>23, <1>24, <1>25 DEF Knows
  <1>27. ASSUME NEW d \in Clients, d # c PROVE Knows(d)'
    <2>1. Toward(d)' = Toward(d) /\ Back(d)' = Back(d)
      BY <1>4, <1>27 DEF TowardTaken, BackLonger
    <2>2. QuietFor(d)
      BY <1>7, <2>1, NotMoved DEF client
    <2>3. Held(d) \subseteq Held(d)'
      <3>1. CASE ack
        BY <1>2, <1>4, <1>6, <1>7, <1>27, <3>1, HeldByOthers
      <3>2. CASE ~ack
        BY <1>4, <1>7, <3>2, HeldStays
      <3> QED
        BY <3>1, <3>2
    <2> QED
      BY <2>2, <2>3, StillKnows DEF QuietFor
  <1>28. Directory'
    <2>1. CASE ack
      BY <1>4, <1>6, <1>7, <2>1, Inserts
    <2>2. CASE ~ack
      BY <1>4, <2>2 DEF Directory
    <2> QED
      BY <2>1, <2>2
  <1> QED
    BY <1>7, <1>26, <1>27, <1>28

(* handleQuit: the reply is not one that a login waits for.                *)
LEMMA QuitKeeps ==
  ASSUME Inductive, HandleQuit
  PROVE  Inductive'
  <1> USE DEF Inductive, Types
  <1>1. PICK c \in Clients, p \in ToServer :
              /\ p.kind = "QUIT"
              /\ TowardTaken(c, p)
              /\ BackLonger(c, Control(p, TRUE))
    BY HandleQuitTyped
  <1>2. Types' /\ Remembers /\ UNCHANGED <<client, names, index>>
    BY HandleQuitTyped
  <1>3. PICK m : m = Control(p, TRUE)
    OBVIOUS
  <1>4. m.replyTo = p.seq
    BY <1>1, <1>3, ControlTyped
  <1>5. PICK n : n = curSeqNo[c]
    OBVIOUS
  <1>6. PICK w : w = Toward(c)
    OBVIOUS
  <1>7. PICK v : v = Toward(c)'
    OBVIOUS
  <1>8. Asks(w, pc[c], n) /\ 1 \in DOMAIN w /\ w[1] = p
    BY <1>1, <1>5, <1>6 DEF Knows, TowardTaken
  <1>9. pc[c] = "quit" /\ p.seq < n
    BY <1>1, <1>8 DEF Asks
  <1>10. Fewer(v, w)
    BY <1>1, <1>2, <1>6, <1>7, ReadFewer
  <1>11. Asks(v, pc[c], n)
    BY <1>8, <1>10, FewerAsks
  <1>12. \A j \in DOMAIN v : v[j].kind # "LOGIN"
    BY <1>9, <1>11 DEF Asks
  <1>13. PICK b : b = Back(c)
    OBVIOUS
  <1>14. PICK e : e = Back(c)'
    OBVIOUS
  <1>15. Longer(e, b, m)
    BY <1>1, <1>3, <1>13, <1>14 DEF BackLonger
  <1>16. Answers(b, w, pc[c], n, Held(c))
    BY <1>5, <1>6, <1>13 DEF Knows
  <1>17. Answers(e, v, pc[c], n, Held(c)')
    BY <1>4, <1>9, <1>10, <1>12, <1>15, <1>16, ReplyKnown
  <1>18. pc'[c] = pc[c] /\ curSeqNo'[c] = n /\ name'[c] = name[c]
    BY <1>2, <1>5 DEF client
  <1>19. \A d \in Clients : Held(d) \subseteq Held(d)'
    BY <1>2, HeldStays
  <1>20. KnowsName(c)'
    BY <1>18, <1>19 DEF KnowsName, Knows
  <1>21. Knows(c)'
    BY <1>7, <1>11, <1>14, <1>17, <1>18, <1>20 DEF Knows
  <1>22. ASSUME NEW d \in Clients, d # c PROVE Knows(d)'
    <2>1. Toward(d)' = Toward(d) /\ Back(d)' = Back(d)
      BY <1>1, <1>22 DEF TowardTaken, BackLonger
    <2>2. QuietFor(d)
      BY <1>2, <2>1, NotMoved DEF client
    <2> QED
      BY <1>2, <2>2, QuietKeeps
  <1>23. Directory'
    BY <1>2 DEF Directory
  <1> QED
    BY <1>2, <1>21, <1>22, <1>23

(* The invariant holds in every reachable state: the types, the directory  *)
(* of names, and what is on its way between each client and the server.    *)
THEOREM EarlyNames == Spec => []Inductive
  <1>1. Init => Inductive
    <2> SUFFICES ASSUME Init PROVE Inductive
      OBVIOUS
    <2>1. Types
      BY InitTyped
    <2>2. Directory
      <3>1. DOMAIN names = {}
        BY DEF Init
      <3> QED
        BY <3>1 DEF Directory
    <2>3. ASSUME NEW c \in Clients PROVE Knows(c)
      <3>1. upBuffer[c] = <<>> /\ up[c] = <<>> /\ downBuffer[c] = <<>> /\ down[c] = <<>>
            /\ name[c] = NoName
        BY DEF Init
      <3>2. DOMAIN Toward(c) = {} /\ DOMAIN Back(c) = {}
        BY <3>1 DEF Toward, Back
      <3> QED
        BY <3>1, <3>2 DEF Knows, Asks, Answers, KnowsName
    <2> QED
      BY <2>1, <2>2, <2>3 DEF Inductive
  <1>2. Inductive /\ [Next]_vars => Inductive'
    <2> SUFFICES ASSUME Inductive, [Next]_vars PROVE Inductive'
      OBVIOUS
    <2>1. CASE UNCHANGED vars
      BY <2>1 DEF vars, frontend, client, streams, tables, Inductive, Types, ClientTypes, StreamTypes,
                  TableTypes, Directory, Knows, KnowsName, Held, Toward, Back
    <2>2. CASE Run
      <3>1. CASE HandleLogin
        BY <3>1, LoginKeeps
      <3>2. CASE HandleQuit
        BY <3>2, QuitKeeps
      <3>3. CASE ~HandleLogin /\ ~HandleQuit
        BY <2>2, <3>3, ServerQuiet DEF Run
      <3> QED
        BY <3>1, <3>2, <3>3
    <2>3. ASSUME NEW c \in Clients, Command(c) \/ UIStops(c) \/ SetupConnection(c) \/ ClientLoop(c)
          PROVE  Inductive'
      <3>1. CASE TryGetRequest(c)
        BY <3>1, RequestKeeps
      <3>2. CASE LoginReturns(c)
        BY <3>2, LoginReturnKeeps
      <3>3. CASE QuitRepeats(c)
        BY <3>3, QuitRepeatKeeps
      <3>4. CASE ~TryGetRequest(c) /\ ~LoginReturns(c) /\ ~QuitRepeats(c)
        BY <2>3, <3>4, ClientQuiet DEF ClientLoop
      <3> QED
        BY <3>1, <3>2, <3>3, <3>4
    <2> QED
      BY <2>1, <2>2, <2>3 DEF Next
  <1> QED
    BY <1>1, <1>2, PTL DEF Spec

(* A client that was told its login succeeded is the one that texts to     *)
(* that name are sent to, however many clients there are (handleLogin,     *)
(* insert).                                                                *)
THEOREM NamesKept == Spec => []NameIsMine
  <1>1. Inductive => NameIsMine
    BY DEF Inductive, Knows, KnowsName, Held, NameIsMine
  <1> QED
    BY <1>1, EarlyNames, PTL

(* No two clients have been told, and may still believe, that the same     *)
(* name is theirs (handleLogin).                                           *)
THEOREM NamesDiffer ==
  Spec => [](\A c, d \in Clients : name[c] # NoName /\ name[c] = name[d] => c = d)
  <1>1. NameIsMine => \A c, d \in Clients : name[c] # NoName /\ name[c] = name[d] => c = d
    BY DEF NameIsMine
  <1> QED
    BY <1>1, NamesKept, PTL

(* Where there are no texts, all are kept.                                 *)
LEMMA NoTexts ==
  ASSUME NEW r, NEW s, NEW all \in BOOLEAN, TextsIn(r) = {}, TextsIn(s) = {}
  PROVE  Keeps(r, s, all)
  <1> DEFINE at == [i \in {} |-> i]
  <1>1. at \in [{} -> {}]
    OBVIOUS
  <1>2. at \in [TextsIn(r) -> TextsIn(s)]
    BY <1>1
  <1> QED
    BY <1>2 DEF Keeps

(* Sequences without a text.                                               *)
LEMMA NoTextHere ==
  ASSUME NEW m
  PROVE  /\ TextsIn(<<>>) = {}
         /\ m.kind # "MESSAGE" => TextsIn(<<m>>) = {}
  BY DEF TextsIn

(* A sequence is its head and its tail.                                    *)
LEMMA HeadAndTail ==
  ASSUME NEW S, NEW q \in Seq(S), q # <<>>
  PROVE  /\ Head(q) = q[1] /\ Head(q) \in S /\ Tail(q) \in Seq(S) /\ Len(Tail(q)) = Len(q) - 1
         /\ \A i \in 1 .. Len(q) - 1 : Tail(q)[i] = q[i + 1]
         /\ <<Head(q)>> \o Tail(q) = q
  <1> DEFINE t == Tail(q)  h == Head(q)  l == Len(q)
  <1>1. /\ l \in Nat /\ l # 0 /\ t \in Seq(S) /\ h \in S /\ h = q[1] /\ Len(t) = l - 1
        /\ \A i \in 1 .. l - 1 : t[i] = q[i + 1]
    BY EmptySeq, LenProperties, HeadTailProperties
  <1> HIDE DEF t, h, l
  <1>2. <<h>> \in Seq(S) /\ Len(<<h>>) = 1 /\ <<h>>[1] = h
    BY <1>1
  <1> DEFINE a == <<h>>
  <1> HIDE DEF a
  <1> DEFINE x == a \o t
  <1>3. x \in Seq(S) /\ Len(x) = 1 + (l - 1)
        /\ \A i \in 1 .. 1 + (l - 1) : x[i] = IF i <= 1 THEN a[i] ELSE t[i - 1]
    BY <1>1, <1>2, ConcatProperties DEF a
  <1> HIDE DEF x
  <1>4. Len(x) = l
    BY <1>1, <1>3
  <1>5. \A i \in 1 .. l : x[i] = q[i]
    <2> TAKE i \in 1 .. l
    <2>1. CASE i = 1
      BY <1>1, <1>2, <1>3, <2>1 DEF a
    <2>2. CASE i # 1
      <3> DEFINE j == i - 1
      <3>1. j \in 1 .. l - 1 /\ j + 1 = i /\ i \in 1 .. 1 + (l - 1) /\ ~(i <= 1)
        BY <1>1, <2>2
      <3>2. x[i] = t[j]
        BY <1>3, <3>1
      <3> HIDE DEF j
      <3> QED
        BY <1>1, <3>1, <3>2
    <2> QED
      BY <2>1, <2>2
  <1>6. x = q
    BY <1>3, <1>4, <1>5, SeqEqual DEF l
  <1> QED
    BY <1>1, <1>6 DEF t, h, l, x, a

(* What is before does not matter to the order behind it.                  *)
LEMMA KeepsBehind ==
  ASSUME NEW S, NEW a \in Seq(S), NEW q \in Seq(S), NEW r \in Seq(S), NEW all \in BOOLEAN,
         Keeps(r, q, all)
  PROVE  Keeps(a \o r, a \o q, all)
  BY KeepsItself, KeepsJoined

(* What is behind does not matter to the order before it.                  *)
LEMMA KeepsBefore ==
  ASSUME NEW S, NEW a \in Seq(S), NEW b \in Seq(S), NEW q \in Seq(S), NEW all \in BOOLEAN,
         Keeps(b, a, all)
  PROVE  Keeps(b \o q, a \o q, all)
  BY KeepsItself, KeepsJoined

(* recv() took k of the packets in q, and what was made of the first is behind a. *)
LEMMA TakingKeeps ==
  ASSUME NEW S, NEW a \in Seq(S), NEW b \in Seq(S), NEW q \in Seq(S), NEW r \in Seq(S),
         NEW k \in Nat, NEW all \in BOOLEAN, CutAt(r, q, k, Len(q)), (all => ~(k > 1)),
         \/ b = a /\ q[1].kind # "MESSAGE"
         \/ \E x \in S : /\ b = Append(a, x)
                         /\ x = q[1] \/ (x.kind # "MESSAGE" /\ q[1].kind # "MESSAGE")
  PROVE  Keeps(b \o r, a \o q, all)
  <1> DEFINE l == Len(q)
  <1>1. /\ l \in Nat /\ k \in 1 .. l /\ Len(r) = l - k
        /\ \A i \in 1 .. l - k : r[i] = q[k + i]
    BY DEF CutAt
  <1>2. CASE b = a /\ q[1].kind # "MESSAGE"
    <2>1. all => \A i \in 1 .. k : q[i].kind # "MESSAGE"
      <3> SUFFICES ASSUME all PROVE \A i \in 1 .. k : q[i].kind # "MESSAGE"
        OBVIOUS
      <3>1. k = 1
        BY <1>1
      <3> QED
        BY <1>2, <3>1
    <2>2. k \in 0 .. l
      BY <1>1
    <2>3. Keeps(r, q, all)
      BY <1>1, <2>1, <2>2, KeepsRest
    <2> QED
      BY <1>2, <2>3, KeepsBehind
  <1>3. ASSUME NEW x \in S, b = Append(a, x),
               x = q[1] \/ (x.kind # "MESSAGE" /\ q[1].kind # "MESSAGE")
        PROVE  Keeps(b \o r, a \o q, all)
    <2> DEFINE t == Tail(q)  h == Head(q)
    <2>1. q # <<>>
      BY <1>1
    <2>2. /\ h = q[1] /\ h \in S /\ t \in Seq(S) /\ Len(t) = l - 1
          /\ \A i \in 1 .. l - 1 : t[i] = q[i + 1]
          /\ <<h>> \o t = q
      BY <2>1, HeadAndTail
    <2> HIDE DEF t, h, l
    <2> DEFINE o == k - 1  m == Len(t)
    <2>3. o \in 0 .. m /\ Len(r) = m - o /\ m \in Nat
      BY <1>1, <2>2
    <2>4. \A i \in 1 .. m - o : r[i] = t[o + i]
      <3> TAKE i \in 1 .. m - o
      <3>1. i \in 1 .. l - k /\ o + i \in 1 .. l - 1 /\ (o + i) + 1 = k + i
        BY <1>1, <2>2, <2>3
      <3> HIDE DEF o, m
      <3> QED
        BY <1>1, <2>2, <3>1
    <2>5. all => \A i \in 1 .. o : t[i].kind # "MESSAGE"
      <3> SUFFICES ASSUME all PROVE 1 .. o = {}
        OBVIOUS
      <3> QED
        BY <1>1
    <2> HIDE DEF o
    <2>6. Keeps(r, t, all)
      BY <2>2, <2>3, <2>4, <2>5, KeepsRest
    <2>7. Keeps(<<x>>, <<h>>, all)
      <3>1. CASE x = q[1]
        BY <2>2, <3>1, KeepsItself
      <3>2. CASE x.kind # "MESSAGE" /\ q[1].kind # "MESSAGE"
        BY <2>2, <3>2, NoTexts, NoTextHere
      <3> QED
        BY <1>3, <3>1, <3>2
    <2> DEFINE X == <<x>>  H == <<h>>
    <2>8. X \in Seq(S) /\ H \in Seq(S)
      BY <2>2
    <2>9. Keeps(X, H, all)
      BY <2>7
    <2>10. b = a \o X /\ H \o t = q
      BY <1>3, <2>2, AppendIsConcat
    <2> HIDE DEF X, H
    <2>11. Keeps(X \o r, H \o t, all)
      BY <2>2, <2>6, <2>8, <2>9, KeepsJoined
    <2>12. X \o r \in Seq(S) /\ H \o t \in Seq(S)
      BY <2>2, <2>8, ConcatProperties
    <2>13. Keeps(a \o (X \o r), a \o (H \o t), all)
      BY <2>11, <2>12, KeepsBehind
    <2>14. (a \o X) \o r = a \o (X \o r)
      <3>1. a \in Seq(S) /\ r \in Seq(S)
        OBVIOUS
      <3> QED
        BY ONLY <2>8, <3>1, ConcatAssociative, SMTT(30)
    <2> QED
      BY <2>10, <2>13, <2>14
  <1> QED
    BY <1>2, <1>3

-----------------------------------------------------------------------------
(* What c has taken from its stream, and all that was sent to it.          *)
Taken(c) == shown[c] \o pktQueue[c]
Whole(c) == shown[c] \o pktQueue[c] \o downBuffer[c] \o down[c]

(* What was taken, then what is on its way.                                *)
LEMMA WholeIs ==
  ASSUME StreamTypes, NEW c \in Clients
  PROVE  /\ Whole(c) = Taken(c) \o Back(c)
         /\ Taken(c) \in Seq(ToClient) /\ Back(c) \in Seq(ToClient)
         /\ Whole(c) \in Seq(ToClient) /\ forwarded[c] \in Seq(ToClient)
  <1>1. shown[c] \in Seq(ToClient) /\ pktQueue[c] \in Seq(ToClient) /\ forwarded[c] \in Seq(ToClient)
        /\ downBuffer[c] \in Seq(ToClient) /\ down[c] \in Seq(ToClient)
    BY DEF StreamTypes
  <1>2. Taken(c) \in Seq(ToClient)
    BY <1>1, ConcatProperties DEF Taken
  <1>3. Back(c) \in Seq(ToClient)
    BY <1>1, ConcatProperties DEF Back
  <1>4. Taken(c) \o Back(c) = (Taken(c) \o downBuffer[c]) \o down[c]
    <2> DEFINE t == Taken(c)  b == downBuffer[c]  d == down[c]
    <2>1. t \in Seq(ToClient) /\ b \in Seq(ToClient) /\ d \in Seq(ToClient)
      BY <1>1, <1>2
    <2>2. Back(c) = b \o d
      BY DEF Back
    <2> HIDE DEF t, b, d
    <2>3. (t \o b) \o d = t \o (b \o d)
      BY ONLY <2>1, ConcatAssociative
    <2> QED
      BY <2>2, <2>3 DEF t, b, d
  <1>5. Whole(c) = Taken(c) \o Back(c)
    BY <1>4 DEF Whole, Taken
  <1>6. Taken(c) \o Back(c) \in Seq(ToClient)
    BY <1>2, <1>3, ConcatProperties
  <1> QED
    BY <1>1, <1>2, <1>3, <1>5, <1>6

(* The same after a step.                                                  *)
LEMMA WholeIsNext ==
  ASSUME StreamTypes', NEW c \in Clients
  PROVE  /\ Whole(c)' = Taken(c)' \o Back(c)'
         /\ Taken(c)' \in Seq(ToClient) /\ Back(c)' \in Seq(ToClient)
         /\ Whole(c)' \in Seq(ToClient)
  <1>1. shown'[c] \in Seq(ToClient) /\ pktQueue'[c] \in Seq(ToClient)
        /\ downBuffer'[c] \in Seq(ToClient) /\ down'[c] \in Seq(ToClient)
    BY DEF StreamTypes
  <1>2. Taken(c)' \in Seq(ToClient)
    BY <1>1, ConcatProperties DEF Taken
  <1>3. Back(c)' \in Seq(ToClient)
    BY <1>1, ConcatProperties DEF Back
  <1>4. Taken(c)' \o Back(c)' = (Taken(c)' \o downBuffer'[c]) \o down'[c]
    <2> DEFINE t == Taken(c)'  b == downBuffer'[c]  d == down'[c]
    <2>1. t \in Seq(ToClient) /\ b \in Seq(ToClient) /\ d \in Seq(ToClient)
      BY <1>1, <1>2
    <2>2. Back(c)' = b \o d
      BY DEF Back
    <2> HIDE DEF t, b, d
    <2>3. (t \o b) \o d = t \o (b \o d)
      BY ONLY <2>1, ConcatAssociative
    <2> QED
      BY <2>2, <2>3 DEF t, b, d
  <1>5. Whole(c)' = Taken(c)' \o Back(c)'
    BY <1>4 DEF Whole, Taken
  <1>6. Taken(c)' \o Back(c)' \in Seq(ToClient)
    BY <1>2, <1>3, ConcatProperties
  <1> QED
    BY <1>2, <1>3, <1>5, <1>6

(* TextsInOrder, for one client.                                           *)
InOrder(c) == Keeps(Whole(c), forwarded[c], ~dropped)

(* The order stays where texts are at most lost, and where none may be,    *)
(* kept.                                                                   *)
LEMMA OrderStays ==
  ASSUME NEW c \in Clients, InOrder(c), forwarded'[c] = forwarded[c],
         dropped \in BOOLEAN, dropped' \in BOOLEAN, dropped => dropped',
         Keeps(Whole(c)', Whole(c), ~dropped')
  PROVE  InOrder(c)'
  <1>1. PICK less \in BOOLEAN : less = ~dropped'
    OBVIOUS
  <1>2. PICK all \in BOOLEAN : all = ~dropped
    OBVIOUS
  <1>3. less => all
    BY <1>1, <1>2
  <1>4. Keeps(Whole(c), forwarded[c], all)
    BY <1>2 DEF InOrder
  <1>5. Keeps(Whole(c), forwarded[c], less)
    BY <1>3, <1>4, KeepsLess
  <1>6. Keeps(Whole(c)', forwarded[c], less)
    BY <1>1, <1>5, KeepsOfKept
  <1> QED
    BY <1>1, <1>6 DEF InOrder

(* The order stays where nothing moves.                                    *)
LEMMA OrderSame ==
  ASSUME NEW c \in Clients, InOrder(c), forwarded'[c] = forwarded[c],
         dropped \in BOOLEAN, dropped' \in BOOLEAN, dropped => dropped',
         Whole(c)' = Whole(c)
  PROVE  InOrder(c)'
  BY OrderStays, KeepsItself

(* The order stays when c takes a packet and puts it, or what it made of   *)
(* it, behind what it has taken.                                           *)
LEMMA OrderTaken ==
  ASSUME Types, Types', NEW c \in Clients, NEW p, BackTaken(c, p), InOrder(c),
         forwarded' = forwarded,
         \/ Taken(c)' = Taken(c) /\ p.kind # "MESSAGE"
         \/ \E x \in ToClient : /\ Taken(c)' = Append(Taken(c), x)
                                /\ x = p \/ (x.kind # "MESSAGE" /\ p.kind # "MESSAGE")
  PROVE  InOrder(c)'
  <1> USE DEF Types
  <1>1. PICK a : a = Taken(c)
    OBVIOUS
  <1>2. PICK b : b = Taken(c)'
    OBVIOUS
  <1>3. PICK q : q = Back(c)
    OBVIOUS
  <1>4. PICK r : r = Back(c)'
    OBVIOUS
  <1>5. a \in Seq(ToClient) /\ b \in Seq(ToClient) /\ q \in Seq(ToClient) /\ r \in Seq(ToClient)
        /\ Whole(c) = a \o q /\ Whole(c)' = b \o r
    BY <1>1, <1>2, <1>3, <1>4, WholeIs, WholeIsNext
  <1>6. PICK k \in Nat : CutAt(r, q, k, Len(q)) /\ (k > 1 => dropped')
    BY <1>3, <1>4 DEF BackTaken
  <1>7. p = q[1] /\ dropped' \in BOOLEAN /\ (dropped => dropped')
    BY <1>3 DEF BackTaken
  <1>8. PICK all \in BOOLEAN : all = ~dropped'
    BY <1>7
  <1>9. all => ~(k > 1)
    BY <1>6, <1>8
  <1>10. \/ b = a /\ q[1].kind # "MESSAGE"
         \/ \E x \in ToClient : /\ b = Append(a, x)
                                /\ x = q[1] \/ (x.kind # "MESSAGE" /\ q[1].kind # "MESSAGE")
    BY <1>1, <1>2, <1>7
  <1>11. Keeps(b \o r, a \o q, all)
    BY <1>5, <1>6, <1>9, <1>10, TakingKeeps
  <1> QED
    BY <1>5, <1>7, <1>8, <1>11, OrderStays DEF StreamTypes

(* The order stays when the server sends a text on, or another packet.     *)
LEMMA OrderSent ==
  ASSUME Types, Types', NEW c \in Clients, NEW m \in ToClient, BackLonger(c, m), InOrder(c),
         Taken(c)' = Taken(c), dropped => dropped',
         \/ m.kind # "MESSAGE" /\ forwarded'[c] = forwarded[c]
         \/ forwarded'[c] = Append(forwarded[c], m)
  PROVE  InOrder(c)'
  <1> USE DEF Types
  <1>1. PICK w : w = Whole(c)
    OBVIOUS
  <1>2. PICK f : f = forwarded[c]
    OBVIOUS
  <1> DEFINE M == <<m>>  E == <<>>
  <1>3. M \in Seq(ToClient) /\ E \in Seq(ToClient) /\ w \in Seq(ToClient) /\ f \in Seq(ToClient)
    BY <1>1, <1>2, WholeIs
  <1>4. Whole(c)' = w \o M
    <2>1. Whole(c)' = Taken(c) \o Append(Back(c), m)
      BY WholeIsNext DEF BackLonger
    <2>2. Taken(c) \in Seq(ToClient) /\ Back(c) \in Seq(ToClient) /\ w = Taken(c) \o Back(c)
      BY <1>1, WholeIs
    <2>3. Taken(c) \o Append(Back(c), m) = Append(w, m)
      BY <2>2, AppendBehind
    <2> QED
      BY <1>3, <2>1, <2>3, AppendIsConcat
  <1>5. dropped \in BOOLEAN /\ dropped' \in BOOLEAN
    BY DEF StreamTypes
  <1>6. CASE m.kind # "MESSAGE" /\ forwarded'[c] = forwarded[c]
    <2>1. PICK all \in BOOLEAN : all = ~dropped'
      BY <1>5
    <2>2. Keeps(M, E, all)
      BY <1>6, NoTexts, NoTextHere
    <2>3. w \o E = w
      BY <1>3, ConcatEmptySeq
    <2> HIDE DEF M, E
    <2>4. Keeps(w \o M, w \o E, all)
      BY <1>3, <2>2, KeepsBehind
    <2> QED
      BY <1>1, <1>4, <1>5, <1>6, <2>1, <2>3, <2>4, OrderStays
  <1>7. CASE forwarded'[c] = Append(forwarded[c], m)
    <2>1. PICK less \in BOOLEAN : less = ~dropped'
      BY <1>5
    <2>2. PICK all \in BOOLEAN : all = ~dropped
      BY <1>5
    <2>3. less => all
      BY <2>1, <2>2
    <2>4. Keeps(w, f, all)
      BY <1>1, <1>2, <2>2 DEF InOrder
    <2>5. Keeps(w, f, less)
      BY <2>3, <2>4, KeepsLess
    <2>6. forwarded'[c] = f \o M
      BY <1>2, <1>3, <1>7, AppendIsConcat
    <2> HIDE DEF M, E
    <2>7. Keeps(M, M, less)
      BY KeepsItself
    <2>8. Keeps(w \o M, f \o M, less)
      BY <1>3, <2>5, <2>7, KeepsJoined
    <2> QED
      BY <1>4, <2>1, <2>6, <2>8 DEF InOrder
  <1> QED
    BY <1>6, <1>7

(* A step that concerns c leaves the order of the others.                  *)
LEMMA OthersInOrder ==
  ASSUME Types, Types', TextsInOrder, NEW c \in Clients, dropped => dropped',
         \A d \in Clients \ {c} :
            Taken(d)' = Taken(d) /\ Back(d)' = Back(d) /\ forwarded'[d] = forwarded[d],
         InOrder(c)'
  PROVE  TextsInOrder'
  <1>1. ASSUME NEW d \in Clients, d # c PROVE InOrder(d)'
    <2>1. Whole(d)' = Whole(d)
      BY <1>1, WholeIs, WholeIsNext DEF Types
    <2>2. InOrder(d) /\ dropped \in BOOLEAN /\ dropped' \in BOOLEAN
      BY DEF TextsInOrder, InOrder, Whole, Types, StreamTypes
    <2> QED
      BY <1>1, <2>1, <2>2, OrderSame
  <1>2. \A d \in Clients : InOrder(d)'
    BY <1>1
  <1> QED
    BY <1>2 DEF TextsInOrder, InOrder, Whole

(* A step that touches no text keeps the order.                            *)
LEMMA NothingTaken ==
  ASSUME TextsInOrder, UNCHANGED <<shown, pktQueue, down, downBuffer, forwarded, dropped>>
  PROVE  TextsInOrder'
  BY DEF TextsInOrder

(* A packet that was not waited for is put behind those put aside.         *)
LEMMA PutAsideInOrder ==
  ASSUME Types, Types', TextsInOrder, NEW c \in Clients, OtherThanAck(c) \/ OtherThanList(c)
  PROVE  TextsInOrder'
  <1> USE DEF Types
  <1>1. PICK p : /\ BackTaken(c, p)
                 /\ PutAside(c, IF pc[c] # "getUsers" /\ p.kind = "CONTROL" THEN Null ELSE p)
    BY OtherTyped
  <1>2. PICK x : x = IF pc[c] # "getUsers" /\ p.kind = "CONTROL" THEN Null ELSE p
    OBVIOUS
  <1>3. shown' = shown /\ forwarded' = forwarded
    BY DEF OtherThanAck, OtherThanList, tables
  <1>4. pktQueue' = [pktQueue EXCEPT ![c] = Append(@, x)]
    BY <1>1, <1>2 DEF PutAside
  <1>5. p \in ToClient /\ x \in ToClient
    BY <1>1, <1>2 DEF BackTaken, ToClient
  <1>6. x = p \/ (x.kind # "MESSAGE" /\ p.kind # "MESSAGE")
    BY <1>2 DEF Null
  <1>7. shown[c] \in Seq(ToClient) /\ pktQueue[c] \in Seq(ToClient)
    BY DEF StreamTypes
  <1>8. shown[c] \o Append(pktQueue[c], x) = Append(shown[c] \o pktQueue[c], x)
    <2>1. PICK s, q : s = shown[c] /\ q = pktQueue[c]
      OBVIOUS
    <2>2. s \in Seq(ToClient) /\ q \in Seq(ToClient) /\ x \in ToClient
      BY <1>5, <1>7, <2>1
    <2>3. s \o Append(q, x) = Append(s \o q, x)
      BY ONLY <2>2, AppendBehind
    <2> QED
      BY <2>1, <2>3
  <1>9. Taken(c)' = Append(Taken(c), x)
    BY <1>3, <1>4, <1>8 DEF Taken, StreamTypes
  <1>10. InOrder(c)
    BY DEF TextsInOrder, InOrder, Whole
  <1>11. InOrder(c)'
    BY <1>1, <1>3, <1>5, <1>6, <1>9, <1>10, OrderTaken
  <1>12. \A d \in Clients \ {c} :
            Taken(d)' = Taken(d) /\ Back(d)' = Back(d) /\ forwarded'[d] = forwarded[d]
    BY <1>1, <1>3, <1>4 DEF BackTaken, Taken, StreamTypes
  <1> QED
    BY <1>1, <1>11, <1>12, OthersInOrder DEF BackTaken

(* A reply or a list is read and thrown away. *)
LEMMA ThrownAway ==
  ASSUME Types, Types', TextsInOrder, NEW c \in Clients, NEW p, BackTaken(c, p), p.kind # "MESSAGE",
         UNCHANGED <<shown, pktQueue, forwarded>>
  PROVE  TextsInOrder'
  <1> USE DEF Types
  <1>1. \A d \in Clients : Taken(d)' = Taken(d)
    BY DEF Taken
  <1>2. InOrder(c)
    BY DEF TextsInOrder, InOrder, Whole
  <1>3. InOrder(c)'
    BY <1>1, <1>2, OrderTaken
  <1>4. \A d \in Clients \ {c} : Back(d)' = Back(d)
    BY DEF BackTaken
  <1> QED
    BY <1>1, <1>3, <1>4, OthersInOrder DEF BackTaken

(* The last loop shows what was put aside first, then what comes.          *)
LEMMA PollsInOrder ==
  ASSUME Types, Types', TextsInOrder, NEW c \in Clients,
         NoMoreRequests(c) \/ PollQueue(c) \/ PollSocket(c) \/ PollEmpty(c)
  PROVE  TextsInOrder'
  <1> USE DEF Types
  <1>1. forwarded' = forwarded
    BY DEF NoMoreRequests, PollQueue, PollSocket, PollEmpty, tables
  <1>2. InOrder(c)
    BY DEF TextsInOrder, InOrder, Whole
  <1>3. shown[c] \in Seq(ToClient) /\ pktQueue[c] \in Seq(ToClient)
    BY DEF StreamTypes
  <1>4. CASE UNCHANGED <<pktQueue, shown, down, downBuffer, dropped>>
    BY <1>1, <1>4, NothingTaken
  <1>5. ASSUME NEW p, BackTaken(c, p), Show(c, p), pktQueue' = pktQueue, pktQueue[c] = <<>>
        PROVE  TextsInOrder'
    <2>1. CASE p.kind # "MESSAGE"
      <3>1. shown' = shown
        BY <1>5, <2>1 DEF Show, StreamTypes
      <3> QED
        BY <1>1, <1>5, <2>1, <3>1, ThrownAway
    <2>2. CASE p.kind = "MESSAGE"
      <3>1. shown' = [shown EXCEPT ![c] = Append(@, p)] /\ p \in ToClient
        BY <1>5, <2>2 DEF Show, BackTaken
      <3>2. Append(shown[c], p) \in Seq(ToClient)
        BY <1>3, <3>1, AppendProperties
      <3>3. Taken(c) = shown[c]
        BY <1>3, <1>5, ConcatEmptySeq DEF Taken
      <3>4. Taken(c)' = Append(shown[c], p)
        <4>1. Taken(c)' = Append(shown[c], p) \o <<>>
          BY <1>5, <3>1 DEF Taken, StreamTypes
        <4> QED
          BY <3>2, <4>1, ConcatEmptySeq
      <3>5. InOrder(c)'
        BY <1>1, <1>2, <1>5, <3>1, <3>3, <3>4, OrderTaken
      <3>6. \A d \in Clients \ {c} :
            Taken(d)' = Taken(d) /\ Back(d)' = Back(d) /\ forwarded'[d] = forwarded[d]
        BY <1>1, <1>5, <3>1 DEF BackTaken, Taken, StreamTypes
      <3> QED
        BY <1>5, <3>5, <3>6, OthersInOrder DEF BackTaken
    <2> QED
      BY <2>1, <2>2
  <1>6. ASSUME PollQueue(c), UNCHANGED <<down, downBuffer, dropped>>
        PROVE  TextsInOrder'
    <2> DEFINE s == shown[c]  q == pktQueue[c]  h == Head(q)  t == Tail(q)
    <2>1. q # <<>> /\ pktQueue' = [pktQueue EXCEPT ![c] = t] /\ Show(c, h)
      BY <1>6 DEF PollQueue
    <2>2. h \in ToClient /\ t \in Seq(ToClient) /\ <<h>> \o t = q
      BY <1>3, <2>1, HeadAndTail
    <2>3. Taken(c) = s \o q
      BY DEF Taken
    <2>4. Taken(c)' = (IF h.kind = "MESSAGE" THEN Append(s, h) ELSE s) \o t
      BY <2>1 DEF Show, Taken, StreamTypes
    <2> HIDE DEF s, q, h, t
    <2> DEFINE H == <<h>>  E == <<>>
    <2>5. PICK less \in BOOLEAN : less = ~dropped'
      BY DEF StreamTypes
    <2>6. H \in Seq(ToClient) /\ E \in Seq(ToClient) /\ s \in Seq(ToClient)
      BY <1>3, <2>2 DEF s
    <2>7. H \o t = q /\ E \o t = t
      BY <2>2, ConcatEmptySeq
    <2>8. Keeps(Taken(c)', Taken(c), less)
      <3>1. CASE h.kind = "MESSAGE"
        <4>1. Append(s, h) = s \o H
          BY <2>2, <2>6, AppendIsConcat
        <4> HIDE DEF H, E
        <4>2. (s \o H) \o t = s \o (H \o t)
          BY ONLY <2>2, <2>6, ConcatAssociative, SMTT(30)
        <4>3. Taken(c)' = Taken(c)
          BY <2>3, <2>4, <2>7, <3>1, <4>1, <4>2
        <4> QED
          BY <4>3, KeepsItself
      <3>2. CASE h.kind # "MESSAGE"
        <4>1. Keeps(E, H, less)
          BY <3>2, NoTexts, NoTextHere
        <4> HIDE DEF H, E
        <4>2. Keeps(E \o t, H \o t, less)
          BY <2>2, <2>6, <4>1, KeepsBefore
        <4>3. Keeps(t, q, less) /\ q \in Seq(ToClient)
          BY <1>3, <2>7, <4>2 DEF q
        <4>4. Keeps(s \o t, s \o q, less)
          BY <2>2, <2>6, <4>3, KeepsBehind
        <4> QED
          BY <2>3, <2>4, <3>2, <4>4
      <3> QED
        BY <3>1, <3>2
    <2>9. Back(c)' = Back(c)
      BY <1>6 DEF Back
    <2>10. Keeps(Whole(c)', Whole(c), less)
      BY <2>8, <2>9, WholeIs, WholeIsNext, KeepsBefore
    <2>11. dropped \in BOOLEAN /\ dropped' \in BOOLEAN /\ (dropped => dropped')
      BY <1>6 DEF StreamTypes
    <2>12. InOrder(c)'
      BY <1>1, <1>2, <2>5, <2>10, <2>11, OrderStays
    <2>13. \A d \in Clients \ {c} :
            Taken(d)' = Taken(d) /\ Back(d)' = Back(d) /\ forwarded'[d] = forwarded[d]
      BY <1>1, <1>6, <2>1 DEF Show, Taken, Back, StreamTypes
    <2> QED
      BY <2>11, <2>12, <2>13, OthersInOrder
  <1> QED
    BY <1>4, <1>5, <1>6, PollTyped

(* Every step of a client keeps the order.                                 *)
LEMMA ClientInOrder ==
  ASSUME Types, Types', TextsInOrder, NEW c \in Clients,
         Command(c) \/ UIStops(c) \/ SetupConnection(c) \/ ClientLoop(c)
  PROVE  TextsInOrder'
  <1>1. CASE Command(c) \/ UIStops(c) \/ SetupConnection(c) \/ TryGetRequest(c)
    <2>1. UNCHANGED <<shown, pktQueue, down, downBuffer, forwarded, dropped>>
      BY <1>1 DEF Command, UIStops, SetupConnection, TryGetRequest, client, streams, tables
    <2> QED
      BY <2>1, NothingTaken
  <1>2. CASE OtherThanAck(c) \/ OtherThanList(c)
    BY <1>2, PutAsideInOrder
  <1>3. CASE LoginReturns(c) \/ QuitRepeats(c)
    <2>1. PICK p : BackTaken(c, p) /\ IsReply(c, p)
      BY <1>3, LoginReturnsTyped, QuitRepeatsTyped
    <2>2. UNCHANGED <<shown, pktQueue, forwarded>>
      BY <1>3 DEF LoginReturns, QuitRepeats, tables
    <2>3. p.kind # "MESSAGE"
      BY <2>1 DEF IsReply
    <2> QED
      BY <2>1, <2>2, <2>3, ThrownAway
  <1>4. CASE GetUsersReturns(c)
    <2>1. UNCHANGED <<shown, pktQueue, forwarded>>
      BY <1>4 DEF GetUsersReturns, tables
    <2>2. CASE UNCHANGED <<down, downBuffer, dropped>>
      BY <2>1, <2>2, NothingTaken
    <2>3. ASSUME NEW p, BackTaken(c, p), p.kind = "LIST" PROVE TextsInOrder'
      BY <2>1, <2>3, ThrownAway
    <2> QED
      BY <1>4, <2>2, <2>3, GetUsersTyped
  <1>5. CASE NoMoreRequests(c) \/ PollQueue(c) \/ PollSocket(c) \/ PollEmpty(c)
    BY <1>5, PollsInOrder
  <1> QED
    BY <1>1, <1>2, <1>3, <1>4, <1>5 DEF ClientLoop

(* The server sends m to c, and to nobody else. *)
LEMMA SendsInOrder ==
  ASSUME Types, Types', TextsInOrder, NEW c \in Clients, NEW m \in ToClient, BackLonger(c, m),
         UNCHANGED client, dropped => dropped',
         \/ m.kind # "MESSAGE" /\ forwarded' = forwarded
         \/ forwarded' = [forwarded EXCEPT ![c] = Append(@, m)]
  PROVE  TextsInOrder'
  <1>1. \A d \in Clients : Taken(d)' = Taken(d)
    BY DEF Taken, client
  <1>2. InOrder(c)
    BY DEF TextsInOrder, InOrder, Whole
  <1>3. \/ m.kind # "MESSAGE" /\ forwarded'[c] = forwarded[c]
        \/ forwarded'[c] = Append(forwarded[c], m)
    BY DEF Types, StreamTypes
  <1>4. InOrder(c)'
    BY <1>1, <1>2, <1>3, OrderSent
  <1>5. \A d \in Clients \ {c} : Back(d)' = Back(d) /\ forwarded'[d] = forwarded[d]
    BY DEF BackLonger, Types, StreamTypes
  <1> QED
    BY <1>1, <1>4, <1>5, OthersInOrder

(* Every step of the server keeps the order.                               *)
LEMMA ServerInOrder ==
  ASSUME Types, Types', TextsInOrder, Run
  PROVE  TextsInOrder'
  <1>1. ASSUME UNCHANGED <<shown, pktQueue, down, downBuffer, forwarded>>, dropped => dropped'
        PROVE  TextsInOrder'
    <2>1. ASSUME NEW d \in Clients PROVE InOrder(d)'
      <3>1. Whole(d)' = Whole(d) /\ forwarded'[d] = forwarded[d]
        BY <1>1 DEF Whole
      <3>2. InOrder(d) /\ dropped \in BOOLEAN /\ dropped' \in BOOLEAN
        BY DEF TextsInOrder, InOrder, Whole, Types, StreamTypes
      <3> QED
        BY <1>1, <3>1, <3>2, OrderSame
    <2> QED
      BY <2>1 DEF TextsInOrder, InOrder, Whole
  <1>2. CASE \E c \in Clients : GetConnections(c)
    BY <1>1, <1>2 DEF GetConnections, client, streams
  <1>3. CASE NotConnected
    BY <1>1, <1>3 DEF NotConnected, client, streams
  <1>4. CASE ReadsPastEnd
    <2>1. PICK c \in Clients, p \in ToServer : TowardTaken(c, p)
      BY <1>4, ReadsPastEndTyped
    <2> QED
      BY <1>1, <1>4, <2>1 DEF ReadsPastEnd, TowardTaken, client
  <1>5. CASE HandleLogin
    <2>1. PICK s \in SIDs, p \in ToServer, ack \in BOOLEAN :
            /\ p.kind = "LOGIN" /\ TowardTaken(conns[s].client, p)
            /\ BackLonger(conns[s].client, Control(p, ack))
      BY <1>5, HandleLoginTyped
    <2>2. PICK c : c = conns[s].client
      OBVIOUS
    <2>3. PICK m : m = Control(p, ack)
      OBVIOUS
    <2>4. c \in Clients
      BY <2>2, ConnectionTyped DEF Types
    <2>5. m \in ToClient /\ m.kind # "MESSAGE"
      BY <2>1, <2>3, ControlTyped
    <2>6. BackLonger(c, m) /\ (dropped => dropped')
      BY <2>1, <2>2, <2>3 DEF TowardTaken
    <2>7. UNCHANGED client /\ forwarded' = forwarded
      BY <1>5 DEF HandleLogin
    <2> QED
      BY <2>4, <2>5, <2>6, <2>7, SendsInOrder
  <1>6. CASE HandleQuit
    <2>1. PICK c \in Clients, p \in ToServer :
            /\ p.kind = "QUIT" /\ TowardTaken(c, p) /\ BackLonger(c, Control(p, TRUE))
      BY <1>6, HandleQuitTyped
    <2>2. PICK m : m = Control(p, TRUE)
      OBVIOUS
    <2>3. m \in ToClient /\ m.kind # "MESSAGE"
      BY <2>1, <2>2, ControlTyped
    <2>4. BackLonger(c, m) /\ (dropped => dropped')
      BY <2>1, <2>2 DEF TowardTaken
    <2>5. UNCHANGED client /\ forwarded' = forwarded
      BY <1>6 DEF HandleQuit
    <2> QED
      BY <2>3, <2>4, <2>5, SendsInOrder
  <1>7. CASE GetUserList
    <2>1. PICK c \in Clients, p \in ToServer :
            /\ TowardTaken(c, p) /\ BackLonger(c, [kind |-> "LIST"])
      BY <1>7, GetUserListTyped
    <2>2. PICK m : m = [kind |-> "LIST"]
      OBVIOUS
    <2>3. m \in ToClient /\ m.kind # "MESSAGE"
      BY <2>2 DEF ToClient
    <2>4. BackLonger(c, m) /\ (dropped => dropped')
      BY <2>1, <2>2 DEF TowardTaken
    <2>5. UNCHANGED client /\ forwarded' = forwarded
      BY <1>7 DEF GetUserList
    <2> QED
      BY <2>3, <2>4, <2>5, SendsInOrder
  <1>8. CASE HandleMessage
    <2>1. PICK c \in Clients, p \in ToServer : TowardTaken(c, p)
      BY <1>8, HandleMessageTyped
    <2>2. UNCHANGED client /\ (dropped => dropped')
      BY <1>8, <2>1 DEF HandleMessage, TowardTaken
    <2>3. CASE UNCHANGED <<down, downBuffer, forwarded>>
      BY <1>1, <2>2, <2>3 DEF client
    <2>4. ASSUME NEW d \in Clients, NEW text \in ToClient, BackLonger(d, text),
                 forwarded' = [forwarded EXCEPT ![d] = Append(@, text)]
          PROVE  TextsInOrder'
      BY <2>2, <2>4, SendsInOrder
    <2> QED
      BY <1>8, <2>3, <2>4, HandleMessageTyped
  <1> QED
    BY <1>2, <1>3, <1>4, <1>5, <1>6, <1>7, <1>8 DEF Run

(* In every reachable state each client has the texts sent on to it, once  *)
(* and in order, on its screen, put aside or on their way, and all of them *)
(* unless a recv() of phase 2 or 3 took several packets (waitUntilAck,     *)
(* waitForType, poll).                                                     *)
THEOREM EarlyTexts == Spec => []TextsInOrder
  <1>1. Init => TextsInOrder
    <2> SUFFICES ASSUME Init, NEW c \in Clients PROVE InOrder(c)
      BY DEF TextsInOrder, InOrder, Whole
    <2>1. Types
      BY InitTyped
    <2>2. /\ shown[c] = <<>> /\ pktQueue[c] = <<>> /\ downBuffer[c] = <<>> /\ down[c] = <<>>
          /\ forwarded[c] = <<>>
      BY DEF Init
    <2>3. Whole(c) = forwarded[c]
      BY <2>2 DEF Whole
    <2>4. dropped \in BOOLEAN
      BY DEF Init
    <2> QED
      BY <2>3, <2>4, KeepsItself DEF InOrder
  <1>2. Inductive /\ Inductive' /\ TextsInOrder /\ [Next]_vars => TextsInOrder'
    <2> SUFFICES ASSUME Types, Types', TextsInOrder, [Next]_vars PROVE TextsInOrder'
      BY DEF Inductive
    <2>1. CASE UNCHANGED vars
      BY <2>1, NothingTaken DEF vars, client, streams, tables
    <2>2. CASE Run
      BY <2>2, ServerInOrder
    <2>3. ASSUME NEW c \in Clients, Command(c) \/ UIStops(c) \/ SetupConnection(c) \/ ClientLoop(c)
          PROVE  TextsInOrder'
      BY <2>3, ClientInOrder
    <2> QED
      BY <2>1, <2>2, <2>3 DEF Next
  <1> QED
    BY <1>1, <1>2, EarlyNames, PTL DEF Spec
=============================================================================
