-------------------------- MODULE ConnectionProofs --------------------------
(***************************************************************************)
(* Proofs about what NetworkHandler does and is made of: the handshake,    *)
(* the packets of a connection, and the buffers that bytes are put in.     *)
(*                                                                         *)
(* Handshake, for any clients, private keys, modulus and generator.  First *)
(* the arithmetic: the loop of ModExp computes the power for every base    *)
(* and exponent, and powers of powers commute.  What a recursive function  *)
(* computes is shown by induction over the numbers (NatSet).  Then what    *)
(* the reader makes of a message of which it has a part, the inductive     *)
(* invariant - for each place of connect(), where the server is and what   *)
(* is on its way - and one lemma for each action.                          *)
(*                                                                         *)
(* Codec and Transport, for any packets, characters and sizes of a recv(): *)
(* every packet is read as it was written, whatever comes behind it;       *)
(* phase 1's buffer loses nothing; and a connection implements Channel.    *)
(*                                                                         *)
(* MemBuffer, for every number of buffers and every size: the offsets stay *)
(* in their block, each block has one owner, and what a buffer holds is a  *)
(* queue of bytes.                                                         *)
(***************************************************************************)
EXTENDS Handshake, Transport, MemBuffer, WellFoundedInduction, SequenceTheorems, TLAPS

(* Induction over the natural numbers, about a set.                        *)
LEMMA NatSet ==
    ASSUME NEW T, T \subseteq Nat, 0 \in T, \A n \in T : n + 1 \in T
    PROVE  T = Nat
  <1> SUFFICES ASSUME T # Nat PROVE FALSE
    OBVIOUS
  <1> DEFINE D == Nat \ T
             R == OpToRel(<, Nat)
  <1>1. D \subseteq Nat /\ D # {}
    OBVIOUS
  <1>2. IsWellFoundedOn(R, Nat)
    BY NatLessThanWellFounded, Zenon
  <1>3. PICK x \in D : \A y \in D : ~ (<<y, x>> \in R)
    <2> HIDE DEF D, R
    <2> QED
      BY <1>1, <1>2, WFMin
  <1>4. \A y, z \in Nat : y < z => <<y, z>> \in R
    BY DEF OpToRel
  <1>5. x # 0 /\ x - 1 \in Nat /\ x - 1 < x /\ (x - 1) + 1 = x
    OBVIOUS
  <1>6. x - 1 \in T
    BY <1>3, <1>4, <1>5
  <1> QED
    BY <1>5, <1>6

(* A function that is defined by recursion on the numbers exists: first up *)
(* to any n, in one way only, and so altogether.                           *)
Begins(f, n, S, a, F) ==
    /\ f \in [0 .. n -> S]
    /\ f[0] = a /\ \A i \in 0 .. n - 1 : f[i + 1] = F[f[i]]

(* Such a beginning of any length exists.                                  *)
LEMMA BeginsSome ==
    ASSUME NEW S, NEW a \in S, NEW F \in [S -> S]
    PROVE  \A n \in Nat : \E f : Begins(f, n, S, a, F)
  <1> DEFINE T == {n \in Nat : \E f : Begins(f, n, S, a, F)}
  <1>1. 0 \in T
    <2> DEFINE f == [i \in 0 .. 0 |-> a]
    <2>1. Begins(f, 0, S, a, F)
      BY DEF Begins
    <2> QED
      BY <2>1
  <1>2. ASSUME NEW n \in T PROVE n + 1 \in T
    <2>1. n \in Nat
      OBVIOUS
    <2>2. PICK f : Begins(f, n, S, a, F)
      OBVIOUS
    <2> DEFINE g == [i \in 0 .. n + 1 |-> IF i <= n THEN f[i] ELSE F[f[n]]]
    <2>3. \A i \in 0 .. n : f[i] \in S
      BY <2>2 DEF Begins
    <2>4. f[n] \in S /\ F[f[n]] \in S
      BY <2>1, <2>3
    <2>5. g \in [0 .. n + 1 -> S]
      BY <2>1, <2>3, <2>4
    <2>6. g[0] = a
      BY <2>1, <2>2 DEF Begins
    <2>7. ASSUME NEW i \in 0 .. n PROVE g[i + 1] = F[g[i]]
      <3>1. CASE i < n
        <4>1. i \in 0 .. n - 1 /\ i + 1 \in 0 .. n + 1 /\ i + 1 <= n /\ i \in 0 .. n + 1 /\ i <= n
          BY <2>1, <3>1
        <4>2. f[i + 1] = F[f[i]]
          BY <2>2, <4>1 DEF Begins
        <4> QED
          BY <4>1, <4>2
      <3>2. CASE i = n
        <4>1. n + 1 \in 0 .. n + 1 /\ ~(n + 1 <= n) /\ n \in 0 .. n + 1
          BY <2>1
        <4> QED
          BY <3>2, <4>1
      <3> QED
        BY <2>1, <3>1, <3>2
    <2>8. (n + 1) - 1 = n /\ n + 1 \in Nat
      BY <2>1
    <2> HIDE DEF g
    <2>9. Begins(g, n + 1, S, a, F)
      BY <2>5, <2>6, <2>7, <2>8 DEF Begins
    <2> QED
      BY <2>8, <2>9
  <1>3. T = Nat
    <2> T \subseteq Nat
      OBVIOUS
    <2> HIDE DEF T
    <2> QED
      BY <1>1, <1>2, NatSet
  <1> QED
    BY <1>3

(* Two beginnings agree where both are defined.                            *)
LEMMA BeginsOnce ==
    ASSUME NEW S, NEW a, NEW F, NEW n \in Nat, NEW m \in Nat, n <= m,
           NEW f, NEW g, Begins(f, n, S, a, F), Begins(g, m, S, a, F)
    PROVE  f[n] = g[n]
  <1> DEFINE T == {i \in Nat : i <= n => f[i] = g[i]}
  <1>1. 0 \in T
    BY DEF Begins
  <1>2. ASSUME NEW i \in T PROVE i + 1 \in T
    <2>1. ASSUME i + 1 <= n PROVE f[i + 1] = g[i + 1]
      <3>1. i \in 0 .. n - 1 /\ i \in 0 .. m - 1 /\ f[i] = g[i]
        BY <2>1
      <3> QED
        BY <3>1 DEF Begins
    <2> QED
      BY <2>1
  <1>3. T = Nat
    <2> T \subseteq Nat
      OBVIOUS
    <2> HIDE DEF T
    <2> QED
      BY <1>1, <1>2, NatSet
  <1> QED
    BY <1>3

(* The function that repeats F from a exists.                              *)
LEMMA Iterates ==
    ASSUME NEW S, NEW a \in S, NEW F \in [S -> S]
    PROVE  \E h \in [Nat -> S] : h[0] = a /\ \A n \in Nat : h[n + 1] = F[h[n]]
  <1> DEFINE Some(n) == CHOOSE f : Begins(f, n, S, a, F)
             h == [n \in Nat |-> Some(n)[n]]
  <1>1. \A n \in Nat : Begins(Some(n), n, S, a, F)
    BY BeginsSome
  <1> HIDE DEF Some
  <1>2. h \in [Nat -> S]
    BY <1>1 DEF Begins
  <1>3. h[0] = a
    BY <1>1 DEF Begins
  <1>4. ASSUME NEW n \in Nat PROVE h[n + 1] = F[h[n]]
    <2>1. n + 1 \in Nat /\ n <= n + 1 /\ n \in 0 .. (n + 1) - 1
      OBVIOUS
    <2>2. Some(n + 1)[n + 1] = F[Some(n + 1)[n]]
      BY <1>1, <2>1 DEF Begins
    <2>3. Some(n)[n] = Some(n + 1)[n]
      BY <1>1, <2>1, BeginsOnce
    <2> QED
      BY <2>1, <2>2, <2>3
  <1> HIDE DEF h
  <1> QED
    BY <1>2, <1>3, <1>4

(* Division with remainder.                                                *)
LEMMA Division ==
    ASSUME NEW x \in Nat, NEW m \in Nat, m > 0
    PROVE  /\ x \div m \in Nat /\ x % m \in Nat /\ x % m < m
           /\ x = m * (x \div m) + (x % m)
  OBVIOUS

(* A number and its remainder differ by a multiple of m.                   *)
LEMMA Remainder ==
    ASSUME NEW m \in Nat, NEW q \in Nat, NEW r \in Nat, r < m
    PROVE  (m * q + r) % m = r
  OBVIOUS

(* A factor may be reduced before it is multiplied.                        *)
LEMMA ReducedFactor ==
    ASSUME NEW a \in Nat, NEW b \in Nat, NEW m \in Nat, m > 0
    PROVE  /\ (a * (b % m)) % m = (a * b) % m
           /\ ((b % m) * a) % m = (b * a) % m
           /\ (b % m) % m = b % m
  <1> DEFINE q == b \div m
             r == b % m
             y == a * r
             k == y \div m
             z == y % m
  <1>1. q \in Nat /\ r \in Nat /\ b = m * q + r /\ r < m
    BY Division
  <1>2. y \in Nat /\ a * q \in Nat
    BY <1>1
  <1>3. k \in Nat /\ z \in Nat /\ y = m * k + z /\ z < m
    <2> HIDE DEF y
    <2> QED
      BY <1>2, Division
  <1> HIDE DEF q, r, k, z
  <1>4. a * b = m * (a * q) + y
    BY <1>1
  <1>5. a * b = m * (a * q + k) + z
    <2> DEFINE aq == a * q
    <2>1. aq \in Nat
      BY <1>2
    <2> HIDE DEF aq, y
    <2>2. m * (aq + k) = m * aq + m * k
      BY <1>3, <2>1
    <2>3. a * b = m * aq + y
      BY <1>4 DEF aq
    <2>4. m * aq \in Nat /\ m * k \in Nat
      BY <2>1, <1>3
    <2>5. m * aq + (m * k + z) = (m * aq + m * k) + z
      BY <2>4, <1>3
    <2> QED
      BY <1>3, <2>2, <2>3, <2>5 DEF aq
  <1>6. (a * b) % m = z
    <2> DEFINE p == a * q + k
    <2>1. p \in Nat
      BY <1>2, <1>3
    <2> HIDE DEF p
    <2> QED
      BY <1>3, <1>5, <2>1, Remainder DEF p
  <1>7. (a * (b % m)) % m = z
    BY DEF z, r
  <1>8. a * b = b * a /\ a * r = r * a
    BY <1>1
  <1>9. r % m = r
    <2>1. m * 0 + r = r
      BY <1>1
    <2> QED
      BY <1>1, <2>1, Remainder
  <1> QED
    BY <1>6, <1>7, <1>8, <1>9 DEF r

(* Factors may be reduced by Prime before they are multiplied.             *)
LEMMA ModPrime ==
    ASSUME NEW x \in Nat, NEW y \in Nat
    PROVE  /\ (x * (y % Prime)) % Prime = (x * y) % Prime
           /\ ((x % Prime) * y) % Prime = (x * y) % Prime
           /\ x % Prime \in Nat
  <1>1. Prime \in Nat /\ Prime > 0 /\ x % Prime \in Nat
    BY DHAssumption
  <1>2. (x * (y % Prime)) % Prime = (x * y) % Prime
    BY <1>1, ReducedFactor
  <1>3. ((x % Prime) * y) % Prime = (x * y) % Prime
    BY <1>1, ReducedFactor
  <1> QED
    BY <1>1, <1>2, <1>3

-----------------------------------------------------------------------------
(* Power is what repeated multiplication gives.                            *)
LEMMA PowerSteps ==
    ASSUME NEW base \in Nat
    PROVE  /\ Power(base, 0) = 1
           /\ \A e \in Nat : /\ Power(base, e) \in Nat
                             /\ Power(base, e + 1) = (Power(base, e) * base) % Prime
  <1> DEFINE F == [v \in Nat |-> (v * base) % Prime]
             power[e \in Nat] == IF e = 0 THEN 1 ELSE (power[e - 1] * base) % Prime
  <1>1. F \in [Nat -> Nat]
    BY DHAssumption
  <1>2. PICK h \in [Nat -> Nat] : h[0] = 1 /\ \A n \in Nat : h[n + 1] = F[h[n]]
    <2> DEFINE S == Nat
               a == 1
    <2>1. a \in S /\ F \in [S -> S]
      BY <1>1
    <2> HIDE DEF F, S, a, power
    <2>2. \E h \in [Nat -> S] : h[0] = a /\ \A n \in Nat : h[n + 1] = F[h[n]]
      BY <2>1, Iterates
    <2> QED
      BY <2>2 DEF S, a
  <1>3. \A n \in Nat : h[n + 1] = (h[n] * base) % Prime
    BY <1>2
  <1>4. h = [e \in Nat |-> IF e = 0 THEN 1 ELSE (h[e - 1] * base) % Prime]
    <2>1. ASSUME NEW e \in Nat, e # 0 PROVE h[e] = (h[e - 1] * base) % Prime
      <3>1. e - 1 \in Nat /\ (e - 1) + 1 = e
        BY <2>1
      <3> QED
        BY <1>3, <3>1
    <2> QED
      BY <1>2, <2>1
  <1>5. power = [e \in Nat |-> IF e = 0 THEN 1 ELSE (power[e - 1] * base) % Prime]
    <2> HIDE DEF F
    <2> QED
      BY <1>4
  <1>6. \A e : Power(base, e) = power[e]
    BY DEF Power
  <1> HIDE DEF power, F
  <1>7. power[0] = 1
    BY <1>5
  <1>8. ASSUME NEW e \in Nat PROVE power[e + 1] = (power[e] * base) % Prime
    <2>1. e + 1 \in Nat /\ e + 1 # 0 /\ (e + 1) - 1 = e
      OBVIOUS
    <2> QED
      BY <1>5, <2>1
  <1>9. \A e \in Nat : power[e] \in Nat
    <2> DEFINE T == {e \in Nat : power[e] \in Nat}
    <2>1. 0 \in T
      BY <1>7
    <2>2. ASSUME NEW e \in T PROVE e + 1 \in T
      BY <1>8, DHAssumption
    <2>3. T \subseteq Nat
      OBVIOUS
    <2>4. T = Nat
      <3> HIDE DEF T
      <3> QED
        BY <2>1, <2>2, <2>3, NatSet
    <2> QED
      BY <2>4
  <1> QED
    BY <1>6, <1>7, <1>8, <1>9

(* A power is a number below Prime: reducing it changes nothing.           *)
LEMMA PowerReduced ==
    ASSUME NEW b \in Nat, NEW e \in Nat
    PROVE  Power(b, e) \in Nat /\ Power(b, e) % Prime = Power(b, e)
  <1>1. Power(b, e) \in Nat
    BY PowerSteps
  <1>2. CASE e = 0
    <2>1. 1 % Prime = 1
      BY DHAssumption
    <2> QED
      BY <1>1, <1>2, <2>1, PowerSteps
  <1>3. CASE e # 0
    <2>1. e - 1 \in Nat /\ (e - 1) + 1 = e
      BY <1>3
    <2>2. /\ Power(b, e - 1) \in Nat
          /\ Power(b, (e - 1) + 1) = (Power(b, e - 1) * b) % Prime
      BY <2>1, PowerSteps
    <2>3. Power(b, e - 1) * b \in Nat
      BY <2>2
    <2>4. ((Power(b, e - 1) * b) % Prime) % Prime = (Power(b, e - 1) * b) % Prime
      BY <2>3, ReducedFactor, DHAssumption
    <2> QED
      BY <1>1, <2>1, <2>2, <2>4
  <1> QED
    BY <1>2, <1>3

(* The laws of exponents.                                                  *)
LEMMA PowerAdds ==
    ASSUME NEW b \in Nat, NEW e \in Nat
    PROVE  \A k \in Nat : Power(b, e + k) = (Power(b, e) * Power(b, k)) % Prime
  <1> DEFINE T == {k \in Nat : Power(b, e + k) = (Power(b, e) * Power(b, k)) % Prime}
  <1>1. 0 \in T
    <2>1. e + 0 = e /\ Power(b, 0) = 1 /\ Power(b, e) \in Nat
      BY PowerSteps
    <2>2. Power(b, e) * 1 = Power(b, e)
      BY <2>1
    <2> QED
      BY <2>1, <2>2, PowerReduced
  <1>2. ASSUME NEW k \in T PROVE k + 1 \in T
    <2>1. k \in Nat /\ k + 1 \in Nat /\ e + k \in Nat /\ e + (k + 1) = (e + k) + 1
      OBVIOUS
    <2> DEFINE p == Power(b, e)
               q == Power(b, k)
    <2>7. p \in Nat /\ q \in Nat
      BY <2>1, PowerSteps
    <2>3. Power(b, e + k) = (p * q) % Prime
      OBVIOUS
    <2>4. /\ Power(b, (e + k) + 1) = (Power(b, e + k) * b) % Prime
          /\ Power(b, k + 1) = (q * b) % Prime
      BY <2>1, PowerSteps
    <2> HIDE DEF p, q
    <2>2. p \in Nat /\ q \in Nat /\ p * q \in Nat /\ q * b \in Nat /\ (p * q) * b = p * (q * b)
      BY <2>7
    <2>5. /\ (((p * q) % Prime) * b) % Prime = ((p * q) * b) % Prime
          /\ (p * ((q * b) % Prime)) % Prime = (p * (q * b)) % Prime
      BY <2>2, ReducedFactor, DHAssumption
    <2>6. Power(b, e + (k + 1)) = (p * Power(b, k + 1)) % Prime
      BY <2>1, <2>2, <2>3, <2>4, <2>5
    <2> QED
      BY <2>1, <2>6 DEF p
  <1>3. T = Nat
    <2> T \subseteq Nat
      OBVIOUS
    <2> HIDE DEF T
    <2> QED
      BY <1>1, <1>2, NatSet
  <1> QED
    BY <1>3

(* The exponents of a power of a power are multiplied.                     *)
LEMMA PowerOfPower ==
    ASSUME NEW b \in Nat, NEW e \in Nat
    PROVE  \A k \in Nat : Power(Power(b, e), k) = Power(b, e * k)
  <1> DEFINE T == {k \in Nat : Power(Power(b, e), k) = Power(b, e * k)}
  <1>0. Power(b, e) \in Nat
    BY PowerSteps
  <1>1. 0 \in T
    <2>1. e * 0 = 0
      OBVIOUS
    <2> QED
      BY <1>0, <2>1, PowerSteps
  <1>2. ASSUME NEW k \in T PROVE k + 1 \in T
    <2>1. k \in Nat /\ k + 1 \in Nat /\ e * k \in Nat /\ e * (k + 1) = e * k + e
      OBVIOUS
    <2>2. Power(Power(b, e), k + 1) = (Power(Power(b, e), k) * Power(b, e)) % Prime
      BY <1>0, <2>1, PowerSteps
    <2>3. Power(b, e * k + e) = (Power(b, e * k) * Power(b, e)) % Prime
      BY <2>1, PowerAdds
    <2> QED
      BY <2>1, <2>2, <2>3
  <1>3. T = Nat
    <2> T \subseteq Nat
      OBVIOUS
    <2> HIDE DEF T
    <2> QED
      BY <1>1, <1>2, NatSet
  <1> QED
    BY <1>3

(* The two ends raise to their private keys in either order.               *)
LEMMA PowersCommute ==
    ASSUME NEW b \in Nat, NEW x \in Nat, NEW y \in Nat
    PROVE  Power(Power(b, x), y) = Power(Power(b, y), x)
  <1>1. x * y = y * x
    OBVIOUS
  <1> QED
    BY <1>1, PowerOfPower

(* The base may be reduced first, as ModExp does.                          *)
LEMMA PowerOfReduced ==
    ASSUME NEW b \in Nat
    PROVE  \A e \in Nat : Power(b % Prime, e) = Power(b, e)
  <1> DEFINE T == {e \in Nat : Power(b % Prime, e) = Power(b, e)}
  <1>0. b % Prime \in Nat
    BY DHAssumption
  <1>1. 0 \in T
    BY <1>0, PowerSteps
  <1>2. ASSUME NEW e \in T PROVE e + 1 \in T
    <2> DEFINE p == Power(b, e)
    <2>1. e \in Nat /\ e + 1 \in Nat /\ p \in Nat
      BY PowerSteps
    <2>3. /\ Power(b, e + 1) = (p * b) % Prime
          /\ Power(b % Prime, e + 1) = (p * (b % Prime)) % Prime
      BY <1>0, <2>1, PowerSteps
    <2> HIDE DEF p
    <2>2. (p * (b % Prime)) % Prime = (p * b) % Prime
      BY <2>1, ModPrime
    <2> QED
      BY <2>1, <2>2, <2>3
  <1>3. T = Nat
    <2> T \subseteq Nat
      OBVIOUS
    <2> HIDE DEF T
    <2> QED
      BY <1>1, <1>2, NatSet
  <1> QED
    BY <1>3

(* One turn of the loop keeps what remains to be computed.                 *)
LEMMA TurnKeeps ==
    ASSUME NEW b \in Nat, NEW e \in Nat, NEW r \in Nat, e # 0
    PROVE  LET s == Turn([base |-> b, exponent |-> e, result |-> r], Prime)
           IN  /\ s.base \in Nat /\ s.exponent \in Nat /\ s.exponent < e
               /\ s.result \in Nat /\ (r < Prime => s.result < Prime)
               /\ (s.result * Power(s.base, s.exponent)) % Prime = (r * Power(b, e)) % Prime
  <1> DEFINE d == (b * b) % Prime
             h == e \div 2
             u == IF e % 2 = 1 THEN (r * b) % Prime ELSE r
             p == Power(b, 2 * h)
  <1>1. h \in Nat /\ h < e /\ (e = 2 * h \/ e = 2 * h + 1) /\ (e % 2 = 1 <=> e = 2 * h + 1)
    OBVIOUS
  <1>2. d \in Nat /\ u \in Nat /\ (r < Prime => u < Prime)
    BY DHAssumption
  <1>3. Power(b, 2) = d
    <2>1. 1 = 0 + 1 /\ 2 = 1 + 1 /\ 1 * b = b /\ b % Prime \in Nat
      BY DHAssumption
    <2>2. Power(b, 0) = 1 /\ Power(b, 0 + 1) = (Power(b, 0) * b) % Prime
      BY PowerSteps
    <2>3. Power(b, 1) = b % Prime
      BY <2>1, <2>2
    <2>4. Power(b, 1 + 1) = (Power(b, 1) * b) % Prime
      BY PowerSteps
    <2>6. ((b % Prime) * b) % Prime = d
      BY ModPrime
    <2> QED
      BY <2>1, <2>3, <2>4, <2>6
  <1>4. Power(d, h) = p /\ p \in Nat
    <2>1. 2 \in Nat /\ 2 * h \in Nat
      BY <1>1
    <2> HIDE DEF h, d
    <2>2. \A k \in Nat : Power(Power(b, 2), k) = Power(b, 2 * k)
      BY PowerOfPower
    <2> QED
      BY <1>1, <1>3, <2>1, <2>2, PowerSteps
  <1>5. (u * p) % Prime = (r * Power(b, e)) % Prime
    <2>1. CASE e = 2 * h
      BY <1>1, <2>1
    <2>2. CASE e = 2 * h + 1
      <3>1. u = (r * b) % Prime
        BY <1>1, <2>2
      <3>2. Power(b, e) = (p * b) % Prime
        <4>1. 2 * h \in Nat
          BY <1>1
        <4> HIDE DEF h
        <4> QED
          BY <2>2, <4>1, PowerSteps
      <3> HIDE DEF u, p, h
      <3>3. r * b \in Nat /\ p * b \in Nat /\ (r * b) * p = r * (p * b)
        BY <1>4
      <3>4. (((r * b) % Prime) * p) % Prime = ((r * b) * p) % Prime
        BY <1>4, <3>3, ReducedFactor, DHAssumption
      <3>5. (r * ((p * b) % Prime)) % Prime = (r * (p * b)) % Prime
        <4>1. p * b \in Nat
          BY <3>3
        <4> DEFINE v == p * b
        <4>2. v \in Nat
          BY <4>1
        <4> HIDE DEF v
        <4>3. (r * (v % Prime)) % Prime = (r * v) % Prime
          BY <4>2, ModPrime
        <4> QED
          BY <4>3 DEF v
      <3> QED
        BY <3>1, <3>2, <3>3, <3>4, <3>5
    <2> QED
      BY <1>1, <2>1, <2>2
  <1>6. Turn([base |-> b, exponent |-> e, result |-> r], Prime)
            = [base |-> d, exponent |-> h, result |-> u]
    BY DEF Turn
  <1> HIDE DEF d, h, u, p
  <1> QED
    BY <1>1, <1>2, <1>4, <1>5, <1>6

(* The code's loop computes the power, for every base and exponent         *)
(* (DHKeyExchange.cc:122-151).                                             *)
THEOREM ModExpIsPower ==
    ASSUME NEW base \in Nat, NEW exponent \in Nat
    PROVE  ModExp(base, exponent, Prime) = Power(base, exponent)
  <1> DEFINE S == [base : Nat, exponent : Nat, result : Nat]
             F == [v \in S |-> IF v.exponent = 0 THEN v ELSE Turn(v, Prime)]
             a == [base |-> base % Prime, exponent |-> exponent, result |-> 1]
             loop[i \in Nat] ==
                 IF i = 0
                 THEN [base |-> base % Prime, exponent |-> exponent, result |-> 1]
                 ELSE IF loop[i - 1].exponent = 0 THEN loop[i - 1]
                 ELSE Turn(loop[i - 1], Prime)
             Kept(v, i) ==
                 /\ v \in S
                 /\ v.result < Prime
                 /\ (v.result * Power(v.base, v.exponent)) % Prime = Power(base, exponent)
                 /\ v.exponent = 0 \/ v.exponent + i <= exponent
  <1>1. ASSUME NEW v \in S, v.exponent # 0
        PROVE  /\ Turn(v, Prime) \in S /\ Turn(v, Prime).exponent < v.exponent
               /\ v.result < Prime => Turn(v, Prime).result < Prime
               /\ LET w == Turn(v, Prime)
                  IN  (w.result * Power(w.base, w.exponent)) % Prime
                          = (v.result * Power(v.base, v.exponent)) % Prime
    <2>1. PICK b \in Nat, e \in Nat, r \in Nat : v = [base |-> b, exponent |-> e, result |-> r]
      BY <1>1
    <2>2. e # 0
      BY <1>1, <2>1
    <2> DEFINE w == Turn(v, Prime)
    <2>3. w = [base |-> w.base, exponent |-> w.exponent, result |-> w.result]
      BY DEF Turn
    <2>4. /\ w.base \in Nat /\ w.exponent \in Nat /\ w.exponent < e
          /\ w.result \in Nat /\ (r < Prime => w.result < Prime)
          /\ (w.result * Power(w.base, w.exponent)) % Prime = (r * Power(b, e)) % Prime
      BY <2>1, <2>2, TurnKeeps
    <2> HIDE DEF w
    <2>5. w \in S
      BY <2>3, <2>4
    <2> QED
      BY <2>1, <2>4, <2>5 DEF w
  <1>2. a \in S /\ F \in [S -> S]
    <2>1. base % Prime \in Nat
      BY DHAssumption
    <2>2. a \in S
      BY <2>1
    <2>3. \A v \in S : v.exponent # 0 => Turn(v, Prime) \in S
      BY <1>1
    <2> HIDE DEF S
    <2> QED
      BY <2>2, <2>3
  <1>3. PICK h \in [Nat -> S] : h[0] = a /\ \A n \in Nat : h[n + 1] = F[h[n]]
    <2> HIDE DEF F, S, a, loop
    <2> QED
      BY <1>2, Iterates
  <1>4. \A n \in Nat : h[n + 1] = IF h[n].exponent = 0 THEN h[n] ELSE Turn(h[n], Prime)
    <2> HIDE DEF S
    <2> QED
      BY <1>3
  <1>5. h = [i \in Nat |-> IF i = 0 THEN a
                           ELSE IF h[i - 1].exponent = 0 THEN h[i - 1]
                           ELSE Turn(h[i - 1], Prime)]
    <2> HIDE DEF S, F, a
    <2>1. ASSUME NEW e \in Nat, e # 0
          PROVE  h[e] = IF h[e - 1].exponent = 0 THEN h[e - 1] ELSE Turn(h[e - 1], Prime)
      <3>1. e - 1 \in Nat /\ (e - 1) + 1 = e
        BY <2>1
      <3> QED
        BY <1>4, <3>1
    <2> QED
      BY <1>3, <2>1
  <1>6. loop = [i \in Nat |-> IF i = 0 THEN a
                              ELSE IF loop[i - 1].exponent = 0 THEN loop[i - 1]
                              ELSE Turn(loop[i - 1], Prime)]
    <2> HIDE DEF S, F
    <2> QED
      BY <1>5
  <1>7. ModExp(base, exponent, Prime) = loop[exponent].result
    BY DEF ModExp
  <1> HIDE DEF loop, F
  <1>8. loop[0] = a
    BY <1>6
  <1>9. ASSUME NEW n \in Nat
        PROVE  loop[n + 1] = IF loop[n].exponent = 0 THEN loop[n] ELSE Turn(loop[n], Prime)
    <2>1. n + 1 \in Nat /\ n + 1 # 0 /\ (n + 1) - 1 = n
      OBVIOUS
    <2> HIDE DEF S, a
    <2> QED
      BY <1>6, <2>1
  <1>10. \A i \in Nat : Kept(loop[i], i)
    <2> DEFINE T == {i \in Nat : Kept(loop[i], i)}
    <2>1. 0 \in T
      <3>1. /\ a \in S /\ a.result = 1 /\ a.base = base % Prime /\ a.exponent = exponent
            /\ 1 < Prime /\ exponent + 0 <= exponent
        BY <1>2, DHAssumption
      <3>2. Power(base % Prime, exponent) = Power(base, exponent)
        BY PowerOfReduced
      <3>3. (1 * Power(base, exponent)) % Prime = Power(base, exponent)
        <4>1. 1 * Power(base, exponent) = Power(base, exponent)
          BY PowerSteps
        <4> QED
          BY <4>1, PowerReduced
      <3> HIDE DEF S, a
      <3> QED
        BY <1>8, <3>1, <3>2, <3>3
    <2>2. ASSUME NEW i \in T PROVE i + 1 \in T
      <3>1. i \in Nat /\ i + 1 \in Nat /\ Kept(loop[i], i)
        <4> HIDE DEF S, Kept, a
        <4> QED
          OBVIOUS
      <3> DEFINE v == loop[i]
      <3>2. CASE v.exponent = 0
        <4>1. loop[i + 1] = v
          BY <1>9, <3>1, <3>2
        <4> HIDE DEF S, v
        <4> QED
          BY <3>1, <3>2, <4>1 DEF v
      <3>3. CASE v.exponent # 0
        <4>1. loop[i + 1] = Turn(v, Prime)
          BY <1>9, <3>1, <3>3
        <4> DEFINE w == Turn(v, Prime)
        <4>2. v \in S /\ v.result < Prime /\ v.exponent + i <= exponent
          BY <3>1, <3>3
        <4>3. /\ w \in S /\ w.exponent < v.exponent /\ w.result < Prime
              /\ (w.result * Power(w.base, w.exponent)) % Prime
                     = (v.result * Power(v.base, v.exponent)) % Prime
          <5> HIDE DEF S, v
          <5> QED
            BY <1>1, <3>3, <4>2
        <4>4. w.exponent \in Nat /\ v.exponent \in Nat
          BY <4>2, <4>3
        <4>5. (v.result * Power(v.base, v.exponent)) % Prime = Power(base, exponent)
          BY <3>1
        <4> HIDE DEF S, v, w
        <4>6. w.exponent + (i + 1) <= exponent
          BY <3>1, <4>2, <4>3, <4>4
        <4>7. loop[i + 1] = w
          BY <4>1 DEF w
        <4>8. Kept(loop[i + 1], i + 1)
          BY <4>3, <4>5, <4>6, <4>7
        <4> QED
          BY <3>1, <4>8
      <3> QED
        BY <3>2, <3>3
    <2>3. T = Nat
      <3> T \subseteq Nat
        OBVIOUS
      <3> HIDE DEF T
      <3> QED
        BY <2>1, <2>2, NatSet
    <2> QED
      BY <2>3
  <1> DEFINE v == loop[exponent]
  <1>11. /\ v.base \in Nat /\ v.exponent \in Nat /\ v.result \in Nat /\ v.result < Prime
         /\ (v.result * Power(v.base, v.exponent)) % Prime = Power(base, exponent)
         /\ v.exponent = 0
    <2> HIDE DEF v, a, Kept
    <2>1. Kept(v, exponent)
      BY <1>10 DEF v
    <2> HIDE DEF S
    <2>2. /\ v \in S /\ v.result < Prime
          /\ (v.result * Power(v.base, v.exponent)) % Prime = Power(base, exponent)
      BY <2>1, Zenon DEF Kept
    <2>3. v.exponent = 0 \/ v.exponent + exponent <= exponent
      BY <2>1, Zenon DEF Kept
    <2>4. v.base \in Nat /\ v.exponent \in Nat /\ v.result \in Nat
      BY <2>2, Zenon DEF S
    <2>5. v.exponent = 0
      BY ONLY <2>3, <2>4, exponent \in Nat
    <2> QED
      BY <2>2, <2>4, <2>5
  <1> HIDE DEF v, Kept
  <1>12. (v.result * Power(v.base, v.exponent)) % Prime = v.result
    <2>1. Power(v.base, 0) = 1
      BY <1>11, PowerSteps
    <2> DEFINE r == v.result
    <2>3. r \in Nat /\ r < Prime
      BY <1>11
    <2> HIDE DEF r
    <2>4. r * 1 = r /\ r % Prime = r
      BY <2>3, DHAssumption
    <2>2. v.result * 1 = v.result /\ v.result % Prime = v.result
      BY <2>4 DEF r
    <2> QED
      BY <1>11, <2>1, <2>2
  <1> QED
    BY <1>7, <1>11, <1>12 DEF v

(* The bytes of a key are those of one key only.                           *)
LEMMA KeyOfBytes ==
    ASSUME NEW k \in Nat
    PROVE  KeyOf(KeyBytes(k)) = k /\ Len(KeyBytes(k)) = KeySize
  BY DEF KeyOf, KeyBytes, KeySize, Num, Half

-----------------------------------------------------------------------------
(* A sequence of up to three elements is the tuple of them.                *)
LEMMA Short ==
    ASSUME NEW S, NEW t \in Seq(S)
    PROVE  /\ Len(t) = 0 => t = <<>>
           /\ Len(t) = 1 => t = <<t[1]>>
           /\ Len(t) = 2 => t = <<t[1], t[2]>>
           /\ Len(t) = 3 => t = <<t[1], t[2], t[3]>>
  <1>1. Len(t) = 0 => t = <<>>
    OBVIOUS
  <1>2. ASSUME Len(t) = 1 PROVE t = <<t[1]>>
    <2>1. t[1] \in S
      BY <1>2, ElementOfSeq
    <2>2. <<t[1]>> \in Seq(S) /\ Len(<<t[1]>>) = 1
      BY <2>1
    <2> QED
      BY <1>2, <2>2, SeqEqual
  <1>3. ASSUME Len(t) = 2 PROVE t = <<t[1], t[2]>>
    <2>1. t[1] \in S /\ t[2] \in S
      BY <1>3, ElementOfSeq
    <2> DEFINE u == <<t[1], t[2]>>
    <2>2. u \in Seq(S) /\ Len(u) = 2 /\ u[1] = t[1] /\ u[2] = t[2]
      BY <2>1
    <2> HIDE DEF u
    <2>3. \A i \in 1 .. 2 : t[i] = u[i]
      BY <2>2
    <2>4. t = u
      BY <1>3, <2>2, <2>3, SeqEqual
    <2> QED
      BY <2>4 DEF u
  <1>4. ASSUME Len(t) = 3 PROVE t = <<t[1], t[2], t[3]>>
    <2>5. \A n \in 1 .. Len(t) : t[n] \in S
      BY ElementOfSeq
    <2>1. t[1] \in S /\ t[2] \in S /\ t[3] \in S
      BY <1>4, <2>5
    <2> DEFINE u == <<t[1], t[2], t[3]>>
    <2>2. u \in Seq(S) /\ Len(u) = 3 /\ u[1] = t[1] /\ u[2] = t[2] /\ u[3] = t[3]
      BY <2>1
    <2> HIDE DEF u
    <2>3. \A i \in 1 .. 3 : t[i] = u[i]
      BY <2>2
    <2>4. t = u
      BY <1>4, <2>2, <2>3, SeqEqual
    <2> QED
      BY <2>4 DEF u
  <1> QED
    BY <1>1, <1>2, <1>3, <1>4

(* What a part of a sequence has.                                          *)
LEMMA Part ==
    ASSUME NEW S, NEW s \in Seq(S), NEW m \in Nat, NEW n \in Nat, 1 <= m, n <= Len(s)
    PROVE  /\ SubSeq(s, m, n) \in Seq(S)
           /\ Len(SubSeq(s, m, n)) = IF m <= n THEN n - m + 1 ELSE 0
           /\ \A i \in 1 .. n - m + 1 : SubSeq(s, m, n)[i] = s[m + i - 1]
  <1>1. \A i \in m .. n : s[i] \in S
    BY ElementOfSeq
  <1>2. m \in Int /\ n \in Int
    OBVIOUS
  <1> QED
    BY <1>1, <1>2, SubSeqProperties

(* The pieces of tuples of one and two elements.                           *)
LEMMA Two ==
    ASSUME NEW a, NEW b
    PROVE  /\ Len(<<a, b>>) = 2 /\ Len(<<a>>) = 1
           /\ SubSeq(<<a, b>>, 1, 1) = <<a>>
           /\ SubSeq(<<a, b>>, 1, 2) = <<a, b>>
           /\ SubSeq(<<a, b>>, 2, 2) = <<b>>
           /\ SubSeq(<<a, b>>, 3, 2) = <<>>
           /\ SubSeq(<<a>>, 1, 1) = <<a>>
           /\ SubSeq(<<a>>, 2, 1) = <<>>
           /\ Head(<<a, b>>) = a /\ Tail(<<a, b>>) = <<b>>
           /\ Head(<<a>>) = a /\ Tail(<<a>>) = <<>>
  <1> DEFINE S == {a, b}
             m == <<a, b>>
             n == <<a>>
  <1>1. /\ m \in Seq(S) /\ Len(m) = 2 /\ m[1] = a /\ m[2] = b
        /\ n \in Seq(S) /\ Len(n) = 1 /\ n[1] = a
    OBVIOUS
  <1>2. Head(m) = a /\ Head(n) = a
    OBVIOUS
  <1>9. m = <<a, b>> /\ n = <<a>> /\ m # <<>> /\ n # <<>>
    OBVIOUS
  <1> HIDE DEF S, m, n
  <1>3. SubSeq(m, 1, 1) = <<a>> /\ SubSeq(m, 2, 2) = <<b>> /\ SubSeq(n, 1, 1) = <<a>>
    <2>1. /\ SubSeq(m, 1, 1) \in Seq(S) /\ Len(SubSeq(m, 1, 1)) = 1 /\ SubSeq(m, 1, 1)[1] = a
      BY <1>1, Part
    <2>2. /\ SubSeq(m, 2, 2) \in Seq(S) /\ Len(SubSeq(m, 2, 2)) = 1 /\ SubSeq(m, 2, 2)[1] = b
      BY <1>1, Part
    <2>3. /\ SubSeq(n, 1, 1) \in Seq(S) /\ Len(SubSeq(n, 1, 1)) = 1 /\ SubSeq(n, 1, 1)[1] = a
      BY <1>1, Part
    <2> QED
      BY <2>1, <2>2, <2>3, Short
  <1>4. SubSeq(m, 1, 2) = m
    BY <1>1, SubSeqFull
  <1>5. SubSeq(m, 3, 2) = <<>> /\ SubSeq(n, 2, 1) = <<>>
    BY SubSeqEmpty
  <1>6. Tail(m) = <<b>> /\ Tail(n) = <<>>
    <2>1. m # <<>> /\ n # <<>>
      BY <1>9
    <2>2. Tail(m) = SubSeq(m, 2, Len(m)) /\ Tail(n) = SubSeq(n, 2, Len(n))
      BY <1>1, <2>1, TailIsSubSeq
    <2> QED
      BY <1>1, <1>3, <1>5, <2>2
  <1> QED
    BY <1>1, <1>2, <1>3, <1>4, <1>5, <1>6, <1>9

(* The pieces of a tuple of three elements.                                *)
LEMMA Three ==
    ASSUME NEW a, NEW b, NEW c
    PROVE  /\ Len(<<a, b, c>>) = 3
           /\ SubSeq(<<a, b, c>>, 1, 1) = <<a>>
           /\ SubSeq(<<a, b, c>>, 1, 2) = <<a, b>>
           /\ SubSeq(<<a, b, c>>, 1, 3) = <<a, b, c>>
           /\ SubSeq(<<a, b, c>>, 4, 3) = <<>>
           /\ Head(<<a, b, c>>) = a /\ Tail(<<a, b, c>>) = <<b, c>>
  <1> DEFINE S == {a, b, c}
             m == <<a, b, c>>
  <1>1. m \in Seq(S) /\ Len(m) = 3 /\ m[1] = a /\ m[2] = b /\ m[3] = c
    OBVIOUS
  <1>2. Head(m) = a
    OBVIOUS
  <1>9. m = <<a, b, c>> /\ m # <<>>
    OBVIOUS
  <1> HIDE DEF S, m
  <1>3. SubSeq(m, 1, 1) = <<a>> /\ SubSeq(m, 1, 2) = <<a, b>> /\ SubSeq(m, 2, 3) = <<b, c>>
    <2>1. SubSeq(m, 1, 1) \in Seq(S) /\ Len(SubSeq(m, 1, 1)) = 1 /\ SubSeq(m, 1, 1)[1] = a
      BY <1>1, Part
    <2>2. /\ SubSeq(m, 1, 2) \in Seq(S) /\ Len(SubSeq(m, 1, 2)) = 2
          /\ SubSeq(m, 1, 2)[1] = a /\ SubSeq(m, 1, 2)[2] = b
      BY <1>1, Part
    <2>3. /\ SubSeq(m, 2, 3) \in Seq(S) /\ Len(SubSeq(m, 2, 3)) = 2
          /\ SubSeq(m, 2, 3)[1] = b /\ SubSeq(m, 2, 3)[2] = c
      <3> DEFINE i == 2
                 j == 3
      <3>1. i \in Nat /\ j \in Nat /\ 1 <= i /\ j <= Len(m) /\ j - i + 1 = 2 /\ i <= j
        BY <1>1
      <3> HIDE DEF i, j
      <3>3. /\ SubSeq(m, i, j) \in Seq(S)
            /\ Len(SubSeq(m, i, j)) = IF i <= j THEN j - i + 1 ELSE 0
            /\ \A k \in 1 .. j - i + 1 : SubSeq(m, i, j)[k] = m[i + k - 1]
        BY <1>1, <3>1, Part
      <3>4. /\ SubSeq(m, i, j) \in Seq(S) /\ Len(SubSeq(m, i, j)) = 2
            /\ SubSeq(m, i, j)[1] = m[i + 1 - 1] /\ SubSeq(m, i, j)[2] = m[i + 2 - 1]
        BY <3>1, <3>3
      <3>2. 2 + 1 - 1 = 2 /\ 2 + 2 - 1 = 3
        OBVIOUS
      <3> QED
        BY <1>1, <3>2, <3>4 DEF i, j
    <2> QED
      BY <2>1, <2>2, <2>3, Short
  <1>4. SubSeq(m, 1, 3) = m
    BY <1>1, SubSeqFull
  <1>5. SubSeq(m, 4, 3) = <<>>
    BY SubSeqEmpty
  <1>6. Tail(m) = <<b, c>>
    <2>1. m # <<>>
      BY <1>9
    <2>2. Tail(m) = SubSeq(m, 2, Len(m))
      BY <1>1, <2>1, TailIsSubSeq
    <2> QED
      BY <1>1, <1>3, <2>2
  <1> QED
    BY <1>1, <1>2, <1>3, <1>4, <1>5, <1>6, <1>9

(* Tuples put together.                                                    *)
LEMMA Joined ==
    ASSUME NEW a, NEW b, NEW c
    PROVE  /\ <<a>> \o <<b>> = <<a, b>>
           /\ <<a>> \o <<b, c>> = <<a, b, c>>
           /\ <<>> \o <<a, b>> = <<a, b>> /\ <<>> \o <<a, b, c>> = <<a, b, c>>
  <1> DEFINE S == {a, b, c}
  <1>1. <<a>> \o <<b>> = <<a, b>>
    <2> DEFINE u == <<a>>
               v == <<b>>
               w == u \o v
    <2>1. u \in Seq(S) /\ v \in Seq(S) /\ Len(u) = 1 /\ Len(v) = 1 /\ u[1] = a /\ v[1] = b
      OBVIOUS
    <2> HIDE DEF u, v, S
    <2>2. w \in Seq(S) /\ Len(w) = 2 /\ w[1] = a /\ w[2] = b
      BY <2>1, ConcatProperties
    <2> QED
      BY <2>2, Short DEF u, v
  <1>2. <<a>> \o <<b, c>> = <<a, b, c>>
    <2> DEFINE u == <<a>>
               v == <<b, c>>
               w == u \o v
    <2>1. /\ u \in Seq(S) /\ v \in Seq(S) /\ Len(u) = 1 /\ Len(v) = 2
          /\ u[1] = a /\ v[1] = b /\ v[2] = c
      OBVIOUS
    <2> HIDE DEF u, v, S
    <2>2. w \in Seq(S) /\ Len(w) = 3 /\ w[1] = a /\ w[2] = b /\ w[3] = c
      BY <2>1, ConcatProperties
    <2> QED
      BY <2>2, Short DEF u, v
  <1>3. <<>> \o <<a, b>> = <<a, b>> /\ <<>> \o <<a, b, c>> = <<a, b, c>>
    <2> DEFINE m == <<a, b>>
               n == <<a, b, c>>
    <2>1. m \in Seq(S) /\ n \in Seq(S)
      OBVIOUS
    <2> HIDE DEF m, n, S
    <2>2. <<>> \o m = m /\ <<>> \o n = n
      BY <2>1
    <2> QED
      BY <2>2 DEF m, n
  <1> QED
    BY <1>1, <1>2, <1>3

(* What goes over the connection, read back.                               *)
LEMMA ThreeCellsRead ==
    ASSUME NEW x, NEW y, NEW k \in 1 .. 3
    PROVE  LET m == Sized(<<x, y>>)
               read == ReadSized(SubSeq(m, 1, k))
           IN  /\ m = <<Num(2), x, y>> /\ Len(m) = 3
               /\ read.ok <=> k = 3
               /\ k = 3 => read.val = <<x, y>>
               /\ k = 3 => SubSeq(m, k + 1, Len(m)) = <<>>
  <1> DEFINE n == Num(2)
             m == <<n, x, y>>
  <1>1. Sized(<<x, y>>) = m
    <2>1. Len(<<x, y>>) = 2
      OBVIOUS
    <2>2. Sized(<<x, y>>) = <<n>> \o <<x, y>>
      BY <2>1 DEF Sized
    <2> HIDE DEF n
    <2> QED
      BY <2>2, Joined
  <1>2. /\ SubSeq(m, 1, 1) = <<n>> /\ SubSeq(m, 1, 2) = <<n, x>>
        /\ SubSeq(m, 1, 3) = m /\ SubSeq(m, 4, 3) = <<>> /\ Len(m) = 3
        /\ Head(m) = n /\ Tail(m) = <<x, y>>
    <2> HIDE DEF n
    <2> QED
      BY Three
  <1>3. ~ReadSized(<<n>>).ok
    <2>1. Head(<<Num(2)>>) = Num(2) /\ Tail(<<Num(2)>>) = <<>> /\ Len(<<>>) = 0
      BY Two
    <2> QED
      BY <2>1 DEF ReadSized, ReadNum, Num, Read, Junk
  <1>4. ~ReadSized(<<n, x>>).ok
    <2>1. Head(<<Num(2), x>>) = Num(2) /\ Tail(<<Num(2), x>>) = <<x>> /\ Len(<<x>>) = 1
      BY Two
    <2> QED
      BY <2>1 DEF ReadSized, ReadNum, Num, Read, Junk
  <1>5. ReadSized(m).ok /\ ReadSized(m).val = <<x, y>>
    <2>1. SubSeq(<<x, y>>, 1, 2) = <<x, y>> /\ Len(<<x, y>>) = 2 /\ m # <<>>
      BY Two
    <2>2. n[1] = "num" /\ n[2] = 2
      BY DEF Num
    <2> HIDE DEF m, n
    <2>3. ReadNum(m) = [val |-> 2, rest |-> <<x, y>>, ok |-> TRUE]
      BY <1>2, <2>1, <2>2 DEF ReadNum, Read
    <2> DEFINE r == <<x, y>>
    <2>4. ReadNum(m).ok /\ ReadNum(m).val = 2 /\ ReadNum(m).rest = r
      BY <2>3
    <2>5. SubSeq(r, 1, 2) = r /\ Len(r) = 2 /\ 2 <= 2
      BY <2>1
    <2> HIDE DEF r
    <2>6. ReadSized(m) = Read(SubSeq(r, 1, 2), SubSeq(r, 3, 2))
      BY <2>4, <2>5 DEF ReadSized
    <2> QED
      BY <2>5, <2>6 DEF Read, r
  <1>6. m = <<Num(2), x, y>>
    OBVIOUS
  <1> HIDE DEF m, n
  <1>7. k = 1 \/ k = 2 \/ k = 3
    OBVIOUS
  <1>8. ReadSized(SubSeq(m, 1, k)).ok <=> k = 3
    BY <1>2, <1>3, <1>4, <1>5, <1>7
  <1>9. k = 3 => /\ ReadSized(SubSeq(m, 1, k)).val = <<x, y>>
                 /\ SubSeq(m, k + 1, Len(m)) = <<>>
    <2>1. k = 3 => k + 1 = 4
      OBVIOUS
    <2> QED
      BY <1>2, <1>5, <2>1
  <1> QED
    BY <1>1, <1>2, <1>6, <1>8, <1>9

(* A sized cell that is cut does not parse; whole, it gives the cell.      *)
LEMMA TwoCellsRead ==
    ASSUME NEW cell, NEW k \in 1 .. 2
    PROVE  LET m == Sized(<<cell>>)
               read == ReadSized(SubSeq(m, 1, k))
           IN  /\ m = <<Num(1), cell>> /\ Len(m) = 2
               /\ read.ok <=> k = 2
               /\ k = 2 => read.val = <<cell>>
               /\ k = 2 => SubSeq(m, k + 1, Len(m)) = <<>>
  <1> DEFINE m == <<Num(1), cell>>
  <1>1. Sized(<<cell>>) = m
    <2>1. Len(<<cell>>) = 1
      OBVIOUS
    <2> QED
      BY <2>1, Joined DEF Sized
  <1>2. /\ SubSeq(m, 1, 1) = <<Num(1)>> /\ SubSeq(m, 1, 2) = m /\ SubSeq(m, 3, 2) = <<>>
        /\ Head(m) = Num(1) /\ Tail(m) = <<cell>> /\ Len(m) = 2
    BY Two
  <1>3. ~ReadSized(<<Num(1)>>).ok
    <2>1. Head(<<Num(1)>>) = Num(1) /\ Tail(<<Num(1)>>) = <<>> /\ Len(<<>>) = 0
      BY Two
    <2> QED
      BY <2>1 DEF ReadSized, ReadNum, Num, Read, Junk
  <1>4. ReadSized(m).ok /\ ReadSized(m).val = <<cell>>
    <2>1. SubSeq(<<cell>>, 1, 1) = <<cell>> /\ Len(<<cell>>) = 1 /\ m # <<>>
      BY Two
    <2>2. Num(1)[1] = "num" /\ Num(1)[2] = 1
      BY DEF Num
    <2> HIDE DEF m
    <2>3. ReadNum(m) = [val |-> 1, rest |-> <<cell>>, ok |-> TRUE]
      BY <1>2, <2>1, <2>2 DEF ReadNum, Read
    <2> DEFINE r == <<cell>>
    <2>4. ReadNum(m).ok /\ ReadNum(m).val = 1 /\ ReadNum(m).rest = r
      BY <2>3
    <2>5. SubSeq(r, 1, 1) = r /\ Len(r) = 1 /\ 1 <= 1
      BY <2>1
    <2> HIDE DEF r
    <2>6. ReadSized(m) = Read(SubSeq(r, 1, 1), SubSeq(r, 2, 1))
      BY <2>4, <2>5 DEF ReadSized
    <2> QED
      BY <2>5, <2>6 DEF Read, r
  <1>5. m = <<Num(1), cell>>
    OBVIOUS
  <1> HIDE DEF m
  <1>6. k = 1 \/ k = 2
    OBVIOUS
  <1>7. ReadSized(SubSeq(m, 1, k)).ok <=> k = 2
    BY <1>2, <1>3, <1>4, <1>6
  <1>8. k = 2 => /\ ReadSized(SubSeq(m, 1, k)).val = <<cell>>
                 /\ SubSeq(m, k + 1, Len(m)) = <<>>
    <2>1. k = 2 => k + 1 = 3
      OBVIOUS
    <2> QED
      BY <1>2, <1>4, <2>1
  <1> QED
    BY <1>1, <1>2, <1>5, <1>7, <1>8

(* So with the certificate the server sends: whole, it tells what it is.   *)
LEMMA CertificateRead ==
    ASSUME NEW k \in 1 .. Len(CertificateBytes)
    PROVE  LET read == ReadSized(SubSeq(CertificateBytes, 1, k))
           IN  /\ Len(CertificateBytes) = 3
               /\ read.ok <=> k = 3
               /\ k = 3 => read.val[1][2] = setup.certificate
               /\ k = 3 => SubSeq(CertificateBytes, k + 1, Len(CertificateBytes)) = <<>>
  <1> DEFINE x == <<"pem", setup.certificate>>
             y == <<"pem", "end">>
             m == Sized(<<x, y>>)
  <1>1. CertificateBytes = m
    BY DEF CertificateBytes
  <1>2. x[2] = setup.certificate
    OBVIOUS
  <1> HIDE DEF x, y
  <1>3. <<x, y>>[1] = x
    OBVIOUS
  <1>4. Len(m) = 3
    BY ThreeCellsRead
  <1>5. k \in 1 .. 3
    BY <1>1, <1>4
  <1>6. /\ ReadSized(SubSeq(m, 1, k)).ok <=> k = 3
        /\ k = 3 => /\ ReadSized(SubSeq(m, 1, k)).val = <<x, y>>
                    /\ SubSeq(m, k + 1, Len(m)) = <<>>
    BY <1>5, ThreeCellsRead
  <1> HIDE DEF m
  <1> QED
    BY <1>1, <1>2, <1>3, <1>4, <1>6

(* A public key is the generator raised to the private key.                *)
LEMMA PublicKeys ==
    ASSUME NEW x \in PrivateKeys
    PROVE  PublicKey(x) = Power(Generator, x) /\ PublicKey(x) \in Nat
  BY ModExpIsPower, PowerSteps, DHAssumption, HandshakeAssumption DEF PublicKey
-----------------------------------------------------------------------------
(* The inductive invariant.                                                *)

Shapes ==
    /\ phase \in Phases /\ setup \in Setups
    /\ DOMAIN client = Clients /\ DOMAIN left = Clients /\ DOMAIN accepted = Clients
    /\ DOMAIN up = Clients /\ DOMAIN down = Clients /\ DOMAIN private = Clients
    /\ DOMAIN key = Clients
    /\ \A c \in Clients : DOMAIN key[c] = {"client", "server"}

(* A message of two cells, of which the reader has the first ones.         *)
Halves(g, u, m) ==
    \/ g = <<>> /\ u = m
    \/ g = <<m[1]>> /\ u = <<m[2]>>
    \/ g = m /\ u = <<>>

SetupOK == phase > 2 => setup = Good
Open(c, at) == accepted[c] = "open" /\ server = at
Gathered(c) == IF accepted[c] = "open" THEN got ELSE <<>>

(* How the two ends see each other.                                        *)
EndOK(c) ==
    /\ client[c] \in Waiting \cup Ended \cup {"idle", "sendKey"}
    /\ client[c] = "idle" => left[c] = "none" /\ accepted[c] = "none" /\ up[c] = <<>>
    /\ client[c] \in Waiting \cup {"sendKey", "connected"} => left[c] = "open"
    /\ client[c] \in {"failed", "exited"} => left[c] \in {"fin", "reset"}
    /\ left[c] # "open" => down[c] = <<>>

(* What is on its way, and where the server is, at each place of connect().*)
AtCertificate(c) ==
    /\ phase > 2 /\ up[c] = <<>> /\ Gathered(c) = <<>>
    /\ \/ accepted[c] = "none" /\ down[c] = <<>>
       \/ Open(c, "challenge") /\ setup.certificate # "absent" /\ down[c] = CertificateBytes
       \/ accepted[c] = "closed" /\ setup.certificate = "absent" /\ down[c] = <<>>

AtSignature(c) ==
    /\ phase > 2 /\ setup.certificate = "good" /\ setup.ca = "good"
    /\ \/ Open(c, "challenge") /\ Halves(got, up[c], Sized(Challenge(c))) /\ down[c] = <<>>
       \/ /\ Open(c, "clientKey") /\ setup.signingKey # "absent"
          /\ got = <<>> /\ up[c] = <<>> /\ down[c] = Sized(Signature(Challenge(c)))
       \/ accepted[c] = "closed" /\ setup.signingKey = "absent" /\ down[c] = <<>>

AtSendKey(c) ==
    /\ SetupOK /\ up[c] = <<>> /\ Gathered(c) = <<>> /\ down[c] = <<>>
    /\ \/ phase = 2 /\ accepted[c] = "none"
       \/ Open(c, "clientKey")

Replied(c, x) ==
    /\ down[c] = KeyBytes(PublicKey(x))
    /\ key[c].server = EstablishedKey(x, PublicKey(private[c]))

AtServerKey(c) ==
    /\ SetupOK /\ private[c] \in PrivateKeys
    /\ \/ /\ phase = 2 /\ accepted[c] = "none"
          /\ up[c] = KeyBytes(PublicKey(private[c])) /\ down[c] = <<>>
       \/ /\ Open(c, "clientKey")
          /\ Halves(got, up[c], KeyBytes(PublicKey(private[c]))) /\ down[c] = <<>>
       \/ accepted[c] = "inserted" /\ \E x \in PrivateKeys : Replied(c, x)

Agreed(c, x) ==
    /\ key[c].client = EstablishedKey(private[c], PublicKey(x))
    /\ key[c].server = EstablishedKey(x, PublicKey(private[c]))

AtConnected(c) ==
    /\ SetupOK /\ private[c] \in PrivateKeys /\ accepted[c] = "inserted"
    /\ \E x \in PrivateKeys : Agreed(c, x)

Stages(c) ==
    /\ client[c] = "certificate" => AtCertificate(c)
    /\ client[c] = "signature" => AtSignature(c)
    /\ client[c] = "sendKey" => AtSendKey(c)
    /\ client[c] = "serverKey" => AtServerKey(c)
    /\ client[c] = "connected" => AtConnected(c)

Excused(c) ==
    /\ left[c] = "reset" => c \in cut \cup killed
    /\ client[c] \in {"failed", "exited"} =>
          \/ c \in cut \cup killed
          \/ phase > 2 /\ setup # Good
          \/ server = "exited"

Local(c) == EndOK(c) /\ Stages(c) /\ Excused(c)

(* The server serves one client, the one whose handshake is open.          *)
ServerOK ==
    /\ server \in {"accept", "challenge", "clientKey", "exited"}
    /\ \A c \in Clients : accepted[c] = "open" => c = serving /\ server # "accept"
    /\ server # "accept" => serving \in Clients /\ accepted[serving] = "open"
    /\ server = "challenge" => phase > 2
    /\ server = "exited" => phase > 4 /\ left[serving] = "reset"

Inductive == Shapes /\ ServerOK /\ \A c \in Clients : Local(c)

-----------------------------------------------------------------------------
(* Steps of others.                                                        *)
SameFor(x) ==
    /\ client'[x] = client[x] /\ left'[x] = left[x] /\ accepted'[x] = accepted[x]
    /\ up'[x] = up[x] /\ down'[x] = down[x] /\ private'[x] = private[x] /\ key'[x] = key[x]

(* A client of which a step changes nothing keeps its part of the          *)
(* invariant: the server's place and what it has collected matter to the   *)
(* client it serves only.                                                  *)
LEMMA OthersKeep ==
    ASSUME NEW x \in Clients, Local(x), UNCHANGED fixed, SameFor(x),
           cut \subseteq cut', killed \subseteq killed',
           server = "exited" => server' = "exited",
           accepted[x] = "open" => UNCHANGED <<server, got>>
    PROVE  Local(x)'
  <1>1. EndOK(x)'
    BY DEF Local, EndOK, SameFor, Waiting, Ended
  <1>2. Excused(x)'
    BY DEF Local, Excused, SameFor, fixed, Good
  <1>3. Gathered(x)' = Gathered(x) /\ \A at : Open(x, at) => Open(x, at)'
    BY DEF Gathered, Open, SameFor
  <1>4. ASSUME client'[x] = "certificate" PROVE AtCertificate(x)'
    <2>1. AtCertificate(x) /\ CertificateBytes' = CertificateBytes
      BY <1>4 DEF Local, Stages, SameFor, fixed, CertificateBytes
    <2> QED
      BY <1>3, <2>1 DEF AtCertificate, SameFor, fixed, Open
  <1>5. ASSUME client'[x] = "signature" PROVE AtSignature(x)'
    <2>1. AtSignature(x) /\ Signature(Challenge(x))' = Signature(Challenge(x))
      BY <1>5 DEF Local, Stages, SameFor, fixed, Signature
    <2> QED
      BY <1>3, <2>1 DEF AtSignature, SameFor, fixed, Open, Halves
  <1>6. ASSUME client'[x] = "sendKey" PROVE AtSendKey(x)'
    <2>1. AtSendKey(x) /\ SetupOK'
      BY <1>6 DEF Local, Stages, SameFor, fixed, SetupOK, AtSendKey, Good
    <2> QED
      BY <1>3, <2>1 DEF AtSendKey, SameFor, fixed, Open
  <1>7. ASSUME client'[x] = "serverKey" PROVE AtServerKey(x)'
    <2>1. AtServerKey(x) /\ SetupOK'
      BY <1>7 DEF Local, Stages, SameFor, fixed, SetupOK, AtServerKey, Good
    <2>2. \A y : Replied(x, y) => Replied(x, y)'
      BY DEF Replied, SameFor
    <2> QED
      BY <1>3, <2>1, <2>2 DEF AtServerKey, SameFor, fixed, Open, Halves
  <1>8. ASSUME client'[x] = "connected" PROVE AtConnected(x)'
    <2>1. AtConnected(x) /\ SetupOK'
      BY <1>8 DEF Local, Stages, SameFor, fixed, SetupOK, AtConnected, Good
    <2>2. \A y : Agreed(x, y) => Agreed(x, y)'
      BY DEF Agreed, SameFor
    <2> QED
      BY <2>1, <2>2 DEF AtConnected, SameFor
  <1>9. Stages(x)'
    BY <1>4, <1>5, <1>6, <1>7, <1>8 DEF Stages
  <1> QED
    BY <1>1, <1>2, <1>9 DEF Local

(* A recv() of k cells moves them from the stream to what has been         *)
(* collected.                                                              *)
LEMMA HalvesMove ==
    ASSUME NEW g, NEW u, NEW a, NEW b, Halves(g, u, <<a, b>>), NEW k \in 1 .. Len(u)
    PROVE  Halves(g \o SubSeq(u, 1, k), SubSeq(u, k + 1, Len(u)), <<a, b>>)
  <1> DEFINE m == <<a, b>>
  <1>1. m[1] = a /\ m[2] = b
    OBVIOUS
  <1>2. CASE g = <<>> /\ u = m
    <2>1. k = 1 \/ k = 2
      BY <1>2
    <2>2. CASE k = 1
      <3>1. SubSeq(u, 1, k) = <<a>> /\ SubSeq(u, k + 1, Len(u)) = <<b>>
        <4>1. Len(m) = 2 /\ SubSeq(m, 1, 1) = <<a>> /\ SubSeq(m, 2, 2) = <<b>>
          BY Two
        <4>2. k + 1 = 2
          BY <2>2
        <4> HIDE DEF m
        <4> QED
          BY <1>2, <2>2, <4>1, <4>2
      <3>2. <<>> \o <<a>> = <<a>>
        OBVIOUS
      <3> QED
        BY <1>1, <1>2, <3>1, <3>2 DEF Halves
    <2>3. CASE k = 2
      <3>1. SubSeq(u, 1, k) = m /\ SubSeq(u, k + 1, Len(u)) = <<>>
        <4>1. Len(m) = 2 /\ SubSeq(m, 1, 2) = m /\ SubSeq(m, 3, 2) = <<>>
          BY Two
        <4>2. k + 1 = 3
          BY <2>3
        <4> HIDE DEF m
        <4> QED
          BY <1>2, <2>3, <4>1, <4>2
      <3>2. <<>> \o m = m
        BY Joined
      <3> QED
        BY <1>2, <3>1, <3>2 DEF Halves
    <2> QED
      BY <2>1, <2>2, <2>3
  <1>3. CASE g = <<a>> /\ u = <<b>>
    <2>1. k = 1 /\ Len(u) = 1 /\ k + 1 = 2
      BY <1>3
    <2>2. SubSeq(<<b>>, 1, 1) = <<b>> /\ SubSeq(<<b>>, 2, 1) = <<>> /\ <<a>> \o <<b>> = m
      BY Two, Joined
    <2> QED
      BY <1>3, <2>1, <2>2 DEF Halves
  <1>4. CASE g = m /\ u = <<>>
    <2>1. Len(u) = 0
      BY <1>4
    <2> QED
      BY <2>1
  <1> QED
    BY <1>1, <1>2, <1>3, <1>4 DEF Halves

-----------------------------------------------------------------------------
(* The client.                                                             *)

(* A client's step leaves the server and the other clients as they are.    *)
Others(c) ==
    /\ \A x \in Clients \ {c} : SameFor(x)
    /\ cut \subseteq cut' /\ killed \subseteq killed'

(* What remains to be shown of a client's step: its own part.              *)
LEMMA ClientKeeps ==
    ASSUME Inductive, NEW c \in Clients, Shapes', Others(c),
           UNCHANGED fixed, UNCHANGED <<server, serving, got>>,
           accepted'[c] = accepted[c], left[c] = "reset" => left'[c] = "reset", Local(c)'
    PROVE  Inductive'
  <1>1. \A x \in Clients : x # c => Local(x)'
    BY OthersKeep DEF Others, Inductive
  <1>2. ServerOK'
    BY DEF ServerOK, Inductive, Others, SameFor, fixed
  <1> QED
    BY <1>1, <1>2 DEF Inductive

(* connect(): the socket is open, and nothing has been sent.               *)
LEMMA DialKeeps ==
    ASSUME Inductive, NEW c \in Clients, Dial(c)
    PROVE  Inductive'
  <1>1. Shapes' /\ Others(c)
    BY DEF Inductive, Shapes, Dial, Others, SameFor, fixed, serverVars
  <1>2. /\ UNCHANGED fixed /\ UNCHANGED <<server, serving, got, accepted, up, down, cut, killed>>
        /\ client'[c] = IF phase = 2 THEN "sendKey" ELSE "certificate"
        /\ left'[c] = "open"
    BY DEF Inductive, Shapes, Dial, serverVars, fixed
  <1>3. left[c] = "none" /\ accepted[c] = "none" /\ up[c] = <<>> /\ down[c] = <<>>
    BY DEF Inductive, Local, EndOK, Dial, Waiting, Ended
  <1>4. EndOK(c)' /\ Excused(c)'
    BY <1>2, <1>3 DEF EndOK, Excused, Waiting, Ended
  <1>5. Stages(c)'
    <2>1. phase \in 2 .. 6
      BY DEF Inductive, Shapes, Phases, Current
    <2> QED
      BY <1>2, <1>3, <2>1 DEF Stages, AtCertificate, AtSendKey, SetupOK, Gathered, fixed
  <1>6. Local(c)'
    BY <1>4, <1>5 DEF Local
  <1> QED
    BY <1>1, <1>2, <1>3, <1>6, ClientKeeps

(* A client that fails has a reason.                                       *)
LEMMA FailKeeps ==
    ASSUME Inductive, NEW c \in Clients, NEW how, NEW unread, Fail(c, how, unread),
           left[c] = "open", c \notin cut' => unread = <<>>,
           UNCHANGED fixed, UNCHANGED <<server, serving, got, accepted>>, Others(c),
           c \in cut' \/ (phase > 2 /\ setup # Good) \/ server = "exited"
    PROVE  Inductive'
  <1>1. Shapes'
    BY DEF Inductive, Shapes, Fail, Leave, fixed
  <1>2. /\ client'[c] \in {"failed", "exited"}
        /\ left'[c] = (IF unread # <<>> THEN "reset" ELSE "fin") /\ down'[c] = <<>>
    BY DEF Inductive, Shapes, Fail, Leave, Failed, FailedInPhase3, FailedInPhase4, FailedNow
  <1>3. EndOK(c)' /\ Excused(c)'
    BY <1>2 DEF EndOK, Excused, fixed, Good, Waiting, Ended
  <1>4. Local(c)'
    BY <1>2, <1>3 DEF Local, Stages
  <1> QED
    BY <1>1, <1>4, ClientKeeps

(* A client that fails changes nothing of the others.                      *)
LEMMA RecvOthers ==
    ASSUME Inductive, NEW c \in Clients, NEW how, NEW unread, Fail(c, how, unread),
           UNCHANGED accepted, cut \subseteq cut', UNCHANGED killed
    PROVE  Others(c)
  BY DEF Inductive, Shapes, Fail, Leave, Others, SameFor

(* The certificate (NetworkHandler.cpp:77-121): a part of it does not      *)
(* parse; one that verifies is the server's own, and the challenge goes    *)
(* out.                                                                    *)
LEMMA ReceiveCertificateKeeps ==
    ASSUME Inductive, NEW c \in Clients, NEW k \in 1 .. Len(down[c]), ReceiveCertificate(c, k)
    PROVE  Inductive'
  <1> DEFINE read == ReadSized(SubSeq(CertificateBytes, 1, k))
             rest == SubSeq(CertificateBytes, k + 1, Len(CertificateBytes))
             kind == read.val[1][2]
  <1>1. client[c] = "certificate" /\ AtCertificate(c) /\ left[c] = "open"
    BY DEF ReceiveCertificate, Inductive, Local, Stages, EndOK, Waiting, Ended
  <1>2. Len(<<>>) = 0
    OBVIOUS
  <1>3. down[c] # <<>>
    BY <1>2
  <1>4. /\ phase > 2 /\ up[c] = <<>> /\ got = <<>> /\ Open(c, "challenge")
        /\ setup.certificate # "absent" /\ down[c] = CertificateBytes
    BY <1>1, <1>3 DEF AtCertificate, Gathered, Open
  <1>5. k \in 1 .. Len(CertificateBytes)
    BY <1>4
  <1>6. /\ Len(CertificateBytes) = 3
        /\ read.ok <=> k = 3
        /\ k = 3 => kind = setup.certificate /\ rest = <<>>
    BY <1>5, CertificateRead
  <1>7. /\ UNCHANGED <<fixed, serverVars, killed, stopped>>
        /\ cut' = IF k < 3 THEN cut \cup {c} ELSE cut
    BY <1>4, <1>6 DEF ReceiveCertificate, ClientRecv, Noted
  <1>8. \/ Throws(read) /\ Fail(c, "thrown", rest)
        \/ ~Throws(read) /\ ~Verifies(kind) /\ Fail(c, "unverified", rest)
        \/ /\ ~Throws(read) /\ Verifies(kind)
           /\ client' = [client EXCEPT ![c] = "signature"]
           /\ up' = [up EXCEPT ![c] = @ \o Sized(Challenge(c))]
           /\ down' = [down EXCEPT ![c] = rest]
           /\ UNCHANGED <<left, private, key>>
    BY <1>4 DEF ReceiveCertificate, Received, Unread
  <1> HIDE DEF read, rest, kind
  <1>9. k \in Nat /\ ~(k < 3) => k = 3
    BY <1>5, <1>6
  <1>10. k \in Nat
    OBVIOUS
  <1>11. CASE \/ Throws(read) /\ Fail(c, "thrown", rest)
              \/ ~Throws(read) /\ ~Verifies(kind) /\ Fail(c, "unverified", rest)
    <2>1. PICK how : Fail(c, how, rest)
      BY <1>11
    <2>2. c \in cut' \/ k = 3
      BY <1>7, <1>9, <1>10
    <2>3. c \in cut' \/ (phase > 2 /\ setup # Good)
      <3>1. ASSUME k = 3 PROVE setup # Good
        <4>1. setup = Good => setup.ca = "good" /\ setup.certificate = "good"
          BY DEF Good
        <4>2. setup.ca = "absent" \/ setup.certificate \in {"other CA", "other host"}
          BY <1>6, <1>11, <3>1 DEF Throws, Verifies
        <4> QED
          BY <4>1, <4>2
      <3> QED
        BY <1>4, <2>2, <3>1
    <2>4. c \notin cut' => rest = <<>>
      BY <1>6, <2>2
    <2>5. Others(c)
      BY <1>7, <2>1, RecvOthers DEF serverVars
    <2> QED
      BY <1>1, <1>7, <2>1, <2>3, <2>4, <2>5, FailKeeps DEF serverVars
  <1>12. CASE /\ ~Throws(read) /\ Verifies(kind)
              /\ client' = [client EXCEPT ![c] = "signature"]
              /\ up' = [up EXCEPT ![c] = @ \o Sized(Challenge(c))]
              /\ down' = [down EXCEPT ![c] = rest]
              /\ UNCHANGED <<left, private, key>>
    <2>1. k = 3 /\ setup.ca # "absent"
      BY <1>6, <1>12 DEF Throws
    <2>2. setup.certificate = "good" /\ setup.ca = "good"
      <3>1. setup \in Setups
        BY DEF Inductive, Shapes
      <3>2. /\ setup.certificate \in {"good", "absent", "other CA", "other host"}
            /\ setup.ca \in {"good", "absent"}
        BY <3>1, HandshakeAssumption
      <3> QED
        BY <1>4, <1>6, <1>12, <2>1, <3>2 DEF Verifies
    <2>3. Shapes' /\ Others(c)
      BY <1>7, <1>12 DEF Inductive, Shapes, Others, SameFor, fixed, serverVars
    <2>4. /\ client'[c] = "signature" /\ left'[c] = "open" /\ accepted' = accepted
          /\ up'[c] = <<>> \o Sized(Challenge(c)) /\ down'[c] = <<>>
      BY <1>1, <1>4, <1>6, <1>7, <1>12, <2>1 DEF Inductive, Shapes, serverVars
    <2>5. <<>> \o Sized(Challenge(c)) = Sized(Challenge(c))
      <3>1. Sized(Challenge(c)) = <<Num(1), <<"random", c>>>>
        BY TwoCellsRead DEF Challenge
      <3> QED
        BY <3>1, Joined
    <2>6. AtSignature(c)'
      BY <1>4, <1>7, <2>2, <2>4, <2>5 DEF AtSignature, Halves, Open, serverVars, fixed
    <2>7. EndOK(c)' /\ Excused(c)'
      BY <2>4 DEF EndOK, Excused, Waiting, Ended
    <2>8. Local(c)'
      BY <2>4, <2>6, <2>7 DEF Local, Stages
    <2> QED
      BY <1>1, <1>7, <2>3, <2>4, <2>8, ClientKeeps DEF serverVars
  <1> QED
    BY <1>8, <1>11, <1>12

(* The signature: it verifies only if it was read whole and made with the  *)
(* key of the certificate, so that by now all files are as they should be. *)
LEMMA ReceiveSignatureKeeps ==
    ASSUME Inductive, NEW c \in Clients, NEW k \in 1 .. Len(down[c]), ReceiveSignature(c, k)
    PROVE  Inductive'
  <1> DEFINE cell == <<"signed", setup.signingKey, Challenge(c)>>
             m == Sized(<<cell>>)
             read == ReadSized(SubSeq(m, 1, k))
             rest == SubSeq(m, k + 1, Len(m))
  <1>1. client[c] = "signature" /\ AtSignature(c) /\ left[c] = "open"
    BY DEF ReceiveSignature, Inductive, Local, Stages, EndOK, Waiting, Ended
  <1>2. Len(<<>>) = 0
    OBVIOUS
  <1>3. down[c] # <<>>
    BY <1>2
  <1>4. /\ phase > 2 /\ setup.certificate = "good" /\ setup.ca = "good"
        /\ setup.signingKey # "absent" /\ up[c] = <<>> /\ got = <<>> /\ Open(c, "clientKey")
        /\ down[c] = m
    BY <1>1, <1>3 DEF AtSignature, Signature
  <1>5. Len(m) = 2
    <2>1. 1 \in 1 .. 2
      OBVIOUS
    <2> HIDE DEF cell
    <2> QED
      BY <2>1, TwoCellsRead
  <1>6. k \in 1 .. 2
    BY <1>4, <1>5
  <1>7. /\ read.ok <=> k = 2
        /\ k = 2 => read.val = <<cell>> /\ rest = <<>>
    <2> HIDE DEF cell
    <2> QED
      BY <1>6, TwoCellsRead
  <1>8. /\ UNCHANGED <<fixed, serverVars, killed, stopped>>
        /\ cut' = IF k < 2 THEN cut \cup {c} ELSE cut
    BY <1>4, <1>5 DEF ReceiveSignature, ClientRecv, Noted, Signature
  <1>9. IF VerifiesSignature(read, c)
        THEN /\ client' = [client EXCEPT ![c] = "sendKey"]
             /\ down' = [down EXCEPT ![c] = rest]
             /\ UNCHANGED <<up, left, private, key>>
        ELSE Fail(c, "unproven", rest)
    BY <1>4 DEF ReceiveSignature, Received, Unread
  <1>10. k = 1 \/ k = 2
    BY <1>6
  <1>11. cell = <<"signed", "good", Challenge(c)>> <=> setup.signingKey = "good"
    OBVIOUS
  <1> HIDE DEF cell, m, read, rest
  <1>12. CASE ~VerifiesSignature(read, c)
    <2>1. Fail(c, "unproven", rest)
      BY <1>9, <1>12
    <2>2. c \in cut' \/ k = 2
      BY <1>8, <1>10
    <2>3. ASSUME k = 2 PROVE setup # Good
      <3>1. setup = Good => setup.signingKey = "good"
        BY DEF Good
      <3> QED
        BY <1>7, <1>11, <1>12, <2>3, <3>1 DEF VerifiesSignature
    <2>4. c \notin cut' => rest = <<>>
      BY <1>7, <2>2
    <2>5. Others(c)
      BY <1>8, <2>1, RecvOthers DEF serverVars
    <2> QED
      BY <1>1, <1>4, <1>8, <2>1, <2>2, <2>3, <2>4, <2>5, FailKeeps DEF serverVars
  <1>13. CASE VerifiesSignature(read, c)
    <2>1. k = 2 /\ <<cell>> = <<<<"signed", "good", Challenge(c)>>>>
      BY <1>7, <1>13 DEF VerifiesSignature
    <2>2. setup.signingKey = "good"
      BY <1>11, <2>1
    <2>3. setup = Good
      <3>1. setup \in [certificate : {"good", "absent", "other CA", "other host"},
                       signingKey : {"good", "absent", "other"}, ca : {"good", "absent"}]
        BY HandshakeAssumption DEF Inductive, Shapes
      <3> QED
        BY <1>4, <2>2, <3>1 DEF Good
    <2>4. Shapes' /\ Others(c)
      BY <1>8, <1>9, <1>13 DEF Inductive, Shapes, Others, SameFor, fixed, serverVars
    <2>5. /\ client'[c] = "sendKey" /\ left'[c] = "open" /\ accepted' = accepted
          /\ up'[c] = <<>> /\ down'[c] = <<>>
      BY <1>1, <1>4, <1>7, <1>8, <1>9, <1>13, <2>1 DEF Inductive, Shapes, serverVars
    <2>6. AtSendKey(c)'
      BY <1>4, <1>8, <2>3, <2>5 DEF AtSendKey, SetupOK, Gathered, Open, serverVars, fixed, Good
    <2>7. EndOK(c)' /\ Excused(c)'
      BY <2>5 DEF EndOK, Excused, Waiting, Ended
    <2>8. Local(c)'
      BY <2>5, <2>6, <2>7 DEF Local, Stages
    <2> QED
      BY <1>1, <1>8, <2>4, <2>5, <2>8, ClientKeeps DEF serverVars
  <1> QED
    BY <1>12, <1>13

(* The client draws its private key and sends the public one.              *)
LEMMA SendKeyKeeps ==
    ASSUME Inductive, NEW c \in Clients, SendKey(c)
    PROVE  Inductive'
  <1>1. client[c] = "sendKey" /\ AtSendKey(c) /\ left[c] = "open"
    BY DEF SendKey, Inductive, Local, Stages, EndOK, Waiting, Ended
  <1>2. PICK x \in PrivateKeys :
           /\ private' = [private EXCEPT ![c] = x]
           /\ up' = [up EXCEPT ![c] = @ \o KeyBytes(PublicKey(x))]
    BY DEF SendKey
  <1>3. /\ client' = [client EXCEPT ![c] = "serverKey"]
        /\ UNCHANGED <<fixed, serverVars, down, left, key, cut, killed>>
    BY DEF SendKey
  <1>4. Shapes' /\ Others(c)
    BY <1>2, <1>3 DEF Inductive, Shapes, Others, SameFor, fixed, serverVars
  <1>5. <<>> \o KeyBytes(PublicKey(x)) = KeyBytes(PublicKey(x))
    BY Joined DEF KeyBytes
  <1>6. /\ client'[c] = "serverKey" /\ left'[c] = "open" /\ private'[c] = x
        /\ up'[c] = KeyBytes(PublicKey(x)) /\ down'[c] = <<>>
    BY <1>1, <1>2, <1>3, <1>5 DEF Inductive, Shapes, AtSendKey
  <1>7. AtServerKey(c)'
    <2>1. SetupOK'
      BY <1>1, <1>3 DEF AtSendKey, SetupOK, fixed, Good
    <2>2. private'[c] \in PrivateKeys
      BY <1>6
    <2>3. CASE phase = 2 /\ accepted[c] = "none"
      BY <1>3, <1>6, <2>1, <2>2, <2>3 DEF AtServerKey, fixed, serverVars
    <2>4. CASE Open(c, "clientKey")
      <3>1. got' = <<>> /\ Open(c, "clientKey")'
        BY <1>1, <1>3, <2>4 DEF AtSendKey, Gathered, Open, serverVars
      <3>2. Halves(got', up'[c], KeyBytes(PublicKey(private'[c])))
        BY <1>6, <3>1 DEF Halves
      <3> QED
        BY <1>6, <2>1, <2>2, <3>1, <3>2 DEF AtServerKey
    <2> QED
      BY <1>1, <2>3, <2>4 DEF AtSendKey
  <1>8. EndOK(c)' /\ Excused(c)'
    BY <1>6 DEF EndOK, Excused, Waiting, Ended
  <1>9. Local(c)'
    BY <1>6, <1>7, <1>8 DEF Local, Stages
  <1> QED
    BY <1>1, <1>3, <1>4, <1>6, <1>9, ClientKeeps DEF serverVars

(* The server's key, read whole, is the one from which the server derived  *)
(* its secret.                                                             *)
LEMMA ReceiveKeyKeeps ==
    ASSUME Inductive, NEW c \in Clients, NEW k \in 1 .. Len(down[c]), ReceiveKey(c, k)
    PROVE  Inductive'
  <1>1. client[c] = "serverKey" /\ AtServerKey(c) /\ left[c] = "open"
    BY DEF ReceiveKey, Inductive, Local, Stages, EndOK, Waiting, Ended
  <1>2. down[c] # <<>>
    <2>1. Len(<<>>) = 0
      OBVIOUS
    <2> QED
      BY <2>1
  <1>3. SetupOK /\ private[c] \in PrivateKeys /\ accepted[c] = "inserted"
    BY <1>1, <1>2 DEF AtServerKey
  <1>4. PICK x \in PrivateKeys : Replied(c, x)
    BY <1>1, <1>2 DEF AtServerKey
  <1> DEFINE m == KeyBytes(PublicKey(x))
             rest == SubSeq(m, k + 1, Len(m))
  <1>5. down[c] = m /\ key[c].server = EstablishedKey(x, PublicKey(private[c]))
    BY <1>4 DEF Replied
  <1>6. /\ KeyOf(m) = PublicKey(x) /\ Len(m) = 2
        /\ SubSeq(m, 1, 2) = m /\ SubSeq(m, 3, 2) = <<>>
    <2>1. KeyOf(m) = PublicKey(x)
      BY KeyOfBytes, PublicKeys
    <2> QED
      BY <2>1, Two DEF KeyBytes
  <1>7. k = 1 \/ k = 2
    BY <1>5, <1>6
  <1>8. /\ UNCHANGED <<fixed, serverVars, killed, stopped>>
        /\ cut' = IF k < 2 THEN cut \cup {c} ELSE cut
    BY DEF ReceiveKey, ClientRecv, Noted, KeySize
  <1>9. IF k = 2
        THEN /\ client' = [client EXCEPT ![c] = "connected"]
             /\ key' = [key EXCEPT ![c].client =
                           EstablishedKey(private[c], KeyOf(SubSeq(m, 1, k)))]
             /\ down' = [down EXCEPT ![c] = rest]
             /\ UNCHANGED <<up, left, private>>
        ELSE Fail(c, "short", rest)
    BY <1>5 DEF ReceiveKey, Received, Unread, KeySize
  <1> HIDE DEF m
  <1>10. CASE k = 1
    <2>1. Fail(c, "short", rest) /\ c \in cut'
      BY <1>8, <1>9, <1>10
    <2>2. Others(c)
      BY <1>8, <2>1, RecvOthers DEF serverVars
    <2> HIDE DEF rest
    <2> QED
      BY <1>1, <1>8, <2>1, <2>2, FailKeeps DEF serverVars
  <1>11. CASE k = 2
    <2>1. rest = <<>> /\ SubSeq(m, 1, k) = m
      <3>1. k + 1 = 3
        BY <1>11
      <3> QED
        BY <1>6, <1>11, <3>1
    <2> HIDE DEF rest
    <2>2. /\ client' = [client EXCEPT ![c] = "connected"]
          /\ key' = [key EXCEPT ![c].client = EstablishedKey(private[c], PublicKey(x))]
          /\ down' = [down EXCEPT ![c] = <<>>]
          /\ UNCHANGED <<up, left, private>>
      BY <1>6, <1>9, <1>11, <2>1
    <2>3. Shapes' /\ Others(c)
      BY <1>8, <2>2 DEF Inductive, Shapes, Others, SameFor, fixed, serverVars
    <2>4. /\ client'[c] = "connected" /\ left'[c] = "open" /\ private'[c] = private[c]
          /\ key'[c].client = EstablishedKey(private[c], PublicKey(x))
          /\ key'[c].server = EstablishedKey(x, PublicKey(private[c]))
          /\ accepted' = accepted
      BY <1>1, <1>5, <1>8, <2>2 DEF Inductive, Shapes, serverVars
    <2>5. Agreed(c, x)'
      BY <2>4 DEF Agreed
    <2>6. AtConnected(c)'
      BY <1>3, <1>8, <2>4, <2>5 DEF AtConnected, SetupOK, fixed, Good
    <2>7. EndOK(c)' /\ Excused(c)'
      BY <2>4 DEF EndOK, Excused, Waiting, Ended
    <2>8. Local(c)'
      BY <2>4, <2>6, <2>7 DEF Local, Stages
    <2> QED
      BY <1>1, <1>8, <2>3, <2>4, <2>8, ClientKeeps DEF serverVars
  <1> QED
    BY <1>7, <1>10, <1>11

(* The server has closed the connection: its files were missing, or it is  *)
(* gone.                                                                   *)
LEMMA ReceiveNothingKeeps ==
    ASSUME Inductive, NEW c \in Clients, ClientReceivesNothing(c)
    PROVE  Inductive'
  <1>1. left[c] = "open"
    BY DEF ClientReceivesNothing, Inductive, Local, EndOK, Waiting, Ended
  <1>2. PICK how : Fail(c, how, <<>>)
    BY DEF ClientReceivesNothing
  <1>3. UNCHANGED <<fixed, serverVars, cut, killed>>
    BY DEF ClientReceivesNothing
  <1>4. Others(c)
    BY <1>2, <1>3, RecvOthers DEF serverVars
  <1>5. (phase > 2 /\ setup # Good) \/ server = "exited"
    <2> SUFFICES ASSUME accepted[c] = "closed" PROVE phase > 2 /\ setup # Good
      BY DEF ClientReceivesNothing
    <2>1. /\ client[c] = "certificate" => AtCertificate(c)
          /\ client[c] = "signature" => AtSignature(c)
          /\ client[c] = "serverKey" => AtServerKey(c)
          /\ client[c] \in {"certificate", "signature", "serverKey"}
      BY DEF ClientReceivesNothing, Inductive, Local, Stages, Waiting
    <2>2. phase > 2 /\ (setup.certificate = "absent" \/ setup.signingKey = "absent")
      BY <2>1 DEF AtCertificate, AtSignature, AtServerKey, Open
    <2>3. setup = Good => setup.certificate = "good" /\ setup.signingKey = "good"
      BY DEF Good
    <2> QED
      BY <2>2, <2>3
  <1> QED
    BY <1>1, <1>2, <1>3, <1>4, <1>5, FailKeeps DEF serverVars

(* A client that is killed.                                                *)
LEMMA DieKeeps ==
    ASSUME Inductive, NEW c \in Clients, Die(c)
    PROVE  Inductive'
  <1>1. Shapes' /\ Others(c)
    BY DEF Inductive, Shapes, Die, Leave, Others, SameFor, fixed, serverVars
  <1>2. /\ client'[c] = "exited" /\ left'[c] \in {"fin", "reset"} /\ down'[c] = <<>>
        /\ c \in killed' /\ UNCHANGED <<fixed, server, serving, got, accepted>>
    BY DEF Inductive, Shapes, Die, Leave, serverVars
  <1>3. Local(c)'
    BY <1>2 DEF Local, Stages, EndOK, Excused, Waiting, Ended
  <1>4. left[c] = "reset" => left'[c] = "reset"
    <2> SUFFICES ASSUME left[c] = "reset" PROVE FALSE
      OBVIOUS
    <2>1. client[c] \notin {"failed", "exited", "idle", "connected"}
      BY DEF Die, Ended
    <2>2. EndOK(c)
      BY DEF Inductive, Local
    <2> QED
      BY <2>1, <2>2 DEF EndOK, Waiting, Ended
  <1> QED
    BY <1>1, <1>2, <1>3, <1>4, ClientKeeps

(* A client that is stopped.                                               *)
LEMMA StopKeeps ==
    ASSUME Inductive, NEW c \in Clients, Stop(c)
    PROVE  Inductive'
  <1>1. Shapes' /\ \A x \in Clients : SameFor(x)
    BY DEF Inductive, Shapes, Stop, SameFor, fixed, serverVars
  <1>2. UNCHANGED <<fixed, serverVars, left, cut, killed>>
    BY DEF Stop
  <1>3. \A x \in Clients : Local(x)'
    BY <1>1, <1>2, OthersKeep DEF Inductive, serverVars
  <1>4. ServerOK'
    BY <1>1, <1>2 DEF ServerOK, Inductive, serverVars, fixed
  <1> QED
    BY <1>1, <1>3, <1>4 DEF Inductive

-----------------------------------------------------------------------------
(* The server.                                                             *)

(* It leaves alone what the clients hold, and all of the other clients.    *)
LEMMA ServerKeeps ==
    ASSUME Inductive, NEW c \in Clients, Shapes', ServerOK', Local(c)',
           \A x \in Clients \ {c} : SameFor(x),
           UNCHANGED <<fixed, cut, killed>>, server # "exited",
           \A x \in Clients \ {c} : accepted[x] # "open"
    PROVE  Inductive'
  <1>1. \A x \in Clients : x # c => Local(x)'
    BY OthersKeep DEF Inductive
  <1> QED
    BY <1>1 DEF Inductive

(* The server takes a connection: it waits for the key in phase 2, and     *)
(* otherwise sends the certificate, if it has one.                         *)
LEMMA AcceptKeeps ==
    ASSUME Inductive, NEW c \in Clients, Accept(c)
    PROVE  Inductive'
  <1>1. /\ server = "accept" /\ accepted[c] = "none" /\ client[c] # "idle"
        /\ UNCHANGED <<fixed, client, up, left, private, key, cut, killed>>
    <2>1. left[c] # "none" /\ EndOK(c)
      BY DEF Accept, Inductive, Local
    <2> QED
      BY <2>1 DEF Accept, EndOK
  <1>2. \A x \in Clients : accepted[x] # "open"
    BY <1>1 DEF Inductive, ServerOK
  <1>3. \/ phase = 2 /\ Serve(c, "clientKey") /\ UNCHANGED down
        \/ phase # 2 /\ setup.certificate = "absent" /\ HandshakeFails(c) /\ UNCHANGED down
        \/ /\ phase # 2 /\ setup.certificate # "absent" /\ Serve(c, "challenge")
           /\ down' = [down EXCEPT ![c] = IF left[c] = "open" THEN CertificateBytes ELSE <<>>]
    BY DEF Accept
  <1>4. Shapes' /\ \A x \in Clients \ {c} : SameFor(x)
    BY <1>1, <1>3 DEF Inductive, Shapes, Serve, HandshakeFails, SameFor, fixed
  <1>5. /\ client[c] \notin {"connected", "signature", "idle"}
        /\ client[c] = "certificate" => phase > 2 /\ up[c] = <<>> /\ down[c] = <<>>
        /\ client[c] = "sendKey" => phase = 2 /\ up[c] = <<>> /\ down[c] = <<>> /\ SetupOK
        /\ client[c] = "serverKey" =>
              /\ phase = 2 /\ SetupOK /\ private[c] \in PrivateKeys
              /\ up[c] = KeyBytes(PublicKey(private[c])) /\ down[c] = <<>>
    <2>1. Stages(c)
      BY DEF Inductive, Local
    <2> QED
      BY <1>1, <2>1 DEF Stages, AtCertificate, AtSignature, AtSendKey, AtServerKey,
                        AtConnected, Open
  <1>6. EndOK(c) /\ Excused(c)
    BY DEF Inductive, Local
  <1>7. \A n \in Clients : accepted'[n] = "open" => n = c
    BY <1>2, <1>4 DEF SameFor
  <1>8. CASE phase = 2 /\ Serve(c, "clientKey") /\ UNCHANGED down
    <2>1. server' = "clientKey" /\ serving' = c /\ accepted'[c] = "open" /\ got' = <<>>
      BY <1>8 DEF Serve, Inductive, Shapes
    <2>2. ServerOK'
      BY <1>7, <2>1 DEF ServerOK
    <2>3. EndOK(c)' /\ Excused(c)'
      BY <1>1, <1>6, <1>8, <2>1 DEF EndOK, Excused, fixed, Good, Waiting, Ended
    <2>4. ASSUME client[c] = "sendKey" PROVE AtSendKey(c)'
      BY <1>1, <1>5, <1>8, <2>1, <2>4 DEF AtSendKey, Gathered, Open, SetupOK, fixed, Good
    <2>5. ASSUME client[c] = "serverKey" PROVE AtServerKey(c)'
      <3>1. Halves(got', up'[c], KeyBytes(PublicKey(private'[c])))
        BY <1>1, <1>5, <2>1, <2>5 DEF Halves
      <3> QED
        BY <1>1, <1>5, <1>8, <2>1, <2>5, <3>1 DEF AtServerKey, Open, SetupOK, fixed, Good
    <2>6. Stages(c)'
      BY <1>1, <1>5, <1>8, <2>4, <2>5 DEF Stages
    <2>7. Local(c)'
      BY <2>3, <2>6 DEF Local
    <2> QED
      BY <1>1, <1>2, <1>4, <2>2, <2>7, ServerKeeps
  <1>9. CASE phase # 2 /\ setup.certificate = "absent" /\ HandshakeFails(c) /\ UNCHANGED down
    <2>1. server' = "accept" /\ serving' = c /\ accepted'[c] = "closed" /\ got' = <<>>
      BY <1>9 DEF HandshakeFails, Inductive, Shapes
    <2>2. ServerOK'
      BY <1>7, <2>1 DEF ServerOK
    <2>3. EndOK(c)' /\ Excused(c)'
      BY <1>1, <1>6, <1>9, <2>1 DEF EndOK, Excused, fixed, Good, Waiting, Ended
    <2>4. ASSUME client[c] = "certificate" PROVE AtCertificate(c)'
      BY <1>1, <1>5, <1>9, <2>1, <2>4 DEF AtCertificate, Gathered, Open, fixed
    <2>6. Stages(c)'
      BY <1>1, <1>5, <1>9, <2>4 DEF Stages
    <2>7. Local(c)'
      BY <2>3, <2>6 DEF Local
    <2> QED
      BY <1>1, <1>2, <1>4, <2>2, <2>7, ServerKeeps
  <1>10. CASE /\ phase # 2 /\ setup.certificate # "absent" /\ Serve(c, "challenge")
              /\ down' = [down EXCEPT ![c] = IF left[c] = "open" THEN CertificateBytes ELSE <<>>]
    <2>1. /\ server' = "challenge" /\ serving' = c /\ accepted'[c] = "open" /\ got' = <<>>
          /\ down'[c] = IF left[c] = "open" THEN CertificateBytes ELSE <<>>
      BY <1>10 DEF Serve, Inductive, Shapes
    <2>2. ServerOK'
      <3>1. phase' > 2
        BY <1>1, <1>10 DEF Inductive, Shapes, Phases, Current, fixed
      <3> QED
        BY <1>7, <2>1, <3>1 DEF ServerOK
    <2>3. EndOK(c)' /\ Excused(c)'
      BY <1>1, <1>6, <1>10, <2>1 DEF EndOK, Excused, fixed, Good, Waiting, Ended
    <2>4. ASSUME client[c] = "certificate" PROVE AtCertificate(c)'
      <3>1. left[c] = "open" /\ CertificateBytes' = CertificateBytes
        BY <1>1, <1>6, <2>4 DEF EndOK, Waiting, fixed, CertificateBytes
      <3> QED
        BY <1>1, <1>5, <1>10, <2>1, <2>4, <3>1 DEF AtCertificate, Gathered, Open, fixed
    <2>6. Stages(c)'
      BY <1>1, <1>5, <1>10, <2>4 DEF Stages
    <2>7. Local(c)'
      BY <2>3, <2>6 DEF Local
    <2> QED
      BY <1>1, <1>2, <1>4, <2>2, <2>7, ServerKeeps
  <1> QED
    BY <1>3, <1>8, <1>9, <1>10

(* While it receives, serves a client whose end is open.                   *)
LEMMA Served ==
    ASSUME Inductive, server # "accept"
    PROVE  /\ serving \in Clients /\ accepted[serving] = "open"
           /\ \A x \in Clients \ {serving} : accepted[x] # "open"
           /\ EndOK(serving) /\ Stages(serving) /\ Excused(serving)
           /\ client[serving] # "idle" /\ client[serving] # "connected"
  <1>1. /\ serving \in Clients /\ accepted[serving] = "open"
        /\ \A x \in Clients \ {serving} : accepted[x] # "open"
    BY DEF Inductive, ServerOK
  <1>2. EndOK(serving) /\ Stages(serving) /\ Excused(serving)
    BY <1>1 DEF Inductive, Local
  <1>3. client[serving] # "idle" /\ client[serving] # "connected"
    BY <1>1, <1>2 DEF EndOK, Stages, AtConnected
  <1> QED
    BY <1>1, <1>2, <1>3

(* The server collects some cells of the challenge or of the key.          *)
LEMMA ReceiveBytesKeeps ==
    ASSUME Inductive, NEW k \in 1 .. KeySize, ReceiveBytes(k)
    PROVE  Inductive'
  <1>0. PICK c \in Clients : c = serving
    BY Served DEF ReceiveBytes, Receiving
  <1>1. server \in {"challenge", "clientKey"} /\ k \in 1 .. Len(up[c])
    BY <1>0 DEF ReceiveBytes, Receiving
  <1>2. /\ c \in Clients /\ accepted[c] = "open"
        /\ \A x \in Clients \ {c} : accepted[x] # "open"
        /\ EndOK(c) /\ Stages(c) /\ Excused(c)
        /\ client[c] # "idle" /\ client[c] # "connected"
    BY <1>0, <1>1, Served
  <1>3. /\ got' = got \o SubSeq(up[c], 1, k)
        /\ up' = [up EXCEPT ![c] = SubSeq(up[c], k + 1, Len(up[c]))]
        /\ UNCHANGED <<fixed, client, server, serving, accepted, down, left, private, key,
                       cut, killed>>
    BY <1>0 DEF ReceiveBytes
  <1>4. up[c] # <<>>
    <2>1. Len(<<>>) = 0
      OBVIOUS
    <2> QED
      BY <1>1, <2>1
  <1>5. Shapes' /\ \A x \in Clients \ {c} : SameFor(x)
    BY <1>3 DEF Inductive, Shapes, SameFor, fixed
  <1>6. ServerOK'
    BY <1>3 DEF Inductive, ServerOK, fixed
  <1>7. EndOK(c)' /\ Excused(c)'
    BY <1>2, <1>3 DEF EndOK, Excused, fixed, Good
  <1>8. ASSUME NEW m, m = <<m[1], m[2]>>, Halves(got, up[c], m)
        PROVE  Halves(got', up'[c], m)
    <2> DEFINE a == m[1]
               b == m[2]
               u == up[c]
    <2>1. Halves(got, u, <<a, b>>) /\ k \in 1 .. Len(u)
      BY <1>1, <1>8
    <2>2. up'[c] = SubSeq(u, k + 1, Len(u))
      BY <1>2, <1>3 DEF Inductive, Shapes
    <2>5. m = <<a, b>> /\ got' = got \o SubSeq(u, 1, k)
      BY <1>3, <1>8
    <2> HIDE DEF a, b, u
    <2>3. Halves(got \o SubSeq(u, 1, k), SubSeq(u, k + 1, Len(u)), <<a, b>>)
      BY <2>1, HalvesMove
    <2> QED
      BY <2>2, <2>3, <2>5
  <1>9. client[c] # "certificate" /\ client[c] # "sendKey"
    BY <1>2, <1>4 DEF Stages, AtCertificate, AtSendKey
  <1>10. ASSUME client[c] = "signature" PROVE AtSignature(c)'
    <2> DEFINE m == Sized(Challenge(c))
    <2>1. /\ phase > 2 /\ setup.certificate = "good" /\ setup.ca = "good"
          /\ Open(c, "challenge") /\ Halves(got, up[c], m) /\ down[c] = <<>>
      BY <1>2, <1>4, <1>10 DEF Stages, AtSignature
    <2>2. m = <<m[1], m[2]>>
      <3>1. m = <<Num(1), <<"random", c>>>>
        BY TwoCellsRead DEF Challenge
      <3> QED
        BY <3>1
    <2> HIDE DEF m
    <2>3. Halves(got', up'[c], m)
      BY <1>8, <2>1, <2>2
    <2> QED
      BY <1>3, <2>1, <2>3 DEF AtSignature, Open, fixed, m
  <1>11. ASSUME client[c] = "serverKey" PROVE AtServerKey(c)'
    <2> DEFINE m == KeyBytes(PublicKey(private[c]))
    <2>1. /\ SetupOK /\ private[c] \in PrivateKeys /\ down[c] = <<>>
          /\ Open(c, "clientKey") /\ Halves(got, up[c], m)
      BY <1>2, <1>4, <1>11 DEF Stages, AtServerKey
    <2>2. m = <<m[1], m[2]>>
      BY DEF KeyBytes
    <2> HIDE DEF m
    <2>3. Halves(got', up'[c], m)
      BY <1>8, <2>1, <2>2
    <2>5. Halves(got', up'[c], KeyBytes(PublicKey(private'[c])))
      BY <1>3, <2>3 DEF m
    <2> QED
      BY <1>3, <2>1, <2>5 DEF AtServerKey, Open, SetupOK, fixed, Good
  <1>12. Stages(c)'
    BY <1>2, <1>3, <1>9, <1>10, <1>11 DEF Stages
  <1>13. Local(c)'
    BY <1>7, <1>12 DEF Local
  <1> QED
    BY <1>1, <1>2, <1>3, <1>5, <1>6, <1>13, ServerKeeps

(* The handshake of a client that has failed fails.                        *)
LEMMA FailsKeeps ==
    ASSUME Inductive, server \in {"challenge", "clientKey"}, HandshakeFails(serving),
           UNCHANGED <<fixed, client, up, down, left, private, key, cut, killed>>,
           \A c \in Clients : c = serving => Stages(c)'
    PROVE  Inductive'
  <1>0. PICK c \in Clients : c = serving
    BY Served
  <1>1. /\ c \in Clients /\ accepted[c] = "open"
        /\ \A x \in Clients \ {c} : accepted[x] # "open"
        /\ EndOK(c) /\ Excused(c) /\ client[c] # "idle"
    BY <1>0, Served
  <1>2. /\ server' = "accept" /\ accepted' = [accepted EXCEPT ![c] = "closed"]
        /\ Stages(c)'
    BY <1>0 DEF HandshakeFails
  <1>3. Shapes' /\ \A x \in Clients \ {c} : SameFor(x)
    BY <1>2 DEF Inductive, Shapes, SameFor, fixed
  <1>4. \A x \in Clients : accepted'[x] # "open"
    BY <1>1, <1>2 DEF Inductive, Shapes
  <1>5. ServerOK'
    BY <1>2, <1>4 DEF ServerOK
  <1>6. EndOK(c)' /\ Excused(c)'
    <2>1. accepted'[c] = "closed"
      BY <1>2 DEF Inductive, Shapes
    <2> QED
      BY <1>1, <1>2, <2>1 DEF EndOK, Excused, fixed, Good
  <1>7. Local(c)'
    BY <1>2, <1>6 DEF Local
  <1> QED
    BY <1>1, <1>3, <1>5, <1>7, ServerKeeps

(* The client's end is closed, or reset up to phase 4: only a client that  *)
(* has failed closes it, and nothing is expected of that one.              *)
LEMMA ReceiveEndKeeps ==
    ASSUME Inductive, ReceiveEnd \/ ReceiveErrorFails
    PROVE  Inductive'
  <1>1. /\ server \in {"challenge", "clientKey"} /\ left[serving] \in {"fin", "reset"}
        /\ HandshakeFails(serving)
        /\ UNCHANGED <<fixed, client, up, down, left, private, key, cut, killed>>
    BY DEF ReceiveEnd, ReceiveErrorFails, Receiving
  <1>2. EndOK(serving)
    BY <1>1, Served
  <1>3. client[serving] \in {"failed", "exited", "idle"}
    BY <1>1, <1>2 DEF EndOK, Waiting, Ended
  <1>4. \A c \in Clients : c = serving => Stages(c)'
    BY <1>1, <1>3 DEF Stages
  <1> QED
    BY <1>1, <1>4, FailsKeeps

(* A reset ends the server since phase 5: it comes from a client that left *)
(* a message unread.                                                       *)
LEMMA ReceiveErrorExitsKeeps ==
    ASSUME Inductive, ReceiveErrorExits
    PROVE  Inductive'
  <1>0. PICK c \in Clients : c = serving
    BY Served DEF ReceiveErrorExits, Receiving
  <1>1. /\ server \in {"challenge", "clientKey"} /\ left[c] = "reset" /\ phase > 4
        /\ server' = "exited"
        /\ UNCHANGED <<fixed, client, serving, got, accepted, up, down, left, private, key,
                       cut, killed>>
    BY <1>0 DEF ReceiveErrorExits, Receiving
  <1>2. /\ c \in Clients /\ accepted[c] = "open"
        /\ \A x \in Clients \ {c} : accepted[x] # "open"
        /\ EndOK(c) /\ Excused(c)
    BY <1>0, <1>1, Served
  <1>3. Shapes' /\ \A x \in Clients : SameFor(x)
    BY <1>1 DEF Inductive, Shapes, SameFor, fixed
  <1>4. ServerOK'
    BY <1>1, <1>2 DEF Inductive, ServerOK, fixed
  <1>5. client[c] \in {"failed", "exited", "idle"}
    BY <1>1, <1>2 DEF EndOK, Waiting, Ended
  <1>6. EndOK(c)' /\ Excused(c)' /\ Stages(c)'
    BY <1>1, <1>2, <1>5 DEF EndOK, Excused, Stages, fixed, Good
  <1>7. Local(c)'
    BY <1>6 DEF Local
  <1> QED
    BY <1>1, <1>2, <1>3, <1>4, <1>7, ServerKeeps

(* The server signs the challenge it has collected, which is this          *)
(* client's, and then waits for the key; without a signing key it closes.  *)
LEMMA SignKeeps ==
    ASSUME Inductive, Sign
    PROVE  Inductive'
  <1>0. PICK c \in Clients : c = serving
    BY Served DEF Sign
  <1> DEFINE m == Sized(Challenge(c))
  <1>1. /\ server = "challenge" /\ Len(got) = 2
        /\ UNCHANGED <<fixed, client, up, left, private, key, cut, killed>>
    BY DEF Sign, Collected, Wanted, ChallengeSize
  <1>2. /\ c \in Clients /\ accepted[c] = "open"
        /\ \A x \in Clients \ {c} : accepted[x] # "open"
        /\ EndOK(c) /\ Stages(c) /\ Excused(c)
        /\ client[c] # "idle" /\ client[c] # "connected"
    BY <1>0, <1>1, Served
  <1>3. m = <<Num(1), <<"random", c>>>> /\ ReadSized(m).val = Challenge(c)
    <2> DEFINE r == <<"random", c>>
    <2>1. Challenge(c) = <<r>>
      BY DEF Challenge
    <2> HIDE DEF r
    <2>2. 2 \in 1 .. 2
      OBVIOUS
    <2>3. Sized(<<r>>) = <<Num(1), r>> /\ ReadSized(SubSeq(Sized(<<r>>), 1, 2)).val = <<r>>
      BY <2>2, TwoCellsRead
    <2>4. SubSeq(<<Num(1), r>>, 1, 2) = <<Num(1), r>>
      BY Two
    <2>5. Sized(Challenge(c)) = <<Num(1), r>> /\ ReadSized(Sized(Challenge(c))).val = <<r>>
      BY <2>1, <2>3, <2>4
    <2> QED
      BY <2>1, <2>5 DEF r
  <1>4. /\ client[c] \notin {"certificate", "sendKey", "serverKey"}
        /\ client[c] = "signature" =>
              /\ phase > 2 /\ setup.certificate = "good" /\ setup.ca = "good"
              /\ up[c] = <<>> /\ down[c] = <<>> /\ got = m
    <2>1. Len(got) = 2 /\ 2 # 0 /\ 2 # 1
      BY <1>1
    <2>2. got # <<>> /\ \A x : got # <<x>>
      <3>1. Len(<<>>) = 0
        OBVIOUS
      <3>2. \A x : Len(<<x>>) = 1
        OBVIOUS
      <3>3. got # <<>>
        BY ONLY <2>1, <3>1, Zenon
      <3>4. ASSUME NEW x, got = <<x>> PROVE FALSE
        BY ONLY <2>1, <3>2, <3>4, Zenon
      <3> QED
        BY <3>3, <3>4
    <2> HIDE DEF m
    <2>3. Gathered(c) = got /\ Gathered(c) # <<>> /\ ~Open(c, "clientKey") /\ accepted[c] = "open"
      <3>1. server = "challenge" /\ accepted[c] = "open"
        BY <1>1, <1>2
      <3> QED
        BY <2>2, <3>1 DEF Gathered, Open
    <2>4. client[c] \notin {"certificate", "sendKey", "serverKey"}
      BY <1>2, <2>3 DEF Stages, AtCertificate, AtSendKey, AtServerKey
    <2>5. ASSUME client[c] = "signature"
          PROVE  /\ phase > 2 /\ setup.certificate = "good" /\ setup.ca = "good"
                 /\ up[c] = <<>> /\ down[c] = <<>> /\ got = m
      <3>1. /\ phase > 2 /\ setup.certificate = "good" /\ setup.ca = "good"
            /\ Halves(got, up[c], m) /\ down[c] = <<>>
        BY <1>2, <2>3, <2>5 DEF Stages, AtSignature, m
      <3>2. got = m /\ up[c] = <<>>
        BY <2>2, <3>1 DEF Halves
      <3> QED
        BY <3>1, <3>2
    <2> QED
      BY <2>4, <2>5
  <1>5. CASE setup.signingKey = "absent"
    <2>1. HandshakeFails(c) /\ UNCHANGED down
      BY <1>0, <1>5 DEF Sign
    <2>2. accepted'[c] = "closed"
      BY <1>2, <2>1 DEF HandshakeFails, Inductive, Shapes
    <2>3. Stages(c)'
      BY <1>1, <1>2, <1>4, <1>5, <2>1, <2>2 DEF Stages, AtSignature, fixed
    <2> QED
      BY <1>0, <1>1, <2>1, <2>3, FailsKeeps
  <1>6. CASE setup.signingKey # "absent"
    <2>1. /\ server' = "clientKey" /\ got' = <<>> /\ UNCHANGED <<serving, accepted>>
          /\ ServerSends(c, Sized(Signature(ReadSized(got).val)))
      BY <1>0, <1>6 DEF Sign
    <2>2. Shapes' /\ \A x \in Clients \ {c} : SameFor(x)
      BY <1>1, <2>1 DEF Inductive, Shapes, SameFor, fixed, ServerSends
    <2>3. ServerOK'
      BY <1>1, <1>2, <2>1 DEF ServerOK, Inductive, fixed
    <2>4. EndOK(c)' /\ Excused(c)'
      <3>1. left[c] # "open" => down'[c] = down[c]
        BY <1>2, <2>1 DEF ServerSends, Inductive, Shapes
      <3> QED
        BY <1>1, <1>2, <2>1, <3>1 DEF EndOK, Excused, fixed, Good
    <2>5. ASSUME client[c] = "signature" PROVE AtSignature(c)'
      <3> DEFINE s == Sized(Signature(Challenge(c)))
      <3>1. left[c] = "open"
        BY <1>2, <2>5 DEF EndOK, Waiting
      <3>2. down'[c] = <<>> \o s
        BY <1>2, <1>3, <1>4, <2>1, <2>5, <3>1 DEF ServerSends, Inductive, Shapes
      <3>3. <<>> \o s = s
        <4>1. s = <<Num(1), <<"signed", setup.signingKey, Challenge(c)>>>>
          BY TwoCellsRead DEF Signature
        <4> QED
          BY <4>1, Joined
      <3>4. s = Sized(Signature(Challenge(c)))'
        BY <1>1, <2>1 DEF Signature, fixed
      <3> HIDE DEF s
      <3> QED
        BY <1>1, <1>2, <1>4, <1>6, <2>1, <2>5, <3>2, <3>3, <3>4 DEF AtSignature, Open, fixed
    <2>6. Stages(c)'
      BY <1>1, <1>2, <1>4, <2>5 DEF Stages
    <2>7. Local(c)'
      BY <2>4, <2>6 DEF Local
    <2> QED
      BY <1>1, <1>2, <2>2, <2>3, <2>7, ServerKeeps
  <1> QED
    BY <1>5, <1>6

(* The server has this client's public key, derives the secret from it and *)
(* sends its own.                                                          *)
LEMMA EstablishKeeps ==
    ASSUME Inductive, Establish
    PROVE  Inductive'
  <1>0. PICK c \in Clients : c = serving
    BY Served DEF Establish
  <1> DEFINE m == KeyBytes(PublicKey(private[c]))
  <1>1. /\ server = "clientKey" /\ Len(got) = 2
        /\ accepted' = [accepted EXCEPT ![c] = "inserted"]
        /\ server' = "accept" /\ got' = <<>>
        /\ UNCHANGED <<fixed, client, serving, up, left, private, cut, killed>>
    BY <1>0 DEF Establish, Collected, Wanted, KeySize
  <1>2. PICK x \in PrivateKeys :
           /\ ServerSends(c, KeyBytes(PublicKey(x)))
           /\ key' = [key EXCEPT ![c].server = EstablishedKey(x, KeyOf(got))]
    BY <1>0 DEF Establish
  <1>3. /\ c \in Clients /\ accepted[c] = "open"
        /\ \A y \in Clients \ {c} : accepted[y] # "open"
        /\ EndOK(c) /\ Stages(c) /\ Excused(c)
        /\ client[c] # "idle" /\ client[c] # "connected"
    BY <1>0, <1>1, Served
  <1>4. /\ client[c] \notin {"certificate", "sendKey", "signature"}
        /\ client[c] = "serverKey" =>
              /\ SetupOK /\ private[c] \in PrivateKeys /\ up[c] = <<>> /\ down[c] = <<>>
              /\ got = m
    <2>1. Len(<<>>) = 0 /\ \A y : Len(<<y>>) = 1
      OBVIOUS
    <2>2. got # <<>> /\ \A y : got # <<y>>
      BY <1>1, <2>1
    <2> HIDE DEF m
    <2> QED
      BY <1>1, <1>3, <2>2 DEF Stages, AtCertificate, AtSignature, AtSendKey, AtServerKey,
                              Gathered, Open, Halves, m
  <1>5. Shapes' /\ \A y \in Clients \ {c} : SameFor(y)
    BY <1>1, <1>2 DEF Inductive, Shapes, SameFor, fixed, ServerSends
  <1>6. accepted'[c] = "inserted" /\ \A y \in Clients : accepted'[y] # "open"
    BY <1>1, <1>3 DEF Inductive, Shapes
  <1>7. ServerOK'
    BY <1>1, <1>6 DEF ServerOK
  <1>8. EndOK(c)' /\ Excused(c)'
    <2>1. left[c] # "open" => down'[c] = down[c]
      BY <1>2, <1>3 DEF ServerSends, Inductive, Shapes
    <2> QED
      BY <1>1, <1>3, <1>6, <2>1 DEF EndOK, Excused, fixed, Good
  <1>9. ASSUME client[c] = "serverKey" PROVE AtServerKey(c)'
    <2>1. left[c] = "open"
      BY <1>3, <1>9 DEF EndOK, Waiting
    <2>2. <<>> \o KeyBytes(PublicKey(x)) = KeyBytes(PublicKey(x))
      BY Joined DEF KeyBytes
    <2>3. down'[c] = KeyBytes(PublicKey(x))
      BY <1>2, <1>3, <1>4, <1>9, <2>1, <2>2 DEF ServerSends, Inductive, Shapes
    <2>4. KeyOf(got) = PublicKey(private[c])
      BY <1>4, <1>9, PublicKeys, KeyOfBytes
    <2>5. key'[c].server = EstablishedKey(x, PublicKey(private[c]))
      BY <1>2, <1>3, <2>4 DEF Inductive, Shapes
    <2>6. Replied(c, x)'
      BY <1>1, <2>3, <2>5 DEF Replied
    <2> QED
      BY <1>1, <1>4, <1>6, <1>9, <2>6 DEF AtServerKey, SetupOK, fixed, Good
  <1>10. Stages(c)'
    BY <1>1, <1>3, <1>4, <1>9 DEF Stages
  <1>11. Local(c)'
    BY <1>8, <1>10 DEF Local
  <1> QED
    BY <1>1, <1>3, <1>5, <1>7, <1>11, ServerKeeps

-----------------------------------------------------------------------------
(* The invariant holds initially.                                          *)
LEMMA InductiveInit == HandshakeInit => Inductive
  <1> SUFFICES ASSUME HandshakeInit PROVE Inductive
    OBVIOUS
  <1>1. Shapes
    BY DEF HandshakeInit, Shapes
  <1>2. ServerOK
    BY DEF HandshakeInit, ServerOK
  <1>3. ASSUME NEW c \in Clients PROVE Local(c)
    BY DEF HandshakeInit, Local, EndOK, Stages, Excused, Waiting, Ended
  <1> QED
    BY <1>1, <1>2, <1>3 DEF Inductive

(* Every step keeps the invariant.                                         *)
LEMMA InductiveNext == Inductive /\ [HandshakeNext]_handshakeVars => Inductive'
  <1> SUFFICES ASSUME Inductive, [HandshakeNext]_handshakeVars PROVE Inductive'
    OBVIOUS
  <1>1. ASSUME NEW c \in Clients, NEW k \in 1 .. Len(down[c]),
               ReceiveCertificate(c, k) \/ ReceiveSignature(c, k) \/ ReceiveKey(c, k)
        PROVE  Inductive'
    BY <1>1, ReceiveCertificateKeeps, ReceiveSignatureKeeps, ReceiveKeyKeeps
  <1>2. ASSUME NEW c \in Clients,
               Dial(c) \/ SendKey(c) \/ ClientReceivesNothing(c) \/ Die(c) \/ Stop(c) \/ Accept(c)
        PROVE  Inductive'
    BY <1>2, DialKeeps, SendKeyKeeps, ReceiveNothingKeeps, DieKeeps, StopKeeps, AcceptKeeps
  <1>3. ASSUME NEW k \in 1 .. KeySize, ReceiveBytes(k)
        PROVE  Inductive'
    BY <1>3, ReceiveBytesKeeps
  <1>4. CASE ReceiveEnd \/ ReceiveErrorFails \/ ReceiveErrorExits \/ Sign \/ Establish
    BY <1>4, ReceiveEndKeeps, ReceiveErrorExitsKeeps, SignKeeps, EstablishKeeps
  <1>5. CASE UNCHANGED handshakeVars
    <2>1. Shapes' /\ ServerOK'
      BY <1>5 DEF handshakeVars, fixed, serverVars, Inductive, Shapes, ServerOK
    <2>2. \A x \in Clients : Local(x)'
      <3>1. ASSUME NEW x \in Clients PROVE SameFor(x)
        BY <1>5 DEF handshakeVars, serverVars, SameFor
      <3> QED
        <4>1. /\ UNCHANGED fixed /\ cut \subseteq cut' /\ killed \subseteq killed'
              /\ UNCHANGED <<server, got>>
          BY <1>5 DEF handshakeVars, serverVars, fixed
        <4> QED
          BY <3>1, <4>1, OthersKeep DEF Inductive
    <2> QED
      BY <2>1, <2>2 DEF Inductive
  <1> QED
    BY <1>1, <1>2, <1>3, <1>4, <1>5 DEF HandshakeNext, ClientStep, ServerStep

(* Where each client is in connect(), where the server is in the accept    *)
(* loop, and what is on its way between them fit each other, at any number *)
(* of clients, whatever a recv() returns and whoever is killed or stopped. *)
THEOREM InductiveInvariant == HandshakeSpec => []Inductive
  BY InductiveInit, InductiveNext, PTL DEF HandshakeSpec

(* Since phase 3 a client is connected only to a server whose certificate  *)
(* is from the CA and for its address, and that signed this client's       *)
(* challenge (NetworkHandler.cpp:77-121).                                  *)
THEOREM OnlyAuthenticated == HandshakeSpec => []Authenticated
  <1>1. Inductive => Authenticated
    <2> SUFFICES ASSUME Inductive, NEW c \in Clients, client[c] = "connected", phase > 2
                 PROVE  setup = Good
      BY DEF Authenticated
    <2>1. AtConnected(c)
      BY DEF Inductive, Local, Stages
    <2> QED
      BY <2>1 DEF AtConnected, SetupOK
  <1> QED
    BY <1>1, InductiveInvariant, PTL

(* No handshake fails by itself, and the server ends only since phase 5    *)
(* and only on a reset by a client that left a message unread or was       *)
(* killed (NetworkHandler.cpp:25-45).                                      *)
THEOREM FailuresExplained == HandshakeSpec => []FailureExplained
  <1>1. Inductive => FailureExplained
    <2> SUFFICES ASSUME Inductive PROVE FailureExplained
      OBVIOUS
    <2>1. ASSUME NEW c \in Clients, client[c] \in {"failed", "exited"}
          PROVE  c \in cut \cup killed \/ (phase > 2 /\ setup # Good) \/ server = "exited"
      <3>1. Excused(c)
        BY DEF Inductive, Local
      <3> QED
        BY <2>1, <3>1 DEF Excused
    <2>2. ASSUME server = "exited"
          PROVE  phase > 4 /\ \E c \in Clients : left[c] = "reset" /\ c \in cut \cup killed
      <3>1. serving \in Clients /\ phase > 4 /\ left[serving] = "reset" /\ Excused(serving)
        BY <2>2 DEF Inductive, ServerOK, Local
      <3> QED
        BY <3>1 DEF Excused
    <2> QED
      BY <2>1, <2>2 DEF FailureExplained
  <1> QED
    BY <1>1, InductiveInvariant, PTL

(* A client that is connected is in the server's table, and both derived   *)
(* the same key: the generator raised to both private keys, for any        *)
(* modulus, generator and private keys (DHKeyExchange.cc:122-199).         *)
THEOREM BothDerive == HandshakeSpec => []KeysAgree
  <1>1. Inductive => KeysAgree
    <2> SUFFICES ASSUME Inductive, NEW c \in Clients, client[c] = "connected"
                 PROVE  /\ accepted[c] = "inserted"
                        /\ key[c].client = key[c].server
                        /\ \E x \in PrivateKeys :
                              key[c].client = DeriveKey(Power(Power(Generator, x), private[c]))
      BY DEF KeysAgree
    <2>1. AtConnected(c)
      BY DEF Inductive, Local, Stages
    <2>2. PICK x \in PrivateKeys : Agreed(c, x)
      BY <2>1 DEF AtConnected
    <2> DEFINE y == private[c]
    <2>3. y \in PrivateKeys /\ accepted[c] = "inserted"
      BY <2>1 DEF AtConnected
    <2>4. /\ key[c].client = EstablishedKey(y, PublicKey(x))
          /\ key[c].server = EstablishedKey(x, PublicKey(y))
      BY <2>2 DEF Agreed
    <2> HIDE DEF y
    <2>5. x \in Nat /\ y \in Nat /\ Generator \in Nat
      BY <2>3, HandshakeAssumption, DHAssumption
    <2>6. /\ PublicKey(x) = Power(Generator, x) /\ PublicKey(x) \in Nat
          /\ PublicKey(y) = Power(Generator, y) /\ PublicKey(y) \in Nat
      BY <2>3, PublicKeys
    <2>7. /\ SharedSecret(y, PublicKey(x)) = Power(Power(Generator, x), y)
          /\ SharedSecret(x, PublicKey(y)) = Power(Power(Generator, y), x)
      BY <2>5, <2>6, ModExpIsPower DEF SharedSecret
    <2>8. Power(Power(Generator, x), y) = Power(Power(Generator, y), x)
      BY <2>5, PowersCommute
    <2> QED
      BY <2>3, <2>4, <2>7, <2>8 DEF EstablishedKey, y
  <1> QED
    BY <1>1, InductiveInvariant, PTL

-----------------------------------------------------------------------------
(***************************************************************************)
(* Codec and Transport.                                                    *)
(***************************************************************************)

(* Sequences.                                                              *)

(* What stands before a sequence can be taken off it again.                *)
LEMMA TakenOff ==
    ASSUME NEW C, NEW x \in C, NEW s \in Seq(C)
    PROVE  /\ <<x>> \o s \in Seq(C) /\ <<x>> \o s # <<>>
           /\ Len(<<x>> \o s) = Len(s) + 1
           /\ Head(<<x>> \o s) = x /\ Tail(<<x>> \o s) = s
  <1>1. <<x>> \in Seq(C) /\ Len(<<x>>) = 1 /\ <<x>>[1] = x
    OBVIOUS
  <1>2. /\ <<x>> \o s \in Seq(C) /\ Len(<<x>> \o s) = 1 + Len(s)
        /\ \A i \in 1 .. 1 + Len(s) : (<<x>> \o s)[i] = IF i <= 1 THEN <<x>>[i] ELSE s[i - 1]
    BY <1>1, ConcatProperties
  <1>3. Len(s) \in Nat
    BY LenProperties
  <1>4. <<x>> \o s # <<>>
    BY <1>2, <1>3, EmptySeq
  <1>5. Head(<<x>> \o s) = x
    BY <1>1, <1>2, <1>3
  <1>6. Tail(<<x>> \o s) = s
    <2>1. /\ Tail(<<x>> \o s) \in Seq(C) /\ Len(Tail(<<x>> \o s)) = Len(s)
          /\ \A i \in 1 .. Len(s) : Tail(<<x>> \o s)[i] = (<<x>> \o s)[i + 1]
      BY <1>2, <1>3, <1>4, HeadTailProperties
    <2>2. \A i \in 1 .. Len(s) : (<<x>> \o s)[i + 1] = s[i]
      <3> TAKE i \in 1 .. Len(s)
      <3>1. i + 1 \in 1 .. 1 + Len(s) /\ ~(i + 1 <= 1) /\ (i + 1) - 1 = i
        BY <1>3
      <3> QED
        BY <1>2, <3>1
    <2> QED
      BY <2>1, <2>2, SeqEqual
  <1> QED
    BY <1>2, <1>3, <1>4, <1>5, <1>6

(* A sequence that is put together is taken apart where it was joined.     *)
LEMMA TakenApart ==
    ASSUME NEW C, NEW s \in Seq(C), NEW t \in Seq(C)
    PROVE  /\ SubSeq(s \o t, 1, Len(s)) = s
           /\ SubSeq(s \o t, Len(s) + 1, Len(s \o t)) = t
  <1> DEFINE m == Len(s)
             n == Len(t)
             q == s \o t
  <1>1. m \in Nat /\ n \in Nat
    BY LenProperties
  <1>2. /\ q \in Seq(C) /\ Len(q) = m + n
        /\ \A i \in 1 .. m + n : q[i] = IF i <= m THEN s[i] ELSE t[i - m]
        /\ \A i \in 1 .. m + n : q[i] \in C
    BY ConcatProperties, ElementOfSeq
  <1> HIDE DEF q
  <1>3. SubSeq(q, 1, m) = s
    <2>1. \A i \in 1 .. m : q[i] \in C
      BY <1>1, <1>2
    <2>2. /\ SubSeq(q, 1, m) \in Seq(C) /\ Len(SubSeq(q, 1, m)) = IF 1 <= m THEN m - 1 + 1 ELSE 0
          /\ \A i \in 1 .. m - 1 + 1 : SubSeq(q, 1, m)[i] = q[1 + i - 1]
      BY <1>1, <2>1, SubSeqProperties
    <2>3. Len(SubSeq(q, 1, m)) = m /\ \A i \in 1 .. m : SubSeq(q, 1, m)[i] = s[i]
      BY <1>1, <1>2, <2>2
    <2> QED
      BY <2>2, <2>3, SeqEqual
  <1>4. SubSeq(q, m + 1, m + n) = t
    <2>1. \A i \in m + 1 .. m + n : q[i] \in C
      BY <1>1, <1>2
    <2>2. /\ SubSeq(q, m + 1, m + n) \in Seq(C)
          /\ Len(SubSeq(q, m + 1, m + n)) = IF m + 1 <= m + n THEN (m + n) - (m + 1) + 1 ELSE 0
          /\ \A i \in 1 .. (m + n) - (m + 1) + 1 :
                SubSeq(q, m + 1, m + n)[i] = q[(m + 1) + i - 1]
      BY <1>1, <2>1, SubSeqProperties
    <2>3. Len(SubSeq(q, m + 1, m + n)) = n
      BY <1>1, <2>2
    <2>4. ASSUME NEW i \in 1 .. n PROVE SubSeq(q, m + 1, m + n)[i] = t[i]
      <3>1. /\ i \in 1 .. (m + n) - (m + 1) + 1 /\ (m + 1) + i - 1 = m + i
            /\ m + i \in 1 .. m + n /\ ~(m + i <= m) /\ (m + i) - m = i
        BY <1>1
      <3> QED
        BY <1>2, <2>2, <3>1
    <2> QED
      BY <2>2, <2>3, <2>4, SeqEqual
  <1> QED
    BY <1>2, <1>3, <1>4 DEF q

(* One sequence behind another, for the provers to leave as it is.         *)
Join(s, t) == s \o t

(* What is behind the first n.                                             *)
After(s, n) == SubSeq(s, n + 1, Len(s))

(* What is put behind a sequence is not in its beginnings.                 *)
LEMMA Longer ==
    ASSUME NEW C, NEW s \in Seq(C), NEW y \in Seq(C), NEW n \in 0 .. Len(s)
    PROVE  /\ SubSeq(s, 1, n) \in Seq(C) /\ Len(SubSeq(s, 1, n)) = n
           /\ After(s, n) \in Seq(C)
           /\ Join(SubSeq(s, 1, n), After(s, n)) = s
           /\ SubSeq(Join(s, y), 1, n) = SubSeq(s, 1, n)
           /\ After(Join(s, y), n) = Join(After(s, n), y)
  <1> DEFINE a == SubSeq(s, 1, n)
             b == SubSeq(s, n + 1, Len(s))
  <1>1. Len(s) \in Nat /\ \A i \in 1 .. Len(s) : s[i] \in C
    BY LenProperties, ElementOfSeq
  <1>2. a \in Seq(C) /\ b \in Seq(C) /\ Len(a) = n
    <2>1. \A i \in 1 .. n : s[i] \in C
      BY <1>1
    <2>2. \A i \in n + 1 .. Len(s) : s[i] \in C
      BY <1>1
    <2> QED
      BY <1>1, <2>1, <2>2, SubSeqProperties
  <1>3. a \o b = s
    <2>1. SubSeq(s, 1, Len(s)) = s
      BY SubSeqFull
    <2>2. 1 \in 1 .. Len(s) + 1 /\ n \in 1 - 1 .. Len(s) /\ Len(s) \in n .. Len(s)
      BY <1>1
    <2> QED
      BY <2>1, <2>2, ConcatAdjacentSubSeq
  <1> HIDE DEF a, b
  <1>4. b \o y \in Seq(C)
    BY <1>2, ConcatProperties
  <1>5. s \o y = a \o (b \o y)
    <2>1. a \in Seq(C) /\ b \in Seq(C) /\ y \in Seq(C)
      BY <1>2
    <2>2. (a \o b) \o y = a \o (b \o y)
      BY ONLY <2>1, ConcatAssociative
    <2> QED
      BY <1>3, <2>2, Zenon
  <1>6. SubSeq(s \o y, 1, n) = a /\ SubSeq(s \o y, n + 1, Len(s \o y)) = b \o y
    <2> DEFINE t == b \o y
    <2>1. t \in Seq(C)
      BY <1>4
    <2> HIDE DEF t
    <2>2. SubSeq(a \o t, 1, Len(a)) = a /\ SubSeq(a \o t, Len(a) + 1, Len(a \o t)) = t
      BY <1>2, <2>1, TakenApart, Zenon
    <2>3. s \o y = a \o t
      BY <1>5 DEF t
    <2> QED
      BY <1>2, <2>2, <2>3, Zenon DEF t
  <1>7. SubSeq(Join(s, y), 1, n) = a /\ SubSeq(Join(s, y), n + 1, Len(Join(s, y))) = Join(b, y)
    BY <1>6 DEF Join
  <1> QED
    BY <1>2, <1>3, <1>7 DEF a, b, Join, After

(* Joining is associative.                                                 *)
LEMMA Joins ==
    \A C : \A x, y, z \in Seq(C) :
        Join(x, y) \in Seq(C) /\ Join(Join(x, y), z) = Join(x, Join(y, z))
  BY ConcatAssociative, ConcatProperties DEF Join

-----------------------------------------------------------------------------
(* What is read of what was written.                                       *)

(* The parts of what a reader returns.                                     *)
LEMMA Parts ==
    /\ \A v, r : Read(v, r).val = v /\ Read(v, r).rest = r /\ Read(v, r).ok = TRUE
    /\ Junk.ok = FALSE
  BY DEF Read, Junk

(* The number, or whatever else, that comes first is read first.           *)
LEMMA FirstRead ==
    ASSUME NEW C, NEW r \in Seq(C)
    PROVE  /\ \A x \in C : ReadOne(Join(<<x>>, r)) = Read(x, r)
           /\ \A n : Num(n) \in C => ReadNum(Join(<<Num(n)>>, r)) = Read(n, r)
           /\ \A x \in C : Join(<<x>>, r) \in Seq(C) /\ <<x>> \in Seq(C)
  <1>1. \A x \in C : /\ Join(<<x>>, r) \in Seq(C) /\ <<x>> \in Seq(C)
                     /\ Join(<<x>>, r) # <<>>
                     /\ Head(Join(<<x>>, r)) = x /\ Tail(Join(<<x>>, r)) = r
    BY TakenOff DEF Join
  <1>2. \A n : Num(n)[1] = "num" /\ Num(n)[2] = n
    BY DEF Num
  <1> QED
    BY <1>1, <1>2 DEF ReadOne, ReadNum

(* What was written behind its size is read whole.                         *)
LEMMA SizedRead ==
    ASSUME NEW C, NEW x \in Seq(C), NEW r \in Seq(C), Num(Len(x)) \in C
    PROVE  /\ Sized(x) \in Seq(C)
           /\ ReadSized(Join(Sized(x), r)) = Read(x, r)
  <1> DEFINE n == <<Num(Len(x))>>
             t == Join(x, r)
  <1>1. n \in Seq(C) /\ Sized(x) = Join(n, x)
    BY DEF Sized, Join
  <1>2. t \in Seq(C) /\ Join(n, x) \in Seq(C)
    BY <1>1, Joins
  <1>3. Join(Sized(x), r) = Join(n, t)
    <2> HIDE DEF n
    <2> QED
      BY <1>1, Joins
  <1>4. ReadNum(Join(n, t)) = Read(Len(x), t)
    BY <1>2, FirstRead
  <1>5. SubSeq(t, 1, Len(x)) = x /\ SubSeq(t, Len(x) + 1, Len(t)) = r
    BY TakenApart DEF Join
  <1>6. Len(x) <= Len(t)
    BY ConcatProperties, LenProperties DEF Join
  <1> HIDE DEF n, t
  <1>7. ReadNum(Join(Sized(x), r)) = Read(Len(x), t)
    BY <1>3, <1>4
  <1> HIDE DEF Join
  <1>8. ReadSized(Join(Sized(x), r)) = Read(SubSeq(t, 1, Len(x)), SubSeq(t, Len(x) + 1, Len(t)))
    BY ONLY <1>6, <1>7, Parts DEF ReadSized
  <1>9. Sized(x) \in Seq(C)
    BY <1>1, <1>2
  <1> QED
    BY <1>5, <1>8, <1>9

-----------------------------------------------------------------------------
(* What is read one after the other: the functions that ReadFields and     *)
(* ReadStrings are defined with, up to any number, exist.                  *)

(* One field more; a string is one.                                        *)
NextField(r, kind) == Another(r, ReadKind(kind, r.rest))

(* The i-th of the readers takes w[i] off, and makes u[i] of it.           *)
Takes(C, n, kinds, w, u) ==
    \A i \in 1 .. n : \A t \in Seq(C) : ReadKind(kinds[i], Join(w[i], t)) = Read(u[i], t)

(* f is what has been read after each field.                               *)
OneByOne(f, n, kinds) == \A i \in 1 .. n : f[i] = NextField(f[i - 1], kinds[i])

(* What ReadFields has read after each number of fields.                   *)
LEMMA FieldsDefined ==
    ASSUME NEW kinds, NEW cells, Len(kinds) \in Nat
    PROVE  \E f : /\ f[0] = Read(<<>>, cells)
                  /\ \A i \in 1 .. Len(kinds) : f[i] = NextField(f[i - 1], kinds[i])
                  /\ ReadFields(kinds, cells) = f[Len(kinds)]
  <1> DEFINE Rec(f, n) == f = [i \in 0 .. n |->
                                  IF i = 0 THEN Read(<<>>, cells)
                                  ELSE Another(f[i - 1], ReadKind(kinds[i], f[i - 1].rest))]
             T == {n \in Nat : \E f : Rec(f, n)}
  <1>1. 0 \in T
    <2> DEFINE f == [i \in 0 .. 0 |-> Read(<<>>, cells)]
    <2>1. Rec(f, 0)
      OBVIOUS
    <2> HIDE DEF Rec
    <2> QED
      BY <2>1
  <1>2. ASSUME NEW n \in T PROVE n + 1 \in T
    <2>1. n \in Nat /\ n + 1 \in Nat
      OBVIOUS
    <2>2. PICK f : Rec(f, n)
      <3> HIDE DEF Rec
      <3> QED
        OBVIOUS
    <2> DEFINE g == [i \in 0 .. n + 1 |-> IF i <= n THEN f[i] ELSE NextField(f[n], kinds[n + 1])]
    <2>3. ASSUME NEW i \in 0 .. n + 1
          PROVE  g[i] = IF i = 0 THEN Read(<<>>, cells)
                        ELSE Another(g[i - 1], ReadKind(kinds[i], g[i - 1].rest))
      <3>1. CASE i = 0
        BY <2>1, <2>2, <3>1
      <3>2. CASE i # 0 /\ i <= n
        <4>1. i - 1 \in 0 .. n + 1 /\ i - 1 <= n /\ i \in 0 .. n
          BY <2>1, <3>2
        <4>2. g[i - 1] = f[i - 1] /\ g[i] = f[i]
          BY <3>2, <4>1
        <4>3. f[i] = Another(f[i - 1], ReadKind(kinds[i], f[i - 1].rest))
          BY <2>2, <3>2, <4>1
        <4> HIDE DEF g
        <4> QED
          BY <3>2, <4>2, <4>3
      <3>3. CASE ~(i <= n)
        <4>1. i = n + 1 /\ i # 0 /\ i - 1 = n /\ n \in 0 .. n + 1 /\ n <= n
          BY <2>1, <3>3
        <4>2. g[n] = f[n] /\ g[i] = NextField(f[n], kinds[n + 1])
          BY <3>3, <4>1
        <4> HIDE DEF g
        <4> QED
          BY <4>1, <4>2 DEF NextField
      <3> QED
        BY <3>1, <3>2, <3>3
    <2>4. Rec(g, n + 1)
      <3> DEFINE h == [i \in 0 .. n + 1 |-> IF i = 0 THEN Read(<<>>, cells)
                                  ELSE Another(g[i - 1], ReadKind(kinds[i], g[i - 1].rest))]
      <3>1. g = h
        <4>1. \A i \in 0 .. n + 1 : g[i] = h[i]
          <5> HIDE DEF g
          <5> QED
            BY <2>3
        <4>2. DOMAIN g = 0 .. n + 1 /\ DOMAIN h = 0 .. n + 1
          OBVIOUS
        <4>3. g = [i \in 0 .. n + 1 |-> g[i]] /\ h = [i \in 0 .. n + 1 |-> h[i]]
          OBVIOUS
        <4> HIDE DEF g, h
        <4> QED
          BY <4>1, <4>3
      <3> HIDE DEF g
      <3> QED
        BY <3>1
    <2> HIDE DEF Rec, g
    <2> QED
      BY <2>1, <2>4
  <1>3. T = Nat
    <2> T \subseteq Nat
      OBVIOUS
    <2> HIDE DEF T
    <2> QED
      BY <1>1, <1>2, NatSet
  <1> DEFINE f == CHOOSE f : Rec(f, Len(kinds))
  <1>4. Rec(f, Len(kinds))
    <2>1. \E h : Rec(h, Len(kinds))
      <3> HIDE DEF Rec
      <3> QED
        BY <1>3
    <2> HIDE DEF Rec
    <2> QED
      BY <2>1
  <1>5. ReadFields(kinds, cells) = f[Len(kinds)]
    BY DEF ReadFields
  <1> HIDE DEF f
  <1>6. f[0] = Read(<<>>, cells)
    BY <1>4
  <1>7. ASSUME NEW i \in 1 .. Len(kinds) PROVE f[i] = NextField(f[i - 1], kinds[i])
    <2>1. i \in 0 .. Len(kinds) /\ i # 0
      OBVIOUS
    <2> QED
      BY <1>4, <2>1 DEF NextField
  <1> HIDE DEF Rec
  <1> QED
    BY <1>5, <1>6, <1>7

(* What ReadStrings has read after each number of strings.                 *)
LEMMA StringsDefined ==
    ASSUME NEW cells, NEW size, size = ReadNum(cells), size.ok, size.val \in Nat
    PROVE  \E f : /\ f[0] = Read(<<>>, size.rest)
                  /\ \A i \in 1 .. size.val : f[i] = NextField(f[i - 1], "sized")
                  /\ ReadStrings(cells) = f[size.val]
  <1> DEFINE Rec(f, n) == f = [i \in 0 .. n |->
                                  IF i = 0 THEN Read(<<>>, size.rest)
                                  ELSE Another(f[i - 1], ReadSized(f[i - 1].rest))]
             T == {n \in Nat : \E f : Rec(f, n)}
  <1>1. 0 \in T
    <2> DEFINE f == [i \in 0 .. 0 |-> Read(<<>>, size.rest)]
    <2>1. Rec(f, 0)
      OBVIOUS
    <2> HIDE DEF Rec
    <2> QED
      BY <2>1
  <1>2. ASSUME NEW n \in T PROVE n + 1 \in T
    <2>1. n \in Nat /\ n + 1 \in Nat
      OBVIOUS
    <2>2. PICK f : Rec(f, n)
      <3> HIDE DEF Rec
      <3> QED
        OBVIOUS
    <2> DEFINE g == [i \in 0 .. n + 1 |-> IF i <= n THEN f[i] ELSE NextField(f[n], "sized")]
    <2>3. ASSUME NEW i \in 0 .. n + 1
          PROVE  g[i] = IF i = 0 THEN Read(<<>>, size.rest)
                        ELSE Another(g[i - 1], ReadSized(g[i - 1].rest))
      <3>1. CASE i = 0
        BY <2>1, <2>2, <3>1
      <3>2. CASE i # 0 /\ i <= n
        <4>1. i - 1 \in 0 .. n + 1 /\ i - 1 <= n /\ i \in 0 .. n
          BY <2>1, <3>2
        <4>2. g[i - 1] = f[i - 1] /\ g[i] = f[i]
          BY <3>2, <4>1
        <4>3. f[i] = Another(f[i - 1], ReadSized(f[i - 1].rest))
          BY <2>2, <3>2, <4>1
        <4> HIDE DEF g
        <4> QED
          BY <3>2, <4>2, <4>3
      <3>3. CASE ~(i <= n)
        <4>1. i = n + 1 /\ i # 0 /\ i - 1 = n /\ n \in 0 .. n + 1 /\ n <= n
          BY <2>1, <3>3
        <4>2. g[n] = f[n] /\ g[i] = NextField(f[n], "sized")
          BY <3>3, <4>1
        <4> HIDE DEF g
        <4> QED
          BY <4>1, <4>2 DEF NextField, ReadKind
      <3> QED
        BY <3>1, <3>2, <3>3
    <2>4. Rec(g, n + 1)
      <3> DEFINE h == [i \in 0 .. n + 1 |-> IF i = 0 THEN Read(<<>>, size.rest)
                                  ELSE Another(g[i - 1], ReadSized(g[i - 1].rest))]
      <3>1. g = h
        <4>1. \A i \in 0 .. n + 1 : g[i] = h[i]
          <5> HIDE DEF g
          <5> QED
            BY <2>3
        <4>2. DOMAIN g = 0 .. n + 1 /\ DOMAIN h = 0 .. n + 1
          OBVIOUS
        <4>3. g = [i \in 0 .. n + 1 |-> g[i]] /\ h = [i \in 0 .. n + 1 |-> h[i]]
          OBVIOUS
        <4> HIDE DEF g, h
        <4> QED
          BY <4>1, <4>3
      <3> HIDE DEF g
      <3> QED
        BY <3>1
    <2> HIDE DEF Rec, g
    <2> QED
      BY <2>1, <2>4
  <1>3. T = Nat
    <2> T \subseteq Nat
      OBVIOUS
    <2> HIDE DEF T
    <2> QED
      BY <1>1, <1>2, NatSet
  <1> DEFINE f == CHOOSE f : Rec(f, size.val)
  <1>4. Rec(f, size.val)
    <2>1. \E h : Rec(h, size.val)
      <3> HIDE DEF Rec
      <3> QED
        BY <1>3
    <2> HIDE DEF Rec
    <2> QED
      BY <2>1
  <1>5. ReadStrings(cells) = f[size.val]
    BY DEF ReadStrings
  <1> HIDE DEF f
  <1>6. f[0] = Read(<<>>, size.rest)
    BY <1>4
  <1>7. ASSUME NEW i \in 1 .. size.val PROVE f[i] = NextField(f[i - 1], "sized")
    <2>1. i \in 0 .. size.val /\ i # 0
      OBVIOUS
    <2> QED
      BY <1>4, <2>1 DEF NextField, ReadKind
  <1> HIDE DEF Rec
  <1> QED
    BY <1>5, <1>6, <1>7
-----------------------------------------------------------------------------
(* FlattenSeq: it joins one sequence after the other, which is the first   *)
(* before what the others give, and what the others give before the last.  *)

(* What has been joined after each of the sequences.                       *)
LEMMA FlattenDefined ==
    ASSUME NEW C, NEW s \in Seq(Seq(C)), s # <<>>
    PROVE  \E f : /\ f[1] = s[1]
                  /\ \A i \in 2 .. Len(s) : f[i] = Join(f[i - 1], s[i])
                  /\ \A i \in 1 .. Len(s) : f[i] \in Seq(C)
                  /\ FlattenSeq(s) = f[Len(s)]
  <1> DEFINE Rec(f, n) == f = [i \in 1 .. n |-> IF i = 1 THEN s[i] ELSE f[i - 1] \o s[i]]
             T == {n \in Nat : n \in 1 .. Len(s) => \E f \in [1 .. n -> Seq(C)] : Rec(f, n)}
  <1>0. Len(s) \in Nat \ {0} /\ \A i \in 1 .. Len(s) : s[i] \in Seq(C)
    BY EmptySeq, ElementOfSeq
  <1>1. 0 \in T
    OBVIOUS
  <1>2. ASSUME NEW n \in T PROVE n + 1 \in T
    <2>1. n \in Nat /\ n + 1 \in Nat
      OBVIOUS
    <2> SUFFICES ASSUME n + 1 \in 1 .. Len(s)
                 PROVE  \E f \in [1 .. n + 1 -> Seq(C)] : Rec(f, n + 1)
      <3> HIDE DEF Rec
      <3> QED
        BY <2>1
    <2>2. CASE n = 0
      <3> DEFINE f == [i \in 1 .. 1 |-> s[i]]
      <3>1. Rec(f, 1) /\ f \in [1 .. 1 -> Seq(C)]
        BY <1>0
      <3> HIDE DEF f, Rec
      <3> QED
        BY <2>2, <3>1
    <2>3. CASE n # 0
      <3>1. PICK f \in [1 .. n -> Seq(C)] : Rec(f, n)
        <4> HIDE DEF Rec
        <4>1. n \in 1 .. Len(s)
          BY <1>0, <2>1, <2>3
        <4> QED
          BY <4>1
      <3> DEFINE g == [i \in 1 .. n + 1 |-> IF i <= n THEN f[i] ELSE Join(f[n], s[n + 1])]
      <3>2. n \in 1 .. n /\ f[n] \in Seq(C) /\ s[n + 1] \in Seq(C)
        BY <1>0, <2>1, <2>3
      <3>3. Join(f[n], s[n + 1]) \in Seq(C)
        BY <3>2, Joins
      <3>4. g \in [1 .. n + 1 -> Seq(C)]
        BY <2>1, <3>3
      <3>5. ASSUME NEW i \in 1 .. n + 1
            PROVE  g[i] = IF i = 1 THEN s[i] ELSE g[i - 1] \o s[i]
        <4>1. CASE i <= n
          <5>1. i \in 1 .. n /\ g[i] = f[i]
            BY <2>1, <4>1
          <5>2. i # 1 => i - 1 \in 1 .. n /\ i - 1 <= n /\ i - 1 \in 1 .. n + 1
            BY <2>1, <4>1
          <5>3. i # 1 => g[i - 1] = f[i - 1]
            BY <5>2
          <5>4. f[i] = IF i = 1 THEN s[i] ELSE f[i - 1] \o s[i]
            BY <3>1, <5>1
          <5> HIDE DEF g
          <5> QED
            BY <5>1, <5>3, <5>4
        <4>2. CASE ~(i <= n)
          <5>1. i = n + 1 /\ i # 1 /\ i - 1 = n /\ n <= n /\ n \in 1 .. n + 1
            BY <2>1, <2>3, <4>2
          <5>2. g[i] = Join(f[n], s[n + 1]) /\ g[n] = f[n]
            BY <4>2, <5>1
          <5> HIDE DEF g
          <5> QED
            BY <5>1, <5>2 DEF Join
        <4> QED
          BY <4>1, <4>2
      <3>6. Rec(g, n + 1)
        <4> HIDE DEF g
        <4> DEFINE h == [i \in 1 .. n + 1 |-> IF i = 1 THEN s[i] ELSE g[i - 1] \o s[i]]
        <4>1. \A i \in 1 .. n + 1 : g[i] = h[i]
          BY <3>5
        <4>2. g = [i \in 1 .. n + 1 |-> g[i]] /\ h = [i \in 1 .. n + 1 |-> h[i]]
          BY <3>4
        <4>3. g = h
          <5> HIDE DEF h
          <5> QED
            BY <4>1, <4>2
        <4> QED
          BY <4>3
      <3> HIDE DEF Rec, g
      <3> QED
        BY <3>4, <3>6
    <2> HIDE DEF Rec
    <2> QED
      BY <2>2, <2>3
  <1>3. T = Nat
    <2> T \subseteq Nat
      OBVIOUS
    <2> HIDE DEF T
    <2> QED
      BY <1>1, <1>2, NatSet
  <1> DEFINE f == CHOOSE f : Rec(f, Len(s))
  <1>4. Rec(f, Len(s))
    <2>1. \E h \in [1 .. Len(s) -> Seq(C)] : Rec(h, Len(s))
      <3> HIDE DEF Rec
      <3>1. Len(s) \in T
        <4> HIDE DEF T
        <4> QED
          BY <1>0, <1>3
      <3>2. Len(s) \in 1 .. Len(s)
        BY <1>0
      <3> QED
        BY <3>1, <3>2
    <2> HIDE DEF Rec
    <2> QED
      BY <2>1
  <1>5. FlattenSeq(s) = f[Len(s)]
    BY <1>0 DEF FlattenSeq
  <1> HIDE DEF f
  <1>6. f[1] = s[1]
    BY <1>0, <1>4
  <1>7. ASSUME NEW i \in 2 .. Len(s) PROVE f[i] = Join(f[i - 1], s[i])
    <2>1. i \in 1 .. Len(s) /\ i # 1
      BY <1>0
    <2> QED
      BY <1>4, <2>1 DEF Join
  <1> HIDE DEF Rec
  <1>8. \A i \in 1 .. Len(s) : f[i] \in Seq(C)
    <2> DEFINE U == {n \in Nat : n + 1 \in 1 .. Len(s) => f[n + 1] \in Seq(C)}
    <2>1. 0 \in U
      BY <1>0, <1>6
    <2>2. ASSUME NEW n \in U PROVE n + 1 \in U
      <3>1. n \in Nat /\ n + 1 \in Nat
        OBVIOUS
      <3>2. ASSUME (n + 1) + 1 \in 1 .. Len(s) PROVE f[(n + 1) + 1] \in Seq(C)
        <4>1. /\ n + 1 \in 1 .. Len(s) /\ (n + 1) + 1 \in 2 .. Len(s)
              /\ ((n + 1) + 1) - 1 = n + 1
          <5> DEFINE l == Len(s)
          <5>1. n \in Nat /\ l \in Nat /\ (n + 1) + 1 \in 1 .. l
            BY <1>0, <3>1, <3>2
          <5> HIDE DEF l
          <5>2. n + 1 \in 1 .. l /\ (n + 1) + 1 \in 2 .. l /\ ((n + 1) + 1) - 1 = n + 1
            BY ONLY <5>1
          <5> QED
            BY <5>2 DEF l
        <4>2. f[(n + 1) + 1] = Join(f[n + 1], s[(n + 1) + 1])
          BY <1>7, <4>1
        <4>3. f[n + 1] \in Seq(C) /\ s[(n + 1) + 1] \in Seq(C)
          BY <1>0, <3>2, <4>1
        <4>4. Join(f[n + 1], s[(n + 1) + 1]) \in Seq(C)
          BY ONLY <4>3, Joins
        <4> QED
          BY <4>2, <4>4, Zenon
      <3> QED
        BY <3>1, <3>2
    <2>3. U = Nat
      <3> U \subseteq Nat
        OBVIOUS
      <3> HIDE DEF U
      <3> QED
        BY <2>1, <2>2, NatSet
    <2> TAKE i \in 1 .. Len(s)
    <2>4. i - 1 \in Nat /\ (i - 1) + 1 = i
      BY <1>0
    <2> QED
      BY <2>3, <2>4
  <1> QED
    BY <1>5, <1>6, <1>7, <1>8

(* Nothing joined is empty, and what was joined is a sequence.             *)
LEMMA FlattenType ==
    ASSUME NEW C, NEW s \in Seq(Seq(C))
    PROVE  FlattenSeq(s) \in Seq(C) /\ (s = <<>> => FlattenSeq(s) = <<>>)
  <1>1. CASE s = <<>>
    BY <1>1 DEF FlattenSeq
  <1>2. CASE s # <<>>
    <2>1. Len(s) \in 1 .. Len(s)
      BY <1>2, EmptySeq
    <2> QED
      BY <1>2, <2>1, FlattenDefined
  <1> QED
    BY <1>1, <1>2

(* The first comes before the others.                                      *)
LEMMA FlattenFirst ==
    ASSUME NEW C, NEW s \in Seq(Seq(C)), s # <<>>
    PROVE  /\ s[1] \in Seq(C) /\ Tail(s) \in Seq(Seq(C))
           /\ FlattenSeq(s) = Join(s[1], FlattenSeq(Tail(s)))
  <1> DEFINE t == Tail(s)
  <1>1. /\ Len(s) \in Nat \ {0} /\ s[1] \in Seq(C)
        /\ t \in Seq(Seq(C)) /\ Len(t) = Len(s) - 1
        /\ \A i \in 1 .. Len(t) : t[i] = s[i + 1]
    <2>1. Len(s) \in Nat \ {0} /\ 1 \in 1 .. Len(s)
      BY EmptySeq
    <2> QED
      BY <2>1, HeadTailProperties, ElementOfSeq
  <1> HIDE DEF t
  <1>2. PICK f : /\ f[1] = s[1]
                 /\ \A i \in 2 .. Len(s) : f[i] = Join(f[i - 1], s[i])
                 /\ FlattenSeq(s) = f[Len(s)]
    BY FlattenDefined
  <1>3. CASE t = <<>>
    <2>1. FlattenSeq(t) = <<>>
      BY <1>1, <1>3, FlattenType
    <2>4. Len(s) = 1
      <3>1. Len(t) = 0
        BY <1>3, EmptySeq
      <3> QED
        BY <1>1, <3>1
    <2>2. FlattenSeq(s) = s[1]
      BY <1>2, <2>4
    <2>3. s[1] \o <<>> = s[1]
      BY <1>1, ConcatEmptySeq
    <2> QED
      BY <1>1, <2>1, <2>2, <2>3 DEF Join, t
  <1>4. CASE t # <<>>
    <2>1. PICK g : /\ g[1] = t[1]
                   /\ \A i \in 2 .. Len(t) : g[i] = Join(g[i - 1], t[i])
                   /\ \A i \in 1 .. Len(t) : g[i] \in Seq(C)
                   /\ FlattenSeq(t) = g[Len(t)]
      BY <1>1, <1>4, FlattenDefined
    <2>2. Len(t) \in Nat \ {0}
      BY <1>1, <1>4, EmptySeq
    <2> DEFINE U == {n \in Nat : n + 1 \in 1 .. Len(t) => f[n + 2] = Join(s[1], g[n + 1])}
    <2>3. 0 \in U
      <3>1. 1 \in 1 .. Len(t) /\ 1 + 1 = 2 /\ 2 \in 2 .. Len(s) /\ 2 - 1 = 1
        BY <1>1, <2>2
      <3>2. f[2] = Join(f[1], s[2]) /\ g[1] = s[2]
        BY <1>1, <1>2, <2>1, <3>1
      <3> QED
        BY <1>2, <3>2
    <2>4. ASSUME NEW n \in U PROVE n + 1 \in U
      <3>1. n \in Nat /\ n + 1 \in Nat
        OBVIOUS
      <3>2. ASSUME (n + 1) + 1 \in 1 .. Len(t) PROVE f[(n + 1) + 2] = Join(s[1], g[(n + 1) + 1])
        <4>1. /\ n + 1 \in 1 .. Len(t) /\ (n + 1) + 1 \in 2 .. Len(t)
              /\ ((n + 1) + 1) - 1 = n + 1 /\ (n + 1) + 2 \in 2 .. Len(s)
              /\ ((n + 1) + 2) - 1 = n + 2 /\ ((n + 1) + 1) + 1 = (n + 1) + 2
          BY <1>1, <3>1, <3>2
        <4>2. f[(n + 1) + 2] = Join(f[n + 2], s[(n + 1) + 2])
          BY <1>2, <4>1
        <4>3. f[n + 2] = Join(s[1], g[n + 1])
          BY <4>1
        <4>4. g[(n + 1) + 1] = Join(g[n + 1], t[(n + 1) + 1]) /\ t[(n + 1) + 1] = s[(n + 1) + 2]
          BY <1>1, <2>1, <3>2, <4>1
        <4>5. g[n + 1] \in Seq(C) /\ t[(n + 1) + 1] \in Seq(C)
          BY <1>1, <2>1, <3>2, <4>1, ElementOfSeq
        <4>6. Join(Join(s[1], g[n + 1]), t[(n + 1) + 1]) = Join(s[1], Join(g[n + 1], t[(n + 1) + 1]))
          <5> DEFINE a == g[n + 1]
                     b == t[(n + 1) + 1]
                     c == s[1]
          <5>1. c \in Seq(C) /\ a \in Seq(C) /\ b \in Seq(C)
            BY <1>1, <4>5
          <5> HIDE DEF a, b, c, U
          <5>2. Join(Join(c, a), b) = Join(c, Join(a, b))
            BY ONLY <5>1, Joins
          <5> QED
            BY <5>2 DEF a, b, c
        <4> QED
          BY <4>2, <4>3, <4>4, <4>6
      <3> QED
        BY <3>1, <3>2
    <2>5. U = Nat
      <3> U \subseteq Nat
        OBVIOUS
      <3> HIDE DEF U
      <3> QED
        BY <2>3, <2>4, NatSet
    <2>6. Len(t) - 1 \in U
      <3> HIDE DEF U
      <3> QED
        BY <2>2, <2>5
    <2>7. (Len(t) - 1) + 1 = Len(t) /\ Len(t) \in 1 .. Len(t) /\ (Len(t) - 1) + 2 = Len(s)
      BY <1>1, <2>2
    <2>8. f[Len(s)] = Join(s[1], g[Len(t)])
      BY <2>6, <2>7
    <2> QED
      BY <1>1, <1>2, <2>1, <2>8 DEF t
  <1> QED
    BY <1>3, <1>4

(* The last comes behind the others.                                       *)
LEMMA FlattenLast ==
    ASSUME NEW C, NEW s \in Seq(Seq(C)), NEW x \in Seq(C)
    PROVE  FlattenSeq(Append(s, x)) = Join(FlattenSeq(s), x)
  <1> DEFINE t == Append(s, x)
  <1>1. /\ t \in Seq(Seq(C)) /\ t # <<>> /\ Len(t) = Len(s) + 1 /\ Len(s) \in Nat
        /\ \A i \in 1 .. Len(s) : t[i] = s[i]
        /\ t[Len(s) + 1] = x
    BY AppendProperties, LenProperties
  <1> HIDE DEF t
  <1>2. PICK f : /\ f[1] = t[1]
                 /\ \A i \in 2 .. Len(t) : f[i] = Join(f[i - 1], t[i])
                 /\ FlattenSeq(t) = f[Len(t)]
    BY <1>1, FlattenDefined
  <1>3. CASE s = <<>>
    <2>1. Len(s) = 0 /\ FlattenSeq(s) = <<>>
      BY <1>3, FlattenType, EmptySeq
    <2>2. FlattenSeq(t) = x
      BY <1>1, <1>2, <2>1
    <2>3. <<>> \o x = x
      BY ConcatEmptySeq
    <2> QED
      BY <2>1, <2>2, <2>3 DEF Join, t
  <1>4. CASE s # <<>>
    <2>1. PICK g : /\ g[1] = s[1]
                   /\ \A i \in 2 .. Len(s) : g[i] = Join(g[i - 1], s[i])
                   /\ FlattenSeq(s) = g[Len(s)]
      BY <1>4, FlattenDefined
    <2>2. Len(s) \in Nat \ {0}
      BY <1>4, EmptySeq
    <2> DEFINE U == {n \in Nat : n + 1 \in 1 .. Len(s) => f[n + 1] = g[n + 1]}
    <2>3. 0 \in U
      BY <1>1, <1>2, <2>1, <2>2
    <2>4. ASSUME NEW n \in U PROVE n + 1 \in U
      <3>1. n \in Nat /\ n + 1 \in Nat
        OBVIOUS
      <3>2. ASSUME (n + 1) + 1 \in 1 .. Len(s) PROVE f[(n + 1) + 1] = g[(n + 1) + 1]
        <4>1. /\ n + 1 \in 1 .. Len(s) /\ (n + 1) + 1 \in 2 .. Len(s) /\ (n + 1) + 1 \in 2 .. Len(t)
              /\ ((n + 1) + 1) - 1 = n + 1
          BY <1>1, <3>1, <3>2
        <4>2. f[n + 1] = g[n + 1]
          BY <4>1
        <4> QED
          BY <1>1, <1>2, <2>1, <3>2, <4>1, <4>2
      <3> QED
        BY <3>1, <3>2
    <2>5. U = Nat
      <3> U \subseteq Nat
        OBVIOUS
      <3> HIDE DEF U
      <3> QED
        BY <2>3, <2>4, NatSet
    <2>6. Len(s) - 1 \in U
      <3> HIDE DEF U
      <3> QED
        BY <2>2, <2>5
    <2>7. (Len(s) - 1) + 1 = Len(s) /\ Len(s) \in 1 .. Len(s)
      BY <2>2
    <2>8. f[Len(s)] = g[Len(s)]
      BY <2>6, <2>7
    <2>9. f[Len(t)] = Join(f[Len(s)], x)
      <3>1. Len(s) + 1 \in 2 .. Len(t) /\ (Len(s) + 1) - 1 = Len(s)
        BY <1>1, <2>2
      <3> QED
        BY <1>1, <1>2, <3>1
    <2> QED
      BY <1>2, <2>1, <2>8, <2>9 DEF t
  <1> QED
    BY <1>3, <1>4

-----------------------------------------------------------------------------
(* Numbers, names and lists of names.                                      *)

(* What packets and payloads are written with.                             *)
Basic(C) ==
    /\ {"num"} \X Nat \subseteq C /\ {"char"} \X Chars \subseteq C
    /\ {"nonce"} \X Nat \subseteq C /\ {"tag"} \X Names \subseteq C

(* A number is a cell.                                                     *)
LEMMA NumsAreCells ==
    ASSUME NEW C, Basic(C)
    PROVE  \A n \in Nat : Num(n) \in C
  BY DEF Basic, Num

(* A name is read as it was written.                                       *)
LEMMA TextRead ==
    ASSUME NEW C, Basic(C), NEW s \in Names
    PROVE  /\ Text(s) \in Seq(C) /\ Len(Text(s)) = Len(s) /\ Len(s) \in Nat
           /\ Characters(Text(s)) = s
  <1> DEFINE t == [i \in 1 .. Len(s) |-> <<"char", s[i]>>]
  <1>1. Len(s) \in Nat /\ \A i \in 1 .. Len(s) : s[i] \in Chars
    BY LenProperties, ElementOfSeq DEF Names
  <1>2. t \in Seq(C) /\ Len(t) = Len(s)
    <2>1. t \in [1 .. Len(s) -> C]
      BY <1>1 DEF Basic
    <2> HIDE DEF t
    <2> QED
      BY <1>1, <2>1
  <1>3. Characters(t) = s
    <2> DEFINE u == [i \in 1 .. Len(t) |-> t[i][2]]
    <2>1. u = [i \in 1 .. Len(s) |-> s[i]]
      BY <1>2
    <2>2. s = [i \in 1 .. Len(s) |-> s[i]]
      BY LenProperties DEF Names
    <2> QED
      BY <2>1, <2>2 DEF Characters
  <1> QED
    BY <1>1, <1>2, <1>3 DEF Text

(* So is one that is written with its size.                                *)
LEMMA NameRead ==
    ASSUME NEW C, Basic(C), NEW s \in Names, NEW r \in Seq(C)
    PROVE  /\ Sized(Text(s)) \in Seq(C)
           /\ ReadSized(Join(Sized(Text(s)), r)) = Read(Text(s), r)
  <1>1. Text(s) \in Seq(C) /\ Num(Len(Text(s))) \in C
    BY TextRead, NumsAreCells
  <1> QED
    BY <1>1, SizedRead

-----------------------------------------------------------------------------
(* What is written piece by piece is read piece by piece: if each reader   *)
(* takes its piece off whatever follows, all of them together take all.    *)
LEMMA Successive ==
    ASSUME NEW C, NEW n \in Nat, NEW w \in Seq(Seq(C)), Len(w) = n, NEW r \in Seq(C),
           NEW kinds, NEW u, NEW f,
           f[0] = Read(<<>>, Join(FlattenSeq(w), r)),
           OneByOne(f, n, kinds), Takes(C, n, kinds, w, u)
    PROVE  f[n] = Read([i \in 1 .. n |-> u[i]], r)
  <1> DEFINE First(i) == [j \in 1 .. i |-> u[j]]
             Left(i) == SubSeq(w, i + 1, n)
             T == {i \in Nat : i <= n => f[i] = Read(First(i), Join(FlattenSeq(Left(i)), r))}
  <1>1. \A i \in 1 .. n : w[i] \in Seq(C)
    BY ElementOfSeq
  <1>7. 0 \in T
    <2>1. Left(0) = w
      BY SubSeqFull
    <2>2. First(0) = <<>>
      OBVIOUS
    <2> HIDE DEF First, Left
    <2> QED
      BY <2>1, <2>2
  <1>8. ASSUME NEW i \in T PROVE i + 1 \in T
    <2>1. i \in Nat /\ i + 1 \in Nat
      OBVIOUS
    <2> SUFFICES ASSUME i + 1 <= n
                 PROVE  f[i + 1] = Read(First(i + 1), Join(FlattenSeq(Left(i + 1)), r))
      BY <2>1
    <2>2. f[i] = Read(First(i), Join(FlattenSeq(Left(i)), r))
      BY <2>1
    <2> DEFINE x == u[i + 1]
               a == w[i + 1]
               y == FlattenSeq(Left(i + 1))
    <2>3. i + 1 \in 1 .. n /\ (i + 1) - 1 = i /\ n \in i + 1 .. n
      BY <2>1
    <2>4. /\ Left(i) \in Seq(Seq(C)) /\ Left(i) # <<>>
          /\ Left(i)[1] = w[i + 1] /\ Tail(Left(i)) = Left(i + 1)
          /\ Left(i + 1) \in Seq(Seq(C))
      <3>1. \A k \in i + 1 .. n : w[k] \in Seq(C)
        BY <1>1, <2>1
      <3>2. /\ Left(i) \in Seq(Seq(C))
            /\ Len(Left(i)) = IF i + 1 <= n THEN n - (i + 1) + 1 ELSE 0
            /\ \A k \in 1 .. n - (i + 1) + 1 : Left(i)[k] = w[(i + 1) + k - 1]
        <4> DEFINE m == i + 1
                   D == Seq(C)
        <4>1. m \in Nat /\ (\A k \in m .. n : w[k] \in D) /\ w \in Seq(D)
          BY <2>1, <3>1
        <4> HIDE DEF m, D
        <4>2. /\ SubSeq(w, m, n) \in Seq(D)
              /\ Len(SubSeq(w, m, n)) = IF m <= n THEN n - m + 1 ELSE 0
              /\ \A k \in 1 .. n - m + 1 : SubSeq(w, m, n)[k] = w[m + k - 1]
          BY <4>1, SubSeqProperties
        <4> QED
          BY <4>2 DEF m, D
      <3>3. 1 \in 1 .. n - (i + 1) + 1 /\ (i + 1) + 1 - 1 = i + 1 /\ n - (i + 1) + 1 # 0
        BY <2>1
      <3>5. Tail(Left(i)) = Left(i + 1)
        BY <2>3, HeadTailOfSubSeq
      <3> HIDE DEF Left
      <3>4. Left(i) # <<>>
        BY <3>2, <3>3, EmptySeq
      <3>6. Left(i + 1) \in Seq(Seq(C))
        BY <3>2, <3>4, <3>5, HeadTailProperties
      <3>7. Left(i)[1] = w[i + 1]
        BY <3>2, <3>3
      <3> QED
        BY <3>2, <3>4, <3>5, <3>6, <3>7
    <2>5. FlattenSeq(Left(i)) = Join(a, y) /\ y \in Seq(C) /\ a \in Seq(C)
      <3> HIDE DEF Left
      <3>1. FlattenSeq(Left(i)) = Join(Left(i)[1], FlattenSeq(Tail(Left(i))))
        BY <2>4, FlattenFirst
      <3> QED
        BY <1>1, <2>3, <2>4, <3>1, FlattenType
    <2>6. \A t \in Seq(C) : ReadKind(kinds[i + 1], Join(a, t)) = Read(x, t)
      BY <2>3 DEF Takes
    <2>10. f[i + 1] = NextField(f[i], kinds[i + 1])
      BY <2>3 DEF OneByOne
    <2> HIDE DEF Left, y, x, a, T
    <2>8. Join(Join(a, y), r) = Join(a, Join(y, r)) /\ Join(y, r) \in Seq(C)
      BY ONLY <2>5, r \in Seq(C), Joins
    <2>11. f[i + 1] = Read(Append(First(i), x), Join(y, r))
      <3> HIDE DEF First
      <3>1. f[i] = Read(First(i), Join(a, Join(y, r)))
        BY <2>2, <2>5, <2>8
      <3>2. ReadKind(kinds[i + 1], Join(a, Join(y, r))) = Read(x, Join(y, r))
        BY <2>6, <2>8
      <3> QED
        BY ONLY <2>10, <3>1, <3>2, Parts DEF NextField, Another
    <2>12. Append(First(i), x) = First(i + 1)
      <3> DEFINE S == {u[j] : j \in 1 .. n}
                 p == First(i)
                 q == First(i + 1)
      <3>1. p \in [1 .. i -> S] /\ \A j \in 1 .. i : p[j] = u[j]
        BY <2>1
      <3>2. q \in [1 .. i + 1 -> S] /\ \A j \in 1 .. i + 1 : q[j] = u[j]
        BY <2>1
      <3>3. x \in S
        BY <2>3 DEF x
      <3> HIDE DEF First, S, p, q
      <3>4. p \in Seq(S) /\ Len(p) = i /\ q \in Seq(S) /\ Len(q) = i + 1
        BY <2>1, <3>1, <3>2
      <3>5. /\ Append(p, x) \in Seq(S) /\ Len(Append(p, x)) = i + 1
            /\ \A j \in 1 .. i : Append(p, x)[j] = p[j]
            /\ Append(p, x)[i + 1] = x
        BY <3>3, <3>4, AppendProperties
      <3>6. ASSUME NEW j \in 1 .. i + 1 PROVE Append(p, x)[j] = q[j]
        <4>1. CASE j \in 1 .. i
          BY <3>1, <3>2, <3>5, <4>1
        <4>2. CASE j = i + 1
          BY <3>2, <3>5, <4>2 DEF x
        <4>3. j \in 1 .. i \/ j = i + 1
          BY <2>1
        <4> QED
          BY <4>1, <4>2, <4>3
      <3>7. Append(p, x) = q
        BY <3>4, <3>5, <3>6, SeqEqual
      <3> QED
        BY <3>7 DEF p, q
    <2> HIDE DEF First
    <2> QED
      BY <2>11, <2>12 DEF y
  <1>9. T = Nat
    <2> T \subseteq Nat
      OBVIOUS
    <2> HIDE DEF T
    <2> QED
      BY <1>7, <1>8, NatSet
  <1>10. f[n] = Read(First(n), Join(FlattenSeq(Left(n)), r))
    <2>1. n \in T
      <3> HIDE DEF T
      <3> QED
        BY <1>9
    <2> HIDE DEF First, Left
    <2> QED
      BY <2>1
  <1>11. Join(FlattenSeq(Left(n)), r) = r
    <2>1. Left(n) = <<>>
      BY SubSeqEmpty
    <2>2. FlattenSeq(<<>>) = <<>>
      BY DEF FlattenSeq
    <2>3. <<>> \o r = r
      BY ConcatEmptySeq
    <2> HIDE DEF Left
    <2> QED
      BY <2>1, <2>2, <2>3 DEF Join
  <1> HIDE DEF Left
  <1> QED
    BY <1>10, <1>11

(* A list of names is read as it was written.                              *)
LEMMA StringsRead ==
    ASSUME NEW C, Basic(C), NEW v \in Seq(Names), NEW r \in Seq(C)
    PROVE  /\ Strings(v) \in Seq(C)
           /\ ReadStrings(Join(Strings(v), r)) = Read([i \in 1 .. Len(v) |-> Text(v[i])], r)
  <1> DEFINE n == Len(v)
             w == [i \in 1 .. n |-> Sized(Text(v[i]))]
             u == [i \in 1 .. n |-> Text(v[i])]
             kinds == [i \in 1 .. n |-> "sized"]
             all == Join(FlattenSeq(w), r)
             cells == Join(Strings(v), r)
  <1>1. n \in Nat /\ \A i \in 1 .. n : v[i] \in Names
    BY LenProperties, ElementOfSeq
  <1>2. w \in Seq(Seq(C)) /\ Len(w) = n /\ \A i \in 1 .. n : w[i] = Sized(Text(v[i]))
    <2>1. w \in [1 .. n -> Seq(C)]
      BY <1>1, NameRead
    <2> QED
      BY <1>1, <2>1
  <1>3. \A i \in 1 .. n : u[i] = Text(v[i]) /\ kinds[i] = "sized"
    OBVIOUS
  <1>4. u = [i \in 1 .. n |-> u[i]]
    OBVIOUS
  <1> DEFINE a == <<Num(n)>>
             b == FlattenSeq(w)
  <1>5. Strings(v) = Join(a, b)
    BY DEF Strings, Join
  <1> HIDE DEF w, u, kinds
  <1>6. a \in Seq(C) /\ b \in Seq(C) /\ Num(n) \in C
    BY <1>1, <1>2, NumsAreCells, FirstRead, FlattenType
  <1> HIDE DEF a, b
  <1>7. /\ Join(a, b) \in Seq(C) /\ Join(b, r) \in Seq(C)
        /\ Join(Join(a, b), r) = Join(a, Join(b, r))
    BY ONLY <1>6, r \in Seq(C), Joins
  <1>8. ReadNum(cells) = Read(n, all)
    <2>1. ReadNum(Join(<<Num(n)>>, all)) = Read(n, all)
      <3>1. all \in Seq(C)
        BY <1>7 DEF b
      <3> HIDE DEF all
      <3> QED
        BY <1>6, <3>1, FirstRead
    <2>2. cells = Join(<<Num(n)>>, all)
      BY <1>5, <1>7 DEF a, b
    <2> QED
      BY <2>1, <2>2
  <1> HIDE DEF cells, all, n
  <1>9. PICK f : /\ f[0] = Read(<<>>, all)
                 /\ \A i \in 1 .. n : f[i] = NextField(f[i - 1], "sized")
                 /\ ReadStrings(cells) = f[n]
    <2> DEFINE size == ReadNum(cells)
    <2>1. size.ok /\ size.val = n /\ size.rest = all
      BY <1>8, Parts
    <2> HIDE DEF size
    <2>2. \E f : /\ f[0] = Read(<<>>, size.rest)
                 /\ \A i \in 1 .. size.val : f[i] = NextField(f[i - 1], "sized")
                 /\ ReadStrings(cells) = f[size.val]
      BY <1>1, <2>1, StringsDefined DEF size
    <2> QED
      BY <2>1, <2>2
  <1>10. Takes(C, n, kinds, w, u)
    <2> SUFFICES ASSUME NEW i \in 1 .. n, NEW t \in Seq(C)
                 PROVE  ReadKind(kinds[i], Join(w[i], t)) = Read(u[i], t)
      BY DEF Takes
    <2>1. ReadSized(Join(Sized(Text(v[i])), t)) = Read(Text(v[i]), t)
      BY <1>1, NameRead
    <2>2. ReadKind("sized", Join(w[i], t)) = ReadSized(Join(w[i], t))
      BY DEF ReadKind
    <2> QED
      BY <1>2, <1>3, <2>1, <2>2
  <1>11. f[n] = Read([i \in 1 .. n |-> u[i]], r)
    <2>1. OneByOne(f, n, kinds)
      BY <1>3, <1>9 DEF OneByOne
    <2>2. f[0] = Read(<<>>, Join(FlattenSeq(w), r))
      BY <1>9 DEF all
    <2> QED
      <3>1. n \in Nat /\ w \in Seq(Seq(C)) /\ Len(w) = n /\ r \in Seq(C)
        BY <1>1, <1>2
      <3> QED
        BY ONLY <3>1, <1>10, <2>1, <2>2, Successive
  <1>12. ReadStrings(cells) = Read(u, r)
    BY <1>4, <1>9, <1>11
  <1> QED
    BY <1>5, <1>7, <1>12 DEF cells, u, n

-----------------------------------------------------------------------------
(* Fields in a row.                                                        *)

(* A reader takes a off whatever follows, and makes x of it.               *)
Piece(C, kind, a, x) ==
    a \in Seq(C) /\ \A t \in Seq(C) : ReadKind(kind, Join(a, t)) = Read(x, t)

(* Fields of these kinds are read off the cells, and only r is left.       *)
Got(kinds, cells, vals, r) == ReadFields(kinds, cells) = Read(vals, r)

(* Fields that are written one after the other are read one after the      *)
(* other.                                                                  *)
LEMMA FieldsRead ==
    ASSUME NEW C, NEW n \in Nat, NEW w \in Seq(Seq(C)), Len(w) = n, NEW r \in Seq(C),
           NEW kinds, Len(kinds) = n, NEW u, Takes(C, n, kinds, w, u)
    PROVE  ReadFields(kinds, Join(FlattenSeq(w), r)) = Read([i \in 1 .. n |-> u[i]], r)
  <1> DEFINE cells == Join(FlattenSeq(w), r)
  <1>1. PICK f : /\ f[0] = Read(<<>>, cells)
                 /\ \A i \in 1 .. Len(kinds) : f[i] = NextField(f[i - 1], kinds[i])
                 /\ ReadFields(kinds, cells) = f[Len(kinds)]
    BY FieldsDefined
  <1>2. OneByOne(f, n, kinds)
    BY <1>1 DEF OneByOne
  <1>3. f[n] = Read([i \in 1 .. n |-> u[i]], r)
    BY ONLY <1>1, <1>2, n \in Nat, w \in Seq(Seq(C)), Len(w) = n, r \in Seq(C),
            Takes(C, n, kinds, w, u), Successive
  <1> QED
    BY <1>1, <1>3


(* What is joined of a few sequences.                                      *)
LEMMA FlattenOne ==
    ASSUME NEW C, NEW w \in Seq(Seq(C)), Len(w) = 1
    PROVE  FlattenSeq(w) = w[1]
  BY FlattenDefined

(* Two are joined as they are written.                                     *)
LEMMA FlattenTwo ==
    ASSUME NEW C, NEW w \in Seq(Seq(C)), Len(w) = 2
    PROVE  FlattenSeq(w) = Join(w[1], w[2])
  <1> DEFINE t == Tail(w)
  <1>1. /\ w # <<>> /\ t \in Seq(Seq(C)) /\ Len(t) = 1
        /\ t[1] = w[2]
    <2>1. w # <<>>
      <3>1. Len(<<>>) = 0
        OBVIOUS
      <3>2. Len(w) # 0
        OBVIOUS
      <3> QED
        BY <3>1, <3>2, Zenon
    <2>2. /\ t \in Seq(Seq(C)) /\ Len(t) = Len(w) - 1
          /\ \A i \in 1 .. Len(t) : t[i] = w[i + 1]
      BY <2>1, HeadTailProperties
    <2> HIDE DEF t
    <2> QED
      BY <2>1, <2>2
  <1> HIDE DEF t
  <1>2. FlattenSeq(t) = t[1]
    BY <1>1, FlattenOne
  <1>3. FlattenSeq(w) = Join(w[1], FlattenSeq(t))
    BY <1>1, FlattenFirst DEF t
  <1> QED
    BY <1>1, <1>2, <1>3

(* So are three.                                                           *)
LEMMA FlattenThree ==
    ASSUME NEW C, NEW w \in Seq(Seq(C)), Len(w) = 3
    PROVE  FlattenSeq(w) = Join(w[1], Join(w[2], w[3]))
  <1> DEFINE t == Tail(w)
  <1>1. /\ w # <<>> /\ t \in Seq(Seq(C)) /\ Len(t) = 2
        /\ t[1] = w[2] /\ t[2] = w[3]
    <2>1. w # <<>>
      <3>1. Len(<<>>) = 0
        OBVIOUS
      <3>2. Len(w) # 0
        OBVIOUS
      <3> QED
        BY <3>1, <3>2, Zenon
    <2>2. /\ t \in Seq(Seq(C)) /\ Len(t) = Len(w) - 1
          /\ \A i \in 1 .. Len(t) : t[i] = w[i + 1]
      BY <2>1, HeadTailProperties
    <2> HIDE DEF t
    <2> QED
      BY <2>1, <2>2
  <1> HIDE DEF t
  <1>2. FlattenSeq(t) = Join(t[1], t[2])
    BY <1>1, FlattenTwo
  <1>3. FlattenSeq(w) = Join(w[1], FlattenSeq(t))
    BY <1>1, FlattenFirst DEF t
  <1> QED
    BY <1>1, <1>2, <1>3

(* So are four.                                                            *)
LEMMA FlattenFour ==
    ASSUME NEW C, NEW w \in Seq(Seq(C)), Len(w) = 4
    PROVE  FlattenSeq(w) = Join(w[1], Join(w[2], Join(w[3], w[4])))
  <1> DEFINE t == Tail(w)
  <1>1. /\ w # <<>> /\ t \in Seq(Seq(C)) /\ Len(t) = 3
        /\ t[1] = w[2] /\ t[2] = w[3] /\ t[3] = w[4]
    <2>1. w # <<>>
      <3>1. Len(<<>>) = 0
        OBVIOUS
      <3>2. Len(w) # 0
        OBVIOUS
      <3> QED
        BY <3>1, <3>2, Zenon
    <2>2. /\ t \in Seq(Seq(C)) /\ Len(t) = Len(w) - 1
          /\ \A i \in 1 .. Len(t) : t[i] = w[i + 1]
      BY <2>1, HeadTailProperties
    <2> HIDE DEF t
    <2> QED
      BY <2>1, <2>2
  <1> HIDE DEF t
  <1>2. FlattenSeq(t) = Join(t[1], Join(t[2], t[3]))
    BY <1>1, FlattenThree
  <1>3. FlattenSeq(w) = Join(w[1], FlattenSeq(t))
    BY <1>1, FlattenFirst DEF t
  <1> QED
    BY <1>1, <1>2, <1>3

(* So are five.                                                            *)
LEMMA FlattenFive ==
    ASSUME NEW C, NEW w \in Seq(Seq(C)), Len(w) = 5
    PROVE  FlattenSeq(w) = Join(w[1], Join(w[2], Join(w[3], Join(w[4], w[5]))))
  <1> DEFINE t == Tail(w)
  <1>1. /\ w # <<>> /\ t \in Seq(Seq(C)) /\ Len(t) = 4
        /\ t[1] = w[2] /\ t[2] = w[3] /\ t[3] = w[4] /\ t[4] = w[5]
    <2>1. w # <<>>
      <3>1. Len(<<>>) = 0
        OBVIOUS
      <3>2. Len(w) # 0
        OBVIOUS
      <3> QED
        BY <3>1, <3>2, Zenon
    <2>2. /\ t \in Seq(Seq(C)) /\ Len(t) = Len(w) - 1
          /\ \A i \in 1 .. Len(t) : t[i] = w[i + 1]
      BY <2>1, HeadTailProperties
    <2> HIDE DEF t
    <2> QED
      BY <2>1, <2>2
  <1> HIDE DEF t
  <1>2. FlattenSeq(t) = Join(t[1], Join(t[2], Join(t[3], t[4])))
    BY <1>1, FlattenFour
  <1>3. FlattenSeq(w) = Join(w[1], FlattenSeq(t))
    BY <1>1, FlattenFirst DEF t
  <1> QED
    BY <1>1, <1>2, <1>3

(* So are six.                                                             *)
LEMMA FlattenSix ==
    ASSUME NEW C, NEW w \in Seq(Seq(C)), Len(w) = 6
    PROVE  FlattenSeq(w) = Join(w[1], Join(w[2], Join(w[3], Join(w[4], Join(w[5], w[6])))))
  <1> DEFINE t == Tail(w)
  <1>1. /\ w # <<>> /\ t \in Seq(Seq(C)) /\ Len(t) = 5
        /\ t[1] = w[2] /\ t[2] = w[3] /\ t[3] = w[4] /\ t[4] = w[5] /\ t[5] = w[6]
    <2>1. w # <<>>
      <3>1. Len(<<>>) = 0
        OBVIOUS
      <3>2. Len(w) # 0
        OBVIOUS
      <3> QED
        BY <3>1, <3>2, Zenon
    <2>2. /\ t \in Seq(Seq(C)) /\ Len(t) = Len(w) - 1
          /\ \A i \in 1 .. Len(t) : t[i] = w[i + 1]
      BY <2>1, HeadTailProperties
    <2> HIDE DEF t
    <2> QED
      BY <2>1, <2>2
  <1> HIDE DEF t
  <1>2. FlattenSeq(t) = Join(t[1], Join(t[2], Join(t[3], Join(t[4], t[5]))))
    BY <1>1, FlattenFive
  <1>3. FlattenSeq(w) = Join(w[1], FlattenSeq(t))
    BY <1>1, FlattenFirst DEF t
  <1> QED
    BY <1>1, <1>2, <1>3

(* Two fields.                                                             *)
LEMMA ReadTwo ==
    ASSUME NEW C, NEW r \in Seq(C), NEW k1, NEW k2,
           NEW a1, NEW a2,
           NEW x1, NEW x2,
           Piece(C, k1, a1, x1), Piece(C, k2, a2, x2)
    PROVE  Got(<<k1, k2>>, Join(Join(a1, a2), r),
               <<x1, x2>>, r)
  <1> DEFINE kinds == <<k1, k2>>
             w == <<a1, a2>>
             u == <<x1, x2>>
             n == 2
  <1>1. w \in Seq(Seq(C)) /\ Len(w) = n /\ Len(kinds) = n /\ n \in Nat
    BY DEF Piece
  <1>2. Takes(C, n, kinds, w, u)
    <2> SUFFICES ASSUME NEW i \in 1 .. n, NEW t \in Seq(C)
                 PROVE  ReadKind(kinds[i], Join(w[i], t)) = Read(u[i], t)
      BY DEF Takes
    <2>1. i = 1 \/ i = 2
      OBVIOUS
    <2> QED
      BY <2>1 DEF Piece
  <1>3. FlattenSeq(w) = Join(a1, a2)
    <2>1. w[1] = a1 /\ w[2] = a2
      OBVIOUS
    <2>2. w \in Seq(Seq(C)) /\ Len(w) = 2
      BY <1>1
    <2> HIDE DEF w
    <2> QED
      BY <2>1, <2>2, FlattenTwo
  <1>4. [i \in 1 .. n |-> u[i]] = u
    OBVIOUS
  <1> HIDE DEF w, u, kinds, n
  <1>5. ReadFields(kinds, Join(FlattenSeq(w), r)) = Read([i \in 1 .. n |-> u[i]], r)
    BY ONLY <1>1, <1>2, r \in Seq(C), FieldsRead
  <1> QED
    BY <1>3, <1>4, <1>5 DEF Got, kinds, u

(* Three fields.                                                           *)
LEMMA ReadThree ==
    ASSUME NEW C, NEW r \in Seq(C), NEW k1, NEW k2, NEW k3,
           NEW a1, NEW a2, NEW a3,
           NEW x1, NEW x2, NEW x3,
           Piece(C, k1, a1, x1), Piece(C, k2, a2, x2), Piece(C, k3, a3, x3)
    PROVE  Got(<<k1, k2, k3>>, Join(Join(a1, Join(a2, a3)), r),
               <<x1, x2, x3>>, r)
  <1> DEFINE kinds == <<k1, k2, k3>>
             w == <<a1, a2, a3>>
             u == <<x1, x2, x3>>
             n == 3
  <1>1. w \in Seq(Seq(C)) /\ Len(w) = n /\ Len(kinds) = n /\ n \in Nat
    BY DEF Piece
  <1>2. Takes(C, n, kinds, w, u)
    <2> SUFFICES ASSUME NEW i \in 1 .. n, NEW t \in Seq(C)
                 PROVE  ReadKind(kinds[i], Join(w[i], t)) = Read(u[i], t)
      BY DEF Takes
    <2>1. i = 1 \/ i = 2 \/ i = 3
      OBVIOUS
    <2> QED
      BY <2>1 DEF Piece
  <1>3. FlattenSeq(w) = Join(a1, Join(a2, a3))
    <2>1. w[1] = a1 /\ w[2] = a2 /\ w[3] = a3
      OBVIOUS
    <2>2. w \in Seq(Seq(C)) /\ Len(w) = 3
      BY <1>1
    <2> HIDE DEF w
    <2> QED
      BY <2>1, <2>2, FlattenThree
  <1>4. [i \in 1 .. n |-> u[i]] = u
    OBVIOUS
  <1> HIDE DEF w, u, kinds, n
  <1>5. ReadFields(kinds, Join(FlattenSeq(w), r)) = Read([i \in 1 .. n |-> u[i]], r)
    BY ONLY <1>1, <1>2, r \in Seq(C), FieldsRead
  <1> QED
    BY <1>3, <1>4, <1>5 DEF Got, kinds, u

(* Four fields.                                                            *)
LEMMA ReadFour ==
    ASSUME NEW C, NEW r \in Seq(C), NEW k1, NEW k2, NEW k3, NEW k4,
           NEW a1, NEW a2, NEW a3, NEW a4,
           NEW x1, NEW x2, NEW x3, NEW x4,
           Piece(C, k1, a1, x1), Piece(C, k2, a2, x2), Piece(C, k3, a3, x3),
           Piece(C, k4, a4, x4)
    PROVE  Got(<<k1, k2, k3, k4>>, Join(Join(a1, Join(a2, Join(a3, a4))), r),
               <<x1, x2, x3, x4>>, r)
  <1> DEFINE kinds == <<k1, k2, k3, k4>>
             w == <<a1, a2, a3, a4>>
             u == <<x1, x2, x3, x4>>
             n == 4
  <1>1. w \in Seq(Seq(C)) /\ Len(w) = n /\ Len(kinds) = n /\ n \in Nat
    BY DEF Piece
  <1>2. Takes(C, n, kinds, w, u)
    <2> SUFFICES ASSUME NEW i \in 1 .. n, NEW t \in Seq(C)
                 PROVE  ReadKind(kinds[i], Join(w[i], t)) = Read(u[i], t)
      BY DEF Takes
    <2>1. i = 1 \/ i = 2 \/ i = 3 \/ i = 4
      OBVIOUS
    <2> QED
      BY <2>1 DEF Piece
  <1>3. FlattenSeq(w) = Join(a1, Join(a2, Join(a3, a4)))
    <2>1. w[1] = a1 /\ w[2] = a2 /\ w[3] = a3 /\ w[4] = a4
      OBVIOUS
    <2>2. w \in Seq(Seq(C)) /\ Len(w) = 4
      BY <1>1
    <2> HIDE DEF w
    <2> QED
      BY <2>1, <2>2, FlattenFour
  <1>4. [i \in 1 .. n |-> u[i]] = u
    OBVIOUS
  <1> HIDE DEF w, u, kinds, n
  <1>5. ReadFields(kinds, Join(FlattenSeq(w), r)) = Read([i \in 1 .. n |-> u[i]], r)
    BY ONLY <1>1, <1>2, r \in Seq(C), FieldsRead
  <1> QED
    BY <1>3, <1>4, <1>5 DEF Got, kinds, u

(* Five fields.                                                            *)
LEMMA ReadFive ==
    ASSUME NEW C, NEW r \in Seq(C), NEW k1, NEW k2, NEW k3, NEW k4, NEW k5,
           NEW a1, NEW a2, NEW a3, NEW a4, NEW a5,
           NEW x1, NEW x2, NEW x3, NEW x4, NEW x5,
           Piece(C, k1, a1, x1), Piece(C, k2, a2, x2), Piece(C, k3, a3, x3),
           Piece(C, k4, a4, x4), Piece(C, k5, a5, x5)
    PROVE  Got(<<k1, k2, k3, k4, k5>>, Join(Join(a1, Join(a2, Join(a3, Join(a4, a5)))), r),
               <<x1, x2, x3, x4, x5>>, r)
  <1> DEFINE kinds == <<k1, k2, k3, k4, k5>>
             w == <<a1, a2, a3, a4, a5>>
             u == <<x1, x2, x3, x4, x5>>
             n == 5
  <1>1. w \in Seq(Seq(C)) /\ Len(w) = n /\ Len(kinds) = n /\ n \in Nat
    BY DEF Piece
  <1>2. Takes(C, n, kinds, w, u)
    <2> SUFFICES ASSUME NEW i \in 1 .. n, NEW t \in Seq(C)
                 PROVE  ReadKind(kinds[i], Join(w[i], t)) = Read(u[i], t)
      BY DEF Takes
    <2>1. i = 1 \/ i = 2 \/ i = 3 \/ i = 4 \/ i = 5
      OBVIOUS
    <2> QED
      BY <2>1 DEF Piece
  <1>3. FlattenSeq(w) = Join(a1, Join(a2, Join(a3, Join(a4, a5))))
    <2>1. w[1] = a1 /\ w[2] = a2 /\ w[3] = a3 /\ w[4] = a4 /\ w[5] = a5
      OBVIOUS
    <2>2. w \in Seq(Seq(C)) /\ Len(w) = 5
      BY <1>1
    <2> HIDE DEF w
    <2> QED
      BY <2>1, <2>2, FlattenFive
  <1>4. [i \in 1 .. n |-> u[i]] = u
    OBVIOUS
  <1> HIDE DEF w, u, kinds, n
  <1>5. ReadFields(kinds, Join(FlattenSeq(w), r)) = Read([i \in 1 .. n |-> u[i]], r)
    BY ONLY <1>1, <1>2, r \in Seq(C), FieldsRead
  <1> QED
    BY <1>3, <1>4, <1>5 DEF Got, kinds, u

(* Six fields.                                                             *)
LEMMA ReadSix ==
    ASSUME NEW C, NEW r \in Seq(C), NEW k1, NEW k2, NEW k3, NEW k4, NEW k5, NEW k6,
           NEW a1, NEW a2, NEW a3, NEW a4, NEW a5, NEW a6,
           NEW x1, NEW x2, NEW x3, NEW x4, NEW x5, NEW x6,
           Piece(C, k1, a1, x1), Piece(C, k2, a2, x2), Piece(C, k3, a3, x3),
           Piece(C, k4, a4, x4), Piece(C, k5, a5, x5), Piece(C, k6, a6, x6)
    PROVE  Got(<<k1, k2, k3, k4, k5, k6>>, Join(Join(a1, Join(a2, Join(a3, Join(a4, Join(a5, a6))))), r),
               <<x1, x2, x3, x4, x5, x6>>, r)
  <1> DEFINE kinds == <<k1, k2, k3, k4, k5, k6>>
             w == <<a1, a2, a3, a4, a5, a6>>
             u == <<x1, x2, x3, x4, x5, x6>>
             n == 6
  <1>1. w \in Seq(Seq(C)) /\ Len(w) = n /\ Len(kinds) = n /\ n \in Nat
    BY DEF Piece
  <1>2. Takes(C, n, kinds, w, u)
    <2> SUFFICES ASSUME NEW i \in 1 .. n, NEW t \in Seq(C)
                 PROVE  ReadKind(kinds[i], Join(w[i], t)) = Read(u[i], t)
      BY DEF Takes
    <2>1. i = 1 \/ i = 2 \/ i = 3 \/ i = 4 \/ i = 5 \/ i = 6
      OBVIOUS
    <2> QED
      BY <2>1 DEF Piece
  <1>3. FlattenSeq(w) = Join(a1, Join(a2, Join(a3, Join(a4, Join(a5, a6)))))
    <2>1. w[1] = a1 /\ w[2] = a2 /\ w[3] = a3 /\ w[4] = a4 /\ w[5] = a5 /\ w[6] = a6
      OBVIOUS
    <2>2. w \in Seq(Seq(C)) /\ Len(w) = 6
      BY <1>1
    <2> HIDE DEF w
    <2> QED
      BY <2>1, <2>2, FlattenSix
  <1>4. [i \in 1 .. n |-> u[i]] = u
    OBVIOUS
  <1> HIDE DEF w, u, kinds, n
  <1>5. ReadFields(kinds, Join(FlattenSeq(w), r)) = Read([i \in 1 .. n |-> u[i]], r)
    BY ONLY <1>1, <1>2, r \in Seq(C), FieldsRead
  <1> QED
    BY <1>3, <1>4, <1>5 DEF Got, kinds, u

-----------------------------------------------------------------------------
(* Payloads and packets are read as they were written.                     *)

(* Fields of each kind.                                                    *)
LEMMA Pieces ==
    ASSUME NEW C, Basic(C)
    PROVE  /\ \A x \in Nat : Piece(C, "num", <<Num(x)>>, x)
           /\ \A x \in C : Piece(C, "cell", <<x>>, x)
           /\ \A v \in Names : Piece(C, "sized", Sized(Text(v)), Text(v))
           /\ \A x \in Seq(C) : Piece(C, "sized", Sized(x), x)
           /\ \A v \in Seq(Names) :
                 Piece(C, "strings", Strings(v), [i \in 1 .. Len(v) |-> Text(v[i])])
  <1>1. ASSUME NEW x \in Nat PROVE Piece(C, "num", <<Num(x)>>, x)
    <2>1. Num(x) \in C /\ <<Num(x)>> \in Seq(C)
      BY NumsAreCells
    <2>2. \A t \in Seq(C) : ReadNum(Join(<<Num(x)>>, t)) = Read(x, t)
      BY <2>1, FirstRead
    <2> QED
      BY <2>1, <2>2 DEF Piece, ReadKind
  <1>2. ASSUME NEW x \in C PROVE Piece(C, "cell", <<x>>, x)
    <2>1. \A t \in Seq(C) : ReadOne(Join(<<x>>, t)) = Read(x, t)
      BY FirstRead
    <2> QED
      BY <2>1 DEF Piece, ReadKind
  <1>3. ASSUME NEW x \in Seq(C) PROVE Piece(C, "sized", Sized(x), x)
    <2>1. Num(Len(x)) \in C
      BY LenProperties, NumsAreCells
    <2>2. Sized(x) \in Seq(C)
      BY <2>1, SizedRead
    <2>3. \A t \in Seq(C) : ReadSized(Join(Sized(x), t)) = Read(x, t)
      BY <2>1, SizedRead
    <2> QED
      BY <2>2, <2>3 DEF Piece, ReadKind
  <1>4. ASSUME NEW v \in Names PROVE Piece(C, "sized", Sized(Text(v)), Text(v))
    BY <1>3, TextRead
  <1>5. ASSUME NEW v \in Seq(Names)
        PROVE  Piece(C, "strings", Strings(v), [i \in 1 .. Len(v) |-> Text(v[i])])
    <2>1. Strings(v) \in Seq(C)
      <3>1. <<>> \in Seq(C)
        OBVIOUS
      <3> QED
        BY <3>1, StringsRead
    <2>2. \A t \in Seq(C) :
             ReadStrings(Join(Strings(v), t)) = Read([i \in 1 .. Len(v) |-> Text(v[i])], t)
      BY StringsRead
    <2> QED
      BY <2>1, <2>2 DEF Piece, ReadKind
  <1> QED
    BY <1>1, <1>2, <1>3, <1>4, <1>5

(* Two, and up to four more.                                               *)
LEMMA Bracketed ==
    ASSUME NEW C, NEW a1 \in Seq(C), NEW a2 \in Seq(C), NEW a3 \in Seq(C), NEW a4 \in Seq(C),
           NEW a5 \in Seq(C), NEW a6 \in Seq(C)
    PROVE  /\ Join(Join(a1, a2), a3) = Join(a1, Join(a2, a3))
           /\ Join(Join(a1, a2), Join(a3, a4)) = Join(a1, Join(a2, Join(a3, a4)))
           /\ Join(Join(a1, a2), Join(Join(a3, a4), a5))
              = Join(a1, Join(a2, Join(a3, Join(a4, a5))))
           /\ Join(Join(a1, a2), Join(Join(Join(a3, a4), a5), a6))
              = Join(a1, Join(a2, Join(a3, Join(a4, Join(a5, a6)))))
  <1>1. \A x, y, z \in Seq(C) :
           Join(x, y) \in Seq(C) /\ Join(Join(x, y), z) = Join(x, Join(y, z))
    BY Joins
  <1>2. Join(Join(a3, a4), a5) = Join(a3, Join(a4, a5))
    BY <1>1
  <1>3. Join(Join(Join(a3, a4), a5), a6) = Join(a3, Join(a4, Join(a5, a6)))
    BY <1>1
  <1>4. \A x \in Seq(C) : Join(Join(a1, a2), x) = Join(a1, Join(a2, x))
    BY <1>1
  <1>6. Join(a3, Join(a4, a5)) \in Seq(C) /\ Join(a3, Join(a4, Join(a5, a6))) \in Seq(C)
    BY <1>1
  <1> QED
    BY <1>1, <1>2, <1>3, <1>4, <1>6

(* Nothing more.                                                           *)
LEMMA NothingMore ==
    ASSUME NEW C, NEW a \in Seq(C)
    PROVE  Join(a, <<>>) = a
  BY ConcatEmptySeq DEF Join

(* A pair is one joined to one.                                            *)
LEMMA Paired == \A a, b : <<a, b>> = Join(<<a>>, <<b>>)
  <1> TAKE a, b
  <1> DEFINE S == {a, b}
             s == <<a>>
             t == <<b>>
             p == <<a, b>>
  <1>1. s \in Seq(S) /\ t \in Seq(S) /\ p \in Seq(S) /\ Len(s) = 1 /\ Len(t) = 1 /\ Len(p) = 2
    OBVIOUS
  <1>2. s[1] = a /\ t[1] = b /\ p[1] = a /\ p[2] = b
    OBVIOUS
  <1> HIDE DEF S, s, t, p
  <1>3. /\ s \o t \in Seq(S) /\ Len(s \o t) = 1 + 1
        /\ \A i \in 1 .. 1 + 1 : (s \o t)[i] = IF i <= 1 THEN s[i] ELSE t[i - 1]
    <2>1. s \in Seq(S) /\ t \in Seq(S)
      BY <1>1
    <2>2. /\ s \o t \in Seq(S) /\ Len(s \o t) = Len(s) + Len(t)
          /\ \A i \in 1 .. Len(s) + Len(t) :
                (s \o t)[i] = IF i <= Len(s) THEN s[i] ELSE t[i - Len(s)]
      BY ONLY <2>1, ConcatProperties
    <2> QED
      BY ONLY <1>1, <2>2
  <1>4. Len(s \o t) = 2 /\ (s \o t)[1] = a /\ (s \o t)[2] = b
    BY <1>2, <1>3
  <1>5. \A i \in 1 .. 2 : i = 1 \/ i = 2
    OBVIOUS
  <1>6. \A i \in 1 .. Len(p) : p[i] = (s \o t)[i]
    BY <1>1, <1>2, <1>4, <1>5
  <1>7. p = s \o t
    BY <1>1, <1>3, <1>4, <1>6, SeqEqual
  <1> QED
    BY <1>7 DEF Join, p, s, t

(* A payload.                                                              *)
LEMMA PayloadRead ==
    ASSUME NEW C, Basic(C), NEW m \in Payloads
    PROVE  PayloadData(m) \in Seq(C) /\ ReadPayload(m.type, PayloadData(m)) = m
  <1>0. <<>> \in Seq(C)
    OBVIOUS
  <1>1. CASE m \in [type : {"E2E_INIT"}, seqno : Nat, timestamp : Nat, key : Names]
    <2> DEFINE a1 == <<Num(m.seqno)>>
               a2 == <<Num(m.timestamp)>>
               a3 == Sized(Text(m.key))
               f == ReadFields(<<"num", "num", "sized">>, PayloadData(m))
    <2>1. m.type = "E2E_INIT" /\ m.seqno \in Nat /\ m.timestamp \in Nat /\ m.key \in Names
      BY <1>1
    <2>2. m = [type |-> "E2E_INIT", seqno |-> m.seqno, timestamp |-> m.timestamp, key |-> m.key]
      BY <1>1
    <2>3. /\ Piece(C, "num", a1, m.seqno) /\ Piece(C, "num", a2, m.timestamp)
          /\ Piece(C, "sized", a3, Text(m.key))
      BY <2>1, Pieces
    <2>4. a1 \in Seq(C) /\ a2 \in Seq(C) /\ a3 \in Seq(C)
      BY <2>3 DEF Piece
    <2>5. PayloadData(m) = Join(Join(a1, a2), a3)
      <3>1. <<Num(m.seqno), Num(m.timestamp)>> = Join(a1, a2)
        BY Paired
      <3>2. PayloadData(m) = <<Num(m.seqno), Num(m.timestamp)>> \o a3
        BY <2>1 DEF PayloadData, InitData
      <3> QED
        BY <3>1, <3>2 DEF Join
    <2> HIDE DEF a1, a2, a3, f
    <2>6. /\ Join(Join(a1, a2), a3) = Join(Join(a1, Join(a2, a3)), <<>>)
          /\ Join(Join(a1, a2), a3) \in Seq(C)
      <3>1. Join(a1, a2) \in Seq(C) /\ Join(a1, Join(a2, a3)) \in Seq(C)
        BY ONLY <2>4, Joins
      <3>2. Join(Join(a1, a2), a3) = Join(a1, Join(a2, a3))
        BY ONLY <2>4, Joins
      <3> QED
        BY <3>1, <3>2, NothingMore
    <2>7. f.val[1] = m.seqno /\ f.val[2] = m.timestamp /\ f.val[3] = Text(m.key)
      <3>1. Got(<<"num", "num", "sized">>, Join(Join(a1, Join(a2, a3)), <<>>),
                <<m.seqno, m.timestamp, Text(m.key)>>, <<>>)
        BY ONLY <1>0, <2>3, ReadThree, Zenon
      <3> QED
        BY <2>5, <2>6, <3>1, Parts DEF Got, f
    <2>8. Characters(Text(m.key)) = m.key
      BY <2>1, TextRead
    <2>9. ReadInit(PayloadData(m)) = m
      BY <2>2, <2>7, <2>8 DEF ReadInit, f
    <2> QED
      BY <2>1, <2>5, <2>6, <2>9 DEF ReadPayload
  <1>2. CASE m \in [type : {"E2E_ACK"}, seqno : Nat, key : Names]
    <2> DEFINE a1 == <<Num(m.seqno)>>
               a2 == Sized(Text(m.key))
               f == ReadFields(<<"num", "sized">>, PayloadData(m))
    <2>1. m.type = "E2E_ACK" /\ m.seqno \in Nat /\ m.key \in Names
      BY <1>2
    <2>2. m = [type |-> "E2E_ACK", seqno |-> m.seqno, key |-> m.key]
      BY <1>2
    <2>3. Piece(C, "num", a1, m.seqno) /\ Piece(C, "sized", a2, Text(m.key))
      BY <2>1, Pieces
    <2>4. a1 \in Seq(C) /\ a2 \in Seq(C)
      BY <2>3 DEF Piece
    <2>5. PayloadData(m) = Join(a1, a2)
      BY <2>1 DEF PayloadData, AckData, Join
    <2> HIDE DEF a1, a2, f
    <2>6. Join(a1, a2) = Join(Join(a1, a2), <<>>) /\ Join(a1, a2) \in Seq(C)
        <3>1. Join(a1, a2) \in Seq(C)
        BY ONLY <2>4, Joins
      <3> QED
        BY <3>1, NothingMore
    <2>7. f.val[1] = m.seqno /\ f.val[2] = Text(m.key)
      <3>1. Got(<<"num", "sized">>, Join(Join(a1, a2), <<>>), <<m.seqno, Text(m.key)>>, <<>>)
        BY ONLY <1>0, <2>3, ReadTwo, Zenon
      <3> QED
        BY <2>5, <2>6, <3>1, Parts DEF Got, f
    <2>8. Characters(Text(m.key)) = m.key
      BY <2>1, TextRead
    <2>9. ReadAck(PayloadData(m)) = m
      BY <2>2, <2>7, <2>8 DEF ReadAck, f
    <2> QED
      BY <2>1, <2>5, <2>6, <2>9 DEF ReadPayload
  <1>3. CASE m \in [type : {"PLAIN_TEXT"}, seqno : Nat, text : Names]
    <2> DEFINE a1 == <<Num(m.seqno)>>
               a2 == Sized(Text(m.text))
               f == ReadFields(<<"num", "sized">>, PayloadData(m))
    <2>1. m.type = "PLAIN_TEXT" /\ m.seqno \in Nat /\ m.text \in Names
      BY <1>3
    <2>2. m = [type |-> "PLAIN_TEXT", seqno |-> m.seqno, text |-> m.text]
      BY <1>3
    <2>3. Piece(C, "num", a1, m.seqno) /\ Piece(C, "sized", a2, Text(m.text))
      BY <2>1, Pieces
    <2>4. a1 \in Seq(C) /\ a2 \in Seq(C)
      BY <2>3 DEF Piece
    <2>5. PayloadData(m) = Join(a1, a2)
      BY <2>1 DEF PayloadData, MsgData, Join
    <2> HIDE DEF a1, a2, f
    <2>6. Join(a1, a2) = Join(Join(a1, a2), <<>>) /\ Join(a1, a2) \in Seq(C)
        <3>1. Join(a1, a2) \in Seq(C)
        BY ONLY <2>4, Joins
      <3> QED
        BY <3>1, NothingMore
    <2>7. f.val[1] = m.seqno /\ f.val[2] = Text(m.text)
      <3>1. Got(<<"num", "sized">>, Join(Join(a1, a2), <<>>), <<m.seqno, Text(m.text)>>, <<>>)
        BY ONLY <1>0, <2>3, ReadTwo, Zenon
      <3> QED
        BY <2>5, <2>6, <3>1, Parts DEF Got, f
    <2>8. Characters(Text(m.text)) = m.text
      BY <2>1, TextRead
    <2>9. ReadMsg("PLAIN_TEXT", PayloadData(m)) = m
      BY <2>2, <2>7, <2>8 DEF ReadMsg, f
    <2> QED
      BY <2>1, <2>5, <2>6, <2>9 DEF ReadPayload
  <1>4. CASE m \in [type : {"E2E_MSG"}, seqno : Nat, nonce : Nat, text : Names]
    <2> DEFINE a1 == <<Num(m.seqno)>>
               n == <<"nonce", m.nonce>>
               t == <<"tag", m.text>>
               a2 == <<n>>
               a3 == <<t>>
               a4 == Sized(Text(m.text))
               f == ReadFields(<<"num", "cell", "cell", "sized">>, PayloadData(m))
    <2>1. m.type = "E2E_MSG" /\ m.seqno \in Nat /\ m.nonce \in Nat /\ m.text \in Names
      BY <1>4
    <2>2. m = [type |-> "E2E_MSG", seqno |-> m.seqno, nonce |-> m.nonce, text |-> m.text]
      BY <1>4
    <2>3. n \in C /\ t \in C
      BY <2>1 DEF Basic
    <2>4. /\ Piece(C, "num", a1, m.seqno) /\ Piece(C, "cell", a2, n) /\ Piece(C, "cell", a3, t)
          /\ Piece(C, "sized", a4, Text(m.text))
      BY <2>1, <2>3, Pieces
    <2>5. a1 \in Seq(C) /\ a2 \in Seq(C) /\ a3 \in Seq(C) /\ a4 \in Seq(C)
      BY <2>4 DEF Piece
    <2>6. PayloadData(m) = Join(a1, Join(Join(a2, a3), a4))
      <3>1. <<n, t>> = Join(a2, a3)
        BY Paired
      <3>2. PayloadData(m) = a1 \o (<<n, t>> \o a4)
        BY <2>1 DEF PayloadData, MsgData
      <3> QED
        BY <3>1, <3>2 DEF Join
    <2>7. n[2] = m.nonce
      OBVIOUS
    <2> HIDE DEF a1, a2, a3, a4, f, n, t
    <2>8. /\ Join(a1, Join(Join(a2, a3), a4)) = Join(Join(a1, Join(a2, Join(a3, a4))), <<>>)
          /\ Join(a1, Join(Join(a2, a3), a4)) \in Seq(C)
      <3>1. Join(Join(a2, a3), a4) = Join(a2, Join(a3, a4)) /\ Join(a2, Join(a3, a4)) \in Seq(C)
        BY ONLY <2>5, Joins
      <3>2. Join(a1, Join(a2, Join(a3, a4))) \in Seq(C)
        BY ONLY <2>5, <3>1, Joins
      <3> QED
        BY <3>1, <3>2, NothingMore
    <2>9. f.val[1] = m.seqno /\ f.val[2] = n /\ f.val[4] = Text(m.text)
      <3>1. Got(<<"num", "cell", "cell", "sized">>,
                Join(Join(a1, Join(a2, Join(a3, a4))), <<>>),
                <<m.seqno, n, t, Text(m.text)>>, <<>>)
        BY ONLY <1>0, <2>4, ReadFour, Zenon
      <3> QED
        BY <2>6, <2>8, <3>1, Parts DEF Got, f
    <2>10. Characters(Text(m.text)) = m.text
      BY <2>1, TextRead
    <2>11. ReadMsg("E2E_MSG", PayloadData(m)) = m
      BY <2>2, <2>7, <2>9, <2>10 DEF ReadMsg, f
    <2> QED
      BY <2>1, <2>6, <2>8, <2>11 DEF ReadPayload
  <1> QED
    BY <1>1, <1>2, <1>3, <1>4 DEF Payloads

(* A packet is read by its type.                                           *)
LEMMA Dispatched ==
    ASSUME NEW C, Basic(C), NEW e, NEW i \in DOMAIN PacketTypes, NEW name, name = PacketTypes[i],
           NEW a, a = <<Num(IndexIn(PacketTypes, name))>>,
           NEW y \in Seq(C), NEW r \in Seq(C), NEW vals,
           Got(FieldKinds(name, e), Join(Join(a, y), r), vals, r)
    PROVE  /\ Deserialise(Join(Join(a, y), r), e) = Read(Packet(name, vals, e), r)
           /\ Join(a, y) \in Seq(C) /\ Join(a, y) # <<>>
  <1> DEFINE t == IndexIn(PacketTypes, name)
             cells == Join(Join(a, y), r)
  <1>1. t \in DOMAIN PacketTypes /\ PacketTypes[t] = name
    BY DEF IndexIn
  <1>2. t \in Nat
    BY <1>1 DEF PacketTypes
  <1> HIDE DEF t
  <1>3. Num(t) \in C /\ a \in Seq(C) /\ a = <<Num(t)>>
    BY <1>2, NumsAreCells, FirstRead DEF t
  <1>4. cells = Join(a, Join(y, r)) /\ Join(y, r) \in Seq(C) /\ Join(a, y) \in Seq(C)
    <2>1. a \in Seq(C)
      BY <1>3
    <2> QED
      BY ONLY <2>1, y \in Seq(C), r \in Seq(C), Joins
  <1>5. ReadNum(cells) = Read(t, Join(y, r))
    <2> DEFINE z == Join(y, r)
    <2>1. z \in Seq(C) /\ cells = Join(<<Num(t)>>, z)
      BY <1>3, <1>4
    <2> HIDE DEF z, cells
    <2>2. ReadNum(Join(<<Num(t)>>, z)) = Read(t, z)
      BY <1>3, <2>1, FirstRead
    <2> QED
      BY <2>1, <2>2 DEF z
  <1>6. ReadFields(FieldKinds(name, e), cells) = Read(vals, r)
    BY DEF Got
  <1>7. Join(a, y) # <<>>
    BY <1>3, TakenOff DEF Join
  <1> HIDE DEF cells
  <1>8. Deserialise(cells, e) = Read(Packet(name, vals, e), r)
    BY ONLY <1>1, <1>5, <1>6, Parts DEF Deserialise
  <1> QED
    BY <1>4, <1>7, <1>8 DEF cells

(* The type and the number come first.                                     *)
LEMMA HeaderRead ==
    ASSUME NEW C, Basic(C), NEW p, p.seq \in Nat,
           NEW i \in DOMAIN PacketTypes, p.type = PacketTypes[i]
    PROVE  /\ Header(p) = Join(<<Num(IndexIn(PacketTypes, p.type))>>, <<Num(p.seq)>>)
           /\ Piece(C, "num", <<Num(IndexIn(PacketTypes, p.type))>>, IndexIn(PacketTypes, p.type))
           /\ Piece(C, "num", <<Num(p.seq)>>, p.seq)
  <1>1. IndexIn(PacketTypes, p.type) \in DOMAIN PacketTypes
    BY DEF IndexIn
  <1>2. IndexIn(PacketTypes, p.type) \in Nat
    BY <1>1 DEF PacketTypes
  <1> QED
    BY <1>2, Paired, Pieces DEF Header

(* Requests, with and without a field, control packets, lists of users and *)
(* empty packets are read as they were written, but for replyTo.           *)
LEMMA OtherRead ==
    ASSUME NEW C, Basic(C), NEW e, NEW p \in OtherPackets, NEW r \in Seq(C)
    PROVE  /\ Serialise(p, e) \in Seq(C) /\ Serialise(p, e) # <<>>
           /\ Deserialise(Join(Serialise(p, e), r), e) = Read(Written(p), r)
  <1> DEFINE t == IndexIn(PacketTypes, p.type)
             a1 == <<Num(t)>>
             a2 == <<Num(p.seq)>>
  <1>1. /\ p.seq \in Nat
        /\ p.type \in {"REQUEST", "FIELD_REQ", "USER_LIST", "CONTROL", "CONNECTION_SETUP"}
    BY DEF OtherPackets
  <1>2. \E i \in DOMAIN PacketTypes : p.type = PacketTypes[i]
    <2>1. /\ 3 \in DOMAIN PacketTypes /\ 4 \in DOMAIN PacketTypes /\ 5 \in DOMAIN PacketTypes
          /\ 6 \in DOMAIN PacketTypes /\ 7 \in DOMAIN PacketTypes
          /\ PacketTypes[3] = "REQUEST" /\ PacketTypes[4] = "FIELD_REQ"
          /\ PacketTypes[5] = "USER_LIST" /\ PacketTypes[6] = "CONNECTION_SETUP"
          /\ PacketTypes[7] = "CONTROL"
      BY DEF PacketTypes
    <2> QED
      BY <1>1, <2>1
  <1>3. /\ Header(p) = Join(a1, a2) /\ Piece(C, "num", a1, t) /\ Piece(C, "num", a2, p.seq)
        /\ a1 \in Seq(C) /\ a2 \in Seq(C)
    BY <1>1, <1>2, HeaderRead DEF Piece
  <1> HIDE DEF a2, t
  <1>4. ASSUME NEW y \in Seq(C), NEW vals,
               Got(FieldKinds(p.type, e), Join(Join(a1, y), r), vals, r),
               Serialise(p, e) = Join(a1, y), Packet(p.type, vals, e) = Written(p)
        PROVE  /\ Serialise(p, e) \in Seq(C) /\ Serialise(p, e) # <<>>
               /\ Deserialise(Join(Serialise(p, e), r), e) = Read(Written(p), r)
    <2>1. PICK i \in DOMAIN PacketTypes : p.type = PacketTypes[i]
      BY <1>2
    <2>2. a1 = <<Num(IndexIn(PacketTypes, p.type))>>
      BY DEF t
    <2> HIDE DEF a1
    <2>3. /\ Deserialise(Join(Join(a1, y), r), e) = Read(Packet(p.type, vals, e), r)
          /\ Join(a1, y) \in Seq(C) /\ Join(a1, y) # <<>>
      BY <1>4, <2>1, <2>2, Dispatched
    <2> QED
      BY <1>4, <2>3
  <1> HIDE DEF a1
  <1>5. CASE p \in [type : {"CONNECTION_SETUP"}, seq : Nat]
    <2>1. p.type = "CONNECTION_SETUP" /\ p = [type |-> "CONNECTION_SETUP", seq |-> p.seq]
      BY <1>5
    <2>2. Serialise(p, e) = Join(a1, a2)
      <3>1. Serialise(p, e) = Header(p) \o <<>>
        BY <2>1 DEF Serialise
      <3>2. Join(Join(a1, a2), <<>>) = Join(a1, a2)
        <4>1. Join(a1, a2) \in Seq(C)
          BY ONLY <1>3, Joins
        <4> QED
          BY <4>1, NothingMore
      <3> QED
        BY <1>3, <3>1, <3>2 DEF Join
    <2>3. Got(<<"num", "num">>, Join(Join(a1, a2), r), <<t, p.seq>>, r)
      BY ONLY <1>3, r \in Seq(C), ReadTwo, Zenon
    <2>4. FieldKinds(p.type, e) = <<"num", "num">>
      BY <2>1 DEF FieldKinds
    <2>5. Packet(p.type, <<t, p.seq>>, e) = Written(p)
      BY <2>1 DEF Packet, ConnectionSetup, Written
    <2> QED
      BY <1>3, <1>4, <2>2, <2>3, <2>4, <2>5
  <1>6. CASE p \in [type : {"REQUEST"}, seq : Nat, request : Nat]
    <2> DEFINE a3 == <<Num(p.request)>>
    <2>1. /\ p.type = "REQUEST" /\ p.request \in Nat
          /\ p = [type |-> "REQUEST", seq |-> p.seq, request |-> p.request]
      BY <1>6
    <2>2. Piece(C, "num", a3, p.request) /\ a3 \in Seq(C)
      BY <2>1, Pieces DEF Piece
    <2>3. Serialise(p, e) = Join(Join(a1, a2), a3)
      BY <1>3, <2>1 DEF Serialise, RequestFields, Join
    <2> HIDE DEF a3
    <2>4. Serialise(p, e) = Join(a1, Join(a2, a3)) /\ Join(a2, a3) \in Seq(C)
      <3>1. Join(Join(a1, a2), a3) = Join(a1, Join(a2, a3)) /\ Join(a2, a3) \in Seq(C)
        BY ONLY <1>3, <2>2, Joins
      <3> QED
        BY <2>3, <3>1
    <2>5. Got(<<"num", "num", "num">>, Join(Join(a1, Join(a2, a3)), r), <<t, p.seq, p.request>>, r)
      BY ONLY <1>3, <2>2, r \in Seq(C), ReadThree, Zenon
    <2>6. FieldKinds(p.type, e) = <<"num", "num", "num">>
      BY <2>1 DEF FieldKinds
    <2>7. Packet(p.type, <<t, p.seq, p.request>>, e) = Written(p)
      BY <2>1 DEF Packet, Request, Written
    <2> QED
      BY <1>4, <2>4, <2>5, <2>6, <2>7
  <1>7. CASE p \in [type : {"FIELD_REQ"}, seq : Nat, request : Nat, field : Names]
    <2> DEFINE a3 == <<Num(p.request)>>
               a4 == Sized(Text(p.field))
    <2>1. /\ p.type = "FIELD_REQ" /\ p.request \in Nat /\ p.field \in Names
          /\ p = [type |-> "FIELD_REQ", seq |-> p.seq, request |-> p.request, field |-> p.field]
      BY <1>7
    <2>2. /\ Piece(C, "num", a3, p.request) /\ Piece(C, "sized", a4, Text(p.field))
          /\ a3 \in Seq(C) /\ a4 \in Seq(C)
      BY <2>1, Pieces DEF Piece
    <2>3. Serialise(p, e) = Join(Join(a1, a2), Join(a3, a4))
      BY <1>3, <2>1 DEF Serialise, FieldReqFields, Join
    <2> HIDE DEF a3, a4
    <2>4. Serialise(p, e) = Join(a1, Join(a2, Join(a3, a4))) /\ Join(a2, Join(a3, a4)) \in Seq(C)
      <3>1. Join(a3, a4) \in Seq(C)
        BY ONLY <2>2, Joins
      <3>2. /\ Join(Join(a1, a2), Join(a3, a4)) = Join(a1, Join(a2, Join(a3, a4)))
            /\ Join(a2, Join(a3, a4)) \in Seq(C)
        BY ONLY <1>3, <3>1, Joins
      <3> QED
        BY <2>3, <3>2
    <2>5. Got(<<"num", "num", "num", "sized">>, Join(Join(a1, Join(a2, Join(a3, a4))), r),
              <<t, p.seq, p.request, Text(p.field)>>, r)
      BY ONLY <1>3, <2>2, r \in Seq(C), ReadFour, Zenon
    <2>6. FieldKinds(p.type, e) = <<"num", "num", "num", "sized">>
      BY <2>1 DEF FieldKinds
    <2>7. Characters(Text(p.field)) = p.field
      BY <2>1, TextRead
    <2>8. Packet(p.type, <<t, p.seq, p.request, Text(p.field)>>, e) = Written(p)
      BY <2>1, <2>7 DEF Packet, FieldReq, Written
    <2> QED
      BY <1>4, <2>4, <2>5, <2>6, <2>8
  <1>8. CASE p \in [type : {"CONTROL"}, seq : Nat, control : Nat, replyTo : Nat]
    <2> DEFINE n == p.replyTo % Half
               a3 == <<Num(p.control)>>
               a4 == <<Num(n)>>
    <2>1. /\ p.type = "CONTROL" /\ p.control \in Nat /\ p.replyTo \in Nat
          /\ p = [type |-> "CONTROL", seq |-> p.seq, control |-> p.control, replyTo |-> p.replyTo]
      BY <1>8
    <2>2. n \in Nat
      BY <2>1 DEF Half
    <2>3. /\ Piece(C, "num", a3, p.control) /\ Piece(C, "num", a4, n)
          /\ a3 \in Seq(C) /\ a4 \in Seq(C)
      <3> HIDE DEF n
      <3> QED
        BY <2>1, <2>2, Pieces DEF Piece
    <2>4. Serialise(p, e) = Join(Join(a1, a2), Join(a3, a4))
      <3>1. <<Num(p.control), Num(n)>> = Join(a3, a4)
        BY Paired
      <3>2. Serialise(p, e) = Header(p) \o <<Num(p.control), Num(n)>>
        BY <2>1 DEF Serialise, ControlFields
      <3> QED
        BY <1>3, <3>1, <3>2 DEF Join
    <2>5. Packet(p.type, <<t, p.seq, p.control, n>>, e) = Written(p)
      <3>1. Written(p) = [type |-> "CONTROL", seq |-> p.seq, control |-> p.control, replyTo |-> n]
        BY <2>1 DEF Written
      <3> HIDE DEF n
      <3> QED
        BY <2>1, <3>1 DEF Packet, Control
    <2> HIDE DEF a3, a4, n
    <2>6. Serialise(p, e) = Join(a1, Join(a2, Join(a3, a4))) /\ Join(a2, Join(a3, a4)) \in Seq(C)
      <3>1. Join(a3, a4) \in Seq(C)
        BY ONLY <2>3, Joins
      <3>2. /\ Join(Join(a1, a2), Join(a3, a4)) = Join(a1, Join(a2, Join(a3, a4)))
            /\ Join(a2, Join(a3, a4)) \in Seq(C)
        BY ONLY <1>3, <3>1, Joins
      <3> QED
        BY <2>4, <3>2
    <2>7. Got(<<"num", "num", "num", "num">>, Join(Join(a1, Join(a2, Join(a3, a4))), r),
              <<t, p.seq, p.control, n>>, r)
      BY ONLY <1>3, <2>3, r \in Seq(C), ReadFour, Zenon
    <2>8. FieldKinds(p.type, e) = <<"num", "num", "num", "num">>
      BY <2>1 DEF FieldKinds
    <2> QED
      BY <1>4, <2>5, <2>6, <2>7, <2>8
  <1>9. CASE p \in [type : {"USER_LIST"}, seq : Nat, users : Seq(Names)]
    <2> DEFINE v == p.users
               u == [i \in 1 .. Len(v) |-> Text(v[i])]
               a3 == Strings(v)
    <2>1. /\ p.type = "USER_LIST" /\ v \in Seq(Names)
          /\ p = [type |-> "USER_LIST", seq |-> p.seq, users |-> v]
      BY <1>9
    <2>2. Piece(C, "strings", a3, u) /\ a3 \in Seq(C)
      BY <2>1, Pieces DEF Piece
    <2>3. Serialise(p, e) = Join(Join(a1, a2), a3)
      BY <1>3, <2>1 DEF Serialise, UserListFields, Join
    <2>4. [i \in DOMAIN u |-> Characters(u[i])] = v
      <3> HIDE DEF v
      <3>1. \A i \in 1 .. Len(v) : v[i] \in Names
        BY <2>1, ElementOfSeq
      <3>2. \A i \in 1 .. Len(v) : Characters(Text(v[i])) = v[i]
        BY <3>1, TextRead
      <3>3. v = [i \in 1 .. Len(v) |-> v[i]]
        BY <2>1
      <3> QED
        BY <3>2, <3>3
    <2>5. Packet(p.type, <<t, p.seq, u>>, e) = Written(p)
      <3> HIDE DEF u, v
      <3>1. Written(p) = p
        BY <2>1 DEF Written
      <3> QED
        BY <2>1, <2>4, <3>1 DEF Packet, UserList
    <2> HIDE DEF a3, u, v
    <2>6. Serialise(p, e) = Join(a1, Join(a2, a3)) /\ Join(a2, a3) \in Seq(C)
      <3>1. Join(Join(a1, a2), a3) = Join(a1, Join(a2, a3)) /\ Join(a2, a3) \in Seq(C)
        BY ONLY <1>3, <2>2, Joins
      <3> QED
        BY <2>3, <3>1
    <2>7. Got(<<"num", "num", "strings">>, Join(Join(a1, Join(a2, a3)), r), <<t, p.seq, u>>, r)
      BY ONLY <1>3, <2>2, r \in Seq(C), ReadThree, Zenon
    <2>8. FieldKinds(p.type, e) = <<"num", "num", "strings">>
      BY <2>1 DEF FieldKinds
    <2> QED
      BY <1>4, <2>5, <2>6, <2>7, <2>8
  <1> QED
    BY <1>5, <1>6, <1>7, <1>8, <1>9 DEF OtherPackets

(* A message of phase 1 is read as it was written.                         *)
LEMMA EarlyMessageRead ==
    ASSUME NEW C, Basic(C), NEW p \in Messages(EarlyPayloads), NEW r \in Seq(C)
    PROVE  /\ Serialise(p, TRUE) \in Seq(C) /\ Serialise(p, TRUE) # <<>>
           /\ Deserialise(Join(Serialise(p, TRUE), r), TRUE) = Read(Written(p), r)
  <1> DEFINE t == IndexIn(PacketTypes, "MESSAGE")
             a1 == <<Num(t)>>
             a2 == <<Num(p.seq)>>
             a3 == Sized(Text(p.sender))
             a4 == Sized(Text(p.receiver))
             a5 == Sized(Text(p.payload.text))
             vals == <<t, p.seq, Text(p.sender), Text(p.receiver), Text(p.payload.text)>>
             y == Join(a2, Join(a3, Join(a4, a5)))
  <1>1. /\ p.type = "MESSAGE" /\ p.seq \in Nat /\ p.sender \in Names /\ p.receiver \in Names
        /\ p.payload \in EarlyPayloads
        /\ p = [type |-> "MESSAGE", seq |-> p.seq, sender |-> p.sender, receiver |-> p.receiver,
                payload |-> p.payload]
    BY DEF Messages
  <1>2. p.payload.text \in Names /\ p.payload = [type |-> "PLAIN_TEXT", text |-> p.payload.text]
    BY <1>1 DEF EarlyPayloads
  <1>3. 1 \in DOMAIN PacketTypes /\ PacketTypes[1] = "MESSAGE"
    BY DEF PacketTypes
  <1>4. Header(p) = Join(a1, a2) /\ Piece(C, "num", a1, t) /\ Piece(C, "num", a2, p.seq)
    BY <1>1, <1>3, HeaderRead
  <1>5. /\ Piece(C, "sized", a3, Text(p.sender)) /\ Piece(C, "sized", a4, Text(p.receiver))
        /\ Piece(C, "sized", a5, Text(p.payload.text))
    BY <1>1, <1>2, Pieces
  <1>6. a1 \in Seq(C) /\ a2 \in Seq(C) /\ a3 \in Seq(C) /\ a4 \in Seq(C) /\ a5 \in Seq(C)
    BY <1>4, <1>5 DEF Piece
  <1>7. Serialise(p, TRUE) = Join(Join(a1, a2), Join(Join(a3, a4), a5))
    BY <1>1, <1>4 DEF Serialise, EarlyMessageFields, Join
  <1>8. Packet("MESSAGE", vals, TRUE) = Written(p)
    <2>1. /\ Characters(Text(p.sender)) = p.sender /\ Characters(Text(p.receiver)) = p.receiver
          /\ Characters(Text(p.payload.text)) = p.payload.text
      BY <1>1, <1>2, TextRead
    <2>2. Written(p) = p
      BY <1>1 DEF Written
    <2> QED
      BY <1>1, <1>2, <2>1, <2>2 DEF Packet, EarlyMessage
  <1>9. FieldKinds("MESSAGE", TRUE) = <<"num", "num", "sized", "sized", "sized">>
    BY DEF FieldKinds
  <1> HIDE DEF a2, a3, a4, a5, t
  <1>10. Got(<<"num", "num", "sized", "sized", "sized">>, Join(Join(a1, y), r), vals, r)
    <2> HIDE DEF a1
    <2> QED
      BY ONLY <1>4, <1>5, r \in Seq(C), ReadFive, Zenon
  <1>11. Join(Join(a1, a2), Join(Join(a3, a4), a5)) = Join(a1, y) /\ y \in Seq(C)
    <2> HIDE DEF a1
    <2>1. Join(Join(a3, a4), a5) = Join(a3, Join(a4, a5)) /\ Join(a4, a5) \in Seq(C)
      BY ONLY <1>6, Joins
    <2>2. Join(a3, Join(a4, a5)) \in Seq(C)
      BY ONLY <1>6, <2>1, Joins
    <2>3. /\ Join(Join(a1, a2), Join(a3, Join(a4, a5))) = Join(a1, Join(a2, Join(a3, Join(a4, a5))))
          /\ Join(a2, Join(a3, Join(a4, a5))) \in Seq(C)
      BY ONLY <1>6, <2>2, Joins
    <2> QED
      BY <2>1, <2>3
  <1>12. a1 = <<Num(IndexIn(PacketTypes, "MESSAGE"))>>
    BY DEF t
  <1> HIDE DEF a1, y, vals
  <1>13. /\ Deserialise(Join(Join(a1, y), r), TRUE) = Read(Packet("MESSAGE", vals, TRUE), r)
         /\ Join(a1, y) \in Seq(C) /\ Join(a1, y) # <<>>
    <2> DEFINE e == TRUE
               name == "MESSAGE"
    <2>1. Got(FieldKinds(name, e), Join(Join(a1, y), r), vals, r)
      BY <1>9, <1>10
    <2>2. /\ 1 \in DOMAIN PacketTypes /\ name = PacketTypes[1]
          /\ a1 = <<Num(IndexIn(PacketTypes, name))>>
      BY <1>3, <1>12
    <2> HIDE DEF e, name
    <2>3. /\ Deserialise(Join(Join(a1, y), r), e) = Read(Packet(name, vals, e), r)
          /\ Join(a1, y) \in Seq(C) /\ Join(a1, y) # <<>>
      BY <1>11, <2>1, <2>2, Dispatched
    <2> QED
      BY <2>3 DEF e, name
  <1> QED
    BY <1>7, <1>8, <1>11, <1>13

(* A message is read as it was written since then, with its payload.       *)
LEMMA MessageRead ==
    ASSUME NEW C, Basic(C), NEW p \in Messages(Payloads), NEW r \in Seq(C)
    PROVE  /\ Serialise(p, FALSE) \in Seq(C) /\ Serialise(p, FALSE) # <<>>
           /\ Deserialise(Join(Serialise(p, FALSE), r), FALSE) = Read(Written(p), r)
  <1> DEFINE t == IndexIn(PacketTypes, "MESSAGE")
             k == IndexIn(PayloadTypes, p.payload.type)
             d == PayloadData(p.payload)
             a1 == <<Num(t)>>
             a2 == <<Num(p.seq)>>
             a3 == Sized(Text(p.sender))
             a4 == Sized(Text(p.receiver))
             a5 == <<Num(k)>>
             a6 == Sized(d)
             vals == <<t, p.seq, Text(p.sender), Text(p.receiver), k, d>>
             y == Join(a2, Join(a3, Join(a4, Join(a5, a6))))
  <1>1. /\ p.type = "MESSAGE" /\ p.seq \in Nat /\ p.sender \in Names /\ p.receiver \in Names
        /\ p.payload \in Payloads
        /\ p = [type |-> "MESSAGE", seq |-> p.seq, sender |-> p.sender, receiver |-> p.receiver,
                payload |-> p.payload]
    BY DEF Messages
  <1>2. k \in DOMAIN PayloadTypes /\ PayloadTypes[k] = p.payload.type
    <2>1. p.payload.type \in {"PLAIN_TEXT", "E2E_INIT", "E2E_ACK", "E2E_MSG"}
      BY <1>1 DEF Payloads
    <2>2. \E i \in DOMAIN PayloadTypes : PayloadTypes[i] = p.payload.type
      <3>1. /\ 1 \in DOMAIN PayloadTypes /\ 2 \in DOMAIN PayloadTypes
            /\ 3 \in DOMAIN PayloadTypes /\ 4 \in DOMAIN PayloadTypes
            /\ PayloadTypes[1] = "PLAIN_TEXT" /\ PayloadTypes[2] = "E2E_INIT"
            /\ PayloadTypes[3] = "E2E_ACK" /\ PayloadTypes[4] = "E2E_MSG"
        BY DEF PayloadTypes
      <3> QED
        BY <2>1, <3>1
    <2> QED
      BY <2>2 DEF IndexIn
  <1>3. 1 \in DOMAIN PacketTypes /\ PacketTypes[1] = "MESSAGE"
    BY DEF PacketTypes
  <1>4. Header(p) = Join(a1, a2) /\ Piece(C, "num", a1, t) /\ Piece(C, "num", a2, p.seq)
    BY <1>1, <1>3, HeaderRead
  <1>5. /\ Piece(C, "sized", a3, Text(p.sender)) /\ Piece(C, "sized", a4, Text(p.receiver))
        /\ Piece(C, "num", a5, k) /\ Piece(C, "sized", a6, d)
    <2>1. k \in Nat
      BY <1>2 DEF PayloadTypes
    <2>2. d \in Seq(C)
      BY <1>1, PayloadRead
    <2> HIDE DEF k, d
    <2> QED
      BY <1>1, <2>1, <2>2, Pieces
  <1>6. /\ a1 \in Seq(C) /\ a2 \in Seq(C) /\ a3 \in Seq(C) /\ a4 \in Seq(C) /\ a5 \in Seq(C)
        /\ a6 \in Seq(C)
    BY <1>4, <1>5 DEF Piece
  <1>7. Serialise(p, FALSE) = Join(Join(a1, a2), Join(Join(Join(a3, a4), a5), a6))
    BY <1>1, <1>4 DEF Serialise, MessageFields, Join
  <1>8. Packet("MESSAGE", vals, FALSE) = Written(p)
    <2>1. Characters(Text(p.sender)) = p.sender /\ Characters(Text(p.receiver)) = p.receiver
      BY <1>1, TextRead
    <2>2. ReadPayload(PayloadTypes[k], d) = p.payload
      BY <1>1, <1>2, PayloadRead
    <2>3. Written(p) = p
      BY <1>1 DEF Written
    <2> HIDE DEF k, d
    <2> QED
      BY <1>1, <2>1, <2>2, <2>3 DEF Packet, Message
  <1>9. FieldKinds("MESSAGE", FALSE) = <<"num", "num", "sized", "sized", "num", "sized">>
    BY DEF FieldKinds
  <1> HIDE DEF a2, a3, a4, a5, a6, t, k, d
  <1>10. Got(<<"num", "num", "sized", "sized", "num", "sized">>, Join(Join(a1, y), r), vals, r)
    <2> HIDE DEF a1
    <2> QED
      BY ONLY <1>4, <1>5, r \in Seq(C), ReadSix, Zenon
  <1>11. Join(Join(a1, a2), Join(Join(Join(a3, a4), a5), a6)) = Join(a1, y) /\ y \in Seq(C)
    <2> HIDE DEF a1
    <2>1. Join(Join(a3, a4), a5) = Join(a3, Join(a4, a5)) /\ Join(a4, a5) \in Seq(C)
      BY ONLY <1>6, Joins
    <2>2. /\ Join(Join(a3, Join(a4, a5)), a6) = Join(a3, Join(Join(a4, a5), a6))
          /\ Join(Join(a4, a5), a6) = Join(a4, Join(a5, a6))
          /\ Join(Join(a4, a5), a6) \in Seq(C)
      BY ONLY <1>6, <2>1, Joins
    <2>3. Join(a3, Join(a4, Join(a5, a6))) \in Seq(C)
      BY <1>6, <2>2, Joins
    <2>4. /\ Join(Join(a1, a2), Join(a3, Join(a4, Join(a5, a6)))) = Join(a1, y)
          /\ y \in Seq(C)
      <3> DEFINE z == Join(a3, Join(a4, Join(a5, a6)))
      <3>1. z \in Seq(C)
        BY <2>3
      <3> HIDE DEF z
      <3>2. Join(Join(a1, a2), z) = Join(a1, Join(a2, z)) /\ Join(a2, z) \in Seq(C)
        BY ONLY <1>6, <3>1, Joins
      <3> QED
        BY <3>2 DEF z
    <2> QED
      BY <2>1, <2>2, <2>4
  <1>12. a1 = <<Num(IndexIn(PacketTypes, "MESSAGE"))>>
    BY DEF t
  <1> HIDE DEF a1, y, vals
  <1>13. /\ Deserialise(Join(Join(a1, y), r), FALSE) = Read(Packet("MESSAGE", vals, FALSE), r)
         /\ Join(a1, y) \in Seq(C) /\ Join(a1, y) # <<>>
    <2> DEFINE e == FALSE
               name == "MESSAGE"
    <2>1. Got(FieldKinds(name, e), Join(Join(a1, y), r), vals, r)
      BY <1>9, <1>10
    <2>2. /\ 1 \in DOMAIN PacketTypes /\ name = PacketTypes[1]
          /\ a1 = <<Num(IndexIn(PacketTypes, name))>>
      BY <1>3, <1>12
    <2> HIDE DEF e, name
    <2>3. /\ Deserialise(Join(Join(a1, y), r), e) = Read(Packet(name, vals, e), r)
          /\ Join(a1, y) \in Seq(C) /\ Join(a1, y) # <<>>
      BY <1>11, <2>1, <2>2, Dispatched
    <2> QED
      BY <2>3 DEF e, name
  <1> QED
    BY <1>7, <1>8, <1>11, <1>13

(* Whatever may be sent is read as it was written, whatever comes behind.  *)
THEOREM RoundTrip ==
    ASSUME NEW C, Basic(C), NEW e \in BOOLEAN, NEW p \in IF e THEN EarlyPackets ELSE Packets,
           NEW r \in Seq(C)
    PROVE  /\ Serialise(p, e) \in Seq(C) /\ Serialise(p, e) # <<>>
           /\ Deserialise(Join(Serialise(p, e), r), e) = Read(Written(p), r)
  <1>1. CASE e
    <2>1. e = TRUE /\ p \in Messages(EarlyPayloads) \cup OtherPackets
      BY <1>1, TransportAssumption
    <2>2. CASE p \in Messages(EarlyPayloads)
      BY <2>1, <2>2, EarlyMessageRead
    <2>3. CASE p \in OtherPackets
      BY <2>3, OtherRead
    <2> QED
      BY <2>1, <2>2, <2>3
  <1>2. CASE ~e
    <2>1. e = FALSE /\ p \in Messages(Payloads) \cup OtherPackets
      BY <1>2, TransportAssumption
    <2>2. CASE p \in Messages(Payloads)
      BY <2>1, <2>2, MessageRead
    <2>3. CASE p \in OtherPackets
      BY <2>3, OtherRead
    <2> QED
      BY <2>1, <2>2, <2>3
  <1> QED
    BY <1>1, <1>2

-----------------------------------------------------------------------------
(* What could be read can be read whatever comes behind it, and nothing of *)
(* that is taken.                                                          *)

Counting(C) == \A c \in C : c[1] = "num" => c[2] \in Nat

Lasting(C, kind) ==
    \A x, y \in Seq(C) :
       ReadKind(kind, x).ok =>
          /\ ReadKind(kind, x).rest \in Seq(C)
          /\ ReadKind(kind, Join(x, y)) = Read(ReadKind(kind, x).val, Join(ReadKind(kind, x).rest, y))

Lasts(C, n, kinds) == \A i \in 1 .. n : Lasting(C, kinds[i])

(* What is behind is behind the tail.                                      *)
LEMMA HeadJoin ==
    ASSUME NEW C, NEW x \in Seq(C), NEW y \in Seq(C), x # <<>>
    PROVE  /\ Head(x) \in C /\ Tail(x) \in Seq(C)
           /\ Join(x, y) # <<>> /\ Head(Join(x, y)) = Head(x) /\ Tail(Join(x, y)) = Join(Tail(x), y)
  <1> DEFINE h == <<Head(x)>>
             t == Tail(x)
             z == Join(t, y)
  <1>1. Head(x) \in C /\ t \in Seq(C) /\ h \in Seq(C)
    <2>1. Head(x) \in C /\ t \in Seq(C)
      BY HeadTailProperties
    <2> QED
      BY <2>1
  <1>2. x = Join(h, t)
    <2>1. x = <<Head(x)>> \o Tail(x)
      <3>1. /\ <<Head(x)>> \o Tail(x) \in Seq(C) /\ Len(<<Head(x)>> \o Tail(x)) = Len(Tail(x)) + 1
            /\ <<Head(x)>> \o Tail(x) # <<>>
            /\ Head(<<Head(x)>> \o Tail(x)) = Head(x) /\ Tail(<<Head(x)>> \o Tail(x)) = Tail(x)
        <4> DEFINE a == Head(x)
                   b == Tail(x)
        <4>1. a \in C /\ b \in Seq(C)
          BY <1>1
        <4> HIDE DEF a, b
        <4>2. /\ <<a>> \o b \in Seq(C) /\ Len(<<a>> \o b) = Len(b) + 1 /\ <<a>> \o b # <<>>
              /\ Head(<<a>> \o b) = a /\ Tail(<<a>> \o b) = b
          BY <4>1, TakenOff
        <4> QED
          BY <4>2 DEF a, b
      <3> DEFINE w == <<Head(x)>> \o Tail(x)
      <3> HIDE DEF w
      <3>2. w \in Seq(C) /\ w # <<>> /\ Head(w) = Head(x) /\ Tail(w) = Tail(x)
        BY <3>1 DEF w
      <3>3. w = x
        <4>1. /\ Len(w) = Len(x) /\ w[1] = x[1]
              /\ \A i \in 1 .. Len(x) - 1 : w[i + 1] = x[i + 1]
          <5>1. /\ Len(Tail(w)) = Len(w) - 1 /\ Len(Tail(x)) = Len(x) - 1
                /\ \A i \in 1 .. Len(Tail(w)) : Tail(w)[i] = w[i + 1]
                /\ \A i \in 1 .. Len(Tail(x)) : Tail(x)[i] = x[i + 1]
            BY <3>2, HeadTailProperties
          <5>2. Len(w) = Len(x)
            <6>1. Len(w) \in Nat /\ Len(x) \in Nat
              BY <3>2, LenProperties
            <6>2. Len(w) - 1 = Len(x) - 1
              BY <3>2, <5>1
            <6> QED
              BY <6>1, <6>2
          <5>3. w[1] = x[1]
            BY <3>2
          <5>4. \A i \in 1 .. Len(x) - 1 : w[i + 1] = x[i + 1]
            BY <3>2, <5>1, <5>2
          <5> QED
            BY <5>2, <5>3, <5>4
        <4>2. ASSUME NEW i \in 1 .. Len(x) PROVE w[i] = x[i]
          <5>1. Len(x) \in Nat
            BY LenProperties
          <5>2. i = 1 \/ (i - 1 \in 1 .. Len(x) - 1 /\ (i - 1) + 1 = i)
            BY <5>1
          <5> QED
            BY <4>1, <5>2
        <4> QED
          BY <3>2, <4>1, <4>2, SeqEqual
      <3> QED
        BY <3>3 DEF w
    <2> QED
      BY <2>1 DEF Join
  <1> HIDE DEF h, t
  <1>3. Join(Join(h, t), y) = Join(h, z) /\ z \in Seq(C)
    BY ONLY <1>1, y \in Seq(C), Joins
  <1> HIDE DEF z
  <1>4. Join(x, y) = Join(h, z)
    BY <1>2, <1>3
  <1>5. Join(h, z) # <<>> /\ Head(Join(h, z)) = Head(x) /\ Tail(Join(h, z)) = z
    <2> DEFINE a == Head(x)
    <2>1. a \in C
      BY <1>1
    <2> HIDE DEF a
    <2>2. Join(<<a>>, z) # <<>> /\ Head(Join(<<a>>, z)) = a /\ Tail(Join(<<a>>, z)) = z
      BY <1>3, <2>1, TakenOff DEF Join
    <2> QED
      BY <2>2 DEF a, h
  <1> QED
    BY <1>1, <1>4, <1>5 DEF t, z

(* A number that could be read is read whatever comes behind it.           *)
LEMMA NumLasts == ASSUME NEW C PROVE Lasting(C, "num")
  <1> SUFFICES ASSUME NEW x \in Seq(C), NEW y \in Seq(C), ReadNum(x).ok
               PROVE  /\ ReadNum(x).rest \in Seq(C)
                      /\ ReadNum(Join(x, y)) = Read(ReadNum(x).val, Join(ReadNum(x).rest, y))
    BY DEF Lasting, ReadKind
  <1>1. x # <<>> /\ Head(x)[1] = "num" /\ ReadNum(x) = Read(Head(x)[2], Tail(x))
    BY Parts DEF ReadNum
  <1>2. /\ Tail(x) \in Seq(C) /\ Join(x, y) # <<>> /\ Head(Join(x, y)) = Head(x)
        /\ Tail(Join(x, y)) = Join(Tail(x), y)
    BY <1>1, HeadJoin
  <1>3. ReadNum(Join(x, y)) = Read(Head(x)[2], Join(Tail(x), y))
    BY <1>1, <1>2 DEF ReadNum
  <1>4. ReadNum(x).val = Head(x)[2] /\ ReadNum(x).rest = Tail(x)
    BY <1>1 DEF Read
  <1> QED
    BY <1>2, <1>3, <1>4

(* So is what is read by its size.                                         *)
LEMMA SizedLasts == ASSUME NEW C, Counting(C) PROVE Lasting(C, "sized")
  <1> SUFFICES ASSUME NEW x \in Seq(C), NEW y \in Seq(C), ReadSized(x).ok
               PROVE  /\ ReadSized(x).rest \in Seq(C)
                      /\ ReadSized(Join(x, y)) = Read(ReadSized(x).val, Join(ReadSized(x).rest, y))
    BY DEF Lasting, ReadKind
  <1> DEFINE size == ReadNum(x)
             n == size.val
             s == size.rest
             a == SubSeq(s, 1, n)
             b == After(s, n)
             t == Join(s, y)
  <1>1. size.ok /\ n <= Len(s) /\ ReadSized(x) = Read(a, b)
    BY Parts DEF ReadSized, After
  <1>2. s \in Seq(C) /\ ReadNum(Join(x, y)) = Read(n, Join(s, y))
    BY <1>1, NumLasts DEF Lasting, ReadKind
  <1>3. n \in Nat
    <2>1. x # <<>> /\ Head(x)[1] = "num" /\ ReadNum(x) = Read(Head(x)[2], Tail(x))
      BY <1>1, Parts DEF ReadNum
    <2>2. Head(x) \in C
      BY <2>1, HeadTailProperties
    <2> QED
      BY <2>1, <2>2, Parts DEF Counting
  <1> HIDE DEF size, n, s
  <1>4. n \in 0 .. Len(s) /\ Len(s) \in Nat
    BY <1>1, <1>2, <1>3, LenProperties
  <1>5. /\ b \in Seq(C) /\ SubSeq(t, 1, n) = a
        /\ After(t, n) = Join(b, y)
    <2>1. s \in Seq(C) /\ n \in 0 .. Len(s)
      BY <1>2, <1>4
    <2> QED
      BY ONLY y \in Seq(C), <2>1, Longer
  <1>6. n <= Len(t)
    <2>1. Len(t) = Len(s) + Len(y) /\ Len(y) \in Nat
      BY <1>2, ConcatProperties, LenProperties DEF Join
    <2> HIDE DEF t
    <2> QED
      BY <1>4, <2>1
  <1> HIDE DEF a, b, t
  <1>7. ReadSized(Join(x, y)) = Read(SubSeq(t, 1, n), After(t, n))
    <2>1. ReadNum(Join(x, y)) = Read(n, t)
      BY <1>2 DEF t
    <2> QED
      BY <1>6, <2>1, Parts DEF ReadSized, After
  <1>8. ReadSized(x).val = a /\ ReadSized(x).rest = b
    BY <1>1, Parts
  <1> QED
    BY <1>5, <1>7, <1>8

(* So it is with any number of fields.                                     *)
LEMMA Further ==
    ASSUME NEW C, NEW n \in Nat, NEW kinds, Lasts(C, n, kinds),
           NEW x \in Seq(C), NEW y \in Seq(C), NEW f, NEW g,
           f[0] = Read(<<>>, x), g[0] = Read(<<>>, Join(x, y)),
           OneByOne(f, n, kinds), OneByOne(g, n, kinds), f[n].ok
    PROVE  f[n].rest \in Seq(C) /\ g[n] = Read(f[n].val, Join(f[n].rest, y))
  <1> DEFINE Same(i) == f[i].rest \in Seq(C) /\ g[i] = Read(f[i].val, Join(f[i].rest, y))
             T == {i \in Nat : i <= n /\ f[i].ok => Same(i)}
  <1>1. 0 \in T
    BY Parts
  <1>2. ASSUME NEW i \in T PROVE i + 1 \in T
    <2>1. i \in Nat /\ i + 1 \in Nat
      OBVIOUS
    <2> SUFFICES ASSUME i + 1 <= n, f[i + 1].ok PROVE Same(i + 1)
      BY <2>1
    <2>2. i + 1 \in 1 .. n /\ (i + 1) - 1 = i /\ i <= n
      BY <2>1
    <2> DEFINE k == kinds[i + 1]
               r == ReadKind(k, f[i].rest)
    <2>3. f[i + 1] = Another(f[i], r) /\ g[i + 1] = Another(g[i], ReadKind(k, g[i].rest))
      BY <2>2 DEF OneByOne, NextField
    <2>4. f[i].ok /\ r.ok /\ f[i + 1] = Read(Append(f[i].val, r.val), r.rest)
      <3> HIDE DEF r, T
      <3> QED
        BY <2>3, Parts DEF Another
    <2>5. Same(i)
      BY <2>2, <2>4
    <2>6. r.rest \in Seq(C) /\ ReadKind(k, Join(f[i].rest, y)) = Read(r.val, Join(r.rest, y))
      BY <2>2, <2>4, <2>5 DEF Lasts, Lasting
    <2> HIDE DEF r, k, T
    <2>7. g[i + 1] = Read(Append(f[i].val, r.val), Join(r.rest, y))
      BY <2>3, <2>4, <2>5, <2>6, Parts DEF Another
    <2> QED
      BY <2>4, <2>6, <2>7, Parts
  <1>3. T = Nat
    <2> T \subseteq Nat
      OBVIOUS
    <2> HIDE DEF T
    <2> QED
      BY <1>1, <1>2, NatSet
  <1>4. n \in T
    <2> HIDE DEF T
    <2> QED
      BY <1>3
  <1> QED
    BY <1>4

(* So are strings, one after the other.                                    *)
LEMMA StringsLast == ASSUME NEW C, Counting(C) PROVE Lasting(C, "strings")
  <1> SUFFICES ASSUME NEW x \in Seq(C), NEW y \in Seq(C), ReadStrings(x).ok
               PROVE  /\ ReadStrings(x).rest \in Seq(C)
                      /\ ReadStrings(Join(x, y))
                         = Read(ReadStrings(x).val, Join(ReadStrings(x).rest, y))
    BY DEF Lasting, ReadKind
  <1> DEFINE size == ReadNum(x)
             n == size.val
             s == size.rest
             kinds == [i \in 1 .. n |-> "sized"]
  <1>1. size.ok
    BY Parts DEF ReadStrings
  <1>2. s \in Seq(C) /\ ReadNum(Join(x, y)) = Read(n, Join(s, y))
    BY <1>1, NumLasts DEF Lasting, ReadKind
  <1>3. n \in Nat
    <2>1. x # <<>> /\ Head(x)[1] = "num" /\ ReadNum(x) = Read(Head(x)[2], Tail(x))
      BY <1>1, Parts DEF ReadNum
    <2>2. Head(x) \in C
      BY <2>1, HeadTailProperties
    <2> QED
      BY <2>1, <2>2, Parts DEF Counting
  <1>4. \A i \in 1 .. n : kinds[i] = "sized"
    OBVIOUS
  <1>5. PICK f : /\ f[0] = Read(<<>>, s)
                 /\ \A i \in 1 .. n : f[i] = NextField(f[i - 1], "sized")
                 /\ ReadStrings(x) = f[n]
    BY <1>1, <1>3, StringsDefined
  <1> HIDE DEF n, s, kinds
  <1>6. PICK g : /\ g[0] = Read(<<>>, Join(s, y))
                 /\ \A i \in 1 .. n : g[i] = NextField(g[i - 1], "sized")
                 /\ ReadStrings(Join(x, y)) = g[n]
    <2> DEFINE other == ReadNum(Join(x, y))
    <2>1. other.ok /\ other.val = n /\ other.rest = Join(s, y)
      BY <1>2, Parts
    <2>2. other = ReadNum(Join(x, y))
      OBVIOUS
    <2> HIDE DEF other
    <2>3. \E g : /\ g[0] = Read(<<>>, other.rest)
                 /\ \A i \in 1 .. other.val : g[i] = NextField(g[i - 1], "sized")
                 /\ ReadStrings(Join(x, y)) = g[other.val]
      BY <1>3, <2>1, <2>2, StringsDefined
    <2> QED
      BY <2>1, <2>3
  <1>7. OneByOne(f, n, kinds) /\ OneByOne(g, n, kinds)
    BY <1>4, <1>5, <1>6 DEF OneByOne
  <1>8. Lasts(C, n, kinds)
    BY <1>4, SizedLasts DEF Lasts
  <1>9. f[n].ok
    BY <1>5
  <1>10. f[n].rest \in Seq(C) /\ g[n] = Read(f[n].val, Join(f[n].rest, y))
    <2>1. s \in Seq(C) /\ n \in Nat /\ f[0] = Read(<<>>, s) /\ g[0] = Read(<<>>, Join(s, y))
      BY <1>2, <1>3, <1>5, <1>6
    <2> QED
      BY ONLY y \in Seq(C), <1>7, <1>8, <1>9, <2>1, Further
  <1> QED
    BY <1>5, <1>6, <1>10

(* So it is with a packet.                                                 *)
LEMMA PacketLasts ==
    ASSUME NEW C, Counting(C), NEW e, NEW x \in Seq(C), NEW y \in Seq(C), Deserialise(x, e).ok
    PROVE  /\ Deserialise(x, e).rest \in Seq(C)
           /\ Deserialise(Join(x, y), e)
              = Read(Deserialise(x, e).val, Join(Deserialise(x, e).rest, y))
  <1> DEFINE type == ReadNum(x)
             name == PacketTypes[type.val]
             kinds == FieldKinds(name, e)
             n == Len(kinds)
             f == ReadFields(kinds, x)
             g == ReadFields(kinds, Join(x, y))
  <1>1. /\ type.ok /\ type.val \in DOMAIN PacketTypes /\ f.ok
        /\ Deserialise(x, e) = Read(Packet(name, f.val, e), f.rest)
    BY Parts DEF Deserialise
  <1>2. ReadNum(Join(x, y)) = Read(type.val, Join(type.rest, y))
    BY <1>1, NumLasts DEF Lasting, ReadKind
  <1>3. n \in Nat /\ \A i \in 1 .. n : kinds[i] \in {"num", "sized", "strings"}
    BY DEF FieldKinds
  <1>4. Lasts(C, n, kinds)
    BY <1>3, NumLasts, SizedLasts, StringsLast DEF Lasts
  <1> HIDE DEF kinds
  <1>5. PICK u : /\ u[0] = Read(<<>>, x)
                 /\ \A i \in 1 .. n : u[i] = NextField(u[i - 1], kinds[i])
                 /\ f = u[n]
    BY <1>3, FieldsDefined
  <1>6. PICK v : /\ v[0] = Read(<<>>, Join(x, y))
                 /\ \A i \in 1 .. n : v[i] = NextField(v[i - 1], kinds[i])
                 /\ g = v[n]
    BY <1>3, FieldsDefined
  <1>7. OneByOne(u, n, kinds) /\ OneByOne(v, n, kinds)
    BY <1>5, <1>6 DEF OneByOne
  <1> HIDE DEF f, g, n
  <1>8. f.rest \in Seq(C) /\ g = Read(f.val, Join(f.rest, y))
    <2>1. u[n].ok
      BY <1>1, <1>5
    <2>2. u[n].rest \in Seq(C) /\ v[n] = Read(u[n].val, Join(u[n].rest, y))
      <3>1. u[0] = Read(<<>>, x) /\ v[0] = Read(<<>>, Join(x, y)) /\ n \in Nat
        BY <1>3, <1>5, <1>6
      <3> QED
        BY ONLY x \in Seq(C), y \in Seq(C), <1>4, <1>7, <2>1, <3>1, Further
    <2> QED
      BY <1>5, <1>6, <2>2
  <1> HIDE DEF type, name
  <1>9. Deserialise(Join(x, y), e) = Read(Packet(name, f.val, e), Join(f.rest, y))
    <2>1. PacketTypes[type.val] = name /\ FieldKinds(name, e) = kinds
      BY DEF name, kinds
    <2>2. ReadFields(kinds, Join(x, y)) = Read(f.val, Join(f.rest, y))
      BY <1>8 DEF g
    <2> QED
      BY ONLY <1>1, <1>2, <2>1, <2>2, Parts DEF Deserialise
  <1> QED
    BY <1>1, <1>8, <1>9, Parts

-----------------------------------------------------------------------------
(* What is on a connection: packets as they are written in phase 1, frames *)
(* since then.                                                             *)

Plain == {"num"} \X Nat \cup {"char"} \X Chars \cup {"nonce"} \X Nat \cup {"tag"} \X Names
SealedCells == {"sealed"} \X Plain
Framed ==
    {"num"} \X Nat \cup {"nonce"} \X Nat \cup SealedCells
    \cup {"tag"} \X (Nat \X Seq(SealedCells))

(* The readers know these cells.                                           *)
LEMMA CellSets == Basic(Plain) /\ Counting(Plain) /\ Counting(Framed)
  BY DEF Basic, Counting, Plain, Framed, SealedCells

Sendable(e) == IF e THEN EarlyPackets ELSE Packets

(* What phase 1 sent behind the first m packets, packet by packet.         *)
UnreadPackets(s, m) == [i \in 1 .. Len(s) - m |-> Serialise(s[m + i], TRUE)]

(* They are sequences of cells, as many as there are packets.              *)
LEMMA UnreadType ==
    ASSUME NEW s \in Seq(EarlyPackets), NEW m \in 0 .. Len(s)
    PROVE  /\ UnreadPackets(s, m) \in Seq(Seq(Plain)) /\ Len(UnreadPackets(s, m)) = Len(s) - m
           /\ Len(s) - m \in Nat
           /\ \A i \in 1 .. Len(s) - m :
                 UnreadPackets(s, m)[i] = Serialise(s[m + i], TRUE) /\ s[m + i] \in EarlyPackets
  <1> DEFINE n == Len(s) - m
             u == [i \in 1 .. n |-> Serialise(s[m + i], TRUE)]
  <1>1. n \in Nat /\ Len(s) \in Nat
    BY LenProperties
  <1>2. \A i \in 1 .. n : s[m + i] \in EarlyPackets
    <2> TAKE i \in 1 .. n
    <2>1. m + i \in 1 .. Len(s)
      BY <1>1
    <2> QED
      BY <2>1, ElementOfSeq
  <1>3. \A p \in EarlyPackets : Serialise(p, TRUE) \in Seq(Plain)
    <2> TAKE p \in EarlyPackets
    <2>1. <<>> \in Seq(Plain)
      OBVIOUS
    <2>2. TRUE \in BOOLEAN /\ p \in IF TRUE THEN EarlyPackets ELSE Packets
      OBVIOUS
    <2> QED
      BY <2>1, <2>2, CellSets, RoundTrip
  <1>4. u \in [1 .. n -> Seq(Plain)] /\ \A i \in 1 .. n : u[i] = Serialise(s[m + i], TRUE)
    BY <1>2, <1>3
  <1>5. u = UnreadPackets(s, m)
    BY DEF UnreadPackets
  <1> HIDE DEF u, n
  <1>6. u \in Seq(Seq(Plain)) /\ Len(u) = n
    BY <1>1, <1>4
  <1> QED
    BY <1>1, <1>2, <1>4, <1>5, <1>6 DEF n

(* A packet that is sent comes behind them.                                *)
LEMMA UnreadSent ==
    ASSUME NEW s \in Seq(EarlyPackets), NEW m \in 0 .. Len(s), NEW p \in EarlyPackets
    PROVE  /\ Append(s, p) \in Seq(EarlyPackets) /\ m \in 0 .. Len(Append(s, p))
           /\ UnreadPackets(Append(s, p), m) = Append(UnreadPackets(s, m), Serialise(p, TRUE))
  <1> DEFINE t == Append(s, p)
             u == UnreadPackets(s, m)
             v == UnreadPackets(t, m)
             x == Serialise(p, TRUE)
             n == Len(s) - m
  <1>1. /\ t \in Seq(EarlyPackets) /\ Len(t) = Len(s) + 1 /\ Len(s) \in Nat
        /\ \A i \in 1 .. Len(s) : t[i] = s[i]
        /\ t[Len(s) + 1] = p
    BY AppendProperties, LenProperties
  <1> HIDE DEF t
  <1>2. m \in 0 .. Len(t)
    BY <1>1
  <1>3. /\ u \in Seq(Seq(Plain)) /\ Len(u) = n /\ n \in Nat
        /\ \A i \in 1 .. n : u[i] = Serialise(s[m + i], TRUE)
    BY UnreadType
  <1>4. /\ v \in Seq(Seq(Plain)) /\ Len(v) = n + 1
        /\ \A i \in 1 .. n + 1 : v[i] = Serialise(t[m + i], TRUE)
    <2>1. Len(t) - m = n + 1
      BY <1>1
    <2> QED
      BY <1>1, <1>2, <2>1, UnreadType
  <1>5. m + (n + 1) = Len(s) + 1 /\ \A i \in 1 .. n : m + i \in 1 .. Len(s)
    BY <1>1
  <1> HIDE DEF u, v, n, x
  <1>6. x \in Seq(Plain)
    <2>1. n + 1 \in 1 .. n + 1
      BY <1>3
    <2>2. v[n + 1] = x
      BY <1>1, <1>4, <1>5, <2>1 DEF x
    <2> QED
      BY <1>4, <2>1, <2>2, ElementOfSeq
  <1>7. /\ Append(u, x) \in Seq(Seq(Plain)) /\ Len(Append(u, x)) = n + 1
        /\ \A i \in 1 .. n : Append(u, x)[i] = u[i]
        /\ Append(u, x)[n + 1] = x
    BY <1>3, <1>6, AppendProperties
  <1>8. ASSUME NEW i \in 1 .. n + 1 PROVE v[i] = Append(u, x)[i]
    <2>1. CASE i \in 1 .. n
      BY <1>1, <1>3, <1>4, <1>5, <1>7, <2>1
    <2>2. CASE i = n + 1
      BY <1>1, <1>4, <1>5, <1>7, <2>2 DEF x
    <2> QED
      BY <1>3, <2>1, <2>2
  <1>9. v = Append(u, x)
    BY <1>4, <1>7, <1>8, SeqEqual
  <1> QED
    BY <1>1, <1>2, <1>9 DEF t, u, v, x

(* The first of them is the next to be returned.                           *)
LEMMA UnreadPassed ==
    ASSUME NEW s \in Seq(EarlyPackets), NEW m \in 0 .. Len(s), m # Len(s)
    PROVE  /\ m + 1 \in 0 .. Len(s) /\ s[m + 1] \in EarlyPackets
           /\ UnreadPackets(s, m) # <<>> /\ UnreadPackets(s, m)[1] = Serialise(s[m + 1], TRUE)
           /\ Tail(UnreadPackets(s, m)) = UnreadPackets(s, m + 1)
  <1> DEFINE u == UnreadPackets(s, m)
             v == UnreadPackets(s, m + 1)
             n == Len(s) - m
             t == Tail(u)
  <1>1. Len(s) \in Nat /\ n \in Nat \ {0} /\ m + 1 \in 0 .. Len(s) /\ Len(s) - (m + 1) = n - 1
    BY LenProperties
  <1>2. /\ u \in Seq(Seq(Plain)) /\ Len(u) = n
        /\ \A i \in 1 .. n : u[i] = Serialise(s[m + i], TRUE) /\ s[m + i] \in EarlyPackets
    BY UnreadType
  <1>3. /\ v \in Seq(Seq(Plain)) /\ Len(v) = n - 1
        /\ \A i \in 1 .. n - 1 : v[i] = Serialise(s[(m + 1) + i], TRUE)
    BY <1>1, UnreadType
  <1>0. \A l \in Nat : \A j \in 0 .. l : j \in Nat
    OBVIOUS
  <1> HIDE DEF u, v, n
  <1>4. ASSUME NEW i \in 1 .. n - 1 PROVE (m + 1) + i = m + (i + 1) /\ i + 1 \in 1 .. n
    <2>1. m \in Nat /\ n \in Nat
      BY <1>0, <1>1
    <2>2. i \in Nat /\ i + 1 \in 1 .. n
      BY ONLY <2>1, i \in 1 .. n - 1
    <2> QED
      BY ONLY <2>1, <2>2
  <1>5. 1 \in 1 .. n
    BY ONLY <1>1
  <1>6. u # <<>>
    BY <1>1, <1>2, EmptySeq
  <1>7. t \in Seq(Seq(Plain)) /\ Len(t) = n - 1 /\ \A i \in 1 .. n - 1 : t[i] = u[i + 1]
    BY <1>1, <1>2, <1>6, HeadTailProperties
  <1> HIDE DEF t
  <1>8. ASSUME NEW i \in 1 .. n - 1 PROVE t[i] = v[i]
    BY <1>2, <1>3, <1>4, <1>7
  <1>9. t = v
    BY <1>3, <1>7, <1>8, SeqEqual
  <1> QED
    BY <1>1, <1>2, <1>5, <1>6, <1>9 DEF t, u, v

(* The tags on the way since phase 2.                                      *)
IsTag(c) == c[1] = "tag"
Ciphertext(cells) == [i \in 1 .. Len(cells) |-> <<"sealed", cells[i]>>]
TagOf(s, n) == <<"tag", <<n, Ciphertext(Serialise(s[n], FALSE))>>>>

(* Every tag in x is that of a frame behind the first m of s, and later    *)
(* ones are of later frames.                                               *)
TagsFrom(x, s, m) ==
    /\ \A j \in 1 .. Len(x) : IsTag(x[j]) => \E n \in m + 1 .. Len(s) : x[j] = TagOf(s, n)
    /\ \A i, j \in 1 .. Len(x) :
          i < j /\ IsTag(x[i]) /\ IsTag(x[j]) => x[i][2][1] < x[j][2][1]

(* What a recv() leaves in the socket.                                     *)
LEMMA CutOff ==
    ASSUME NEW C, NEW x \in Seq(C), NEW k \in 0 .. Len(x)
    PROVE  /\ After(x, k) \in Seq(C) /\ Len(After(x, k)) = Len(x) - k /\ Len(x) \in Nat
           /\ \A j \in 1 .. Len(x) - k : After(x, k)[j] = x[k + j] /\ k + j \in 1 .. Len(x)
  <1>1. Len(x) \in Nat /\ \A j \in 1 .. Len(x) : x[j] \in C
    BY LenProperties, ElementOfSeq
  <1> DEFINE a == k + 1
             b == Len(x)
  <1>2. a \in Int /\ b \in Int /\ \A j \in a .. b : x[j] \in C
    BY <1>1
  <1>3. (a <= b => b - a + 1 = b - k) /\ (~(a <= b) => b - k = 0)
    BY <1>1
  <1>4. \A j \in 1 .. b - k : j \in 1 .. b - a + 1 /\ a + j - 1 = k + j /\ k + j \in 1 .. b
    BY <1>1
  <1> HIDE DEF a, b
  <1>5. /\ SubSeq(x, a, b) \in Seq(C)
        /\ Len(SubSeq(x, a, b)) = IF a <= b THEN b - a + 1 ELSE 0
        /\ \A j \in 1 .. b - a + 1 : SubSeq(x, a, b)[j] = x[a + j - 1]
    BY <1>2, SubSeqProperties
  <1>6. After(x, k) = SubSeq(x, a, b)
    BY DEF After, a, b
  <1>7. Len(SubSeq(x, a, b)) = b - k
    BY <1>3, <1>5
  <1>8. \A j \in 1 .. b - k : SubSeq(x, a, b)[j] = x[k + j]
    BY <1>4, <1>5
  <1> QED
    BY <1>1, <1>4, <1>5, <1>6, <1>7, <1>8 DEF b

(* A tag that is taken away takes all earlier ones with it.                *)
LEMMA TagsPassed ==
    ASSUME NEW C, NEW x \in Seq(C), NEW k \in 0 .. Len(x), NEW s, Len(s) \in Nat, NEW m \in Nat,
           NEW n \in Nat, TagsFrom(x, s, m),
           n = m \/ \E j \in 1 .. k : x[j] = TagOf(s, n)
    PROVE  TagsFrom(After(x, k), s, n)
  <1> DEFINE y == After(x, k)
  <1>1. /\ Len(y) = Len(x) - k /\ Len(x) \in Nat
        /\ \A j \in 1 .. Len(y) : y[j] = x[k + j] /\ k + j \in 1 .. Len(x)
    BY CutOff
  <1> HIDE DEF y
  <1>2. ASSUME NEW j \in 1 .. Len(y), IsTag(y[j])
        PROVE  \E l \in n + 1 .. Len(s) : y[j] = TagOf(s, l)
    <2>1. PICK l \in m + 1 .. Len(s) : y[j] = TagOf(s, l)
      BY <1>1, <1>2 DEF TagsFrom
    <2>2. CASE n = m
      BY <2>1, <2>2
    <2>3. CASE \E i \in 1 .. k : x[i] = TagOf(s, n)
      <3>1. PICK i \in 1 .. k : x[i] = TagOf(s, n)
        BY <2>3
      <3>2. i \in 1 .. Len(x) /\ i < k + j /\ k + j \in 1 .. Len(x) /\ x[k + j] = y[j]
        BY <1>1
      <3>3. IsTag(x[i]) /\ x[i][2][1] = n /\ y[j][2][1] = l
        BY <2>1, <3>1 DEF IsTag, TagOf
      <3>4. n < l
        BY <1>2, <3>2, <3>3 DEF TagsFrom
      <3> QED
        BY <2>1, <3>4
    <2> QED
      BY <2>2, <2>3
  <1>3. ASSUME NEW i \in 1 .. Len(y), NEW j \in 1 .. Len(y), i < j, IsTag(y[i]), IsTag(y[j])
        PROVE  y[i][2][1] < y[j][2][1]
    <2>1. k + i < k + j
      BY <1>1, <1>3
    <2> QED
      BY <1>1, <1>3, <2>1 DEF TagsFrom
  <1> QED
    BY <1>2, <1>3 DEF TagsFrom, y

(* A frame that is sent brings one tag, its own, at its end.               *)
LEMMA TagsSent ==
    ASSUME NEW C, NEW x \in Seq(C), NEW w \in Seq(C), NEW P, NEW s \in Seq(P), NEW p \in P,
           NEW m \in 0 .. Len(s), TagsFrom(x, s, m),
           \A j \in 1 .. Len(w) :
              IsTag(w[j]) => j = Len(w) /\ w[j] = TagOf(Append(s, p), Len(s) + 1)
    PROVE  TagsFrom(Join(x, w), Append(s, p), m)
  <1> DEFINE t == Append(s, p)
             y == Join(x, w)
             a == Len(x)
             b == Len(w)
  <1>1. /\ Len(t) = Len(s) + 1 /\ Len(s) \in Nat
        /\ \A i \in 1 .. Len(s) : t[i] = s[i]
    BY AppendProperties, LenProperties
  <1>2. a \in Nat /\ b \in Nat
    BY LenProperties
  <1>3. Len(y) = a + b /\ \A i \in 1 .. a + b : y[i] = IF i <= a THEN x[i] ELSE w[i - a]
    BY ConcatProperties DEF Join
  <1> HIDE DEF t, y, a, b
  <1>4. ASSUME NEW n \in m + 1 .. Len(s) PROVE TagOf(t, n) = TagOf(s, n) /\ n \in m + 1 .. Len(t)
    <2>1. n \in 1 .. Len(s) /\ n \in m + 1 .. Len(t)
      BY <1>1
    <2>2. t[n] = s[n]
      BY <1>1, <2>1
    <2> QED
      BY <2>1, <2>2, Zenon DEF TagOf
  <1>5. ASSUME NEW i \in 1 .. a + b
        PROVE  \/ i \in 1 .. a /\ y[i] = x[i]
               \/ i - a \in 1 .. b /\ y[i] = w[i - a] /\ i > a
    BY <1>2, <1>3
  <1>6. ASSUME NEW i \in 1 .. a, IsTag(x[i])
        PROVE  \E n \in m + 1 .. Len(s) : x[i] = TagOf(s, n)
    BY <1>6 DEF TagsFrom, a
  <1>7. ASSUME NEW i \in 1 .. b, IsTag(w[i]) PROVE i = b /\ w[i] = TagOf(t, Len(s) + 1)
    BY <1>7 DEF b, t
  <1>8. Len(s) + 1 \in m + 1 .. Len(t)
    BY <1>1
  <1>9. ASSUME NEW i \in 1 .. a + b, IsTag(y[i])
        PROVE  \E n \in m + 1 .. Len(t) : y[i] = TagOf(t, n)
    <2>1. CASE i \in 1 .. a /\ y[i] = x[i]
      BY <1>4, <1>6, <1>9, <2>1
    <2>2. CASE i - a \in 1 .. b /\ y[i] = w[i - a]
      BY <1>7, <1>8, <1>9, <2>2
    <2> QED
      BY <1>5, <2>1, <2>2
  <1>10. ASSUME NEW i \in 1 .. a + b, NEW j \in 1 .. a + b, i < j, IsTag(y[i]), IsTag(y[j])
         PROVE  y[i][2][1] < y[j][2][1]
    <2>1. CASE j \in 1 .. a /\ y[j] = x[j]
      <3>1. i \in 1 .. a /\ y[i] = x[i]
        BY <1>2, <1>3, <1>10, <2>1
      <3> QED
        BY <1>10, <2>1, <3>1 DEF TagsFrom, a
    <2>2. CASE j - a \in 1 .. b /\ y[j] = w[j - a] /\ j > a
      <3>1. j - a = b /\ y[j] = TagOf(t, Len(s) + 1)
        BY <1>7, <1>10, <2>2
      <3>2. y[j][2][1] = Len(s) + 1
        BY <3>1 DEF TagOf
      <3>3. i \in 1 .. a /\ y[i] = x[i]
        <4>1. ASSUME i - a \in 1 .. b, y[i] = w[i - a] PROVE FALSE
          <5>1. i - a = b
            BY <1>7, <1>10, <4>1
          <5> QED
            BY <1>2, <1>10, <3>1, <5>1
        <4> QED
          BY <1>5, <4>1
      <3>4. PICK n \in m + 1 .. Len(s) : x[i] = TagOf(s, n)
        BY <1>6, <1>10, <3>3
      <3>5. y[i][2][1] = n
        BY <3>3, <3>4 DEF TagOf
      <3> QED
        BY <1>1, <3>2, <3>4, <3>5
    <2> QED
      BY <1>5, <2>1, <2>2
  <1> QED
    BY <1>3, <1>9, <1>10 DEF TagsFrom, y, t

(* q is what has been read when g comes behind r.                          *)
BothRead(q, r, g) == r.ok /\ g.ok /\ q.val = Append(r.val, g.val) /\ q.rest = g.rest

(* The tag of a frame that is read is one of the cells it is read from.    *)
LEMMA FrameRead ==
    ASSUME NEW C, Counting(C), NEW x \in Seq(C), ReadFrame(x).ok
    PROVE  ReadFrame(x).val[3] \in C
  <1> DEFINE kinds == <<"cell", "sized", "cell">>
             f == ReadFrame(x)
  <1>1. Len(kinds) \in Nat /\ Len(kinds) = 3
    OBVIOUS
  <1>2. kinds[1] = "cell" /\ kinds[2] = "sized" /\ kinds[3] = "cell"
    OBVIOUS
  <1>3. f = ReadFields(kinds, x)
    BY DEF ReadFrame
  <1> HIDE DEF kinds, f
  <1>4. PICK u : /\ u[0] = Read(<<>>, x)
                 /\ \A i \in 1 .. 3 : u[i] = NextField(u[i - 1], kinds[i])
                 /\ f = u[3]
    BY <1>1, <1>3, FieldsDefined
  <1>5. /\ u[1] = Another(u[0], ReadOne(u[0].rest))
        /\ u[2] = Another(u[1], ReadSized(u[1].rest))
        /\ u[3] = Another(u[2], ReadOne(u[2].rest))
    BY <1>2, <1>4 DEF NextField, ReadKind
  <1>6. f.ok /\ u[3].ok
    BY <1>4 DEF f
  <1>7. ASSUME NEW q, NEW r, NEW g, q = Another(r, g), q.ok
        PROVE  BothRead(q, r, g)
    BY <1>7 DEF Another, Read, Junk, BothRead
  <1>8. /\ u[2].ok /\ ReadOne(u[2].rest).ok /\ u[3].val = Append(u[2].val, ReadOne(u[2].rest).val)
        /\ u[1].ok /\ ReadSized(u[1].rest).ok
        /\ u[2].val = Append(u[1].val, ReadSized(u[1].rest).val)
        /\ u[2].rest = ReadSized(u[1].rest).rest
        /\ ReadOne(u[0].rest).ok /\ u[1].val = Append(u[0].val, ReadOne(u[0].rest).val)
        /\ u[1].rest = ReadOne(u[0].rest).rest
    <2> DEFINE g == ReadOne(u[2].rest)
               h == ReadSized(u[1].rest)
               i == ReadOne(u[0].rest)
    <2>1. u[3] = Another(u[2], g) /\ u[2] = Another(u[1], h) /\ u[1] = Another(u[0], i)
      BY <1>5
    <2> HIDE DEF g, h, i
    <2>2. BothRead(u[3], u[2], g)
      BY ONLY <1>6, <1>7, <2>1
    <2>3. BothRead(u[2], u[1], h)
      <3>1. u[2].ok
        BY ONLY <2>2 DEF BothRead
      <3> QED
        BY ONLY <1>7, <2>1, <3>1
    <2>4. BothRead(u[1], u[0], i)
      <3>1. u[1].ok
        BY ONLY <2>3 DEF BothRead
      <3> QED
        BY ONLY <1>7, <2>1, <3>1
    <2> QED
      BY ONLY <2>2, <2>3, <2>4 DEF BothRead, g, h, i
  <1>9. ASSUME NEW z \in Seq(C), ReadOne(z).ok
        PROVE  ReadOne(z).val \in C /\ ReadOne(z).rest \in Seq(C)
    <2>1. z # <<>> /\ ReadOne(z) = Read(Head(z), Tail(z))
      BY <1>9, Parts DEF ReadOne
    <2>2. Head(z) \in C /\ Tail(z) \in Seq(C)
      BY <2>1, HeadTailProperties
    <2> QED
      BY <2>1, <2>2 DEF Read
  <1>10. u[1].rest \in Seq(C)
    BY <1>4, <1>8, <1>9, Parts
  <1>11. u[2].rest \in Seq(C)
    <2>1. <<>> \in Seq(C)
      OBVIOUS
    <2> QED
      BY <1>8, <1>10, <2>1, SizedLasts DEF Lasting, ReadKind
  <1>12. ReadOne(u[2].rest).val \in C
    BY <1>8, <1>9, <1>11
  <1> DEFINE a == ReadOne(u[0].rest).val
             b == ReadSized(u[1].rest).val
             c == ReadOne(u[2].rest).val
             V == {a, b, c}
  <1>13. u[0].val = <<>> /\ <<>> \in Seq(V) /\ Len(<<>>) = 0
    BY <1>4, Parts
  <1>14. u[1].val = Append(<<>>, a) /\ u[2].val = Append(u[1].val, b) /\ u[3].val = Append(u[2].val, c)
    BY <1>8, <1>13
  <1>15. a \in V /\ b \in V /\ c \in V
    OBVIOUS
  <1> HIDE DEF a, b, c, V
  <1>16. u[1].val \in Seq(V) /\ Len(u[1].val) = 1
    BY <1>13, <1>14, <1>15, AppendProperties
  <1>17. u[2].val \in Seq(V) /\ Len(u[2].val) = 2
    BY <1>14, <1>15, <1>16, AppendProperties
  <1>18. u[3].val[3] = c
    BY <1>14, <1>15, <1>17, AppendProperties
  <1> QED
    BY <1>4, <1>12, <1>18 DEF c, f

(* It is that of a frame that was sent, if the frame opens, and then so is *)
(* the packet inside.                                                      *)
LEMMA FrameOpens ==
    ASSUME NEW x \in Seq(Framed), NEW s \in Seq(Packets), NEW m \in 0 .. Len(s), TagsFrom(x, s, m),
           NEW k \in 0 .. Len(x), Opens(ReadFrame(SubSeq(x, 1, k)))
    PROVE  LET f == ReadFrame(SubSeq(x, 1, k))
               n == f.val[1][2]
           IN  /\ n \in m + 1 .. Len(s)
               /\ \E j \in 1 .. k : x[j] = TagOf(s, n)
               /\ Deserialise(Plaintext(f), FALSE) = Read(Written(s[n]), <<>>)
  <1> DEFINE y == SubSeq(x, 1, k)
             f == ReadFrame(y)
             C == {x[j] : j \in 1 .. k}
             t == f.val[3]
  <1>1. Len(x) \in Nat /\ Len(s) \in Nat /\ \A j \in 1 .. k : x[j] \in Framed /\ j \in 1 .. Len(x)
    BY LenProperties, ElementOfSeq
  <1>2. y \in Seq(C)
    <2>1. \A j \in 1 .. k : x[j] \in C
      OBVIOUS
    <2>2. x \in Seq(Framed) /\ 1 \in Int /\ k \in Int
      BY <1>1
    <2> HIDE DEF C
    <2>3. SubSeq(x, 1, k) = [j \in 1 .. k |-> x[j]]
      <3>1. SubSeq(x, 1, k) \in Seq(Framed) /\ Len(SubSeq(x, 1, k)) = k
        BY <1>1, Longer
      <3>2. \A j \in 1 .. k : SubSeq(x, 1, k)[j] = x[j]
        BY <1>1, SubSeqProperties
      <3> QED
        BY <3>1, <3>2, <1>1
    <2> QED
      BY <1>1, <2>1, <2>3
  <1>3. Counting(C)
    BY <1>1, CellSets DEF Counting
  <1>4. f.ok /\ t = <<"tag", <<f.val[1][2], f.val[2]>>>>
    BY DEF Opens
  <1>5. t \in C
    <2> HIDE DEF C, y
    <2> QED
      BY <1>2, <1>3, <1>4, FrameRead
  <1>6. PICK j \in 1 .. k : x[j] = t
    BY <1>5
  <1> HIDE DEF t, f, C
  <1>7. IsTag(x[j])
    BY <1>4, <1>6 DEF IsTag
  <1>8. PICK n \in m + 1 .. Len(s) : x[j] = TagOf(s, n)
    BY <1>1, <1>7 DEF TagsFrom
  <1>9. n = f.val[1][2] /\ f.val[2] = Ciphertext(Serialise(s[n], FALSE))
    <2> DEFINE a == f.val[1][2]
               b == f.val[2]
               c == Ciphertext(Serialise(s[n], FALSE))
    <2>1. x[j] = <<"tag", <<a, b>>>> /\ x[j] = <<"tag", <<n, c>>>>
      BY <1>4, <1>6, <1>8 DEF TagOf
    <2> HIDE DEF a, b, c
    <2>2. n = a /\ b = c
      BY <2>1
    <2> QED
      BY <2>2 DEF a, b, c
  <1>10. s[n] \in Packets
    <2>1. n \in 1 .. Len(s)
      BY <1>1
    <2> QED
      BY <2>1, ElementOfSeq
  <1> DEFINE w == Serialise(s[n], FALSE)
  <1>11. w \in Seq(Plain) /\ Deserialise(Join(w, <<>>), FALSE) = Read(Written(s[n]), <<>>)
    <2>1. <<>> \in Seq(Plain) /\ FALSE \in BOOLEAN /\ s[n] \in IF FALSE THEN EarlyPackets ELSE Packets
      BY <1>10
    <2> QED
      BY <2>1, CellSets, RoundTrip
  <1> HIDE DEF w
  <1>12. Plaintext(f) = w
    <2>1. Len(w) \in Nat /\ w = [i \in 1 .. Len(w) |-> w[i]]
      BY <1>11, LenProperties
    <2>2. f.val[2] = [i \in 1 .. Len(w) |-> <<"sealed", w[i]>>]
      BY <1>9 DEF Ciphertext, w
    <2>3. Plaintext(f) = [i \in 1 .. Len(w) |-> w[i]]
      BY <2>2 DEF Plaintext
    <2> QED
      BY <2>1, <2>3
  <1>13. Deserialise(Plaintext(f), FALSE) = Read(Written(s[n]), <<>>)
    BY <1>11, <1>12, NothingMore, Zenon
  <1> QED
    BY <1>6, <1>8, <1>9, <1>13 DEF f

(* A frame, spoilt or not, has its tag at its end and no other.            *)
LEMMA Sealed ==
    ASSUME NEW s \in Seq(Packets), NEW p \in Packets, NEW w,
           \/ w = Seal(Len(s) + 1, Serialise(p, FALSE))
           \/ w = Damaged(Seal(Len(s) + 1, Serialise(p, FALSE)))
    PROVE  /\ w \in Seq(Framed)
           /\ \A j \in 1 .. Len(w) :
                 IsTag(w[j]) => j = Len(w) /\ w[j] = TagOf(Append(s, p), Len(s) + 1)
  <1> DEFINE n == Len(s) + 1
             cells == Serialise(p, FALSE)
             l == Len(cells)
             z == [i \in 1 .. l |-> <<"sealed", cells[i]>>]
             tag == <<"tag", <<n, z>>>>
             f == Seal(n, cells)
  <1>1. /\ Append(s, p)[n] = p /\ Len(s) \in Nat
    BY AppendProperties, LenProperties
  <1>2. cells \in Seq(Plain)
    <2>1. <<>> \in Seq(Plain) /\ FALSE \in BOOLEAN /\ p \in IF FALSE THEN EarlyPackets ELSE Packets
      OBVIOUS
    <2> QED
      BY <2>1, CellSets, RoundTrip
  <1>3. TagOf(Append(s, p), n) = tag
    BY <1>1 DEF TagOf, Ciphertext
  <1> HIDE DEF cells
  <1>4. l \in Nat /\ \A i \in 1 .. l : cells[i] \in Plain
    BY <1>2, LenProperties, ElementOfSeq
  <1> HIDE DEF l
  <1>5. z \in Seq(SealedCells) /\ Len(z) = l
    <2>1. z \in [1 .. l -> SealedCells]
      BY <1>4 DEF SealedCells
    <2> HIDE DEF z
    <2>2. Seq(SealedCells) = UNION {[1 .. k -> SealedCells] : k \in Nat}
      OBVIOUS
    <2>3. z \in Seq(SealedCells)
      BY <1>4, <2>1, <2>2
    <2>4. DOMAIN z = 1 .. l /\ DOMAIN z = 1 .. Len(z) /\ Len(z) \in Nat
      BY <2>1, <2>3, LenProperties
    <2> QED
      BY <1>4, <2>3, <2>4
  <1>6. \A i \in 1 .. l : z[i] \in SealedCells /\ ~IsTag(z[i])
    BY <1>4 DEF SealedCells, IsTag
  <1> DEFINE head == <<"nonce", n>>
             size == Num(l)
  <1>7. f = (<<head>> \o (<<size>> \o z)) \o <<tag>>
    BY <1>5 DEF Seal, Sized, l, z
  <1>8. /\ head \in Framed /\ size \in Framed /\ tag \in Framed
        /\ ~IsTag(head) /\ \A k : ~IsTag(Num(k))
        /\ \A k \in Nat : Num(k) \in Framed
        /\ z \in Seq(Framed)
    <2>1. head \in Framed /\ size \in Framed
      BY <1>1, <1>4 DEF Framed, Num
    <2>2. tag \in Framed
      <3> HIDE DEF z
      <3> QED
        BY <1>1, <1>5 DEF Framed
    <2>3. ~IsTag(head) /\ (\A k : ~IsTag(Num(k))) /\ \A k \in Nat : Num(k) \in Framed
      BY DEF IsTag, Num, Framed
    <2>4. z \in Seq(Framed)
      <3>1. SealedCells \subseteq Framed
        BY DEF Framed
      <3> HIDE DEF z
      <3> QED
        BY <1>5, <3>1
    <2> QED
      BY <2>1, <2>2, <2>3, <2>4
  <1> HIDE DEF z, head, size, tag, f, n
  <1> DEFINE a == <<size>> \o z
             b == <<head>> \o a
  <1>9. /\ a \in Seq(Framed) /\ Len(a) = l + 1
        /\ a[1] = size /\ \A i \in 1 .. l + 1 : i # 1 => a[i] = z[i - 1]
    <2>1. <<size>> \in Seq(Framed) /\ Len(<<size>>) = 1 /\ <<size>>[1] = size
      BY <1>8
    <2>2. /\ a \in Seq(Framed) /\ Len(a) = 1 + l
          /\ \A i \in 1 .. 1 + l : a[i] = IF i <= 1 THEN <<size>>[i] ELSE z[i - 1]
      BY <1>5, <1>8, <2>1, ConcatProperties
    <2> HIDE DEF a
    <2> QED
      BY <1>4, <2>1, <2>2
  <1> HIDE DEF a
  <1>10. /\ b \in Seq(Framed) /\ Len(b) = l + 2
         /\ b[1] = head /\ b[2] = size /\ \A i \in 1 .. l + 2 : i # 1 => b[i] = a[i - 1]
    <2>1. <<head>> \in Seq(Framed) /\ Len(<<head>>) = 1 /\ <<head>>[1] = head
      BY <1>8
    <2>2. /\ b \in Seq(Framed) /\ Len(b) = 1 + (l + 1)
          /\ \A i \in 1 .. 1 + (l + 1) : b[i] = IF i <= 1 THEN <<head>>[i] ELSE a[i - 1]
      BY <1>8, <1>9, <2>1, ConcatProperties
    <2> HIDE DEF b
    <2> QED
      BY <1>4, <1>9, <2>1, <2>2
  <1> HIDE DEF b
  <1>11. /\ f \in Seq(Framed) /\ Len(f) = l + 3
         /\ f[l + 3] = tag /\ \A i \in 1 .. l + 2 : f[i] = b[i]
    <2>1. <<tag>> \in Seq(Framed) /\ Len(<<tag>>) = 1 /\ <<tag>>[1] = tag
      BY <1>8
    <2>2. /\ f \in Seq(Framed) /\ Len(f) = (l + 2) + 1
          /\ \A i \in 1 .. (l + 2) + 1 : f[i] = IF i <= l + 2 THEN b[i] ELSE <<tag>>[i - (l + 2)]
      BY <1>7, <1>8, <1>10, <2>1, ConcatProperties DEF a, b
    <2> QED
      BY <1>4, <2>1, <2>2
  <1>12. ASSUME NEW i \in 1 .. l + 2 PROVE ~IsTag(f[i])
    <2>1. CASE i = 1
      BY <1>4, <1>8, <1>10, <1>11, <2>1
    <2>2. CASE i = 2
      BY <1>4, <1>8, <1>10, <1>11, <2>2 DEF size
    <2>3. CASE i # 1 /\ i # 2
      <3>1. i - 1 \in 1 .. l + 1 /\ i - 1 # 1 /\ (i - 1) - 1 \in 1 .. l
        BY <1>4, <2>3
      <3>2. f[i] = b[i] /\ b[i] = a[i - 1] /\ a[i - 1] = z[(i - 1) - 1]
        BY <1>9, <1>10, <1>11, <2>3, <3>1
      <3> QED
        BY <1>6, <3>1, <3>2
    <2> QED
      BY <2>1, <2>2, <2>3
  <1>13. CASE w = f
    <2> SUFFICES ASSUME NEW j \in 1 .. Len(w), IsTag(w[j]) PROVE j = Len(w) /\ w[j] = tag
      BY <1>3, <1>11, <1>13 DEF n
    <2>1. j = l + 3
      BY <1>4, <1>11, <1>12, <1>13
    <2> QED
      BY <1>11, <1>13, <2>1
  <1>14. CASE w = Damaged(f)
    <2> DEFINE d == Num(f[2][2] + 1)
    <2>1. f[2] = Num(l) /\ f[2][2] = l
      BY <1>4, <1>10, <1>11 DEF size, Num
    <2>2. d \in Framed /\ ~IsTag(d)
      BY <1>4, <1>8, <2>1
    <2>3. w = [f EXCEPT ![2] = d]
      BY <1>14 DEF Damaged
    <2> HIDE DEF d
    <2>4. 2 \in 1 .. Len(f) /\ 2 \in 1 .. l + 2 /\ Len(f) \in Nat
      BY <1>4, <1>11
    <2>5. /\ w \in Seq(Framed) /\ Len(w) = l + 3
          /\ \A i \in 1 .. l + 3 : w[i] = IF i = 2 THEN d ELSE f[i]
      BY <1>11, <2>2, <2>3, <2>4, ExceptSeq
    <2> SUFFICES ASSUME NEW j \in 1 .. Len(w), IsTag(w[j]) PROVE j = Len(w) /\ w[j] = tag
      BY <1>3, <2>5 DEF n
    <2>6. j = l + 3
      BY <1>4, <1>12, <2>2, <2>5
    <2> QED
      BY <1>4, <1>11, <2>5, <2>6
  <1> QED
    BY <1>13, <1>14 DEF f, n, cells

-----------------------------------------------------------------------------
(* What phase 1 has, in mRecvBuffer and on the way.                        *)

(* A packet that is sent joins what is on the way.                         *)
LEMMA EarlySent ==
    ASSUME NEW s \in Seq(EarlyPackets), NEW m \in 0 .. Len(s), NEW p \in EarlyPackets,
           NEW b \in Seq(Plain), NEW x \in Seq(Plain), Join(b, x) = FlattenSeq(UnreadPackets(s, m))
    PROVE  /\ Join(x, Serialise(p, TRUE)) \in Seq(Plain)
           /\ Join(b, Join(x, Serialise(p, TRUE))) = FlattenSeq(UnreadPackets(Append(s, p), m))
  <1> DEFINE w == Serialise(p, TRUE)
             u == UnreadPackets(s, m)
  <1>1. w \in Seq(Plain)
    <2>1. <<>> \in Seq(Plain) /\ TRUE \in BOOLEAN /\ p \in IF TRUE THEN EarlyPackets ELSE Packets
      OBVIOUS
    <2> QED
      BY <2>1, CellSets, RoundTrip
  <1>2. u \in Seq(Seq(Plain)) /\ UnreadPackets(Append(s, p), m) = Append(u, w)
    BY UnreadType, UnreadSent
  <1> HIDE DEF w, u
  <1>3. FlattenSeq(Append(u, w)) = Join(FlattenSeq(u), w)
    BY <1>1, <1>2, FlattenLast
  <1>4. Join(x, w) \in Seq(Plain) /\ Join(b, Join(x, w)) = Join(Join(b, x), w)
    BY <1>1, Joins
  <1> QED
    BY <1>2, <1>3, <1>4, Zenon DEF w, u

EarlyRead(b, x, k) == Deserialise(Join(b, SubSeq(x, 1, k)), TRUE)

(* A packet that is returned is the next, and the rest of it stays.        *)
LEMMA EarlyReceived ==
    ASSUME NEW s \in Seq(EarlyPackets), NEW m \in 0 .. Len(s),
           NEW b \in Seq(Plain), NEW x \in Seq(Plain), Join(b, x) = FlattenSeq(UnreadPackets(s, m)),
           NEW k \in 1 .. Len(x), NEW r, r = EarlyRead(b, x, k), r.ok
    PROVE  /\ m # Len(s) /\ r.val = Written(s[m + 1]) /\ r.rest \in Seq(Plain)
           /\ After(x, k) \in Seq(Plain)
           /\ Join(r.rest, After(x, k)) = FlattenSeq(UnreadPackets(s, m + 1))
  <1> DEFINE a == SubSeq(x, 1, k)
             c == After(x, k)
             y == Join(b, a)
             u == UnreadPackets(s, m)
  <1>1. a \in Seq(Plain) /\ c \in Seq(Plain) /\ Join(a, c) = x /\ Len(a) = k
    <2>1. k \in 0 .. Len(x)
      BY LenProperties
    <2>2. <<>> \in Seq(Plain)
      OBVIOUS
    <2> QED
      BY <2>1, <2>2, Longer
  <1>2. m # Len(s)
    <2> SUFFICES ASSUME m = Len(s) PROVE FALSE
      OBVIOUS
    <2>1. u \in Seq(Seq(Plain)) /\ Len(u) = 0
      <3>1. u \in Seq(Seq(Plain)) /\ Len(u) = Len(s) - m /\ Len(s) \in Nat
        BY UnreadType, LenProperties
      <3>2. \A l \in Nat : l - l = 0
        OBVIOUS
      <3> QED
        BY <3>1, <3>2, m = Len(s), Zenon
    <2>2. FlattenSeq(u) = <<>>
      <3>1. u = <<>>
        BY <2>1, EmptySeq
      <3> QED
        BY <2>1, <3>1, FlattenType
    <2> DEFINE i == Len(b)
               j == Len(x)
    <2>3. Len(Join(b, x)) = i + j /\ i \in Nat /\ j \in Nat /\ k \in 1 .. j
      BY ConcatProperties, LenProperties DEF Join
    <2>4. Len(Join(b, x)) = 0
      BY <2>2
    <2>5. i + j = 0
      BY <2>3, <2>4
    <2> HIDE DEF i, j
    <2> QED
      BY ONLY <2>3, <2>5
  <1>3. /\ u \in Seq(Seq(Plain)) /\ u # <<>> /\ s[m + 1] \in EarlyPackets
        /\ u[1] = Serialise(s[m + 1], TRUE) /\ Tail(u) = UnreadPackets(s, m + 1)
    BY <1>2, UnreadType, UnreadPassed
  <1> DEFINE w == u[1]
             v == FlattenSeq(Tail(u))
             q == s[m + 1]
  <1>4. w \in Seq(Plain) /\ Tail(u) \in Seq(Seq(Plain)) /\ FlattenSeq(u) = Join(w, v)
    BY <1>3, FlattenFirst
  <1>5. v \in Seq(Plain)
    BY <1>4, FlattenType
  <1>6. Deserialise(Join(w, v), TRUE) = Read(Written(q), v)
    <2> DEFINE e == TRUE
    <2>1. e \in BOOLEAN /\ q \in IF e THEN EarlyPackets ELSE Packets
      BY <1>3
    <2>2. w = Serialise(q, e)
      BY <1>3
    <2> HIDE DEF v, w, q, e
    <2>3. Deserialise(Join(Serialise(q, e), v), e) = Read(Written(q), v)
      BY <1>5, <2>1, CellSets, RoundTrip
    <2>4. Deserialise(Join(w, v), e) = Read(Written(q), v)
      BY <2>2, <2>3, Zenon
    <2> QED
      BY <2>4, Zenon DEF e
  <1>7. y \in Seq(Plain) /\ Join(y, c) = Join(b, x)
    <2> HIDE DEF a, c
    <2> QED
      BY <1>1, Joins
  <1>8. r = Deserialise(y, TRUE)
    BY DEF EarlyRead
  <1> HIDE DEF u, v, w, q, y, c, a
  <1>9. r.rest \in Seq(Plain) /\ Deserialise(Join(y, c), TRUE) = Read(r.val, Join(r.rest, c))
    <2> DEFINE e == TRUE
    <2>1. r = Deserialise(y, e)
      BY <1>8
    <2> HIDE DEF e
    <2>2. Deserialise(y, e).ok
      BY <2>1
    <2>3. /\ Deserialise(y, e).rest \in Seq(Plain)
          /\ Deserialise(Join(y, c), e)
             = Read(Deserialise(y, e).val, Join(Deserialise(y, e).rest, c))
      BY <1>1, <1>7, <2>2, CellSets, PacketLasts
    <2>4. r.rest \in Seq(Plain) /\ Deserialise(Join(y, c), e) = Read(r.val, Join(r.rest, c))
      BY <2>1, <2>3, Zenon
    <2> QED
      BY <2>4, Zenon DEF e
  <1>10. Join(y, c) = Join(w, v)
    BY <1>4, <1>7 DEF u
  <1>11. Read(r.val, Join(r.rest, c)) = Read(Written(q), v)
    BY <1>6, <1>9, <1>10, Zenon
  <1>12. r.val = Written(q) /\ Join(r.rest, c) = v
    BY <1>11 DEF Read
  <1> QED
    BY <1>1, <1>2, <1>3, <1>9, <1>12 DEF q, v, c

-----------------------------------------------------------------------------
(* The invariant: what phase 1 has not returned is in its buffer or on its *)
(* way; since then every tag on the way is that of a frame sent later than *)
(* what was returned, in the order in which the frames were sent.          *)
OnItsWay ==
    /\ early \in BOOLEAN
    /\ sent \in Seq(Sendable(early)) /\ passed \in 0 .. Len(sent)
    /\ stream \in Seq(IF early THEN Plain ELSE Framed)
    /\ recvBuffer \in Seq(Plain)
    /\ Conserved
    /\ ~early => TagsFrom(stream, sent, passed)

(* A packet is returned that was sent, and is later than any before it.    *)
Returns(n) ==
    /\ n \in passed + 1 .. Len(sent)
    /\ passed' = n /\ returned' = Written(sent[n])
    /\ sent' = sent

\* With the names of the lemmas.
Whole ==
    early /\ receiver # "misled" => Join(recvBuffer, stream) = FlattenSeq(UnreadPackets(sent, passed))

(* It says the same.                                                       *)
LEMMA ConservedIsWhole == (Conserved <=> Whole) /\ (Conserved' <=> Whole')
  BY DEF Conserved, Whole, Join, UnreadPackets

(* The invariant holds at the start.                                       *)
LEMMA Started == Init => OnItsWay
  <1> SUFFICES ASSUME Init PROVE OnItsWay
    OBVIOUS
  <1>1. /\ early \in BOOLEAN /\ stream = <<>> /\ recvBuffer = <<>> /\ sent = <<>> /\ passed = 0
    BY DEF Init
  <1>2. \A C : <<>> \in Seq(C)
    OBVIOUS
  <1>3. Len(<<>>) = 0 /\ 0 \in 0 .. 0
    OBVIOUS
  <1> DEFINE s == <<>>
  <1>4. s \in Seq(EarlyPackets) /\ Len(s) = 0 /\ 0 \in 0 .. Len(s)
    OBVIOUS
  <1> HIDE DEF s
  <1>5. UnreadPackets(s, 0) \in Seq(Seq(Plain)) /\ Len(UnreadPackets(s, 0)) = 0
    <2>1. UnreadPackets(s, 0) \in Seq(Seq(Plain)) /\ Len(UnreadPackets(s, 0)) = Len(s) - 0
      BY ONLY <1>4, UnreadType
    <2> QED
      BY <1>4, <2>1
  <1>6. UnreadPackets(s, 0) = <<>> /\ FlattenSeq(UnreadPackets(s, 0)) = <<>>
    <2>1. UnreadPackets(s, 0) = <<>>
      BY <1>5, EmptySeq
    <2> QED
      BY <1>5, <2>1, FlattenType
  <1>7. Join(recvBuffer, stream) = <<>>
    BY <1>1, <1>2, NothingMore
  <1>8. Whole
    BY <1>1, <1>6, <1>7 DEF Whole, s
  <1>9. TagsFrom(stream, sent, passed)
    BY <1>1, <1>3 DEF TagsFrom
  <1>10. /\ sent \in Seq(Sendable(early)) /\ passed \in 0 .. Len(sent)
         /\ stream \in Seq(IF early THEN Plain ELSE Framed) /\ recvBuffer \in Seq(Plain)
    BY <1>1, <1>2, <1>3
  <1> QED
    BY <1>1, <1>8, <1>9, <1>10, ConservedIsWhole DEF OnItsWay

(* sendPacket.                                                             *)
LEMMA SendingPlain ==
    ASSUME OnItsWay, NEW p \in EarlyPackets, SendPlain(p)
    PROVE  OnItsWay'
  <1>1. /\ early = TRUE /\ early' = early /\ recvBuffer' = recvBuffer /\ receiver' = receiver
        /\ passed' = passed /\ sent' = Append(sent, p) /\ stream' = Join(stream, Serialise(p, TRUE))
    BY DEF SendPlain, Sending, OnItsWay, Join
  <1>2. /\ sent \in Seq(EarlyPackets) /\ passed \in 0 .. Len(sent)
        /\ stream \in Seq(Plain) /\ recvBuffer \in Seq(Plain) /\ Whole
    BY <1>1, ConservedIsWhole DEF OnItsWay, Sendable
  <1>3. sent' \in Seq(EarlyPackets) /\ passed' \in 0 .. Len(sent')
    BY <1>1, <1>2, UnreadSent
  <1>4. Join(stream, Serialise(p, TRUE)) \in Seq(Plain)
    <2>1. <<>> \in Seq(Plain) /\ TRUE \in BOOLEAN /\ p \in IF TRUE THEN EarlyPackets ELSE Packets
      OBVIOUS
    <2>2. Serialise(p, TRUE) \in Seq(Plain)
      BY <2>1, CellSets, RoundTrip
    <2> QED
      BY <1>2, <2>2, Joins
  <1>5. Whole'
    <2> SUFFICES ASSUME receiver # "misled"
                 PROVE  Join(recvBuffer', stream') = FlattenSeq(UnreadPackets(sent', passed'))
      BY <1>1 DEF Whole
    <2>1. Join(recvBuffer, stream) = FlattenSeq(UnreadPackets(sent, passed))
      BY <1>1, <1>2 DEF Whole
    <2>2. Join(recvBuffer, Join(stream, Serialise(p, TRUE)))
          = FlattenSeq(UnreadPackets(Append(sent, p), passed))
      BY <1>2, <2>1, EarlySent
    <2> QED
      BY <1>1, <2>2, Zenon
  <1>6. Conserved'
    BY <1>5, ConservedIsWhole
  <1> QED
    BY <1>1, <1>2, <1>3, <1>4, <1>6 DEF OnItsWay, Sendable

(* A sealed frame, spoilt or not.                                          *)
LEMMA SendingSealed ==
    ASSUME OnItsWay, NEW p \in Packets, SendSealed(p) \/ SendDamaged(p)
    PROVE  OnItsWay'
  <1>1. /\ early = FALSE /\ early' = early /\ recvBuffer' = recvBuffer
        /\ passed' = passed /\ sent' = Append(sent, p)
    BY DEF SendSealed, SendDamaged, Sending, OnItsWay
  <1>2. PICK w : /\ stream' = Join(stream, w)
                 /\ \/ w = Seal(Len(sent) + 1, Serialise(p, FALSE))
                    \/ w = Damaged(Seal(Len(sent) + 1, Serialise(p, FALSE)))
    BY DEF SendSealed, SendDamaged, Join
  <1>3. /\ sent \in Seq(Packets) /\ passed \in 0 .. Len(sent)
        /\ stream \in Seq(Framed) /\ recvBuffer \in Seq(Plain)
        /\ TagsFrom(stream, sent, passed)
    BY <1>1 DEF OnItsWay, Sendable
  <1>4. /\ w \in Seq(Framed)
        /\ \A j \in 1 .. Len(w) :
              IsTag(w[j]) => j = Len(w) /\ w[j] = TagOf(Append(sent, p), Len(sent) + 1)
    BY <1>2, <1>3, Sealed
  <1>5. TagsFrom(Join(stream, w), Append(sent, p), passed)
    BY <1>3, <1>4, TagsSent
  <1>6. /\ Append(sent, p) \in Seq(Packets) /\ passed \in 0 .. Len(Append(sent, p))
    BY <1>3, AppendProperties, LenProperties
  <1>7. Join(stream, w) \in Seq(Framed)
    BY <1>3, <1>4, Joins
  <1>8. Conserved'
    BY <1>1 DEF Conserved
  <1> QED
    BY <1>1, <1>2, <1>3, <1>5, <1>6, <1>7, <1>8 DEF OnItsWay, Sendable

(* receivePacket.                                                          *)
LEMMA ReceivingPlain ==
    ASSUME OnItsWay, NEW k \in 1 .. Len(stream), ReceivePlain(k)
    PROVE  OnItsWay' /\ Returns(passed + 1)
  <1> DEFINE r == EarlyRead(recvBuffer, stream, k)
  <1>1. /\ early = TRUE /\ early' = early /\ receiver = "connected" /\ receiver' = receiver
        /\ sent' = sent /\ stream' = After(stream, k)
        /\ r.ok /\ recvBuffer' = r.rest /\ returned' = r.val /\ passed' = passed + 1
    BY DEF ReceivePlain, Recv, OnItsWay, EarlyRead, Join, After
  <1>2. /\ sent \in Seq(EarlyPackets) /\ passed \in 0 .. Len(sent)
        /\ stream \in Seq(Plain) /\ recvBuffer \in Seq(Plain) /\ Whole
    BY <1>1, ConservedIsWhole DEF OnItsWay, Sendable
  <1>3. Join(recvBuffer, stream) = FlattenSeq(UnreadPackets(sent, passed))
    BY <1>1, <1>2 DEF Whole
  <1>4. PICK q : q = r
    OBVIOUS
  <1>5. q = EarlyRead(recvBuffer, stream, k) /\ q.ok
    BY <1>1, <1>4
  <1> HIDE DEF r
  <1>6. /\ passed # Len(sent) /\ q.val = Written(sent[passed + 1]) /\ q.rest \in Seq(Plain)
        /\ After(stream, k) \in Seq(Plain)
        /\ Join(q.rest, After(stream, k)) = FlattenSeq(UnreadPackets(sent, passed + 1))
    <2>1. /\ sent \in Seq(EarlyPackets) /\ passed \in 0 .. Len(sent)
          /\ stream \in Seq(Plain) /\ recvBuffer \in Seq(Plain)
      BY <1>2
    <2> QED
      BY ONLY <1>3, <1>5, <2>1, k \in 1 .. Len(stream), EarlyReceived
  <1>7. passed + 1 \in 0 .. Len(sent) /\ passed + 1 \in passed + 1 .. Len(sent)
    <2> DEFINE l == Len(sent)
    <2>1. l \in Nat /\ passed \in 0 .. l /\ passed # l
      BY <1>2, <1>6, LenProperties
    <2> HIDE DEF l
    <2>2. passed + 1 \in 0 .. l /\ passed + 1 \in passed + 1 .. l
      BY ONLY <2>1
    <2> QED
      BY <2>2 DEF l
  <1>8. Whole'
    <2>1. Join(recvBuffer', stream') = FlattenSeq(UnreadPackets(sent', passed'))
      BY <1>1, <1>4, <1>6, Zenon
    <2> QED
      BY <2>1 DEF Whole
  <1>9. Conserved'
    BY <1>8, ConservedIsWhole
  <1>10. Returns(passed + 1)
    BY <1>1, <1>4, <1>6, <1>7 DEF Returns
  <1> QED
    BY <1>1, <1>2, <1>4, <1>6, <1>7, <1>9, <1>10 DEF OnItsWay, Sendable

\* A packet that was cut.
LEMMA ReceivingCut ==
    ASSUME OnItsWay, NEW k \in 1 .. Len(stream), ReceiveCut(k)
    PROVE  OnItsWay' /\ UNCHANGED channel
  <1>1. /\ early = TRUE /\ early' = early /\ receiver' = "misled"
        /\ sent' = sent /\ stream' = After(stream, k)
        /\ recvBuffer' = recvBuffer /\ returned' = returned /\ passed' = passed
    BY DEF ReceiveCut, Recv, OnItsWay, After
  <1>2. stream \in Seq(Plain) /\ k \in 0 .. Len(stream)
    BY <1>1, LenProperties DEF OnItsWay
  <1>3. stream' \in Seq(Plain)
    BY <1>1, <1>2, CutOff
  <1> QED
    BY <1>1, <1>3 DEF OnItsWay, Conserved, channel

(* A frame that opens.                                                     *)
LEMMA ReceivingSealed ==
    ASSUME OnItsWay, NEW k \in 1 .. Len(stream), ReceiveSealed(k)
    PROVE  OnItsWay' /\ \E n \in passed + 1 .. Len(sent) : Returns(n)
  <1> DEFINE f == ReadFrame(SubSeq(stream, 1, k))
             r == Deserialise(Plaintext(f), FALSE)
             n == f.val[1][2]
  <1>1. /\ early = FALSE /\ early' = early
        /\ sent' = sent /\ stream' = After(stream, k) /\ recvBuffer' = recvBuffer
        /\ Opens(f) /\ returned' = r.val /\ passed' = n
    BY DEF ReceiveSealed, Recv, OnItsWay, After
  <1>2. /\ sent \in Seq(Packets) /\ passed \in 0 .. Len(sent)
        /\ stream \in Seq(Framed) /\ recvBuffer \in Seq(Plain)
        /\ TagsFrom(stream, sent, passed)
    BY <1>1 DEF OnItsWay, Sendable
  <1>3. k \in 0 .. Len(stream) /\ Len(sent) \in Nat
    BY <1>2, LenProperties
  <1>4. /\ n \in passed + 1 .. Len(sent) /\ \E j \in 1 .. k : stream[j] = TagOf(sent, n)
        /\ r = Read(Written(sent[n]), <<>>)
    BY <1>1, <1>2, <1>3, FrameOpens
  <1> HIDE DEF f, r, n
  <1>5. n \in Nat /\ n \in 0 .. Len(sent) /\ passed \in Nat
    BY <1>2, <1>3, <1>4
  <1>6. TagsFrom(After(stream, k), sent, n)
    BY <1>2, <1>3, <1>4, <1>5, TagsPassed
  <1>7. After(stream, k) \in Seq(Framed)
    BY <1>2, <1>3, CutOff
  <1>8. r.val = Written(sent[n])
    BY <1>4 DEF Read
  <1>9. Conserved'
    BY <1>1 DEF Conserved
  <1>10. Returns(n)
    BY <1>1, <1>4, <1>8 DEF Returns
  <1> QED
    BY <1>1, <1>2, <1>4, <1>5, <1>6, <1>7, <1>9, <1>10 DEF OnItsWay, Sendable

\* A frame that does not open.
LEMMA ReceivingNothing ==
    ASSUME OnItsWay, NEW k \in 1 .. Len(stream), ReceiveNothing(k)
    PROVE  OnItsWay' /\ UNCHANGED channel
  <1>1. /\ early = FALSE /\ early' = early
        /\ sent' = sent /\ stream' = After(stream, k) /\ recvBuffer' = recvBuffer
        /\ passed' = passed /\ returned' = returned
    BY DEF ReceiveNothing, Recv, OnItsWay, After
  <1>2. /\ sent \in Seq(Packets) /\ passed \in 0 .. Len(sent)
        /\ stream \in Seq(Framed) /\ recvBuffer \in Seq(Plain)
        /\ TagsFrom(stream, sent, passed)
    BY <1>1 DEF OnItsWay, Sendable
  <1>3. k \in 0 .. Len(stream) /\ Len(sent) \in Nat /\ passed \in Nat
    BY <1>2, LenProperties
  <1>4. TagsFrom(After(stream, k), sent, passed)
    BY <1>2, <1>3, TagsPassed
  <1>5. After(stream, k) \in Seq(Framed)
    BY <1>2, <1>3, CutOff
  <1>6. Conserved'
    BY <1>1 DEF Conserved
  <1> QED
    BY <1>1, <1>2, <1>4, <1>5, <1>6 DEF OnItsWay, Sendable, channel

(* Every step keeps the invariant, and sends a packet, returns one that    *)
(* was sent later than the one before, or does neither.                    *)
Sends(p) == sent' = Append(sent, p) /\ passed' = passed /\ returned' = returned

LEMMA Steps ==
    ASSUME OnItsWay, [Next]_vars
    PROVE  /\ OnItsWay'
           /\ \/ \E p \in Sendable(early) : Sends(p)
              \/ \E n \in passed + 1 .. Len(sent) : Returns(n)
              \/ UNCHANGED channel
  <1>1. ASSUME NEW p \in EarlyPackets, SendPlain(p)
        PROVE  OnItsWay' /\ \E q \in Sendable(early) : Sends(q)
    <2>1. early /\ Sends(p)
      BY <1>1 DEF SendPlain, Sending, Sends
    <2> QED
      BY <1>1, <2>1, SendingPlain DEF Sendable
  <1>2. ASSUME NEW p \in Packets, SendSealed(p) \/ SendDamaged(p)
        PROVE  OnItsWay' /\ \E q \in Sendable(early) : Sends(q)
    <2>1. ~early /\ Sends(p)
      BY <1>2 DEF SendSealed, SendDamaged, Sending, Sends
    <2> QED
      BY <1>2, <2>1, SendingSealed DEF Sendable
  <1>3. CASE Close
    BY <1>3 DEF Close, OnItsWay, Conserved, channel
  <1>4. ASSUME NEW k \in 1 .. Len(stream), ReceivePlain(k)
        PROVE  OnItsWay' /\ \E n \in passed + 1 .. Len(sent) : Returns(n)
    <2>1. OnItsWay' /\ Returns(passed + 1)
      BY <1>4, ReceivingPlain
    <2>2. passed + 1 \in passed + 1 .. Len(sent)
      BY <2>1 DEF Returns
    <2> QED
      BY ONLY <2>1, <2>2
  <1>5. ASSUME NEW k \in 1 .. Len(stream), ReceiveCut(k)
        PROVE  OnItsWay' /\ UNCHANGED channel
    BY <1>5, ReceivingCut
  <1>6. ASSUME NEW k \in 1 .. Len(stream), ReceiveSealed(k)
        PROVE  OnItsWay' /\ \E n \in passed + 1 .. Len(sent) : Returns(n)
    BY <1>6, ReceivingSealed
  <1>7. ASSUME NEW k \in 1 .. Len(stream), ReceiveNothing(k)
        PROVE  OnItsWay' /\ UNCHANGED channel
    BY <1>7, ReceivingNothing
  <1>8. CASE PeerClosed
    BY <1>8 DEF PeerClosed, OnItsWay, Conserved, channel
  <1>9. CASE UNCHANGED vars
    BY <1>9 DEF vars, OnItsWay, Conserved, channel
  <1> QED
    BY <1>1, <1>2, <1>3, <1>4, <1>5, <1>6, <1>7, <1>8, <1>9, Zenon DEF Next

(* The invariant holds.                                                    *)
LEMMA AllOnItsWay == Spec => []OnItsWay
  <1>1. Init => OnItsWay
    BY Started
  <1>2. OnItsWay /\ [Next]_vars => OnItsWay'
    BY Steps
  <1> QED
    BY <1>1, <1>2, PTL DEF Spec

(* Phase 1 loses nothing: until a packet is cut, what was sent and not     *)
(* returned is on its way or in mRecvBuffer, whole and in order, whatever  *)
(* a recv() joins or leaves (phase1/src/utils/NetworkHandler.cpp:22-38).   *)
THEOREM NothingLost == Spec => []Conserved
  <1>1. OnItsWay => Conserved
    BY DEF OnItsWay
  <1> QED
    BY <1>1, AllOnItsWay, PTL

-----------------------------------------------------------------------------
(* Channel's view of it.                                                   *)

WrittenAll(s) == [i \in DOMAIN s |-> Written(s[i])]

(* It grows with what is sent.                                             *)
LEMMA WrittenLonger ==
    ASSUME NEW P, NEW s \in Seq(P), NEW p \in P
    PROVE  WrittenAll(Append(s, p)) = Append(WrittenAll(s), Written(p))
  <1> DEFINE t == Append(s, p)
             V == {Written(q) : q \in P}
             u == WrittenAll(s)
             v == WrittenAll(t)
             l == Len(s)
  <1>1. /\ t \in Seq(P) /\ Len(t) = l + 1 /\ l \in Nat
        /\ \A i \in 1 .. l : t[i] = s[i]
        /\ t[l + 1] = p
    BY AppendProperties, LenProperties
  <1>2. DOMAIN s = 1 .. l /\ DOMAIN t = 1 .. l + 1
    BY <1>1, LenProperties
  <1>3. \A i \in 1 .. l : s[i] \in P
    BY ElementOfSeq
  <1> HIDE DEF t
  <1>4. \A i \in 1 .. l + 1 : t[i] \in P
    BY <1>1, ElementOfSeq
  <1>5. u \in [1 .. l -> V] /\ \A i \in 1 .. l : u[i] = Written(s[i])
    BY <1>2, <1>3 DEF WrittenAll
  <1>6. v \in [1 .. l + 1 -> V] /\ \A i \in 1 .. l + 1 : v[i] = Written(t[i])
    BY <1>2, <1>4 DEF WrittenAll
  <1>7. Written(p) \in V
    OBVIOUS
  <1> DEFINE w == Written(p)
  <1> HIDE DEF u, v, V, l, w
  <1>8. l \in Nat /\ l + 1 \in Nat
    BY <1>1
  <1>9. u \in Seq(V) /\ Len(u) = l /\ v \in Seq(V) /\ Len(v) = l + 1
    BY <1>5, <1>6, <1>8
  <1>10. /\ Append(u, w) \in Seq(V) /\ Len(Append(u, w)) = l + 1
         /\ \A i \in 1 .. l : Append(u, w)[i] = u[i]
         /\ Append(u, w)[l + 1] = w
    BY <1>7, <1>9, AppendProperties DEF w
  <1>11. ASSUME NEW i \in 1 .. l + 1 PROVE v[i] = Append(u, w)[i]
    <2>1. CASE i \in 1 .. l
      BY <1>1, <1>5, <1>6, <1>10, <2>1
    <2>2. CASE i = l + 1
      BY <1>1, <1>6, <1>10, <2>2 DEF w
    <2>3. i \in 1 .. l \/ i = l + 1
      BY ONLY <1>8, i \in 1 .. l + 1
    <2> QED
      BY <2>1, <2>2, <2>3
  <1>12. v = Append(u, w)
    BY <1>9, <1>10, <1>11, SeqEqual
  <1> QED
    BY <1>12 DEF u, v, w, t

(* A connection implements Channel: packets that were sent are returned as *)
(* they were written, in order, each at most once, and never a spoilt one  *)
(* (NetworkHandler.cpp:263-292, 330-412).                                  *)
THEOREM Refinement == Spec => ImplementsChannel
  <1> DEFINE All == {Written(p) : p \in EarlyPackets \cup Packets}
             s == [i \in DOMAIN sent |-> Written(sent[i])]
  <1>1. Init => Connection!Init
    <2> SUFFICES ASSUME Init PROVE Connection!Init
      OBVIOUS
    <2>1. sent = <<>> /\ passed = 0 /\ returned = Null
      BY DEF Init
    <2>2. s = <<>>
      BY <2>1
    <2> QED
      BY <2>1, <2>2 DEF Connection!Init
  <1>2. OnItsWay /\ [Next]_vars => [Connection!Next]_<<s, passed, returned>>
    <2> SUFFICES ASSUME OnItsWay, [Next]_vars
                 PROVE  Connection!Next \/ UNCHANGED <<s, passed, returned>>
      OBVIOUS
    <2>1. ASSUME NEW p \in Sendable(early), Sends(p) PROVE Connection!Next
      <3>1. sent \in Seq(Sendable(early)) /\ p \in EarlyPackets \cup Packets
        BY DEF OnItsWay, Sendable
      <3>2. s = WrittenAll(sent) /\ s' = WrittenAll(sent')
        BY DEF WrittenAll
      <3>3. s' = Append(s, Written(p)) /\ Written(p) \in All
        BY <2>1, <3>1, <3>2, WrittenLonger DEF Sends
      <3>4. UNCHANGED <<passed, returned>>
        BY <2>1 DEF Sends
      <3>5. Connection!Send(Written(p))
        BY <3>3, <3>4 DEF Connection!Send
      <3> QED
        BY <3>3, <3>5 DEF Connection!Next
    <2>2. ASSUME NEW n \in passed + 1 .. Len(sent), Returns(n) PROVE Connection!Next
      <3>1. passed \in Nat /\ Len(sent) \in Nat /\ DOMAIN sent = 1 .. Len(sent)
        BY LenProperties DEF OnItsWay
      <3>2. n > passed /\ n \in DOMAIN sent
        BY <3>1
      <3>3. n \in DOMAIN s /\ s[n] = Written(sent[n])
        BY <3>2
      <3>4. passed' = n /\ returned' = s[n] /\ s' = s
        BY <2>2, <3>3 DEF Returns
      <3>5. Connection!Receive(n)
        BY <3>2, <3>4 DEF Connection!Receive
      <3> QED
        BY <3>3, <3>5 DEF Connection!Next
    <2>3. ASSUME UNCHANGED channel PROVE UNCHANGED <<s, passed, returned>>
      BY <2>3 DEF channel
    <2> QED
      BY <2>1, <2>2, <2>3, Steps
  <1> HIDE DEF s
  <1> QED
    BY <1>1, <1>2, AllOnItsWay, PTL DEF Spec, ImplementsChannel, Connection!Spec, s

-----------------------------------------------------------------------------
(***************************************************************************)
(* MemBuffer.                                                              *)
(***************************************************************************)

(* The fields of a constructed buffer, and the block it owns, have their   *)
(* types.                                                                  *)
LEMMA Fields ==
    ASSUME BufferInductive, NEW x \in Buffers, Constructed(x)
    PROVE  /\ buf[x] \in Buffer
           /\ buf[x].block \in Blocks \cup {NoBlock}
           /\ buf[x].begin \in Nat /\ buf[x].end \in Nat /\ buf[x].capacity \in Nat
           /\ buf[x].begin <= buf[x].end /\ buf[x].end <= buf[x].capacity
           /\ buf[x].block = NoBlock => buf[x].capacity = 0
           /\ buf[x].block # NoBlock =>
                /\ buf[x].block \in DOMAIN mem
                /\ mem[buf[x].block] \in [0 .. buf[x].capacity - 1 -> Bytes \cup {Unwritten}]
                /\ buf[x].capacity \in 0 .. MaxCapacity
           /\ Holds(buf[x], mem) \in Seq(Bytes)
  <1>1. buf[x] \in Buffer
    BY DEF BufferInductive, TypeOK, Constructed
  <1>2. /\ buf[x].begin <= buf[x].end /\ buf[x].end <= buf[x].capacity
        /\ buf[x].block = NoBlock => buf[x].capacity = 0
        /\ buf[x].block # NoBlock =>
             /\ buf[x].block \in DOMAIN mem
             /\ DOMAIN mem[buf[x].block] = 0 .. buf[x].capacity - 1
    BY DEF BufferInductive, InBounds
  <1>3. Holds(buf[x], mem) \in Seq(Bytes)
    BY DEF BufferInductive, AllWritten
  <1>4. ASSUME buf[x].block # NoBlock
        PROVE  /\ mem[buf[x].block] \in [0 .. buf[x].capacity - 1 -> Bytes \cup {Unwritten}]
               /\ buf[x].capacity \in 0 .. MaxCapacity
    <2>1. PICK n \in 0 .. MaxCapacity : mem[buf[x].block] \in [0 .. n - 1 -> Bytes \cup {Unwritten}]
      BY <1>2, <1>4 DEF BufferInductive, TypeOK
    <2>2. 0 .. n - 1 = 0 .. buf[x].capacity - 1
      BY <1>2, <1>4, <2>1
    <2>3. n = buf[x].capacity
      <3>1. n \in Nat /\ buf[x].capacity \in Nat
        BY <1>1, MemBufferAssumption DEF Buffer
      <3>2. n - 1 \in 0 .. n - 1 \/ n = 0
        BY <3>1
      <3>3. buf[x].capacity - 1 \in 0 .. buf[x].capacity - 1 \/ buf[x].capacity = 0
        BY <3>1
      <3> QED
        BY <2>2, <3>1, <3>2, <3>3
    <2> QED
      BY <2>1, <2>3
  <1> QED
    BY <1>1, <1>2, <1>3, <1>4 DEF Buffer

(* A step that changes one buffer and the block it owns, and leaves the    *)
(* others and their blocks alone.                                          *)
LEMMA OneBuffer ==
    ASSUME BufferInductive, NEW x \in Buffers, NEW nb \in Buffer, NEW n \in 0 .. MaxCapacity,
           buf' = [buf EXCEPT ![x] = nb],
           nb.begin <= nb.end, nb.end <= nb.capacity, nb.capacity = n,
           nb.block = NoBlock => nb.capacity = 0,
           nb.block # NoBlock =>
             nb.block \in DOMAIN mem' /\ mem'[nb.block] \in [0 .. n - 1 -> Bytes \cup {Unwritten}],
           Holds(nb, mem') \in Seq(Bytes),
           \A k \in DOMAIN mem' :
             k = nb.block
             \/ \E y \in Buffers \ {x} : Constructed(y) /\ buf[y].block = k,
           \A y \in Buffers \ {x} : Constructed(y) /\ buf[y].block # NoBlock =>
             /\ buf[y].block # nb.block /\ buf[y].block \in DOMAIN mem'
             /\ mem'[buf[y].block] = mem[buf[y].block],
           DOMAIN mem' \subseteq Blocks,
           out' \in Seq(Bytes \cup {Unwritten})
    PROVE  /\ BufferInductive'
           /\ \A y \in Buffers \ {x} : Constructed(y) => Holds(buf[y], mem') = Holds(buf[y], mem)
  <1>1. buf \in [Buffers -> Buffer \cup {Gone}]
    BY DEF BufferInductive, TypeOK
  <1>2. /\ buf' \in [Buffers -> Buffer \cup {Gone}] /\ buf'[x] = nb
        /\ \A y \in Buffers \ {x} : buf'[y] = buf[y]
    BY <1>1
  <1>3. ASSUME NEW k \in DOMAIN mem'
        PROVE  \E m \in 0 .. MaxCapacity : mem'[k] \in [0 .. m - 1 -> Bytes \cup {Unwritten}]
    <2>1. CASE k = nb.block
      <3>1. nb.block # NoBlock
        BY <2>1, MemBufferAssumption
      <3> QED
        BY <2>1, <3>1
    <2>2. CASE \E y \in Buffers \ {x} : Constructed(y) /\ buf[y].block = k
      <3>1. PICK y \in Buffers \ {x} : Constructed(y) /\ buf[y].block = k
        BY <2>2
      <3>2. k # NoBlock
        BY MemBufferAssumption
      <3>3. mem'[k] = mem[k] /\ k \in DOMAIN mem
        BY <3>1, <3>2, Fields
      <3> QED
        BY <3>3 DEF BufferInductive, TypeOK
    <2> QED
      BY <2>1, <2>2
  <1>4. TypeOK'
    BY <1>2, <1>3 DEF TypeOK
  <1>5. Constructed(x)' /\ \A y \in Buffers \ {x} : Constructed(y)' <=> Constructed(y)
    <2>1. nb # Gone
      BY MemBufferAssumption DEF Buffer
    <2> QED
      BY <1>2, <2>1 DEF Constructed
  <1>6. InBounds'
    <2> SUFFICES ASSUME NEW y \in Buffers, Constructed(y)'
                 PROVE  /\ buf'[y].begin <= buf'[y].end /\ buf'[y].end <= buf'[y].capacity
                        /\ buf'[y].block = NoBlock => buf'[y].capacity = 0
                        /\ buf'[y].block # NoBlock =>
                             /\ buf'[y].block \in DOMAIN mem'
                             /\ DOMAIN mem'[buf'[y].block] = 0 .. buf'[y].capacity - 1
      BY DEF InBounds
    <2>1. CASE y = x
      BY <1>2, <2>1
    <2>2. CASE y # x
      BY <1>2, <1>5, <2>2, Fields
    <2> QED
      BY <2>1, <2>2
  <1>7. OwnedOnce'
    <2>1. ASSUME NEW y \in Buffers, NEW z \in Buffers, Constructed(y)', Constructed(z)',
                 buf'[y].block = buf'[z].block, buf'[y].block # NoBlock
          PROVE  y = z
      <3>1. CASE y # x /\ z # x
        BY <1>2, <1>5, <2>1, <3>1 DEF BufferInductive, OwnedOnce
      <3>2. CASE y = x \/ z = x
        BY <1>2, <1>5, <2>1, <3>2
      <3> QED
        BY <3>1, <3>2
    <2>2. ASSUME NEW k \in DOMAIN mem'
          PROVE  \E y \in Buffers : Constructed(y)' /\ buf'[y].block = k
      BY <1>2, <1>5
    <2> QED
      BY <2>1, <2>2 DEF OwnedOnce
  <1>8. \A y \in Buffers \ {x} : Constructed(y) => Holds(buf[y], mem') = Holds(buf[y], mem)
    BY DEF Holds, Data
  <1>9. AllWritten'
    <2> SUFFICES ASSUME NEW y \in Buffers, Constructed(y)'
                 PROVE  Holds(buf'[y], mem') \in Seq(Bytes)
      BY DEF AllWritten
    <2>1. CASE y = x
      BY <1>2, <2>1
    <2>2. CASE y # x
      BY <1>2, <1>5, <1>8, <2>2, Fields
    <2> QED
      BY <2>1, <2>2
  <1> QED
    BY <1>4, <1>6, <1>7, <1>8, <1>9 DEF BufferInductive

-----------------------------------------------------------------------------
(* What memcpy and memmove do to the bytes between begin and end.          *)

LEMMA AdvancedFields ==
    ASSUME NEW b \in Buffer, NEW len \in Nat
    PROVE  /\ Advanced(b, len) \in Buffer
           /\ Advanced(b, len).begin = b.begin /\ Advanced(b, len).block = b.block
           /\ Advanced(b, len).end = b.end + len
           /\ Advanced(b, len).capacity = b.capacity
  <1> DEFINE c == [block |-> b.block, begin |-> b.begin, end |-> b.end + len,
                   capacity |-> b.capacity]
  <1>1. b.begin \in Nat /\ b.end \in Nat /\ b.capacity \in Nat /\ b.block \in Blocks \cup {NoBlock}
    BY DEF Buffer
  <1>2. Advanced(b, len) = c
    BY DEF Buffer, Advanced
  <1>3. c \in Buffer
    BY <1>1 DEF Buffer
  <1> QED
    BY <1>2, <1>3

(* Where the i-th byte lies: behind begin, and behind end if it is one of  *)
(* the l that are written.                                                 *)
Lies(begin, end, size, l, n, i) ==
    /\ begin + i - 1 \in 0 .. n - 1
    /\ i <= size => begin + i - 1 \notin end .. end + l - 1
    /\ ~(i <= size) => /\ begin + i - 1 \in end .. end + l - 1
                       /\ begin + i - 1 - end + 1 = i - size

\* What is written lies behind what was there.
LEMMA Offsets ==
    ASSUME NEW begin \in Nat, NEW end \in Nat, NEW size \in Nat, NEW l \in Nat, NEW n \in Nat,
           size = end - begin, end + l <= n, NEW i \in 1 .. size + l
    PROVE  Lies(begin, end, size, l, n, i)
  BY DEF Lies

\* Bytes put behind the end of a buffer are appended to its content.
LEMMA PutAppends ==
    ASSUME NEW b \in Buffer, NEW n \in Nat, NEW d \in [0 .. n - 1 -> Bytes \cup {Unwritten}],
           NEW src \in Seq(Bytes),
           b.begin <= b.end, b.end + Len(src) <= n, Between(b, d) \in Seq(Bytes)
    PROVE  /\ Put(d, b.end, src) \in [0 .. n - 1 -> Bytes \cup {Unwritten}]
           /\ Between(Advanced(b, Len(src)), Put(d, b.end, src)) = Between(b, d) \o src
           /\ Between(b, d) \o src \in Seq(Bytes)
  <1> DEFINE e == Put(d, b.end, src)
             c == Advanced(b, Len(src))
             old == Between(b, d)
  <1>1. b.begin \in Nat /\ b.end \in Nat /\ Len(src) \in Nat /\ Size(b) \in Nat
    BY LenProperties DEF Buffer, Size
  <1>2. c \in Buffer /\ c.begin = b.begin /\ c.end = b.end + Len(src)
    BY <1>1, AdvancedFields
  <1>3. Size(c) = Size(b) + Len(src)
    BY <1>1, <1>2 DEF Size
  <1>4. e \in [0 .. n - 1 -> Bytes \cup {Unwritten}]
    <2>1. \A i \in b.end .. b.end + Len(src) - 1 : src[i - b.end + 1] \in Bytes
      BY <1>1, ElementOfSeq
    <2> QED
      BY <2>1 DEF Put
  <1>5. DOMAIN old = 1 .. Size(b) /\ Len(old) = Size(b)
    <2>1. DOMAIN old = 1 .. Size(b)
      BY DEF Between
    <2>2. DOMAIN old = 1 .. Len(old) /\ Len(old) \in Nat
      BY LenProperties
    <2> QED
      BY <1>1, <2>1, <2>2
  <1>6. /\ old \o src \in Seq(Bytes) /\ Len(old \o src) = Size(c)
        /\ \A i \in 1 .. Size(c) :
             (old \o src)[i] = IF i <= Size(b) THEN old[i] ELSE src[i - Size(b)]
    <2>1. old \in Seq(Bytes)
      OBVIOUS
    <2> HIDE DEF old, c, e
    <2>2. /\ old \o src \in Seq(Bytes) /\ Len(old \o src) = Len(old) + Len(src)
          /\ \A i \in 1 .. Len(old) + Len(src) :
               (old \o src)[i] = IF i <= Len(old) THEN old[i] ELSE src[i - Len(old)]
      BY <2>1, ConcatProperties
    <2>3. Len(old) = Size(b) /\ Len(old) + Len(src) = Size(c)
      BY <1>3, <1>5
    <2> QED
      BY <2>2, <2>3
  <1>7. ASSUME NEW j \in 0 .. n - 1
        PROVE  e[j] = IF j \in b.end .. b.end + Len(src) - 1 THEN src[j - b.end + 1] ELSE d[j]
    BY DEF Put
  <1> HIDE DEF e, c
  <1>8. ASSUME NEW i \in 1 .. Size(c)
        PROVE  e[c.begin + i - 1] = IF i <= Size(b) THEN old[i] ELSE src[i - Size(b)]
    <2> DEFINE j == b.begin + i - 1
    <2>0. /\ b.begin \in Nat /\ b.end \in Nat /\ Size(b) \in Nat /\ Len(src) \in Nat
          /\ Size(b) = b.end - b.begin /\ i \in 1 .. Size(b) + Len(src)
      BY <1>1, <1>3 DEF Size
    <2>1. /\ j \in 0 .. n - 1 /\ c.begin + i - 1 = j
          /\ i <= Size(b) => j \notin b.end .. b.end + Len(src) - 1
          /\ ~(i <= Size(b)) => /\ j \in b.end .. b.end + Len(src) - 1
                                /\ j - b.end + 1 = i - Size(b)
      <3>1. Lies(b.begin, b.end, Size(b), Len(src), n, i)
        BY <2>0, Offsets
      <3> QED
        BY <1>2, <3>1 DEF Lies
    <2>2. CASE i <= Size(b)
      <3>1. j \notin b.end .. b.end + Len(src) - 1
        BY <2>1, <2>2
      <3>2. i \in 1 .. Size(b) /\ old[i] = d[j]
        BY <1>1, <2>2 DEF Between
      <3> HIDE DEF j, old
      <3> QED
        BY <1>7, <2>1, <2>2, <3>1, <3>2
    <2>3. CASE ~(i <= Size(b))
      <3>1. j \in b.end .. b.end + Len(src) - 1 /\ j - b.end + 1 = i - Size(b)
        BY <2>1, <2>3
      <3> HIDE DEF j, old
      <3> QED
        BY <1>7, <2>1, <2>3, <3>1
    <2> QED
      BY <2>2, <2>3
  <1>9. Between(c, e) = [i \in 1 .. Size(c) |-> (old \o src)[i]]
    BY <1>6, <1>8 DEF Between
  <1>10. old \o src = [i \in 1 .. Size(c) |-> (old \o src)[i]]
    <2> DEFINE t == old \o src
    <2>1. t \in [1 .. Size(c) -> Bytes]
      BY <1>6, LenProperties
    <2> HIDE DEF t
    <2>2. t = [i \in 1 .. Size(c) |-> t[i]]
      BY <2>1
    <2> QED
      BY <2>2 DEF t
  <1>11. Between(c, e) = old \o src
    BY <1>9, <1>10
  <1> QED
    BY <1>4, <1>6, <1>11 DEF e, c

(* Shifting the bytes down, or into a larger block, keeps them.            *)
Shifted(b, d, c, e, m) ==
    /\ b.begin <= b.end /\ b.end <= m
    /\ c.begin = 0 /\ c.end = Size(b)
    /\ \A i \in 0 .. m - 1 : i < Size(b) => e[i] = d[b.begin + i]

\* Shifting the bytes to the start of their block keeps the content.
LEMMA ShiftKeeps ==
    ASSUME NEW b \in Buffer, NEW c \in Buffer, NEW d, NEW e, NEW m \in Nat,
           Shifted(b, d, c, e, m)
    PROVE  Between(c, e) = Between(b, d) /\ c.begin <= c.end /\ c.end <= m
  <1> USE DEF Shifted
  <1>1. b.begin \in Nat /\ b.end \in Nat /\ Size(b) \in Nat /\ Size(b) <= m
    BY DEF Buffer, Size
  <1>2. Size(c) = Size(b)
    BY <1>1 DEF Size
  <1>3. ASSUME NEW i \in 1 .. Size(b)
        PROVE  e[c.begin + i - 1] = d[b.begin + i - 1]
    <2>1. i - 1 \in 0 .. m - 1 /\ i - 1 < Size(b) /\ c.begin + i - 1 = i - 1
          /\ b.begin + (i - 1) = b.begin + i - 1
      BY <1>1
    <2> QED
      BY <2>1
  <1> QED
    BY <1>1, <1>2, <1>3 DEF Between

-----------------------------------------------------------------------------
(* The operations, one by one: each keeps the invariant and is the         *)
(* operation of the same name on a queue.                                  *)

(* A step of one buffer, as the queue sees it.                             *)
LEMMA OneQueue ==
    ASSUME BufferInductive, NEW x \in Buffers, NEW nb, nb # Gone,
           buf' = [buf EXCEPT ![x] = nb],
           \A y \in Buffers \ {x} : Constructed(y) => Holds(buf[y], mem') = Holds(buf[y], mem)
    PROVE  Contents' = [Contents EXCEPT ![x] = Holds(nb, mem')]
  <1>1. buf'[x] = nb /\ \A y \in Buffers \ {x} : buf'[y] = buf[y]
    BY DEF BufferInductive, TypeOK
  <1>2. ASSUME NEW y \in Buffers
        PROVE  (IF Constructed(y)' THEN Holds(buf'[y], mem') ELSE Gone)
               = IF y = x THEN Holds(nb, mem') ELSE Contents[y]
    BY <1>1 DEF Constructed, Contents
  <1>3. Contents' = [y \in Buffers |-> IF Constructed(y)' THEN Holds(buf'[y], mem') ELSE Gone]
    BY DEF Contents
  <1>4. DOMAIN Contents = Buffers
    BY DEF Contents
  <1> QED
    BY <1>2, <1>3, <1>4

\* What the queue sees of a buffer: its bytes, or that it is not there.
LEMMA ContentsTyped ==
    ASSUME BufferInductive, NEW x \in Buffers
    PROVE  /\ Constructed(x) => Contents[x] = Holds(buf[x], mem) /\ Contents[x] \in Seq(Bytes)
           /\ Constructed(x) <=> Contents[x] # Gone
  <1>1. Constructed(x) => Contents[x] = Holds(buf[x], mem) /\ Holds(buf[x], mem) \in Seq(Bytes)
    BY Fields DEF Contents
  <1>2. Gone \notin Seq(Bytes)
    <2>1. Seq(Bytes) \subseteq Seq(Bytes \cup {Unwritten})
      BY SeqDef
    <2> QED
      BY <2>1, MemBufferAssumption
  <1>3. ~Constructed(x) => Contents[x] = Gone
    BY DEF Contents
  <1> QED
    BY <1>1, <1>2, <1>3

(* A buffer whose block, its own or a new one, has room for what is        *)
(* written.                                                                *)
Room(x, src, c, n, d) ==
    /\ c.begin <= c.end /\ c.end + Len(src) <= n /\ c.capacity = n /\ c.block # NoBlock
    /\ Between(c, d) = Holds(buf[x], mem)

Stored(x, src, c, d) ==
    /\ buf' = [buf EXCEPT ![x] = Advanced(c, Len(src))]
    /\ c.block \in DOMAIN mem' /\ mem'[c.block] = Put(d, c.end, src)
    /\ \A k \in DOMAIN mem' :
          k = c.block \/ \E y \in Buffers \ {x} : Constructed(y) /\ buf[y].block = k
    /\ \A y \in Buffers \ {x} : Constructed(y) /\ buf[y].block # NoBlock =>
          /\ buf[y].block # c.block /\ buf[y].block \in DOMAIN mem'
          /\ mem'[buf[y].block] = mem[buf[y].block]
    /\ DOMAIN mem' \subseteq Blocks

\* A write into a block with room keeps the invariant and appends.
LEMMA Writes ==
    ASSUME BufferInductive, NEW x \in Buffers, Constructed(x), NEW src \in Seq(Bytes),
           NEW c \in Buffer, NEW n \in 0 .. MaxCapacity,
           NEW d \in [0 .. n - 1 -> Bytes \cup {Unwritten}],
           Room(x, src, c, n, d), Stored(x, src, c, d), UNCHANGED out
    PROVE  BufferInductive' /\ Contents' = [Contents EXCEPT ![x] = Contents[x] \o src]
  <1> DEFINE nb == Advanced(c, Len(src))
  <1> USE DEF Room, Stored
  <1>1. Len(src) \in Nat /\ n \in Nat
    BY LenProperties, MemBufferAssumption
  <1>2. /\ nb \in Buffer /\ nb.begin = c.begin /\ nb.block = c.block
        /\ nb.end = c.end + Len(src) /\ nb.capacity = n
    BY <1>1, AdvancedFields
  <1>3. Between(c, d) \in Seq(Bytes)
    BY Fields
  <1>4. /\ Put(d, c.end, src) \in [0 .. n - 1 -> Bytes \cup {Unwritten}]
        /\ Between(nb, Put(d, c.end, src)) = Between(c, d) \o src
        /\ Between(c, d) \o src \in Seq(Bytes)
    BY <1>1, <1>3, PutAppends
  <1> HIDE DEF nb
  <1>5. Holds(nb, mem') = Holds(buf[x], mem) \o src /\ Holds(nb, mem') \in Seq(Bytes)
    <2>1. Data(nb, mem') = Put(d, c.end, src)
      BY <1>2 DEF Data
    <2>2. Holds(nb, mem') = Between(c, d) \o src
      BY <1>4, <2>1 DEF Holds
    <2> QED
      BY <1>4, <2>2
  <1>6. nb.begin <= nb.end
    BY <1>1, <1>2 DEF Buffer
  <1>7. out' \in Seq(Bytes \cup {Unwritten})
    BY DEF BufferInductive, TypeOK
  <1>8. buf' = [buf EXCEPT ![x] = nb]
    BY DEF nb
  <1>9. /\ BufferInductive'
        /\ \A y \in Buffers \ {x} : Constructed(y) => Holds(buf[y], mem') = Holds(buf[y], mem)
    <2>1. /\ nb.block # NoBlock /\ nb.block \in DOMAIN mem'
          /\ mem'[nb.block] \in [0 .. n - 1 -> Bytes \cup {Unwritten}]
      BY <1>2, <1>4
    <2>2. \A k \in DOMAIN mem' :
             k = nb.block
             \/ \E y \in Buffers \ {x} : Constructed(y) /\ buf[y].block = k
      BY <1>2
    <2>3. \A y \in Buffers \ {x} : Constructed(y) /\ buf[y].block # NoBlock =>
             /\ buf[y].block # nb.block /\ buf[y].block \in DOMAIN mem'
             /\ mem'[buf[y].block] = mem[buf[y].block]
      BY <1>2
    <2>4. nb \in Buffer /\ nb.begin <= nb.end /\ nb.end <= nb.capacity /\ nb.capacity = n
      BY <1>2, <1>6
    <2> QED
      BY <1>5, <1>7, <1>8, <2>1, <2>2, <2>3, <2>4, OneBuffer
  <1>10. nb # Gone
    BY <1>2, MemBufferAssumption DEF Buffer
  <1>11. Contents' = [Contents EXCEPT ![x] = Holds(nb, mem')]
    BY <1>8, <1>9, <1>10, OneQueue
  <1>12. Contents[x] = Holds(buf[x], mem)
    BY ContentsTyped
  <1> QED
    BY <1>5, <1>9, <1>11, <1>12

(* Who owns what, beside one buffer.                                       *)
LEMMA Owners ==
    ASSUME BufferInductive, NEW x \in Buffers, Constructed(x)
    PROVE  /\ \A y \in Buffers \ {x} : Constructed(y) /\ buf[y].block # NoBlock =>
                /\ buf[y].block # buf[x].block /\ buf[y].block \in DOMAIN mem
           /\ \A k \in DOMAIN mem :
                k = buf[x].block
                \/ \E y \in Buffers \ {x} : Constructed(y) /\ buf[y].block = k
           /\ DOMAIN mem \subseteq Blocks /\ NoBlock \notin DOMAIN mem
  <1>1. \A y \in Buffers \ {x} : Constructed(y) /\ buf[y].block # NoBlock =>
          /\ buf[y].block # buf[x].block /\ buf[y].block \in DOMAIN mem
    BY Fields DEF BufferInductive, OwnedOnce
  <1>2. \A k \in DOMAIN mem :
          k = buf[x].block
          \/ \E y \in Buffers \ {x} : Constructed(y) /\ buf[y].block = k
    BY DEF BufferInductive, OwnedOnce
  <1>3. DOMAIN mem \subseteq Blocks /\ NoBlock \notin DOMAIN mem
    BY MemBufferAssumption DEF BufferInductive, TypeOK
  <1> QED
    BY <1>1, <1>2, <1>3

(* A buffer without a block writes nothing in place.                       *)
LEMMA NothingToWrite ==
    ASSUME BufferInductive, NEW x \in Buffers, Constructed(x), NEW src \in Seq(Bytes),
           WriteInPlace(x, src), buf[x].block = NoBlock, UNCHANGED out
    PROVE  BufferInductive' /\ Contents' = [Contents EXCEPT ![x] = Contents[x] \o src]
  <1>1. /\ buf[x] \in Buffer /\ buf[x].end \in Nat /\ buf[x].capacity = 0
        /\ buf[x].end <= buf[x].capacity /\ Len(src) \in Nat
    BY Fields, LenProperties
  <1>2. Len(src) = 0 /\ buf[x].end = 0
    BY <1>1 DEF WriteInPlace, AvailableSpace
  <1>3. src = <<>>
    BY <1>2, EmptySeq
  <1>4. Advanced(buf[x], Len(src)) = buf[x]
    BY <1>1, <1>2 DEF Advanced, Buffer
  <1>5. buf' = [buf EXCEPT ![x] = buf[x]]
    BY <1>4 DEF WriteInPlace
  <1>6. DOMAIN mem' = DOMAIN mem /\ \A k \in DOMAIN mem : mem'[k] = mem[k]
    BY Owners DEF WriteInPlace
  <1>7. Holds(buf[x], mem') = Holds(buf[x], mem)
    BY DEF Holds, Data
  <1>8. Holds(buf[x], mem') \in Seq(Bytes)
    BY <1>7, Fields
  <1>9. out' \in Seq(Bytes \cup {Unwritten}) /\ 0 \in 0 .. MaxCapacity
    BY MemBufferAssumption DEF BufferInductive, TypeOK
  <1>10. /\ BufferInductive'
         /\ \A y \in Buffers \ {x} : Constructed(y) => Holds(buf[y], mem') = Holds(buf[y], mem)
    <2>1. \A k \in DOMAIN mem' :
             k = buf[x].block
             \/ \E y \in Buffers \ {x} : Constructed(y) /\ buf[y].block = k
      BY <1>6, Owners
    <2>2. \A y \in Buffers \ {x} : Constructed(y) /\ buf[y].block # NoBlock =>
             /\ buf[y].block # buf[x].block /\ buf[y].block \in DOMAIN mem'
             /\ mem'[buf[y].block] = mem[buf[y].block]
      BY <1>6, Owners
    <2>3. DOMAIN mem' \subseteq Blocks
      BY <1>6, Owners
    <2>4. buf[x].begin <= buf[x].end
      BY Fields
    <2> QED
      BY <1>1, <1>5, <1>8, <1>9, <2>1, <2>2, <2>3, <2>4, OneBuffer
  <1>11. Contents' = [Contents EXCEPT ![x] = Holds(buf[x], mem')]
    BY <1>5, <1>10, OneQueue DEF Constructed
  <1>12. Contents[x] \o src = Holds(buf[x], mem)
    BY <1>3, ContentsTyped, ConcatEmptySeq
  <1> QED
    BY <1>7, <1>10, <1>11, <1>12

(* The three ways to write, each a Writes.                                 *)
LEMMA InPlace ==
    ASSUME BufferInductive, NEW x \in Buffers, Constructed(x), NEW src \in Seq(Bytes),
           WriteInPlace(x, src), buf[x].block # NoBlock, UNCHANGED out
    PROVE  BufferInductive' /\ Contents' = [Contents EXCEPT ![x] = Contents[x] \o src]
  <1> DEFINE c == buf[x]
             n == buf[x].capacity
             d == mem[c.block]
  <1>1. /\ c \in Buffer /\ n \in 0 .. MaxCapacity /\ d \in [0 .. n - 1 -> Bytes \cup {Unwritten}]
        /\ c.begin <= c.end /\ c.block \in DOMAIN mem
        /\ c.end \in Nat /\ n \in Nat /\ Len(src) \in Nat
    BY Fields, LenProperties
  <1>2. c.end + Len(src) <= n
    BY <1>1 DEF WriteInPlace, AvailableSpace
  <1>3. Between(c, d) = Holds(buf[x], mem)
    BY DEF Holds, Data
  <1>4. /\ buf' = [buf EXCEPT ![x] = Advanced(c, Len(src))]
        /\ DOMAIN mem' = DOMAIN mem /\ mem'[c.block] = Put(d, c.end, src)
        /\ \A k \in DOMAIN mem : k # c.block => mem'[k] = mem[k]
    BY <1>1 DEF WriteInPlace
  <1>5. /\ \A k \in DOMAIN mem' :
             k = c.block
             \/ \E y \in Buffers \ {x} : Constructed(y) /\ buf[y].block = k
        /\ DOMAIN mem' \subseteq Blocks
        /\ \A y \in Buffers \ {x} : Constructed(y) /\ buf[y].block # NoBlock =>
             /\ buf[y].block # c.block /\ buf[y].block \in DOMAIN mem'
             /\ mem'[buf[y].block] = mem[buf[y].block]
    <2>1. /\ \A y \in Buffers \ {x} : Constructed(y) /\ buf[y].block # NoBlock =>
                /\ buf[y].block # c.block /\ buf[y].block \in DOMAIN mem
          /\ \A k \in DOMAIN mem :
                k = c.block
                \/ \E y \in Buffers \ {x} : Constructed(y) /\ buf[y].block = k
          /\ DOMAIN mem \subseteq Blocks
      BY Owners
    <2> HIDE DEF c, n, d
    <2> QED
      BY <1>4, <2>1
  <1> HIDE DEF c, n, d
  <1>6. c.capacity = n /\ c.block # NoBlock
    BY DEF c, n
  <1>7. Room(x, src, c, n, d) /\ Stored(x, src, c, d)
    BY <1>1, <1>2, <1>3, <1>4, <1>5, <1>6 DEF Room, Stored
  <1> QED
    BY <1>1, <1>7, Writes

\* A write after relocate().
LEMMA AfterRelocating ==
    ASSUME BufferInductive, NEW x \in Buffers, Constructed(x), NEW src \in Seq(Bytes),
           WriteRelocated(x, src), UNCHANGED out
    PROVE  BufferInductive' /\ Contents' = [Contents EXCEPT ![x] = Contents[x] \o src]
  <1> DEFINE b == buf[x]
             c == Relocated(b)
             n == b.capacity
             o == mem[b.block]
             d == RelocatedData(b, o)
  <1>1. /\ b \in Buffer /\ b.begin \in Nat /\ b.end \in Nat /\ n \in Nat /\ Len(src) \in Nat
        /\ b.begin <= b.end /\ b.end <= n
    BY Fields, LenProperties
  <1>2. b.block # NoBlock
    <2>1. CASE b.block = NoBlock
      <3>1. n = 0
        BY <2>1, Fields
      <3>2. n - b.end < Len(src) /\ n - (b.end - b.begin) >= Len(src)
        BY DEF WriteRelocated, AvailableSpace, FreeSpace, Size
      <3> QED
        BY <1>1, <3>1, <3>2
    <2> QED
      BY <2>1
  <1>3. /\ n \in 0 .. MaxCapacity /\ o \in [0 .. n - 1 -> Bytes \cup {Unwritten}]
        /\ b.block \in DOMAIN mem
    BY <1>2, Fields
  <1>4. Size(b) = b.end - b.begin /\ Size(b) \in Nat
    BY <1>1 DEF Size
  <1>5. Size(b) + Len(src) <= n
    <2>1. n - Size(b) >= Len(src)
      BY DEF WriteRelocated, FreeSpace
    <2> QED
      BY <1>1, <1>4, <2>1
  <1>6. /\ c \in Buffer /\ c.begin = 0 /\ c.end = Size(b)
        /\ c.block = b.block /\ c.capacity = n
    <2>1. CASE b.begin > 0
      BY <1>1, <1>4, <2>1 DEF Relocated, ShiftedDown, Buffer
    <2>2. CASE b.begin = 0
      BY <1>1, <1>4, <2>2 DEF Relocated
    <2> QED
      BY <1>1, <2>1, <2>2
  <1>7. /\ d \in [0 .. n - 1 -> Bytes \cup {Unwritten}]
        /\ \A i \in 0 .. n - 1 : i < Size(b) => d[i] = o[b.begin + i]
    <2>1. ASSUME NEW i \in 0 .. n - 1, i < Size(b) PROVE b.begin + i \in 0 .. n - 1
      BY <1>1, <1>4, <2>1
    <2> HIDE DEF b, n, o
    <2> QED
      BY <1>3, <2>1 DEF RelocatedData
  <1>8. /\ buf' = [buf EXCEPT ![x] = Advanced(c, Len(src))]
        /\ DOMAIN mem' = DOMAIN mem /\ mem'[b.block] = Put(d, c.end, src)
        /\ \A k \in DOMAIN mem : k # b.block => mem'[k] = mem[k]
    BY <1>3, <1>6 DEF WriteRelocated
  <1>9. /\ \A k \in DOMAIN mem' :
             k = c.block
             \/ \E y \in Buffers \ {x} : Constructed(y) /\ buf[y].block = k
        /\ DOMAIN mem' \subseteq Blocks
        /\ \A y \in Buffers \ {x} : Constructed(y) /\ buf[y].block # NoBlock =>
             /\ buf[y].block # c.block /\ buf[y].block \in DOMAIN mem'
             /\ mem'[buf[y].block] = mem[buf[y].block]
    <2>1. /\ \A y \in Buffers \ {x} : Constructed(y) /\ buf[y].block # NoBlock =>
                /\ buf[y].block # b.block /\ buf[y].block \in DOMAIN mem
          /\ \A k \in DOMAIN mem :
                k = b.block
                \/ \E y \in Buffers \ {x} : Constructed(y) /\ buf[y].block = k
          /\ DOMAIN mem \subseteq Blocks
      BY Owners
    <2> HIDE DEF b, c, d
    <2> QED
      BY <1>6, <1>8, <2>1
  <1>10. Between(b, o) = Holds(buf[x], mem)
    BY <1>2 DEF Holds, Data
  <1> HIDE DEF b, c, d, n, o
  <1>11. Between(c, d) = Between(b, o) /\ c.begin <= c.end
    <2>1. c \in Buffer /\ c.begin = 0 /\ c.end = Size(b) /\ b \in Buffer /\ b.begin <= b.end
      BY <1>1, <1>6
    <2>2. n \in Nat /\ b.end <= n
      BY <1>1
    <2>3. Shifted(b, o, c, d, n)
      BY <1>7, <2>1, <2>2 DEF Shifted
    <2> QED
      BY <2>1, <2>2, <2>3, ShiftKeeps
  <1>12. c.end + Len(src) <= n /\ c.block \in DOMAIN mem'
    BY <1>3, <1>5, <1>6, <1>8
  <1>13. Room(x, src, c, n, d)
    <2>1. c.block # NoBlock
      BY <1>2, <1>6
    <2> QED
      BY <1>6, <1>10, <1>11, <1>12, <2>1 DEF Room
  <1>14. Stored(x, src, c, d)
    BY <1>3, <1>6, <1>8, <1>9 DEF Stored
  <1> QED
    BY <1>3, <1>6, <1>7, <1>13, <1>14, Writes

\* A write after resize(), which takes a new block and frees the old one.
LEMMA AfterResizing ==
    ASSUME BufferInductive, NEW x \in Buffers, Constructed(x), NEW src \in Seq(Bytes),
           NEW k \in Blocks, WriteResized(x, src, k), UNCHANGED out
    PROVE  BufferInductive' /\ Contents' = [Contents EXCEPT ![x] = Contents[x] \o src]
  <1> DEFINE b == buf[x]
             n == Grown(b, Len(src))
             c == Resized(b, k, n)
             o == Data(b, mem)
             d == ResizedData(b, o, n)
  <1>1. /\ b \in Buffer /\ b.begin \in Nat /\ b.end \in Nat /\ b.capacity \in Nat
        /\ Len(src) \in Nat /\ b.begin <= b.end /\ b.end <= b.capacity
    BY Fields, LenProperties
  <1>2. o \in [0 .. b.capacity - 1 -> Bytes \cup {Unwritten}]
    <2>1. CASE b.block = NoBlock
      <3>1. b.capacity = 0
        BY <2>1, Fields
      <3>2. o \in [0 .. 0 - 1 -> Bytes \cup {Unwritten}]
        BY <2>1 DEF Data, Fresh
      <3> QED
        BY <3>1, <3>2
    <2>2. CASE b.block # NoBlock
      BY <2>2, Fields DEF Data
    <2> QED
      BY <2>1, <2>2
  <1>3. Size(b) = b.end - b.begin /\ Size(b) \in Nat /\ Size(b) <= b.capacity
    BY <1>1 DEF Size
  <1>4. /\ n \in Nat /\ n >= b.capacity + Len(src) /\ n <= MaxCapacity
        /\ n \in 0 .. MaxCapacity
    <2>1. n \in Nat /\ n >= b.capacity + Len(src)
      BY <1>1 DEF Grown
    <2>2. n <= MaxCapacity
      BY DEF WriteResized
    <2> QED
      BY <2>1, <2>2, MemBufferAssumption
  <1>5. c.begin = 0 /\ c.end = Size(b) /\ c.block = k /\ c.capacity = n /\ c \in Buffer
    BY <1>3, <1>4 DEF Resized, Buffer
  <1>6. /\ d \in [0 .. n - 1 -> Bytes \cup {Unwritten}]
        /\ \A i \in 0 .. n - 1 : i < Size(b) => d[i] = o[b.begin + i]
    <2>1. ASSUME NEW i \in 0 .. n - 1, i < Size(b) PROVE b.begin + i \in 0 .. b.capacity - 1
      <3>1. i \in Nat
        BY <1>4
      <3> HIDE DEF b, n
      <3> QED
        BY <1>1, <1>3, <2>1, <3>1
    <2> HIDE DEF b, n, o
    <2>2. DOMAIN d = 0 .. n - 1
          /\ \A i \in 0 .. n - 1 : d[i] = IF i < Size(b) THEN o[b.begin + i] ELSE Unwritten
      BY DEF ResizedData
    <2>3. \A i \in 0 .. n - 1 : i < Size(b) => o[b.begin + i] \in Bytes \cup {Unwritten}
      BY <1>2, <2>1
    <2>4. d = [i \in 0 .. n - 1 |-> IF i < Size(b) THEN o[b.begin + i] ELSE Unwritten]
      BY DEF ResizedData
    <2> QED
      BY <2>2, <2>3, <2>4
  <1>7. k \notin DOMAIN mem /\ k # NoBlock /\ k # b.block
    <2>1. k \notin DOMAIN mem /\ k # NoBlock
      BY MemBufferAssumption DEF WriteResized
    <2> QED
      BY <2>1, Fields
  <1>8. /\ buf' = [buf EXCEPT ![x] = Advanced(c, Len(src))]
        /\ DOMAIN mem' = (DOMAIN mem \cup {k}) \ {b.block}
        /\ mem'[k] = Put(d, c.end, src)
        /\ \A j \in DOMAIN mem' : j # k => mem'[j] = mem[j]
    BY <1>7 DEF WriteResized, Freed, Allocated
  <1>9. /\ \A y \in Buffers \ {x} : Constructed(y) /\ buf[y].block # NoBlock =>
             /\ buf[y].block # b.block /\ buf[y].block \in DOMAIN mem
        /\ \A j \in DOMAIN mem :
             j = b.block
             \/ \E y \in Buffers \ {x} : Constructed(y) /\ buf[y].block = j
        /\ DOMAIN mem \subseteq Blocks
    BY Owners
  <1>10. Between(b, o) = Holds(buf[x], mem)
    BY DEF Holds
  <1> HIDE DEF b, c, d, n, o
  <1>11. /\ \A j \in DOMAIN mem' :
              j = c.block
              \/ \E y \in Buffers \ {x} : Constructed(y) /\ buf[y].block = j
         /\ DOMAIN mem' \subseteq Blocks
         /\ \A y \in Buffers \ {x} : Constructed(y) /\ buf[y].block # NoBlock =>
              /\ buf[y].block # c.block /\ buf[y].block \in DOMAIN mem'
              /\ mem'[buf[y].block] = mem[buf[y].block]
    BY <1>5, <1>7, <1>8, <1>9
  <1>12. Between(c, d) = Between(b, o) /\ c.begin <= c.end
    <2>1. b.capacity \in Nat /\ n \in Nat /\ b.capacity <= n /\ b.end <= b.capacity
      BY <1>1, <1>4
    <2>2. c \in Buffer /\ c.begin = 0 /\ c.end = Size(b) /\ b \in Buffer /\ b.begin <= b.end
      BY <1>1, <1>5
    <2>3. Shifted(b, o, c, d, n)
      BY <1>1, <1>6, <2>1, <2>2 DEF Shifted
    <2> QED
      BY <2>1, <2>2, <2>3, ShiftKeeps
  <1>13. c.end + Len(src) <= n
    BY <1>1, <1>3, <1>4, <1>5
  <1>14. Room(x, src, c, n, d)
    <2>1. c.block # NoBlock
      BY <1>5, <1>7
    <2> QED
      BY <1>5, <1>10, <1>12, <1>13, <2>1 DEF Room
  <1>15. Stored(x, src, c, d)
    <2>1. c.block \in DOMAIN mem' /\ mem'[c.block] = Put(d, c.end, src)
      BY <1>5, <1>7, <1>8
    <2> QED
      BY <1>8, <1>11, <2>1 DEF Stored
  <1> QED
    BY <1>4, <1>5, <1>6, <1>14, <1>15, Writes

(* What a read leaves.                                                     *)
LEMMA Remains ==
    ASSUME NEW b \in Buffer, NEW c \in Buffer, NEW d, NEW n \in Nat,
           b.begin <= b.end, n <= Size(b), Between(b, d) \in Seq(Bytes),
           Size(c) = Size(b) - n, n = Size(b) \/ c.begin = b.begin + n
    PROVE  /\ Between(c, d) = SubSeq(Between(b, d), n + 1, Len(Between(b, d)))
           /\ Between(c, d) \in Seq(Bytes)
           /\ SubSeq(Between(b, d), 1, n) \in Seq(Bytes)
           /\ Len(Between(b, d)) = Size(b)
  <1> DEFINE h == Between(b, d)
             r == SubSeq(h, n + 1, Len(h))
  <1>1. b.begin \in Nat /\ b.end \in Nat /\ c.begin \in Nat /\ Size(b) = b.end - b.begin
        /\ Size(b) \in Nat /\ Size(c) \in Nat
    BY DEF Buffer, Size
  <1>2. Len(h) = Size(b)
    <2>1. DOMAIN h = 1 .. Size(b)
      BY DEF Between
    <2>2. DOMAIN h = 1 .. Len(h) /\ Len(h) \in Nat
      BY LenProperties
    <2> QED
      BY <1>1, <2>1, <2>2
  <1>3. ASSUME NEW i \in 1 .. Size(b) PROVE h[i] = d[b.begin + i - 1] /\ h[i] \in Bytes
    <2>1. h[i] \in Bytes
      BY <1>2, ElementOfSeq
    <2> QED
      BY <2>1 DEF Between
  <1> HIDE DEF h
  <1>4. SubSeq(h, 1, n) \in Seq(Bytes)
    <2>1. \A i \in 1 .. n : h[i] \in Bytes
      BY <1>1, <1>3
    <2> QED
      BY <2>1, SubSeqProperties
  <1>5. /\ r \in Seq(Bytes) /\ Len(r) = Size(c)
        /\ \A i \in 1 .. Size(c) : r[i] = h[n + i]
    <2>1. \A i \in n + 1 .. Len(h) : h[i] \in Bytes
      BY <1>1, <1>2, <1>3
    <2>2. n + 1 \in Int /\ Len(h) \in Int /\ Len(h) - (n + 1) + 1 = Size(c)
      BY <1>1, <1>2
    <2>3. /\ r \in Seq(Bytes)
          /\ Len(r) = IF n + 1 <= Len(h) THEN Len(h) - (n + 1) + 1 ELSE 0
          /\ \A i \in 1 .. Len(h) - (n + 1) + 1 : r[i] = h[(n + 1) + i - 1]
      BY <2>1, <2>2, SubSeqProperties
    <2>4. Len(r) = Size(c)
      BY <1>1, <1>2, <2>2, <2>3
    <2>5. ASSUME NEW i \in 1 .. Size(c) PROVE r[i] = h[n + i]
      <3>1. (n + 1) + i - 1 = n + i
        BY <1>1
      <3> QED
        BY <2>2, <2>3, <3>1
    <2> QED
      BY <2>3, <2>4, <2>5
  <1>6. ASSUME NEW i \in 1 .. Size(c) PROVE d[c.begin + i - 1] = h[n + i]
    <2>1. n + i \in 1 .. Size(b) /\ c.begin = b.begin + n
      BY <1>1
    <2>2. b.begin + (n + i) - 1 = c.begin + i - 1
      BY <1>1, <2>1
    <2> QED
      BY <1>3, <2>1, <2>2
  <1>7. Between(c, d) = r
    <2>1. r \in [1 .. Size(c) -> Bytes]
      BY <1>5, LenProperties
    <2> HIDE DEF r
    <2>2. r = [i \in 1 .. Size(c) |-> r[i]]
      BY <2>1
    <2>3. ASSUME NEW i \in 1 .. Size(c) PROVE d[c.begin + i - 1] = r[i]
      BY <1>5, <1>6
    <2> QED
      BY <2>2, <2>3 DEF Between
  <1> QED
    BY <1>2, <1>4, <1>5, <1>7 DEF h

\* A read returns the first bytes and leaves the rest.
LEMMA Reads ==
    ASSUME BufferInductive, NEW x \in Buffers, NEW len \in Nat, ReadBytes(x, len)
    PROVE  /\ BufferInductive'
           /\ Contents[x] # Gone
           /\ LET n == IF len <= Len(Contents[x]) THEN len ELSE Len(Contents[x])
              IN  /\ out' = SubSeq(Contents[x], 1, n)
                  /\ Contents' = [Contents EXCEPT
                        ![x] = SubSeq(Contents[x], n + 1, Len(Contents[x]))]
  <1> DEFINE b == buf[x]
             n == IF len <= Size(b) THEN len ELSE Size(b)
             c == IF n > 0 THEN Consumed(b, n) ELSE b
             d == Data(b, mem)
             m == b.capacity
  <1>0. Constructed(x)
    BY DEF ReadBytes
  <1>1. /\ b \in Buffer /\ b.begin \in Nat /\ b.end \in Nat /\ m \in Nat
        /\ b.begin <= b.end /\ b.end <= m
        /\ (b.block = NoBlock => m = 0)
        /\ (b.block # NoBlock =>
              /\ b.block \in DOMAIN mem /\ m \in 0 .. MaxCapacity
              /\ mem[b.block] \in [0 .. m - 1 -> Bytes \cup {Unwritten}])
    BY <1>0, Fields
  <1>2. Size(b) = b.end - b.begin /\ Size(b) \in Nat /\ n \in Nat /\ n <= Size(b)
    BY <1>1 DEF Size
  <1>3. /\ out' = SubSeq(Between(b, d), 1, n)
        /\ buf' = [buf EXCEPT ![x] = c] /\ mem' = mem
    BY DEF ReadBytes, Holds
  <1>4. Between(b, d) = Contents[x] /\ Contents[x] \in Seq(Bytes) /\ Contents[x] # Gone
    BY <1>0, ContentsTyped DEF Holds
  <1> HIDE DEF n
  <1>5. /\ c \in Buffer /\ c.block = b.block /\ c.capacity = m
        /\ c.begin <= c.end /\ c.end <= m
        /\ Size(c) = Size(b) - n /\ (n = Size(b) \/ c.begin = b.begin + n)
    <2>1. CASE n > 0 /\ b.begin + n = b.end
      <3>1. c = [b EXCEPT !.begin = 0, !.end = 0]
        BY <2>1 DEF Consumed
      <3> HIDE DEF c
      <3>2. c = [block |-> b.block, begin |-> 0, end |-> 0, capacity |-> m]
        BY <1>1, <3>1 DEF Buffer
      <3>3. b.block \in Blocks \cup {NoBlock} /\ 0 \in Nat
        BY <1>1 DEF Buffer
      <3>4. c \in Buffer /\ c.begin = 0 /\ c.end = 0 /\ c.block = b.block /\ c.capacity = m
        BY <1>1, <3>2, <3>3 DEF Buffer
      <3> QED
        BY <1>1, <1>2, <2>1, <3>4 DEF Size
    <2>2. CASE n > 0 /\ b.begin + n # b.end
      <3>1. c = [b EXCEPT !.begin = b.begin + n]
        BY <2>2 DEF Consumed
      <3> HIDE DEF c
      <3>2. c = [block |-> b.block, begin |-> b.begin + n, end |-> b.end, capacity |-> m]
        BY <1>1, <3>1 DEF Buffer
      <3>3. b.block \in Blocks \cup {NoBlock} /\ b.begin + n \in Nat
        BY <1>1, <1>2 DEF Buffer
      <3>4. /\ c \in Buffer /\ c.begin = b.begin + n /\ c.end = b.end
            /\ c.block = b.block /\ c.capacity = m
        BY <1>1, <3>2, <3>3 DEF Buffer
      <3> QED
        BY <1>1, <1>2, <2>2, <3>4 DEF Size
    <2>3. CASE ~(n > 0)
      <3>1. c = b /\ n = 0
        BY <1>2, <2>3
      <3> QED
        BY <1>1, <1>2, <3>1
    <2> QED
      BY <2>1, <2>2, <2>3
  <1> HIDE DEF c
  <1>6. /\ Between(c, d) = SubSeq(Between(b, d), n + 1, Len(Between(b, d)))
        /\ Between(c, d) \in Seq(Bytes)
        /\ SubSeq(Between(b, d), 1, n) \in Seq(Bytes)
        /\ Len(Between(b, d)) = Size(b)
    <2>1. Between(b, d) \in Seq(Bytes)
      BY <1>4
    <2> QED
      BY <1>1, <1>2, <1>5, <2>1, Remains
  <1>7. Holds(c, mem') = Between(c, d)
    BY <1>3, <1>5 DEF Holds, Data
  <1>8. Constructed(x) /\ c # Gone
    BY <1>0, <1>5, MemBufferAssumption DEF Buffer
  <1>9. m \in 0 .. MaxCapacity
    <2>1. 0 \in 0 .. MaxCapacity
      BY MemBufferAssumption
    <2> QED
      BY <1>1, <2>1
  <1>10. out' \in Seq(Bytes \cup {Unwritten})
    <2>1. Seq(Bytes) \subseteq Seq(Bytes \cup {Unwritten})
      BY SeqDef
    <2> QED
      BY <1>3, <1>6, <2>1
  <1>11. /\ BufferInductive'
         /\ \A y \in Buffers \ {x} : Constructed(y) => Holds(buf[y], mem') = Holds(buf[y], mem)
    <2>1. /\ \A y \in Buffers \ {x} : Constructed(y) /\ buf[y].block # NoBlock =>
               /\ buf[y].block # c.block /\ buf[y].block \in DOMAIN mem'
               /\ mem'[buf[y].block] = mem[buf[y].block]
          /\ \A k \in DOMAIN mem' :
               k = c.block
               \/ \E y \in Buffers \ {x} : Constructed(y) /\ buf[y].block = k
          /\ DOMAIN mem' \subseteq Blocks
      BY <1>3, <1>5, <1>8, Owners
    <2>2. /\ c.block = NoBlock => c.capacity = 0
          /\ c.block # NoBlock =>
               c.block \in DOMAIN mem' /\ mem'[c.block] \in [0 .. m - 1 -> Bytes \cup {Unwritten}]
      BY <1>1, <1>3, <1>5
    <2>3. Holds(c, mem') \in Seq(Bytes)
      BY <1>6, <1>7
    <2>4. buf' = [buf EXCEPT ![x] = c]
      BY <1>3
    <2> HIDE DEF m
    <2> QED
      BY <1>5, <1>9, <1>10, <2>1, <2>2, <2>3, <2>4, OneBuffer
  <1>12. Contents' = [Contents EXCEPT ![x] = Holds(c, mem')]
    BY <1>3, <1>8, <1>11, OneQueue
  <1>13. n = IF len <= Len(Contents[x]) THEN len ELSE Len(Contents[x])
    BY <1>4, <1>6 DEF n
  <1>14. out' = SubSeq(Contents[x], 1, n)
    BY <1>3, <1>4
  <1>15. Contents' = [Contents EXCEPT ![x] = SubSeq(Contents[x], n + 1, Len(Contents[x]))]
    BY <1>4, <1>6, <1>7, <1>12
  <1> QED
    BY <1>4, <1>11, <1>13, <1>14, <1>15

-----------------------------------------------------------------------------
(* Construction, destruction and moves.                                    *)

\* A new buffer is empty, and its block, if it has one, nobody else's.
LEMMA Constructs ==
    ASSUME BufferInductive, NEW x \in Buffers, NEW sz \in FirstSizes, NEW k \in Blocks,
           Construct(x, sz, k)
    PROVE  /\ BufferInductive'
           /\ Contents[x] = Gone
           /\ Contents' = [Contents EXCEPT ![x] = <<>>]
  <1> DEFINE nb == [block |-> IF sz = 0 THEN NoBlock ELSE k, begin |-> 0, end |-> 0,
                    capacity |-> sz]
  <1>1. sz \in 0 .. MaxCapacity /\ sz \in Nat /\ MaxCapacity \in Nat
    BY MemBufferAssumption
  <1>2. ~Constructed(x) /\ k \notin DOMAIN mem /\ out' = out
    BY DEF Construct
  <1>3. buf' = [buf EXCEPT ![x] = nb]
    BY DEF Construct
  <1>4. /\ nb \in Buffer /\ nb.begin = 0 /\ nb.end = 0 /\ nb.capacity = sz
        /\ nb.block = IF sz = 0 THEN NoBlock ELSE k
    BY <1>1 DEF Buffer
  <1>5. /\ sz = 0 => mem' = mem
        /\ sz # 0 => mem' = Allocated(mem, k, Fresh(sz))
    BY DEF Construct
  <1> HIDE DEF nb
  <1>6. NoBlock \notin Blocks
    BY MemBufferAssumption
  <1>7. \A y \in Buffers \ {x} : Constructed(y) /\ buf[y].block # NoBlock =>
          /\ buf[y].block # nb.block /\ buf[y].block \in DOMAIN mem'
          /\ mem'[buf[y].block] = mem[buf[y].block]
    <2> SUFFICES ASSUME NEW y \in Buffers \ {x}, Constructed(y), buf[y].block # NoBlock
                 PROVE  /\ buf[y].block # nb.block /\ buf[y].block \in DOMAIN mem'
                        /\ mem'[buf[y].block] = mem[buf[y].block]
      OBVIOUS
    <2>1. buf[y].block \in DOMAIN mem
      BY Fields
    <2> QED
      BY <1>2, <1>4, <1>5, <2>1 DEF Allocated
  <1>8. \A j \in DOMAIN mem' :
          j = nb.block
          \/ \E y \in Buffers \ {x} : Constructed(y) /\ buf[y].block = j
    <2>1. \A j \in DOMAIN mem : \E y \in Buffers \ {x} : Constructed(y) /\ buf[y].block = j
      BY <1>2 DEF BufferInductive, OwnedOnce
    <2> QED
      BY <1>4, <1>5, <2>1 DEF Allocated
  <1>9. DOMAIN mem' \subseteq Blocks
    BY <1>5 DEF Allocated, BufferInductive, TypeOK
  <1>10. nb.block # NoBlock =>
           nb.block \in DOMAIN mem' /\ mem'[nb.block] \in [0 .. sz - 1 -> Bytes \cup {Unwritten}]
    <2>1. Fresh(sz) \in [0 .. sz - 1 -> Bytes \cup {Unwritten}]
      BY DEF Fresh
    <2> QED
      BY <1>4, <1>5, <2>1 DEF Allocated
  <1>11. Holds(nb, mem') = <<>> /\ Holds(nb, mem') \in Seq(Bytes)
    <2>1. Holds(nb, mem') = <<>>
      BY <1>4 DEF Holds, Between, Size
    <2> QED
      BY <2>1, EmptySeq
  <1>12. out' \in Seq(Bytes \cup {Unwritten})
    BY <1>2 DEF BufferInductive, TypeOK
  <1>13. nb.begin <= nb.end /\ nb.end <= nb.capacity /\ (nb.block = NoBlock => nb.capacity = 0)
    BY <1>1, <1>4, <1>6
  <1>14. /\ BufferInductive'
         /\ \A y \in Buffers \ {x} : Constructed(y) => Holds(buf[y], mem') = Holds(buf[y], mem)
    BY <1>1, <1>3, <1>4, <1>7, <1>8, <1>9, <1>10, <1>11, <1>12, <1>13, OneBuffer
  <1>15. nb # Gone
    BY <1>4, MemBufferAssumption DEF Buffer
  <1>16. Contents' = [Contents EXCEPT ![x] = Holds(nb, mem')]
    BY <1>3, <1>14, <1>15, OneQueue
  <1>17. Contents[x] = Gone
    BY <1>2, ContentsTyped
  <1> QED
    BY <1>11, <1>14, <1>16, <1>17

(* A step that gives buffers new members and frees at most blocks that no  *)
(* buffer has then: what is needed of the members, buffer by buffer.       *)
LEMMA Reassigned ==
    ASSUME BufferInductive, buf' \in [Buffers -> Buffer \cup {Gone}], out' = out,
           DOMAIN mem' \subseteq DOMAIN mem,
           \A k \in DOMAIN mem' : mem'[k] = mem[k],
           \A y \in Buffers : Constructed(y)' =>
             \/ /\ buf'[y].block = NoBlock /\ buf'[y].begin = 0 /\ buf'[y].end = 0
                /\ buf'[y].capacity = 0
             \/ /\ \E z \in Buffers : Constructed(z) /\ buf'[y] = buf[z]
                /\ buf'[y].block # NoBlock => buf'[y].block \in DOMAIN mem',
           OwnedOnce'
    PROVE  /\ BufferInductive'
           /\ \A y, z \in Buffers : Constructed(y)' /\ Constructed(z) /\ buf'[y] = buf[z]
                /\ (buf'[y].block # NoBlock => buf'[y].block \in DOMAIN mem')
                  => Holds(buf'[y], mem') = Holds(buf[z], mem)
  <1>1. \A y, z \in Buffers : Constructed(y)' /\ Constructed(z) /\ buf'[y] = buf[z]
          /\ (buf'[y].block # NoBlock => buf'[y].block \in DOMAIN mem')
            => Holds(buf'[y], mem') = Holds(buf[z], mem)
    BY DEF Holds, Data
  <1>2. TypeOK'
    <2>1. DOMAIN mem' \subseteq Blocks
      BY DEF BufferInductive, TypeOK
    <2>2. \A k \in DOMAIN mem' : \E n \in 0 .. MaxCapacity :
             mem'[k] \in [0 .. n - 1 -> Bytes \cup {Unwritten}]
      BY DEF BufferInductive, TypeOK
    <2>3. out' \in Seq(Bytes \cup {Unwritten})
      BY DEF BufferInductive, TypeOK
    <2> QED
      BY <2>1, <2>2, <2>3 DEF TypeOK
  <1>3. InBounds'
    <2> SUFFICES ASSUME NEW y \in Buffers, Constructed(y)'
                 PROVE  /\ buf'[y].begin <= buf'[y].end /\ buf'[y].end <= buf'[y].capacity
                        /\ buf'[y].block = NoBlock => buf'[y].capacity = 0
                        /\ buf'[y].block # NoBlock =>
                             /\ buf'[y].block \in DOMAIN mem'
                             /\ DOMAIN mem'[buf'[y].block] = 0 .. buf'[y].capacity - 1
      BY DEF InBounds
    <2>1. CASE /\ buf'[y].block = NoBlock /\ buf'[y].begin = 0 /\ buf'[y].end = 0
               /\ buf'[y].capacity = 0
      BY <2>1
    <2>2. CASE /\ \E z \in Buffers : Constructed(z) /\ buf'[y] = buf[z]
               /\ buf'[y].block # NoBlock => buf'[y].block \in DOMAIN mem'
      <3>1. PICK z \in Buffers : Constructed(z) /\ buf'[y] = buf[z]
        BY <2>2
      <3>2. /\ buf[z].begin <= buf[z].end /\ buf[z].end <= buf[z].capacity
            /\ buf[z].block = NoBlock => buf[z].capacity = 0
            /\ buf[z].block # NoBlock => DOMAIN mem[buf[z].block] = 0 .. buf[z].capacity - 1
        BY <3>1, Fields
      <3> QED
        BY <2>2, <3>1, <3>2
    <2> QED
      BY <2>1, <2>2
  <1>4. AllWritten'
    <2> SUFFICES ASSUME NEW y \in Buffers, Constructed(y)'
                 PROVE  Holds(buf'[y], mem') \in Seq(Bytes)
      BY DEF AllWritten
    <2>1. CASE /\ buf'[y].block = NoBlock /\ buf'[y].begin = 0 /\ buf'[y].end = 0
               /\ buf'[y].capacity = 0
      <3>1. Holds(buf'[y], mem') = <<>>
        BY <2>1 DEF Holds, Between, Size
      <3> QED
        BY <3>1, EmptySeq
    <2>2. CASE /\ \E z \in Buffers : Constructed(z) /\ buf'[y] = buf[z]
               /\ buf'[y].block # NoBlock => buf'[y].block \in DOMAIN mem'
      <3>1. PICK z \in Buffers : Constructed(z) /\ buf'[y] = buf[z]
        BY <2>2
      <3>2. Holds(buf'[y], mem') = Holds(buf[z], mem)
        BY <1>1, <2>2, <3>1
      <3>3. Holds(buf[z], mem) \in Seq(Bytes)
        BY <3>1, Fields
      <3> QED
        BY <3>2, <3>3
    <2> QED
      BY <2>1, <2>2
  <1> QED
    BY <1>1, <1>2, <1>3, <1>4 DEF BufferInductive

\* A destructor frees the block of its buffer alone.
LEMMA Destroys ==
    ASSUME BufferInductive, NEW x \in Buffers, Destroy(x)
    PROVE  /\ BufferInductive'
           /\ Contents[x] # Gone
           /\ Contents' = [Contents EXCEPT ![x] = Gone]
  <1>1. /\ Constructed(x) /\ out' = out /\ mem' = Freed(mem, buf[x].block)
        /\ buf' = [buf EXCEPT ![x] = Gone]
    BY DEF Destroy
  <1>2. buf \in [Buffers -> Buffer \cup {Gone}]
    BY DEF BufferInductive, TypeOK
  <1>3. /\ buf' \in [Buffers -> Buffer \cup {Gone}] /\ buf'[x] = Gone
        /\ \A y \in Buffers \ {x} : buf'[y] = buf[y]
    BY <1>1, <1>2
  <1>4. DOMAIN mem' = DOMAIN mem \ {buf[x].block} /\ \A k \in DOMAIN mem' : mem'[k] = mem[k]
    BY <1>1 DEF Freed
  <1>5. /\ ~Constructed(x)'
        /\ \A y \in Buffers \ {x} : Constructed(y)' <=> Constructed(y)
    BY <1>3 DEF Constructed
  <1>6. \A y \in Buffers \ {x} : Constructed(y) /\ buf[y].block # NoBlock =>
          buf[y].block \in DOMAIN mem'
    BY <1>1, <1>4, Owners
  <1>7. OwnedOnce'
    <2>1. ASSUME NEW y \in Buffers, NEW z \in Buffers, Constructed(y)', Constructed(z)',
                 buf'[y].block = buf'[z].block, buf'[y].block # NoBlock
          PROVE  y = z
      BY <1>3, <1>5, <2>1 DEF BufferInductive, OwnedOnce
    <2>2. ASSUME NEW k \in DOMAIN mem'
          PROVE  \E y \in Buffers : Constructed(y)' /\ buf'[y].block = k
      BY <1>1, <1>3, <1>4, <1>5, Owners
    <2> QED
      BY <2>1, <2>2 DEF OwnedOnce
  <1>8. \A y \in Buffers : Constructed(y)' =>
          /\ \E z \in Buffers : Constructed(z) /\ buf'[y] = buf[z]
          /\ buf'[y].block # NoBlock => buf'[y].block \in DOMAIN mem'
    BY <1>3, <1>5, <1>6
  <1>9. /\ BufferInductive'
        /\ \A y, z \in Buffers : Constructed(y)' /\ Constructed(z) /\ buf'[y] = buf[z]
             /\ (buf'[y].block # NoBlock => buf'[y].block \in DOMAIN mem')
               => Holds(buf'[y], mem') = Holds(buf[z], mem)
    BY <1>1, <1>3, <1>4, <1>7, <1>8, Reassigned
  <1>10. ASSUME NEW y \in Buffers
         PROVE  (IF Constructed(y)' THEN Holds(buf'[y], mem') ELSE Gone)
                = IF y = x THEN Gone ELSE Contents[y]
    <2>1. CASE y = x
      BY <1>5, <2>1
    <2>2. CASE y # x /\ Constructed(y)
      BY <1>3, <1>5, <1>6, <1>9, <2>2, ContentsTyped
    <2>3. CASE y # x /\ ~Constructed(y)
      BY <1>5, <2>3, ContentsTyped
    <2> QED
      BY <2>1, <2>2, <2>3
  <1>11. Contents' = [y \in Buffers |-> IF Constructed(y)' THEN Holds(buf'[y], mem') ELSE Gone]
    BY DEF Contents
  <1>12. Contents' = [Contents EXCEPT ![x] = Gone]
    <2>1. DOMAIN Contents = Buffers
      BY DEF Contents
    <2> QED
      BY <1>10, <1>11, <2>1
  <1> QED
    BY <1>1, <1>9, <1>12, ContentsTyped

\* The members of a buffer that was moved from.
LEMMA EmptiedFields ==
    ASSUME NEW b \in Buffer
    PROVE  /\ Emptied(b) \in Buffer
           /\ Emptied(b).block = NoBlock /\ Emptied(b).begin = 0 /\ Emptied(b).end = 0
           /\ Emptied(b).capacity = 0
  BY DEF Emptied, Buffer

(* Both moves: y's block goes to x, whose own is freed.                    *)
LEMMA HandsOver ==
    ASSUME BufferInductive, NEW x \in Buffers, NEW y \in Buffers, x # y, Constructed(y),
           buf' = [buf EXCEPT ![x] = buf[y], ![y] = Emptied(buf[y])],
           mem' = IF Constructed(x) THEN Freed(mem, buf[x].block) ELSE mem,
           out' = out
    PROVE  /\ BufferInductive'
           /\ Contents[y] # Gone
           /\ Contents' = [Contents EXCEPT ![x] = Contents[y], ![y] = <<>>]
  <1> DEFINE e == Emptied(buf[y])
  <1>1. buf \in [Buffers -> Buffer \cup {Gone}] /\ buf[y] \in Buffer
    BY Fields DEF BufferInductive, TypeOK
  <1>2. e \in Buffer /\ e.block = NoBlock /\ e.begin = 0 /\ e.end = 0 /\ e.capacity = 0
    BY <1>1, EmptiedFields
  <1>3. e # Gone
    BY <1>2, MemBufferAssumption DEF Buffer
  <1>4. /\ buf'[x] = buf[y] /\ buf'[y] = e
        /\ \A z \in Buffers \ {x, y} : buf'[z] = buf[z]
    BY <1>1
  <1>5. buf' \in [Buffers -> Buffer \cup {Gone}]
    BY <1>1, <1>2
  <1> HIDE DEF e
  <1>6. /\ Constructed(x)' /\ Constructed(y)'
        /\ \A z \in Buffers \ {x, y} : Constructed(z)' <=> Constructed(z)
    BY <1>3, <1>4 DEF Constructed
  <1>7. /\ DOMAIN mem' = IF Constructed(x) THEN DOMAIN mem \ {buf[x].block} ELSE DOMAIN mem
        /\ \A k \in DOMAIN mem' : mem'[k] = mem[k]
    BY DEF Freed
  <1>8. \A z \in Buffers \ {x} : Constructed(z) /\ buf[z].block # NoBlock =>
          buf[z].block \in DOMAIN mem'
    <2> SUFFICES ASSUME NEW z \in Buffers \ {x}, Constructed(z), buf[z].block # NoBlock
                 PROVE  buf[z].block \in DOMAIN mem'
      OBVIOUS
    <2>1. buf[z].block \in DOMAIN mem
      BY Fields
    <2>2. Constructed(x) => buf[z].block # buf[x].block
      BY Owners
    <2> QED
      BY <1>7, <2>1, <2>2
  <1>9. \A z \in Buffers : Constructed(z)' =>
          \/ buf'[z] = e
          \/ /\ \E w \in Buffers \ {x} : Constructed(w) /\ buf'[z] = buf[w]
             /\ buf'[z].block # NoBlock => buf'[z].block \in DOMAIN mem'
    BY <1>4, <1>6, <1>8
  <1>10. OwnedOnce'
    <2>1. ASSUME NEW z \in Buffers, NEW w \in Buffers, Constructed(z)', Constructed(w)',
                 buf'[z].block = buf'[w].block, buf'[z].block # NoBlock
          PROVE  z = w
      <3>1. z # y /\ w # y
        BY <1>2, <1>4, <2>1
      <3>2. PICK z0 \in Buffers :
              Constructed(z0) /\ buf'[z] = buf[z0] /\ z0 = IF z = x THEN y ELSE z
        BY <1>4, <1>6, <2>1, <3>1
      <3>3. PICK w0 \in Buffers :
              Constructed(w0) /\ buf'[w] = buf[w0] /\ w0 = IF w = x THEN y ELSE w
        BY <1>4, <1>6, <2>1, <3>1
      <3>4. z0 = w0
        BY <2>1, <3>2, <3>3 DEF BufferInductive, OwnedOnce
      <3> QED
        BY <3>1, <3>2, <3>3, <3>4
    <2>2. ASSUME NEW k \in DOMAIN mem'
          PROVE  \E z \in Buffers : Constructed(z)' /\ buf'[z].block = k
      <3>1. PICK w \in Buffers : Constructed(w) /\ buf[w].block = k
        BY <1>7 DEF BufferInductive, OwnedOnce
      <3>2. w # x
        BY <1>7, <3>1
      <3> QED
        BY <1>4, <1>6, <3>1, <3>2
    <2> QED
      BY <2>1, <2>2 DEF OwnedOnce
  <1>11. \A z \in Buffers : Constructed(z)' =>
           \/ /\ buf'[z].block = NoBlock /\ buf'[z].begin = 0 /\ buf'[z].end = 0
              /\ buf'[z].capacity = 0
           \/ /\ \E w \in Buffers : Constructed(w) /\ buf'[z] = buf[w]
              /\ buf'[z].block # NoBlock => buf'[z].block \in DOMAIN mem'
    <2> SUFFICES ASSUME NEW z \in Buffers, Constructed(z)'
                 PROVE  \/ /\ buf'[z].block = NoBlock /\ buf'[z].begin = 0 /\ buf'[z].end = 0
                           /\ buf'[z].capacity = 0
                        \/ /\ \E w \in Buffers : Constructed(w) /\ buf'[z] = buf[w]
                           /\ buf'[z].block # NoBlock => buf'[z].block \in DOMAIN mem'
      OBVIOUS
    <2>1. CASE buf'[z] = e
      BY <1>2, <2>1
    <2>2. CASE buf'[z] # e
      BY <1>9, <2>2
    <2> QED
      BY <2>1, <2>2
  <1>12. /\ BufferInductive'
         /\ \A z, w \in Buffers : Constructed(z)' /\ Constructed(w) /\ buf'[z] = buf[w]
              /\ (buf'[z].block # NoBlock => buf'[z].block \in DOMAIN mem')
                => Holds(buf'[z], mem') = Holds(buf[w], mem)
    <2>1. DOMAIN mem' \subseteq DOMAIN mem
      BY <1>7
    <2> QED
      BY <1>5, <1>7, <1>10, <1>11, <2>1, Reassigned
  <1>13. ASSUME NEW z \in Buffers
         PROVE  (IF Constructed(z)' THEN Holds(buf'[z], mem') ELSE Gone)
                = IF z = y THEN <<>> ELSE IF z = x THEN Contents[y] ELSE Contents[z]
    <2>1. CASE z = y
      <3>1. Holds(e, mem') = <<>>
        BY <1>2 DEF Holds, Between, Size
      <3> QED
        BY <1>4, <1>6, <2>1, <3>1
    <2>2. CASE z = x
      <3>1. buf'[z] = buf[y] /\ Constructed(z)' /\ z # y
        BY <1>4, <1>6, <2>2
      <3>2. buf'[z].block # NoBlock => buf'[z].block \in DOMAIN mem'
        BY <1>8, <3>1
      <3>3. Holds(buf'[z], mem') = Holds(buf[y], mem)
        BY <1>12, <3>1, <3>2
      <3>4. Contents[y] = Holds(buf[y], mem)
        BY ContentsTyped
      <3> QED
        BY <2>2, <3>1, <3>3, <3>4
    <2>3. CASE z # x /\ z # y /\ Constructed(z)
      <3>1. buf'[z] = buf[z] /\ Constructed(z)'
        BY <1>4, <1>6, <2>3
      <3>2. buf'[z].block # NoBlock => buf'[z].block \in DOMAIN mem'
        BY <1>8, <2>3, <3>1
      <3>3. Holds(buf'[z], mem') = Holds(buf[z], mem)
        BY <1>12, <2>3, <3>1, <3>2
      <3>4. Contents[z] = Holds(buf[z], mem)
        BY <2>3, ContentsTyped
      <3> QED
        BY <2>3, <3>1, <3>3, <3>4
    <2>4. CASE z # x /\ z # y /\ ~Constructed(z)
      BY <1>6, <2>4, ContentsTyped
    <2> QED
      BY <2>1, <2>2, <2>3, <2>4
  <1>14. Contents' = [z \in Buffers |-> IF Constructed(z)' THEN Holds(buf'[z], mem') ELSE Gone]
    BY DEF Contents
  <1>15. Contents' = [Contents EXCEPT ![x] = Contents[y], ![y] = <<>>]
    <2>1. DOMAIN Contents = Buffers
      BY DEF Contents
    <2> QED
      BY <1>13, <1>14, <2>1
  <1> QED
    BY <1>12, <1>15, ContentsTyped

-----------------------------------------------------------------------------
(* Each step keeps the invariant and is a step of the queue.               *)

\* The invariant holds when no buffer is constructed.
LEMMA InitInductive ==
    ASSUME BufferInit
    PROVE  BufferInductive /\ Queue!Init
  <1>1. /\ buf \in [Buffers -> Buffer \cup {Gone}] /\ \A x \in Buffers : buf[x] = Gone
        /\ DOMAIN mem = {} /\ out = <<>>
    BY DEF BufferInit
  <1>2. TypeOK
    BY <1>1, EmptySeq DEF TypeOK
  <1>3. InBounds /\ OwnedOnce /\ AllWritten
    BY <1>1 DEF InBounds, OwnedOnce, AllWritten, Constructed
  <1>4. Queue!Init
    BY <1>1 DEF Queue!Init, Contents, Constructed
  <1> QED
    BY <1>2, <1>3, <1>4 DEF BufferInductive

Simulated == BufferInductive' /\ (Queue!Next \/ UNCHANGED <<Contents, out>>)

\* What is written at once is a sequence of bytes.
LEMMA SourceTyped ==
    ASSUME NEW src \in Sources
    PROVE  src \in Seq(Bytes)
  <1>1. PICK n \in 0 .. MaxLen : src \in [1 .. n -> Bytes]
    BY DEF Sources
  <1>2. n \in Nat
    BY MemBufferAssumption
  <1> QED
    BY <1>1, <1>2, SeqDef

\* write_bytes, by the three ways to make room.
LEMMA WriteStep ==
    ASSUME BufferInductive, NEW x \in Buffers, NEW src \in Sources, WriteBytes(x, src)
    PROVE  Simulated
  <1>1. src \in Seq(Bytes)
    BY SourceTyped
  <1>2. Constructed(x) /\ UNCHANGED out
    BY DEF WriteBytes
  <1>3. BufferInductive' /\ Contents' = [Contents EXCEPT ![x] = Contents[x] \o src]
    <2>1. CASE WriteInPlace(x, src) /\ buf[x].block = NoBlock
      BY <1>1, <1>2, <2>1, NothingToWrite
    <2>2. CASE WriteInPlace(x, src) /\ buf[x].block # NoBlock
      BY <1>1, <1>2, <2>2, InPlace
    <2>3. CASE WriteRelocated(x, src)
      BY <1>1, <1>2, <2>3, AfterRelocating
    <2>4. ASSUME NEW k \in Blocks, WriteResized(x, src, k)
          PROVE  BufferInductive' /\ Contents' = [Contents EXCEPT ![x] = Contents[x] \o src]
      BY <1>1, <1>2, <2>4, AfterResizing
    <2> QED
      BY <2>1, <2>2, <2>3, <2>4 DEF WriteBytes
  <1>4. Contents[x] # Gone
    BY <1>2, ContentsTyped
  <1>5. Queue!Write(x, src)
    BY <1>2, <1>3, <1>4 DEF Queue!Write, Queue!Constructed
  <1> QED
    BY <1>3, <1>5 DEF Simulated, Queue!Next

\* read, with any length that may be asked for.
LEMMA ReadStep ==
    ASSUME BufferInductive, NEW x \in Buffers, NEW len \in 0 .. MaxLen, ReadBytes(x, len)
    PROVE  Simulated
  <1>1. len \in Nat
    BY MemBufferAssumption
  <1>2. /\ BufferInductive'
        /\ Contents[x] # Gone
        /\ LET n == IF len <= Len(Contents[x]) THEN len ELSE Len(Contents[x])
           IN  /\ out' = SubSeq(Contents[x], 1, n)
               /\ Contents' = [Contents EXCEPT
                     ![x] = SubSeq(Contents[x], n + 1, Len(Contents[x]))]
    BY <1>1, Reads
  <1>3. Queue!Read(x, len)
    BY <1>2 DEF Queue!Read, Queue!Constructed, Queue!Lesser
  <1> QED
    BY <1>2, <1>3 DEF Simulated, Queue!Next

\* The move constructor and the move assignment.
LEMMA MoveStep ==
    ASSUME BufferInductive, NEW x \in Buffers, NEW y \in Buffers,
           MoveConstruct(x, y) \/ MoveAssign(x, y)
    PROVE  Simulated
  <1>1. /\ x # y /\ Constructed(y) /\ UNCHANGED out
        /\ buf' = [buf EXCEPT ![x] = buf[y], ![y] = Emptied(buf[y])]
        /\ mem' = IF Constructed(x) THEN Freed(mem, buf[x].block) ELSE mem
    BY DEF MoveConstruct, MoveAssign
  <1>2. /\ BufferInductive'
        /\ Contents[y] # Gone
        /\ Contents' = [Contents EXCEPT ![x] = Contents[y], ![y] = <<>>]
    BY <1>1, HandsOver
  <1>3. Queue!Move(x, y)
    BY <1>1, <1>2 DEF Queue!Move, Queue!Constructed
  <1> QED
    BY <1>2, <1>3 DEF Simulated, Queue!Next

\* Every step keeps the invariant and is one of the queue.
LEMMA InductiveStep ==
    ASSUME BufferInductive, [BufferNext]_bufferVars
    PROVE  Simulated
  <1>1. ASSUME NEW x \in Buffers, NEW sz \in FirstSizes, NEW k \in Blocks,
               Construct(x, sz, k)
        PROVE  Simulated
    <2>1. BufferInductive' /\ Contents[x] = Gone /\ Contents' = [Contents EXCEPT ![x] = <<>>]
      BY <1>1, Constructs
    <2>2. Queue!Construct(x)
      BY <1>1, <2>1 DEF Construct, Queue!Construct, Queue!Constructed
    <2> QED
      BY <2>1, <2>2 DEF Simulated, Queue!Next
  <1>2. ASSUME NEW x \in Buffers, Destroy(x)
        PROVE  Simulated
    <2>1. BufferInductive' /\ Contents[x] # Gone /\ Contents' = [Contents EXCEPT ![x] = Gone]
      BY <1>2, Destroys
    <2>2. Queue!Destroy(x)
      BY <1>2, <2>1 DEF Destroy, Queue!Destroy, Queue!Constructed
    <2> QED
      BY <2>1, <2>2 DEF Simulated, Queue!Next
  <1>3. CASE UNCHANGED bufferVars
    BY <1>3 DEF bufferVars, Simulated, BufferInductive, TypeOK, InBounds, OwnedOnce, AllWritten, Contents,
                Constructed, Holds, Between, Data, Size
  <1> QED
    BY <1>1, <1>2, <1>3, WriteStep, ReadStep, MoveStep DEF BufferNext

-----------------------------------------------------------------------------
(* Types, offsets, owners and written bytes, for any number of buffers of  *)
(* any size: the inductive invariant (MemBuffer.cpp:10-45, 67-87).         *)
THEOREM BufferInvariant == BufferSpec => []BufferInductive
  <1>1. BufferInit => BufferInductive
    BY InitInductive
  <1>2. BufferInductive /\ [BufferNext]_bufferVars => BufferInductive'
    BY InductiveStep DEF Simulated
  <1> QED
    BY <1>1, <1>2, PTL DEF BufferSpec

(* No operation of a MemBuffer touches memory outside the block it owns    *)
(* (MemBuffer.cpp:10-45, 78-87).                                           *)
THEOREM MemorySafe == BufferSpec => []InBounds
  <1>1. BufferInductive => InBounds
    BY DEF BufferInductive
  <1> QED
    BY <1>1, BufferInvariant, PTL

(* Each block has exactly one owner until it is freed                      *)
(* (MemBuffer.h:44-75).                                                    *)
THEOREM SingleOwner == BufferSpec => []OwnedOnce
  <1>1. BufferInductive => OwnedOnce
    BY DEF BufferInductive
  <1> QED
    BY <1>1, BufferInvariant, PTL

(* A MemBuffer is a queue of bytes: shifting, growing and moving change    *)
(* nothing that a reader sees (MemBuffer.cpp:41-45, 67-87).                *)
THEOREM BufferRefinement == BufferSpec => ImplementsQueue
  <1>1. BufferInit => BufferInductive /\ Queue!Init
    BY InitInductive
  <1>2. BufferInductive /\ [BufferNext]_bufferVars => BufferInductive' /\ [Queue!Next]_<<Contents, out>>
    BY InductiveStep DEF Simulated
  <1> QED
    BY <1>1, <1>2, PTL DEF BufferSpec, ImplementsQueue, Queue!Spec
=============================================================================
